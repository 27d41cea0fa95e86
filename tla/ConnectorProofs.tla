-------------------------- MODULE ConnectorProofs --------------------------
(***************************************************************************)
(* Proofs about Connector: the invariant is shown for each member function *)
(* on the record of the variables, then for each action.                   *)
(***************************************************************************)
EXTENDS Connector, WatcherLemmas

StateFields == {"core", "table", "watcher", "tasks", "conn", "stack"}
ConnFields ==
  {"owner", "alive", "pipe", "error", "paused", "handler", "read", "closed", "starts"}

\* The tasks that are not the watchers'.
Foreign(k) == IF k.owner = "set" THEN {DestroyTask} ELSE {}

\* The connector's two watchers, if it has them, are those of the last start.
Numbered(k) ==
  /\ DOMAIN k = ConnFields /\ k.starts \in 0..MaxStarts
  /\ \/ k.read = 0 /\ k.closed = 0
     \/ k.starts # 0 /\ k.read = 2 * k.starts - 1 /\ k.closed = 2 * k.starts

\* No watcher but the connector's has a trap, and its pipe is a pipe's end.
Held(c, W, k) ==
  /\ \A w \in Watchers : W[w].trap # 0 => w \in {k.read, k.closed}
  /\ k.read # 0 => W[k.read].trap # 0
  /\ k.pipe # 0 => k.pipe = LocalEnd /\ IsA(c, LocalEnd, "MessagePipe")

Base(s) ==
  /\ DOMAIN s = StateFields /\ Sound(s, Foreign(s.conn)) /\ DOMAIN s.watcher = Watchers
  /\ Numbered(s.conn) /\ Held(s.core, s.watcher, s.conn)

\* When it watches.
Exactly(k) ==
  /\ k.read # 0 <=> k.alive /\ k.starts # 0 /\ ~k.paused /\ k.pipe # 0
  /\ k.error => k.pipe = 0
  /\ k.paused => k.starts # 0

CallTyped(call) ==
  /\ "fn" \in DOMAIN call
  /\ call.fn = "callback" => DOMAIN call = {"fn", "at", "task"} /\ call.task.watcher \in Watchers

\* What is on the stack.
Calls(st, k) ==
  /\ \E S : st \in Seq(S)
  /\ \A i \in DOMAIN st : CallTyped(st[i])
  /\ k.owner = "set" => \A i \in DOMAIN st : st[i].fn # "wait"
  /\ ~k.alive => st = <<>>

Fits(s) == Base(s) /\ Exactly(s.conn) /\ Calls(s.stack, s.conn)

CInv == Fits(State)

-----------------------------------------------------------------------------
(* The member functions of SimpleWatcher leave the connector's fields.     *)

\* r is s but for the core, the table, the watchers and the tasks.
Frame(s, r) == DOMAIN r = StateFields /\ r.conn = s.conn /\ r.stack = s.stack

LEMMA CancelFrame ==
  ASSUME NEW s, DOMAIN s = StateFields, NEW w
  PROVE  Frame(s, Cancel(s, w))
BY DEF Frame, Cancel, StateFields

LEMMA ArmFrame ==
  ASSUME NEW s, DOMAIN s = StateFields, NEW w
  PROVE  Frame(s, Arm(s, w))
BY DEF Frame, Arm, Notify, StateFields

LEMMA PumpedFrame ==
  ASSUME NEW s, DOMAIN s = StateFields
  PROVE  Frame(s, Pumped(s))
BY DEF Frame, Pumped, OnTrapEvents, StateFields

LEMMA WatchFrame ==
  ASSUME NEW s, DOMAIN s = StateFields, NEW w, NEW h, NEW signals, NEW callback
  PROVE  Frame(s, Watch(s, w, h, signals, callback))
<1> DEFINE s1 == Cancel(s, w)
           trap  == NextHandle(s1.core)
           entry == NextEntry(s1.table)
           s2 == [s1 EXCEPT !.core = WhpCreateTrap(@),
                            !.table = AllocateEntry(@, Entry(WatcherTag, w)),
                            !.watcher[w] = [@ EXCEPT !.callback = callback, !.handle = h,
                                                     !.trap = trap, !.watcher_handle = entry]]
           s3 == [s2 EXCEPT !.core = WhpAddTrigger(@, trap, h, signals, "SATISFIED", entry)]
           undone == [s2 EXCEPT !.table = FreeEntry(@, entry),
                                !.core = WhpClose(@, trap),
                                !.watcher[w] = [Fresh EXCEPT !.callback = callback]]
           r == Watch(s, w, h, signals, callback)
<1>1. r = IF ~Lookup(s2.core, h) THEN undone
          ELSE IF Policy[w] = "kAutomatic" THEN Arm(s3, w) ELSE s3
  BY ZenonT(60) DEF Watch
<1> HIDE DEF r
<1>2. Frame(s, s1)
  BY CancelFrame
<1> HIDE DEF s1
<1>3. Frame(s, s2)
  BY <1>2 DEF Frame, StateFields
<1> HIDE DEF s2
<1>4. Frame(s, undone) /\ Frame(s, s3)
  BY <1>3 DEF Frame, StateFields
<1> HIDE DEF undone, s3
<1>5. Frame(s3, Arm(s3, w))
  BY <1>4, ArmFrame DEF Frame
<1> QED BY <1>1, <1>4, <1>5 DEF Frame, r

-----------------------------------------------------------------------------
(* The member functions of the connector.                                  *)

\* The ends of pipes that a handle names are the same.
SamePipe(s, r) == SameEnds(s.core, r.core, {})

\* Neither watcher is there.
NoWatch(W) == \A w \in Watchers : W[w].trap = 0

\* r is s, of the same connector, with none of the traps in X.
Dropping(s, r, X) ==
  /\ Frame(s, r) /\ Sound(r, Foreign(s.conn)) /\ DOMAIN r.watcher = Watchers
  /\ SamePipe(s, r)
  /\ \A w \in Watchers : r.watcher[w].trap = IF w \in X THEN 0 ELSE s.watcher[w].trap

(* The watchers' numbers.                                                  *)
LEMMA StartNumbers ==
  ASSUME NEW n \in 1..MaxStarts
  PROVE  /\ 2 * n - 1 \in Watchers /\ 2 * n \in Watchers /\ 2 * n - 1 # 2 * n
         /\ 2 * n - 1 # 0 /\ 2 * n # 0
<1>1. MaxStarts \in Nat
  BY ConnectorAssumption
<1>2. n \in Nat /\ n >= 1 /\ n <= MaxStarts
  BY <1>1
<1>3. 2 * n <= 2 * MaxStarts
  BY <1>1, <1>2
<1> QED BY <1>1, <1>2, <1>3 DEF Watchers

LEMMA NumbersOfWatchers ==
  ASSUME NEW k, Numbered(k)
  PROVE  /\ k.read # 0 => k.read \in Watchers
         /\ k.closed # 0 => k.closed \in Watchers
         /\ k.read # 0 => k.closed # 0 /\ k.read # k.closed
         /\ k.read = 0 => k.closed = 0
<1>1. MaxStarts \in Nat
  BY ConnectorAssumption
<1>2. CASE k.read = 0 /\ k.closed = 0
  BY <1>2
<1>3. CASE k.starts # 0 /\ k.read = 2 * k.starts - 1 /\ k.closed = 2 * k.starts
  <2>1. k.starts \in 1..MaxStarts
    BY <1>1, <1>3 DEF Numbered
  <2> QED BY <1>3, <2>1, StartNumbers
<1> QED BY <1>2, <1>3 DEF Numbered

LEMMA NoneIsZero == 0 \notin Watchers
BY DEF Watchers

(* ~SimpleWatcher.                                                         *)
LEMMA DestroyWatcherDrops ==
  ASSUME NEW s, DOMAIN s = StateFields, Sound(s, Foreign(s.conn)), DOMAIN s.watcher = Watchers,
         NEW w \in Watchers
  PROVE  Dropping(s, DestroyWatcher(s, w), {w})
<1> DEFINE b == [s EXCEPT !.watcher[w].alive = FALSE]
           F == Foreign(s.conn)
           r == DestroyWatcher(s, w)
<1>1. /\ Sound(b, F) /\ DOMAIN b = StateFields /\ b.core = s.core
      /\ DOMAIN b.watcher = Watchers
      /\ \A v \in Watchers : b.watcher[v].trap = s.watcher[v].trap
  BY DyingSound
<1>2. b.conn = s.conn /\ b.stack = s.stack
  BY DEF StateFields
<1>3. r = Cancel(b, w)
  BY DEF DestroyWatcher
<1> HIDE DEF b, F, r
<1>4. /\ Sound(r, F) /\ DOMAIN r.watcher = Watchers /\ r.watcher[w].trap = 0
      /\ \A v \in Watchers : v # w => r.watcher[v].trap = b.watcher[v].trap
  BY <1>1, <1>3, CancelSound
<1>5. SameEnds(s.core, r.core, {})
  BY <1>1, <1>3, CancelEnds
<1>6. Frame(s, r)
  BY <1>1, <1>2, <1>3, CancelFrame DEF Frame
<1> QED BY <1>1, <1>4, <1>5, <1>6 DEF Dropping, SamePipe, F, r

(* The watchers in a set of two are destroyed one after the other.         *)
LEMMA DroppingMore ==
  ASSUME NEW s, NEW r, NEW t, NEW X, NEW Y, Dropping(s, r, X), Dropping(r, t, Y)
  PROVE  Dropping(s, t, X \cup Y)
<1>1. SamePipe(s, t)
  BY DEF Dropping, SamePipe, SameEnds
<1>2. Frame(s, t)
  BY DEF Dropping, Frame
<1>3. Sound(t, Foreign(s.conn))
  BY DEF Dropping, Frame
<1> QED BY <1>1, <1>2, <1>3 DEF Dropping

LEMMA DroppingNone ==
  ASSUME NEW s, DOMAIN s = StateFields, Sound(s, Foreign(s.conn)), DOMAIN s.watcher = Watchers
  PROVE  Dropping(s, s, {})
BY DEF Dropping, Frame, SamePipe, SameEnds

\* r is s without watchers, of the connector with fields k.
Unwatched(s, r, k) ==
  /\ DOMAIN r = StateFields /\ Sound(r, Foreign(s.conn)) /\ DOMAIN r.watcher = Watchers
  /\ SamePipe(s, r) /\ NoWatch(r.watcher)
  /\ r.conn = [k EXCEPT !.read = 0, !.closed = 0] /\ r.stack = s.stack

(* CancelWatchers.                                                         *)
LEMMA CancelWatchersEffect ==
  ASSUME NEW s, Base(s)
  PROVE  Unwatched(s, CancelWatchers(s), s.conn)
<1> DEFINE s1 == IF s.conn.read # 0 THEN DestroyWatcher(s, s.conn.read) ELSE s
           s2 == IF s.conn.closed # 0 THEN DestroyWatcher(s1, s.conn.closed) ELSE s1
           r  == CancelWatchers(s)
           X  == {s.conn.read, s.conn.closed}
<1>1. r = [s2 EXCEPT !.conn.read = 0, !.conn.closed = 0]
  BY DEF CancelWatchers
<1>2. /\ s.conn.read # 0 => s.conn.read \in Watchers
      /\ s.conn.closed # 0 => s.conn.closed \in Watchers
  BY NumbersOfWatchers DEF Base
<1>3. /\ DOMAIN s = StateFields /\ Sound(s, Foreign(s.conn)) /\ DOMAIN s.watcher = Watchers
      /\ \A w \in Watchers : s.watcher[w].trap # 0 => w \in X
  BY DEF Base, Held
<1>4. \E Y : Dropping(s, s1, Y) /\ (s.conn.read # 0 => s.conn.read \in Y)
  BY <1>2, <1>3, DestroyWatcherDrops, DroppingNone
<1> HIDE DEF s1, r
<1>5. PICK Y : Dropping(s, s1, Y) /\ (s.conn.read # 0 => s.conn.read \in Y)
  BY <1>4
<1>6. /\ DOMAIN s1 = StateFields /\ Sound(s1, Foreign(s1.conn)) /\ DOMAIN s1.watcher = Watchers
      /\ s1.conn = s.conn
  BY <1>5 DEF Dropping, Frame
<1>7. \E Z : Dropping(s1, s2, Z) /\ (s.conn.closed # 0 => s.conn.closed \in Z)
  BY <1>2, <1>6, DestroyWatcherDrops, DroppingNone
<1> HIDE DEF s2
<1>8. PICK Z : Dropping(s1, s2, Z) /\ (s.conn.closed # 0 => s.conn.closed \in Z)
  BY <1>7
<1>9. Dropping(s, s2, Y \cup Z)
  BY <1>5, <1>8, DroppingMore
<1>10. NoWatch(s2.watcher)
  <2>1. ASSUME NEW w \in Watchers, w \notin Y \cup Z PROVE s.watcher[w].trap = 0
    <3>1. w \notin X
      BY <1>5, <1>8, <2>1, NoneIsZero DEF X
    <3> QED BY <1>3, <3>1
  <2> QED BY <1>9, <2>1 DEF Dropping, NoWatch
<1>11. /\ DOMAIN r = StateFields /\ r.core = s2.core /\ r.table = s2.table
       /\ r.watcher = s2.watcher /\ r.tasks = s2.tasks /\ r.stack = s2.stack
       /\ r.conn = [s2.conn EXCEPT !.read = 0, !.closed = 0]
  BY <1>1, <1>9 DEF Dropping, Frame, StateFields
<1>12. Sound(r, Foreign(s.conn))
  BY <1>9, <1>11 DEF Sound, Dropping, StateFields
<1> QED BY <1>9, <1>10, <1>11, <1>12 DEF Unwatched, Dropping, Frame, SamePipe, r

\* l is k but for what clients see of the connector.
SameLinks(k, l) ==
  /\ DOMAIN l = ConnFields /\ l.owner = k.owner /\ l.pipe = k.pipe /\ l.starts = k.starts
  /\ l.read = k.read /\ l.closed = k.closed

\* Same flags.
SameFlags(k, l) ==
  /\ DOMAIN l = ConnFields /\ l.owner = k.owner /\ l.alive = k.alive /\ l.error = k.error
  /\ l.paused = k.paused /\ l.handler = k.handler /\ l.starts = k.starts

(* A flag of the connector or the stack changes.                           *)
LEMMA BaseLinks ==
  ASSUME NEW s, Base(s), NEW r, DOMAIN r = StateFields, r.core = s.core, r.table = s.table,
         r.watcher = s.watcher, r.tasks = s.tasks, SameLinks(s.conn, r.conn)
  PROVE  Base(r)
<1>1. Foreign(r.conn) = Foreign(s.conn)
  BY DEF SameLinks, Foreign
<1>2. Sound(r, Foreign(r.conn))
  BY <1>1 DEF Base, Sound, StateFields
<1>3. Numbered(r.conn)
  BY DEF Base, Numbered, SameLinks
<1>4. Held(r.core, r.watcher, r.conn)
  BY DEF Base, Held, SameLinks
<1> QED BY <1>2, <1>3, <1>4 DEF Base

LEMMA BaseStack ==
  ASSUME NEW s, Base(s), NEW st
  PROVE  LET r == [s EXCEPT !.stack = st]
         IN  Base(r) /\ r.conn = s.conn /\ r.stack = st
<1> DEFINE r == [s EXCEPT !.stack = st]
<1>1. /\ DOMAIN r = StateFields /\ r.core = s.core /\ r.table = s.table /\ r.stack = st
      /\ r.watcher = s.watcher /\ r.tasks = s.tasks /\ r.conn = s.conn
  BY DEF Base, StateFields
<1> HIDE DEF r
<1>2. SameLinks(s.conn, r.conn)
  BY <1>1 DEF SameLinks, Base, Numbered
<1>3. Base(r)
  BY <1>1, <1>2, BaseLinks
<1> QED BY <1>1, <1>3 DEF r

(* CancelWatchers keeps Base.                                              *)
LEMMA UnwatchedBase ==
  ASSUME NEW s, Base(s), NEW r, Unwatched(s, r, s.conn)
  PROVE  /\ Base(r) /\ r.conn.read = 0 /\ r.conn.pipe = s.conn.pipe
         /\ SameFlags(s.conn, r.conn) /\ r.stack = s.stack
<1>1. /\ r.conn.read = 0 /\ r.conn.closed = 0 /\ r.conn.pipe = s.conn.pipe
      /\ SameFlags(s.conn, r.conn)
  BY DEF Unwatched, Base, Numbered, ConnFields, SameFlags
<1>2. Sound(r, Foreign(r.conn))
  <2>1. Foreign(r.conn) = Foreign(s.conn)
    BY <1>1 DEF SameFlags, Foreign
  <2> QED BY <2>1 DEF Unwatched
<1>3. Numbered(r.conn)
  BY <1>1 DEF Numbered, SameFlags, Base
<1>4. Held(r.core, r.watcher, r.conn)
  BY <1>1 DEF Held, Base, Unwatched, NoWatch, SamePipe, SameEnds
<1> QED BY <1>1, <1>2, <1>3, <1>4 DEF Base, Unwatched

(* The core changes, but not its traps.                                    *)
LEMMA BaseCore ==
  ASSUME NEW s, Base(s), NEW d, Typed(d), SameTraps(s.core, d), NewEvents(s.core, d),
         s.conn.pipe # 0 => IsA(d, LocalEnd, "MessagePipe")
  PROVE  LET r == [s EXCEPT !.core = d]
         IN  Base(r) /\ r.conn = s.conn /\ r.stack = s.stack
<1> DEFINE r == [s EXCEPT !.core = d]
<1>1. /\ DOMAIN r = StateFields /\ r.core = d /\ r.table = s.table /\ r.stack = s.stack
      /\ r.watcher = s.watcher /\ r.tasks = s.tasks /\ r.conn = s.conn
  BY DEF Base, StateFields
<1> HIDE DEF r
<1>2. Sound(r, Foreign(s.conn))
  BY <1>1, CoreSound DEF Base
<1>3. Held(d, s.watcher, s.conn)
  BY DEF Held, Base
<1> QED BY <1>1, <1>2, <1>3 DEF Base, r

(* ResetPipe.                                                              *)
LEMMA ResetPipeEffect ==
  ASSUME NEW s, Base(s)
  PROVE  LET r == ResetPipe(s)
         IN  /\ Base(r) /\ r.conn.pipe = 0 /\ r.conn.read = s.conn.read
             /\ SameFlags(s.conn, r.conn) /\ r.stack = s.stack
<1> DEFINE d == WhpClose(s.core, s.conn.pipe)
           b == [s EXCEPT !.core = d]
           r == ResetPipe(s)
<1>1. CASE s.conn.pipe = 0
  <2>1. r = s
    BY <1>1 DEF ResetPipe, MOJO_HANDLE_INVALID
  <2>2. SameFlags(s.conn, s.conn)
    BY DEF SameFlags, Base, Numbered
  <2> HIDE DEF r
  <2> QED BY <1>1, <2>1, <2>2 DEF r
<1>2. CASE s.conn.pipe # 0
  <2>1. /\ DOMAIN r = StateFields /\ r.core = d /\ r.table = s.table /\ r.stack = s.stack
        /\ r.watcher = s.watcher /\ r.tasks = s.tasks
        /\ r.conn = [s.conn EXCEPT !.pipe = 0]
    BY <1>2 DEF ResetPipe, MOJO_HANDLE_INVALID, Base, StateFields
  <2>2. Typed(s.core) /\ IsA(s.core, s.conn.pipe, "MessagePipe")
    BY <1>2 DEF Base, Sound, Held
  <2>3. Typed(d) /\ SameTraps(s.core, d) /\ NewEvents(s.core, d)
    BY <2>2, ClosePipeEffect DEF Collecting
  <2> HIDE DEF r, d
  <2>4. /\ r.conn.pipe = 0 /\ r.conn.read = s.conn.read /\ r.conn.closed = s.conn.closed
        /\ SameFlags(s.conn, r.conn)
    BY <2>1 DEF SameFlags, Base, Numbered, ConnFields
  <2>5. Sound(r, Foreign(s.conn))
    BY <2>1, <2>3, CoreSound DEF Base
  <2>6. Foreign(r.conn) = Foreign(s.conn) /\ Numbered(r.conn)
    BY <2>4 DEF SameFlags, Foreign, Numbered, Base
  <2>7. Held(r.core, r.watcher, r.conn)
    BY <2>1, <2>4 DEF Held, Base
  <2>8. Base(r)
    BY <2>1, <2>5, <2>6, <2>7 DEF Base
  <2> QED BY <2>1, <2>4, <2>8 DEF r
<1> QED BY <1>1, <1>2

(* The connector gives up its watchers and its pipe: it fits whatever its  *)
(* flags are then.                                                         *)
LEMMA ClosedUp ==
  ASSUME NEW s, Base(s), s.conn.paused => s.conn.starts # 0
  PROVE  LET r == ResetPipe(CancelWatchers(s))
         IN  /\ Base(r) /\ Exactly(r.conn) /\ SameFlags(s.conn, r.conn)
             /\ r.stack = s.stack
<1> DEFINE c == CancelWatchers(s)
           r == ResetPipe(c)
<1>1. /\ Base(c) /\ c.conn.read = 0 /\ SameFlags(s.conn, c.conn) /\ c.stack = s.stack
  BY CancelWatchersEffect, UnwatchedBase
<1> HIDE DEF c
<1>2. /\ Base(r) /\ r.conn.pipe = 0 /\ r.conn.read = c.conn.read
      /\ SameFlags(c.conn, r.conn) /\ r.stack = c.stack
  BY <1>1, ResetPipeEffect
<1> HIDE DEF r
<1>3. SameFlags(s.conn, r.conn)
  BY <1>1, <1>2 DEF SameFlags
<1>4. Exactly(r.conn)
  BY <1>1, <1>2, <1>3 DEF Exactly, SameFlags
<1> QED BY <1>1, <1>2, <1>3, <1>4 DEF r, c

(* StartReceiving, when it does not return early.                          *)
LEMMA StartReceivingEffect ==
  ASSUME NEW s, Base(s), Receives(s), s.conn.starts < MaxStarts
  PROVE  LET r == StartReceiving(s)
             k == s.conn.starts + 1
         IN  /\ Base(r) /\ r.stack = s.stack
             /\ r.conn = [s.conn EXCEPT !.read = 2 * k - 1, !.closed = 2 * k, !.starts = k]
<1> DEFINE k  == s.conn.starts + 1
           v  == 2 * k - 1
           w  == 2 * k
           F  == Foreign(s.conn)
           s1 == Watch(s, v, s.conn.pipe, {"READABLE"}, v)
           s2 == Watch(s1, w, s.conn.pipe, {"PEER_CLOSED"}, w)
           r  == StartReceiving(s)
<1>1. r = [s2 EXCEPT !.conn.read = v, !.conn.closed = w, !.conn.starts = k]
  BY DEF StartReceiving
<1> HIDE DEF r
<1>2. k \in 1..MaxStarts /\ k # 0
  BY ConnectorAssumption DEF Base, Numbered
<1> HIDE DEF k
<1>3. v \in Watchers /\ w \in Watchers /\ v # w /\ v # 0 /\ w # 0
  BY <1>2, StartNumbers
<1>4. /\ DOMAIN s = StateFields /\ Sound(s, F) /\ DOMAIN s.watcher = Watchers
      /\ s.conn.pipe = LocalEnd /\ IsA(s.core, LocalEnd, "MessagePipe")
      /\ \A x \in Watchers : s.watcher[x].trap = 0
  <2>1. s.conn.read = 0 /\ s.conn.closed = 0 /\ s.conn.pipe # 0
    BY NumbersOfWatchers DEF Receives, MOJO_HANDLE_INVALID, Base
  <2> QED BY <2>1, NoneIsZero DEF Base, Held
<1> HIDE DEF v, w, F
<1>5. Sound(s1, F) /\ DOMAIN s1.watcher = Watchers
  BY <1>3, <1>4, WatchSound
<1>6. /\ SameEnds(s.core, s1.core, {}) /\ s1.watcher[v].trap # 0
      /\ \A x \in Watchers : x # v => s1.watcher[x].trap = s.watcher[x].trap
  BY <1>3, <1>4, WatchOpens
<1>7. Frame(s, s1)
  BY <1>4, WatchFrame
<1> HIDE DEF s1
<1>8. DOMAIN s1 = StateFields /\ IsA(s1.core, LocalEnd, "MessagePipe")
  BY <1>4, <1>6, <1>7 DEF Frame, SameEnds
<1>9. Sound(s2, F) /\ DOMAIN s2.watcher = Watchers
  BY <1>3, <1>5, WatchSound
<1>10. /\ SameEnds(s1.core, s2.core, {}) /\ s2.watcher[w].trap # 0
       /\ \A x \in Watchers : x # w => s2.watcher[x].trap = s1.watcher[x].trap
  BY <1>3, <1>4, <1>5, <1>8, WatchOpens
<1>11. Frame(s1, s2)
  BY <1>8, WatchFrame
<1> HIDE DEF s2
<1>12. /\ DOMAIN r = StateFields /\ r.core = s2.core /\ r.table = s2.table /\ r.stack = s.stack
       /\ r.watcher = s2.watcher /\ r.tasks = s2.tasks
       /\ r.conn = [s.conn EXCEPT !.read = v, !.closed = w, !.starts = k]
  BY <1>1, <1>7, <1>11 DEF Frame, StateFields
<1>13. /\ DOMAIN r.conn = ConnFields /\ r.conn.read = v /\ r.conn.closed = w
       /\ r.conn.starts = k /\ r.conn.pipe = s.conn.pipe /\ r.conn.owner = s.conn.owner
  BY <1>12 DEF Base, Numbered, ConnFields
<1>14. Numbered(r.conn)
  BY <1>2, <1>13, ConnectorAssumption DEF Numbered, v, w
<1>15. Held(r.core, r.watcher, r.conn)
  BY <1>3, <1>4, <1>6, <1>8, <1>10, <1>12, <1>13 DEF Held, SameEnds
<1>16. Sound(r, Foreign(r.conn))
  BY <1>9, <1>12, <1>13 DEF Sound, Foreign, F, StateFields
<1> QED BY <1>9, <1>12, <1>14, <1>15, <1>16 DEF Base, r, k, v, w

(* StartReceiving by a connector that is not paused.                       *)
LEMMA StartReceivingKeeps ==
  ASSUME NEW s, Base(s), Calls(s.stack, s.conn), s.conn.alive, ~s.conn.paused,
         s.conn.error => s.conn.pipe = 0,
         s.conn.read # 0 => s.conn.pipe # 0 /\ s.conn.starts # 0,
         Receives(s) => s.conn.starts < MaxStarts
  PROVE  Fits(StartReceiving(s))
<1> DEFINE r == StartReceiving(s)
           k == s.conn.starts + 1
<1>1. CASE ~Receives(s)
  <2>1. r = s
    BY <1>1 DEF StartReceiving
  <2>2. Exactly(s.conn)
    BY <1>1 DEF Exactly, Receives, MOJO_HANDLE_INVALID
  <2> HIDE DEF r
  <2> QED BY <2>1, <2>2 DEF Fits, r
<1>2. CASE Receives(s)
  <2>1. /\ Base(r) /\ r.stack = s.stack
        /\ r.conn = [s.conn EXCEPT !.read = 2 * k - 1, !.closed = 2 * k, !.starts = k]
    BY <1>2, StartReceivingEffect
  <2>2. k \in 1..MaxStarts /\ k # 0
    BY <1>2, ConnectorAssumption DEF Base, Numbered
  <2>3. 2 * k - 1 # 0
    BY <2>2, StartNumbers
  <2> HIDE DEF r, k
  <2>4. /\ r.conn.read # 0 /\ r.conn.starts # 0 /\ r.conn.pipe = s.conn.pipe
        /\ r.conn.alive = s.conn.alive /\ r.conn.error = s.conn.error
        /\ r.conn.paused = s.conn.paused /\ r.conn.owner = s.conn.owner
    BY <2>1, <2>2, <2>3 DEF Base, Numbered, ConnFields
  <2>5. Exactly(r.conn)
    BY <1>2, <2>4 DEF Exactly, Receives, MOJO_HANDLE_INVALID
  <2>6. Calls(r.stack, r.conn)
    BY <2>1, <2>4 DEF Calls
  <2> QED BY <2>1, <2>5, <2>6 DEF Fits, r
<1> QED BY <1>1, <1>2

(* A call that is no callback and no wait is put on the stack.             *)
LEMMA CallsPush ==
  ASSUME NEW st, NEW k, Calls(st, k), k.alive, NEW x, CallTyped(x),
         k.owner = "set" => x.fn # "wait", NEW l, l.owner = k.owner, l.alive = k.alive
  PROVE  Calls(Append(st, x), l)
<1>1. PICK S : st \in Seq(S)
  BY DEF Calls
<1>2. Append(st, x) \in Seq(S \cup {x})
  BY <1>1
<1>3. \A i \in DOMAIN Append(st, x) :
        \/ Append(st, x)[i] = x
        \/ i \in DOMAIN st /\ Append(st, x)[i] = st[i]
  BY <1>1
<1> QED BY <1>2, <1>3 DEF Calls

(* A call returns.                                                         *)
LEMMA CallsPop ==
  ASSUME NEW st, NEW k, Calls(st, k), st # <<>>, NEW l, l.owner = k.owner, l.alive = k.alive
  PROVE  Calls(Pop(st), l)
<1>1. PICK S : st \in Seq(S)
  BY DEF Calls
<1>2. /\ SubSeq(st, 1, Len(st) - 1) \in Seq(S)
      /\ \A i \in DOMAIN SubSeq(st, 1, Len(st) - 1) :
           i \in DOMAIN st /\ SubSeq(st, 1, Len(st) - 1)[i] = st[i]
  BY <1>1
<1>3. k.alive
  BY DEF Calls
<1> QED BY <1>2, <1>3 DEF Calls, Pop

(* A call goes on.                                                         *)
LEMMA CallsOn ==
  ASSUME NEW st, NEW k, Calls(st, k), NEW v
  PROVE  LET u == [st EXCEPT ![Len(st)].at = v]
         IN  Calls(u, k) /\ (st # <<>> => u # <<>>)
<1> DEFINE n == Len(st)
           x == [st[n] EXCEPT !.at = v]
           u == [st EXCEPT ![n] = x]
<1>1. PICK S : st \in Seq(S)
  BY DEF Calls
<1>2. u \in Seq(S \cup {x})
  BY <1>1, ReplaceTyped
<1>3. /\ DOMAIN u = DOMAIN st
      /\ \A i \in DOMAIN st : i # n => u[i] = st[i]
      /\ n \in DOMAIN st => u[n] = x
  BY <1>1
<1>4. CallTyped(st[n]) => CallTyped(x) /\ x.fn = st[n].fn
  BY DEF CallTyped
<1>5. st # <<>> => u # <<>>
  BY <1>1, <1>3
<1>6. st = <<>> => u = <<>>
  BY <1>1, <1>2, <1>3
<1> HIDE DEF u, x, n
<1>7. Calls(u, k)
  BY <1>2, <1>3, <1>4, <1>6 DEF Calls
<1> QED BY <1>5, <1>7 DEF u, x, n

(* The stack stays with a connector whose other flags change.              *)
LEMMA CallsSame ==
  ASSUME NEW st, NEW k, Calls(st, k), NEW l, l.owner = k.owner, l.alive = k.alive
  PROVE  Calls(st, l)
BY DEF Calls

(* RaiseError.                                                             *)
LEMMA RaiseErrorKeeps ==
  ASSUME NEW s, Fits(s), s.conn.alive
  PROVE  LET r == RaiseError(s)
         IN  /\ Fits(r) /\ r.conn.paused = s.conn.paused
             /\ r.stack = s.stack \/ r.stack = Append(s.stack, HandlerCall)
<1> DEFINE b == [s EXCEPT !.conn.error = TRUE]
           d == ResetPipe(CancelWatchers(b))
           e == [d EXCEPT !.conn.handler = FALSE, !.stack = Append(@, HandlerCall)]
           r == RaiseError(s)
<1>1. r = IF s.conn.error THEN s ELSE IF ~s.conn.handler THEN d ELSE e
  BY DEF RaiseError
<1> HIDE DEF r
<1>2. /\ DOMAIN b = StateFields /\ b.core = s.core /\ b.table = s.table /\ b.watcher = s.watcher
      /\ b.tasks = s.tasks /\ b.stack = s.stack /\ SameLinks(s.conn, b.conn)
      /\ b.conn.alive = s.conn.alive /\ b.conn.paused = s.conn.paused
  BY DEF Fits, Base, Numbered, StateFields, ConnFields, SameLinks
<1> HIDE DEF b
<1>3. Base(b) /\ (b.conn.paused => b.conn.starts # 0)
  BY <1>2, BaseLinks DEF Fits, Exactly, SameLinks
<1>4. Base(d) /\ Exactly(d.conn) /\ SameFlags(b.conn, d.conn) /\ d.stack = b.stack
  BY <1>3, ClosedUp
<1> HIDE DEF d
<1>5. /\ d.conn.alive = s.conn.alive /\ d.conn.owner = s.conn.owner /\ d.stack = s.stack
      /\ d.conn.paused = s.conn.paused
  BY <1>2, <1>4 DEF SameFlags, SameLinks
<1>6. Fits(d)
  BY <1>4, <1>5, CallsSame DEF Fits
<1>7. Fits(e) /\ e.conn.paused = d.conn.paused /\ e.stack = Append(d.stack, HandlerCall)
  <2>1. /\ DOMAIN e = StateFields /\ e.core = d.core /\ e.table = d.table
        /\ e.watcher = d.watcher /\ e.tasks = d.tasks /\ SameLinks(d.conn, e.conn)
        /\ e.stack = Append(d.stack, HandlerCall)
        /\ e.conn.alive = d.conn.alive /\ e.conn.paused = d.conn.paused
        /\ e.conn.error = d.conn.error
    BY <1>4 DEF Base, Numbered, StateFields, ConnFields, SameLinks
  <2>2. CallTyped(HandlerCall) /\ HandlerCall.fn # "wait"
    BY DEF HandlerCall, CallTyped
  <2> HIDE DEF e
  <2>3. Calls(e.stack, e.conn)
    BY <1>5, <1>6, <2>1, <2>2, CallsPush DEF Fits, SameLinks
  <2>4. Base(e)
    BY <1>4, <2>1, BaseLinks
  <2>5. Exactly(e.conn)
    BY <1>4, <2>1 DEF Exactly, SameLinks
  <2> QED BY <2>1, <2>3, <2>4, <2>5 DEF Fits
<1> HIDE DEF e
<1> QED BY <1>1, <1>5, <1>6, <1>7 DEF r

(* ~Connector.                                                             *)
LEMMA DestroyedKeeps ==
  ASSUME NEW s, Base(s), s.conn.paused => s.conn.starts # 0, s.stack = <<>>
  PROVE  Fits(Destroyed(s)) /\ Destroyed(s).stack = <<>>
<1> DEFINE b == [s EXCEPT !.conn.alive = FALSE]
           d == ResetPipe(CancelWatchers(b))
<1>1. Destroyed(s) = d
  BY DEF Destroyed
<1>2. /\ DOMAIN b = StateFields /\ b.core = s.core /\ b.table = s.table /\ b.watcher = s.watcher
      /\ b.tasks = s.tasks /\ b.stack = s.stack /\ SameLinks(s.conn, b.conn)
      /\ b.conn.paused = s.conn.paused
  BY DEF Base, Numbered, StateFields, ConnFields, SameLinks
<1> HIDE DEF b
<1>3. Base(b) /\ (b.conn.paused => b.conn.starts # 0)
  BY <1>2, BaseLinks DEF SameLinks
<1>4. Base(d) /\ Exactly(d.conn) /\ SameFlags(b.conn, d.conn) /\ d.stack = b.stack
  BY <1>3, ClosedUp
<1> HIDE DEF d
<1>5. Calls(d.stack, d.conn) /\ d.stack = <<>>
  <2>1. d.stack = <<>> /\ <<>> \in Seq({}) /\ DOMAIN <<>> = {}
    BY <1>2, <1>4
  <2> QED BY <2>1 DEF Calls
<1> QED BY <1>1, <1>4, <1>5 DEF Fits

(* The call on top of the stack goes on or returns.                        *)
LEMMA FitsStack ==
  ASSUME NEW s, Fits(s), NEW st, Calls(st, s.conn)
  PROVE  LET r == [s EXCEPT !.stack = st]
         IN  Fits(r) /\ r.conn = s.conn /\ r.stack = st
<1> DEFINE r == [s EXCEPT !.stack = st]
<1>1. Base(r) /\ r.conn = s.conn /\ r.stack = st
  BY BaseStack DEF Fits
<1> HIDE DEF r
<1> QED BY <1>1 DEF Fits, r

LEMMA FitsPop ==
  ASSUME NEW s, Fits(s), s.stack # <<>>
  PROVE  LET r == [s EXCEPT !.stack = Pop(@)]
         IN  Fits(r) /\ r.conn = s.conn /\ s.conn.alive
<1>1. Calls(Pop(s.stack), s.conn) /\ s.conn.alive
  BY CallsPop DEF Fits, Calls
<1> QED BY <1>1, FitsStack

(* ReadAllAvailableMessages returns.                                       *)
LEMMA ReturnedKeeps ==
  ASSUME NEW s, Fits(s), s.conn.alive
  PROVE  Fits(Returned(s)) /\ Fits(ReturnedWithError(s))
<1> DEFINE b == [s EXCEPT !.stack = Finishing(@)]
<1>1. Calls(Finishing(s.stack), s.conn)
  BY CallsOn DEF Finishing, Fits
<1>2. Fits(b) /\ b.conn = s.conn
  BY <1>1, FitsStack
<1>3. /\ Returned(s) = IF ForPeerClosed(Top(s.stack).task.watcher) THEN RaiseError(b) ELSE b
      /\ ReturnedWithError(s) = RaiseError(b)
  BY DEF Returned, ReturnedWithError
<1> HIDE DEF b
<1>4. Fits(RaiseError(b))
  BY <1>2, RaiseErrorKeeps
<1> QED BY <1>2, <1>3, <1>4

(* A watcher's task ends.                                                  *)
LEMMA ArmKeeps ==
  ASSUME NEW s, Fits(s), NEW w \in Watchers
  PROVE  LET r == Arm(s, w)
         IN  Fits(r) /\ r.conn = s.conn /\ r.stack = s.stack
<1> DEFINE r == Arm(s, w)
           F == Foreign(s.conn)
<1>1. Sound(s, F) /\ DOMAIN s.watcher = Watchers /\ DOMAIN s = StateFields
  BY DEF Fits, Base
<1>2. Sound(r, F) /\ r.watcher = s.watcher /\ SameEnds(s.core, r.core, {})
  BY <1>1, ArmSound, ArmEnds
<1>3. Frame(s, r)
  BY <1>1, ArmFrame
<1> HIDE DEF r, F
<1>4. Held(r.core, r.watcher, r.conn)
  BY <1>2, <1>3 DEF Fits, Base, Held, SameEnds, Frame
<1>5. Base(r)
  BY <1>1, <1>2, <1>3, <1>4 DEF Fits, Base, Frame, F
<1> QED BY <1>3, <1>5 DEF Fits, Frame, r

LEMMA RearmedKeeps ==
  ASSUME NEW s, Fits(s), NEW t, t.watcher \in Watchers
  PROVE  LET r == Rearmed(s, t)
         IN  Fits(r) /\ r.conn = s.conn /\ r.stack = s.stack
BY ArmKeeps DEF Rearmed

(* Another client's operation on the core.                                 *)
LEMMA FitsCore ==
  ASSUME NEW s, Fits(s), NEW d, Typed(d), SameTraps(s.core, d), NewEvents(s.core, d),
         s.conn.pipe # 0 => IsA(d, LocalEnd, "MessagePipe")
  PROVE  LET r == [s EXCEPT !.core = d]
         IN  Fits(r) /\ r.conn = s.conn /\ r.stack = s.stack
<1> DEFINE r == [s EXCEPT !.core = d]
<1>1. Base(r) /\ r.conn = s.conn /\ r.stack = s.stack
  BY BaseCore DEF Fits
<1> HIDE DEF r
<1> QED BY <1>1 DEF Fits, r

-----------------------------------------------------------------------------
(* The operations on the core.                                             *)

\* d is c with the same ends and the same traps.
CoreKept(c, d) ==
  /\ Typed(d) /\ SameTraps(c, d) /\ NewEvents(c, d) /\ SameEnds(c, d, {})

LEMMA CalmKept ==
  ASSUME NEW c, NEW d, Calm(c, d)
  PROVE  CoreKept(c, d)
BY DEF Calm, CoreKept, SameTraps, SameTrapObjects, NewEvents

LEMMA CollectingKept ==
  ASSUME NEW c, NEW d, Collecting(c, d, {})
  PROVE  CoreKept(c, d)
BY DEF Collecting, CoreKept

LEMMA KeptTwice ==
  ASSUME NEW c, NEW b, NEW d, Calm(c, b), CoreKept(b, d)
  PROVE  CoreKept(c, d)
<1>1. SameTraps(c, d) /\ SameEnds(c, d, {})
  BY DEF Calm, CoreKept, SameTraps, SameTrapObjects, SameEnds
<1>2. ASSUME NEW h, IsA(b, h, "Trap"), NEW e, EventOf(b, h, e)
      PROVE  IsA(c, h, "Trap") /\ EventOf(c, h, e)
  BY <1>2 DEF Calm, SameTrapObjects, EventOf
<1>3. NewEvents(c, d)
  BY <1>2 DEF CoreKept, NewEvents, Calm
<1> QED BY <1>1, <1>3 DEF CoreKept

(* A message is made and written.                                          *)
LEMMA WriteKept ==
  ASSUME NEW c, Typed(c), NEW h
  PROVE  CoreKept(c, WhpWriteMessage(WhpCreateMessage(c), h, NextHandle(c)))
<1> DEFINE b == WhpCreateMessage(c)
           n == NextHandle(c)
           d == WhpWriteMessage(b, h, n)
<1>1. Typed(b) /\ MessageMade(c, b, n)
  BY CreateMessageEffect
<1> HIDE DEF b, n
<1>2. IsA(b, n, "Message")
  BY <1>1 DEF MessageMade, IsA, Lookup
<1>3. Calm(b, d) \/ Collecting(b, d, {})
  BY <1>1, <1>2, WriteMessageEffect
<1> HIDE DEF d
<1>4. CoreKept(b, d)
  BY <1>3, CalmKept, CollectingKept
<1>5. CoreKept(c, d)
  BY <1>1, <1>4, MessageMadeIsCalm, KeptTwice
<1> QED BY <1>5 DEF b, n, d

(* A message is read and its handle closed.                                *)
LEMMA ReadKept ==
  ASSUME NEW c, Typed(c), NEW h, IsA(c, h, "MessagePipe"), Inbound(c, h) # <<>>
  PROVE  CoreKept(c, WhpClose(WhpReadMessage(c, h), NextHandle(c)))
<1> DEFINE b == WhpReadMessage(c, h)
           n == NextHandle(c)
           d == WhpClose(b, n)
<1>1. Typed(b) /\ MessageMade(c, b, n)
  BY ReadMessageEffect
<1> HIDE DEF b, n
<1>2. IsA(b, n, "Message")
  BY <1>1 DEF MessageMade, IsA, Lookup
<1>3. Collecting(b, d, {})
  BY <1>1, <1>2, CloseMessageEffect
<1> HIDE DEF d
<1>4. CoreKept(c, d)
  BY <1>1, <1>3, CollectingKept, MessageMadeIsCalm, KeptTwice
<1> QED BY <1>4 DEF b, n, d

LEMMA FitsKept ==
  ASSUME NEW s, Fits(s), NEW d, CoreKept(s.core, d)
  PROVE  LET r == [s EXCEPT !.core = d]
         IN  Fits(r) /\ r.conn = s.conn /\ r.stack = s.stack
<1>1. s.conn.pipe # 0 => IsA(d, LocalEnd, "MessagePipe")
  BY DEF Fits, Base, Held, CoreKept, SameEnds
<1> QED BY <1>1, FitsCore DEF CoreKept

-----------------------------------------------------------------------------
(* A turn of the executor.                                                 *)
LEMMA TurnKeeps ==
  ASSUME NEW s, Fits(s), Pumped(s).tasks # <<>>
  PROVE  LET p == Pumped(s)
             r == [p EXCEPT !.tasks = Tail(@)]
             t == Head(p.tasks)
         IN  /\ Fits(r) /\ r.conn = s.conn /\ r.stack = s.stack /\ r.watcher = s.watcher
             /\ \/ t = DestroyTask /\ s.conn.owner = "set"
                \/ t.watcher \in Watchers /\ t.trap_at_post # 0
<1> DEFINE F == Foreign(s.conn)
           p == Pumped(s)
           r == [p EXCEPT !.tasks = Tail(@)]
           t == Head(p.tasks)
<1>1. Sound(s, F) /\ DOMAIN s.watcher = Watchers /\ DOMAIN s = StateFields
  BY DEF Fits, Base
<1>2. /\ Sound(p, F) /\ p.watcher = s.watcher /\ Frame(s, p)
      /\ p.core = [s.core EXCEPT !.pending_events = <<>>]
  BY <1>1, PumpedSound, PumpedFrame, PumpedStages
<1> HIDE DEF p
<1>3. /\ Sound(r, F) /\ r.core = p.core /\ r.watcher = p.watcher
      /\ t \in F \/ (t.watcher \in Watchers /\ t.trap_at_post # 0)
  BY <1>1, <1>2, TailSound DEF p
<1>4. Frame(s, r)
  BY <1>2 DEF Frame, StateFields
<1>5. t \in F => t = DestroyTask /\ s.conn.owner = "set"
  BY DEF F, Foreign
<1> HIDE DEF r, t, F
<1>6. SameEnds(s.core, r.core, {})
  <2>1. r.core.slots = s.core.slots
    BY <1>1, <1>2, <1>3 DEF Sound, Typed, Table, Shape, CoreFields
  <2> QED BY <2>1 DEF SameEnds, IsA, Lookup
<1>7. Held(r.core, r.watcher, r.conn)
  BY <1>2, <1>3, <1>4, <1>6 DEF Fits, Base, Held, SameEnds, Frame
<1>8. Fits(r)
  BY <1>1, <1>2, <1>3, <1>4, <1>7 DEF Fits, Base, Frame, F
<1>9. /\ r.conn = s.conn /\ r.stack = s.stack /\ r.watcher = s.watcher
      /\ \/ t = DestroyTask /\ s.conn.owner = "set"
         \/ t.watcher \in Watchers /\ t.trap_at_post # 0
  BY <1>2, <1>3, <1>4, <1>5 DEF Frame
<1> QED BY <1>8, <1>9 DEF r, t, p

(* OnPeerClosed cancels its watcher.                                       *)
LEMMA EnteredKeeps ==
  ASSUME NEW s, Fits(s), NEW t
  PROVE  LET r == Entered(s, t)
         IN  Fits(r) /\ r.conn = s.conn /\ r.stack = s.stack
<1> DEFINE w == s.conn.closed
           F == Foreign(s.conn)
           r == Cancel(s, w)
<1>1. CASE w # 0
  <2>1. w \in Watchers /\ w # s.conn.read
    BY <1>1, NumbersOfWatchers DEF Fits, Base
  <2>2. Sound(s, F) /\ DOMAIN s.watcher = Watchers /\ DOMAIN s = StateFields
    BY DEF Fits, Base
  <2> HIDE DEF w, F
  <2>3. /\ Sound(r, F) /\ DOMAIN r.watcher = Watchers /\ r.watcher[w].trap = 0
        /\ \A v \in Watchers : v # w => r.watcher[v] = s.watcher[v]
    BY <2>1, <2>2, CancelSound
  <2>4. SameEnds(s.core, r.core, {}) /\ Frame(s, r)
    BY <2>1, <2>2, CancelEnds, CancelFrame
  <2> HIDE DEF r
  <2>5. s.conn.read # 0 => s.conn.read \in Watchers
    BY NumbersOfWatchers DEF Fits, Base
  <2>6. Held(r.core, r.watcher, r.conn)
    BY <2>1, <2>3, <2>4, <2>5 DEF Fits, Base, Held, SameEnds, Frame
  <2>7. Fits(r) /\ r.conn = s.conn /\ r.stack = s.stack
    BY <2>3, <2>4, <2>6 DEF Fits, Base, Frame, F
  <2>8. Entered(s, t) = r \/ Entered(s, t) = s
    BY DEF Entered, r, w
  <2> QED BY <2>7, <2>8
<1>2. CASE w = 0
  BY <1>2 DEF Entered
<1> QED BY <1>1, <1>2

-----------------------------------------------------------------------------
(* The invariant.                                                          *)

\* The record of the variables after a step.
NextState == [core |-> core', table |-> table', watcher |-> watcher', tasks |-> tasks',
               conn |-> conn', stack |-> stack']

LEMMA StepFits ==
  ASSUME NEW r, Fits(r), Becomes(r)
  PROVE  CInv'
<1> DEFINE q == NextState
<1>1. /\ DOMAIN q = StateFields /\ q.core = r.core /\ q.table = r.table
      /\ q.watcher = r.watcher /\ q.tasks = r.tasks /\ q.conn = r.conn /\ q.stack = r.stack
  BY DEF Becomes, StateFields, NextState
<1>2. SameLinks(r.conn, r.conn)
  BY DEF SameLinks, Fits, Base, Numbered
<1>3. Fits(q)
  <2> HIDE DEF q
  <2>1. Base(q)
    BY <1>1, <1>2, BaseLinks DEF Fits
  <2> QED BY <1>1, <2>1 DEF Fits
<1> QED BY <1>3 DEF CInv, State, NextState

LEMMA CInvInit ==
  ASSUME Init
  PROVE  CInv
<1>1. Typed(InitCore) /\ (\A h : ~IsA(InitCore, h, "Trap")) /\ InitCore.pending_events = <<>>
  <2>1. Table(InitCore) /\ TrapList(InitCore)
    BY DEF InitCore, Table, Shape, CoreFields, FreeListExactIn, IsInjective, TrapList
  <2>2. InitCore.pipes \in Seq(PipeStates) /\ InitCore.pending_events \in Seq({})
    BY DEF InitCore
  <2> QED BY <2>1, <2>2 DEF Typed, InitCore, IsA, Lookup
<1>2. Typed(core) /\ \E n0, n1 : PipeMade(InitCore, core, n0, n1)
  BY <1>1, CreateMessagePipeEffect DEF Init
<1>3. /\ \A h : ~IsA(core, h, "Trap")
      /\ core.pending_events = <<>>
  BY <1>1, <1>2 DEF PipeMade, IsA, Lookup
<1>4. IsA(core, LocalEnd, "MessagePipe")
  BY DEF Init, WhpCreateMessagePipe, InitCore, Alloc, LocalEnd, IsA, Lookup
<1>5. TableSound(table) /\ \A i : ~UsedAt(table, i)
  BY DEF Init, EmptyTable, TableSound, ListSound, UsedAt, FreeAt, kNullHandle
<1>6. /\ DOMAIN watcher = Watchers
      /\ \A w \in Watchers : /\ DOMAIN watcher[w] = WatcherFields
                             /\ watcher[w].trap = 0 /\ watcher[w].watcher_handle = 0
  BY DEF Init, Fresh, WatcherFields, MOJO_HANDLE_INVALID, kNullHandle
<1>7. Linked(core, table, watcher)
  BY <1>3, <1>5, <1>6 DEF Linked
<1>8. <<>> \in Seq({}) /\ DOMAIN <<>> = {}
  OBVIOUS
<1>9. Posted(tasks, watcher, Foreign(conn))
  BY <1>8 DEF Posted, Init
<1>10. Sound(State, Foreign(State.conn)) /\ DOMAIN State = StateFields
  BY <1>2, <1>5, <1>6, <1>7, <1>9 DEF Sound, State, StateFields
<1>11. /\ DOMAIN conn = ConnFields /\ conn.read = 0 /\ conn.closed = 0 /\ conn.starts = 0
       /\ conn.pipe = LocalEnd /\ conn.alive /\ ~conn.error /\ ~conn.paused
  BY DEF Init, ConnFields
<1>12. Numbered(conn)
  BY <1>11, ConnectorAssumption DEF Numbered
<1>13. Held(core, watcher, conn)
  BY <1>4, <1>6, <1>11 DEF Held
<1>14. Exactly(conn)
  BY <1>11 DEF Exactly
<1>15. Calls(stack, conn)
  BY <1>8, <1>11 DEF Calls, Init
<1> QED BY <1>6, <1>10, <1>12, <1>13, <1>14, <1>15 DEF CInv, Fits, Base, State

(* The state of the variables, before the step.                            *)
LEMMA StateIs ==
  ASSUME CInv
  PROVE  /\ Fits(State) /\ Base(State) /\ Exactly(State.conn) /\ Calls(stack, conn)
         /\ State.core = core /\ State.table = table /\ State.watcher = watcher
         /\ State.tasks = tasks /\ State.conn = conn /\ State.stack = stack
         /\ DOMAIN State = StateFields /\ Typed(core)
BY DEF CInv, Fits, Base, Sound, State, StateFields

(* A flag is set in front of a member function.                            *)
LEMMA FlagBase ==
  ASSUME CInv, NEW k, SameLinks(conn, k)
  PROVE  LET r == [State EXCEPT !.conn = k]
         IN  Base(r) /\ r.conn = k /\ r.stack = stack
<1> DEFINE r == [State EXCEPT !.conn = k]
<1>1. /\ DOMAIN r = StateFields /\ r.core = State.core /\ r.table = State.table
      /\ r.watcher = State.watcher /\ r.tasks = State.tasks /\ r.conn = k /\ r.stack = stack
  BY DEF State, StateFields
<1>2. Base(State) /\ State.conn = conn
  BY StateIs
<1> HIDE DEF r
<1>3. Base(r)
  BY <1>1, <1>2, BaseLinks
<1> QED BY <1>1, <1>3 DEF r

(* PassMessagePipe.                                                        *)
LEMMA PassStep ==
  ASSUME CInv, PassMessagePipe
  PROVE  CInv' /\ stack' = <<>>
<1>0. /\ Base(State) /\ Exactly(conn) /\ State.conn = conn /\ State.stack = stack
  BY StateIs
<1> DEFINE c == CancelWatchers(State)
           b == [c EXCEPT !.conn.pipe = MOJO_HANDLE_INVALID]
<1>1. Becomes(Destroyed(b)) /\ stack = <<>>
  BY DEF PassMessagePipe
<1>2. /\ Base(c) /\ c.conn.read = 0 /\ SameFlags(conn, c.conn) /\ c.stack = stack
  BY <1>0, CancelWatchersEffect, UnwatchedBase
<1> HIDE DEF c
<1>3. /\ DOMAIN b = StateFields /\ b.core = c.core /\ b.table = c.table
      /\ b.watcher = c.watcher /\ b.tasks = c.tasks /\ b.stack = c.stack
      /\ b.conn = [c.conn EXCEPT !.pipe = 0]
  BY <1>2 DEF Base, StateFields, MOJO_HANDLE_INVALID
<1>4. /\ b.conn.pipe = 0 /\ b.conn.read = c.conn.read /\ b.conn.closed = c.conn.closed
      /\ SameFlags(c.conn, b.conn)
  BY <1>2, <1>3 DEF Base, Numbered, ConnFields, SameFlags
<1> HIDE DEF b
<1>5. Base(b)
  <2>1. Foreign(b.conn) = Foreign(c.conn) /\ Numbered(b.conn)
    BY <1>2, <1>4 DEF Base, Numbered, SameFlags, Foreign
  <2>2. Sound(b, Foreign(b.conn))
    BY <1>2, <1>3, <2>1 DEF Base, Sound, StateFields
  <2>3. Held(b.core, b.watcher, b.conn)
    BY <1>2, <1>3, <1>4 DEF Base, Held
  <2> QED BY <1>2, <1>3, <2>1, <2>2, <2>3 DEF Base
<1>6. b.conn.paused => b.conn.starts # 0
  BY <1>0, <1>2, <1>4 DEF Exactly, SameFlags
<1>7. Fits(Destroyed(b)) /\ Destroyed(b).stack = <<>>
  BY <1>1, <1>2, <1>3, <1>5, <1>6, DestroyedKeeps
<1>8. stack' = <<>>
  BY <1>1, <1>7 DEF Becomes
<1> QED BY <1>1, <1>7, <1>8, StepFits

(* The client's calls that watch or stop watching.                         *)
LEMMA ClientStep ==
  ASSUME CInv,
         \/ Bind \/ PauseIncomingMethodCallProcessing \/ ResumeIncomingMethodCallProcessing
         \/ CloseMessagePipe \/ Destroy \/ PassMessagePipe
  PROVE  CInv'
<1>0. /\ Fits(State) /\ Base(State) /\ Exactly(conn) /\ Calls(stack, conn)
      /\ State.conn = conn /\ State.stack = stack /\ DOMAIN conn = ConnFields
  BY StateIs DEF Base, Numbered
<1>1. CASE Bind
  <2>1. Becomes(StartReceiving(State)) /\ conn.alive /\ conn.starts = 0
    BY <1>1 DEF Bind, ClientRuns
  <2>2. conn.starts < MaxStarts
    BY <2>1, ConnectorAssumption
  <2>3. Fits(StartReceiving(State))
    BY <1>0, <2>1, <2>2, StartReceivingKeeps DEF Exactly
  <2> QED BY <2>1, <2>3, StepFits
<1>2. CASE PauseIncomingMethodCallProcessing
  <2> DEFINE k == [conn EXCEPT !.paused = TRUE]
             b == [State EXCEPT !.conn = k]
             r == CancelWatchers(b)
  <2>1. Becomes(r) /\ conn.starts > 0 /\ conn.alive
    BY <1>2, <1>0 DEF PauseIncomingMethodCallProcessing, Bound, ClientRuns, State
  <2>2. /\ SameLinks(conn, k) /\ k.paused /\ k.error = conn.error /\ k.alive = conn.alive
    BY <1>0 DEF SameLinks, ConnFields
  <2>3. Base(b) /\ b.conn = k /\ b.stack = stack
    BY <2>2, FlagBase
  <2> HIDE DEF k, b
  <2>4. /\ Base(r) /\ r.conn.read = 0 /\ r.conn.pipe = k.pipe
        /\ SameFlags(k, r.conn) /\ r.stack = stack
    BY <2>3, CancelWatchersEffect, UnwatchedBase
  <2> HIDE DEF r
  <2>5. Exactly(r.conn)
    BY <1>0, <2>1, <2>2, <2>4 DEF Exactly, SameFlags, SameLinks
  <2>6. Calls(r.stack, r.conn)
    BY <1>0, <2>2, <2>4, CallsSame DEF SameFlags, SameLinks
  <2> QED BY <2>1, <2>4, <2>5, <2>6, StepFits DEF Fits
<1>3. CASE ResumeIncomingMethodCallProcessing
  <2> DEFINE k == [conn EXCEPT !.paused = FALSE]
             b == [State EXCEPT !.conn = k]
  <2>1. /\ Becomes(StartReceiving(b)) /\ conn.alive /\ conn.paused
        /\ Receives(State) => conn.starts < MaxStarts
    BY <1>3 DEF ResumeIncomingMethodCallProcessing, ClientRuns, State
  <2>2. /\ SameLinks(conn, k) /\ ~k.paused /\ k.error = conn.error /\ k.alive = conn.alive
    BY <1>0 DEF SameLinks, ConnFields
  <2>3. Base(b) /\ b.conn = k /\ b.stack = stack
    BY <2>2, FlagBase
  <2> HIDE DEF k, b
  <2>4. Receives(b) => b.conn.starts < MaxStarts
    BY <1>0, <2>1, <2>2, <2>3 DEF Receives, SameLinks
  <2>5. b.conn.alive /\ ~b.conn.paused /\ (b.conn.error => b.conn.pipe = 0) /\ b.conn.read = 0
    BY <1>0, <2>1, <2>2, <2>3 DEF Exactly, SameLinks
  <2>6. Calls(b.stack, b.conn)
    BY <1>0, <2>2, <2>3, CallsSame DEF SameLinks
  <2>7. Fits(StartReceiving(b))
    BY <2>3, <2>4, <2>5, <2>6, StartReceivingKeeps
  <2> QED BY <2>1, <2>7, StepFits
<1>4. CASE CloseMessagePipe
  <2> DEFINE r == ResetPipe(CancelWatchers(State))
  <2>1. Becomes(r)
    BY <1>4 DEF CloseMessagePipe
  <2>2. Base(r) /\ Exactly(r.conn) /\ SameFlags(conn, r.conn) /\ r.stack = stack
    BY <1>0, ClosedUp DEF Exactly
  <2> HIDE DEF r
  <2>3. Calls(r.stack, r.conn)
    BY <1>0, <2>2, CallsSame DEF SameFlags
  <2> QED BY <2>1, <2>2, <2>3, StepFits DEF Fits
<1>5. CASE Destroy
  <2>1. Becomes(Destroyed(State)) /\ stack = <<>>
    BY <1>5 DEF Destroy
  <2>2. Fits(Destroyed(State))
    BY <1>0, <2>1, DestroyedKeeps DEF Exactly
  <2> QED BY <2>1, <2>2, StepFits
<1>6. CASE PassMessagePipe
  BY <1>6, PassStep
<1> QED BY <1>1, <1>2, <1>3, <1>4, <1>5, <1>6

(* The client's other calls, and the returns of the calls it made.         *)
LEMMA CallStep ==
  ASSUME CInv,
         \/ Send \/ ClientRaisesError \/ (\E ok \in BOOLEAN : AcceptReturns(ok)) \/ HandlerReturns
         \/ (\E finite \in BOOLEAN : SyncWaitFor(finite))
         \/ WaitSucceeds \/ WaitSleeps \/ WaitExpires
  PROVE  CInv'
<1>0. /\ Fits(State) /\ Calls(stack, conn) /\ Typed(core)
      /\ State.core = core /\ State.conn = conn /\ State.stack = stack
  BY StateIs
<1>1. CASE Send
  <2> DEFINE d == WhpWriteMessage(WhpCreateMessage(core), conn.pipe, NextHandle(core))
             s == [State EXCEPT !.core = d]
  <2>1. conn.alive /\ Becomes(IF WriteRefused(core, conn.pipe) THEN RaiseError(s) ELSE s)
    BY <1>1 DEF Send, ClientRuns, State
  <2>2. CoreKept(core, d)
    BY <1>0, WriteKept
  <2> HIDE DEF d
  <2>3. Fits(s) /\ s.conn = conn
    BY <1>0, <2>2, FitsKept
  <2> HIDE DEF s
  <2>4. Fits(RaiseError(s))
    BY <2>1, <2>3, RaiseErrorKeeps
  <2> QED BY <2>1, <2>3, <2>4, StepFits
<1>2. CASE ClientRaisesError
  <2>1. conn.alive /\ Becomes(RaiseError(State))
    BY <1>2 DEF ClientRaisesError, ClientRuns
  <2> QED BY <1>0, <2>1, RaiseErrorKeeps, StepFits
<1>3. CASE \E ok \in BOOLEAN : AcceptReturns(ok)
  <2> DEFINE s == [State EXCEPT !.stack = Pop(@)]
  <2>1. stack # <<>> /\ (Becomes(ReturnedWithError(s)) \/ Becomes(Returned(s)) \/ Becomes(s))
    BY <1>3 DEF AcceptReturns, TopIs
  <2>2. Fits(s) /\ s.conn.alive
    BY <1>0, <2>1, FitsPop
  <2> HIDE DEF s
  <2> QED BY <2>1, <2>2, ReturnedKeeps, StepFits
<1>4. CASE HandlerReturns
  <2> DEFINE s == [State EXCEPT !.stack = Pop(@)]
             r == [s EXCEPT !.tasks = Append(@, DestroyTask)]
             e == IF conn.owner = "set" THEN r ELSE s
  <2>1. stack # <<>> /\ Becomes(e)
    <3> DEFINE q == [State EXCEPT !.stack = Pop(@),
                                  !.tasks = IF conn.owner = "set" THEN Append(@, DestroyTask) ELSE @]
    <3>1. stack # <<>> /\ Becomes(q)
      BY <1>4 DEF HandlerReturns, TopIs
    <3>2. /\ q.core = e.core /\ q.table = e.table /\ q.watcher = e.watcher
          /\ q.tasks = e.tasks /\ q.conn = e.conn /\ q.stack = e.stack
      BY DEF State
    <3> HIDE DEF q, e
    <3> QED BY <3>1, <3>2 DEF Becomes
  <2>2. Fits(s) /\ s.conn = conn
    BY <1>0, <2>1, FitsPop
  <2> HIDE DEF s
  <2>3. CASE conn.owner = "set"
    <3>1. /\ DOMAIN r = StateFields /\ r.core = s.core /\ r.table = s.table
          /\ r.watcher = s.watcher /\ r.conn = s.conn /\ r.stack = s.stack
          /\ r.tasks = Append(s.tasks, DestroyTask)
      BY <2>2 DEF Fits, Base, StateFields
    <3> HIDE DEF r
    <3>2. DestroyTask \in Foreign(s.conn)
      BY <2>2, <2>3 DEF Foreign
    <3>3. Posted(r.tasks, r.watcher, Foreign(s.conn))
      BY <2>2, <3>1, <3>2, ForeignPosted DEF Fits, Base, Sound
    <3>4. Sound(r, Foreign(r.conn))
      BY <2>2, <3>1, <3>3 DEF Fits, Base, Sound, StateFields
    <3>5. Fits(r)
      BY <2>2, <3>1, <3>4 DEF Fits, Base
    <3> QED BY <2>1, <2>3, <3>5, StepFits
  <2> QED BY <2>1, <2>2, <2>3, StepFits
<1>5. CASE \E finite \in BOOLEAN : SyncWaitFor(finite)
  <2>1. PICK finite \in BOOLEAN : SyncWaitFor(finite)
    BY <1>5
  <2> DEFINE x == WaitCall(delivered + 1, finite)
             r == [State EXCEPT !.stack = Append(@, x)]
  <2>2. conn.alive /\ conn.owner = "plain" /\ Becomes(r)
    BY <2>1 DEF SyncWaitFor, ClientRuns
  <2>3. CallTyped(x)
    BY DEF WaitCall, CallTyped
  <2> HIDE DEF x
  <2>4. Calls(Append(stack, x), conn)
    BY <1>0, <2>2, <2>3, CallsPush
  <2>5. Fits(r)
    BY <1>0, <2>4, FitsStack
  <2> HIDE DEF r
  <2> QED BY <2>2, <2>5, StepFits
<1>6. CASE WaitSucceeds \/ WaitExpires
  <2>1. stack # <<>> /\ Becomes([State EXCEPT !.stack = Pop(@)])
    BY <1>6 DEF WaitSucceeds, WaitExpires, WaitAt, TopIs
  <2> QED BY <1>0, <2>1, FitsPop, StepFits
<1>7. CASE WaitSleeps
  <2> DEFINE u == [stack EXCEPT ![Len(stack)].at = "sleep"]
             r == [State EXCEPT !.stack = u]
  <2>1. Becomes(r)
    BY <1>7 DEF WaitSleeps, State
  <2>2. Calls(u, conn)
    BY <1>0, CallsOn
  <2> HIDE DEF u
  <2>3. Fits(r)
    BY <1>0, <2>2, FitsStack
  <2> HIDE DEF r
  <2> QED BY <2>1, <2>3, StepFits
<1> QED BY <1>1, <1>2, <1>3, <1>4, <1>5, <1>6, <1>7

(* The executor's turns.                                                   *)
LEMMA TurnTaken ==
  ASSUME CInv, DropTask \/ RunDestroyTask \/ RunTask
  PROVE  /\ Fits(Taken) /\ Taken.conn = conn /\ Taken.stack = stack /\ Taken.watcher = watcher
         /\ \/ FirstTask = DestroyTask /\ conn.owner = "set"
            \/ FirstTask.watcher \in Watchers /\ FirstTask.trap_at_post # 0
         /\ stack = <<>> \/ (stack # <<>> /\ Top(stack).fn = "wait")
<1>0. /\ Fits(State) /\ State.conn = conn /\ State.stack = stack /\ State.watcher = watcher
  BY StateIs
<1>1. Pumped(State).tasks # <<>>
  BY DEF DropTask, RunDestroyTask, RunTask, TurnStarts
<1>2. stack = <<>> \/ (stack # <<>> /\ Top(stack).fn = "wait")
  BY DEF DropTask, RunDestroyTask, RunTask, TurnStarts, WaitAt, TopIs
<1> QED BY <1>0, <1>1, <1>2, TurnKeeps DEF Taken, FirstTask

(* The task that destroys the connector runs at main.                      *)
LEMMA DestroyTaskStep ==
  ASSUME CInv, RunDestroyTask
  PROVE  CInv' /\ stack' = <<>>
<1> DEFINE t == FirstTask
           r == Taken
<1>1. /\ Fits(r) /\ r.conn = conn /\ r.stack = stack
      /\ \/ t = DestroyTask /\ conn.owner = "set"
         \/ t.watcher \in Watchers /\ t.trap_at_post # 0
      /\ stack = <<>> \/ (stack # <<>> /\ Top(stack).fn = "wait")
  BY TurnTaken
<1>2. t = DestroyTask /\ Becomes(IF conn.alive THEN Destroyed(r) ELSE r)
  BY DEF RunDestroyTask
<1>3. DestroyTask.watcher \notin Watchers
  BY ConnectorAssumption DEF DestroyTask
<1>4. conn.owner = "set"
  BY <1>1, <1>2, <1>3
<1>5. stack = <<>>
  <2>1. Calls(stack, conn)
    BY StateIs
  <2>2. PICK S : stack \in Seq(S)
    BY <2>1 DEF Calls
  <2>3. stack # <<>> => Len(stack) \in DOMAIN stack
    BY <2>2
  <2> QED BY <1>1, <1>4, <2>1, <2>3 DEF Calls, Top
<1> HIDE DEF r, t
<1>6. Fits(Destroyed(r)) /\ Destroyed(r).stack = <<>>
  BY <1>1, <1>5, DestroyedKeeps DEF Fits, Exactly
<1>7. stack' = <<>>
  BY <1>1, <1>2, <1>5, <1>6 DEF Becomes
<1> QED BY <1>1, <1>2, <1>6, <1>7, StepFits

LEMMA TurnStep ==
  ASSUME CInv, DropTask \/ RunDestroyTask \/ RunTask
  PROVE  CInv'
<1> DEFINE t == FirstTask
           r == Taken
<1>0. /\ Fits(State) /\ Exactly(conn) /\ Calls(stack, conn)
      /\ State.conn = conn /\ State.stack = stack /\ State.watcher = watcher
  BY StateIs
<1>1. /\ Fits(r) /\ r.conn = conn /\ r.stack = stack /\ r.watcher = watcher
      /\ \/ t = DestroyTask /\ conn.owner = "set"
         \/ t.watcher \in Watchers /\ t.trap_at_post # 0
  BY TurnTaken
<1>2. stack = <<>> \/ (stack # <<>> /\ Top(stack).fn = "wait")
  BY TurnTaken
<1>3. CASE DropTask
  BY <1>1, <1>3, StepFits DEF DropTask
<1>4. CASE RunDestroyTask
  BY <1>4, DestroyTaskStep
<1>5. CASE RunTask
  <2> DEFINE s == Entered(r, t)
             x == CallbackCall(t)
             e == [s EXCEPT !.stack = Append(@, x)]
  <2>1. /\ t # DestroyTask /\ ~Dropped(r, t)
        /\ Becomes(IF Stops(s) THEN Rearmed(s, t) ELSE e)
    BY <1>5 DEF RunTask
  <2>2. t.watcher \in Watchers /\ watcher[t.watcher].trap # 0
    BY <1>1, <2>1 DEF Dropped
  <2>3. conn.alive
    <3>1. t.watcher \in {conn.read, conn.closed} /\ t.watcher # 0
      BY <1>0, <2>2, NoneIsZero DEF Fits, Base, Held
    <3>2. conn.read # 0
      BY <1>0, <3>1, NumbersOfWatchers DEF Fits, Base
    <3> QED BY <1>0, <3>2 DEF Exactly
  <2> HIDE DEF r, t
  <2>4. Fits(s) /\ s.conn = conn /\ s.stack = stack
    BY <1>1, EnteredKeeps
  <2> HIDE DEF s
  <2>5. Fits(Rearmed(s, t))
    BY <2>2, <2>4, RearmedKeeps
  <2>6. CallTyped(x) /\ x.fn = "callback"
    BY <2>2 DEF CallbackCall, CallTyped
  <2> HIDE DEF x
  <2>7. Calls(Append(s.stack, x), s.conn)
    BY <1>0, <2>3, <2>4, <2>6, CallsPush
  <2>8. Fits(e)
    BY <2>4, <2>7, FitsStack
  <2> HIDE DEF e
  <2> QED BY <2>1, <2>5, <2>8, StepFits
<1> QED BY <1>3, <1>4, <1>5

(* ReadMessageRaw.                                                         *)
LEMMA MessageReadKeeps ==
  ASSUME CInv, HasMessage
  PROVE  Fits(MessageRead) /\ MessageRead.conn = conn /\ MessageRead.stack = stack
<1> DEFINE d == WhpClose(WhpReadMessage(core, conn.pipe), NextHandle(core))
<1>0. Fits(State) /\ Typed(core) /\ State.core = core /\ State.conn = conn /\ State.stack = stack
  BY StateIs
<1>1. MessageRead = [State EXCEPT !.core = d]
  BY <1>0 DEF MessageRead
<1>2. IsA(core, conn.pipe, "MessagePipe") /\ Inbound(core, conn.pipe) # <<>>
  BY <1>0 DEF HasMessage, MOJO_HANDLE_INVALID, Fits, Base, Held
<1>3. CoreKept(core, d)
  BY <1>0, <1>2, ReadKept
<1> HIDE DEF d
<1> QED BY <1>0, <1>1, <1>3, FitsKept

(* The callback of a watcher.                                              *)
LEMMA ReadStep ==
  ASSUME CInv, ReadAndAccept \/ ReadMalformed \/ ReadNothing \/ FinishTask
  PROVE  CInv'
<1>0. /\ Fits(State) /\ Calls(stack, conn) /\ Typed(core) /\ State.core = core
      /\ State.conn = conn /\ State.stack = stack
  BY StateIs
<1>1. stack # <<>> /\ Top(stack).fn = "callback" /\ conn.alive
  BY <1>0 DEF ReadAndAccept, ReadMalformed, ReadNothing, FinishTask, CallbackAt, TopIs, Calls
<1> DEFINE s == MessageRead
<1>3. HasMessage => Fits(s) /\ s.conn = conn /\ s.stack = stack
  BY MessageReadKeeps
<1> HIDE DEF s
<1>4. CASE ReadAndAccept
  <2> DEFINE r == [s EXCEPT !.stack = Append(@, AcceptCall)]
  <2>1. HasMessage /\ Becomes(r)
    BY <1>4 DEF ReadAndAccept, s
  <2>2. CallTyped(AcceptCall) /\ AcceptCall.fn # "wait"
    BY DEF AcceptCall, CallTyped
  <2>3. Calls(Append(s.stack, AcceptCall), s.conn)
    BY <1>0, <1>1, <1>3, <2>1, <2>2, CallsPush
  <2>4. Fits(r)
    BY <1>3, <2>1, <2>3, FitsStack
  <2> HIDE DEF r
  <2> QED BY <2>1, <2>4, StepFits
<1>5. CASE ReadMalformed
  <2>1. HasMessage /\ Becomes(ReturnedWithError(s))
    BY <1>5 DEF ReadMalformed, s
  <2> QED BY <1>1, <1>3, <2>1, ReturnedKeeps, StepFits
<1>6. CASE ReadNothing
  <2>1. Becomes(Returned(State)) \/ Becomes(ReturnedWithError(State))
    BY <1>6 DEF ReadNothing
  <2> QED BY <1>0, <1>1, <2>1, ReturnedKeeps, StepFits
<1>7. CASE FinishTask
  <2> DEFINE t == Top(stack).task
             e == Rearmed(State, t)
             r == [e EXCEPT !.stack = Pop(@)]
  <2>1. Becomes(r)
    BY <1>7 DEF FinishTask
  <2>2. t.watcher \in Watchers
    <3>1. PICK S : stack \in Seq(S)
      BY <1>0 DEF Calls
    <3>2. Len(stack) \in DOMAIN stack
      BY <1>1, <3>1
    <3>3. CallTyped(Top(stack))
      BY <1>0, <3>2 DEF Calls, Top
    <3> QED BY <1>1, <3>3 DEF CallTyped
  <2> HIDE DEF t
  <2>3. Fits(e) /\ e.stack = stack
    BY <1>0, <2>2, RearmedKeeps
  <2> HIDE DEF e
  <2>4. Fits(r)
    BY <1>1, <2>3, FitsPop
  <2> HIDE DEF r
  <2> QED BY <2>1, <2>4, StepFits
<1> QED BY <1>4, <1>5, <1>6, <1>7

(* The peer, and the steps that change nothing.                            *)
LEMMA PeerStep ==
  ASSUME CInv, PeerWrites \/ PeerCloses
  PROVE  CInv'
<1> DEFINE r == [State EXCEPT !.core = core']
<1>0. Fits(State) /\ Typed(core) /\ State.core = core /\ State.conn = conn
  BY StateIs
<1>1. UNCHANGED <<table, watcher, tasks, conn, stack>>
  BY DEF PeerWrites, PeerCloses
<1>2. Becomes(r)
  BY <1>1 DEF Becomes, State
<1>3. CASE PeerWrites
  <2>1. CoreKept(core, core')
    BY <1>0, <1>3, WriteKept DEF PeerWrites
  <2>2. Fits(r)
    BY <1>0, <2>1, FitsKept
  <2> HIDE DEF r
  <2> QED BY <1>2, <2>2, StepFits
<1>4. CASE PeerCloses
  <2>1. IsA(core, PeerEnd, "MessagePipe") /\ core' = WhpClose(core, PeerEnd)
    BY <1>4 DEF PeerCloses
  <2>2. Collecting(core, core', {PeerEnd})
    BY <1>0, <2>1, ClosePipeEffect
  <2>3. Typed(core') /\ SameTraps(core, core') /\ NewEvents(core, core')
    BY <2>2 DEF Collecting
  <2>4. conn.pipe # 0 => IsA(core', LocalEnd, "MessagePipe")
    BY <1>0, <2>2 DEF Fits, Base, Held, Collecting, SameEnds, LocalEnd, PeerEnd
  <2>5. Fits(r)
    BY <1>0, <2>3, <2>4, FitsCore
  <2> HIDE DEF r
  <2> QED BY <1>2, <2>5, StepFits
<1> QED BY <1>3, <1>4

LEMMA CInvAlways == Spec => []CInv
<1>1. Init => CInv
  BY CInvInit
<1>2. CInv /\ [Next]_vars => CInv'
  <2> SUFFICES ASSUME CInv, [Next]_vars PROVE CInv'
    OBVIOUS
  <2>1. CASE Next
    BY <2>1, ClientStep, CallStep, TurnStep, ReadStep, PeerStep DEF Next
  <2>2. CASE UNCHANGED vars
    BY <2>2 DEF vars, CInv, State
  <2> QED BY <2>1, <2>2
<1> QED BY <1>1, <1>2, PTL DEF Spec

-----------------------------------------------------------------------------
(* The theorems.                                                           *)

\* Through every order of pause, resume, error, close and destruction, inside
\* callbacks and nested waits, the connector watches its pipe exactly when it
\* is bound, not paused and has a pipe; an error leaves no pipe; and no trap
\* but its two watchers' is in the core (StartReceiving, CancelWatchers,
\* RaiseError, ~Connector), for every bound on what its client and peer do.
THEOREM WatchesTheorem == Spec => []WatchesExactly
<1>1. CInv => WatchesExactly
  <2> SUFFICES ASSUME CInv PROVE WatchesExactly
    OBVIOUS
  <2>1. /\ Exactly(conn) /\ Numbered(conn) /\ Held(core, watcher, conn) /\ Typed(core)
        /\ Linked(core, table, watcher) /\ DOMAIN watcher = Watchers
    BY StateIs DEF Base, Sound
  <2>2. conn.starts # 0 <=> Bound
    BY <2>1, ConnectorAssumption DEF Bound, Numbered
  <2>3. ASSUME NEW h \in DOMAIN core.slots, IsA(core, h, "Trap")
        PROVE  \E w \in {conn.read, conn.closed} \ {0} : watcher[w].trap = h
    <3>1. PICK w \in Watchers : watcher[w].trap = h
      BY <2>1, <2>3 DEF Linked
    <3>2. h # 0
      BY <2>1, <2>3, HandlePositive
    <3> QED BY <2>1, <3>1, <3>2, NoneIsZero DEF Held
  <2> QED BY <2>1, <2>2, <2>3
      DEF WatchesExactly, Receiving, Exactly, Held, MOJO_HANDLE_INVALID
<1> QED BY <1>1, CInvAlways, PTL

-----------------------------------------------------------------------------
(* The loops on the stack.                                                 *)

\* The loop of a watcher's callback will read another message.
Reads(call) == call.fn = "callback" /\ call.at = "read"

\* A loop that will read is inside Accept, or it runs and the connector is not
\* paused (p).
Looked(st, p) ==
  \A i \in DOMAIN st : Reads(st[i]) => IF i = Len(st) THEN ~p ELSE st[i + 1].fn = "accept"

\* No loop runs: what has been called last is no callback that reads.
Quiet(st) == st # <<>> => ~Reads(Top(st))

LInv == Looked(stack, conn.paused)

LEMMA LookedPush ==
  ASSUME NEW st, NEW k, Calls(st, k), NEW p, Looked(st, p), NEW x,
         Quiet(st) \/ x.fn = "accept", Reads(x) => ~p
  PROVE  Looked(Append(st, x), p)
<1> DEFINE u == Append(st, x)
<1>1. PICK S : st \in Seq(S)
  BY DEF Calls
<1>2. /\ Len(u) = Len(st) + 1 /\ DOMAIN u = 1..Len(u) /\ u[Len(u)] = x /\ Len(st) \in Nat
      /\ DOMAIN st = 1..Len(st) /\ (\A i \in DOMAIN st : u[i] = st[i])
  BY <1>1
<1>3. ASSUME NEW i \in DOMAIN u, Reads(u[i]), i # Len(u) PROVE u[i + 1].fn = "accept"
  <2>1. i \in DOMAIN st /\ Reads(st[i])
    BY <1>2, <1>3
  <2>2. CASE i = Len(st)
    <3>1. ~Quiet(st)
      BY <1>2, <2>1, <2>2 DEF Quiet, Top
    <3> QED BY <1>2, <2>2, <3>1
  <2>3. CASE i # Len(st)
    <3>1. st[i + 1].fn = "accept"
      BY <2>1, <2>3 DEF Looked
    <3>2. i + 1 \in DOMAIN st
      BY <1>2, <2>1, <2>3
    <3> QED BY <1>2, <3>1, <3>2
  <2> QED BY <2>2, <2>3
<1> HIDE DEF u
<1>4. Looked(u, p)
  BY <1>2, <1>3 DEF Looked
<1> QED BY <1>4 DEF u

(* Whoever returns from a call that is not Accept finds no loop running.   *)
LEMMA LookedPop ==
  ASSUME NEW st, NEW k, Calls(st, k), NEW p, Looked(st, p), st # <<>>, NEW q,
         Top(st).fn # "accept" \/ ~q
  PROVE  Looked(Pop(st), q)
<1> DEFINE u == SubSeq(st, 1, Len(st) - 1)
<1>1. PICK S : st \in Seq(S)
  BY DEF Calls
<1>2. /\ Len(st) \in Nat \ {0} /\ Len(u) = Len(st) - 1 /\ DOMAIN u = 1..Len(u)
      /\ DOMAIN st = 1..Len(st) /\ (\A i \in DOMAIN u : u[i] = st[i])
  <2>1. Len(st) \in Nat \ {0} /\ DOMAIN st = 1..Len(st)
    BY <1>1
  <2>2. /\ u \in Seq(S) /\ Len(u) = Len(st) - 1 /\ DOMAIN u = 1..Len(u)
        /\ \A i \in DOMAIN u : u[i] = st[i]
    BY <1>1, <2>1
  <2> HIDE DEF u
  <2> QED BY <2>1, <2>2
<1>3. ASSUME NEW i \in DOMAIN u, Reads(u[i])
      PROVE  IF i = Len(u) THEN ~q ELSE u[i + 1].fn = "accept"
  <2>1. i \in DOMAIN st /\ i # Len(st) /\ Reads(st[i])
    BY <1>2, <1>3
  <2>2. st[i + 1].fn = "accept"
    BY <2>1 DEF Looked
  <2>3. i # Len(u) => u[i + 1] = st[i + 1]
    BY <1>2
  <2>4. i = Len(u) => st[i + 1] = Top(st)
    BY <1>2 DEF Top
  <2> QED BY <2>2, <2>3, <2>4
<1> HIDE DEF u
<1>4. Looked(u, q)
  BY <1>3 DEF Looked
<1> QED BY <1>4 DEF u, Pop

(* What holds of a stack whose loop stops, or on which none runs.          *)
LEMMA LookedFinish ==
  ASSUME NEW st, NEW k, Calls(st, k), NEW p, Looked(st, p), NEW q
  PROVE  Looked(Finishing(st), q) /\ Quiet(Finishing(st))
<1> DEFINE n == Len(st)
           x == [st[n] EXCEPT !.at = "finish"]
           u == [st EXCEPT ![n] = x]
<1>1. PICK S : st \in Seq(S)
  BY DEF Calls
<1>2. /\ n \in Nat /\ DOMAIN st = 1..n /\ DOMAIN u = 1..n /\ (st # <<>> => n # 0)
      /\ \A i \in 1..n : u[i] = IF i = n THEN x ELSE st[i]
  BY <1>1
<1>3. n # 0 => ~Reads(x) /\ (st[n].fn = "accept" => x.fn = "accept")
  <2> SUFFICES ASSUME n # 0 PROVE ~Reads(x) /\ (st[n].fn = "accept" => x.fn = "accept")
    OBVIOUS
  <2>1. CallTyped(st[n])
    BY <1>2 DEF Calls
  <2>2. "fn" \in DOMAIN st[n] /\ (st[n].fn = "callback" => DOMAIN st[n] = {"fn", "at", "task"})
    BY <2>1, Zenon DEF CallTyped
  <2> HIDE DEF n
  <2>3. x.fn = st[n].fn /\ (x.fn = "callback" => x.at = "finish")
    BY <2>2
  <2> QED BY <2>3 DEF Reads
<1>4. u = Finishing(st)
  BY DEF Finishing
<1>5. Len(u) = n /\ (u # <<>> => n # 0)
  <2>1. u \in Seq(S \cup {x})
    BY <1>1, ReplaceTyped
  <2>2. u = <<>> \/ Len(u) # 0
    BY <2>1
  <2>3. Len(u) \in Nat /\ DOMAIN u = 1..Len(u)
    BY <2>1
  <2> HIDE DEF u, x, n
  <2>4. Len(u) = n
    BY <1>2, <2>3
  <2> QED BY <2>2, <2>4
<1>9. Looked(st, p) => \A i \in 1..n : i # n /\ Reads(st[i]) => st[i + 1].fn = "accept"
  BY <1>2 DEF Looked
<1> HIDE DEF u, x, n
<1>6. Quiet(u)
  <2>1. u # <<>> => Top(u) = u[n] /\ n \in 1..n /\ n # 0
    BY <1>2, <1>5 DEF Top
  <2>2. n \in 1..n => u[n] = x
    BY <1>2
  <2> QED BY <1>3, <2>1, <2>2 DEF Quiet
<1>7. ASSUME NEW i \in DOMAIN u, Reads(u[i])
      PROVE  i # Len(u) /\ u[i + 1].fn = "accept"
  <2>1. i \in 1..n /\ n # 0 /\ u[i] = IF i = n THEN x ELSE st[i]
    BY <1>2
  <2>2. i # n /\ Reads(st[i])
    BY <1>3, <1>7, <2>1
  <2>3. st[i + 1].fn = "accept"
    BY <1>9, <2>1, <2>2
  <2>4. i + 1 \in 1..n
    BY <1>2, <2>1, <2>2
  <2>5. u[i + 1] = IF i + 1 = n THEN x ELSE st[i + 1]
    BY <1>2, <2>4
  <2>6. u[i + 1].fn = "accept"
    BY <1>3, <2>1, <2>3, <2>5
  <2> QED BY <1>5, <2>2, <2>6
<1>8. Looked(u, q)
  BY <1>7 DEF Looked
<1> QED BY <1>4, <1>6, <1>8

LEMMA LookedQuiet ==
  ASSUME NEW st, NEW k, Calls(st, k), NEW p, Looked(st, p), Quiet(st) \/ ~p, NEW q,
         Quiet(st) \/ ~q
  PROVE  Looked(st, q)
<1>1. PICK S : st \in Seq(S)
  BY DEF Calls
<1>2. \A i \in DOMAIN st : i = Len(st) /\ Reads(st[i]) => ~Quiet(st)
  BY <1>1 DEF Quiet, Top
<1> QED BY <1>2 DEF Looked

(* RaiseError, when no loop runs.                                          *)
LEMMA RaiseErrorLooked ==
  ASSUME NEW s, Fits(s), s.conn.alive, Looked(s.stack, s.conn.paused), Quiet(s.stack)
  PROVE  LET r == RaiseError(s) IN Looked(r.stack, r.conn.paused)
<1> DEFINE r == RaiseError(s)
<1>1. /\ r.conn.paused = s.conn.paused
      /\ r.stack = s.stack \/ r.stack = Append(s.stack, HandlerCall)
  BY RaiseErrorKeeps
<1> HIDE DEF r
<1>2. ~Reads(HandlerCall)
  BY DEF Reads, HandlerCall
<1>3. Looked(Append(s.stack, HandlerCall), s.conn.paused)
  BY <1>2, LookedPush DEF Fits
<1> QED BY <1>1, <1>3 DEF r

(* ReadAllAvailableMessages returns.                                       *)
LEMMA ReturnedLooked ==
  ASSUME NEW s, Fits(s), s.conn.alive, NEW p, Looked(s.stack, p)
  PROVE  /\ Looked(Returned(s).stack, Returned(s).conn.paused)
         /\ Looked(ReturnedWithError(s).stack, ReturnedWithError(s).conn.paused)
<1> DEFINE b == [s EXCEPT !.stack = Finishing(@)]
<1>1. Calls(Finishing(s.stack), s.conn)
  BY CallsOn DEF Finishing, Fits
<1>2. Fits(b) /\ b.conn = s.conn /\ b.stack = Finishing(s.stack)
  BY <1>1, FitsStack
<1>3. /\ Returned(s) = IF ForPeerClosed(Top(s.stack).task.watcher) THEN RaiseError(b) ELSE b
      /\ ReturnedWithError(s) = RaiseError(b)
  BY DEF Returned, ReturnedWithError
<1> HIDE DEF b
<1>4. Looked(b.stack, b.conn.paused) /\ Quiet(b.stack)
  BY <1>2, LookedFinish DEF Fits
<1>5. Looked(RaiseError(b).stack, RaiseError(b).conn.paused)
  BY <1>2, <1>4, RaiseErrorLooked
<1> QED BY <1>3, <1>4, <1>5

LEMMA TopIsThere ==
  ASSUME NEW st, NEW k, Calls(st, k), st # <<>>
  PROVE  Len(st) \in DOMAIN st /\ CallTyped(Top(st))
<1>1. PICK S : st \in Seq(S)
  BY DEF Calls
<1>2. Len(st) \in DOMAIN st
  BY <1>1
<1> QED BY <1>2 DEF Calls, Top

(* SyncWaitFor goes to sleep.                                              *)
LEMMA LookedSleep ==
  ASSUME NEW st, NEW k, Calls(st, k), NEW p, Looked(st, p), st # <<>>, Top(st).fn = "wait",
         NEW v
  PROVE  Looked([st EXCEPT ![Len(st)].at = v], p)
<1> DEFINE n == Len(st)
           x == [st[n] EXCEPT !.at = v]
           u == [st EXCEPT ![n] = x]
<1>1. PICK S : st \in Seq(S)
  BY DEF Calls
<1>2. /\ n \in Nat /\ DOMAIN st = 1..n /\ DOMAIN u = 1..n /\ n \in 1..n
      /\ \A i \in 1..n : u[i] = IF i = n THEN x ELSE st[i]
  BY <1>1
<1>3. x.fn = "wait"
  BY TopIsThere DEF CallTyped, Top
<1>4. Len(u) = n
  <2>1. u \in Seq(S \cup {x})
    BY <1>1, ReplaceTyped
  <2>2. Len(u) \in Nat /\ DOMAIN u = 1..Len(u)
    BY <2>1
  <2> HIDE DEF u, x, n
  <2> QED BY <1>2, <2>2
<1>5. \A i \in 1..n : i # n /\ Reads(st[i]) => st[i + 1].fn = "accept"
  BY <1>2 DEF Looked
<1>6. st[n].fn = "wait"
  BY DEF Top
<1> HIDE DEF u, x, n
<1>7. ASSUME NEW i \in DOMAIN u, Reads(u[i])
      PROVE  i # Len(u) /\ u[i + 1].fn = "accept"
  <2>1. i \in 1..n /\ i # n /\ Reads(st[i])
    BY <1>2, <1>3, <1>7 DEF Reads
  <2>2. st[i + 1].fn = "accept" /\ i + 1 \in 1..n
    BY <1>2, <1>5, <2>1
  <2>3. i + 1 # n
    BY <1>6, <2>2
  <2>4. u[i + 1] = st[i + 1]
    BY <1>2, <2>2, <2>3
  <2> QED BY <1>4, <2>1, <2>2, <2>4
<1>8. Looked(u, p)
  BY <1>7 DEF Looked
<1> QED BY <1>8 DEF u, x, n

(* The client's code runs in no loop.                                      *)
LEMMA ClientIsQuiet == ClientRuns => Quiet(stack)
BY DEF ClientRuns, Quiet, TopIs, Reads

LEMMA StepLooked ==
  ASSUME NEW r, Becomes(r), Looked(r.stack, r.conn.paused)
  PROVE  LInv'
BY DEF Becomes, LInv

LEMMA StartReceivingStack ==
  ASSUME NEW s, Base(s), Receives(s) => s.conn.starts < MaxStarts
  PROVE  Receives(s) => StartReceiving(s).stack = s.stack
<1> DEFINE r == StartReceiving(s)
           k == s.conn.starts + 1
<1>1. ASSUME Receives(s) PROVE r.stack = s.stack
  <2>1. /\ Base(r) /\ r.stack = s.stack
        /\ r.conn = [s.conn EXCEPT !.read = 2 * k - 1, !.closed = 2 * k, !.starts = k]
    BY <1>1, StartReceivingEffect
  <2> QED BY <2>1
<1> HIDE DEF r
<1> QED BY <1>1 DEF r

LEMMA ClientLooked ==
  ASSUME CInv, LInv,
         \/ Bind \/ PauseIncomingMethodCallProcessing \/ ResumeIncomingMethodCallProcessing
         \/ CloseMessagePipe \/ Destroy \/ PassMessagePipe
  PROVE  LInv'
<1>0. /\ Fits(State) /\ Base(State) /\ Exactly(conn) /\ Calls(stack, conn)
      /\ State.conn = conn /\ State.stack = stack /\ DOMAIN conn = ConnFields
  BY StateIs DEF Base, Numbered
<1>1. Quiet(stack)
  BY ClientIsQuiet DEF Bind, PauseIncomingMethodCallProcessing,
     ResumeIncomingMethodCallProcessing, CloseMessagePipe, Destroy, PassMessagePipe
<1>2. \A q : Looked(stack, q)
  BY <1>0, <1>1, LookedQuiet DEF LInv
<1>3. CASE Bind
  <2>1. Becomes(StartReceiving(State)) /\ conn.starts = 0
    BY <1>3 DEF Bind
  <2>2. Receives(State) => StartReceiving(State).stack = stack
    <3>1. conn.starts < MaxStarts
      BY <2>1, ConnectorAssumption
    <3>2. Base(State) /\ (Receives(State) => State.conn.starts < MaxStarts)
      BY <1>0, <3>1
    <3> QED BY <1>0, <3>2, StartReceivingStack
  <2>3. ~Receives(State) => StartReceiving(State) = State
    BY DEF StartReceiving
  <2> QED BY <1>0, <1>2, <2>1, <2>2, <2>3, StepLooked
<1>4. CASE PauseIncomingMethodCallProcessing
  <2> DEFINE k == [conn EXCEPT !.paused = TRUE]
             b == [State EXCEPT !.conn = k]
  <2>1. Becomes(CancelWatchers(b))
    BY <1>4, <1>0 DEF PauseIncomingMethodCallProcessing, State
  <2>2. SameLinks(conn, k)
    BY <1>0 DEF SameLinks, ConnFields
  <2>3. Base(b) /\ b.stack = stack
    BY <2>2, FlagBase
  <2> HIDE DEF k, b
  <2>4. CancelWatchers(b).stack = stack
    BY <2>3, CancelWatchersEffect, UnwatchedBase
  <2> QED BY <1>2, <2>1, <2>4, StepLooked
<1>5. CASE ResumeIncomingMethodCallProcessing
  <2> DEFINE k == [conn EXCEPT !.paused = FALSE]
             b == [State EXCEPT !.conn = k]
  <2>1. Becomes(StartReceiving(b)) /\ (Receives(State) => conn.starts < MaxStarts)
    BY <1>5 DEF ResumeIncomingMethodCallProcessing, State
  <2>2. SameLinks(conn, k)
    BY <1>0 DEF SameLinks, ConnFields
  <2>3. Base(b) /\ b.conn = k /\ b.stack = stack
    BY <2>2, FlagBase
  <2> HIDE DEF k, b
  <2>4. Receives(b) => b.conn.starts < MaxStarts
    BY <1>0, <2>1, <2>2, <2>3 DEF Receives, SameLinks
  <2>5. Receives(b) => StartReceiving(b).stack = stack
    BY <2>3, <2>4, StartReceivingStack
  <2>6. ~Receives(b) => StartReceiving(b) = b
    BY DEF StartReceiving
  <2> QED BY <1>2, <2>1, <2>3, <2>5, <2>6, StepLooked
<1>6. CASE CloseMessagePipe
  <2> DEFINE r == ResetPipe(CancelWatchers(State))
  <2>1. Becomes(r)
    BY <1>6 DEF CloseMessagePipe
  <2>2. r.stack = stack
    BY <1>0, ClosedUp DEF Exactly
  <2> HIDE DEF r
  <2> QED BY <1>2, <2>1, <2>2, StepLooked
<1>7. CASE Destroy
  <2>1. Becomes(Destroyed(State)) /\ stack = <<>>
    BY <1>7 DEF Destroy
  <2>2. Destroyed(State).stack = stack
    BY <1>0, <2>1, DestroyedKeeps DEF Exactly
  <2> QED BY <1>2, <2>1, <2>2, StepLooked
<1>8. CASE PassMessagePipe
  <2>1. stack' = <<>>
    BY <1>8, PassStep
  <2> QED BY <2>1 DEF LInv, Looked
<1> QED BY <1>3, <1>4, <1>5, <1>6, <1>7, <1>8

LEMMA CallLooked ==
  ASSUME CInv, LInv,
         \/ Send \/ ClientRaisesError \/ (\E ok \in BOOLEAN : AcceptReturns(ok)) \/ HandlerReturns
         \/ (\E finite \in BOOLEAN : SyncWaitFor(finite))
         \/ WaitSucceeds \/ WaitSleeps \/ WaitExpires
  PROVE  LInv'
<1>0. /\ Fits(State) /\ Calls(stack, conn) /\ Typed(core) /\ Looked(stack, conn.paused)
      /\ State.core = core /\ State.conn = conn /\ State.stack = stack
  BY StateIs DEF LInv
<1>1. CASE Send
  <2> DEFINE d == WhpWriteMessage(WhpCreateMessage(core), conn.pipe, NextHandle(core))
             s == [State EXCEPT !.core = d]
  <2>1. /\ conn.alive /\ Quiet(stack)
        /\ Becomes(IF WriteRefused(core, conn.pipe) THEN RaiseError(s) ELSE s)
    BY <1>1, ClientIsQuiet DEF Send, ClientRuns, State
  <2>2. CoreKept(core, d)
    BY <1>0, WriteKept
  <2> HIDE DEF d
  <2>3. Fits(s) /\ s.conn = conn /\ s.stack = stack
    BY <1>0, <2>2, FitsKept
  <2> HIDE DEF s
  <2>4. Looked(RaiseError(s).stack, RaiseError(s).conn.paused)
    BY <1>0, <2>1, <2>3, RaiseErrorLooked
  <2> QED BY <1>0, <2>1, <2>3, <2>4, StepLooked
<1>2. CASE ClientRaisesError
  <2>1. conn.alive /\ Quiet(stack) /\ Becomes(RaiseError(State))
    BY <1>2, ClientIsQuiet DEF ClientRaisesError, ClientRuns
  <2>2. Looked(RaiseError(State).stack, RaiseError(State).conn.paused)
    BY <1>0, <2>1, RaiseErrorLooked
  <2> QED BY <2>1, <2>2, StepLooked
<1>3. CASE \E ok \in BOOLEAN : AcceptReturns(ok)
  <2> DEFINE s == [State EXCEPT !.stack = Pop(@)]
  <2>1. /\ stack # <<>>
        /\ \/ Becomes(ReturnedWithError(s)) \/ Becomes(Returned(s))
           \/ Becomes(s) /\ ~Stops(s)
    BY <1>3 DEF AcceptReturns, TopIs
  <2>2. Fits(s) /\ s.conn = conn /\ s.conn.alive
    BY <1>0, <2>1, FitsPop
  <2>3. s.stack = Pop(stack)
    BY DEF State
  <2> HIDE DEF s
  <2>4. Looked(s.stack, FALSE)
    BY <1>0, <2>1, <2>3, LookedPop
  <2>5. CASE Becomes(s) /\ ~Stops(s)
    <3>1. ~s.conn.paused
      BY <2>5 DEF Stops
    <3>2. Looked(s.stack, s.conn.paused)
      BY <1>0, <2>1, <2>3, <3>1, LookedPop
    <3> QED BY <2>5, <3>2, StepLooked
  <2>6. CASE Becomes(ReturnedWithError(s)) \/ Becomes(Returned(s))
    BY <2>2, <2>4, <2>6, ReturnedLooked, StepLooked
  <2> QED BY <2>1, <2>5, <2>6
<1>4. CASE HandlerReturns \/ WaitSucceeds \/ WaitExpires
  <2>1. stack # <<>> /\ Top(stack).fn \in {"handler", "wait"}
    BY <1>4 DEF HandlerReturns, WaitSucceeds, WaitExpires, WaitAt, TopIs
  <2>2. stack' = Pop(stack)
    BY <1>4 DEF HandlerReturns, WaitSucceeds, WaitExpires, Becomes, State
  <2>3. Looked(Pop(stack), conn'.paused)
    BY <1>0, <2>1, LookedPop
  <2> QED BY <2>2, <2>3 DEF LInv
<1>5. CASE \E finite \in BOOLEAN : SyncWaitFor(finite)
  <2>1. PICK finite \in BOOLEAN : SyncWaitFor(finite)
    BY <1>5
  <2> DEFINE x == WaitCall(delivered + 1, finite)
  <2>2. Quiet(stack) /\ stack' = Append(stack, x) /\ conn' = conn
    BY <2>1, ClientIsQuiet DEF SyncWaitFor, Becomes, State
  <2>3. ~Reads(x)
    BY DEF WaitCall, Reads
  <2> HIDE DEF x
  <2>4. Looked(Append(stack, x), conn.paused)
    BY <1>0, <2>2, <2>3, LookedPush
  <2> QED BY <2>2, <2>4 DEF LInv
<1>6. CASE WaitSleeps
  <2> DEFINE n == Len(stack)
             u == [stack EXCEPT ![n].at = "sleep"]
  <2>1. stack' = u /\ conn' = conn /\ stack # <<>> /\ stack[n].fn = "wait"
    BY <1>6 DEF WaitSleeps, WaitAt, TopIs, Top, Becomes, State
  <2>2. Looked(u, conn.paused)
    <3>1. Top(stack).fn = "wait"
      BY <2>1 DEF Top
    <3> QED BY <1>0, <2>1, <3>1, LookedSleep
  <2> HIDE DEF u
  <2> QED BY <2>1, <2>2 DEF LInv
<1> QED BY <1>1, <1>2, <1>3, <1>4, <1>5, <1>6

LEMMA TurnLooked ==
  ASSUME CInv, LInv, DropTask \/ RunDestroyTask \/ RunTask
  PROVE  LInv'
<1> DEFINE t == FirstTask
           r == Taken
<1>0. /\ Fits(State) /\ Calls(stack, conn) /\ State.conn = conn /\ State.stack = stack
      /\ Looked(stack, conn.paused)
  BY StateIs DEF LInv
<1>1. Fits(r) /\ r.conn = conn /\ r.stack = stack
  BY TurnTaken
<1>2. Quiet(stack)
  BY TurnTaken DEF Quiet, Reads
<1>3. CASE DropTask
  BY <1>0, <1>1, <1>3, StepLooked DEF DropTask
<1>4. CASE RunDestroyTask
  BY <1>4, DestroyTaskStep DEF LInv, Looked
<1>5. CASE RunTask
  <2> DEFINE s == Entered(r, t)
             x == CallbackCall(t)
             e == [s EXCEPT !.stack = Append(@, x)]
  <2>1. \/ Becomes(Rearmed(s, t)) /\ t.watcher \in Watchers
        \/ Becomes(e) /\ ~Stops(s)
    BY <1>5, TurnTaken DEF RunTask
  <2> HIDE DEF r, t
  <2>2. Fits(s) /\ s.conn = conn /\ s.stack = stack
    BY <1>1, EnteredKeeps
  <2> HIDE DEF s
  <2>3. CASE Becomes(Rearmed(s, t)) /\ t.watcher \in Watchers
    <3>1. Rearmed(s, t).conn = conn /\ Rearmed(s, t).stack = stack
      BY <2>2, <2>3, RearmedKeeps
    <3> QED BY <1>0, <2>3, <3>1, StepLooked
  <2>4. CASE Becomes(e) /\ ~Stops(s)
    <3>1. ~conn.paused
      BY <2>2, <2>4 DEF Stops
    <3> HIDE DEF x
    <3>2. Looked(Append(stack, x), conn.paused)
      BY <1>0, <1>2, <3>1, LookedPush
    <3>3. e.stack = Append(stack, x) /\ e.conn = conn
      BY <2>2 DEF Fits, Base, StateFields
    <3> HIDE DEF e
    <3> QED BY <2>4, <3>2, <3>3, StepLooked
  <2> QED BY <2>1, <2>3, <2>4
<1> QED BY <1>3, <1>4, <1>5

LEMMA ReadLooked ==
  ASSUME CInv, LInv, ReadAndAccept \/ ReadMalformed \/ ReadNothing \/ FinishTask
  PROVE  LInv'
<1>0. /\ Fits(State) /\ Calls(stack, conn) /\ State.conn = conn /\ State.stack = stack
      /\ Looked(stack, conn.paused)
  BY StateIs DEF LInv
<1>1. /\ stack # <<>> /\ Top(stack).fn = "callback" /\ conn.alive
  BY <1>0 DEF ReadAndAccept, ReadMalformed, ReadNothing, FinishTask, CallbackAt, TopIs, Calls
<1> DEFINE s == MessageRead
<1>2. HasMessage => Fits(s) /\ s.conn = conn /\ s.stack = stack
  BY MessageReadKeeps
<1> HIDE DEF s
<1>3. CASE ReadAndAccept
  <2> DEFINE r == [s EXCEPT !.stack = Append(@, AcceptCall)]
  <2>1. HasMessage /\ Becomes(r)
    BY <1>3 DEF ReadAndAccept, s
  <2>2. r.stack = Append(stack, AcceptCall) /\ r.conn = conn
    BY <1>2, <2>1 DEF Fits, Base, StateFields
  <2>3. AcceptCall.fn = "accept" /\ ~Reads(AcceptCall)
    BY DEF AcceptCall, Reads
  <2>4. Looked(Append(stack, AcceptCall), conn.paused)
    BY <1>0, <2>3, LookedPush
  <2> HIDE DEF r
  <2> QED BY <2>1, <2>2, <2>4, StepLooked
<1>4. CASE ReadMalformed
  <2>1. HasMessage /\ Becomes(ReturnedWithError(s))
    BY <1>4 DEF ReadMalformed, s
  <2> QED BY <1>0, <1>1, <1>2, <2>1, ReturnedLooked, StepLooked
<1>5. CASE ReadNothing
  <2>1. Becomes(Returned(State)) \/ Becomes(ReturnedWithError(State))
    BY <1>5 DEF ReadNothing
  <2> QED BY <1>0, <1>1, <2>1, ReturnedLooked, StepLooked
<1>6. CASE FinishTask
  <2>1. stack' = Pop(stack)
    <3> DEFINE t == Top(stack).task
    <3>1. Becomes([Rearmed(State, t) EXCEPT !.stack = Pop(@)])
      BY <1>6 DEF FinishTask
    <3>2. t.watcher \in Watchers
      BY <1>0, <1>1, TopIsThere DEF CallTyped
    <3> HIDE DEF t
    <3>3. Fits(Rearmed(State, t)) /\ Rearmed(State, t).stack = stack
      BY <1>0, <3>2, RearmedKeeps
    <3> QED BY <3>1, <3>3 DEF Becomes, Fits, Base, StateFields
  <2>2. Looked(Pop(stack), conn'.paused)
    BY <1>0, <1>1, LookedPop
  <2> QED BY <2>1, <2>2 DEF LInv
<1> QED BY <1>3, <1>4, <1>5, <1>6

LEMMA LInvAlways == Spec => [](CInv /\ LInv)
<1>1. Init => LInv
  BY DEF Init, LInv, Looked
<1>2. CInv /\ LInv /\ [Next]_vars => LInv'
  <2> SUFFICES ASSUME CInv, LInv, [Next]_vars PROVE LInv'
    OBVIOUS
  <2>1. CASE PeerWrites \/ PeerCloses
    BY <2>1 DEF PeerWrites, PeerCloses, LInv
  <2>2. CASE UNCHANGED vars
    BY <2>2 DEF vars, LInv
  <2> QED BY <2>1, <2>2, ClientLooked, CallLooked, TurnLooked, ReadLooked DEF Next
<1> QED BY <1>1, <1>2, CInvAlways, PTL DEF Spec

\* However the callbacks of the two watchers nest in the client's waits, no
\* message reaches the receiver while it is paused or after the error: every loop
\* on the stack stops when its Accept paused the connector or raised its error
\* (ReadAllAvailableMessages).
THEOREM NoDeliveryTheorem == Spec => NoDeliveryAfterStop
<1>1. CInv /\ LInv /\ [Next]_vars => [delivered' # delivered => ~conn.paused /\ ~conn.error]_vars
  <2> SUFFICES ASSUME CInv, LInv, [Next]_vars, delivered' # delivered
               PROVE  ~conn.paused /\ ~conn.error
    OBVIOUS
  <2>1. ReadAndAccept
    BY DEF Next, vars, Bind, PauseIncomingMethodCallProcessing,
       ResumeIncomingMethodCallProcessing, Send, ClientRaisesError, CloseMessagePipe, Destroy,
       PassMessagePipe, AcceptReturns, HandlerReturns, SyncWaitFor, WaitSucceeds, WaitSleeps,
       WaitExpires, DropTask, RunDestroyTask, RunTask, ReadMalformed, ReadNothing, FinishTask,
       PeerWrites, PeerCloses
  <2>2. stack # <<>> /\ Reads(Top(stack)) /\ conn.pipe # 0
    BY <2>1 DEF ReadAndAccept, CallbackAt, TopIs, Reads, HasMessage, MOJO_HANDLE_INVALID
  <2>3. Exactly(conn) /\ Calls(stack, conn)
    <3>1. Exactly(State.conn) /\ State.conn = conn /\ Calls(stack, conn)
      BY StateIs
    <3> QED BY <3>1
  <2>4. ~conn.paused
    BY <2>2, <2>3, TopIsThere DEF LInv, Looked, Top
  <2>5. ~conn.error
    BY <2>2, <2>3 DEF Exactly
  <2> QED BY <2>4, <2>5, Zenon
<1> QED BY <1>1, LInvAlways, PTL DEF Spec, NoDeliveryAfterStop

=============================================================================
