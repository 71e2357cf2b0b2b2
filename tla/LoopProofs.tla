------------------------------- MODULE LoopProofs -------------------------------
(***************************************************************************)
(* Safety of the event loop, for any timers, watchers and requests and a   *)
(* user who calls anything from any callback.  The argument: a handle is   *)
(* linked where its flags say, once; so what a callback stops, closes or   *)
(* starts leaves the running walk, pass or closing list sound.             *)
(***************************************************************************)
EXTENDS EventLoop, Lemmas

\* What is active is open, and what was ever set up is a timer or a watcher.
Owned ==
  /\ \A h \in active : life[h] = "open"
  /\ \A h \in Handles : life[h] # "none" => h \in Timers \cup Watchers

Handled == HandleTypeOK /\ ActiveCount /\ Owned

\* A timer of the ready queue has not been called in this pass, and has a callback.
TimersPlaced ==
  /\ TimerTypeOK /\ NodeInOnePlace
  /\ \A t \in timer_heap : has_cb[t]
  /\ \A t \in Timers : Linked(ready, t) => t \notin called
  /\ tpc = "out" => ready = <<>>
  /\ tpc \in {"out", "collect"} => called = {}

\* A watcher is in its list or in the walk while it is active, and a walk is over when
\* uv_run goes on.
WatchersPlaced ==
  /\ WatcherTypeOK
  /\ Distinct(walk) /\ \A k \in Kinds : Distinct(watchers[k])
  /\ \A k \in Kinds, h \in Watchers : Linked(watchers[k], h) => KindOf[h] = k /\ ~Linked(walk, h)
  /\ \A h \in Watchers : h \in active <=> Linked(watchers[KindOf[h]], h) \/ Linked(walk, h)
  /\ \A h \in Watchers : Linked(walk, h) => KindOf[h] = at /\ h \notin visited
  /\ at \notin Kinds => walk = <<>>

\* A closing handle is on one of the two lists.
ClosingPlaced ==
  /\ closing_handles \in Seq(Handles) /\ finishing \in Seq(Handles)
  /\ Distinct(closing_handles) /\ Distinct(finishing)
  /\ \A h \in Handles : ~(Linked(closing_handles, h) /\ Linked(finishing, h))
  /\ \A h \in Handles :
       life[h] = "closing" <=> Linked(closing_handles, h) \/ Linked(finishing, h)
  /\ at # "closing" => finishing = <<>>

\* A request that waits for its callback is active, and waits once.
RequestsPlaced ==
  /\ reqs \subseteq Reqs /\ pending_queue \in Seq(Reqs) /\ pq \in Seq(Reqs)
  /\ Distinct(pending_queue) /\ Distinct(pq)
  /\ \A q \in Reqs : Linked(pending_queue, q) => q \in reqs /\ ~Linked(pq, q)
  /\ \A q \in Reqs : Linked(pq, q) => q \in reqs
  /\ at \notin {"pending", "repending"} => pq = <<>>

\* Where the loop's thread is; a loop that is closed has nothing.
Control ==
  /\ at \in {"out", "timers0", "while", "pending", "poll", "repending", "closing", "timers"} \cup Kinds
  /\ in_cb \in BOOLEAN /\ mode \in {"default", "once", "nowait"}
  /\ r \in BOOLEAN /\ can_sleep \in BOOLEAN /\ stop_flag \in BOOLEAN /\ loop_closed \in BOOLEAN
  /\ rounds \in 0..PendingRounds /\ poll_timeout \in -1..IntMax
  /\ tpc # "out" => at \in {"timers0", "timers"}
  /\ in_cb => at \in {"pending", "poll", "repending", "closing"} \cup Kinds
  /\ poll_timeout # 0 => at = "poll" /\ ~in_cb
  /\ loop_closed => at = "out" /\ MayClose

\* The inductive invariant.
LoopInv ==
  /\ Handled /\ TimersPlaced /\ WatchersPlaced /\ ClosingPlaced /\ RequestsPlaced
  /\ Control /\ BlocksOnlyWhenIdle

\* What a step does to the flags of handles.
Initialised(h) == h \in Timers \cup Watchers /\ HandleInit(h)
StartedOne(h) == life[h] = "open" /\ HandleStart(h) /\ UNCHANGED <<life, ref>>
StoppedOne(h) == HandleStop(h) /\ UNCHANGED <<life, ref>>
Referenced(h) == (HandleRef(h) \/ HandleUnref(h)) /\ UNCHANGED <<life, active>>
ClosedOne(h) == /\ life[h] = "open" /\ life' = [life EXCEPT ![h] = "closing"]
                /\ HandleStop(h) /\ UNCHANGED ref
FinishedOne(h) == /\ life[h] = "closing" /\ life' = [life EXCEPT ![h] = "closed"]
                  /\ HandleUnref(h) /\ UNCHANGED active

HandleEffect ==
  \/ UNCHANGED handleVars
  \/ \E h \in Handles : \/ Initialised(h) \/ StartedOne(h) \/ StoppedOne(h)
                        \/ Referenced(h) \/ ClosedOne(h) \/ FinishedOne(h)

-----------------------------------------------------------------------------
(* The count of active handles.                                             *)

LEMMA CountedSet ==
  ASSUME Handled
  PROVE  /\ IsFiniteSet(active \cap ref) /\ active_handles = Cardinality(active \cap ref)
         /\ active_handles \in Nat
<1>1. IsFiniteSet(active \cap ref)
  BY HandlesAssumption, FS_Subset DEF Handled, HandleTypeOK
<1> QED BY <1>1, FS_CardinalityType DEF Handled, ActiveCount

\* One handle more, or one less, in the set that is counted.
LEMMA CountUp ==
  ASSUME Handled, NEW h, h \notin active \cap ref,
         active' \cap ref' = (active \cap ref) \cup {h}, active_handles' = active_handles + 1
  PROVE  ActiveCount' /\ active_handles' \in Nat
<1>1. Cardinality((active \cap ref) \cup {h}) = Cardinality(active \cap ref) + 1
  BY CountedSet, FS_AddElement
<1>2. Cardinality(active' \cap ref') = Cardinality(active \cap ref) + 1
  BY <1>1, Zenon
<1> QED BY <1>2, CountedSet DEF ActiveCount

LEMMA CountDown ==
  ASSUME Handled, NEW h, h \in active \cap ref,
         active' \cap ref' = (active \cap ref) \ {h}, active_handles' = active_handles - 1
  PROVE  ActiveCount' /\ active_handles' \in Nat
<1>1. /\ IsFiniteSet((active \cap ref) \ {h})
      /\ Cardinality((active \cap ref) \ {h}) = Cardinality(active \cap ref) - 1
  BY CountedSet, FS_RemoveElement
<1>2. Cardinality((active \cap ref) \ {h}) \in Nat
  BY <1>1, FS_CardinalityType
<1> QED BY <1>1, <1>2, CountedSet DEF ActiveCount

LEMMA CountSame ==
  ASSUME Handled, active' \cap ref' = active \cap ref, active_handles' = active_handles
  PROVE  ActiveCount' /\ active_handles' \in Nat
BY CountedSet DEF ActiveCount

\* active_handles counts the handles that are active and referenced.
LEMMA EffectHandled ==
  ASSUME Handled, HandleEffect
  PROVE  Handled'
<1>0. HandleTypeOK /\ Owned
  BY DEF Handled
<1>1. CASE UNCHANGED handleVars
  BY <1>1 DEF Handled, HandleTypeOK, ActiveCount, Owned, handleVars
<1>2. ASSUME NEW h \in Handles, Initialised(h) PROVE Handled'
  <2>1. h \notin active
    BY <1>0, <1>2 DEF Owned, Initialised, HandleInit
  <2>2. active' \cap ref' = active \cap ref /\ active_handles' = active_handles
    BY <1>2, <2>1 DEF Initialised, HandleInit
  <2>3. ActiveCount' /\ active_handles' \in Nat
    BY <2>2, CountSame
  <2>4. HandleTypeOK' /\ Owned'
    BY <1>0, <1>2, <2>1, <2>3 DEF HandleTypeOK, Owned, Initialised, HandleInit
  <2> QED BY <2>3, <2>4 DEF Handled
<1>3. ASSUME NEW h \in Handles, StartedOne(h) PROVE Handled'
  <2>1. CASE h \in ref \ active
    <3>1. ActiveCount' /\ active_handles' \in Nat
      BY <1>3, <2>1, CountUp DEF StartedOne, HandleStart, Started
    <3> QED BY <3>1, <1>0, <1>3 DEF Handled, HandleTypeOK, Owned, StartedOne, HandleStart
  <2>2. CASE h \notin ref \ active
    <3>1. ActiveCount' /\ active_handles' \in Nat
      BY <1>3, <2>2, CountedSet, CountSame DEF StartedOne, HandleStart, Started
    <3> QED BY <3>1, <1>0, <1>3 DEF Handled, HandleTypeOK, Owned, StartedOne, HandleStart
  <2> QED BY <2>1, <2>2
<1>4. ASSUME NEW h \in Handles, active' = active \ {h}, active_handles' = Stopped(h),
             ref' = ref
      PROVE  ActiveCount' /\ active_handles' \in Nat
  <2>1. CASE h \in ref \cap active
    BY <1>4, <2>1, CountDown DEF Stopped
  <2>2. CASE h \notin ref \cap active
    BY <1>4, <2>2, CountedSet, CountSame DEF Stopped
  <2> QED BY <2>1, <2>2
<1>5. ASSUME NEW h \in Handles, StoppedOne(h) PROVE Handled'
  BY <1>0, <1>4, <1>5 DEF Handled, HandleTypeOK, Owned, StoppedOne, HandleStop
<1>6. ASSUME NEW h \in Handles, ClosedOne(h) PROVE Handled'
  BY <1>0, <1>4, <1>6 DEF Handled, HandleTypeOK, Owned, ClosedOne, HandleStop
<1>7. ASSUME NEW h \in Handles, HandleUnref(h), active' = active,
             h \in active => life[h] = "open"
      PROVE  ActiveCount' /\ active_handles' \in Nat
  <2>1. CASE h \in active \cap ref
    BY <1>7, <2>1, CountDown DEF HandleUnref, IsClosing
  <2>2. CASE h \notin active \cap ref
    BY <1>7, <2>2, CountedSet, CountSame DEF HandleUnref, IsClosing
  <2> QED BY <2>1, <2>2
<1>8. ASSUME NEW h \in Handles, HandleRef(h), active' = active,
             h \in active => life[h] = "open"
      PROVE  ActiveCount' /\ active_handles' \in Nat
  <2>1. CASE h \in active \ ref
    BY <1>8, <2>1, CountUp DEF HandleRef, IsClosing
  <2>2. CASE h \notin active \ ref
    BY <1>8, <2>2, CountedSet, CountSame DEF HandleRef, IsClosing
  <2> QED BY <2>1, <2>2
<1>9. ASSUME NEW h \in Handles, Referenced(h) PROVE Handled'
  BY <1>0, <1>7, <1>8, <1>9 DEF Handled, HandleTypeOK, Owned, Referenced, HandleRef, HandleUnref
<1>10. ASSUME NEW h \in Handles, FinishedOne(h) PROVE Handled'
  <2>1. h \notin active
    BY <1>0, <1>10 DEF Owned, FinishedOne
  <2>2. ActiveCount' /\ active_handles' \in Nat
    BY <1>7, <1>10, <2>1 DEF FinishedOne
  <2> QED BY <1>0, <1>10, <2>1, <2>2 DEF Handled, HandleTypeOK, Owned, FinishedOne, HandleUnref
<1> QED BY <1>1, <1>2, <1>3, <1>5, <1>6, <1>9, <1>10 DEF HandleEffect

-----------------------------------------------------------------------------
(* What a step of the loop does to the handles.                             *)

LEMMA HeapMinIsLeast ==
  ASSUME TimerTypeOK, timer_heap # {}
  PROVE  HeapMin \in timer_heap /\ \A u \in timer_heap : ~Less(u, HeapMin)
<1> DEFINE D == {timeout[t] : t \in timer_heap}
<1>1. \A t \in timer_heap : t \in Timers /\ timeout[t] \in Nat /\ start_id[t] \in Nat
  BY TimesAssumption DEF TimerTypeOK
<1>2. D \in SUBSET Nat /\ D # {}
  BY <1>1
<1>3. PICK d \in D : \A e \in D : d <= e
  <2> HIDE DEF D
  <2> QED BY <1>2, LeastNat
<1> DEFINE I == {start_id[t] : t \in {u \in timer_heap : timeout[u] = d}}
<1>4. I \in SUBSET Nat /\ I # {}
  BY <1>1, <1>3
<1>5. PICK i \in I : \A j \in I : i <= j
  <2> HIDE DEF I
  <2> QED BY <1>4, LeastNat
<1>6. PICK t \in timer_heap : timeout[t] = d /\ start_id[t] = i
  BY <1>5
<1>7. \A u \in timer_heap : ~Less(u, t)
  <2> SUFFICES ASSUME NEW u \in timer_heap, Less(u, t) PROVE FALSE
    OBVIOUS
  <2>1. timeout[t] <= timeout[u]
    BY <1>3, <1>6
  <2>2. timeout[u] = timeout[t] /\ start_id[u] < start_id[t]
    BY <1>1, <1>6, <2>1 DEF Less
  <2>3. start_id[t] <= start_id[u]
    BY <1>5, <1>6, <2>2
  <2> QED BY <1>1, <2>2, <2>3
<1>8. \E x \in timer_heap : \A u \in timer_heap : ~Less(u, x)
  BY <1>7
<1> QED BY <1>8, Zenon DEF HeapMin

LEMMA HandleStep ==
  ASSUME LoopInv, [Next]_vars
  PROVE  HandleEffect
<1>0. /\ Timers \subseteq Handles /\ Watchers \subseteq Handles
      /\ TimerTypeOK /\ NodeInOnePlace
  BY KindsAssumption DEF LoopInv, TimersPlaced
<1>1. ASSUME NEW t \in Timers, TimerUser(t) PROVE HandleEffect
  BY <1>0, <1>1 DEF TimerUser, uv_timer_init, uv_timer_start, uv_timer_stop, uv_timer_again,
     uv_timer_set_repeat, Arm, HandleEffect, Initialised, StartedOne, StoppedOne, handleVars
<1>2. ASSUME NEW h \in Watchers, watcher_init(h) \/ watcher_start(h) \/ watcher_stop(h)
      PROVE  HandleEffect
  BY <1>0, <1>2 DEF watcher_init, watcher_start, watcher_stop, HandleEffect, Initialised,
     StartedOne, StoppedOne
<1>3. CASE UserRef
  BY <1>3 DEF UserRef, HandleEffect, Referenced
<1>4. ASSUME NEW h \in Handles, uv_close(h) PROVE HandleEffect
  BY <1>4 DEF uv_close, HandleEffect, ClosedOne
<1>5. CASE uv_stop \/ \E q \in Reqs : StartReq(q)
  BY <1>5 DEF uv_stop, StartReq, HandleEffect
<1>6. CASE TimerStep
  <2>1. CASE Collect
    <3>1. HeapMin \in Handles
      BY <1>0, <2>1, HeapMinIsLeast DEF Collect, Due, TimerTypeOK
    <3> QED BY <2>1, <3>1 DEF Collect, HandleEffect, StoppedOne
  <2>2. CASE Fire
    <3>1. Head(ready) \in Timers /\ Linked(ready, Head(ready))
      BY <1>0, <2>2, TailDistinct DEF Fire, TimerTypeOK, NodeInOnePlace
    <3>2. Head(ready) \in Handles /\ life[Head(ready)] = "open"
      BY <1>0, <3>1 DEF NodeInOnePlace
    <3> QED BY <2>2, <3>2 DEF Fire, Arm, HandleEffect, StartedOne, handleVars
  <2> QED BY <1>6, <2>1, <2>2 DEF TimerStep, TimerPass, Collected, TimerCallbackReturns,
             TimersRun, HandleEffect
<1>7. CASE FinishClose
  <2>1. Head(finishing) \in Handles /\ life[Head(finishing)] = "closing"
    BY <1>7, TailDistinct DEF FinishClose, LoopInv, ClosingPlaced
  <2> QED BY <1>7, <2>1 DEF FinishClose, HandleEffect, FinishedOne
<1>8. CASE Run \/ FirstTimersRun \/ While \/ Return \/ Pending \/ CallbackReturns \/ PendingDone
           \/ Watcher \/ IdleDone \/ PrepareDone \/ PollDone \/ RunPendingAgain
           \/ PendingAgainDone \/ CheckDone \/ ClosingDone \/ IterationDone
           \/ PollEvent \/ uv_loop_close \/ Finished \/ UNCHANGED vars
  BY <1>8 DEF Run, FirstTimersRun, While, Return, Pending, CallbackReturns, PendingDone,
     Watcher, IdleDone, PrepareDone, PollDone, RunPendingAgain, PendingAgainDone, CheckDone,
     ClosingDone, IterationDone, PollEvent, uv_loop_close, Finished, vars, HandleEffect
<1> QED BY <1>1, <1>2, <1>3, <1>4, <1>5, <1>6, <1>7, <1>8
        DEF Next, User, UserTimer, UserWatcher, LoopStep

-----------------------------------------------------------------------------
(* Timers.                                                                  *)

\* A timer is taken out of whichever of the two places it is in.
LEMMA TakenOut ==
  ASSUME TimersPlaced, NEW t \in Timers
  PROVE  /\ ReadyUnlinked(t) \in Seq(Timers) /\ Distinct(ReadyUnlinked(t))
         /\ \A u : Linked(ReadyUnlinked(t), u) <=> Linked(ready, u) /\ u # t
         /\ HeapUnlinked(t) = timer_heap \ {t}
         /\ ready = <<>> => ReadyUnlinked(t) = <<>>
<1>0. ready \in Seq(Timers) /\ NodeInOnePlace
  BY DEF TimersPlaced, TimerTypeOK
<1>1. CASE t \in active
  BY <1>0, <1>1 DEF NodeInOnePlace, ReadyUnlinked, HeapUnlinked
<1>2. CASE t \notin active
  <2>1. ready = <<>> => ~Linked(ready, t)
    BY DEF Linked
  <2>2. /\ Unlink(ready, t) \in Seq(Timers) /\ Distinct(Unlink(ready, t))
        /\ \A u : Linked(Unlink(ready, t), u) <=> Linked(ready, u) /\ u # t
    BY <1>0, UnlinkType, UnlinkDistinct DEF NodeInOnePlace
  <2> QED BY <1>0, <1>2, <2>1, <2>2 DEF NodeInOnePlace, ReadyUnlinked, HeapUnlinked, Unlink
<1> QED BY <1>1, <1>2

\* What uv_timer_start computes.
LEMMA ArmedFields ==
  ASSUME TimerTypeOK, NEW t \in Timers, NEW to \in 0..MaxTime
  PROVE  /\ Clamped(to) \in 0..MaxTime
         /\ Restarted(t) \in [Timers -> 1..Cardinality(Timers)]
<1>1. (time + to) % (MaxTime + 1) \in 0..MaxTime
  BY TimesAssumption DEF TimerTypeOK
<1>2. Clamped(to) \in 0..MaxTime
  BY <1>1, TimesAssumption DEF Clamped, Unclamped
<1>3. Cardinality(Timers) \in Nat /\ Cardinality(Timers) # 0
  <2>1. IsFiniteSet(Timers)
    BY HandlesAssumption, TimersAssumption, FS_Subset
  <2> QED BY <2>1, FS_CardinalityType, FS_EmptySet
<1>4. \A u \in Timers : start_id[u] \in 1..Cardinality(Timers)
  BY DEF TimerTypeOK
<1> QED BY <1>2, <1>3, <1>4 DEF Restarted

LEMMA ArmPlaced ==
  ASSUME TimersPlaced, HandleTypeOK', NEW t \in Timers,
         NEW to \in 0..MaxTime, NEW rp \in 0..MaxTime, life[t] = "open",
         Arm(t, to, rp),
         has_cb' \in [Timers -> BOOLEAN], has_cb'[t], \A u \in Timers : has_cb[u] => has_cb'[u],
         ready' \in Seq(Timers), Distinct(ready'),
         \A u : Linked(ready', u) <=> Linked(ready, u) /\ u # t,
         called' \subseteq called \cup {t}, tpc' \in {"out", "collect", "fire", "cb"},
         tpc' = "out" => ready' = <<>>,
         tpc' \in {"out", "collect"} => called' = {},
         UNCHANGED <<time, life, ref>>
  PROVE  TimersPlaced'
<1>1. /\ HeapUnlinked(t) = timer_heap \ {t} /\ TimerTypeOK /\ NodeInOnePlace
  BY TakenOut DEF TimersPlaced
<1>2. TimerTypeOK'
  BY <1>1, ArmedFields DEF TimerTypeOK, Arm
<1>3. NodeInOnePlace'
  BY <1>1 DEF NodeInOnePlace, Arm, HandleStart
<1>4. \A u \in timer_heap' : has_cb'[u]
  BY <1>1 DEF TimersPlaced, TimerTypeOK, Arm
<1> QED BY <1>1, <1>2, <1>3, <1>4 DEF TimersPlaced

\* Where timers are does not depend on what the loop does else.
LEMMA TimersApart ==
  ASSUME TimersPlaced, HandleTypeOK', UNCHANGED <<timer_heap, ready, timerTypeVars, called>>,
         time' \in 0..MaxTime, active' \cap Timers = active \cap Timers,
         \A t \in Timers : life[t] = "open" => life'[t] = "open",
         tpc' \in {"out", "collect", "fire", "cb"},
         tpc' = "out" => ready = <<>>,
         tpc' \in {"out", "collect"} => called = {}
  PROVE  TimersPlaced'
<1>1. TimerTypeOK'
  BY DEF TimersPlaced, TimerTypeOK, timerTypeVars
<1>2. NodeInOnePlace'
  BY DEF TimersPlaced, NodeInOnePlace, timerTypeVars, TimerTypeOK
<1> QED BY <1>1, <1>2 DEF TimersPlaced, timerTypeVars

LEMMA TimerUserPlaced ==
  ASSUME TimersPlaced, Owned, HandleTypeOK', NEW t \in Timers, TimerUser(t)
  PROVE  TimersPlaced'
<1>0. /\ TimerTypeOK /\ NodeInOnePlace
      /\ Timeouts \subseteq 0..MaxTime /\ Repeats \subseteq 0..MaxTime /\ 0 \in 0..MaxTime
  BY TimesAssumption DEF TimersPlaced
<1>1. CASE uv_timer_init(t)
  <2>1. t \notin active /\ ~Linked(ready, t) /\ t \notin timer_heap
    BY <1>0, <1>1 DEF uv_timer_init, HandleInit, Owned, NodeInOnePlace
  <2>2. TimerTypeOK'
    BY <1>0, <1>1 DEF uv_timer_init, TimerTypeOK
  <2>3. NodeInOnePlace'
    BY <1>0, <1>1, <2>1 DEF uv_timer_init, HandleInit, NodeInOnePlace, TimerTypeOK, HandleTypeOK
  <2>4. \A u \in timer_heap' : has_cb'[u]
    BY <1>0, <1>1, <2>1 DEF uv_timer_init, TimersPlaced, TimerTypeOK
  <2> QED BY <1>1, <2>2, <2>3, <2>4 DEF uv_timer_init, TimersPlaced
<1>2. ASSUME NEW to \in 0..MaxTime, NEW rp \in 0..MaxTime, uv_timer_start(t, to, rp)
      PROVE  TimersPlaced'
  <2>1. /\ has_cb' \in [Timers -> BOOLEAN] /\ has_cb'[t]
        /\ \A u \in Timers : has_cb[u] => has_cb'[u]
    BY <1>0, <1>2 DEF uv_timer_start, TimerTypeOK
  <2>2. /\ ready' = ReadyUnlinked(t) /\ life[t] = "open" /\ Arm(t, to, rp)
        /\ UNCHANGED <<time, life, ref, called, tpc>>
    BY <1>2 DEF uv_timer_start
  <2>3. tpc' = "out" => ready' = <<>>
    BY <2>2, TakenOut DEF TimersPlaced
  <2> QED BY <1>0, <2>1, <2>2, <2>3, TakenOut, ArmPlaced DEF TimersPlaced, TimerTypeOK
<1>3. CASE uv_timer_stop(t)
  <2>1. /\ ready' = ReadyUnlinked(t) /\ timer_heap' = timer_heap \ {t}
        /\ active' = active \ {t} /\ UNCHANGED <<time, called, tpc, timerTypeVars, life>>
    BY <1>3, TakenOut DEF uv_timer_stop, HandleStop
  <2>2. TimerTypeOK'
    BY <1>0, <2>1, TakenOut DEF TimerTypeOK, timerTypeVars
  <2>3. NodeInOnePlace'
    BY <1>0, <2>1, TakenOut DEF NodeInOnePlace, timerTypeVars
  <2> QED BY <2>1, <2>2, <2>3, TakenOut DEF TimersPlaced, timerTypeVars
<1>4. CASE uv_timer_again(t)
  <2>1. /\ ready' = ReadyUnlinked(t) /\ life[t] = "open" /\ has_cb[t] /\ repeat[t] \in 0..MaxTime
        /\ Arm(t, repeat[t], repeat[t])
        /\ UNCHANGED <<time, life, ref, called, tpc, has_cb>>
    BY <1>0, <1>4 DEF uv_timer_again, TimerTypeOK
  <2>2. tpc' = "out" => ready' = <<>>
    BY <2>1, TakenOut DEF TimersPlaced
  <2> QED BY <1>0, <2>1, <2>2, TakenOut, ArmPlaced DEF TimersPlaced, TimerTypeOK
<1>5. ASSUME NEW rp \in 0..MaxTime, uv_timer_set_repeat(t, rp)
      PROVE  TimersPlaced'
  <2>1. /\ repeat' \in [Timers -> 0..MaxTime]
        /\ UNCHANGED <<time, called, timer_heap, ready, tpc, timeout, start_id, has_cb, handleVars>>
    BY <1>0, <1>5 DEF uv_timer_set_repeat, TimerTypeOK
  <2>2. TimerTypeOK' /\ NodeInOnePlace'
    BY <1>0, <2>1 DEF TimerTypeOK, NodeInOnePlace, handleVars
  <2> QED BY <2>1, <2>2 DEF TimersPlaced
<1> QED BY <1>0, <1>1, <1>2, <1>3, <1>4, <1>5 DEF TimerUser

LEMMA TimerPassPlaced ==
  ASSUME TimersPlaced, Owned, HandleTypeOK', TimerPass
  PROVE  TimersPlaced'
<1>0. TimerTypeOK /\ NodeInOnePlace
  BY DEF TimersPlaced
<1>1. CASE Collect
  <2> DEFINE t == HeapMin
  <2>1. t \in timer_heap /\ t \in Timers /\ t \in active /\ has_cb[t] /\ ~Linked(ready, t)
    BY <1>0, <1>1, HeapMinIsLeast DEF Collect, Due, TimersPlaced, TimerTypeOK, NodeInOnePlace
  <2> HIDE DEF t
  <2>2. /\ timer_heap' = timer_heap \ {t} /\ ready' = Append(ready, t)
        /\ active' = active \ {t} /\ called = {} /\ called' = {} /\ tpc' = "collect"
        /\ UNCHANGED <<time, timerTypeVars, life>>
    BY <1>1 DEF Collect, HandleStop, TimersPlaced, t
  <2>3. /\ ready' \in Seq(Timers) /\ Distinct(ready')
        /\ \A u : Linked(ready', u) <=> Linked(ready, u) \/ u = t
    BY <1>0, <2>1, <2>2, AppendDistinct DEF TimerTypeOK, NodeInOnePlace
  <2>4. life[t] = "open"
    BY <2>1 DEF Owned
  <2>5. TimerTypeOK'
    BY <1>0, <2>1, <2>2, <2>3 DEF TimerTypeOK, timerTypeVars
  <2>6. NodeInOnePlace'
    BY <1>0, <2>1, <2>2, <2>3, <2>4 DEF NodeInOnePlace, timerTypeVars
  <2> QED BY <2>2, <2>5, <2>6 DEF TimersPlaced, timerTypeVars
<1>2. CASE Fire
  <2> DEFINE t == Head(ready)
  <2>1. /\ t \in Timers /\ Linked(ready, t) /\ Tail(ready) \in Seq(Timers) /\ Distinct(Tail(ready))
        /\ \A u : Linked(Tail(ready), u) <=> Linked(ready, u) /\ u # t
    BY <1>0, <1>2, TailDistinct DEF Fire, TimerTypeOK, NodeInOnePlace
  <2> HIDE DEF t
  <2>2. /\ ready' = Tail(ready) /\ called' = called \cup {t} /\ tpc' = "cb"
        /\ UNCHANGED <<time, life, ref>>
        /\ IF repeat[t] # 0 THEN Arm(t, repeat[t], repeat[t]) /\ UNCHANGED has_cb
           ELSE UNCHANGED <<timer_heap, timerTypeVars, active, active_handles>>
    BY <1>2 DEF Fire, t
  <2>3. /\ life[t] = "open" /\ has_cb[t] /\ t \notin active /\ repeat[t] \in 0..MaxTime
    BY <1>0, <2>1 DEF NodeInOnePlace, TimerTypeOK
  <2>4. CASE repeat[t] # 0
    BY <1>0, <2>1, <2>2, <2>3, <2>4, ArmPlaced DEF TimersPlaced, TimerTypeOK
  <2>5. CASE repeat[t] = 0
    <3>1. TimerTypeOK' /\ NodeInOnePlace'
      BY <1>0, <2>1, <2>2, <2>5 DEF TimerTypeOK, NodeInOnePlace, timerTypeVars
    <3> QED BY <2>1, <2>2, <2>5, <3>1 DEF TimersPlaced, timerTypeVars
  <2> QED BY <2>4, <2>5
<1>3. CASE Collected \/ TimerCallbackReturns
  BY <1>0, <1>3, TimersApart DEF Collected, TimerCallbackReturns, handleVars, TimerTypeOK
<1>4. CASE TimersRun
  <2>1. TimerTypeOK' /\ NodeInOnePlace'
    BY <1>0, <1>4 DEF TimersRun, TimerTypeOK, NodeInOnePlace, handleVars, timerTypeVars
  <2> QED BY <1>4, <2>1 DEF TimersRun, TimersPlaced, timerTypeVars
<1> QED BY <1>1, <1>2, <1>3, <1>4 DEF TimerPass

LEMMA TimersStep ==
  ASSUME LoopInv, Handled', [Next]_vars
  PROVE  TimersPlaced'
<1>0. /\ TimersPlaced /\ TimerTypeOK /\ NodeInOnePlace /\ Owned /\ HandleTypeOK'
      /\ time \in 0..MaxTime /\ tpc \in {"out", "collect", "fire", "cb"}
      /\ Timers \subseteq Handles /\ Watchers \subseteq Handles /\ Timers \cap Watchers = {}
  BY KindsAssumption DEF LoopInv, Handled, TimersPlaced, TimerTypeOK
<1>1. ASSUME NEW t \in Timers, TimerUser(t) PROVE TimersPlaced'
  BY <1>0, <1>1, TimerUserPlaced
<1>2. CASE TimerPass
  BY <1>0, <1>2, TimerPassPlaced
<1>3. ASSUME UNCHANGED <<timerVars, active, life>> PROVE TimersPlaced'
  <2>1. /\ UNCHANGED <<timer_heap, ready, timerTypeVars, called>>
        /\ UNCHANGED <<time, tpc, active, life>>
    BY <1>3 DEF timerVars, timerTypeVars
  <2> QED BY <1>0, <2>1, TimersApart DEF TimersPlaced
<1>4. ASSUME NEW h \in Watchers, watcher_init(h) \/ watcher_start(h) \/ watcher_stop(h),
             UNCHANGED timerVars
      PROVE  TimersPlaced'
  <2>1. h \notin Timers
    BY <1>0
  <2>2. /\ active' \cap Timers = active \cap Timers
        /\ \A t \in Timers : life[t] = "open" => life'[t] = "open"
    BY <1>0, <1>4, <2>1 DEF watcher_init, watcher_start, watcher_stop, HandleInit, HandleStart,
       HandleStop, TimerTypeOK, HandleTypeOK
  <2>3. UNCHANGED <<time, tpc, timer_heap, ready, timerTypeVars, called>>
    BY <1>4 DEF timerVars, timerTypeVars
  <2> QED BY <1>0, <2>2, <2>3, TimersApart DEF TimersPlaced
<1>5. CASE UserRef
  BY <1>3, <1>5 DEF UserRef
<1>6. ASSUME NEW h \in Handles, uv_close(h) PROVE TimersPlaced'
  <2>1. CASE h \in Timers
    <3>1. /\ ready' = ReadyUnlinked(h) /\ timer_heap' = timer_heap \ {h}
          /\ active' = active \ {h} /\ life' = [life EXCEPT ![h] = "closing"]
          /\ UNCHANGED <<time, called, tpc, timerTypeVars>>
      BY <1>0, <1>6, <2>1, TakenOut DEF uv_close, TimerClose, HandleStop
    <3>2. TimerTypeOK'
      BY <1>0, <2>1, <3>1, TakenOut DEF TimerTypeOK, timerTypeVars
    <3>3. NodeInOnePlace'
      BY <1>0, <2>1, <3>1, TakenOut DEF NodeInOnePlace, timerTypeVars, TimerTypeOK, HandleTypeOK
    <3> QED BY <1>0, <2>1, <3>1, <3>2, <3>3, TakenOut DEF TimersPlaced, timerTypeVars
  <2>2. CASE h \notin Timers
    <3>1. /\ UNCHANGED <<time, tpc, timer_heap, ready, timerTypeVars, called>>
          /\ active' \cap Timers = active \cap Timers
          /\ \A t \in Timers : life[t] = "open" => life'[t] = "open"
      BY <1>0, <1>6, <2>2 DEF uv_close, HandleStop, timerVars, timerTypeVars, TimerTypeOK, HandleTypeOK
    <3> QED BY <1>0, <3>1, TimersApart DEF TimersPlaced
  <2> QED BY <2>1, <2>2
<1>7. CASE FinishClose
  <2>1. life[Head(finishing)] = "closing"
    BY <1>7, TailDistinct DEF FinishClose, LoopInv, ClosingPlaced
  <2>2. /\ UNCHANGED <<time, tpc, timer_heap, ready, timerTypeVars, called, active>>
        /\ \A t \in Timers : life[t] = "open" => life'[t] = "open"
    BY <1>0, <1>7, <2>1 DEF FinishClose, timerVars, timerTypeVars, TimerTypeOK, HandleTypeOK
  <2> QED BY <1>0, <2>2, TimersApart DEF TimersPlaced
<1>8. CASE Run \/ ClosingDone \/ PollEvent \/ PollDone
  <2>1. tpc = "out" /\ ready = <<>> /\ called = {}
    BY <1>0, <1>8 DEF Run, ClosingDone, PollEvent, PollDone, LoopInv, Control, TimersPlaced
  <2>2. /\ time' \in 0..MaxTime /\ tpc' \in {"out", "collect"}
        /\ UNCHANGED <<timer_heap, ready, timerTypeVars, called, active, life>>
    BY <1>0, <1>8, <2>1, TimesAssumption DEF Run, ClosingDone, PollEvent, PollDone, UpdateTime, handleVars
  <2> QED BY <1>0, <2>1, <2>2, TimersApart
<1>9. CASE \/ uv_stop \/ (\E q \in Reqs : StartReq(q)) \/ FirstTimersRun \/ While \/ Return
           \/ Pending \/ CallbackReturns \/ PendingDone \/ Watcher \/ IdleDone \/ PrepareDone
           \/ RunPendingAgain \/ PendingAgainDone \/ CheckDone \/ IterationDone
           \/ uv_loop_close \/ Finished \/ UNCHANGED vars
  BY <1>3, <1>9 DEF uv_stop, StartReq, FirstTimersRun, While, Return, Pending, CallbackReturns,
     PendingDone, Watcher, IdleDone, PrepareDone, RunPendingAgain, PendingAgainDone, CheckDone,
     IterationDone, uv_loop_close, Finished, vars, handleVars
<1> QED BY <1>1, <1>2, <1>4, <1>5, <1>6, <1>7, <1>8, <1>9
        DEF Next, User, UserTimer, UserWatcher, LoopStep, TimerStep

-----------------------------------------------------------------------------
(* Idle, prepare and check watchers.                                        *)

LEMMA WatchersApart ==
  ASSUME WatchersPlaced, UNCHANGED <<watchers, walk>>, visited' \in {visited, {}},
         active' \cap Watchers = active \cap Watchers, at' = at \/ walk = <<>>
  PROVE  WatchersPlaced'
<1>1. WatcherTypeOK'
  BY DEF WatchersPlaced, WatcherTypeOK
<1> QED BY <1>1, EmptyLinksNothing DEF WatchersPlaced

\* A watcher leaves its list and the walk when it is stopped or closed.
LEMMA WatcherOut ==
  ASSUME WatchersPlaced, NEW h \in Watchers, WatcherUnlinked(h), active' = active \ {h},
         UNCHANGED <<at, visited>>
  PROVE  WatchersPlaced'
<1>0. /\ KindOf[h] \in Kinds /\ watchers \in [Kinds -> Seq(Watchers)] /\ walk \in Seq(Watchers)
      /\ WatcherTypeOK
  BY WatchersAssumption DEF WatchersPlaced, WatcherTypeOK
<1>1. /\ walk' \in Seq(Watchers) /\ Distinct(walk')
      /\ \A n : Linked(walk', n) <=> Linked(walk, n) /\ n # h
      /\ walk = <<>> => walk' = <<>>
  <2>1. walk = <<>> => walk' = <<>>
    BY EmptyLinksNothing DEF WatcherUnlinked, Unlink
  <2> QED BY <1>0, <2>1, UnlinkType, UnlinkDistinct DEF WatcherUnlinked, WatchersPlaced
<1>2. /\ watchers' \in [Kinds -> Seq(Watchers)]
      /\ \A k \in Kinds : Distinct(watchers'[k])
      /\ \A k \in Kinds : \A n :
           Linked(watchers'[k], n)
           <=> Linked(watchers[k], n) /\ (k = KindOf[h] => n # h)
  <2> DEFINE k == KindOf[h]
             u == Unlink(watchers[k], h)
  <2>1. /\ u \in Seq(Watchers) /\ Distinct(u)
        /\ \A n : Linked(u, n) <=> Linked(watchers[k], n) /\ n # h
    BY <1>0, UnlinkType, UnlinkDistinct DEF WatchersPlaced
  <2>2. watchers' = [watchers EXCEPT ![k] = u]
    BY DEF WatcherUnlinked
  <2> HIDE DEF u
  <2> QED BY <1>0, <2>1, <2>2 DEF WatchersPlaced
<1>3. WatcherTypeOK'
  BY <1>0, <1>1, <1>2 DEF WatcherTypeOK
<1>4. \A x \in Watchers : x \in active'
                           <=> Linked(watchers'[KindOf[x]], x) \/ Linked(walk', x)
  BY <1>1, <1>2, WatchersAssumption DEF WatchersPlaced
<1>5. \A k \in Kinds, x \in Watchers :
        Linked(watchers'[k], x) => KindOf[x] = k /\ ~Linked(walk', x)
  BY <1>1, <1>2 DEF WatchersPlaced
<1> QED BY <1>1, <1>2, <1>3, <1>4, <1>5 DEF WatchersPlaced

\* A watcher that is started waits for the next walk.
LEMMA WatcherIn ==
  ASSUME WatchersPlaced, NEW h \in Watchers, InsertHead(h), h \notin active,
         active' = active \cup {h}, UNCHANGED <<at, visited>>
  PROVE  WatchersPlaced'
<1>0. /\ KindOf[h] \in Kinds /\ watchers \in [Kinds -> Seq(Watchers)] /\ WatcherTypeOK
      /\ ~Linked(watchers[KindOf[h]], h) /\ ~Linked(walk, h) /\ walk' = walk
  BY WatchersAssumption DEF WatchersPlaced, WatcherTypeOK, InsertHead
<1>1. /\ watchers' \in [Kinds -> Seq(Watchers)]
      /\ \A k \in Kinds : Distinct(watchers'[k])
      /\ \A k \in Kinds : \A n :
           Linked(watchers'[k], n)
           <=> Linked(watchers[k], n) \/ (k = KindOf[h] /\ n = h)
  <2> DEFINE k == KindOf[h]
             u == <<h>> \o watchers[k]
  <2>1. /\ u \in Seq(Watchers) /\ Distinct(u)
        /\ \A n : Linked(u, n) <=> Linked(watchers[k], n) \/ n = h
    BY <1>0, InsertHeadDistinct DEF WatchersPlaced
  <2>2. watchers' = [watchers EXCEPT ![k] = u]
    BY DEF InsertHead
  <2> HIDE DEF u
  <2> QED BY <1>0, <2>1, <2>2 DEF WatchersPlaced
<1>2. WatcherTypeOK'
  BY <1>0, <1>1 DEF WatcherTypeOK
<1> QED BY <1>0, <1>1, <1>2, WatchersAssumption DEF WatchersPlaced

\* A walk begins with the whole list ...
LEMMA WalkBegins ==
  ASSUME WatchersPlaced, NEW k \in Kinds, RunWatchers(k), walk = <<>>, at' = k, active' = active
  PROVE  WatchersPlaced'
<1>0. watchers \in [Kinds -> Seq(Watchers)] /\ WatcherTypeOK
  BY DEF WatchersPlaced, WatcherTypeOK
<1>1. /\ walk' = watchers[k] /\ visited' = {} /\ watchers'[k] = <<>>
      /\ \A j \in Kinds : j # k => watchers'[j] = watchers[j]
      /\ watchers' \in [Kinds -> Seq(Watchers)]
  BY <1>0 DEF RunWatchers
<1>2. WatcherTypeOK'
  BY <1>0, <1>1 DEF WatcherTypeOK
<1>3. Distinct(walk') /\ \A j \in Kinds : Distinct(watchers'[j])
  BY <1>1 DEF WatchersPlaced, Distinct
<1>4. /\ \A j \in Kinds, x \in Watchers :
           Linked(watchers'[j], x) <=> Linked(watchers[j], x) /\ j # k
      /\ \A x \in Watchers : Linked(walk', x) <=> Linked(watchers[k], x)
      /\ \A x \in Watchers : ~Linked(walk, x)
  BY <1>1, EmptyLinksNothing
<1>5. \A j \in Kinds, x \in Watchers :
        Linked(watchers'[j], x) => KindOf[x] = j /\ ~Linked(walk', x)
  BY <1>4 DEF WatchersPlaced
<1>6. \A x \in Watchers : x \in active'
                           <=> Linked(watchers'[KindOf[x]], x) \/ Linked(walk', x)
  BY <1>4, WatchersAssumption DEF WatchersPlaced
<1> QED BY <1>1, <1>2, <1>3, <1>4, <1>5, <1>6 DEF WatchersPlaced

\* ... and puts them back one by one.
LEMMA WalkVisits ==
  ASSUME WatchersPlaced, at \in Kinds, Visit(at), UNCHANGED <<at, active>>
  PROVE  WatchersPlaced'
<1> DEFINE h == Head(walk)
<1>0. watchers \in [Kinds -> Seq(Watchers)] /\ WatcherTypeOK
  BY DEF WatchersPlaced, WatcherTypeOK
<1>1. /\ h \in Watchers /\ Linked(walk, h) /\ walk' \in Seq(Watchers) /\ Distinct(walk')
      /\ \A n : Linked(walk', n) <=> Linked(walk, n) /\ n # h
  BY TailDistinct DEF Visit, WatchersPlaced, WatcherTypeOK
<1>2. /\ visited' = visited \cup {h}
      /\ watchers' = [watchers EXCEPT ![at] = Append(watchers[at], h)]
  BY DEF Visit
<1> HIDE DEF h
<1>3. KindOf[h] = at /\ ~Linked(watchers[at], h)
  BY <1>1 DEF WatchersPlaced
<1>4. /\ watchers' \in [Kinds -> Seq(Watchers)]
      /\ \A k \in Kinds : Distinct(watchers'[k])
      /\ \A k \in Kinds : \A n :
           Linked(watchers'[k], n)
           <=> Linked(watchers[k], n) \/ (k = at /\ n = h)
  <2> DEFINE u == Append(watchers[at], h)
  <2>1. /\ u \in Seq(Watchers) /\ Distinct(u)
        /\ \A n : Linked(u, n) <=> Linked(watchers[at], n) \/ n = h
    BY <1>0, <1>1, <1>3, AppendDistinct DEF WatchersPlaced
  <2> HIDE DEF u
  <2> QED BY <1>0, <1>2, <2>1 DEF WatchersPlaced, u
<1>5. WatcherTypeOK'
  BY <1>0, <1>1, <1>2, <1>4 DEF WatcherTypeOK
<1>6. \A j \in Kinds, x \in Watchers :
        Linked(watchers'[j], x) => KindOf[x] = j /\ ~Linked(walk', x)
  BY <1>1, <1>3, <1>4 DEF WatchersPlaced
<1>7. \A x \in Watchers : x \in active'
                           <=> Linked(watchers'[KindOf[x]], x) \/ Linked(walk', x)
  BY <1>1, <1>3, <1>4, WatchersAssumption DEF WatchersPlaced
<1> QED BY <1>1, <1>2, <1>4, <1>5, <1>6, <1>7 DEF WatchersPlaced

\* What timers do to the flags does not concern the other handles.
LEMMA TimerFlags ==
  ASSUME TimersPlaced, Owned, (\E t \in Timers : TimerUser(t)) \/ TimerPass
  PROVE  /\ active' \cap Watchers = active \cap Watchers
         /\ \A h \in Handles : life'[h] = "closing" <=> life[h] = "closing"
<1>0. /\ Timers \subseteq Handles /\ Timers \cap Watchers = {}
      /\ TimerTypeOK /\ NodeInOnePlace /\ life \in [Handles -> {"none", "open", "closing", "closed"}]
  BY KindsAssumption DEF TimersPlaced, TimerTypeOK, HandleTypeOK
<1>1. ASSUME NEW t \in Timers, active' \in {active, active \cup {t}, active \ {t}}
      PROVE  active' \cap Watchers = active \cap Watchers
  BY <1>0, <1>1
<1>2. ASSUME NEW t \in Timers, TimerUser(t)
      PROVE  /\ active' \cap Watchers = active \cap Watchers
             /\ \A h \in Handles : life'[h] = "closing" <=> life[h] = "closing"
  <2>1. active' \in {active, active \cup {t}, active \ {t}}
    BY <1>2 DEF TimerUser, uv_timer_init, uv_timer_start, uv_timer_stop, uv_timer_again,
       uv_timer_set_repeat, Arm, HandleInit, HandleStart, HandleStop, handleVars
  <2>2. life' = life \/ (life[t] \in {"none", "closed"} /\ life' = [life EXCEPT ![t] = "open"])
    BY <1>2 DEF TimerUser, uv_timer_init, uv_timer_start, uv_timer_stop, uv_timer_again,
       uv_timer_set_repeat, HandleInit, handleVars
  <2> QED BY <1>0, <1>1, <2>1, <2>2
<1>3. CASE TimerPass
  <2>1. life' = life
    BY <1>3 DEF TimerPass, Collect, Collected, Fire, TimerCallbackReturns, TimersRun, handleVars
  <2>2. CASE Collect
    <3>1. HeapMin \in Timers /\ active' = active \ {HeapMin}
      BY <1>0, <2>2, HeapMinIsLeast DEF Collect, Due, TimerTypeOK, HandleStop
    <3> QED BY <1>0, <3>1, <2>1
  <2>3. CASE Fire
    <3>1. Head(ready) \in Timers /\ active' \in {active, active \cup {Head(ready)}}
      BY <1>0, <2>3, TailDistinct DEF Fire, Arm, HandleStart, TimerTypeOK, NodeInOnePlace
    <3> QED BY <1>0, <3>1, <2>1
  <2> QED BY <1>3, <2>1, <2>2, <2>3 DEF TimerPass, Collected, TimerCallbackReturns, TimersRun, handleVars
<1> QED BY <1>2, <1>3

LEMMA WatchersStep ==
  ASSUME LoopInv, [Next]_vars
  PROVE  WatchersPlaced'
<1>0. /\ WatchersPlaced /\ WatcherTypeOK /\ Owned /\ TimersPlaced
      /\ active \subseteq Handles
      /\ Watchers \subseteq Handles /\ Timers \cap Watchers = {}
  BY KindsAssumption DEF LoopInv, Handled, HandleTypeOK, WatchersPlaced
<1>1. CASE UserTimer \/ TimerStep
  <2>1. active' \cap Watchers = active \cap Watchers /\ UNCHANGED <<watchers, walk, visited, at>>
    BY <1>0, <1>1, TimerFlags DEF UserTimer, TimerStep, watcherVars, loopVars, runVars
  <2> QED BY <1>0, <2>1, WatchersApart
<1>2. ASSUME NEW h \in Watchers, watcher_init(h) \/ watcher_start(h) \/ watcher_stop(h),
             UNCHANGED loopVars
      PROVE  WatchersPlaced'
  <2>0. UNCHANGED at
    BY <1>2 DEF loopVars, runVars
  <2>1. CASE watcher_init(h)
    <3>1. h \notin active
      BY <1>0, <2>1 DEF watcher_init, HandleInit, Owned
    <3>2. active' = active
      BY <2>1, <3>1 DEF watcher_init, HandleInit
    <3> QED BY <1>0, <2>0, <2>1, <3>2, WatchersApart DEF watcher_init, watcherVars
  <2>2. CASE watcher_start(h)
    BY <1>0, <2>0, <2>2, WatcherIn DEF watcher_start, HandleStart
  <2>3. CASE watcher_stop(h)
    BY <1>0, <2>0, <2>3, WatcherOut DEF watcher_stop, HandleStop
  <2> QED BY <1>2, <2>1, <2>2, <2>3
<1>3. ASSUME NEW h \in Handles, uv_close(h) PROVE WatchersPlaced'
  <2>0. active' = active \ {h} /\ UNCHANGED at
    BY <1>3 DEF uv_close, HandleStop, runVars
  <2>1. CASE h \in Timers
    <3>1. active' \cap Watchers = active \cap Watchers
      BY <1>0, <2>0, <2>1
    <3> QED BY <1>0, <1>3, <2>0, <2>1, <3>1, WatchersApart DEF uv_close, watcherVars
  <2>2. CASE h \notin Timers
    <3>1. h \in Watchers /\ WatcherClose(h)
      BY <1>0, <1>3, <2>2 DEF uv_close, Owned
    <3>2. CASE h \in active
      BY <1>0, <2>0, <3>1, <3>2, WatcherOut DEF WatcherClose
    <3>3. CASE h \notin active
      <4>1. active' = active
        BY <2>0, <3>3
      <4> QED BY <1>0, <2>0, <3>1, <3>3, <4>1, WatchersApart DEF WatcherClose
    <3> QED BY <3>2, <3>3
  <2> QED BY <2>1, <2>2
<1>4. CASE PendingDone \/ IdleDone \/ PendingAgainDone
  <2>1. walk = <<>> /\ active' = active
    BY <1>0, <1>4 DEF PendingDone, IdleDone, PendingAgainDone, WatchersPlaced, handleVars, Kinds
  <2>2. \E k \in Kinds : RunWatchers(k) /\ at' = k
    BY <1>4 DEF PendingDone, IdleDone, PendingAgainDone, Kinds
  <2> QED BY <1>0, <2>1, <2>2, WalkBegins
<1>5. CASE Watcher
  BY <1>0, <1>5, WalkVisits DEF Watcher, handleVars
<1>6. CASE PrepareDone \/ CheckDone
  BY <1>0, <1>6, WatchersApart DEF PrepareDone, CheckDone, handleVars
<1>7. CASE \/ UserRef \/ uv_stop \/ (\E q \in Reqs : StartReq(q)) \/ Pending \/ CallbackReturns
           \/ PollEvent \/ RunPendingAgain \/ FinishClose \/ uv_loop_close \/ Finished
           \/ UNCHANGED vars
  <2>1. UNCHANGED <<watchers, walk, visited, at, active>>
    BY <1>7 DEF UserRef, uv_stop, StartReq, Pending, CallbackReturns, PollEvent, RunPendingAgain,
       FinishClose, uv_loop_close, Finished, vars, watcherVars, loopVars, runVars, handleVars
  <2> QED BY <1>0, <2>1, WatchersApart
<1>8. CASE Run \/ FirstTimersRun \/ While \/ Return \/ PollDone \/ ClosingDone \/ IterationDone
  <2>1. walk = <<>>
    BY <1>0, <1>8 DEF Run, FirstTimersRun, While, Return, PollDone, ClosingDone, IterationDone,
       WatchersPlaced, Kinds
  <2>2. UNCHANGED <<watchers, walk, visited, active>>
    BY <1>8 DEF Run, FirstTimersRun, While, Return, PollDone, ClosingDone, IterationDone,
       watcherVars, handleVars
  <2> QED BY <1>0, <2>1, <2>2, WatchersApart
<1> QED BY <1>1, <1>2, <1>3, <1>4, <1>5, <1>6, <1>7, <1>8
        DEF Next, User, UserWatcher, LoopStep

-----------------------------------------------------------------------------
(* Closing handles, and requests.                                           *)

LEMMA ClosingApart ==
  ASSUME ClosingPlaced, UNCHANGED <<closing_handles, finishing>>,
         \A h \in Handles : life'[h] = "closing" <=> life[h] = "closing",
         at' = at \/ finishing = <<>>
  PROVE  ClosingPlaced'
BY DEF ClosingPlaced

LEMMA ClosingStep ==
  ASSUME LoopInv, [Next]_vars
  PROVE  ClosingPlaced'
<1>0. /\ ClosingPlaced /\ Owned /\ TimersPlaced
      /\ life \in [Handles -> {"none", "open", "closing", "closed"}]
      /\ Watchers \subseteq Handles /\ Timers \cap Watchers = {}
  BY KindsAssumption DEF LoopInv, Handled, HandleTypeOK
<1>1. CASE UserTimer \/ TimerStep
  <2>1. UNCHANGED <<closing_handles, finishing, at>>
    BY <1>1 DEF UserTimer, TimerStep, loopVars, runVars, closeVars
  <2> QED BY <1>0, <1>1, <2>1, TimerFlags, ClosingApart DEF UserTimer, TimerStep
<1>2. CASE UserWatcher
  <2>1. UNCHANGED <<closing_handles, finishing, at>>
    BY <1>2 DEF UserWatcher, loopVars, runVars, closeVars
  <2>2. \A h \in Handles : life'[h] = "closing" <=> life[h] = "closing"
    BY <1>0, <1>2 DEF UserWatcher, watcher_init, watcher_start, watcher_stop, HandleInit
  <2> QED BY <1>0, <2>1, <2>2, ClosingApart
<1>3. ASSUME NEW h \in Handles, uv_close(h) PROVE ClosingPlaced'
  <2>1. /\ closing_handles' = <<h>> \o closing_handles /\ UNCHANGED <<finishing, at>>
        /\ life[h] = "open" /\ life' = [life EXCEPT ![h] = "closing"]
    BY <1>3 DEF uv_close, runVars
  <2>2. ~Linked(closing_handles, h) /\ ~Linked(finishing, h)
    BY <1>0, <2>1 DEF ClosingPlaced
  <2>3. /\ closing_handles' \in Seq(Handles) /\ Distinct(closing_handles')
        /\ \A x : Linked(closing_handles', x) <=> Linked(closing_handles, x) \/ x = h
    BY <1>0, <2>1, <2>2, InsertHeadDistinct DEF ClosingPlaced
  <2> QED BY <1>0, <2>1, <2>2, <2>3 DEF ClosingPlaced
<1>4. CASE CheckDone
  <2>1. /\ finishing = <<>> /\ finishing' = closing_handles /\ closing_handles' = <<>>
        /\ at' = "closing" /\ life' = life
    BY <1>0, <1>4 DEF CheckDone, ClosingTaken, ClosingPlaced, handleVars
  <2>2. Distinct(closing_handles') /\ closing_handles' \in Seq(Handles)
    BY <2>1 DEF Distinct
  <2>3. \A h \in Handles : ~Linked(finishing, h) /\ ~Linked(closing_handles', h)
    BY <2>1, EmptyLinksNothing
  <2> QED BY <1>0, <2>1, <2>2, <2>3 DEF ClosingPlaced
<1>5. CASE FinishClose
  <2> DEFINE h == Head(finishing)
  <2>1. /\ h \in Handles /\ Linked(finishing, h) /\ Tail(finishing) \in Seq(Handles)
        /\ Distinct(Tail(finishing))
        /\ \A x : Linked(Tail(finishing), x) <=> Linked(finishing, x) /\ x # h
    BY <1>0, <1>5, TailDistinct DEF FinishClose, ClosingPlaced
  <2>2. /\ finishing' = Tail(finishing) /\ life' = [life EXCEPT ![h] = "closed"]
        /\ at = "closing" /\ UNCHANGED <<at, closing_handles>>
    BY <1>5 DEF FinishClose
  <2> HIDE DEF h
  <2> QED BY <1>0, <2>1, <2>2 DEF ClosingPlaced
<1>6. CASE \/ UserRef \/ uv_stop \/ (\E q \in Reqs : StartReq(q)) \/ Pending \/ CallbackReturns
           \/ PollEvent \/ RunPendingAgain \/ Watcher \/ uv_loop_close \/ Finished
           \/ UNCHANGED vars
  <2>1. UNCHANGED <<closing_handles, finishing, at, life>>
    BY <1>6 DEF UserRef, uv_stop, StartReq, Pending, CallbackReturns, PollEvent, RunPendingAgain,
       Watcher, uv_loop_close, Finished, vars, loopVars, runVars, closeVars, handleVars
  <2> QED BY <1>0, <2>1, ClosingApart
<1>7. CASE \/ Run \/ FirstTimersRun \/ While \/ Return \/ PendingDone \/ IdleDone \/ PrepareDone
           \/ PollDone \/ PendingAgainDone \/ ClosingDone \/ IterationDone
  <2>1. finishing = <<>>
    BY <1>0, <1>7 DEF Run, FirstTimersRun, While, Return, PendingDone, IdleDone, PrepareDone,
       PollDone, PendingAgainDone, ClosingDone, IterationDone, ClosingPlaced
  <2>2. UNCHANGED <<closing_handles, finishing, life>>
    BY <1>7 DEF Run, FirstTimersRun, While, Return, PendingDone, IdleDone, PrepareDone,
       PollDone, PendingAgainDone, ClosingDone, IterationDone, closeVars, handleVars
  <2> QED BY <1>0, <2>1, <2>2, ClosingApart
<1> QED BY <1>1, <1>2, <1>3, <1>4, <1>5, <1>6, <1>7 DEF Next, User, LoopStep

LEMMA RequestsApart ==
  ASSUME RequestsPlaced, UNCHANGED ioVars, at' = at \/ pq = <<>>
  PROVE  RequestsPlaced'
BY DEF RequestsPlaced, ioVars

LEMMA RequestsStep ==
  ASSUME LoopInv, [Next]_vars
  PROVE  RequestsPlaced'
<1>0. RequestsPlaced
  BY DEF LoopInv
<1>1. ASSUME NEW q \in Reqs, StartReq(q) PROVE RequestsPlaced'
  <2>1. /\ q \notin reqs /\ reqs' = reqs \cup {q} /\ UNCHANGED <<pq, at>>
        /\ pending_queue' = pending_queue \/ pending_queue' = Append(pending_queue, q)
    BY <1>1 DEF StartReq, runVars
  <2>2. ~Linked(pending_queue, q) /\ ~Linked(pq, q)
    BY <1>0, <2>1 DEF RequestsPlaced
  <2>3. CASE pending_queue' = pending_queue
    BY <1>0, <2>1, <2>3 DEF RequestsPlaced
  <2>4. CASE pending_queue' = Append(pending_queue, q)
    <3>1. /\ pending_queue' \in Seq(Reqs) /\ Distinct(pending_queue')
          /\ \A x : Linked(pending_queue', x) <=> Linked(pending_queue, x) \/ x = q
      BY <1>0, <2>2, <2>4, AppendDistinct DEF RequestsPlaced
    <3> QED BY <1>0, <2>1, <2>2, <3>1 DEF RequestsPlaced
  <2> QED BY <2>1, <2>3, <2>4
<1>2. CASE While \/ RunPendingAgain
  <2>1. /\ pq = <<>> /\ pq' = pending_queue /\ pending_queue' = <<>> /\ reqs' = reqs
        /\ at' \in {"pending", "repending"}
    BY <1>0, <1>2 DEF While, RunPendingAgain, RequestsPlaced
  <2>2. /\ Distinct(pending_queue') /\ pending_queue' \in Seq(Reqs)
        /\ \A x : ~Linked(pending_queue', x)
    BY <2>1, EmptyLinksNothing DEF Distinct
  <2> QED BY <1>0, <2>1, <2>2 DEF RequestsPlaced
<1>3. CASE Pending
  <2> DEFINE q == Head(pq)
  <2>1. /\ q \in Reqs /\ Linked(pq, q) /\ Tail(pq) \in Seq(Reqs) /\ Distinct(Tail(pq))
        /\ \A x : Linked(Tail(pq), x) <=> Linked(pq, x) /\ x # q
    BY <1>0, <1>3, TailDistinct DEF Pending, RequestsPlaced
  <2>2. /\ pq' = Tail(pq) /\ reqs' = reqs \ {q} /\ UNCHANGED <<pending_queue, at>>
        /\ at \in {"pending", "repending"}
    BY <1>3 DEF Pending
  <2> HIDE DEF q
  <2> QED BY <1>0, <2>1, <2>2 DEF RequestsPlaced
<1>4. CASE PollEvent
  <2>1. /\ pq = <<>> /\ UNCHANGED <<pq, pending_queue, at>>
        /\ \/ reqs' = reqs
           \/ \E q \in reqs : ~Linked(pending_queue, q) /\ reqs' = reqs \ {q}
    BY <1>0, <1>4 DEF PollEvent, RequestsPlaced
  <2>2. \A x : ~Linked(pq, x)
    BY <2>1, EmptyLinksNothing
  <2> QED BY <1>0, <2>1, <2>2 DEF RequestsPlaced
<1>5. CASE \/ UserTimer \/ UserWatcher \/ UserRef \/ uv_stop \/ (\E h \in Handles : uv_close(h))
           \/ CallbackReturns \/ Watcher \/ TimerStep \/ FinishClose \/ uv_loop_close \/ Finished
           \/ UNCHANGED vars
  <2>1. UNCHANGED <<ioVars, at>>
    BY <1>5 DEF UserTimer, UserWatcher, UserRef, uv_stop, uv_close, CallbackReturns, Watcher,
       TimerStep, FinishClose, uv_loop_close, Finished, vars, loopVars, runVars
  <2> QED BY <1>0, <2>1, RequestsApart
<1>6. CASE \/ Run \/ FirstTimersRun \/ Return \/ PendingDone \/ IdleDone \/ PrepareDone
           \/ PollDone \/ PendingAgainDone \/ CheckDone \/ ClosingDone \/ IterationDone
  <2>1. pq = <<>>
    BY <1>0, <1>6 DEF Run, FirstTimersRun, Return, PendingDone, IdleDone, PrepareDone,
       PollDone, PendingAgainDone, CheckDone, ClosingDone, IterationDone, RequestsPlaced, Kinds
  <2>2. UNCHANGED ioVars
    BY <1>6 DEF Run, FirstTimersRun, Return, PendingDone, IdleDone, PrepareDone,
       PollDone, PendingAgainDone, CheckDone, ClosingDone, IterationDone
  <2> QED BY <1>0, <2>1, <2>2, RequestsApart
<1> QED BY <1>1, <1>2, <1>3, <1>4, <1>5, <1>6 DEF Next, User, LoopStep

-----------------------------------------------------------------------------
(* The phases of uv_run, and when it blocks.                                *)

\* The timeout of a poll is positive, or -1, only if nothing is due before.
LEMMA TimeoutIsRight ==
  ASSUME TimerTypeOK
  PROVE  /\ BackendTimeout \in -1..IntMax
         /\ BackendTimeout # 0 =>
              /\ active_handles > 0 \/ reqs # {}
              /\ ~stop_flag /\ pending_queue = <<>> /\ watchers["idle"] = <<>>
              /\ closing_handles = <<>>
              /\ \A t \in timer_heap : BackendTimeout # -1 /\ time + BackendTimeout <= timeout[t]
<1>1. CASE timer_heap = {}
  BY <1>1, TimesAssumption DEF BackendTimeout, NextTimeout
<1>2. CASE timer_heap # {}
  <2> DEFINE m == HeapMin
  <2>1. /\ m \in Timers /\ timeout[m] \in Nat /\ time \in Nat /\ IntMax \in Nat \ {0}
        /\ \A t \in timer_heap : timeout[t] \in Nat
    BY <1>2, HeapMinIsLeast, TimesAssumption DEF TimerTypeOK
  <2>2. \A t \in timer_heap : timeout[m] <= timeout[t]
    BY <1>2, <2>1, HeapMinIsLeast DEF Less
  <2>3. NextTimeout = IF timeout[m] <= time THEN 0
                      ELSE IF timeout[m] - time > IntMax THEN IntMax ELSE timeout[m] - time
    BY <1>2 DEF NextTimeout
  <2> HIDE DEF m
  <2>4. NextTimeout \in 0..IntMax /\ (NextTimeout # 0 => time + NextTimeout <= timeout[m])
    BY <2>1, <2>3
  <2>5. NextTimeout # 0 => \A t \in timer_heap : NextTimeout # -1 /\ time + NextTimeout <= timeout[t]
    BY <2>1, <2>2, <2>4
  <2> QED BY <2>1, <2>4, <2>5 DEF BackendTimeout
<1> QED BY <1>1, <1>2

LEMMA ControlStep ==
  ASSUME LoopInv, [Next]_vars
  PROVE  Control'
<1>0. /\ Control /\ TimerTypeOK
      /\ (at = "out" \/ in_cb) => tpc = "out"
      /\ PendingRounds \in Nat \ {0} /\ 0 \in -1..IntMax
  BY RoundsAssumption, TimesAssumption DEF LoopInv, TimersPlaced, Control, Kinds
<1>1. CASE User
  <2>1. UNCHANGED <<runVars, reqs, loop_closed>> \/ (\E q \in Reqs : StartReq(q))
    BY <1>1 DEF User, UserTimer, UserWatcher, UserRef, uv_stop, uv_close, loopVars, ioVars, closeVars
  <2>2. UNCHANGED <<at, in_cb, mode, r, can_sleep, rounds, poll_timeout, loop_closed>>
    BY <2>1 DEF StartReq, runVars, closeVars
  <2>3. stop_flag' \in BOOLEAN
    BY <1>0, <1>1 DEF User, UserTimer, UserWatcher, UserRef, uv_stop, uv_close, StartReq, loopVars, Control
  <2>4. tpc' = tpc
    BY <1>1 DEF User, UserTimer, TimerUser, uv_timer_init, uv_timer_start, uv_timer_stop, uv_timer_again,
       uv_timer_set_repeat, UserWatcher, UserRef, uv_stop, uv_close, TimerClose, StartReq, timerVars
  <2> QED BY <1>0, <1>1, <2>2, <2>3, <2>4 DEF User, UserCode, Control
<1>a. Alive \in BOOLEAN /\ (pending_queue = <<>> /\ watchers["idle"] = <<>>) \in BOOLEAN
  BY DEF Alive
<1>b. at # "out" => ~loop_closed
  BY <1>0 DEF Control
<1>2. CASE Run
  BY <1>0, <1>a, <1>2 DEF Run, closeVars, Control, Kinds
<1>3. CASE TimerStep
  BY <1>0, <1>3 DEF TimerStep, TimerPass, Collect, Collected, Fire, TimerCallbackReturns, TimersRun,
     loopVars, runVars, ioVars, closeVars, Control, Kinds
<1>4. CASE FirstTimersRun \/ ClosingDone
  BY <1>0, <1>b, <1>4 DEF FirstTimersRun, ClosingDone, timerVars, closeVars, Control, Kinds
<1>12. CASE While
  BY <1>0, <1>a, <1>b, <1>12 DEF While, timerVars, closeVars, Control, Kinds
<1>13. CASE Return
  BY <1>0, <1>b, <1>13 DEF Return, timerVars, closeVars, Control, Kinds
<1>14. CASE IterationDone
  BY <1>0, <1>a, <1>b, <1>14 DEF IterationDone, timerVars, closeVars, Control, Kinds
<1>5. CASE Pending
  BY <1>0, <1>b, <1>5 DEF Pending, timerVars, closeVars, Control, Kinds
<1>16. CASE CallbackReturns
  BY <1>0, <1>b, <1>16 DEF CallbackReturns, timerVars, closeVars, Control, Kinds
<1>15. CASE Watcher
  BY <1>0, <1>b, <1>15 DEF Watcher, timerVars, closeVars, Control, Kinds
<1>6. CASE PendingDone \/ IdleDone \/ RunPendingAgain \/ PendingAgainDone
  BY <1>0, <1>6 DEF PendingDone, IdleDone, RunPendingAgain, PendingAgainDone, timerVars, ioVars,
     closeVars, Control, Kinds
<1>7. CASE PrepareDone
  BY <1>0, <1>7, TimeoutIsRight DEF PrepareDone, timerVars, ioVars, closeVars, Control, Kinds
<1>8. CASE PollEvent
  BY <1>0, <1>b, <1>8 DEF PollEvent, closeVars, Control, Kinds
<1>17. CASE PollDone
  BY <1>0, <1>b, <1>17 DEF PollDone, closeVars, Control, Kinds
<1>9. CASE CheckDone
  BY <1>0, <1>b, <1>9 DEF CheckDone, timerVars, Control, Kinds
<1>18. CASE FinishClose
  BY <1>0, <1>b, <1>18 DEF FinishClose, timerVars, Control, Kinds
<1>10. CASE uv_loop_close
  BY <1>0, <1>10 DEF uv_loop_close, runVars, ioVars, handleVars, timerVars, MayClose, Control, Kinds
<1>11. CASE Finished \/ UNCHANGED vars
  BY <1>0, <1>11 DEF Finished, vars, loopVars, runVars, ioVars, closeVars, handleVars, timerVars,
     MayClose, Control
<1> QED BY <1>1, <1>2, <1>3, <1>4, <1>5, <1>6, <1>7, <1>8, <1>9, <1>10, <1>11, <1>12, <1>13,
          <1>14, <1>15, <1>16, <1>17, <1>18 DEF Next, LoopStep

LEMMA BlockingStep ==
  ASSUME LoopInv, [Next]_vars, Control'
  PROVE  BlocksOnlyWhenIdle'
<1>0. /\ Control /\ BlocksOnlyWhenIdle /\ TimersPlaced /\ TimerTypeOK /\ WatchersPlaced
      /\ poll_timeout # 0 => at = "poll" /\ ~in_cb /\ tpc = "out" /\ ~loop_closed
  BY DEF LoopInv, Control, TimersPlaced, Kinds
<1>1. CASE PrepareDone
  <2>1. /\ walk = <<>> /\ poll_timeout' \in {0, BackendTimeout}
        /\ UNCHANGED <<active_handles, reqs, closing_handles, pending_queue, stop_flag, active,
                       time, timeout>>
    BY <1>1 DEF PrepareDone, handleVars, timerVars, ioVars, closeVars
  <2>2. watchers["idle"] = <<>> => \A h \in active \cap Watchers : KindOf[h] # "idle"
    BY <1>0, <2>1, EmptyLinksNothing DEF WatchersPlaced
  <2>3. timer_heap = active \cap Timers
    BY <1>0 DEF TimersPlaced, NodeInOnePlace
  <2>4. CASE poll_timeout' = 0
    BY <2>4 DEF BlocksOnlyWhenIdle
  <2>5. CASE poll_timeout' # 0
    <3>1. poll_timeout' = BackendTimeout /\ BackendTimeout # 0
      BY <2>1, <2>5
    <3>2. /\ active_handles > 0 \/ reqs # {}
          /\ ~stop_flag /\ pending_queue = <<>> /\ watchers["idle"] = <<>> /\ closing_handles = <<>>
          /\ \A t \in active \cap Timers : BackendTimeout # -1 /\ time + BackendTimeout <= timeout[t]
      BY <1>0, <2>3, <3>1, TimeoutIsRight
    <3> QED BY <2>1, <2>2, <3>1, <3>2 DEF BlocksOnlyWhenIdle
  <2> QED BY <2>4, <2>5
<1>2. CASE poll_timeout' = 0
  BY <1>2 DEF BlocksOnlyWhenIdle
<1>3. CASE poll_timeout' # 0 /\ ~PrepareDone
  <2>1. poll_timeout' = poll_timeout
    BY <1>3 DEF Next, User, UserTimer, UserWatcher, UserRef, uv_stop, uv_close, StartReq, LoopStep,
       Run, FirstTimersRun, While, Return, Pending, CallbackReturns, PendingDone, Watcher, IdleDone,
       PollDone, RunPendingAgain, PendingAgainDone, CheckDone, FinishClose, ClosingDone, TimerStep,
       IterationDone, PollEvent, uv_loop_close, Finished, vars, loopVars, runVars
  <2>2. at = "poll" /\ ~in_cb /\ tpc = "out" /\ ~loop_closed
    BY <1>0, <1>3, <2>1
  <2>3. UNCHANGED vars
    BY <1>3, <2>1, <2>2 DEF Next, User, UserCode, LoopStep,
       Run, FirstTimersRun, While, Return, Pending, CallbackReturns, PendingDone, Watcher, IdleDone,
       PollDone, RunPendingAgain, PendingAgainDone, CheckDone, FinishClose, ClosingDone, TimerStep,
       TimerPass, Collect, Collected, Fire, TimerCallbackReturns, TimersRun,
       IterationDone, PollEvent, uv_loop_close, Finished, Kinds
  <2> QED BY <1>0, <2>3 DEF vars, loopVars, runVars, ioVars, closeVars, handleVars, timerVars,
             BlocksOnlyWhenIdle
<1> QED BY <1>1, <1>2, <1>3

-----------------------------------------------------------------------------
(* The theorems.                                                            *)

LEMMA LoopInit == Init => LoopInv
<1> SUFFICES ASSUME Init PROVE LoopInv
  OBVIOUS
<1> USE DEF Init, NoHandles, TimerInit, WatcherInit
<1>0. Distinct(<<>>) /\ \A n : ~Linked(<<>>, n)
  BY EmptyLinksNothing DEF Distinct
<1>1. Handled
  BY FS_EmptySet DEF Handled, HandleTypeOK, ActiveCount, Owned
<1>2. TimersPlaced
  <2>1. TimerTypeOK
    BY <1>1, TimesAssumption DEF Handled, TimerTypeOK
  <2> QED BY <1>0, <2>1 DEF TimersPlaced, NodeInOnePlace
<1>3. WatchersPlaced
  <2>1. WatcherTypeOK
    BY DEF WatcherTypeOK
  <2>2. \A h \in Watchers : ~Linked(watchers[KindOf[h]], h)
    BY <1>0, WatchersAssumption
  <2> QED BY <1>0, <2>1, <2>2 DEF WatchersPlaced
<1>4. ClosingPlaced /\ RequestsPlaced
  BY <1>0 DEF ClosingPlaced, RequestsPlaced
<1>5. Control
  <2>1. rounds \in 0..PendingRounds /\ poll_timeout \in -1..IntMax
    BY RoundsAssumption, TimesAssumption
  <2>2. /\ at = "out" /\ tpc = "out" /\ in_cb = FALSE /\ mode = "default" /\ r = FALSE
        /\ can_sleep = FALSE /\ stop_flag = FALSE /\ loop_closed = FALSE /\ poll_timeout = 0
    OBVIOUS
  <2> QED BY <2>1, <2>2 DEF Control
<1>6. BlocksOnlyWhenIdle
  BY DEF BlocksOnlyWhenIdle
<1> QED BY <1>1, <1>2, <1>3, <1>4, <1>5, <1>6 DEF LoopInv

LEMMA LoopStepInv == LoopInv /\ [Next]_vars => LoopInv'
<1> SUFFICES ASSUME LoopInv, [Next]_vars PROVE LoopInv'
  OBVIOUS
<1>1. Handled'
  BY HandleStep, EffectHandled DEF LoopInv
<1> QED BY <1>1, TimersStep, WatchersStep, ClosingStep, RequestsStep, ControlStep, BlockingStep
        DEF LoopInv

LEMMA LoopInvariant == Spec => []LoopInv
BY LoopInit, LoopStepInv, PTL DEF Spec

\* Every variable keeps its type; in particular active_handles, which is unsigned,
\* does not wrap.
THEOREM LoopTypes == Spec => []TypeOK
<1>1. LoopInv => TypeOK
  BY DEF LoopInv, TimersPlaced, WatchersPlaced, ClosingPlaced, RequestsPlaced, Control, TypeOK
<1> QED BY <1>1, LoopInvariant, PTL

\* uv_run's count of active handles is right, and the walks over idle, prepare and check
\* watchers neither skip nor repeat, whatever callbacks start, stop and close.
THEOREM WatchersAreSound == Spec => []WatchersSound
<1>1. LoopInv => ActiveCount
  BY DEF LoopInv, Handled
<1>2. ASSUME LoopInv PROVE WalkIsSound
  <2>0. WatchersPlaced /\ walk \in Seq(Watchers) /\ watchers \in [Kinds -> Seq(Watchers)]
    BY <1>2 DEF LoopInv, WatchersPlaced, WatcherTypeOK
  <2>1. ASSUME NEW h \in Watchers
        PROVE  Occurrences(watchers[KindOf[h]], h) + Occurrences(walk, h)
                 = IF h \in active THEN 1 ELSE 0
    <3>1. KindOf[h] \in Kinds
      BY WatchersAssumption
    <3>2. /\ Occurrences(walk, h) = IF Linked(walk, h) THEN 1 ELSE 0
          /\ Occurrences(watchers[KindOf[h]], h) = IF Linked(watchers[KindOf[h]], h) THEN 1 ELSE 0
      BY <2>0, <3>1, OccursOnce DEF WatchersPlaced
    <3> QED BY <2>0, <3>1, <3>2 DEF WatchersPlaced
  <2>2. ASSUME NEW i \in 1..Len(walk) PROVE walk[i] \notin visited
    <3>1. walk[i] \in Watchers /\ Linked(walk, walk[i])
      BY <2>0 DEF Linked
    <3> QED BY <2>0, <3>1 DEF WatchersPlaced
  <2> QED BY <2>1, <2>2 DEF WalkIsSound
<1> QED BY <1>1, <1>2, LoopInvariant, PTL DEF WatchersSound

\* uv_close: every closing handle is on one list, once, so close_cb is called once, even
\* when close callbacks close others; and uv_loop_close leaves nothing behind.
THEOREM HandlesCloseOnce == Spec => []ClosingOnce
<1>1. ASSUME LoopInv PROVE ClosingOnce
  <2>0. ClosingPlaced /\ WatchersPlaced /\ RequestsPlaced /\ TimersPlaced /\ Control /\ Handled
    BY <1>1 DEF LoopInv
  <2>1. ASSUME NEW h \in Handles
        PROVE  Occurrences(closing_handles, h) + Occurrences(finishing, h)
                 = IF life[h] = "closing" THEN 1 ELSE 0
    <3>1. /\ Occurrences(closing_handles, h) = IF Linked(closing_handles, h) THEN 1 ELSE 0
          /\ Occurrences(finishing, h) = IF Linked(finishing, h) THEN 1 ELSE 0
      BY <2>0, OccursOnce DEF ClosingPlaced
    <3> QED BY <2>0, <3>1 DEF ClosingPlaced
  <2>2. ASSUME loop_closed
        PROVE  /\ closing_handles = <<>> /\ pending_queue = <<>>
               /\ timer_heap = {} /\ \A k \in Kinds : watchers[k] = <<>>
               /\ active_handles = 0
    <3>1. reqs = {} /\ \A h \in Handles : life[h] \in {"none", "closed"}
      BY <2>0, <2>2 DEF Control, MayClose
    <3>2. active = {}
      BY <2>0, <3>1 DEF Handled, Owned, HandleTypeOK
    <3>3. closing_handles = <<>>
      <4>1. \A n : ~Linked(closing_handles, n)
        BY <2>0, <3>1 DEF ClosingPlaced, Linked
      <4> QED BY <2>0, <4>1, EmptyOrLinked DEF ClosingPlaced
    <3>4. pending_queue = <<>>
      <4>1. \A n : ~Linked(pending_queue, n)
        BY <2>0, <3>1 DEF RequestsPlaced, Linked
      <4> QED BY <2>0, <4>1, EmptyOrLinked DEF RequestsPlaced
    <3>5. ASSUME NEW k \in Kinds PROVE watchers[k] = <<>>
      <4>1. watchers[k] \in Seq(Watchers)
        BY <2>0 DEF WatchersPlaced, WatcherTypeOK
      <4>2. \A n : ~Linked(watchers[k], n)
        <5> SUFFICES ASSUME NEW n, Linked(watchers[k], n) PROVE FALSE
          OBVIOUS
        <5>1. n \in Watchers
          BY <4>1 DEF Linked
        <5> QED BY <2>0, <3>2, <5>1 DEF WatchersPlaced
      <4> QED BY <4>1, <4>2, EmptyOrLinked
    <3>6. timer_heap = {}
      BY <2>0, <3>2 DEF TimersPlaced, NodeInOnePlace
    <3>7. active_handles = 0
      <4>1. active \cap ref = {}
        BY <3>2
      <4>2. active_handles = Cardinality({})
        BY <2>0, <4>1, Zenon DEF Handled, ActiveCount
      <4> QED BY <4>2, FS_EmptySet
    <3> QED BY <3>3, <3>4, <3>5, <3>6, <3>7
  <2> QED BY <2>1, <2>2 DEF ClosingOnce
<1> QED BY <1>1, LoopInvariant, PTL

\* uv__backend_timeout: the loop does not sleep past a timer, nor while a handle closes,
\* an idle handle is active or a request is pending, nor with nothing to wait for.
THEOREM LoopBlocksRightly == Spec => []BlocksOnlyWhenIdle
<1>1. LoopInv => BlocksOnlyWhenIdle
  BY DEF LoopInv
<1> QED BY <1>1, LoopInvariant, PTL

\* The ACTIVE flag tells where the memory that a timer's two nodes share is linked.
THEOREM TimersAreLinkedRight == Spec => []NodeInOnePlace
<1>1. LoopInv => NodeInOnePlace
  BY DEF LoopInv, TimersPlaced
<1> QED BY <1>1, LoopInvariant, PTL

\* uv__run_timers and the walks call what is open at that moment.
THEOREM CallbacksOnlyWhileOpen == Spec => NoCallbackAfterClose
<1>1. ASSUME LoopInv, [Next]_vars, tpc = "fire", tpc' = "cb" PROVE life[Head(ready)] = "open"
  <2>1. ready # <<>>
    BY <1>1 DEF Next, User, UserTimer, TimerUser, uv_timer_init, uv_timer_start, uv_timer_stop,
       uv_timer_again, uv_timer_set_repeat, UserWatcher, UserRef, uv_close, TimerClose, uv_stop,
       StartReq, LoopStep, Run, FirstTimersRun, While, Return, Pending, CallbackReturns, PendingDone,
       Watcher, IdleDone, PrepareDone, PollDone, RunPendingAgain, PendingAgainDone, CheckDone,
       FinishClose, ClosingDone, TimerStep, TimerPass, Collect, Collected, Fire,
       TimerCallbackReturns, TimersRun, IterationDone, PollEvent, uv_loop_close, Finished,
       vars, timerVars
  <2>2. Head(ready) \in Timers /\ Linked(ready, Head(ready))
    BY <1>1, <2>1, TailDistinct DEF LoopInv, TimersPlaced, TimerTypeOK, NodeInOnePlace
  <2> QED BY <1>1, <2>2 DEF LoopInv, TimersPlaced, NodeInOnePlace
<1>2. ASSUME LoopInv, [Next]_vars, at \in Kinds, ~in_cb, in_cb' PROVE life[Head(walk)] = "open"
  <2>1. walk # <<>>
    BY <1>2 DEF Next, User, UserTimer, UserWatcher, UserRef, uv_close, uv_stop,
       StartReq, LoopStep, Run, FirstTimersRun, While, Return, Pending, CallbackReturns, PendingDone,
       Watcher, Visit, IdleDone, PrepareDone, PollDone, RunPendingAgain, PendingAgainDone, CheckDone,
       FinishClose, ClosingDone, TimerStep, IterationDone, PollEvent, uv_loop_close, Finished,
       vars, loopVars, runVars, Kinds
  <2>2. Head(walk) \in Watchers /\ Linked(walk, Head(walk))
    BY <1>2, <2>1, TailDistinct DEF LoopInv, WatchersPlaced, WatcherTypeOK
  <2> QED BY <1>2, <2>2 DEF LoopInv, WatchersPlaced, Handled, Owned
<1> QED BY <1>1, <1>2, LoopInvariant, PTL DEF Spec, NoCallbackAfterClose

\* Both of the two on watchers together.
THEOREM WalksKeepPromise == Spec => WalksPromise
BY WatchersAreSound, CallbacksOnlyWhileOpen, PTL DEF WalksPromise, WatchersSound

\* A pass of uv__run_timers calls a timer once, whatever its callbacks start.
THEOREM TimersGoOffOncePerPass == Spec => OncePerPass
<1>1. ASSUME LoopInv, [Next]_vars PROVE [tpc = "fire" /\ tpc' = "cb" => Head(ready) \notin called]_timersVars
  <2> SUFFICES ASSUME tpc = "fire", tpc' = "cb" PROVE Head(ready) \notin called
    OBVIOUS
  <2>1. ready # <<>>
    BY <1>1 DEF Next, User, UserTimer, TimerUser, uv_timer_init, uv_timer_start, uv_timer_stop,
       uv_timer_again, uv_timer_set_repeat, UserWatcher, UserRef, uv_close, TimerClose, uv_stop,
       StartReq, LoopStep, Run, FirstTimersRun, While, Return, Pending, CallbackReturns, PendingDone,
       Watcher, IdleDone, PrepareDone, PollDone, RunPendingAgain, PendingAgainDone, CheckDone,
       FinishClose, ClosingDone, TimerStep, TimerPass, Collect, Collected, Fire,
       TimerCallbackReturns, TimersRun, IterationDone, PollEvent, uv_loop_close, Finished,
       vars, timerVars
  <2>2. Head(ready) \in Timers /\ Linked(ready, Head(ready))
    BY <1>1, <2>1, TailDistinct DEF LoopInv, TimersPlaced, TimerTypeOK, NodeInOnePlace
  <2> QED BY <1>1, <2>2 DEF LoopInv, TimersPlaced
<1> QED BY <1>1, LoopInvariant, PTL DEF Spec, OncePerPass

\* What timer.c promises in every pass, for any timers and widths of int.
THEOREM TimersKeepPromise == Spec => TimersPromise
<1>1. LoopInv => TimerTypeOK
  BY DEF LoopInv, TimersPlaced
<1> QED BY <1>1, TimersAreLinkedRight, TimersGoOffOncePerPass, LoopInvariant, PTL DEF TimersPromise


-----------------------------------------------------------------------------
(* The order in which timers go off.                                        *)

\* All timers of the ready queue are due, and each goes off before those behind it and
\* before those of the heap.
InOrder(queue, heap) ==
  /\ \A i \in 1..Len(queue) : timeout[queue[i]] <= time
  /\ \A i, j \in 1..Len(queue) : i < j => Less(queue[i], queue[j])
  /\ \A i \in 1..Len(queue), u \in heap : Less(queue[i], u)

Ranked == \A t, u \in Timers : start_id[t] = start_id[u] => t = u

TimersInOrder == Ranked /\ InOrder(ready, timer_heap)

\* The comparison that detects the wrap finds it, and finds nothing else.
LEMMA ClampedIs ==
  ASSUME time \in 0..MaxTime, NEW to \in 0..MaxTime
  PROVE  Clamped(to) = IF time + to <= MaxTime THEN time + to ELSE MaxTime
<1> DEFINE n == MaxTime + 1
           s == time + to
<1>0. MaxTime \in Nat /\ time \in Nat /\ to \in Nat /\ n \in Nat \ {0} /\ s \in Nat
      /\ time < n /\ to < n
  BY TimesAssumption
<1>1. CASE s <= MaxTime
  <2>1. s % n = s
    BY <1>0, <1>1
  <2> QED BY <1>0, <1>1, <2>1 DEF Clamped, Unclamped
<1>2. CASE ~(s <= MaxTime)
  <2>1. s % n = s - n
    BY <1>0, <1>2
  <2> QED BY <1>0, <1>2, <2>1 DEF Clamped, Unclamped
<1> QED BY <1>1, <1>2

LEMMA SameInOrder ==
  ASSUME TimerTypeOK, TimersInOrder, UNCHANGED <<ready, timer_heap, timeout, start_id>>,
         time' \in Nat, time <= time'
  PROVE  TimersInOrder'
<1>1. \A i \in 1..Len(ready) : timeout[ready[i]] \in Nat /\ timeout[ready[i]] <= time /\ time \in Nat
  BY TimesAssumption DEF TimerTypeOK, TimersInOrder, InOrder
<1>2. \A i \in 1..Len(ready) : timeout[ready[i]] <= time'
  BY <1>1
<1> QED BY <1>2 DEF TimersInOrder, InOrder, Ranked, Less

\* A timer that is taken out leaves the others in order.
LEMMA OutInOrder ==
  ASSUME TimersPlaced, InOrder(ready, timer_heap), NEW t \in Timers
  PROVE  InOrder(ReadyUnlinked(t), HeapUnlinked(t))
<1>0. /\ ready \in Seq(Timers) /\ HeapUnlinked(t) = timer_heap \ {t} /\ Len(ready) \in Nat
  BY TakenOut, LenProperties DEF TimersPlaced, TimerTypeOK
<1>1. CASE ReadyUnlinked(t) = ready
  BY <1>0, <1>1 DEF InOrder
<1>2. CASE ReadyUnlinked(t) # ready
  <2> DEFINE q == Unlink(ready, t)
             k == Position(ready, t)
             at_(i) == IF i < k THEN i ELSE i + 1
  <2>1. ReadyUnlinked(t) = q /\ Linked(ready, t)
    BY <1>2 DEF ReadyUnlinked, Unlink
  <2>2. /\ k \in 1..Len(ready) /\ Len(q) = Len(ready) - 1
        /\ \A i \in 1..Len(ready) - 1 : q[i] = IF i < k THEN ready[i] ELSE ready[i + 1]
    BY <1>0, <2>1, UnlinkElements
  <2> HIDE DEF q, k
  <2>3. \A i \in 1..Len(q) : at_(i) \in 1..Len(ready) /\ q[i] = ready[at_(i)]
    BY <1>0, <2>2
  <2>4. \A i, j \in 1..Len(q) : i < j => at_(i) < at_(j)
    BY <1>0, <2>2
  <2> HIDE DEF at_
  <2>5. InOrder(q, timer_heap \ {t})
    BY <2>3, <2>4 DEF InOrder
  <2> QED BY <1>0, <2>1, <2>5
<1> QED BY <1>1, <1>2

\* What uv_timer_start arms is the last of all for its time, and the others keep their order.
LEMMA ArmedIsLast ==
  ASSUME TimersPlaced, Ranked, NEW t \in Timers, NEW to \in 0..MaxTime, NEW rp, Arm(t, to, rp)
  PROVE  /\ timer_heap' = (timer_heap \ {t}) \cup {t} /\ timer_heap \subseteq Timers
         /\ timeout' = [timeout EXCEPT ![t] = Clamped(to)] /\ Clamped(to) \in 0..MaxTime
         /\ timeout'[t] \in Nat /\ time <= timeout'[t] /\ time \in Nat
         /\ \A u \in Timers : u # t => timeout'[u] = timeout[u]
         /\ \A u \in Timers : timeout[u] \in Nat
         /\ \A u \in Timers : u # t => start_id'[u] < start_id'[t]
         /\ \A u, v \in Timers : u # t /\ v # t /\ Less(u, v) => Less(u, v)'
         /\ Ranked'
<1>0. /\ TimerTypeOK /\ time \in Nat /\ MaxTime \in Nat /\ timer_heap' = (timer_heap \ {t}) \cup {t}
      /\ timer_heap \subseteq Timers
      /\ \A u \in Timers : timeout[u] \in Nat /\ start_id[u] \in 1..Cardinality(Timers)
      /\ timeout' = [timeout EXCEPT ![t] = Clamped(to)] /\ start_id' = Restarted(t)
  <2>1. TimerTypeOK
    BY DEF TimersPlaced
  <2>2. time \in Nat /\ MaxTime \in Nat /\ timer_heap \subseteq Timers
    BY <2>1, TimesAssumption DEF TimerTypeOK
  <2>3. \A u \in Timers : timeout[u] \in Nat /\ start_id[u] \in 1..Cardinality(Timers)
    BY <2>1, TimesAssumption DEF TimerTypeOK
  <2>4. /\ timer_heap' = (timer_heap \ {t}) \cup {t}
        /\ timeout' = [timeout EXCEPT ![t] = Clamped(to)] /\ start_id' = Restarted(t)
    BY TakenOut DEF TimersPlaced, Arm
  <2> QED BY <2>1, <2>2, <2>3, <2>4
<1>1. Cardinality(Timers) \in Nat
  <2>1. IsFiniteSet(Timers)
    BY HandlesAssumption, TimersAssumption, FS_Subset
  <2> QED BY <2>1, FS_CardinalityType
<1>2. /\ timeout'[t] \in Nat /\ time <= timeout'[t]
      /\ \A u \in Timers : u # t => timeout'[u] = timeout[u]
  <2>1. Clamped(to) \in Nat /\ time <= Clamped(to)
    BY <1>0, ClampedIs DEF TimerTypeOK
  <2>2. timeout \in [Timers -> 0..MaxTime]
    BY <1>0 DEF TimerTypeOK
  <2> HIDE DEF Clamped
  <2> QED BY <1>0, <2>1, <2>2
<1>3. /\ start_id'[t] = Cardinality(Timers)
      /\ \A u \in Timers : u # t =>
           start_id'[u] = IF start_id[u] > start_id[t] THEN start_id[u] - 1 ELSE start_id[u]
  BY <1>0 DEF Restarted
<1>4. \A u \in Timers : u # t => start_id[u] # start_id[t]
  BY DEF Ranked
<1>5. \A u \in Timers : u # t => start_id'[u] < start_id'[t]
  BY <1>0, <1>1, <1>3, <1>4
<1>6. \A u, v \in Timers : u # t /\ v # t /\ start_id[u] < start_id[v] => start_id'[u] < start_id'[v]
  BY <1>0, <1>1, <1>3, <1>4
<1>7. Ranked'
  <2> SUFFICES ASSUME NEW u \in Timers, NEW v \in Timers, u # v PROVE start_id'[u] # start_id'[v]
    BY DEF Ranked
  <2>1. start_id[u] < start_id[v] \/ start_id[v] < start_id[u]
    BY <1>0, <1>1 DEF Ranked
  <2>2. start_id'[u] \in Int /\ start_id'[v] \in Int
    BY <1>0, <1>1, <1>3
  <2> QED BY <1>5, <1>6, <2>1, <2>2
<1>8. \A u, v \in Timers : u # t /\ v # t /\ Less(u, v) => Less(u, v)'
  BY <1>2, <1>6 DEF Less
<1>9. Clamped(to) \in 0..MaxTime
  BY <1>0, ArmedFields
<1> HIDE DEF Clamped
<1> QED BY <1>0, <1>2, <1>5, <1>7, <1>8, <1>9

\* A timer that is started goes off after all that are due, and after those that were
\* started before it for the same time.
LEMMA ArmedInOrder ==
  ASSUME TimersPlaced, Ranked, NEW t \in Timers, NEW to \in 0..MaxTime, NEW rp, Arm(t, to, rp),
         NEW queue \in Seq(Timers), ~Linked(queue, t), InOrder(queue, timer_heap \ {t}),
         ready' = queue, time' = time
  PROVE  TimersInOrder'
<1>1. /\ timer_heap' = (timer_heap \ {t}) \cup {t} /\ timer_heap \subseteq Timers
      /\ timeout'[t] \in Nat /\ time <= timeout'[t] /\ time \in Nat
      /\ \A u \in Timers : u # t => timeout'[u] = timeout[u]
      /\ \A u \in Timers : timeout[u] \in Nat
      /\ \A u \in Timers : u # t => start_id'[u] < start_id'[t]
      /\ \A u, v \in Timers : u # t /\ v # t /\ Less(u, v) => Less(u, v)'
      /\ Ranked'
  BY ArmedIsLast
<1>2. \A i \in 1..Len(queue) : queue[i] \in Timers /\ queue[i] # t
  BY ElementOfSeq DEF Linked
<1>3. \A i \in 1..Len(queue) : Less(queue[i], t)'
  <2> SUFFICES ASSUME NEW i \in 1..Len(queue) PROVE Less(queue[i], t)'
    OBVIOUS
  <2>1. timeout'[queue[i]] = timeout[queue[i]] /\ timeout[queue[i]] \in Nat /\ timeout[queue[i]] <= time
        /\ start_id'[queue[i]] < start_id'[t]
    BY <1>1, <1>2 DEF InOrder
  <2> QED BY <1>1, <2>1 DEF Less
<1>4. \A i \in 1..Len(queue) : timeout'[queue[i]] <= time'
  BY <1>1, <1>2 DEF InOrder
<1>5. \A i, j \in 1..Len(queue) : i < j => Less(queue[i], queue[j])'
  BY <1>1, <1>2 DEF InOrder
<1>6. \A i \in 1..Len(queue), u \in timer_heap' : Less(queue[i], u)'
  BY <1>1, <1>2, <1>3 DEF InOrder
<1> QED BY <1>1, <1>4, <1>5, <1>6 DEF TimersInOrder, InOrder

\* The timer that is due first is the next in the queue.
LEMMA CollectInOrder ==
  ASSUME TimersPlaced, TimersInOrder, Collect
  PROVE  TimersInOrder'
<1> DEFINE t == HeapMin
           n == Len(ready)
<1>0. TimerTypeOK /\ Ranked /\ InOrder(ready, timer_heap) /\ ready \in Seq(Timers) /\ n \in Nat
  BY LenProperties DEF TimersPlaced, TimerTypeOK, TimersInOrder
<1>1. /\ t \in timer_heap /\ t \in Timers /\ timeout[t] <= time /\ \A u \in timer_heap : ~Less(u, t)
      /\ timer_heap \subseteq Timers
  BY <1>0, HeapMinIsLeast DEF Collect, Due, TimerTypeOK
<1>2. \A u \in timer_heap \ {t} : Less(t, u)
  <2> HIDE DEF t
  <2> SUFFICES ASSUME NEW u \in timer_heap \ {t} PROVE Less(t, u)
    OBVIOUS
  <2>1. /\ timeout[u] \in Int /\ timeout[t] \in Int /\ start_id[u] \in Int /\ start_id[t] \in Int
        /\ start_id[u] # start_id[t] /\ ~Less(u, t)
    BY <1>0, <1>1, TimesAssumption DEF TimerTypeOK, Ranked
  <2> QED BY <2>1 DEF Less
<1> HIDE DEF t
<1>3. /\ ready' = Append(ready, t) /\ timer_heap' = timer_heap \ {t}
      /\ UNCHANGED <<time, timeout, start_id>>
  BY DEF Collect, timerTypeVars, t
<1>4. /\ Len(ready') = n + 1 /\ ready'[n + 1] = t
      /\ \A i \in 1..n : ready'[i] = ready[i]
  BY <1>0, <1>1, <1>3, AppendProperties
<1>5. \A i \in 1..n + 1 : timeout'[ready'[i]] <= time'
  BY <1>0, <1>1, <1>3, <1>4 DEF InOrder
<1>6. ASSUME NEW i \in 1..n + 1, NEW j \in 1..n + 1, i < j PROVE Less(ready'[i], ready'[j])
  <2>1. i \in 1..n /\ ready'[i] = ready[i]
    BY <1>0, <1>4, <1>6
  <2>2. CASE j = n + 1
    BY <1>0, <1>1, <1>4, <2>1, <2>2 DEF InOrder
  <2>3. CASE j # n + 1
    <3>1. j \in 1..n /\ ready'[j] = ready[j]
      BY <1>0, <1>4, <2>3
    <3> QED BY <1>0, <1>6, <2>1, <3>1 DEF InOrder
  <2> QED BY <2>2, <2>3
<1>7. ASSUME NEW i \in 1..n + 1, NEW u \in timer_heap' PROVE Less(ready'[i], u)
  <2>1. CASE i = n + 1
    BY <1>2, <1>3, <1>4, <2>1
  <2>2. CASE i # n + 1
    <3>1. i \in 1..n /\ ready'[i] = ready[i] /\ u \in timer_heap
      BY <1>0, <1>3, <1>4, <2>2
    <3> QED BY <1>0, <3>1 DEF InOrder
  <2> QED BY <2>1, <2>2
<1>8. \A x, y : Less(x, y)' <=> Less(x, y)
  BY <1>3 DEF Less
<1> HIDE DEF n
<1> QED BY <1>0, <1>3, <1>4, <1>5, <1>6, <1>7 DEF TimersInOrder, InOrder, Ranked, Less

LEMMA FireInOrder ==
  ASSUME TimersPlaced, TimersInOrder, Fire
  PROVE  TimersInOrder'
<1> DEFINE t == Head(ready)
           q == Tail(ready)
<1>0. /\ TimerTypeOK /\ Ranked /\ InOrder(ready, timer_heap) /\ ready \in Seq(Timers)
      /\ Distinct(ready) /\ ready # <<>>
  BY DEF TimersPlaced, TimerTypeOK, NodeInOnePlace, TimersInOrder, Fire
<1>1. /\ t \in Timers /\ q \in Seq(Timers) /\ ~Linked(q, t) /\ Len(ready) \in Nat
      /\ Len(q) = Len(ready) - 1 /\ \A i \in 1..Len(q) : q[i] = ready[i + 1]
  BY <1>0, TailDistinct, HeadTailProperties, LenProperties
<1>2. /\ ready' = q /\ time' = time
      /\ IF repeat[t] # 0 THEN Arm(t, repeat[t], repeat[t])
         ELSE UNCHANGED <<timer_heap, timeout, start_id>>
  BY DEF Fire, timerTypeVars
<1>3. repeat[t] \in 0..MaxTime
  BY <1>0, <1>1 DEF TimerTypeOK
<1> HIDE DEF t, q
<1>4. \A i \in 1..Len(q) : i + 1 \in 1..Len(ready)
  BY <1>1
<1>5. InOrder(q, timer_heap)
  <2>1. \A i \in 1..Len(q) : timeout[q[i]] <= time
    BY <1>0, <1>1, <1>4 DEF InOrder
  <2>2. \A i \in 1..Len(q), u \in timer_heap : Less(q[i], u)
    BY <1>0, <1>1, <1>4 DEF InOrder
  <2>3. ASSUME NEW i \in 1..Len(q), NEW j \in 1..Len(q), i < j PROVE Less(q[i], q[j])
    <3>1. i + 1 \in 1..Len(ready) /\ j + 1 \in 1..Len(ready) /\ i + 1 < j + 1
      BY <1>1, <1>4, <2>3
    <3>2. Less(ready[i + 1], ready[j + 1])
      BY <1>0, <3>1 DEF InOrder
    <3> QED BY <1>1, <3>2
  <2> QED BY <2>1, <2>2, <2>3 DEF InOrder
<1>6. InOrder(q, timer_heap \ {t})
  BY <1>5 DEF InOrder
<1>7. CASE repeat[t] # 0
  BY <1>0, <1>1, <1>2, <1>3, <1>6, <1>7, ArmedInOrder
<1>8. CASE repeat[t] = 0
  BY <1>0, <1>2, <1>5, <1>8 DEF TimersInOrder, InOrder, Ranked, Less
<1> QED BY <1>7, <1>8

LEMMA TimerUserInOrder ==
  ASSUME TimersPlaced, Owned, TimersInOrder, NEW t \in Timers, TimerUser(t)
  PROVE  TimersInOrder'
<1>0. /\ TimerTypeOK /\ Ranked /\ InOrder(ready, timer_heap)
      /\ Timeouts \subseteq 0..MaxTime /\ Repeats \subseteq 0..MaxTime
      /\ InOrder(ReadyUnlinked(t), timer_heap \ {t})
      /\ ReadyUnlinked(t) \in Seq(Timers) /\ ~Linked(ReadyUnlinked(t), t)
  BY OutInOrder, TakenOut, TimesAssumption DEF TimersPlaced, TimersInOrder
<1>1. CASE uv_timer_init(t)
  <2>1. t \notin active /\ ~Linked(ready, t) /\ t \notin timer_heap
    BY <1>1 DEF uv_timer_init, HandleInit, Owned, NodeInOnePlace, TimersPlaced
  <2>2. /\ UNCHANGED <<time, ready, timer_heap, start_id>>
        /\ timeout' = [timeout EXCEPT ![t] = 0]
    BY <1>1 DEF uv_timer_init
  <2>3. /\ \A i \in 1..Len(ready) : ready[i] # t /\ ready[i] \in Timers
        /\ \A u \in timer_heap : u # t /\ u \in Timers
    BY <1>0, <2>1, ElementOfSeq DEF Linked, TimerTypeOK
  <2>4. \A u \in Timers : u # t => timeout'[u] = timeout[u]
    BY <1>0, <2>2 DEF TimerTypeOK
  <2> QED BY <1>0, <2>2, <2>3, <2>4 DEF TimersInOrder, InOrder, Ranked, Less
<1>2. ASSUME NEW to \in 0..MaxTime, NEW rp, Arm(t, to, rp), ready' = ReadyUnlinked(t), time' = time
      PROVE  TimersInOrder'
  BY <1>0, <1>2, ArmedInOrder
<1>3. CASE uv_timer_stop(t)
  <2>1. /\ ready' = ReadyUnlinked(t) /\ timer_heap' = timer_heap \ {t}
        /\ UNCHANGED <<time, timeout, start_id>>
    BY <1>3, TakenOut DEF uv_timer_stop, timerTypeVars
  <2> QED BY <1>0, <2>1 DEF TimersInOrder, InOrder, Ranked, Less
<1>4. \A to \in Timeouts, rp \in Repeats :
        uv_timer_start(t, to, rp) => to \in 0..MaxTime /\ Arm(t, to, rp) /\ ready' = ReadyUnlinked(t) /\ time' = time
  BY <1>0 DEF uv_timer_start
<1>5. uv_timer_again(t) => /\ repeat[t] \in 0..MaxTime /\ Arm(t, repeat[t], repeat[t])
                          /\ ready' = ReadyUnlinked(t) /\ time' = time
  BY <1>0 DEF uv_timer_again, TimerTypeOK
<1>6. ASSUME UNCHANGED <<ready, timer_heap, timeout, start_id, time>> PROVE TimersInOrder'
  BY <1>6 DEF TimersInOrder, InOrder, Ranked, Less
<1>7. \A rp \in Repeats : uv_timer_set_repeat(t, rp) => UNCHANGED <<ready, timer_heap, timeout, start_id, time>>
  BY DEF uv_timer_set_repeat
<1> QED BY <1>1, <1>2, <1>3, <1>4, <1>5, <1>6, <1>7 DEF TimerUser

LEMMA OrderStep ==
  ASSUME LoopInv, TimersInOrder, [Next]_vars
  PROVE  TimersInOrder'
<1>0. TimersPlaced /\ Owned /\ TimerTypeOK /\ time \in Nat
  BY TimesAssumption DEF LoopInv, Handled, TimersPlaced, TimerTypeOK
<1>1. ASSUME UNCHANGED <<ready, timer_heap, timeout, start_id>>, time' = time \/ UpdateTime
      PROVE  TimersInOrder'
  BY <1>0, <1>1, SameInOrder, TimesAssumption DEF UpdateTime
<1>2. ASSUME NEW t \in Timers, TimerUser(t) PROVE TimersInOrder'
  BY <1>0, <1>2, TimerUserInOrder
<1>3. CASE TimerPass
  <2>1. CASE Collect
    BY <1>0, <2>1, CollectInOrder
  <2>2. CASE Fire
    BY <1>0, <2>2, FireInOrder
  <2>3. CASE Collected \/ TimerCallbackReturns \/ TimersRun
    BY <1>1, <2>3 DEF Collected, TimerCallbackReturns, TimersRun, timerTypeVars
  <2> QED BY <1>3, <2>1, <2>2, <2>3 DEF TimerPass
<1>4. ASSUME NEW h \in Handles, uv_close(h) PROVE TimersInOrder'
  <2>1. CASE h \in Timers
    <3>1. /\ ready' = ReadyUnlinked(h) /\ timer_heap' = HeapUnlinked(h)
          /\ UNCHANGED <<time, timeout, start_id>>
      BY <1>4, <2>1, TimersAssumption, KindsAssumption DEF uv_close, TimerClose, timerTypeVars
    <3>2. InOrder(ReadyUnlinked(h), HeapUnlinked(h))
      BY <1>0, <2>1, OutInOrder DEF TimersInOrder
    <3> QED BY <3>1, <3>2 DEF TimersInOrder, InOrder, Ranked, Less
  <2>2. CASE h \notin Timers
    <3>1. UNCHANGED <<ready, timer_heap, timeout, start_id, time>>
      BY <1>4, <2>2 DEF uv_close, timerVars, timerTypeVars
    <3> QED BY <1>1, <3>1
  <2> QED BY <2>1, <2>2
<1>5. CASE Run \/ ClosingDone \/ PollEvent \/ PollDone
  <2>1. UNCHANGED <<ready, timer_heap, timeout, start_id>> /\ (time' = time \/ UpdateTime)
    BY <1>5 DEF Run, ClosingDone, PollEvent, PollDone, timerTypeVars
  <2> QED BY <1>1, <2>1
<1>6. CASE \/ uv_stop \/ (\E q \in Reqs : StartReq(q)) \/ FirstTimersRun \/ While \/ Return
           \/ Pending \/ CallbackReturns \/ PendingDone \/ Watcher \/ IdleDone \/ PrepareDone
           \/ RunPendingAgain \/ PendingAgainDone \/ CheckDone \/ IterationDone
           \/ uv_loop_close \/ Finished \/ FinishClose \/ UNCHANGED vars
  <2>1. UNCHANGED timerVars
    BY <1>6 DEF uv_stop, StartReq, FirstTimersRun, While, Return, Pending, CallbackReturns,
       PendingDone, Watcher, IdleDone, PrepareDone, RunPendingAgain, PendingAgainDone, CheckDone,
       IterationDone, uv_loop_close, Finished, FinishClose, vars, handleVars
  <2>2. UNCHANGED <<ready, timer_heap, timeout, start_id, time>>
    BY <2>1 DEF timerVars, timerTypeVars
  <2> QED BY <1>1, <2>2
<1>7. ASSUME UNCHANGED timerVars PROVE TimersInOrder'
  <2>1. UNCHANGED <<ready, timer_heap, timeout, start_id, time>>
    BY <1>7 DEF timerVars, timerTypeVars
  <2> QED BY <1>1, <2>1
<1> QED BY <1>2, <1>3, <1>4, <1>5, <1>6, <1>7
        DEF Next, User, UserTimer, UserWatcher, UserRef, LoopStep, TimerStep

\* timer.c, uv__run_timers: the timer that goes off is due, and is the first in order of all
\* that are armed, in the queue or in the heap: never early, and never before another
\* that was to go off sooner, whatever the callbacks before it started or stopped.
FiresTheFirst ==
  [][tpc = "fire" /\ tpc' = "cb" =>
       /\ timeout[Head(ready)] <= time
       /\ \A u \in Timers : (Linked(ready, u) \/ u \in timer_heap) /\ u # Head(ready)
                              => Less(Head(ready), u)]_timersVars

\* A loop starts with no timer armed.
LEMMA InOrderAtFirst == Init => TimersInOrder
<1> SUFFICES ASSUME Init PROVE TimersInOrder
  OBVIOUS
<1>1. ready = <<>> /\ Len(ready) = 0 /\ IsInjective(start_id) /\ start_id \in [Timers -> 1..Cardinality(Timers)]
  BY DEF Init, TimersInit, TimerInit
<1> QED BY <1>1 DEF TimersInOrder, InOrder, Ranked, IsInjective

\* What uv__run_timers calls is due, and comes before all that is still armed.
THEOREM TimersGoOffInOrder == Spec => FiresTheFirst
<1>2. LoopInv /\ TimersInOrder /\ [Next]_vars => TimersInOrder'
  BY OrderStep
<1>3. Spec => [](LoopInv /\ TimersInOrder)
  BY InOrderAtFirst, <1>2, LoopInvariant, PTL DEF Spec
<1>4. ASSUME LoopInv, TimersInOrder, [Next]_vars, tpc = "fire", tpc' = "cb"
      PROVE  /\ timeout[Head(ready)] <= time
             /\ \A u \in Timers : (Linked(ready, u) \/ u \in timer_heap) /\ u # Head(ready)
                                    => Less(Head(ready), u)
  <2>1. ready # <<>>
    BY <1>4 DEF Next, User, UserTimer, TimerUser, uv_timer_init, uv_timer_start, uv_timer_stop,
       uv_timer_again, uv_timer_set_repeat, UserWatcher, UserRef, uv_close, TimerClose, uv_stop,
       StartReq, LoopStep, Run, FirstTimersRun, While, Return, Pending, CallbackReturns, PendingDone,
       Watcher, IdleDone, PrepareDone, PollDone, RunPendingAgain, PendingAgainDone, CheckDone,
       FinishClose, ClosingDone, TimerStep, TimerPass, Collect, Collected, Fire,
       TimerCallbackReturns, TimersRun, IterationDone, PollEvent, uv_loop_close, Finished,
       vars, timerVars
  <2>2. /\ ready \in Seq(Timers) /\ Len(ready) \in Nat /\ Len(ready) > 0 /\ Head(ready) = ready[1]
        /\ InOrder(ready, timer_heap)
    BY <1>4, <2>1, LenProperties, EmptySeq DEF LoopInv, TimersPlaced, TimerTypeOK, TimersInOrder
  <2>3. ASSUME NEW u, Linked(ready, u), u # ready[1] PROVE Less(ready[1], u)
    <3>1. PICK i \in 1..Len(ready) : ready[i] = u
      BY <2>3 DEF Linked
    <3>2. 1 < i /\ 1 \in 1..Len(ready)
      BY <2>2, <2>3, <3>1
    <3> QED BY <2>2, <3>1, <3>2 DEF InOrder
  <2>4. 1 \in 1..Len(ready)
    BY <2>2
  <2>5. \A u \in timer_heap : Less(ready[1], u)
    BY <2>2, <2>4 DEF InOrder
  <2>6. timeout[ready[1]] <= time
    BY <2>2, <2>4 DEF InOrder
  <2> QED BY <2>2, <2>3, <2>5, <2>6
<1>5. LoopInv /\ TimersInOrder /\ [Next]_vars =>
        [tpc = "fire" /\ tpc' = "cb" =>
           /\ timeout[Head(ready)] <= time
           /\ \A u \in Timers : (Linked(ready, u) \/ u \in timer_heap) /\ u # Head(ready)
                                  => Less(Head(ready), u)]_timersVars
  BY <1>4
<1> QED BY <1>3, <1>5, PTL DEF Spec, FiresTheFirst

-----------------------------------------------------------------------------
(* timer.c implements the agenda.                                           *)

InOrderPairs == {p \in Timers \X Timers : Less(p[1], p[2])}
Order == ready \o HeapOrder

\* The ready queue and then the heap in its order are all armed timers in order.
OrderSound ==
  /\ StrictOrder(InOrderPairs, Timers)
  /\ Order \in Seq(Timers) /\ InOrderOf(InOrderPairs, Order)
  /\ \A u : Linked(Order, u) <=> Linked(ready, u) \/ u \in timer_heap

LEMMA LessIsOrder ==
  ASSUME TimerTypeOK, Ranked
  PROVE  /\ StrictOrder(InOrderPairs, Timers)
         /\ \A t, u \in Timers : <<t, u>> \in InOrderPairs <=> Less(t, u)
<1>1. \A t \in Timers : timeout[t] \in Int /\ start_id[t] \in Int
  BY TimesAssumption DEF TimerTypeOK
<1>2. \A t, u \in Timers : <<t, u>> \in InOrderPairs <=> Less(t, u)
  BY DEF InOrderPairs
<1>3. \A t \in Timers : ~Less(t, t)
  BY <1>1 DEF Less
<1>4. \A t, u, v \in Timers : Less(t, u) /\ Less(u, v) => Less(t, v)
  BY <1>1 DEF Less
<1>5. \A t, u \in Timers : t # u => Less(t, u) \/ Less(u, t)
  BY <1>1 DEF Less, Ranked
<1> QED BY <1>2, <1>3, <1>4, <1>5 DEF StrictOrder

LEMMA HeapOrderIs ==
  ASSUME TimerTypeOK, Ranked
  PROVE  /\ HeapOrder \in Seq(timer_heap) /\ InOrderOf(InOrderPairs, HeapOrder)
         /\ \A u : Linked(HeapOrder, u) <=> u \in timer_heap
<1> DEFINE n == Cardinality(timer_heap)
           F == [1..n -> timer_heap]
<1>1. timer_heap \in SUBSET Timers /\ IsFiniteSet(timer_heap)
  <2>1. IsFiniteSet(Timers)
    BY HandlesAssumption, TimersAssumption, FS_Subset
  <2> QED BY <2>1, FS_Subset DEF TimerTypeOK
<1>2. StrictOrder(InOrderPairs, timer_heap)
  BY <1>1, LessIsOrder DEF StrictOrder
<1>3. PICK s \in F : \A i, j \in 1..n : i < j => <<s[i], s[j]>> \in InOrderPairs
  BY <1>1, <1>2, SortedExists
<1>4. \A f \in F : \A i, j \in 1..n :
        Less(f[i], f[j]) <=> <<f[i], f[j]>> \in InOrderPairs
  BY <1>1, LessIsOrder
<1>5. \A i, j \in 1..n : i < j => Less(s[i], s[j])
  BY <1>3, <1>4
<1>6. HeapOrder \in F /\ \A i, j \in 1..n : i < j => Less(HeapOrder[i], HeapOrder[j])
  BY <1>5, Zenon DEF HeapOrder
<1>7. \A i, j \in 1..n : i < j => <<HeapOrder[i], HeapOrder[j]>> \in InOrderPairs
  BY <1>4, <1>6
<1> QED BY <1>1, <1>2, <1>6, <1>7, SortedCovers

LEMMA OrderIs == TimersPlaced /\ TimersInOrder => OrderSound
<1> SUFFICES ASSUME TimersPlaced, TimersInOrder PROVE OrderSound
  OBVIOUS
<1> DEFINE h == HeapOrder
           s == ready \o h
<1>0. /\ TimerTypeOK /\ Ranked /\ ready \in Seq(Timers) /\ Len(ready) \in Nat
      /\ \A i \in 1..Len(ready) : ready[i] \in Timers
  BY LenProperties, ElementOfSeq DEF TimersPlaced, TimerTypeOK, TimersInOrder
<1>1. /\ StrictOrder(InOrderPairs, Timers)
      /\ \A t, u \in Timers : <<t, u>> \in InOrderPairs <=> Less(t, u)
  BY <1>0, LessIsOrder
<1>2. /\ h \in Seq(Timers) /\ Len(h) \in Nat /\ InOrderOf(InOrderPairs, h)
      /\ \A i \in 1..Len(h) : h[i] \in timer_heap /\ h[i] \in Timers
      /\ \A u : Linked(h, u) <=> u \in timer_heap
  <2>1. /\ h \in Seq(timer_heap) /\ InOrderOf(InOrderPairs, h)
        /\ \A u : Linked(h, u) <=> u \in timer_heap
    BY <1>0, HeapOrderIs
  <2>2. timer_heap \subseteq Timers
    BY <1>0 DEF TimerTypeOK
  <2> HIDE DEF h
  <2>3. Len(h) \in Nat /\ \A i \in 1..Len(h) : h[i] \in timer_heap
    BY <2>1, LenProperties, ElementOfSeq
  <2>4. h \in Seq(Timers)
    BY <2>1, <2>2, <2>3, SeqDef, LenProperties
  <2> QED BY <2>1, <2>2, <2>3, <2>4
<1> HIDE DEF h
<1>3. /\ s \in Seq(Timers) /\ Len(s) = Len(ready) + Len(h)
      /\ \A i \in 1..Len(ready) + Len(h) : s[i] = IF i <= Len(ready) THEN ready[i] ELSE h[i - Len(ready)]
  BY <1>0, <1>2, ConcatProperties
<1> HIDE DEF s
<1>4. ASSUME NEW i \in 1..Len(s), NEW j \in 1..Len(s), i < j PROVE <<s[i], s[j]>> \in InOrderPairs
  <2>1. CASE j <= Len(ready)
    <3>1. i \in 1..Len(ready) /\ j \in 1..Len(ready) /\ s[i] = ready[i] /\ s[j] = ready[j]
      BY <1>0, <1>2, <1>3, <1>4, <2>1
    <3>2. Less(ready[i], ready[j])
      BY <1>4, <3>1 DEF TimersInOrder, InOrder
    <3> QED BY <1>0, <1>1, <3>1, <3>2
  <2>2. CASE i <= Len(ready) /\ j > Len(ready)
    <3>1. i \in 1..Len(ready) /\ j - Len(ready) \in 1..Len(h) /\ s[i] = ready[i] /\ s[j] = h[j - Len(ready)]
      BY <1>0, <1>2, <1>3, <1>4, <2>2
    <3>2. Less(ready[i], h[j - Len(ready)])
      BY <1>2, <3>1 DEF TimersInOrder, InOrder
    <3> QED BY <1>0, <1>1, <1>2, <3>1, <3>2
  <2>3. CASE i > Len(ready)
    <3>1. /\ i - Len(ready) \in 1..Len(h) /\ j - Len(ready) \in 1..Len(h)
          /\ i - Len(ready) < j - Len(ready)
          /\ s[i] = h[i - Len(ready)] /\ s[j] = h[j - Len(ready)]
      BY <1>0, <1>2, <1>3, <1>4, <2>3
    <3> QED BY <1>2, <3>1 DEF InOrderOf
  <2> QED BY <1>0, <1>2, <1>3, <2>1, <2>2, <2>3
<1>5. \A u : Linked(s, u) <=> Linked(ready, u) \/ Linked(h, u)
  <2>1. ASSUME NEW u, Linked(s, u) PROVE Linked(ready, u) \/ Linked(h, u)
    <3>1. PICK i \in 1..Len(s) : s[i] = u
      BY <2>1 DEF Linked
    <3>2. CASE i <= Len(ready)
      <4>1. i \in 1..Len(ready) /\ ready[i] = u
        BY <1>0, <1>2, <1>3, <3>1, <3>2
      <4> QED BY <4>1 DEF Linked
    <3>3. CASE ~(i <= Len(ready))
      <4>1. i - Len(ready) \in 1..Len(h) /\ h[i - Len(ready)] = u
        BY <1>0, <1>2, <1>3, <3>1, <3>3
      <4> QED BY <4>1 DEF Linked
    <3> QED BY <3>2, <3>3
  <2>2. ASSUME NEW u, Linked(ready, u) PROVE Linked(s, u)
    <3>1. PICK i \in 1..Len(ready) : ready[i] = u
      BY <2>2 DEF Linked
    <3>2. i \in 1..Len(s) /\ s[i] = u
      BY <1>0, <1>2, <1>3, <3>1
    <3> QED BY <3>2 DEF Linked
  <2>3. ASSUME NEW u, Linked(h, u) PROVE Linked(s, u)
    <3>1. PICK i \in 1..Len(h) : h[i] = u
      BY <2>3 DEF Linked
    <3>2. /\ Len(ready) + i \in 1..Len(s) /\ ~(Len(ready) + i <= Len(ready))
          /\ (Len(ready) + i) - Len(ready) = i
      BY <1>0, <1>2, <1>3
    <3>3. s[Len(ready) + i] = u
      BY <1>3, <3>1, <3>2
    <3> QED BY <3>2, <3>3 DEF Linked
  <2> QED BY <2>1, <2>2, <2>3
<1> QED BY <1>1, <1>2, <1>3, <1>4, <1>5 DEF OrderSound, InOrderOf, Order, s, h

\* A list of what is armed after a step, in the order of then, is the agenda.
LEMMA OrderUnique ==
  ASSUME OrderSound', NEW q \in Seq(Timers), InOrderOf(InOrderPairs', q),
         \A u : Linked(q, u) <=> Linked(ready', u) \/ u \in timer_heap'
  PROVE  Order' = q
<1>1. /\ StrictOrder(InOrderPairs', Timers) /\ Order' \in Seq(Timers)
      /\ InOrderOf(InOrderPairs', Order')
      /\ \A u : Linked(Order', u) <=> Linked(ready', u) \/ u \in timer_heap'
  BY DEF OrderSound
<1> QED BY <1>1, SortedUnique

LEMMA OrderSame ==
  ASSUME OrderSound, OrderSound', UNCHANGED <<timeout, start_id>>,
         \A u : Linked(ready', u) \/ u \in timer_heap' <=> Linked(ready, u) \/ u \in timer_heap
  PROVE  Order' = Order
<1>1. InOrderPairs' = InOrderPairs
  BY DEF InOrderPairs, Less
<1> QED BY <1>1, OrderUnique DEF OrderSound

\* What is left without t is in order still, whatever t's own time becomes.
LEMMA OrderWithout ==
  ASSUME OrderSound, NEW t \in Timers,
         \A u, v \in Timers : u # t /\ v # t /\ Less(u, v) => Less(u, v)'
  PROVE  /\ Unlink(Order, t) \in Seq(Timers) /\ InOrderOf(InOrderPairs', Unlink(Order, t))
         /\ \A u : Linked(Unlink(Order, t), u) <=> (Linked(ready, u) \/ u \in timer_heap) /\ u # t
<1> DEFINE q == Unlink(Order, t)
<1>1. /\ q \in Seq(Timers) /\ InOrderOf(InOrderPairs, q)
      /\ \A u : Linked(q, u) <=> Linked(Order, u) /\ u # t
  BY UnlinkSorted DEF OrderSound
<1> HIDE DEF q
<1>2. \A i \in 1..Len(q) : q[i] # t /\ q[i] \in Timers
  <2>1. \A i \in 1..Len(q) : Linked(q, q[i])
    BY DEF Linked
  <2> QED BY <1>1, <2>1, ElementOfSeq
<1>3. ASSUME NEW i \in 1..Len(q), NEW j \in 1..Len(q), i < j PROVE <<q[i], q[j]>> \in InOrderPairs'
  <2>1. SUFFICES ASSUME NEW u, NEW v, u = q[i], v = q[j] PROVE <<u, v>> \in InOrderPairs'
    OBVIOUS
  <2>2. u \in Timers /\ v \in Timers /\ u # t /\ v # t
    BY <1>2, <2>1
  <2>3. Less(u, v)
    BY <1>1, <1>3, <2>1 DEF InOrderOf, InOrderPairs
  <2>4. Less(u, v)'
    BY <2>2, <2>3
  <2> QED BY <2>2, <2>4 DEF InOrderPairs
<1> QED BY <1>1, <1>3 DEF InOrderOf, OrderSound, q

\* What the abstract module calls the same.
LEMMA ClockLists ==
  /\ \A q, n : Clock!Unlink(q, n) = Unlink(q, n)
  /\ \A q, n, k : Clock!InsertAt(q, k, n) = InsertAt(q, k, n)
<1>1. \A q, n : Clock!Unlink(q, n) = Unlink(q, n)
  BY DEF Clock!Unlink, Unlink, Clock!Linked, Linked, Clock!Position, Position, Clock!RemoveAt, RemoveAt
<1>2. ASSUME NEW q, NEW n, NEW k PROVE Clock!InsertAt(q, k, n) = InsertAt(q, k, n)
  BY DEF Clock!InsertAt, InsertAt
<1> QED BY <1>1, <1>2

LEMMA ClockWithout ==
  ASSUME NEW t
  PROVE  Clock!Without(t) = Unlink(Order, t)
BY ClockLists DEF Clock!Without, Order

\* A timer that is started enters the agenda behind those that are not later.
LEMMA OrderEntered ==
  ASSUME TimersPlaced, Ranked, OrderSound, OrderSound', TimerTypeOK', NEW t \in Timers,
         NEW to \in 0..MaxTime, NEW rp, Arm(t, to, rp), time' = time,
         \A u : Linked(ready', u) <=> Linked(ready, u) /\ u # t
  PROVE  Clock!Enter(t, to)
<1> DEFINE q == Unlink(Order, t)
           d == Clamped(to)
<1>1. /\ timer_heap' = (timer_heap \ {t}) \cup {t} /\ timer_heap \subseteq Timers
      /\ timeout' = [timeout EXCEPT ![t] = d] /\ d \in 0..MaxTime
      /\ \A u \in Timers : u # t => start_id'[u] < start_id'[t]
      /\ \A u, v \in Timers : u # t /\ v # t /\ Less(u, v) => Less(u, v)'
  BY ArmedIsLast
<1>2. d = Clock!In(to)
  <2>1. time \in 0..MaxTime
    BY DEF TimersPlaced, TimerTypeOK
  <2>2. d = IF time + to <= MaxTime THEN time + to ELSE MaxTime
    BY <2>1, ClampedIs
  <2>3. time \in Int /\ to \in Int /\ MaxTime \in Int
    BY <2>1, TimesAssumption
  <2> HIDE DEF d
  <2> QED BY <2>2, <2>3 DEF Clock!In
<1> HIDE DEF d
<1>3. /\ q \in Seq(Timers) /\ InOrderOf(InOrderPairs', q)
      /\ \A u : Linked(q, u) <=> (Linked(ready, u) \/ u \in timer_heap) /\ u # t
  BY <1>1, OrderWithout
<1>4. SUFFICES ASSUME NEW s, s = Order', NEW w, w = q, NEW R, R = InOrderPairs'
               PROVE  Clock!Enter(t, to)
  OBVIOUS
<1>5. /\ s \in Seq(Timers) /\ InOrderOf(R, s) /\ StrictOrder(R, Timers)
      /\ \A u : Linked(s, u) <=> Linked(ready', u) \/ u \in timer_heap'
  BY <1>4 DEF OrderSound
<1>6. /\ w \in Seq(Timers) /\ InOrderOf(R, w)
      /\ \A u : Linked(w, u) <=> (Linked(ready, u) \/ u \in timer_heap) /\ u # t
  BY <1>3, <1>4
<1>7. /\ Unlink(s, t) \in Seq(Timers) /\ InOrderOf(R, Unlink(s, t))
      /\ \A u : Linked(Unlink(s, t), u) <=> Linked(s, u) /\ u # t
  BY <1>5, UnlinkSorted
<1>8. Unlink(s, t) = w
  <2>1. \A u : Linked(Unlink(s, t), u) <=> Linked(w, u)
    BY <1>1, <1>5, <1>6, <1>7
  <2> QED BY <1>5, <1>6, <1>7, <2>1, SortedUnique
<1> DEFINE k == Position(s, t)
<1>9. /\ k \in 1..Len(s) /\ s[k] = t /\ Len(w) = Len(s) - 1 /\ Len(s) \in Nat
      /\ \A i \in 1..Len(s) - 1 : w[i] = IF i < k THEN s[i] ELSE s[i + 1]
      /\ InsertAt(w, k, t) = s
  <2>1. Linked(s, t)
    BY <1>1, <1>5
  <2> QED BY <1>5, <1>8, <2>1, UnlinkElements, InsertUnlinked, LenProperties
<1> HIDE DEF k
<1>10. ASSUME NEW i \in 1..Len(w) PROVE i < k <=> timeout[w[i]] <= d
  <2>1. w[i] \in Timers /\ w[i] # t
    <3>1. Linked(w, w[i])
      BY DEF Linked
    <3> QED BY <1>6, <3>1, ElementOfSeq
  <2>2. /\ timeout'[w[i]] = timeout[w[i]] /\ timeout'[t] = d
        /\ timeout[w[i]] \in Int /\ d \in Int /\ start_id'[w[i]] < start_id'[t]
        /\ start_id'[w[i]] \in Int /\ start_id'[t] \in Int
    BY <1>1, <2>1, TimesAssumption DEF TimersPlaced, TimerTypeOK
  <2>3. CASE i < k
    <3>1. w[i] = s[i] /\ i \in 1..Len(s)
      BY <1>9, <2>3
    <3>2. <<w[i], t>> \in InOrderPairs'
      BY <1>4, <1>5, <1>9, <2>3, <3>1 DEF InOrderOf
    <3>3. timeout'[w[i]] < timeout'[t] \/ timeout'[w[i]] = timeout'[t]
      BY <3>2 DEF InOrderPairs, Less
    <3> QED BY <2>2, <2>3, <3>3
  <2>4. CASE ~(i < k)
    <3>1. w[i] = s[i + 1] /\ i + 1 \in 1..Len(s) /\ k < i + 1
      BY <1>9, <2>4
    <3>2. <<t, w[i]>> \in InOrderPairs'
      BY <1>4, <1>5, <1>9, <3>1 DEF InOrderOf
    <3>3. \/ timeout'[t] < timeout'[w[i]]
          \/ timeout'[w[i]] = timeout'[t] /\ start_id'[t] < start_id'[w[i]]
      BY <3>2 DEF InOrderPairs, Less
    <3> QED BY <2>2, <2>4, <3>3
  <2> QED BY <2>3, <2>4
<1>11. k \in 1..Len(w) + 1
  BY <1>9
<1>12. Clock!Without(t) = w /\ (ready \o HeapOrder)' = s /\ Clock!InsertAt(w, k, t) = s
  BY <1>4, <1>9, ClockWithout, ClockLists DEF Order
<1> QED BY <1>1, <1>2, <1>10, <1>11, <1>12 DEF Clock!Enter

\* A timer that is taken out leaves the agenda.
LEMMA OrderOut ==
  ASSUME OrderSound, OrderSound', NEW t \in Timers,
         \A u, v \in Timers : u # t /\ v # t /\ Less(u, v) => Less(u, v)',
         \A u : Linked(ready', u) \/ u \in timer_heap' <=> (Linked(ready, u) \/ u \in timer_heap) /\ u # t
  PROVE  (ready \o HeapOrder)' = Clock!Without(t)
<1>1. /\ Unlink(Order, t) \in Seq(Timers) /\ InOrderOf(InOrderPairs', Unlink(Order, t))
      /\ \A u : Linked(Unlink(Order, t), u) <=> (Linked(ready, u) \/ u \in timer_heap) /\ u # t
  BY OrderWithout
<1>2. SUFFICES ASSUME NEW w, w = Unlink(Order, t) PROVE Order' = w
  BY ClockWithout DEF Order
<1> QED BY <1>1, <1>2, OrderUnique

\* What the agenda does not see.
AgendaState == <<time, ready \o HeapOrder, timeout, tpc = "cb">>
Silent == UNCHANGED AgendaState

LEMMA TimerUserOnAgenda ==
  ASSUME TimersPlaced, Owned, TimersInOrder, OrderSound, OrderSound', TimerTypeOK',
         NEW t \in Timers, TimerUser(t)
  PROVE  Clock!Next \/ Silent
<1>0. /\ TimerTypeOK /\ Ranked /\ Timeouts \subseteq 0..MaxTime /\ Repeats \subseteq 0..MaxTime
      /\ \A u : Linked(ReadyUnlinked(t), u) <=> Linked(ready, u) /\ u # t
      /\ HeapUnlinked(t) = timer_heap \ {t}
  BY TakenOut, TimesAssumption DEF TimersPlaced, TimersInOrder
<1>1. CASE uv_timer_init(t)
  <2>1. t \notin active /\ ~Linked(ready, t) /\ t \notin timer_heap
    BY <1>1 DEF uv_timer_init, HandleInit, Owned, NodeInOnePlace, TimersPlaced
  <2>2. UNCHANGED <<time, ready, timer_heap, start_id, tpc>> /\ timeout' = [timeout EXCEPT ![t] = 0]
    BY <1>1 DEF uv_timer_init
  <2>3. \A u, v \in Timers : u # t /\ v # t /\ Less(u, v) => Less(u, v)'
    BY <1>0, <2>2 DEF TimerTypeOK, Less
  <2>4. (ready \o HeapOrder)' = Clock!Without(t)
    BY <2>1, <2>2, <2>3, OrderOut
  <2> QED BY <2>2, <2>4 DEF Clock!Next, Clock!Clear
<1>2. ASSUME NEW to \in 0..MaxTime, NEW rp, Arm(t, to, rp), ready' = ReadyUnlinked(t),
             UNCHANGED <<time, tpc>>
      PROVE  Clock!Next
  <2>1. Clock!Enter(t, to)
    BY <1>0, <1>2, OrderEntered
  <2>2. Clock!Start(t, to)
    BY <1>2, <2>1 DEF Clock!Start
  <2> QED BY <2>2 DEF Clock!Next
<1>3. CASE uv_timer_stop(t)
  <2>1. /\ ready' = ReadyUnlinked(t) /\ timer_heap' = timer_heap \ {t}
        /\ UNCHANGED <<time, timeout, start_id, tpc>>
    BY <1>0, <1>3 DEF uv_timer_stop, timerTypeVars
  <2>2. \A u, v \in Timers : u # t /\ v # t /\ Less(u, v) => Less(u, v)'
    BY <2>1 DEF Less
  <2>3. (ready \o HeapOrder)' = Clock!Without(t)
    BY <1>0, <2>1, <2>2, OrderOut
  <2> QED BY <2>1, <2>3 DEF Clock!Next, Clock!Stop
<1>4. \A to \in Timeouts, rp \in Repeats :
        uv_timer_start(t, to, rp) => /\ to \in 0..MaxTime /\ Arm(t, to, rp)
                                     /\ ready' = ReadyUnlinked(t) /\ UNCHANGED <<time, tpc>>
  BY <1>0 DEF uv_timer_start
<1>5. uv_timer_again(t) => /\ repeat[t] \in 0..MaxTime /\ Arm(t, repeat[t], repeat[t])
                          /\ ready' = ReadyUnlinked(t) /\ UNCHANGED <<time, tpc>>
  BY <1>0 DEF uv_timer_again, TimerTypeOK
<1>6. ASSUME NEW rp \in Repeats, uv_timer_set_repeat(t, rp) PROVE Silent
  <2>1. UNCHANGED <<ready, timer_heap, timeout, start_id, time, tpc>>
    BY <1>6 DEF uv_timer_set_repeat
  <2>2. Order' = Order
    BY <2>1, OrderSame
  <2> QED BY <2>1, <2>2 DEF Silent, AgendaState, Order
<1> QED BY <1>1, <1>2, <1>3, <1>4, <1>5, <1>6 DEF TimerUser

\* The first of the ready queue is the first of the agenda.
LEMMA FireOnAgenda ==
  ASSUME TimersPlaced, TimersInOrder, OrderSound, OrderSound', TimerTypeOK', Fire
  PROVE  Clock!Next
<1> DEFINE t == Head(ready)
<1>0. /\ TimerTypeOK /\ Ranked /\ InOrder(ready, timer_heap) /\ ready \in Seq(Timers)
      /\ Distinct(ready) /\ ready # <<>> /\ Len(ready) \in Nat
      /\ \A u \in timer_heap : ~Linked(ready, u)
  BY LenProperties DEF TimersPlaced, TimerTypeOK, NodeInOnePlace, TimersInOrder, Fire
<1>1. /\ t \in Timers /\ t = ready[1] /\ Linked(ready, t) /\ Len(ready) > 0
      /\ \A u : Linked(Tail(ready), u) <=> Linked(ready, u) /\ u # t
  BY <1>0, TailDistinct, HeadTailProperties, EmptySeq
<1>2. /\ ready' = Tail(ready) /\ time' = time /\ tpc = "fire" /\ tpc' = "cb"
      /\ IF repeat[t] # 0 THEN Arm(t, repeat[t], repeat[t])
         ELSE UNCHANGED <<timer_heap, timeout, start_id>>
  BY DEF Fire, timerTypeVars
<1>3. repeat[t] \in 0..MaxTime /\ timeout[t] <= time
  <2>1. 1 \in 1..Len(ready)
    BY <1>0, <1>1
  <2> QED BY <1>0, <1>1, <2>1 DEF TimerTypeOK, InOrder
<1> HIDE DEF t
<1>4. Order # <<>> /\ t = Head(Order) /\ Order \in Seq(Timers) /\ Distinct(Order)
  <2> DEFINE h == HeapOrder
  <2>1. h \in Seq(Timers)
    <3>1. h \in Seq(timer_heap) /\ timer_heap \subseteq Timers
      BY <1>0, HeapOrderIs DEF TimerTypeOK
    <3> HIDE DEF h
    <3> QED BY <3>1, SeqDef, LenProperties, ElementOfSeq
  <2> HIDE DEF h
  <2>2. /\ ready \o h \in Seq(Timers) /\ Len(ready \o h) = Len(ready) + Len(h) /\ Len(h) \in Nat
        /\ \A i \in 1..Len(ready) + Len(h) : (ready \o h)[i] = IF i <= Len(ready) THEN ready[i] ELSE h[i - Len(ready)]
    BY <1>0, <2>1, ConcatProperties, LenProperties
  <2>3. Len(ready \o h) > 0 /\ (ready \o h)[1] = ready[1]
    BY <1>0, <1>1, <2>2
  <2>4. ready \o h # <<>> /\ Head(ready \o h) = ready[1]
    BY <2>2, <2>3, EmptySeq, HeadTailProperties
  <2>5. Distinct(Order)
    BY UnlinkSorted DEF OrderSound
  <2> QED BY <1>1, <2>2, <2>4, <2>5 DEF Order, h
<1>5. CASE repeat[t] # 0
  <2>1. Clock!Enter(t, repeat[t])
    BY <1>0, <1>1, <1>2, <1>3, <1>5, OrderEntered
  <2>2. Clock!GoOff(t)
    BY <1>2, <1>3, <1>4, <2>1 DEF Clock!GoOff, Order
  <2> QED BY <1>1, <2>2 DEF Clock!Next
<1>6. CASE repeat[t] = 0
  <2>1. InOrderPairs' = InOrderPairs /\ UNCHANGED <<timer_heap, timeout, start_id>>
    BY <1>2, <1>6 DEF InOrderPairs, Less
  <2>2. /\ Tail(Order) \in Seq(Timers)
        /\ \A u : Linked(Tail(Order), u) <=> Linked(Order, u) /\ u # t
    BY <1>4, TailDistinct
  <2>3. InOrderOf(InOrderPairs, Tail(Order))
    <3>1. /\ Len(Order) \in Nat /\ Len(Tail(Order)) = Len(Order) - 1
          /\ \A i \in 1..Len(Order) - 1 : Tail(Order)[i] = Order[i + 1]
      BY <1>4, HeadTailProperties, LenProperties
    <3>2. \A i \in 1..Len(Order) - 1 : i + 1 \in 1..Len(Order)
      BY <3>1
    <3>3. \A i, j \in 1..Len(Order) - 1 : i < j => i + 1 < j + 1
      BY <3>1
    <3>4. InOrderOf(InOrderPairs, Order)
      BY DEF OrderSound
    <3> QED BY <3>1, <3>2, <3>3, <3>4 DEF InOrderOf
  <2>4. \A u : Linked(Tail(Order), u) <=> Linked(ready', u) \/ u \in timer_heap'
    BY <1>0, <1>1, <1>2, <2>1, <2>2 DEF OrderSound
  <2>5. SUFFICES ASSUME NEW w, w = Tail(Order) PROVE Clock!Next
    OBVIOUS
  <2>6. Order' = w
    BY <2>1, <2>2, <2>3, <2>4, <2>5, OrderUnique
  <2>7. Clock!GoOff(t)
    BY <1>2, <1>3, <1>4, <2>1, <2>5, <2>6 DEF Clock!GoOff, Order
  <2> QED BY <1>1, <2>7 DEF Clock!Next
<1> QED BY <1>5, <1>6

LEMMA StepOnAgenda ==
  ASSUME LoopInv, TimersInOrder, OrderSound, OrderSound', TimerTypeOK', [Next]_vars
  PROVE  Clock!Next \/ Silent
<1>0. TimersPlaced /\ Owned /\ TimerTypeOK /\ Control /\ timer_heap \subseteq Timers
  BY DEF LoopInv, Handled, TimersPlaced, TimerTypeOK
<1>1. ASSUME UNCHANGED <<ready, timer_heap, timeout, start_id>>,
             time' \in time..MaxTime \/ time' = time, (tpc = "cb") = (tpc' = "cb")
      PROVE  Clock!Next \/ Silent
  <2>1. Order' = Order
    BY <1>1, OrderSame
  <2>2. CASE time' = time
    BY <1>1, <2>1, <2>2 DEF Silent, AgendaState, Order
  <2>3. CASE time' \in time..MaxTime
    BY <1>1, <2>1, <2>3 DEF Clock!Next, Clock!Tick, Order
  <2> QED BY <1>1, <2>2, <2>3
<1>2. ASSUME NEW t \in Timers, TimerUser(t) PROVE Clock!Next \/ Silent
  BY <1>0, <1>2, TimerUserOnAgenda
<1>3. CASE TimerPass
  <2>1. CASE Collect
    <3>1. /\ HeapMin \in timer_heap /\ HeapMin \in Timers /\ ready \in Seq(Timers)
      BY <1>0, <2>1, HeapMinIsLeast DEF Collect, Due, TimerTypeOK
    <3>2. /\ ready' = Append(ready, HeapMin) /\ timer_heap' = timer_heap \ {HeapMin}
          /\ UNCHANGED <<time, tpc, timeout, start_id>>
      BY <2>1 DEF Collect, timerTypeVars
    <3>3. \A u : Linked(ready', u) <=> Linked(ready, u) \/ u = HeapMin
      BY <3>1, <3>2, AppendDistinct
    <3>4. Order' = Order
      BY <3>1, <3>2, <3>3, OrderSame
    <3> QED BY <3>2, <3>4 DEF Silent, AgendaState, Order
  <2>2. CASE Fire
    BY <1>0, <2>2, FireOnAgenda
  <2>3. CASE Collected \/ TimersRun
    BY <1>1, <2>3 DEF Collected, TimersRun, timerTypeVars
  <2>4. CASE TimerCallbackReturns
    <3>1. UNCHANGED <<ready, timer_heap, timeout, start_id, time>> /\ tpc = "cb" /\ tpc' = "fire"
      BY <2>4 DEF TimerCallbackReturns, timerTypeVars
    <3>2. Order' = Order
      BY <3>1, OrderSame
    <3> QED BY <3>1, <3>2 DEF Clock!Next, Clock!Return, Order
  <2> QED BY <1>3, <2>1, <2>2, <2>3, <2>4 DEF TimerPass
<1>4. ASSUME NEW h \in Handles, uv_close(h) PROVE Clock!Next \/ Silent
  <2>1. CASE h \in Timers
    <3>1. /\ ready' = ReadyUnlinked(h) /\ timer_heap' = timer_heap \ {h}
          /\ UNCHANGED <<time, timeout, start_id, tpc>>
      BY <1>0, <1>4, <2>1, TakenOut DEF uv_close, TimerClose, timerTypeVars
    <3>2. \A u : Linked(ReadyUnlinked(h), u) <=> Linked(ready, u) /\ u # h
      BY <1>0, <2>1, TakenOut
    <3>3. \A u, v \in Timers : u # h /\ v # h /\ Less(u, v) => Less(u, v)'
      BY <3>1 DEF Less
    <3>4. (ready \o HeapOrder)' = Clock!Without(h)
      BY <2>1, <3>1, <3>2, <3>3, OrderOut
    <3> QED BY <2>1, <3>1, <3>4 DEF Clock!Next, Clock!Stop
  <2>2. CASE h \notin Timers
    BY <1>1, <1>4, <2>2 DEF uv_close, timerVars, timerTypeVars
  <2> QED BY <2>1, <2>2
<1>5. CASE Run \/ ClosingDone
  <2>1. UNCHANGED <<ready, timer_heap, timeout, start_id>> /\ (time' = time \/ UpdateTime)
    BY <1>5 DEF Run, ClosingDone, timerTypeVars
  <2>2. tpc # "cb" /\ tpc' # "cb"
    BY <1>0, <1>5 DEF Run, ClosingDone, Control
  <2> QED BY <1>1, <2>1, <2>2 DEF UpdateTime
<1>6. CASE PollEvent \/ PollDone
  <2>1. UNCHANGED <<ready, timer_heap, timeout, start_id, tpc>> /\ (time' = time \/ UpdateTime)
    BY <1>6 DEF PollEvent, PollDone, timerTypeVars
  <2> QED BY <1>1, <2>1 DEF UpdateTime
<1>7. ASSUME UNCHANGED timerVars PROVE Clock!Next \/ Silent
  <2>1. UNCHANGED <<ready, timer_heap, timeout, start_id, time, tpc>>
    BY <1>7 DEF timerVars, timerTypeVars
  <2> QED BY <1>1, <2>1
<1>8. CASE \/ uv_stop \/ (\E q \in Reqs : StartReq(q)) \/ FirstTimersRun \/ While \/ Return
           \/ Pending \/ CallbackReturns \/ PendingDone \/ Watcher \/ IdleDone \/ PrepareDone
           \/ RunPendingAgain \/ PendingAgainDone \/ CheckDone \/ IterationDone
           \/ uv_loop_close \/ Finished \/ FinishClose \/ UNCHANGED vars
  <2>1. UNCHANGED timerVars
    BY <1>8 DEF uv_stop, StartReq, FirstTimersRun, While, Return, Pending, CallbackReturns,
       PendingDone, Watcher, IdleDone, PrepareDone, RunPendingAgain, PendingAgainDone, CheckDone,
       IterationDone, uv_loop_close, Finished, FinishClose, vars, handleVars
  <2> QED BY <1>7, <2>1
<1> QED BY <1>2, <1>3, <1>4, <1>5, <1>6, <1>7, <1>8
        DEF Next, User, UserTimer, UserWatcher, UserRef, LoopStep, TimerStep

\* timer.c, with heap, ready queue and 64-bit arithmetic, in the loop and with
\* callbacks that do anything, implements the agenda: each step is one of an
\* abstract timer's or changes nothing that the user can tell.
THEOREM TimersImplementAgenda == Spec => ImplementsAgenda
<1>1. Init => Clock!Init
  <2> SUFFICES ASSUME Init PROVE Clock!Init
    OBVIOUS
  <2>1. OrderSound
    BY LoopInit, InOrderAtFirst, OrderIs DEF LoopInv
  <2>2. /\ time \in 0..MaxTime /\ ready = <<>> /\ timer_heap = {}
        /\ timeout = [t \in Timers |-> 0] /\ tpc = "out"
    BY DEF Init, TimerInit
  <2>3. \A u : ~Linked(Order, u)
    BY <2>1, <2>2, EmptyLinksNothing DEF OrderSound
  <2>4. Order = <<>>
    BY <2>1, <2>3, EmptyOrLinked DEF OrderSound
  <2> QED BY <2>2, <2>4 DEF Clock!Init, Order
<1>2. LoopInv /\ TimersInOrder /\ [Next]_vars => LoopInv' /\ TimersInOrder'
  BY LoopStepInv, OrderStep
<1>3. LoopInv /\ TimersInOrder => OrderSound /\ TimerTypeOK
  BY OrderIs DEF LoopInv, TimersPlaced
<1>4. LoopInv /\ TimersInOrder /\ OrderSound /\ OrderSound' /\ TimerTypeOK' /\ [Next]_vars
        => [Clock!Next]_AgendaState
  BY StepOnAgenda DEF Silent
<1>5. [][Clock!Next]_AgendaState => [][Clock!Next]_Clock!vars
  <2>1. Clock!vars = AgendaState /\ Clock!vars' = AgendaState'
    BY DEF Clock!vars, AgendaState
  <2>2. [Clock!Next]_AgendaState => [Clock!Next]_Clock!vars
    BY <2>1
  <2> QED BY <2>2, PTL
<1> QED BY <1>1, <1>2, <1>3, <1>4, <1>5, LoopInit, InOrderAtFirst, PTL
        DEF Spec, ImplementsAgenda, Clock!Spec
====
