---------------------------------- MODULE Sync ----------------------------------
(***************************************************************************)
(* Barriers and semaphores where the system has none that can be used: a   *)
(* mutex, a condition variable and counters.                               *)
(*                                                                         *)
(* uv_barrier_t (thread-common.c): a thread may come back while the        *)
(* threads of its last round are still leaving, and one thread destroys    *)
(* the barrier as soon as its own wait has returned.                       *)
(***************************************************************************)
EXTENDS Integers, FiniteSets, FiniteSetTheorems, TLAPS

CONSTANTS
  Members,    \* the threads that use the barrier
  threshold   \* b->threshold, how many make a round

ASSUME BarrierAssumption ==
  /\ IsFiniteSet(Members) /\ threshold \in Nat \ {0}

VARIABLES
  in, out,    \* b->in and b->out
  wait_at,    \* where each thread is: "idle", "gate" and "round", the two loops of
              \* uv_barrier_wait, "drain", that of uv_barrier_destroy, or "gone"
  woken,      \* those of them that were signalled, or woke for no reason
  destroying, \* a thread has called uv_barrier_destroy; nobody waits anew
  freed,      \* the memory of the barrier
  gathered,   \* history: the threads of the round that forms
  leaving     \* history: those of the full round that have not left yet

barrierVars == <<in, out, wait_at, woken, destroying, freed, gathered, leaving>>

BarrierInit ==
  /\ in = 0 /\ out = 0
  /\ wait_at = [t \in Members |-> "idle"] /\ woken = {}
  /\ destroying = FALSE /\ freed = FALSE
  /\ gathered = {} /\ leaving = {}

Asleep == {t \in Members : wait_at[t] \in {"gate", "round", "drain"}} \ woken

-----------------------------------------------------------------------------
(* uv_barrier_wait.  One action is what a thread does with the mutex held,  *)
(* from taking it to giving it up, in uv_cond_wait or at the end.           *)

\* uv_cond_wait
Waits(t, place) ==
  /\ wait_at' = [wait_at EXCEPT ![t] = place]
  /\ woken' = woken \ {t}

\* The wait returns; with a broadcast before.
Returns(t, broadcast) ==
  /\ wait_at' = [wait_at EXCEPT ![t] = "idle"]
  /\ woken' = (IF broadcast THEN woken \cup Asleep ELSE woken) \ {t}

\* The thread that completes the round broadcasts, and is the first to leave.
Arrives(t) ==
  IF in + 1 = threshold
    THEN /\ in' = 0 /\ out' = threshold - 1
         /\ gathered' = {} /\ leaving' = gathered
         /\ Returns(t, TRUE)
    ELSE /\ in' = in + 1 /\ gathered' = gathered \cup {t}
         /\ Waits(t, "round")
         /\ UNCHANGED <<out, leaving>>

\* A mutant: no gate.
NoGate(t) == Arrives(t)

AtGate(t) ==
  IF out # 0 THEN Waits(t, "gate") /\ UNCHANGED <<in, out, gathered, leaving>>
             ELSE Arrives(t)

uv_barrier_wait(t) ==
  /\ wait_at[t] = "idle" /\ ~destroying
  /\ AtGate(t)
  /\ UNCHANGED <<destroying, freed>>

\* uv_cond_wait returns, in the first loop,
GateOpens(t) ==
  /\ wait_at[t] = "gate" /\ t \in woken
  /\ AtGate(t)
  /\ UNCHANGED <<destroying, freed>>

\* --b->out; the last one broadcasts to those who wait for the next round.
Leaves(t) == out' = out - 1 /\ Returns(t, out = 1)

\* and in the second one.
RoundEnds(t) ==
  /\ wait_at[t] = "round" /\ t \in woken
  /\ IF in # 0 THEN Waits(t, "round") /\ UNCHANGED <<out, leaving>>
     ELSE Leaves(t) /\ leaving' = leaving \ {t}
  /\ UNCHANGED <<in, gathered, destroying, freed>>

Spurious(t) ==
  /\ t \in Asleep
  /\ woken' = woken \cup {t}
  /\ UNCHANGED <<in, out, wait_at, destroying, freed, gathered, leaving>>

-----------------------------------------------------------------------------
(* uv_barrier_destroy                                                       *)

Drained(t) ==
  IF out # 0 THEN Waits(t, "drain") /\ UNCHANGED freed
             ELSE Waits(t, "gone") /\ freed' = TRUE

\* The user's contract: nobody waits for a round that will not be full.
uv_barrier_destroy(t) ==
  /\ wait_at[t] = "idle" /\ ~destroying
  /\ in = 0 /\ \A u \in Members : wait_at[u] # "gate"
  /\ destroying' = TRUE
  /\ Drained(t)
  /\ UNCHANGED <<in, out, gathered, leaving>>

DrainWakes(t) ==
  /\ wait_at[t] = "drain" /\ t \in woken
  /\ Drained(t)
  /\ UNCHANGED <<in, out, destroying, gathered, leaving>>

BarrierOver == freed /\ UNCHANGED barrierVars

BarrierStep(t) == GateOpens(t) \/ RoundEnds(t) \/ DrainWakes(t)

BarrierNext ==
  \/ BarrierOver
  \/ \E t \in Members : BarrierStep(t) \/ uv_barrier_wait(t) \/ uv_barrier_destroy(t) \/ Spurious(t)

BarrierSpec == BarrierInit /\ [][BarrierNext]_barrierVars

-----------------------------------------------------------------------------
(* Properties *)

\* Rounds do not mix, however slowly a thread wakes: no round forms while one
\* leaves, and a thread leaves only with the others of its round.  The last one
\* out, to which 1 is returned, is the last of the round.
RoundsAreWhole ==
  /\ in = Cardinality(gathered) /\ out = Cardinality(leaving)
  /\ in = 0 \/ out = 0
  /\ {t \in Members : wait_at[t] = "round"} = gathered \cup leaving

\* The barrier is destroyed only when nobody is inside.
NobodyInside == freed => \A t \in Members : wait_at[t] \in {"idle", "gone"}

\* A full round leaves, and if enough threads are there a round gets full; the
\* one that destroys the barrier comes back, too.
RoundsComplete ==
  /\ \A t \in Members : []<>(t \notin leaving)
  /\ []<>(Cardinality(gathered \cup {t \in Members : wait_at[t] = "gate"}) < threshold \/ out # 0)
  /\ []<>(~destroying \/ freed)

\* What a barrier promises at any time.
BarrierSafe == RoundsAreWhole /\ NobodyInside

-----------------------------------------------------------------------------
(***************************************************************************)
(* uv_sem_t (unix/thread.c): a count.                                      *)
(***************************************************************************)

CONSTANTS
  SemThreads,  \* the threads that use it
  SemWaiters,  \* a bound: those that are in uv_sem_wait at a time
  MaxPosts     \* a bound: the value

ASSUME SemaphoreAssumption == SemWaiters \in Nat \ {0} /\ MaxPosts \in Nat \ {0}

VARIABLES
  sem_value,   \* sem->value
  sem_waits,   \* the threads in uv_cond_wait,
  sem_woken    \* and those of them that were signalled, or woke for no reason

semVars == <<sem_value, sem_waits, sem_woken>>

\* uv_sem_init with any value
SemInit == sem_value \in 0..MaxPosts /\ sem_waits = {} /\ sem_woken = {}

\* The mutant signals when there was something before.
SignalsLate == sem_value = 1

SignalsOne == sem_value + 1 = 1

\* uv_cond_signal wakes one of them, if there is one.
uv__custom_sem_post ==
  /\ sem_value < MaxPosts
  /\ sem_value' = sem_value + 1
  /\ LET asleep == sem_waits \ sem_woken
     IN IF SignalsOne /\ asleep # {} THEN \E t \in asleep : sem_woken' = sem_woken \cup {t}
                                     ELSE UNCHANGED sem_woken
  /\ UNCHANGED sem_waits

\* With the mutex held: the loop of uv__custom_sem_wait.
TakesOrWaits(t) ==
  /\ IF sem_value = 0 THEN sem_waits' = sem_waits \cup {t} /\ UNCHANGED sem_value
                      ELSE sem_waits' = sem_waits \ {t} /\ sem_value' = sem_value - 1
  /\ sem_woken' = sem_woken \ {t}

uv__custom_sem_wait(t) ==
  /\ t \notin sem_waits /\ Cardinality(sem_waits) < SemWaiters
  /\ TakesOrWaits(t)

CondWaitReturns(t) == t \in sem_woken /\ TakesOrWaits(t)

\* It changes nothing if another thread has the mutex, or the value is 0.
uv__custom_sem_trywait ==
  /\ sem_value > 0
  /\ sem_value' = sem_value - 1
  /\ UNCHANGED <<sem_waits, sem_woken>>

WakesUp(t) ==
  /\ t \in sem_waits \ sem_woken
  /\ sem_woken' = sem_woken \cup {t}
  /\ UNCHANGED <<sem_value, sem_waits>>

SemNext ==
  \/ uv__custom_sem_post \/ uv__custom_sem_trywait
  \/ \E t \in SemThreads : uv__custom_sem_wait(t) \/ CondWaitReturns(t) \/ WakesUp(t)

SemSpec == SemInit /\ [][SemNext]_semVars

-----------------------------------------------------------------------------
(* Properties *)

\* A semaphore: no thread sleeps in uv_sem_wait while the value is positive, unless
\* one that was woken is about to take it.
NobodySleepsInVain == sem_value > 0 /\ sem_waits # {} => sem_woken # {}

\* So a thread does not wait for ever while the value stays positive.
WaitsEnd == \A t \in SemThreads : []<>(sem_value = 0 \/ t \notin sem_waits)

-----------------------------------------------------------------------------
(* Safety of both, for any threads and any threshold.                      *)

BarrierTypes ==
  /\ in \in Nat /\ out \in Nat
  /\ wait_at \in [Members -> {"idle", "gate", "round", "drain", "gone"}]
  /\ woken \subseteq Members
  /\ destroying \in BOOLEAN /\ freed \in BOOLEAN
  /\ gathered \subseteq Members /\ leaving \subseteq Members

\* From the call of uv_barrier_destroy no round forms; one thread is in it, and
\* when it has freed the barrier the last round has left.
DestroyedByOne ==
  /\ destroying => in = 0 /\ \A t \in Members : wait_at[t] # "gate"
  /\ ~destroying => \A t \in Members : wait_at[t] \notin {"drain", "gone"}
  /\ \A t, u \in Members :
       wait_at[t] \in {"drain", "gone"} /\ wait_at[u] \in {"drain", "gone"} => t = u
  /\ freed => destroying /\ out = 0 /\ \A t \in Members : wait_at[t] # "drain"

\* The inductive invariant.
BarrierInv == BarrierTypes /\ RoundsAreWhole /\ DestroyedByOne

LEMMA RoundsFinite ==
  ASSUME BarrierTypes
  PROVE  IsFiniteSet(gathered) /\ IsFiniteSet(leaving)
BY BarrierAssumption, FS_Subset DEF BarrierTypes

\* A count of zero is an empty round.
LEMMA EmptyRounds ==
  ASSUME BarrierTypes, RoundsAreWhole
  PROVE  (in = 0 <=> gathered = {}) /\ (out = 0 <=> leaving = {})
BY RoundsFinite, FS_EmptySet DEF RoundsAreWhole

LEMMA BarrierStarts == BarrierInit => BarrierInv
<1> SUFFICES ASSUME BarrierInit PROVE BarrierInv
  OBVIOUS
<1>1. BarrierTypes /\ DestroyedByOne
  BY DEF BarrierInit, BarrierTypes, DestroyedByOne
<1>2. RoundsAreWhole
  BY FS_EmptySet DEF BarrierInit, RoundsAreWhole
<1> QED BY <1>1, <1>2 DEF BarrierInv

\* A thread that arrives, at once or through the gate, joins the round that forms,
\* or completes it.
LEMMA GateStep ==
  ASSUME BarrierInv, NEW t \in Members, wait_at[t] \in {"idle", "gate"}, ~destroying,
         AtGate(t), UNCHANGED <<destroying, freed>>
  PROVE  BarrierInv'
<1> USE DEF BarrierInv, Waits, Returns
<1>1. t \notin gathered \cup leaving
  BY DEF RoundsAreWhole
<1>2. CASE out # 0
  <2>1. /\ wait_at' = [wait_at EXCEPT ![t] = "gate"] /\ woken' = woken \ {t}
        /\ UNCHANGED <<in, out, gathered, leaving>>
    BY <1>2 DEF AtGate
  <2>2. BarrierTypes'
    BY <2>1 DEF BarrierTypes
  <2>3. RoundsAreWhole'
    BY <1>1, <2>1 DEF RoundsAreWhole, BarrierTypes
  <2>4. DestroyedByOne'
    BY <2>1 DEF DestroyedByOne, BarrierTypes
  <2> QED BY <2>2, <2>3, <2>4
<1>3. CASE out = 0 /\ in + 1 = threshold
  <2>1. /\ in' = 0 /\ out' = threshold - 1 /\ gathered' = {} /\ leaving' = gathered
        /\ wait_at' = [wait_at EXCEPT ![t] = "idle"]
        /\ woken' = (woken \cup Asleep) \ {t}
    BY <1>3 DEF AtGate, Arrives
  <2>2. leaving = {} /\ out' = Cardinality(gathered)
    BY <1>3, <2>1, EmptyRounds DEF RoundsAreWhole, BarrierTypes
  <2>3. BarrierTypes'
    BY <2>1, BarrierAssumption DEF BarrierTypes, Asleep
  <2>4. RoundsAreWhole'
    <3>1. {u \in Members : wait_at'[u] = "round"} = {u \in Members : wait_at[u] = "round"}
      BY <2>1 DEF BarrierTypes
    <3> QED BY <2>1, <2>2, <3>1, FS_EmptySet DEF RoundsAreWhole
  <2>5. DestroyedByOne'
    BY <2>1 DEF DestroyedByOne, BarrierTypes
  <2> QED BY <2>3, <2>4, <2>5
<1>4. CASE out = 0 /\ in + 1 # threshold
  <2>1. /\ in' = in + 1 /\ gathered' = gathered \cup {t}
        /\ wait_at' = [wait_at EXCEPT ![t] = "round"] /\ woken' = woken \ {t}
        /\ UNCHANGED <<out, leaving>>
    BY <1>4 DEF AtGate, Arrives
  <2>2. BarrierTypes'
    BY <2>1 DEF BarrierTypes
  <2>3. RoundsAreWhole'
    <3>1. in' = Cardinality(gathered')
      BY <1>1, <2>1, RoundsFinite, FS_AddElement DEF RoundsAreWhole
    <3>2. {u \in Members : wait_at'[u] = "round"} = gathered' \cup leaving'
      BY <2>1 DEF RoundsAreWhole, BarrierTypes
    <3> QED BY <1>4, <2>1, <3>1, <3>2 DEF RoundsAreWhole
  <2>4. DestroyedByOne'
    BY <1>4, <2>1 DEF DestroyedByOne, BarrierTypes
  <2> QED BY <2>2, <2>3, <2>4
<1> QED BY <1>2, <1>3, <1>4

\* A thread of the round wakes: the round is not full, or it leaves with the others.
LEMMA RoundStep ==
  ASSUME BarrierInv, NEW t \in Members, RoundEnds(t)
  PROVE  BarrierInv'
<1> USE DEF BarrierInv, Waits, Returns
<1>0. wait_at[t] = "round" /\ UNCHANGED <<in, gathered, destroying, freed>>
  BY DEF RoundEnds
<1>1. CASE in # 0
  <2>1. /\ wait_at' = [wait_at EXCEPT ![t] = "round"] /\ woken' = woken \ {t}
        /\ UNCHANGED <<out, leaving>>
    BY <1>1 DEF RoundEnds
  <2>2. wait_at' = wait_at
    BY <1>0, <2>1 DEF BarrierTypes
  <2> QED BY <1>0, <2>1, <2>2 DEF BarrierTypes, RoundsAreWhole, DestroyedByOne
<1>2. CASE in = 0
  <2>1. /\ out' = out - 1 /\ leaving' = leaving \ {t}
        /\ wait_at' = [wait_at EXCEPT ![t] = "idle"]
        /\ woken' \subseteq (woken \cup Asleep) \ {t}
    BY <1>2 DEF RoundEnds, Leaves
  <2>2. t \in leaving /\ gathered = {}
    BY <1>0, <1>2, EmptyRounds DEF RoundsAreWhole
  <2>3. out' = Cardinality(leaving') /\ out # 0 /\ out' \in Nat
    <3>1. IsFiniteSet(leaving) /\ IsFiniteSet(leaving \ {t})
      BY RoundsFinite, FS_RemoveElement
    <3>2. Cardinality(leaving \ {t}) = Cardinality(leaving) - 1
      BY <2>2, <3>1, FS_RemoveElement
    <3>3. Cardinality(leaving \ {t}) \in Nat
      BY <3>1, FS_CardinalityType
    <3> QED BY <2>1, <2>2, <3>2, <3>3, EmptyRounds DEF RoundsAreWhole
  <2>4. BarrierTypes'
    BY <1>0, <2>1, <2>3 DEF BarrierTypes, Asleep
  <2>5. RoundsAreWhole'
    <3>1. {u \in Members : wait_at'[u] = "round"} = gathered' \cup leaving'
      BY <1>0, <2>1, <2>2 DEF RoundsAreWhole, BarrierTypes
    <3> QED BY <1>0, <1>2, <2>3, <3>1 DEF RoundsAreWhole
  <2>6. DestroyedByOne'
    BY <1>0, <2>1, <2>3 DEF DestroyedByOne, BarrierTypes
  <2> QED BY <2>4, <2>5, <2>6
<1> QED BY <1>1, <1>2 DEF BarrierTypes

\* uv_barrier_destroy, at its call or when it wakes.
LEMMA DestroyStep ==
  ASSUME BarrierInv, NEW t \in Members, uv_barrier_destroy(t) \/ DrainWakes(t)
  PROVE  BarrierInv'
<1> USE DEF BarrierInv, Waits, uv_barrier_destroy, DrainWakes
<1>1. /\ UNCHANGED <<in, out, gathered, leaving>>
      /\ wait_at[t] \in {"idle", "drain"} /\ woken' = woken \ {t}
      /\ destroying' = TRUE
      /\ in = 0 /\ \A u \in Members : wait_at[u] # "gate"
      /\ \A u \in Members : wait_at[u] \in {"drain", "gone"} => u = t
  BY DEF Drained, DestroyedByOne, BarrierTypes
<1>2. \/ out # 0 /\ wait_at' = [wait_at EXCEPT ![t] = "drain"] /\ freed' = freed
      \/ out = 0 /\ wait_at' = [wait_at EXCEPT ![t] = "gone"] /\ freed' = TRUE
  BY DEF Drained
<1>3. BarrierTypes'
  BY <1>1, <1>2 DEF BarrierTypes
<1>4. RoundsAreWhole'
  <2>1. {u \in Members : wait_at'[u] = "round"} = {u \in Members : wait_at[u] = "round"}
    BY <1>1, <1>2 DEF BarrierTypes
  <2> QED BY <1>1, <2>1 DEF RoundsAreWhole
<1>5. DestroyedByOne'
  BY <1>1, <1>2 DEF DestroyedByOne, BarrierTypes
<1> QED BY <1>3, <1>4, <1>5

LEMMA BarrierInductive == BarrierInv /\ [BarrierNext]_barrierVars => BarrierInv'
<1> SUFFICES ASSUME BarrierInv, [BarrierNext]_barrierVars PROVE BarrierInv'
  OBVIOUS
<1>1. ASSUME NEW t \in Members, uv_barrier_wait(t) PROVE BarrierInv'
  BY <1>1, GateStep DEF uv_barrier_wait
<1>2. ASSUME NEW t \in Members, GateOpens(t) PROVE BarrierInv'
  <2>1. ~destroying
    BY <1>2 DEF GateOpens, BarrierInv, DestroyedByOne
  <2> QED BY <1>2, <2>1, GateStep DEF GateOpens
<1>3. ASSUME NEW t \in Members, RoundEnds(t) PROVE BarrierInv'
  BY <1>3, RoundStep
<1>4. ASSUME NEW t \in Members, uv_barrier_destroy(t) \/ DrainWakes(t) PROVE BarrierInv'
  BY <1>4, DestroyStep
<1>5. ASSUME NEW t \in Members, Spurious(t) PROVE BarrierInv'
  BY <1>5 DEF Spurious, BarrierInv, BarrierTypes, RoundsAreWhole, DestroyedByOne, Asleep
<1>6. CASE UNCHANGED barrierVars
  BY <1>6 DEF barrierVars, BarrierInv, BarrierTypes, RoundsAreWhole, DestroyedByOne
<1> QED
  BY <1>1, <1>2, <1>3, <1>4, <1>5, <1>6 DEF BarrierNext, BarrierStep, BarrierOver

\* Rounds of uv_barrier_wait do not mix, and uv_barrier_destroy frees the barrier only
\* when nobody is inside: for every number of threads, and every threshold.
THEOREM BarrierIsSafe == BarrierSpec => []BarrierSafe
<1>1. BarrierInv => BarrierSafe
  <2> SUFFICES ASSUME BarrierInv, freed, NEW t \in Members
               PROVE  wait_at[t] \in {"idle", "gone"}
    BY DEF BarrierSafe, NobodyInside, BarrierInv
  <2>1. gathered = {} /\ leaving = {}
    BY EmptyRounds DEF BarrierInv, DestroyedByOne
  <2> QED BY <2>1 DEF BarrierInv, BarrierTypes, RoundsAreWhole, DestroyedByOne
<1> QED BY BarrierStarts, BarrierInductive, <1>1, PTL DEF BarrierSpec

-----------------------------------------------------------------------------
(* The semaphore, for one waiter at a time.                                 *)

SemTypes == sem_value \in Nat /\ sem_waits \subseteq SemThreads /\ sem_woken \subseteq sem_waits

\* At most one thread is in uv_cond_wait.
OneWaits == \A t, u \in sem_waits : t = u

SemInv == SemTypes /\ OneWaits /\ NobodySleepsInVain

\* uv_sem_wait is entered when nobody waits.
LEMMA FirstWaiter ==
  ASSUME SemWaiters = 1, SemInv, NEW t \in SemThreads, uv__custom_sem_wait(t)
  PROVE  sem_waits = {}
<1>1. IsFiniteSet(sem_waits)
  <2>1. CASE sem_waits = {}
    BY <2>1, FS_EmptySet
  <2>2. CASE sem_waits # {}
    <3>1. PICK u \in sem_waits : TRUE
      BY <2>2
    <3>2. sem_waits = {u}
      BY DEF SemInv, OneWaits
    <3> QED BY <3>2, FS_Singleton
  <2> QED BY <2>1, <2>2
<1>2. Cardinality(sem_waits) \in Nat /\ Cardinality(sem_waits) < 1
  BY <1>1, FS_CardinalityType DEF uv__custom_sem_wait
<1> QED BY <1>1, <1>2, FS_EmptySet

LEMMA SemStep ==
  ASSUME SemWaiters = 1, SemInv, [SemNext]_semVars
  PROVE  SemInv'
<1> USE DEF SemInv, SemTypes, OneWaits, NobodySleepsInVain
<1>1. CASE uv__custom_sem_post
  <2>1. CASE SignalsOne /\ sem_waits \ sem_woken # {}
    <3>1. PICK t \in sem_waits \ sem_woken : sem_woken' = sem_woken \cup {t}
      BY <1>1, <2>1 DEF uv__custom_sem_post
    <3> QED BY <1>1, <3>1 DEF uv__custom_sem_post
  <2>2. CASE ~SignalsOne
    BY <1>1, <2>2 DEF uv__custom_sem_post, SignalsOne
  <2>3. CASE sem_waits \ sem_woken = {}
    BY <1>1, <2>3 DEF uv__custom_sem_post
  <2> QED BY <2>1, <2>2, <2>3
<1>2. CASE uv__custom_sem_trywait
  BY <1>2 DEF uv__custom_sem_trywait
<1>3. ASSUME NEW t \in SemThreads, uv__custom_sem_wait(t) PROVE SemInv'
  <2>1. sem_waits = {} /\ sem_woken = {}
    BY <1>3, FirstWaiter
  <2> QED BY <1>3, <2>1 DEF uv__custom_sem_wait, TakesOrWaits
<1>4. ASSUME NEW t \in SemThreads, CondWaitReturns(t) PROVE SemInv'
  BY <1>4 DEF CondWaitReturns, TakesOrWaits
<1>5. ASSUME NEW t \in SemThreads, WakesUp(t) PROVE SemInv'
  BY <1>5 DEF WakesUp
<1>6. CASE UNCHANGED semVars
  BY <1>6 DEF semVars
<1> QED BY <1>1, <1>2, <1>3, <1>4, <1>5, <1>6 DEF SemNext

\* With one waiter at a time a thread in uv_sem_wait never sleeps while the value is
\* positive, whatever posts, tries and spurious wakeups come in between.
THEOREM OneWaiterIsWoken ==
  ASSUME SemWaiters = 1
  PROVE  SemSpec => []NobodySleepsInVain
<1>1. SemInit => SemInv
  BY SemaphoreAssumption DEF SemInit, SemInv, SemTypes, OneWaits, NobodySleepsInVain
<1>2. SemInv /\ [SemNext]_semVars => SemInv'
  BY SemStep
<1>3. SemInv => NobodySleepsInVain
  BY DEF SemInv
<1> QED BY <1>1, <1>2, <1>3, PTL DEF SemSpec
=============================================================================
