-------------------------------- MODULE Handle --------------------------------
(***************************************************************************)
(* The handle bookkeeping every component shares: the flags ACTIVE, REF,   *)
(* CLOSING and CLOSED, and the loop's count of active referenced handles,  *)
(* which keeps uv_run alive (uv-common.h).                                 *)
(***************************************************************************)
EXTENDS Integers, FiniteSets

CONSTANT Handles

ASSUME HandlesAssumption == IsFiniteSet(Handles)

VARIABLES
  life,           \* "none" before uv__handle_init, "open", "closing", "closed"
  active,         \* the handles flagged UV_HANDLE_ACTIVE
  ref,            \* the handles flagged UV_HANDLE_REF
  active_handles  \* loop->active_handles

handleVars == <<life, active, ref, active_handles>>

NoHandles ==
  /\ life = [h \in Handles |-> "none"]
  /\ active = {}
  /\ ref = {}
  /\ active_handles = 0

\* uv__is_closing.
IsClosing(h) == life[h] \in {"closing", "closed"}

\* uv__handle_init, of new memory or of a handle whose close callback ran.
HandleInit(h) ==
  /\ life[h] \in {"none", "closed"}
  /\ life' = [life EXCEPT ![h] = "open"]
  /\ active' = active \ {h}
  /\ ref' = ref \cup {h}
  /\ UNCHANGED active_handles

\* uv__handle_start and uv__handle_stop.
Started(h) == active_handles + (IF h \in ref \ active THEN 1 ELSE 0)

HandleStart(h) ==
  /\ active' = active \cup {h}
  /\ active_handles' = Started(h)

Stopped(h) == active_handles - (IF h \in ref \cap active THEN 1 ELSE 0)

HandleStop(h) ==
  /\ active' = active \ {h}
  /\ active_handles' = Stopped(h)

\* uv__handle_ref and uv__handle_unref: a closing handle is not counted.
HandleRef(h) ==
  /\ ref' = ref \cup {h}
  /\ active_handles' = active_handles +
       (IF h \in active \ ref /\ ~IsClosing(h) THEN 1 ELSE 0)

HandleUnref(h) ==
  /\ ref' = ref \ {h}
  /\ active_handles' = active_handles -
       (IF h \in active \cap ref /\ ~IsClosing(h) THEN 1 ELSE 0)

-----------------------------------------------------------------------------
HandleTypeOK ==
  /\ life \in [Handles -> {"none", "open", "closing", "closed"}]
  /\ active \subseteq Handles
  /\ ref \subseteq Handles
  /\ active_handles \in Nat

\* active_handles is exactly the number of handles that are active and
\* referenced, whatever the order of start, stop, ref, unref and close: one
\* too many keeps uv_run from ever returning, one too few ends it early.
ActiveCount == active_handles = Cardinality(active \cap ref)
=============================================================================
