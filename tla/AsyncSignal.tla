------------------------------ MODULE AsyncSignal ------------------------------
(***************************************************************************)
(* What uv_async_send promises: sends to a handle coalesce into a signal,  *)
(* and each callback consumes one.  No callback without a send since the   *)
(* last one, none for a handle that is not open.                           *)
(***************************************************************************)
CONSTANTS Handles, None

VARIABLES open, signalled, running

vars == <<open, signalled, running>>

Init == open \subseteq Handles /\ signalled = {} /\ running = None

Open(h) == h \notin open /\ open' = open \cup {h} /\ UNCHANGED <<signalled, running>>

Send(h) == h \in open /\ signalled' = signalled \cup {h} /\ UNCHANGED <<open, running>>

\* Callbacks run one at a time.
Callback(h) == /\ running = None /\ h \in signalled
               /\ running' = h /\ signalled' = signalled \ {h} /\ UNCHANGED open

Return == running # None /\ running' = None /\ UNCHANGED <<open, signalled>>

Close(h) == /\ h \in open
            /\ open' = open \ {h} /\ signalled' = signalled \ {h} /\ UNCHANGED running

\* fork discards what the parent's threads had sent.
Discard == signalled' = {} /\ UNCHANGED <<open, running>>

Next == Return \/ Discard \/ \E h \in Handles : Open(h) \/ Send(h) \/ Callback(h) \/ Close(h)

Spec == Init /\ [][Next]_vars
=============================================================================
