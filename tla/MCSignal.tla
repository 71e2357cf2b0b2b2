------------------------------- MODULE MCSignal -------------------------------
(****************************************************************************)
(* Signals and processes for TLC. A behaviour is about one of the           *)
(* components, its scene. Of the signal handles a and b belong to one loop, *)
(* c to another.                                                            *)
(****************************************************************************)
EXTENDS Signal, Process

CONSTANTS a, b, c, l1, l2, usr1, usr2, p1, p2

HomeLoop == [h \in Handles |-> IF h = c THEN l2 ELSE l1]

VARIABLE scene   \* the component this behaviour is about; the others stand still

sceneVars == <<scene, vars, processVars>>

SceneInit ==
  /\ scene \in {"signal", "process"}
  /\ Init
  /\ ProcessInit
  /\ (scene # "process" => sigchld)

Alone(s) ==
  /\ scene = s /\ UNCHANGED scene
  /\ (s # "signal" => UNCHANGED vars)
  /\ (s # "process" => UNCHANGED processVars)

SceneNext ==
  \/ Alone("signal") /\ Next
  \/ Alone("process") /\ ProcessNext

\* In the scene of signal: threads run, the lock is given to whoever waits
\* for it, and the loops turn.
\* In the scene of process: the loop runs and exit callbacks return.
SceneFairness ==
  /\ WF_vars(scene = "signal" /\ HandlerStep)
  /\ WF_processVars(scene = "process" /\ (ProcessLoop \/ ExitCbEnds))
  /\ SF_vars(scene = "signal" /\ EventStep(l1))
  /\ SF_vars(scene = "signal" /\ EventStep(l2))
  /\ SF_vars(scene = "signal" /\ FinishClose(a))
  /\ SF_vars(scene = "signal" /\ FinishClose(c))

SceneSpec == SceneInit /\ [][SceneNext]_sceneVars /\ SceneFairness

-----------------------------------------------------------------------------
(* Properties *)

\* Signals reach their loops and closed handles are given back, although the
\* handler counts after it writes; children that end are reported, although
\* one SIGCHLD may stand for several of them.
SceneProgress == SignalsDrain /\ ExitsAreReported
=============================================================================
