------------------------------- MODULE MCStream -------------------------------
(****************************************************************************)
(* Streams, and the descriptors they accept, for TLC. A behaviour is about  *)
(* one of the components, its scene.                                        *)
(****************************************************************************)
EXTENDS Stream, Listener

CONSTANTS w1, w2, w3

VARIABLE scene   \* the component this behaviour is about; the others stand still

sceneVars == <<scene, vars, listenVars>>

SceneInit ==
  /\ scene \in {"stream", "listener"}
  /\ Init
  /\ (scene # "stream" => sys = "up")
  /\ ListenerInit
  /\ (scene # "listener" => server_kind = "ipc")

Alone(s) ==
  /\ scene = s /\ UNCHANGED scene
  /\ (s # "stream" => UNCHANGED vars)
  /\ (s # "listener" => UNCHANGED listenVars)

SceneNext ==
  \/ Alone("stream") /\ Next
  \/ Alone("listener") /\ ListenerNext

\* Callbacks return, each turn of the loop runs what was fed and the closing
\* handles, and reports a writable socket that was asked for; the kernel
\* comes to an answer on a connection, and a socket that is written to again
\* and again takes some bytes or fails.
SceneFairness ==
  /\ WF_vars(scene = "stream" /\ StreamStep)
  /\ WF_vars(scene = "stream" /\ Kernel)
  /\ SF_vars(scene = "stream" /\ ((\E n \in 1..Max(Lengths) : WriteSent(n)) \/ WriteError))
  /\ SF_vars(scene = "stream" /\ RunPending)
  /\ SF_vars(scene = "stream" /\ StreamDestroy)
  /\ SF_vars(scene = "stream" /\ PollEvent({"out"}))

SceneSpec == SceneInit /\ [][SceneNext]_sceneVars /\ SceneFairness
=============================================================================
