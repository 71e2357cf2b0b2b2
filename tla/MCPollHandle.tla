----------------------------- MODULE MCPollHandle -----------------------------
(****************************************************************************)
(* Poll handles, the epoll submission ring, and the loop and poll handles   *)
(* of Windows, for TLC. A behaviour is about one of the components, its     *)
(* scene.                                                                   *)
(****************************************************************************)
EXTENDS PollHandle, EpollRing, WinLoop, WinPoll

CONSTANTS p1, p2, s1, ha, h1, qa, q1, q2

\* The request of the async handle of Windows, and two of the other handle.
WinHandleOf == [k \in WinReqs |-> IF k = qa THEN ha ELSE h1]

VARIABLE scene   \* the component this behaviour is about; the others stand still

sceneVars == <<scene, vars, epollRingVars, winLoopVars, winPollVars>>

SceneInit ==
  /\ scene \in {"poll", "epoll_ring", "win_loop", "win_poll"}
  /\ Init
  /\ EpollRingInit
  /\ WinLoopInit
  /\ WinPollInit
  /\ (scene # "win_poll" => slow)

Alone(s) ==
  /\ scene = s /\ UNCHANGED scene
  /\ (s # "poll" => UNCHANGED vars)
  /\ (s # "epoll_ring" => UNCHANGED epollRingVars)
  /\ (s # "win_loop" => UNCHANGED winLoopVars)
  /\ (s # "win_poll" => UNCHANGED winPollVars)

SceneNext ==
  \/ Alone("poll") /\ Next
  \/ Alone("epoll_ring") /\ EpollRingNext
  \/ Alone("win_loop") /\ WinLoopNext
  \/ Alone("win_poll") /\ WinPollNext

\* In the scene of win_loop: the loop runs and operations end.
\* In the scene of win_poll: the loop runs; each request comes to an end if
\* it can.
SceneFairness ==
  /\ WF_winLoopVars(scene = "win_loop" /\ WinLoopStep)
  /\ \A q \in WinReqs : WF_winLoopVars(scene = "win_loop" /\ KernelDone(q))
  /\ WF_winPollVars(scene = "win_poll" /\ PollLoop)
  /\ \A k \in PollReqs : WF_winPollVars(scene = "win_poll" /\ (KernelAnswers(k) \/ ThreadStarts(k) \/ ThreadEnds(k)))

SceneSpec == SceneInit /\ [][SceneNext]_sceneVars /\ SceneFairness

-----------------------------------------------------------------------------
(* Properties *)

\* The loop of Windows keeps its promise: its lists lose no request and a
\* closing handle is closed; and so is a poll handle, which tells what stays
\* true.
SceneProgress == WinLoopPromise /\ PollProgress
=============================================================================
