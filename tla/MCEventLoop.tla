----------------------------- MODULE MCEventLoop -----------------------------
(****************************************************************************)
(* The event loop, and pipes of Windows, for TLC. A behaviour is about one  *)
(* of the components, its scene.                                            *)
(****************************************************************************)
EXTENDS EventLoop, WinPipe

CONSTANTS t1, i1, i2, p1, c1, q1

\* Kinds of the loop watchers, by name.
Kind == [h \in Watchers |-> IF h \in {i1, i2} THEN "idle"
                            ELSE IF h = p1 THEN "prepare" ELSE "check"]

\* A pipe that is read and written by threads, and an overlapped one with frames.
Modes == {<<"threads", FALSE>>, <<"overlapped", TRUE>>}
Frames == <<[socket |-> TRUE, len |-> 1]>>

VARIABLE scene   \* the component this behaviour is about; the others stand still

sceneVars == <<scene, vars, winPipeVars>>

SceneInit ==
  /\ scene \in {"loop", "win_pipe"}
  /\ Init
  /\ (scene # "loop" => time = 0)
  /\ WinPipeInit
  /\ (scene # "win_pipe" => pipe_kind = "threads" /\ "readable" \in pipe_flags)

Alone(s) ==
  /\ scene = s /\ UNCHANGED scene
  /\ (s # "loop" => UNCHANGED vars)
  /\ (s # "win_pipe" => UNCHANGED winPipeVars)

SceneNext ==
  \/ Alone("loop") /\ Next
  \/ Alone("win_pipe") /\ WinPipeNext

\* In the scene of loop: the loop's thread goes on, callbacks return, the
\* user calls uv_run again and again, the clock advances, and one call of
\* uv__io_poll handles a bounded number of events.
\* In the scene of win_pipe: the loop and the threads run, operations end
\* once they can, and the other end sends all it has.
SceneFairness ==
  /\ WF_vars(scene = "loop" /\ LoopStep)
  /\ WF_vars(scene = "loop" /\ Run)
  /\ WF_winPipeVars(scene = "win_pipe" /\ PipeLoop)
  /\ WF_winPipeVars(scene = "win_pipe" /\ Reader)
  /\ WF_winPipeVars(scene = "win_pipe" /\ (KernelWrites \/ FlushEnds \/ PeerSends))
  /\ SF_vars(scene = "loop" /\ PollDone)
  /\ SF_vars(scene = "loop" /\ (PollDone /\ time' > time))

SceneSpec == SceneInit /\ [][SceneNext]_sceneVars /\ SceneFairness
=============================================================================
