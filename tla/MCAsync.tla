------------------------------- MODULE MCAsync -------------------------------
(****************************************************************************)
(* Async handles, file copies, fsevents and UDP handles, barriers and       *)
(* semaphores for TLC. A behaviour is about one of the components, its      *)
(* scene.                                                                   *)
(****************************************************************************)
EXTENDS Async, FsCopy, FsEvents, Udp, Sync

CONSTANTS h1, wq, th, t2, loop, w1, w2, r1, r2

VARIABLE scene   \* the component this behaviour is about; the others stand still

sceneVars == <<scene, vars, fsCopyVars, fsEventsVars, udpVars, barrierVars, semVars>>

SceneInit ==
  /\ scene \in {"async", "fs_copy", "fsevents", "udp", "barrier", "semaphore"}
  /\ Init
  /\ FsCopyInit
  /\ (scene # "fs_copy" => exists /\ ~setting.same /\ setting = CHOOSE s \in Settings : ~s.same)
  /\ FsEventsInit
  /\ UdpInit
  /\ (scene # "udp" => recvmmsg)
  /\ BarrierInit
  /\ SemInit
  /\ (scene # "semaphore" => sem_value = 0)

Alone(s) ==
  /\ scene = s /\ UNCHANGED scene
  /\ (s # "async" => UNCHANGED vars)
  /\ (s # "fs_copy" => UNCHANGED fsCopyVars)
  /\ (s # "fsevents" => UNCHANGED fsEventsVars)
  /\ (s # "udp" => UNCHANGED udpVars)
  /\ (s # "barrier" => UNCHANGED barrierVars)
  /\ (s # "semaphore" => UNCHANGED semVars)

SceneNext ==
  \/ Alone("async") /\ Next
  \/ Alone("fs_copy") /\ FsCopyNext
  \/ Alone("fsevents") /\ FsEventsNext
  \/ Alone("udp") /\ UdpNext
  \/ Alone("barrier") /\ BarrierNext
  \/ Alone("semaphore") /\ SemNext

\* In the scene of async: threads run; the loop's thread goes back to poll
\* (IoRead) again and again.
\* In the scene of fsevents: both threads run, callbacks return and handles
\* hear of their events.
\* In the scene of udp: the loop goes on, each turn runs what was fed and
\* finishes what is closing, and a socket that is writable again and again
\* takes all datagrams at last.
\* In the scene of barrier: threads that were woken go on.
\* In the scene of semaphore: threads that were signalled go on.
\* A behaviour has one scene: a disjunction over scenes gives to each the
\* strong fairness of its own disjunct.
SceneFairness ==
  /\ \A s \in Senders : WF_vars(scene = "async" /\ SendStep(s))
  /\ WF_vars(scene = "async" /\ LoopStep)
  /\ WF_fsEventsVars(scene = "fsevents" /\ CfThread)
  /\ WF_fsEventsVars(scene = "fsevents" /\ FsLoopThread)
  /\ WF_udpVars(scene = "udp" /\ UdpLoop)
  /\ \A t \in Members : WF_barrierVars(scene = "barrier" /\ BarrierStep(t))
  /\ \A t \in SemThreads : WF_semVars(scene = "semaphore" /\ CondWaitReturns(t))
  /\ SF_sceneVars(\/ Alone("async") /\ IoRead
                  \/ Alone("fsevents") /\ FsCallbackEnds
                  \/ Alone("udp") /\ UdpRunPending)
  /\ SF_sceneVars(\/ Alone("fsevents") /\ uv__fsevents_cb(w1)
                  \/ Alone("udp") /\ uv__udp_finish_close)
  /\ SF_sceneVars(\/ Alone("fsevents") /\ uv__fsevents_cb(w2)
                  \/ Alone("udp") /\ (UdpPollEvent({"out"}) \/ UdpPollEvent({"in", "out"})))
  /\ SF_sceneVars(Alone("udp") /\ uv__udp_sendmsg /\ udp_queue' = <<>>)

SceneSpec == SceneInit /\ [][SceneNext]_sceneVars /\ SceneFairness

-----------------------------------------------------------------------------
(* Properties *)

\* What was begun ends, in each component: a send reaches its callback, and the
\* spin of uv_close the end of the sends it waits for; the loop does not wait
\* for the CoreFoundation thread for ever, nor an event for its handle; every
\* datagram is sent or given up; every round of a barrier ends, and a waiter
\* of a semaphore goes on if the posts suffice.
SceneProgress ==
  /\ SendReachesCallback /\ SpinTerminates
  /\ FsEventsGoOn
  /\ SendsComplete /\ NoStarvation
  /\ RoundsComplete /\ WaitsEnd
=============================================================================
