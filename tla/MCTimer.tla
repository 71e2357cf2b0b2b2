------------------------------- MODULE MCTimer -------------------------------
(****************************************************************************)
(* Timers, their heap, conversions of texts, and the spawning of processes, *)
(* for TLC. A behaviour is about one of the components, its scene.          *)
(****************************************************************************)
EXTENDS Timer, Heap, Names, Spawn, TLC

CONSTANTS t1, t2, t3, s1, s2

\* Timers differ only in what is done with them.
Symmetry == Permutations(Timers)

\* 0, 1, f12, 25, colons, a point, the name of a scope, "1:2:3:", "1.2.3."
TextPieces ==
  {<<0>>, <<1>>, <<15, 1, 2>>, <<2, 5>>, <<COLON>>, <<COLON, COLON>>, <<POINT>>, <<PERCENT>>,
   <<1, COLON, 2, COLON, 3, COLON>>, <<1, POINT, 2, POINT, 3, POINT>>}

VARIABLE scene   \* the component this behaviour is about; the others stand still

sceneVars == <<scene, timersVars, heapVars, textVars, inetVars, spawnVars>>

SceneInit ==
  /\ scene \in {"timers", "heap", "text", "inet", "spawn"}
  /\ TimersInit
  /\ (scene # "timers" => time = 0)
  /\ HeapInit
  /\ TextInit
  /\ (scene # "text" => form = "bytes")
  /\ InetInit
  /\ (scene # "inet" => what = "text")
  /\ SpawnInit
  /\ (scene # "spawn" => stdio = <<>> /\ way = "fork" /\ open_before = CHOOSE t \in OpenTables : TRUE)

Alone(s) ==
  /\ scene = s /\ UNCHANGED scene
  /\ (s # "timers" => UNCHANGED timersVars)
  /\ (s # "heap" => UNCHANGED heapVars)
  /\ (s # "text" => UNCHANGED textVars)
  /\ (s # "inet" => UNCHANGED inetVars)
  /\ (s # "spawn" => UNCHANGED spawnVars)

SceneNext ==
  \/ Alone("timers") /\ TimerNext
  \/ Alone("heap") /\ HeapNext
  \/ Alone("text") /\ TextNext
  \/ Alone("inet") /\ InetNext
  \/ Alone("spawn") /\ SpawnNext

SceneSpec == SceneInit /\ [][SceneNext]_sceneVars
=============================================================================
