--------------------------------- MODULE Spawn ---------------------------------
(***************************************************************************)
(* uv_spawn on Unix (unix/process.c), from what the user asks for the      *)
(* child's descriptors to the child that runs: pipes are made, the child   *)
(* moves descriptors into their places, by itself after fork or by the     *)
(* file actions of posix_spawn on macOS, and the parent opens its ends as  *)
(* streams.  A file is an open file description.  Any call may fail, and   *)
(* numbers may run out.  Users, directories and signals are left out.      *)
(***************************************************************************)
EXTENDS Integers, Sequences, FiniteSets

CONSTANTS
  LastFd,       \* a bound: numbers are 0..LastFd
  Pipes,        \* the user's pipe handles
  InUse,        \* those of them that are connected already
  Inheritable,  \* numbers the user may ask to inherit
  MaxStdio,     \* a bound: options->stdio_count
  OpenTables    \* which numbers may be open before

ASSUME SpawnAssumption ==
  /\ LastFd \in Nat /\ MaxStdio \in Nat /\ InUse \subseteq Pipes /\ Inheritable \subseteq 0..(LastFd + 1)
  /\ OpenTables \subseteq SUBSET (0..LastFd)

VARIABLES
  way,            \* "posix_spawn" or "fork"
  stdio,          \* options->stdio
  open_before,    \* what was open
  files,          \* the parent's descriptors: numbers to files
  pipes,          \* for each slot the number of the parent's end and of the child's, or -1
  stream_fd,      \* the number of each pipe handle, or -1
  spawn_at,       \* where the parent is
  slot,           \* and at which slot
  signal_pipe,    \* the numbers of the pipe that tells of a failure
  exec_errorno, spawn_result,
  spawn_active,    \* the handle was activated
  child,          \* the child's descriptors
  cloexec,        \* those of them that exec closes
  child_pipes,    \* its copy of pipes
  child_at, child_slot,
  told,           \* the errno in signal_pipe, or 0
  nonblocking,    \* files in that mode
  misclosed,      \* history: the parent closed a number that was not its to close,
  ScanSkips       \* and FirstUnused missed the number of slot 0

parentVars == <<files, pipes, stream_fd, spawn_at, slot, signal_pipe, exec_errorno, spawn_result, spawn_active,
                misclosed, ScanSkips>>
childVars == <<child, cloexec, child_pipes, child_at, child_slot, told>>
spawnVars == <<way, stdio, open_before, nonblocking, parentVars, childVars>>

ERROR == -1

NotOpen == LastFd + 1

\* A stream that is to be inherited may have no descriptor: -1.
Containers ==
  [kind : {"ignore"}, of : {0}] \cup [kind : {"pipe"}, of : Pipes] \cup [kind : {"inherit"}, of : Inheritable \cup {-1}]

Old(n) == <<"old", n>>
End(i, side) == <<"end", i, side>>
SignalEnd(side) == <<"signal", side>>
DevNull == <<"null", 0>>

stdio_count == IF Len(stdio) < 3 THEN 3 ELSE Len(stdio)
Slots == 0..(stdio_count - 1)

SpawnInit ==
  /\ way \in {"posix_spawn", "fork"}
  /\ stdio \in UNION {[1..n -> Containers] : n \in 0..MaxStdio}
  /\ open_before \in OpenTables
  /\ \A i \in 1..Len(stdio) : stdio[i].kind = "inherit" => stdio[i].of \in open_before \cup {-1, NotOpen}
  /\ files = [n \in open_before |-> Old(n)]
  /\ pipes = [i \in Slots |-> <<-1, -1>>]
  /\ stream_fd = [s \in Pipes |-> IF s \in InUse THEN NotOpen ELSE -1]
  /\ spawn_at = "init_stdio" /\ slot = 0 /\ signal_pipe = <<-1, -1>>
  /\ exec_errorno = 0 /\ spawn_result = 0 /\ spawn_active = FALSE /\ misclosed = FALSE /\ ScanSkips = FALSE
  /\ child = <<>> /\ cloexec = {} /\ child_pipes = <<>> /\ child_at = "none" /\ child_slot = 0 /\ told = 0
  /\ nonblocking = {Old(n) : n \in open_before \cap (3..LastFd)}

-----------------------------------------------------------------------------
(* Descriptors                                                              *)

\* The least free number from n on.
Free(t, n) == {k \in n..LastFd : k \notin DOMAIN t /\ \A j \in n..(k - 1) : j \in DOMAIN t}

With(t, n, f) == [k \in DOMAIN t \cup {n} |-> IF k = n THEN f ELSE t[k]]
Without(t, ns) == [k \in DOMAIN t \ ns |-> t[k]]

\* What a slot asks for: a file, or none.
Asked(i) ==
  IF i >= Len(stdio) THEN {}
  ELSE CASE stdio[i + 1].kind = "ignore"  -> {}
         [] stdio[i + 1].kind = "pipe"    -> {End(i, 1)}
         [] stdio[i + 1].kind = "inherit" -> {Old(stdio[i + 1].of)}

SpawnError(at, err) ==
  /\ spawn_at' = at /\ exec_errorno' = (IF at = "open" THEN err ELSE exec_errorno)
  /\ spawn_result' = err /\ slot' = 0

-----------------------------------------------------------------------------
(* The parent                                                               *)

\* uv__process_init_stdio
InitStdio ==
  /\ spawn_at = "init_stdio" /\ slot < Len(stdio)
  /\ LET c == stdio[slot + 1]
     IN \/ /\ c.kind = "ignore"
           /\ slot' = slot + 1 /\ UNCHANGED <<files, pipes, spawn_at, exec_errorno, spawn_result>>
        \/ /\ c.kind = "inherit" /\ c.of # -1
           /\ pipes' = [pipes EXCEPT ![slot] = <<-1, c.of>>] /\ slot' = slot + 1
           /\ UNCHANGED <<files, spawn_at, exec_errorno, spawn_result>>
        \/ /\ c.kind = "pipe"
           /\ \E a \in Free(files, 0) : \E b \in Free(With(files, a, End(slot, 0)), 0) :
                /\ files' = With(With(files, a, End(slot, 0)), b, End(slot, 1))
                /\ pipes' = [pipes EXCEPT ![slot] = <<a, b>>]
           /\ slot' = slot + 1 /\ UNCHANGED <<spawn_at, exec_errorno, spawn_result>>
        \/ /\ c.kind = "pipe" \/ c.of = -1
           /\ SpawnError("undo", ERROR) /\ UNCHANGED <<files, pipes>>
  /\ UNCHANGED <<way, stdio, open_before, nonblocking, childVars, stream_fd, signal_pipe, spawn_active, misclosed,
                 ScanSkips>>

\* uv__spawn_and_init_child: the system may lack what posix_spawn needs.
ChooseWay ==
  /\ spawn_at = "init_stdio" /\ slot = Len(stdio)
  /\ spawn_at' \in IF way = "fork" THEN {"make_pipe"} ELSE {"file_actions", "make_pipe"}
  /\ UNCHANGED <<way, stdio, open_before, nonblocking, childVars, files, pipes, stream_fd, slot, signal_pipe,
                 exec_errorno, spawn_result, spawn_active, misclosed, ScanSkips>>

MakePipe ==
  /\ spawn_at = "make_pipe"
  /\ \/ /\ \E a \in Free(files, 0) : \E b \in Free(With(files, a, SignalEnd(0)), 0) :
             /\ files' = With(With(files, a, SignalEnd(0)), b, SignalEnd(1))
             /\ signal_pipe' = <<a, b>>
        /\ spawn_at' = "fork" /\ UNCHANGED <<exec_errorno, spawn_result, slot>>
     \/ SpawnError("open", ERROR) /\ UNCHANGED <<files, signal_pipe>>
  /\ UNCHANGED <<way, stdio, open_before, nonblocking, childVars, pipes, stream_fd, spawn_active, misclosed, ScanSkips>>

\* uv__spawn_and_init_child_fork; the parent closes its end for writing.
SpawnFork ==
  /\ spawn_at = "fork"
  /\ \/ /\ child' = files /\ cloexec' = {n \in DOMAIN files : files[n][1] # "old"}
        /\ child_pipes' = pipes /\ child_at' = "low" /\ child_slot' = 0
        /\ files' = Without(files, {signal_pipe[2]}) /\ spawn_at' = "read_result"
        /\ UNCHANGED <<slot, exec_errorno, spawn_result>>
     \/ /\ SpawnError("open", ERROR)
        /\ files' = Without(files, {signal_pipe[1], signal_pipe[2]})
        /\ UNCHANGED <<child, cloexec, child_pipes, child_at, child_slot>>
  /\ UNCHANGED <<way, stdio, open_before, nonblocking, told, pipes, stream_fd, signal_pipe, spawn_active, misclosed,
                 ScanSkips>>

\* The parent reads an errno and reaps the child, or the end of the file.
ReadResult ==
  /\ spawn_at = "read_result"
  /\ \/ told # 0 /\ child_at' = "reaped" /\ exec_errorno' = told /\ spawn_result' = told /\ UNCHANGED spawn_active
     \/ /\ told = 0 /\ \A n \in DOMAIN child : child[n] # SignalEnd(1)
        /\ spawn_active' = TRUE /\ UNCHANGED <<child_at, exec_errorno, spawn_result>>
  /\ files' = Without(files, {signal_pipe[1]}) /\ spawn_at' = "open" /\ slot' = 0
  /\ UNCHANGED <<way, stdio, open_before, nonblocking, child, cloexec, child_pipes, child_slot, told, pipes, stream_fd,
                 signal_pipe, misclosed, ScanSkips>>

\* uv__process_open_stream
IsPipe(i) == i < Len(stdio) /\ stdio[i + 1].kind = "pipe"

\* uv__stream_close of what was opened in the slots before i: not of 0, 1 and 2
StreamNumbers(i) == {stream_fd[stdio[j + 1].of] : j \in {k \in 0..(i - 1) : IsPipe(k)}} \ {-1}

OpenStream ==
  /\ spawn_at = "open" /\ slot < Len(stdio)
  /\ IF ~IsPipe(slot)
     THEN slot' = slot + 1 /\ UNCHANGED <<files, pipes, stream_fd, nonblocking, misclosed, spawn_at, spawn_result>>
     ELSE LET s == stdio[slot + 1].of
              near == pipes[slot][1]
              far == pipes[slot][2]
              here == Without(files, {far})
              opened == StreamNumbers(slot)
          IN /\ pipes' = [pipes EXCEPT ![slot][2] = -1]
             /\ nonblocking' = nonblocking \cup {End(slot, 0)}
             /\ misclosed' = (misclosed \/ far \notin DOMAIN files \/ files[far] # End(slot, 1))
             /\ IF stream_fd[s] \in {-1, near}
                THEN /\ stream_fd' = [stream_fd EXCEPT ![s] = near] /\ files' = here
                     /\ slot' = slot + 1 /\ UNCHANGED <<spawn_at, spawn_result>>
                ELSE /\ files' = Without(here, opened \cap 3..LastFd)
                     /\ stream_fd' = [p \in Pipes |-> IF \E j \in 0..(slot - 1) : IsPipe(j) /\ stdio[j + 1].of = p
                                                      THEN -1 ELSE stream_fd[p]]
                     /\ spawn_at' = "undo" /\ spawn_result' = ERROR /\ UNCHANGED slot
  /\ UNCHANGED <<way, stdio, open_before, childVars, signal_pipe, exec_errorno, spawn_active, ScanSkips>>

SpawnReturns ==
  /\ spawn_at = "open" /\ slot = Len(stdio)
  /\ spawn_at' = "done" /\ spawn_result' = exec_errorno
  /\ UNCHANGED <<way, stdio, open_before, nonblocking, childVars, files, pipes, stream_fd, slot, signal_pipe, exec_errorno,
                 spawn_active, misclosed, ScanSkips>>

\* The label error of uv_spawn.
Inherits(i) == i < Len(stdio) /\ stdio[i + 1].kind = "inherit"
OwnNumbers == UNION {{pipes[i][1], pipes[i][2]} : i \in {j \in Slots : ~Inherits(j)}}

Undo ==
  /\ spawn_at = "undo"
  /\ LET ns == OwnNumbers \ {-1}
     IN /\ files' = Without(files, ns)
        /\ misclosed' = (misclosed \/ \E n \in ns : n \notin DOMAIN files \/ files[n][1] # "end")
  /\ spawn_at' = "done"
  /\ UNCHANGED <<way, stdio, open_before, nonblocking, childVars, pipes, stream_fd, slot, signal_pipe, exec_errorno,
                 spawn_result, spawn_active, ScanSkips>>

-----------------------------------------------------------------------------
(* The child after fork: uv__process_child_init                             *)

\* uv__write_int: only signal_pipe leads to the parent.
ChildFails ==
  /\ told' = IF signal_pipe[2] \in DOMAIN child /\ child[signal_pipe[2]] = SignalEnd(1) THEN ERROR ELSE told
  /\ child' = <<>> /\ child_at' = "exited"
  /\ UNCHANGED <<cloexec, child_pipes, child_slot, nonblocking>>

\* A mutant: what is overwritten before it is used is not saved.
IsLowButNext(use, fd) == use >= 0 /\ use < fd - 1

IsLow(use, fd) == use >= 0 /\ use < fd

SaveLow ==
  /\ child_at = "low" /\ child_slot < stdio_count
  /\ LET use == child_pipes[child_slot][2]
     IN \/ /\ ~IsLow(use, child_slot)
           /\ child_slot' = child_slot + 1 /\ UNCHANGED <<child, cloexec, child_pipes, child_at, told, nonblocking>>
        \/ /\ IsLow(use, child_slot) /\ use \in DOMAIN child
           /\ \E n \in Free(child, stdio_count) :
                /\ child' = With(child, n, child[use]) /\ cloexec' = cloexec \cup {n}
                /\ child_pipes' = [child_pipes EXCEPT ![child_slot][2] = n]
           /\ child_slot' = child_slot + 1 /\ UNCHANGED <<child_at, told, nonblocking>>
        \/ IsLow(use, child_slot) /\ (use \notin DOMAIN child \/ Free(child, stdio_count) = {}) /\ ChildFails

LowSaved ==
  /\ child_at = "low" /\ child_slot = stdio_count
  /\ child_at' = "place" /\ child_slot' = 0
  /\ UNCHANGED <<child, cloexec, child_pipes, told, nonblocking>>

\* A slot that nothing was asked for is /dev/null, if it is a standard one.  The
\* number that open finds is at most fd, and stays.
PlaceNull(fd) ==
  LET closed == Without(child, {fd})
  IN \E n \in Free(closed, 0) :
       /\ child' = With(With(closed, n, DevNull), fd, DevNull)
       /\ cloexec' = cloexec \ {n, fd}

Place ==
  /\ child_at = "place" /\ child_slot < stdio_count
  /\ LET use == child_pipes[child_slot][2]
         fd == child_slot
     IN \/ /\ use < 0 /\ fd >= 3
           /\ child_slot' = fd + 1 /\ UNCHANGED <<child, cloexec, child_pipes, child_at, told, nonblocking>>
        \/ /\ use < 0 /\ fd < 3 /\ PlaceNull(fd)
           /\ child_slot' = fd + 1 /\ UNCHANGED <<child_pipes, child_at, told, nonblocking>>
        \/ /\ use \in DOMAIN child /\ fd <= LastFd
           /\ child' = With(child, fd, child[use]) /\ cloexec' = cloexec \ {fd}
           /\ nonblocking' = IF fd <= 2 THEN nonblocking \ {child[use]} ELSE nonblocking
           /\ child_slot' = fd + 1 /\ UNCHANGED <<child_pipes, child_at, told>>
        \/ (use >= 0 \/ fd < 3) /\ ChildFails

\* execvp; or something before it failed.
Exec ==
  /\ child_at = "place" /\ child_slot = stdio_count
  /\ \/ /\ child' = Without(child, cloexec) /\ child_at' = "running"
        /\ UNCHANGED <<cloexec, child_pipes, child_slot, told, nonblocking>>
     \/ ChildFails

ChildStep ==
  /\ SaveLow \/ LowSaved \/ Place \/ Exec
  /\ UNCHANGED <<way, stdio, open_before, parentVars>>

-----------------------------------------------------------------------------
(* macOS: uv__spawn_set_posix_spawn_file_actions                            *)

\* Where a low number is saved.  The search begins again behind slot 0.
FirstUnused(ps) ==
  LET scan[n \in Nat, i \in Nat] ==
        IF i = stdio_count THEN n
        ELSE IF ps[i][2] = n THEN scan[n + 1, 1] ELSE scan[n, i + 1]
  IN scan[stdio_count, 0]

Saved(fd, acc) ==
  LET use == acc.pipes[fd][2]
      n == FirstUnused(acc.pipes)
  IN IF IsLow(use, fd)
     THEN [pipes |-> [acc.pipes EXCEPT ![fd][2] = n], actions |-> Append(acc.actions, <<"dup2", use, n>>)]
     ELSE acc

SaveActions ==
  LET upto[fd \in Nat] == IF fd = 0 THEN [pipes |-> pipes, actions |-> <<>>] ELSE Saved(fd - 1, upto[fd - 1])
  IN upto[stdio_count]

PlaceAction(fd, use) ==
  CASE use < 0 /\ fd >= 3 -> <<>>
    [] use < 0 /\ fd < 3  -> <<<<"open", fd, fd>>>>
    [] use = fd           -> <<<<"inherit", fd, fd>>>>
    [] use >= 0 /\ use # fd -> <<<<"dup2", use, fd>>>>

CloseAction(ps, fd) ==
  IF ps[fd][2] >= stdio_count /\ \A j \in 0..(fd - 1) : ps[j][2] # ps[fd][2]
  THEN <<<<"close", ps[fd][2], 0>>>> ELSE <<>>

FileActions(ps, saving) ==
  LET places[fd \in Nat] == IF fd = 0 THEN saving ELSE places[fd - 1] \o PlaceAction(fd - 1, ps[fd - 1][2])
      closes[fd \in Nat] == IF fd = 0 THEN places[stdio_count] ELSE closes[fd - 1] \o CloseAction(ps, fd - 1)
  IN closes[stdio_count]

\* What the kernel makes of them.  Only what an action names is kept.
Perform(actions) ==
  LET after[k \in Nat] ==
        IF k = 0 THEN [ok |-> TRUE, table |-> files, keep |-> {}]
        ELSE LET t == after[k - 1]
                 a == actions[k]
             IN IF ~t.ok \/ (a[1] # "open" /\ a[2] \notin DOMAIN t.table) THEN [t EXCEPT !.ok = FALSE]
                ELSE CASE a[1] = "open"    -> [t EXCEPT !.table = With(@, a[2], DevNull), !.keep = @ \cup {a[2]}]
                       [] a[1] = "inherit" -> [t EXCEPT !.keep = @ \cup {a[2]}]
                       [] a[1] = "dup2"    -> [t EXCEPT !.table = With(@, a[3], t.table[a[2]]), !.keep = @ \cup {a[3]}]
                       [] a[1] = "close"   -> [t EXCEPT !.table = Without(@, {a[2]}), !.keep = @ \ {a[2]}]
      end == after[Len(actions)]
  IN [ok |-> end.ok, table |-> [n \in end.keep |-> end.table[n]]]

\* pipes and the modes of the parent's own descriptors change, too.
PosixSpawn ==
  /\ spawn_at = "file_actions"
  /\ LET saved == SaveActions
         end == Perform(FileActions(saved.pipes, saved.actions))
     IN /\ pipes' = saved.pipes
        /\ ScanSkips' = \E i \in Slots \ {0} : saved.pipes[i][2] = pipes[0][2] /\ pipes[i][2] # pipes[0][2]
        /\ nonblocking' = nonblocking \ {files[n] : n \in {saved.pipes[i][2] : i \in Slots} \cap DOMAIN files}
        /\ \/ /\ end.ok
              /\ child' = end.table /\ child_at' = "running" /\ spawn_active' = TRUE
              /\ spawn_at' = "open" /\ slot' = 0 /\ UNCHANGED <<exec_errorno, spawn_result>>
           \/ SpawnError("open", ERROR) /\ UNCHANGED <<child, child_at, spawn_active>>
  /\ UNCHANGED <<way, stdio, open_before, files, stream_fd, signal_pipe, misclosed, cloexec, child_pipes, child_slot, told>>

\* The next spawn is another behaviour.
Spawned ==
  spawn_at = "done" /\ child_at \in {"none", "running", "exited", "reaped"} /\ UNCHANGED spawnVars

SpawnNext ==
  \/ InitStdio \/ ChooseWay \/ MakePipe \/ SpawnFork \/ ReadResult \/ OpenStream \/ SpawnReturns \/ Undo
  \/ ChildStep \/ PosixSpawn \/ Spawned

SpawnSpec == SpawnInit /\ [][SpawnNext]_spawnVars

-----------------------------------------------------------------------------
(* Properties *)

\* The child has at each slot the file that was asked for; /dev/null at a
\* standard one that nothing was asked for.
ChildHasItsStdio ==
  child_at = "running" =>
    \A i \in Slots :
      /\ \A f \in Asked(i) : i \in DOMAIN child /\ child[i] = f
      /\ (Asked(i) = {} /\ i < 3) => i \in DOMAIN child /\ child[i] = DevNull

\* Nothing of a pipe is left but the child's end in its slot and the parent's end
\* in its stream, or both ends would never see the end of the file.
EndsAreFew ==
  /\ child_at = "running" => \A n \in DOMAIN child : child[n][1] # "old" /\ child[n] # DevNull => child[n] = End(n, 1)
  /\ spawn_at = "done" =>
       \A n \in DOMAIN files : files[n][1] # "old" =>
         \E i \in Slots : IsPipe(i) /\ files[n] = End(i, 0) /\ stream_fd[stdio[i + 1].of] = n

\* The parent keeps what it had, and closes only what uv_spawn opened.
ParentKeepsItsOwn ==
  /\ ~misclosed
  /\ \A n \in open_before : n \in DOMAIN files /\ files[n] = Old(n)

\* uv_spawn fails, and there is nothing to reap, if the program does not run.
ResultTells ==
  spawn_at = "done" => (spawn_active <=> child_at = "running") /\ (spawn_result = 0 => spawn_active)

\* The mode of a file changes only if the child shares it.
ModesKept ==
  \A n \in open_before : Old(n) \in nonblocking \/ n < 3 \/ \E i \in Slots : Old(n) \in Asked(i)

\* Where the code does not keep these promises:
\* - the search of FirstUnused misses slot 0 once it has begun again,
\* - the pipe of failures is at the place of a slot,
ErrorInTheWay == signal_pipe[2] \in Slots
\* - a pipe's ends have numbers of slots behind them, which posix_spawn moves,
EndsInTheWay == way = "posix_spawn" /\ \E i \in Slots : IsPipe(i) /\ \E n \in Slots : n \notin open_before
\* - a stream is in use, or is named twice.
StreamTaken ==
  \E i, j \in Slots :
    IsPipe(i) /\ IsPipe(j) /\ (stdio[j + 1].of \in InUse \/ (i # j /\ stdio[i + 1].of = stdio[j + 1].of))

SpawnPromise ==
  /\ ScanSkips \/ ChildHasItsStdio
  /\ EndsInTheWay \/ EndsAreFew
  /\ StreamTaken \/ EndsInTheWay \/ ParentKeepsItsOwn
  /\ ErrorInTheWay \/ ResultTells
  /\ way = "posix_spawn" \/ ModesKept
=============================================================================
