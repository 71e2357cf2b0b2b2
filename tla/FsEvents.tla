------------------------------- MODULE FsEvents -------------------------------
(***************************************************************************)
(* uv_fs_event_t on macOS, unix/fsevents.c: a CoreFoundation thread owns   *)
(* one FSEventStream for all handles of a loop and makes it anew when one  *)
(* starts or stops; the loop signals the thread, stopping waits for it,    *)
(* and events come back through a queue and an async handle per uv handle. *)
(* Paths are not modelled: an event is about one handle's path.            *)
(***************************************************************************)
EXTENDS Integers, Sequences, FiniteSets

CONSTANTS
  FsHandles,     \* the uv_fs_event_t
  NoHandle,      \* NULL
  MaxPending     \* bound of the model: events queued for one handle

ASSUME FsEventsAssumption == NoHandle \notin FsHandles /\ MaxPending \in Nat \ {0}

VARIABLES
  watching,      \* handles that are started: uv__is_active
  fsevent_handles, need_reschedule,   \* of cf_state, under fsevent_mutex
  cf_signals,    \* the loop's queue of signals, under cf_mutex
  signalled,     \* the run loop's source is signalled
  fsevent_sem,   \* the semaphore uv__fsevents_close waits for
  cf_events, cf_error,  \* of each handle, under its cf_mutex
  sent,          \* the cf_cb that were sent and have not run
  cf_stream,        \* the handles whose paths the FSEventStream has
  cf,            \* the CF thread: "none", "run", "signals", "collect", "create", "exit"
  split,         \* ... the signals it still handles, from the present one on
  collected,     \* ... the handles whose paths it has collected
  stopping,      \* ... CFRunLoopStop was called
  lt,            \* the loop thread: "idle", "callback", "process", "wait" or "join"
  back,          \* ... where it goes on after the wait
  fs_current,       \* ... the handle it stops or whose events it handles
  mine, my_error \* ... the events and the error it has taken from that one

fsSharedVars == <<fsevent_handles, need_reschedule, cf_signals, signalled, fsevent_sem>>
fsHandleVars == <<watching, cf_events, cf_error, sent>>
cfVars == <<cf_stream, cf, split, collected, stopping>>
fsLoopVars == <<lt, back, fs_current, mine, my_error>>
fsEventsVars == <<fsSharedVars, fsHandleVars, cfVars, fsLoopVars>>

FsEventsInit ==
  /\ watching = {} /\ fsevent_handles = {} /\ need_reschedule = FALSE
  /\ cf_signals = <<>> /\ signalled = FALSE /\ fsevent_sem = 0
  /\ cf_events = [h \in FsHandles |-> 0] /\ cf_error = {} /\ sent = {}
  /\ cf_stream = {} /\ cf = "none" /\ split = <<>> /\ collected = {} /\ stopping = FALSE
  /\ lt = "idle" /\ back = "idle" /\ fs_current = NoHandle /\ mine = 0 /\ my_error = FALSE

UserRuns == lt \in {"idle", "callback"}

\* uv__cf_loop_signal
CfLoopSignal(h, type) ==
  /\ cf_signals' = Append(cf_signals, [handle |-> h, type |-> type])
  /\ signalled' = TRUE

-----------------------------------------------------------------------------
(* The loop thread                                                          *)

\* uv__fsevents_init, which starts the CF thread if there is none.
uv__fsevents_init(h) ==
  /\ UserRuns /\ h \notin watching
  /\ watching' = watching \cup {h}
  /\ cf_events' = [cf_events EXCEPT ![h] = 0]
  /\ cf_error' = cf_error \ {h}
  /\ fsevent_handles' = fsevent_handles \cup {h}
  /\ need_reschedule' = TRUE
  /\ CfLoopSignal(h, "regular")
  /\ cf' = IF cf = "none" THEN "run" ELSE cf
  /\ UNCHANGED <<fsevent_sem, sent, cf_stream, split, collected, stopping, fsLoopVars>>

\* uv__fsevents_close up to the semaphore ...
uv__fsevents_close(h) ==
  /\ UserRuns /\ h \in watching
  /\ watching' = watching \ {h}
  /\ fsevent_handles' = fsevent_handles \ {h}
  /\ need_reschedule' = TRUE
  /\ CfLoopSignal(h, "closing")
  /\ lt' = "wait" /\ back' = lt
  /\ UNCHANGED <<fsevent_sem, cf_events, cf_error, sent, cfVars, fs_current, mine, my_error>>

\* ... and after it: the async handle is closed, the events are freed.
CloseGoesOn(h) ==
  /\ lt = "wait" /\ fsevent_sem > 0
  /\ h \notin watching
  /\ fsevent_sem' = fsevent_sem - 1
  /\ cf_events' = [g \in FsHandles |-> IF g \in watching THEN cf_events[g] ELSE 0]
  /\ cf_error' = cf_error \cap watching
  /\ sent' = sent \cap watching
  /\ lt' = back
  /\ UNCHANGED <<watching, fsevent_handles, need_reschedule, cf_signals, signalled, cfVars,
                 back, fs_current, mine, my_error>>

\* uv__fsevents_cb: take all events and the error ...
uv__fsevents_cb(h) ==
  /\ lt = "idle" /\ h \in sent
  /\ sent' = sent \ {h}
  /\ fs_current' = h
  /\ mine' = cf_events[h] /\ cf_events' = [cf_events EXCEPT ![h] = 0]
  /\ my_error' = (h \in cf_error) /\ cf_error' = cf_error \ {h}
  /\ lt' = "process"
  /\ UNCHANGED <<watching, fsSharedVars, cfVars, back>>

\* ... and call back for each, as long as the handle is active.
ProcessEvent ==
  /\ lt = "process" /\ (mine > 0 \/ my_error)
  /\ IF mine > 0 THEN mine' = mine - 1 /\ UNCHANGED my_error
                 ELSE my_error' = FALSE /\ UNCHANGED mine
  /\ lt' = IF fs_current \in watching THEN "callback" ELSE lt
  /\ UNCHANGED <<fsSharedVars, fsHandleVars, cfVars, back, fs_current>>

Processed ==
  /\ lt = "process" /\ mine = 0 /\ ~my_error
  /\ lt' = "idle" /\ fs_current' = NoHandle
  /\ UNCHANGED <<fsSharedVars, fsHandleVars, cfVars, back, mine, my_error>>

FsCallbackEnds == /\ lt = "callback"
                /\ lt' = "process"
                /\ UNCHANGED <<fsSharedVars, fsHandleVars, cfVars, back, fs_current, mine,
                               my_error>>

\* uv__fsevents_loop_delete, of a loop without handles: a signal, and a join.
uv__fsevents_loop_delete ==
  /\ lt = "idle" /\ watching = {} /\ cf # "none"
  /\ CfLoopSignal(NoHandle, "regular")
  /\ lt' = "join"
  /\ UNCHANGED <<fsevent_handles, need_reschedule, fsevent_sem, fsHandleVars, cfVars,
                 back, fs_current, mine, my_error>>

Joined ==
  /\ lt = "join" /\ cf = "exit"
  /\ lt' = "idle" /\ cf' = "none"
  /\ cf_signals' = <<>> /\ signalled' = FALSE /\ fsevent_sem' = 0
  /\ need_reschedule' = FALSE /\ stopping' = FALSE
  /\ UNCHANGED <<fsevent_handles, fsHandleVars, cf_stream, split, collected, back, fs_current,
                 mine, my_error>>

-----------------------------------------------------------------------------
(* The CF thread                                                            *)

\* uv__cf_loop_cb takes all signals, of which the run loop knows only that
\* there are some.
CfLoopCb ==
  /\ cf = "run" /\ signalled /\ ~stopping
  /\ signalled' = FALSE
  /\ split' = cf_signals /\ cf_signals' = <<>>
  /\ cf' = "signals"
  /\ UNCHANGED <<fsevent_handles, need_reschedule, fsevent_sem, fsHandleVars, fsLoopVars,
                 cf_stream, collected, stopping>>

PostsIfRescheduled ==
  fsevent_sem' = fsevent_sem + (IF Head(split).type = "closing" /\ cf = "create" THEN 1 ELSE 0)

PostsAlways == fsevent_sem' = fsevent_sem + 1

\* The end of a signal: uv__fsevents_reschedule lets the loop thread go on.
Posts == fsevent_sem' = fsevent_sem + (IF Head(split).type = "closing" THEN 1 ELSE 0)
NextSignal == split' = Tail(split) /\ cf' = "signals"

\* A signal that nothing has happened since, or the one to stop.
SkipSignal ==
  /\ cf = "signals" /\ split # <<>>
  /\ Head(split).handle = NoHandle \/ ~need_reschedule
  /\ stopping' = (stopping \/ Head(split).handle = NoHandle)
  /\ Posts /\ NextSignal
  /\ UNCHANGED <<fsevent_handles, need_reschedule, cf_signals, signalled, fsHandleVars, fsLoopVars,
                 cf_stream, collected>>

\* uv__fsevents_reschedule: the old cf_stream is destroyed,
Reschedule ==
  /\ cf = "signals" /\ split # <<>> /\ Head(split).handle # NoHandle /\ need_reschedule
  /\ need_reschedule' = FALSE
  /\ cf_stream' = {}
  /\ cf' = "collect"
  /\ UNCHANGED <<fsevent_handles, cf_signals, signalled, fsevent_sem, fsHandleVars, fsLoopVars,
                 split, collected, stopping>>

\* the paths are collected under the mutex,
Collect ==
  /\ cf = "collect"
  /\ collected' = fsevent_handles
  /\ cf' = "create"
  /\ UNCHANGED <<fsSharedVars, fsHandleVars, fsLoopVars, cf_stream, split, stopping>>

\* and a new cf_stream is made of them; if it cannot, all handles are told.
Create ==
  /\ cf = "create"
  /\ \/ cf_stream' = collected /\ UNCHANGED <<cf_error, sent>>
     \/ /\ collected # {} /\ cf_stream' = {}
        /\ cf_error' = cf_error \cup fsevent_handles
        /\ sent' = sent \cup fsevent_handles
  /\ collected' = {}
  /\ Posts /\ NextSignal
  /\ UNCHANGED <<fsevent_handles, need_reschedule, cf_signals, signalled, watching, cf_events,
                 fsLoopVars, stopping>>

CfLoopCbEnds ==
  /\ cf = "signals" /\ split = <<>>
  /\ cf' = IF stopping THEN "exit" ELSE "run"
  /\ UNCHANGED <<fsSharedVars, fsHandleVars, fsLoopVars, cf_stream, split, collected, stopping>>

\* uv__fsevents_event_cb: an event about the path of h, for the handles that
\* are still in the list; uv__fsevents_push_event queues it and sends.
uv__fsevents_event_cb(h) ==
  /\ cf = "run" /\ h \in cf_stream
  /\ cf_events[h] < MaxPending
  /\ IF h \in fsevent_handles
       THEN cf_events' = [cf_events EXCEPT ![h] = @ + 1] /\ sent' = sent \cup {h}
       ELSE UNCHANGED <<cf_events, sent>>
  /\ UNCHANGED <<watching, fsSharedVars, cf_error, cfVars, fsLoopVars>>

CfThread == CfLoopCb \/ SkipSignal \/ Reschedule \/ Collect \/ Create \/ CfLoopCbEnds

FsLoopThread == \/ ProcessEvent \/ Processed \/ FsCallbackEnds \/ Joined
              \/ \E h \in FsHandles : CloseGoesOn(h)

FsEventsNext ==
  \/ CfThread \/ FsLoopThread \/ uv__fsevents_loop_delete
  \/ \E h \in FsHandles : \/ uv__fsevents_init(h) \/ uv__fsevents_close(h)
                          \/ uv__fsevents_cb(h) \/ uv__fsevents_event_cb(h)

FsEventsSpec == FsEventsInit /\ [][FsEventsNext]_fsEventsVars

-----------------------------------------------------------------------------
(* Properties *)

\* When uv__fsevents_close has returned, nothing of the CF thread leads to the
\* handle any more, whose memory the user may free: it is not in the stream,
\* nor among the paths the next one is made of, and nothing is queued for it;
\* so it is also when the thread has ended.
StoppedIsForgotten ==
  /\ \A h \in FsHandles \ watching :
       lt # "wait" => /\ h \notin cf_stream \cup collected \cup fsevent_handles \cup sent \cup cf_error
                      /\ cf_events[h] = 0
  /\ fsevent_sem <= 1
  /\ cf = "none" => cf_stream = {} /\ split = <<>> /\ cf_signals = <<>>

\* The loop thread waits for the CF thread only for a while, and what has been
\* queued for a handle is taken, unless the handle is stopped.
FsEventsGoOn ==
  /\ []<>(lt \notin {"wait", "join"})
  /\ \A h \in FsHandles : []<>(cf_events[h] = 0)
=============================================================================
