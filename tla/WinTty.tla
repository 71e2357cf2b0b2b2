-------------------------------- MODULE WinTty --------------------------------
(***************************************************************************)
(* Reading from the console of Windows (win/tty.c).  In normal mode a      *)
(* thread blocks in ReadConsole for a line; in raw mode a wait is          *)
(* registered and the loop takes the keys itself.  A line read is          *)
(* cancelled by pressing ENTER for the user: uv__read_console_status says  *)
(* who comes first, and uv_tty_output_lock is taken by the loop and given  *)
(* back by the thread, once what the ENTER did to the screen is undone.    *)
(***************************************************************************)
EXTENDS Integers, Sequences

CONSTANTS
  MaxKeys,       \* a bound: the program stops reading while fewer events wait in the console
  MaxLines,      \* the user of the console types 1, 2, ..., MaxLines
  ModeSwitches,  \* the program calls uv_tty_set_mode
  CarefulStops,  \* it cancels no read whose CANCELLATION_PENDING would be lost or left: see MayCancel
  BuffersLacking \* alloc_cb may have none for keys, once

ASSUME WinTtyAssumption ==
  /\ MaxKeys \in Nat \ {0} /\ MaxLines \in Nat \ {0}
  /\ ModeSwitches \in BOOLEAN /\ CarefulStops \in BOOLEAN /\ BuffersLacking \in BOOLEAN

\* Events in the console: what the user types by number, the ENTER that
\* cancels, and the focus event that ends the wait of a raw read.  NOTHING is no
\* key, and what a read gets that is cancelled before it begins.
ENTER == -1
FOCUS == -2
NOTHING == 0

VARIABLES
  tty_life,     \* "open", "closing", "endgame" or "closed"
  tty_flags,    \* of "reading", "read_pending", "cancellation_pending" and "raw"
  tty_reqs,     \* reqs_pending
  tty_active,   \* activecnt
  line_buffer,  \* read_line_buffer is not empty
  last_key,     \* the key of which bytes are left
  records_left, \* of uv_process_tty_read_raw_req
  lacked,       \* alloc_cb had no buffer
  tty_read_at,  \* the read request: "idle", "wait" (registered), "queued" (no thread yet),
                \* "trapped", "console" (in ReadConsole), "ended", "undo", "post" or "port"
  line_read,    \* what ReadConsole got
  read_status,  \* uv__read_console_status
  output_lock,  \* the semaphore uv_tty_output_lock
  console,      \* events to be read
  typed,        \* how much the user has typed
  tty_at,       \* the loop: "idle", "callback", "raw" (in uv_process_tty_read_raw_req);
                \* in uv__cancel_read_console: "lock", "trap", "press"; "mode" or "write"
                \* (waits for the lock)
  tty_then,     \* what the cancelled read is stopped for: "stop", "mode" or "close"
  tty_back,     \* where the loop is after it: "idle" or "callback"
  cb_of,        \* the callback is called by the processing of a "line", "raw" read, or neither
  heard,        \* history: the last that read_cb got
  stop_asked,   \* history: the pending line read was stopped
  swallowed,    \* history: what was typed and not given to read_cb although nobody stopped
  pressed_late, \* history: an ENTER was pressed that no longer had a read to cancel
  phantom       \* history: read_cb got an ENTER that the user did not type

lateTtyVars == <<heard, swallowed, pressed_late, phantom>>
handleTtyVars == <<tty_life, tty_flags, tty_reqs, tty_active>>
rawVars == <<last_key, records_left, lacked>>
threadTtyVars == <<tty_read_at, line_read, read_status>>
consoleVars == <<console, typed>>
atTtyVars == <<tty_at, tty_then, tty_back, cb_of>>
historyVars == <<heard, stop_asked, swallowed, pressed_late, phantom>>
winTtyVars == <<handleTtyVars, line_buffer, rawVars, threadTtyVars, output_lock, consoleVars, atTtyVars, historyVars>>

\* uv_tty_init of a console that can be read.
WinTtyInit ==
  /\ tty_life = "open" /\ tty_flags = {} /\ tty_reqs = 0 /\ tty_active = 0
  /\ line_buffer = FALSE /\ last_key = NOTHING /\ records_left = 0 /\ lacked = FALSE
  /\ tty_read_at = "idle" /\ line_read = NOTHING /\ read_status = "NOT_STARTED"
  /\ output_lock = 1 /\ console = <<>> /\ typed = 0
  /\ tty_at = "idle" /\ tty_then = "stop" /\ tty_back = "idle" /\ cb_of = "none"
  /\ heard = 0 /\ stop_asked = FALSE /\ swallowed = FALSE /\ pressed_late = FALSE /\ phantom = FALSE

Has(f) == f \in tty_flags
TtyUser == tty_at \in {"idle", "callback"} /\ tty_life = "open"

-----------------------------------------------------------------------------
(* Asking for a read                                                        *)

\* uv__tty_queue_read_raw, _line; the flags are those of the caller.
QueueReadRaw(flags) ==
  /\ line_buffer' = FALSE
  /\ tty_read_at' = "wait"
  /\ tty_flags' = flags \cup {"read_pending"} /\ tty_reqs' = tty_reqs + 1
  /\ UNCHANGED <<read_status, stop_asked>>

QueueReadLine(flags) ==
  /\ line_buffer' = TRUE
  /\ tty_read_at' = "queued" /\ read_status' = "NOT_STARTED"
  /\ tty_flags' = flags \cup {"read_pending"} /\ tty_reqs' = tty_reqs + 1
  /\ stop_asked' = FALSE

TtyQueueRead(flags) == IF "raw" \in flags THEN QueueReadRaw(flags) ELSE QueueReadLine(flags)

NoTtyQueueRead(flags) ==
  tty_flags' = flags /\ UNCHANGED <<line_buffer, tty_read_at, tty_reqs, read_status, stop_asked>>

\* uv__tty_read_start
ReadStarted(flags) ==
  /\ tty_active' = tty_active + 1
  /\ \/ "read_pending" \in flags /\ NoTtyQueueRead(flags \cup {"reading"})
     \/ /\ "read_pending" \notin flags /\ last_key # NOTHING
        /\ tty_read_at' = "port" /\ tty_reqs' = tty_reqs + 1
        /\ tty_flags' = flags \cup {"reading", "read_pending"}
        /\ UNCHANGED <<line_buffer, read_status, stop_asked>>
     \/ "read_pending" \notin flags /\ last_key = NOTHING /\ TtyQueueRead(flags \cup {"reading"})

uv__tty_read_start ==
  /\ TtyUser /\ ~Has("reading")
  /\ ReadStarted(tty_flags)
  /\ UNCHANGED <<tty_life, rawVars, line_read, output_lock, consoleVars, atTtyVars, lateTtyVars>>

-----------------------------------------------------------------------------
(* Stopping: uv__tty_read_stop, uv__cancel_read_console                     *)

\* A mutant: the read is cancelled again and again.
CancelsAgain == Has("read_pending") /\ ~Has("raw")

MustCancel == Has("read_pending") /\ ~Has("raw") /\ ~Has("cancellation_pending")

\* The rest of uv__tty_close.
Closed(flags, reqs) ==
  /\ tty_life' = IF reqs = 0 THEN "endgame" ELSE "closing"
  /\ tty_flags' = flags

\* What follows when nothing is to be cancelled, or that is done.
GoesOn(why, flags, back) ==
  CASE why = "stop"  -> tty_flags' = flags /\ tty_at' = back /\ UNCHANGED tty_life
    [] why = "mode"  -> tty_flags' = flags /\ tty_at' = "mode" /\ UNCHANGED tty_life
    [] why = "close" -> Closed(flags, tty_reqs) /\ tty_at' = back

StopRead(why) ==
  LET flags == tty_flags \ {"reading"}
  IN /\ Len(console) < MaxKeys
     /\ tty_then' = why /\ tty_back' = tty_at
     /\ tty_active' = tty_active - 1
     /\ stop_asked' = (stop_asked \/ (Has("read_pending") /\ line_buffer))
     /\ IF MustCancel THEN tty_at' = "lock" /\ tty_flags' = flags /\ UNCHANGED tty_life
                      ELSE GoesOn(why, flags, tty_at)
     /\ console' = IF Has("read_pending") /\ Has("raw") THEN Append(console, FOCUS) ELSE console
     /\ UNCHANGED <<tty_reqs, line_buffer, rawVars, threadTtyVars, output_lock, typed, cb_of, lateTtyVars>>

\* CANCELLATION_PENDING outlives the cancelling when the read that is pending is a
\* raw one, and is gone too early when it is one that the callback of another
\* line has asked for: that line's processing clears it.
MayCancel == (CarefulStops /\ MustCancel) => line_buffer /\ cb_of # "line"

uv__tty_read_stop == TtyUser /\ Has("reading") /\ MayCancel /\ StopRead("stop")

uv__tty_close ==
  /\ TtyUser
  /\ IF Has("reading") THEN MayCancel /\ StopRead("close")
     ELSE /\ Closed(tty_flags, tty_reqs)
          /\ UNCHANGED <<tty_reqs, tty_active, line_buffer, rawVars, threadTtyVars, output_lock, consoleVars,
                         atTtyVars, historyVars>>

CancelOthers ==
  UNCHANGED <<tty_reqs, tty_active, line_buffer, rawVars, tty_read_at, line_read, typed, tty_then, tty_back, cb_of,
              heard, stop_asked, swallowed, phantom>>

\* uv_sem_wait
TakeLock ==
  /\ tty_at = "lock" /\ output_lock > 0
  /\ output_lock' = output_lock - 1 /\ tty_at' = "trap"
  /\ CancelOthers /\ UNCHANGED <<tty_life, tty_flags, read_status, console, pressed_late>>

CancelDone == GoesOn(tty_then, tty_flags \cup {"cancellation_pending"}, tty_back)

SetTrap ==
  /\ tty_at = "trap"
  /\ read_status' = "TRAP_REQUESTED"
  /\ IF read_status = "IN_PROGRESS"
       THEN tty_at' = "press" /\ UNCHANGED <<output_lock, tty_life, tty_flags>>
       ELSE output_lock' = output_lock + 1 /\ CancelDone
  /\ CancelOthers /\ UNCHANGED <<console, pressed_late>>

PressEnter ==
  /\ tty_at = "press"
  /\ console' = Append(console, ENTER)
  /\ pressed_late' = (pressed_late \/ tty_read_at # "console" \/ \E i \in 1..Len(console) : console[i] # FOCUS)
  /\ CancelDone
  /\ CancelOthers /\ UNCHANGED <<output_lock, read_status>>

\* uv_tty_set_mode.  In read_cb of a raw read the loop would then go on to take
\* events that the thread of the line read takes, too, and the bytes of a key that
\* are left stay until the mode is raw again.
SetMode ==
  /\ ModeSwitches /\ TtyUser
  /\ CarefulStops => cb_of # "raw" /\ last_key = NOTHING
  /\ IF Has("reading") THEN MayCancel /\ StopRead("mode")
     ELSE /\ tty_at' = "mode" /\ tty_then' = "stop" /\ tty_back' = tty_at
          /\ UNCHANGED <<handleTtyVars, line_buffer, rawVars, threadTtyVars, output_lock, consoleVars, cb_of,
                         historyVars>>

\* With the lock: SetConsoleMode; then it reads on, if it did.
ModeSet ==
  /\ tty_at = "mode" /\ output_lock > 0
  /\ LET flags == IF Has("raw") THEN tty_flags \ {"raw"} ELSE tty_flags \cup {"raw"}
     IN IF tty_then = "mode" THEN ReadStarted(flags) ELSE NoTtyQueueRead(flags) /\ UNCHANGED tty_active
  /\ tty_at' = tty_back
  /\ UNCHANGED <<tty_life, rawVars, line_read, output_lock, consoleVars, tty_then, tty_back, cb_of, lateTtyVars>>

\* A write to the console, which waits for the lock.
TtyWrites ==
  /\ TtyUser /\ output_lock = 0
  /\ tty_at' = "write" /\ tty_back' = tty_at
  /\ UNCHANGED <<handleTtyVars, line_buffer, rawVars, threadTtyVars, output_lock, consoleVars, tty_then, cb_of,
                 historyVars>>

Written ==
  /\ tty_at = "write" /\ output_lock > 0 /\ tty_at' = tty_back
  /\ UNCHANGED <<handleTtyVars, line_buffer, rawVars, threadTtyVars, output_lock, consoleVars, tty_then, tty_back,
                 cb_of, historyVars>>

-----------------------------------------------------------------------------
(* uv_tty_line_read_thread, uv_tty_post_raw_read and the console            *)

ThreadTtyOthers ==
  UNCHANGED <<handleTtyVars, line_buffer, rawVars, typed, atTtyVars, historyVars>>

LineThreadStarts ==
  /\ tty_read_at = "queued"
  /\ read_status' = "IN_PROGRESS"
  /\ tty_read_at' = IF read_status = "TRAP_REQUESTED" THEN "trapped" ELSE "console"
  /\ ThreadTtyOthers /\ UNCHANGED <<line_read, output_lock, console>>

Trapped ==
  /\ tty_read_at = "trapped"
  /\ read_status' = "COMPLETED" /\ line_read' = NOTHING /\ tty_read_at' = "port"
  /\ ThreadTtyOthers /\ UNCHANGED <<output_lock, console>>

\* ReadConsole drops what is not a key; the ENTER ends it like one of the user's.
ReadConsole ==
  /\ tty_read_at = "console" /\ console # <<>>
  /\ console' = Tail(console)
  /\ IF Head(console) = FOCUS THEN UNCHANGED <<line_read, tty_read_at>>
                              ELSE line_read' = Head(console) /\ tty_read_at' = "ended"
  /\ ThreadTtyOthers /\ UNCHANGED <<read_status, output_lock>>

ReadConsoleEnds ==
  /\ tty_read_at = "ended"
  /\ read_status' = "COMPLETED"
  /\ tty_read_at' = IF read_status = "TRAP_REQUESTED" THEN "undo" ELSE "port"
  /\ ThreadTtyOthers /\ UNCHANGED <<line_read, output_lock, console>>

\* The cursor is put back, and then the lock is given back.
Undo ==
  /\ tty_read_at = "undo"
  /\ output_lock' = output_lock + 1 /\ tty_read_at' = "post"
  /\ ThreadTtyOthers /\ UNCHANGED <<line_read, read_status, console>>

ThreadPosts ==
  /\ tty_read_at = "post" /\ tty_read_at' = "port"
  /\ ThreadTtyOthers /\ UNCHANGED <<line_read, read_status, output_lock, console>>

\* The handle of the console is signalled while events are in it.
uv_tty_post_raw_read ==
  /\ tty_read_at = "wait" /\ console # <<>> /\ tty_read_at' = "port"
  /\ ThreadTtyOthers /\ UNCHANGED <<line_read, read_status, output_lock, console>>

ConsoleThread ==
  LineThreadStarts \/ Trapped \/ ReadConsole \/ ReadConsoleEnds \/ Undo \/ ThreadPosts \/ uv_tty_post_raw_read

UserTypes ==
  /\ typed < MaxLines
  /\ typed' = typed + 1 /\ console' = Append(console, typed + 1)
  /\ UNCHANGED <<handleTtyVars, line_buffer, rawVars, threadTtyVars, output_lock, atTtyVars, historyVars>>

-----------------------------------------------------------------------------
(* uv__process_tty_read_req                                                 *)

\* The end of both: the next read, and DECREASE_PENDING_REQ_COUNT.
ReadReqEnds(flags) ==
  LET again == "reading" \in flags /\ "read_pending" \notin flags
      reqs == IF again THEN tty_reqs ELSE tty_reqs - 1
  IN /\ tty_reqs' = reqs
     /\ tty_life' = IF tty_life = "closing" /\ reqs = 0 THEN "endgame" ELSE tty_life
     /\ IF again
          THEN /\ tty_flags' = flags \cup {"read_pending"}
               /\ line_buffer' = ("raw" \notin flags)
               /\ IF "raw" \in flags
                    THEN tty_read_at' = "wait" /\ UNCHANGED <<read_status, stop_asked>>
                    ELSE tty_read_at' = "queued" /\ read_status' = "NOT_STARTED" /\ stop_asked' = FALSE
          ELSE tty_flags' = flags /\ UNCHANGED <<line_buffer, tty_read_at, read_status, stop_asked>>

\* read_cb
Hears(key) ==
  /\ heard' = IF key > 0 THEN key ELSE heard
  /\ phantom' = (phantom \/ key = ENTER)

\* uv_process_tty_read_line_req, up to read_cb.  It may take what the user typed
\* for what came of a cancelled read.
LineRead ==
  /\ tty_at = "idle" /\ tty_read_at = "port" /\ line_buffer
  /\ tty_read_at' = "idle" /\ line_buffer' = FALSE
  /\ tty_flags' = tty_flags \ {"read_pending"}
  /\ IF Has("cancellation_pending") \/ line_read = NOTHING
       THEN /\ tty_at' = "line" /\ UNCHANGED <<cb_of, heard, phantom>>
            /\ swallowed' = (swallowed \/ (line_read > 0 /\ ~stop_asked))
       ELSE /\ tty_at' = "callback" /\ cb_of' = "line" /\ Hears(line_read)
            /\ UNCHANGED swallowed
  /\ UNCHANGED <<tty_life, tty_reqs, tty_active, rawVars, line_read, read_status, output_lock, consoleVars, tty_then,
                 tty_back, stop_asked, pressed_late>>

LineReqEnds ==
  /\ tty_at = "line" /\ tty_at' = "idle"
  /\ ReadReqEnds(tty_flags \ {"cancellation_pending"})
  /\ UNCHANGED <<tty_active, rawVars, line_read, output_lock, consoleVars, tty_then, tty_back, cb_of, lateTtyVars>>

\* uv_process_tty_read_raw_req: what is in the console now, and no more.
RawRead ==
  /\ tty_at = "idle" /\ tty_read_at = "port" /\ ~line_buffer
  /\ tty_read_at' = "idle" /\ tty_flags' = tty_flags \ {"read_pending"}
  /\ tty_at' = IF Has("reading") /\ Has("raw") THEN "raw" ELSE "out"
  /\ records_left' = Len(console)
  /\ UNCHANGED <<tty_life, tty_reqs, tty_active, line_buffer, last_key, lacked, line_read, read_status, output_lock,
                 consoleVars, tty_then, tty_back, cb_of, historyVars>>

RawOthers ==
  UNCHANGED <<handleTtyVars, line_buffer, threadTtyVars, output_lock, typed, tty_then, tty_back, stop_asked, swallowed,
              pressed_late>>

\* ReadConsoleInputW, which waits while there is nothing.  A key of the user is
\* two bytes; the ENTER is a key, too.
NextRecord ==
  /\ tty_at = "raw" /\ Has("reading") /\ last_key = NOTHING /\ records_left > 0
  /\ console # <<>>
  /\ records_left' = records_left - 1 /\ console' = Tail(console)
  /\ last_key' = IF Head(console) = FOCUS THEN NOTHING ELSE Head(console)
  /\ RawOthers /\ UNCHANGED <<lacked, tty_at, cb_of, heard, phantom>>

\* A byte goes to the buffer, which holds it alone or the other one, too.
NextKey ==
  /\ tty_at = "raw" /\ Has("reading") /\ last_key # NOTHING
  /\ Hears(last_key) /\ tty_at' = "callback" /\ cb_of' = "raw"
  /\ last_key' \in (IF last_key \in {ENTER, heard} THEN {NOTHING} ELSE {NOTHING, last_key})
  /\ RawOthers /\ UNCHANGED <<records_left, lacked, console>>

NoBuffer ==
  /\ BuffersLacking /\ ~lacked /\ lacked' = TRUE
  /\ tty_at = "raw" /\ Has("reading") /\ last_key # NOTHING
  /\ tty_at' = "callback" /\ cb_of' = "raw_out"
  /\ RawOthers /\ UNCHANGED <<last_key, records_left, console, heard, phantom>>

RawDone ==
  /\ tty_at = "raw" /\ (~Has("reading") \/ (last_key = NOTHING /\ records_left = 0))
  /\ tty_at' = "out"
  /\ RawOthers /\ UNCHANGED <<rawVars, console, cb_of, heard, phantom>>

RawReqEnds ==
  /\ tty_at = "out" /\ tty_at' = "idle"
  /\ ReadReqEnds(tty_flags)
  /\ UNCHANGED <<tty_active, rawVars, line_read, output_lock, consoleVars, tty_then, tty_back, cb_of, lateTtyVars>>

TtyCbReturns ==
  /\ tty_at = "callback"
  /\ tty_at' = (IF cb_of = "raw_out" THEN "out" ELSE cb_of) /\ cb_of' = "none"
  /\ RawOthers /\ UNCHANGED <<rawVars, console, heard, phantom>>

uv__tty_endgame ==
  /\ tty_at = "idle" /\ tty_life = "endgame" /\ tty_life' = "closed"
  /\ UNCHANGED <<tty_flags, tty_reqs, tty_active, line_buffer, rawVars, threadTtyVars, output_lock, consoleVars,
                 atTtyVars, historyVars>>

TtyLoop ==
  \/ TakeLock \/ SetTrap \/ PressEnter \/ ModeSet \/ Written
  \/ LineRead \/ LineReqEnds \/ RawRead \/ NextRecord \/ NextKey \/ NoBuffer \/ RawDone \/ RawReqEnds
  \/ TtyCbReturns \/ uv__tty_endgame

TtyOver == tty_life = "closed" /\ UNCHANGED winTtyVars

WinTtyNext ==
  \/ TtyOver \/ TtyLoop \/ ConsoleThread \/ UserTypes
  \/ uv__tty_read_start \/ uv__tty_read_stop \/ SetMode \/ uv__tty_close \/ TtyWrites

-----------------------------------------------------------------------------
(* Properties *)

\* The lock has one holder: the loop, then the thread, from the cancelling on
\* until the screen is as it was.  It is neither lost nor given back twice.
LockHandedOver ==
  output_lock = IF \/ tty_at = "trap"
                   \/ read_status = "TRAP_REQUESTED" /\ tty_read_at \in {"console", "ended"}
                   \/ tty_read_at = "undo"
                  THEN 0 ELSE 1

\* One read at most is under way, counted until it is processed; reading keeps
\* the loop alive.
TtyCounted ==
  /\ tty_read_at # "idle" <=> Has("read_pending")
  /\ tty_reqs = (IF tty_read_at = "idle" THEN 0 ELSE 1)
                + (IF cb_of \in {"line", "raw", "raw_out"} \/ tty_at \in {"line", "raw", "out"} THEN 1 ELSE 0)
  /\ tty_active = IF Has("reading") THEN 1 ELSE 0

\* What is typed is read in its order, only a read that was stopped may swallow
\* it, and what nobody typed is read only if the user pressed ENTER first, while
\* the program was about to.
ReadsWhatIsTyped == ~swallowed /\ (phantom => pressed_late)
InTypedOrder == [][heard' >= heard]_winTtyVars

\* The loop gets the lock back, a cancelled read comes back, and a closing handle
\* is closed, though the user types nothing; what is typed is read while reading
\* goes on (but for the bytes of a key that alloc_cb had no buffer for: they
\* wait for the next event).
TtyProgress ==
  /\ []<>(tty_at \notin {"lock", "mode", "write"})
  /\ []<>(tty_life \notin {"closing", "endgame"})
  /\ []<>~(Has("cancellation_pending") /\ tty_read_at # "idle")
  /\ []<>((console = <<>> /\ (last_key = NOTHING \/ lacked)) \/ ~Has("reading") \/ tty_life # "open")

\* What reading from a console promises on Windows: all of the above.
WinTtyPromise ==
  [](LockHandedOver /\ TtyCounted /\ ReadsWhatIsTyped) /\ InTypedOrder /\ TtyProgress
=============================================================================
