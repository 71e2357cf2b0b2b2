-------------------------------- MODULE FsCopy --------------------------------
(***************************************************************************)
(* uv__fs_copyfile of unix/fs.c, with the ways uv__fs_sendfile moves data: *)
(* copy_file_range, sendfile and a loop of read and write.  Each call may  *)
(* move less than it was asked to, or fail.  A file is the sequence of the *)
(* units it holds; unit i of the source is i.                              *)
(***************************************************************************)
EXTENDS Integers, Sequences

CONSTANTS
  FileSize,    \* units of the source
  BadUnits,    \* units of the source that cannot be read (EIO)
  CloseFails   \* close(2) may report an error

ASSUME FsCopyAssumption == FileSize \in Nat /\ BadUnits \subseteq 1..FileSize /\ CloseFails \in BOOLEAN

VARIABLES
  step,          \* the next call; "done" when uv__fs_copyfile has returned
  setting,       \* what the flags and the two files are like, see FsCopyInit
  opened,        \* descriptors that are open: "src", "dst"
  dst,           \* what the destination holds; <<"old">> before it is truncated
  exists,        \* the destination exists
  copied,        \* the result: "ok" or "err"
  in_offset,     \* where the next chunk starts
  nsent,         \* uv__fs_sendfile_emul: what it has moved
  use_pread,     \* ... and how it reads
  buf,           \* ... and what it has read but not written
  position       \* the file position of srcfd

emulVars == <<nsent, use_pread, buf>>
fsCopyVars == <<step, setting, opened, dst, exists, copied, in_offset, emulVars, position>>

Settings == [excl : BOOLEAN,                          \* UV_FS_COPYFILE_EXCL
             clone : {"no", "try", "force"},          \* ..._FICLONE, ..._FICLONE_FORCE
             same : BOOLEAN,                          \* both paths name one file
             ranges : BOOLEAN,                        \* copy_file_range works for them
             sendfile : BOOLEAN,                      \* sendfile does
             positional : BOOLEAN]                    \* the source supports pread

FsCopyInit ==
  /\ step = "open"
  /\ setting \in {s \in Settings : (s.ranges \/ s.sendfile => s.positional) /\ ~(s.same /\ s.clone # "no")}
  /\ opened = {}
  /\ exists \in BOOLEAN /\ (setting.same => exists)
  /\ dst = IF exists THEN <<"old">> ELSE <<>>
  /\ copied = "ok"
  /\ in_offset = 0 /\ nsent = 0 /\ use_pread = TRUE /\ buf = <<>> /\ position = 0

toSend == FileSize - in_offset

\* goto out, with err set.
GiveUp == copied' = "err" /\ step' = "close_src"

-----------------------------------------------------------------------------
(* Before the data is copied                                                *)

\* The source is opened and examined.
OpenSource ==
  /\ step = "open"
  /\ \/ copied' = "err" /\ step' = "done" /\ UNCHANGED opened
     \/ opened' = {"src"} /\ (GiveUp \/ (step' = "open_dst" /\ UNCHANGED copied))
  /\ UNCHANGED <<setting, dst, exists, in_offset, emulVars, position>>

\* The destination is created, or opened if the flags allow it.
OpenDest ==
  /\ step = "open_dst"
  /\ \/ GiveUp /\ UNCHANGED <<opened, exists>>
     \/ /\ ~(setting.excl /\ exists)
        /\ opened' = opened \cup {"dst"}
        /\ exists' = TRUE
        /\ step' = IF setting.excl THEN "attributes" ELSE "truncate"
        /\ UNCHANGED copied
  /\ UNCHANGED <<setting, dst, in_offset, emulVars, position>>

\* A file is not copied onto itself.  EACCES of ftruncate does not matter for
\* an empty file.
Truncate ==
  /\ step = "truncate"
  /\ \/ GiveUp /\ UNCHANGED dst
     \/ setting.same /\ step' = "close_src" /\ UNCHANGED <<dst, copied>>
     \/ ~setting.same /\ dst' = <<>> /\ step' = "attributes" /\ UNCHANGED copied
  /\ UNCHANGED <<setting, opened, exists, in_offset, emulVars, position>>

\* futimens and fchmod, then ioctl(FICLONE).
Attributes ==
  /\ step = "attributes"
  /\ \/ GiveUp
     \/ step' = (IF setting.clone = "no" THEN "chunk" ELSE "clone") /\ UNCHANGED copied
  /\ UNCHANGED <<setting, opened, dst, exists, in_offset, emulVars, position>>

Clone ==
  /\ step = "clone"
  /\ \/ dst' = [i \in 1..FileSize |-> i] /\ step' = "close_src" /\ UNCHANGED copied
     \/ /\ IF setting.clone = "force" THEN GiveUp ELSE step' = "chunk" /\ UNCHANGED copied
        /\ UNCHANGED dst
  /\ UNCHANGED <<setting, opened, exists, in_offset, emulVars, position>>

-----------------------------------------------------------------------------
(* uv__fs_sendfile, for what is left from in_offset on                      *)

Units(from, n) == [i \in 1..n |-> from + i]
Readable(from, n) == \A i \in (from + 1)..(from + n) : i \notin BadUnits

\* How far a read of at most n units at an offset may get.
Progress(from, n) == {k \in 1..n : from + k <= FileSize /\ Readable(from, k)}
ReadFails(from) == from + 1 \in BadUnits

\* The loop of uv__fs_copyfile; the last chunk may be followed by others.
NextChunk ==
  /\ step = "chunk"
  /\ step' = IF toSend = 0 THEN "close_src" ELSE "kernel"
  /\ UNCHANGED <<setting, opened, dst, exists, copied, in_offset, emulVars, position>>

\* The kernel moves the data, or else EIO, EINVAL or EXDEV makes libuv do it.
KernelMoves ==
  /\ step = "kernel" /\ (setting.ranges \/ setting.sendfile)
  /\ \E k \in Progress(in_offset, toSend) :
       /\ dst' = dst \o Units(in_offset, k)
       /\ in_offset' = in_offset + k
  /\ step' = "chunk"
  /\ UNCHANGED <<setting, opened, exists, copied, emulVars, position>>

KernelRefuses ==
  /\ step = "kernel"
  /\ ~(setting.ranges \/ setting.sendfile) \/ ReadFails(in_offset)
  /\ step' = "emul"
  /\ nsent' = 0 /\ use_pread' = TRUE /\ buf' = <<>>
  /\ UNCHANGED <<setting, opened, dst, exists, copied, in_offset, position>>

\* Any other error ends the copy.
KernelFails ==
  /\ step = "kernel" /\ GiveUp
  /\ UNCHANGED <<setting, opened, dst, exists, in_offset, emulVars, position>>

-----------------------------------------------------------------------------
(* uv__fs_sendfile_emul                                                     *)

EmulOffset == IF use_pread THEN in_offset + nsent ELSE position

\* It returns what it sent; a read error counts only if that is nothing.
EmulReturns ==
  /\ step' = "chunk"
  /\ in_offset' = in_offset + nsent
  /\ UNCHANGED copied

CanRead == setting.positional \/ ~use_pread

EmulRead ==
  /\ step = "emul" /\ buf = <<>> /\ nsent < toSend /\ CanRead
  /\ \E k \in Progress(EmulOffset, toSend - nsent) :
       /\ buf' = Units(EmulOffset, k)
       /\ position' = IF use_pread THEN position ELSE position + k
  /\ UNCHANGED <<step, setting, opened, dst, exists, copied, in_offset, nsent, use_pread>>

\* EIO and ESPIPE of the first pread make it read sequentially.
Falls == use_pread /\ nsent = 0

EmulReadFails ==
  /\ step = "emul" /\ buf = <<>> /\ nsent < toSend
  /\ ~CanRead \/ ReadFails(EmulOffset)
  /\ IF Falls
       THEN use_pread' = FALSE /\ UNCHANGED <<step, in_offset, copied>>
       ELSE /\ UNCHANGED use_pread
            /\ IF nsent = 0 THEN GiveUp /\ UNCHANGED in_offset ELSE EmulReturns
  /\ UNCHANGED <<setting, opened, dst, exists, nsent, buf, position>>

\* The end of the source, which a sequential read may reach early.
EmulEnd ==
  /\ step = "emul" /\ buf = <<>>
  /\ nsent = toSend \/ (CanRead /\ EmulOffset >= FileSize)
  /\ EmulReturns
  /\ UNCHANGED <<setting, opened, dst, exists, emulVars, position>>

\* What a write of k units leaves in the buffer.
ShortWriteForgotten(k) == <<>>
Unwritten(k) == SubSeq(buf, k + 1, Len(buf))

EmulWrite ==
  /\ step = "emul" /\ buf # <<>>
  /\ \/ \E k \in 1..Len(buf) :
          /\ dst' = dst \o SubSeq(buf, 1, k)
          /\ buf' = Unwritten(k)
          /\ nsent' = nsent + Len(buf) - Len(Unwritten(k))
          /\ UNCHANGED <<step, copied>>
     \/ GiveUp /\ UNCHANGED <<dst, buf, nsent>>
  /\ UNCHANGED <<setting, opened, exists, in_offset, use_pread, position>>

-----------------------------------------------------------------------------
(* Label out                                                                *)

Closed(failed) == IF failed THEN "err" ELSE copied

CloseSource ==
  /\ step = "close_src"
  /\ opened' = opened \ {"src"}
  /\ \E failed \in {FALSE, CloseFails} : copied' = Closed(failed)
  /\ step' = IF "dst" \in opened THEN "close_dst" ELSE "done"
  /\ UNCHANGED <<setting, dst, exists, in_offset, emulVars, position>>

\* What went wrong is removed.
CloseDest ==
  /\ step = "close_dst"
  /\ opened' = opened \ {"dst"}
  /\ \E failed \in {FALSE, CloseFails} :
       /\ copied' = Closed(failed)
       /\ exists' = (Closed(failed) = "ok")
  /\ step' = "done"
  /\ UNCHANGED <<setting, dst, in_offset, emulVars, position>>

CopyDone == step = "done" /\ UNCHANGED fsCopyVars

FsCopyNext ==
  \/ OpenSource \/ OpenDest \/ Truncate \/ Attributes \/ Clone \/ NextChunk
  \/ KernelMoves \/ KernelRefuses \/ KernelFails
  \/ EmulRead \/ EmulReadFails \/ EmulEnd \/ EmulWrite \/ CloseSource \/ CloseDest
  \/ CopyDone

FsCopySpec == FsCopyInit /\ [][FsCopyNext]_fsCopyVars

-----------------------------------------------------------------------------
(* Properties *)

\* A copy that succeeds leaves a destination that holds the source, no unit
\* twice and none missing, whatever mixture of calls moved it; one that fails
\* after the destination was opened leaves none; no descriptor is left open.
CopyIsExact ==
  step = "done" =>
    /\ opened = {}
    /\ copied = "ok" => exists /\ dst = IF setting.same THEN <<"old">> ELSE Units(0, FileSize)
    /\ copied = "err" => ~exists \/ dst = <<"old">>

\* uv__fs_sendfile_emul says of its rules that they are there "to stop them from
\* sending it twice": no unit of the source is written to the destination again,
\* however the calls that move the data take turns.
NothingSentTwice == \A i, j \in DOMAIN dst : dst[i] = dst[j] => i = j
=============================================================================
