------------------------------- MODULE FsRequest -------------------------------
(***************************************************************************)
(* A file system request from uv_fs_xxx to uv_fs_req_cleanup: unix/fs.c    *)
(* and the io_uring of unix/linux.c.  A request is served at once, by the  *)
(* thread pool, or by the kernel through two rings; at each turn it owns   *)
(* other memory, and uv_fs_req_cleanup must free exactly that.  What the   *)
(* operations do to files is not modelled; the pool is a set of requests.  *)
(***************************************************************************)
EXTENDS Integers, Sequences, FiniteSets

CONSTANTS
  FsReqs,        \* the requests
  RingKinds,     \* kinds the ring serves on this kernel; {} without io_uring
  SqRoom,        \* free slots of the submission ring
  CqRoom,        \* slots of the completion ring
  StatxLacking   \* the kernel may answer -EOPNOTSUPP to a statx

\* One kind for all operations that treat memory alike: "readlink" stands for
\* realpath and statfs too, "mkdtemp" for mkstemp.
FsKinds == {"open", "stat", "close", "read", "write", "mkdtemp", "readlink", "scandir",
            "opendir", "readdir"}

ASSUME FsRequestAssumption ==
  /\ RingKinds \subseteq {"open", "stat", "close", "read", "write"}
  /\ SqRoom \in Nat \ {0} /\ CqRoom \in Nat \ {0} /\ StatxLacking \in BOOLEAN

VARIABLES
  stage,       \* "free", "ring", "pool", "running", "worked", or "called": it is the user's
  fs_type,     \* the kind
  with_cb,     \* req->cb is set
  path,        \* req->path: "null", "user" memory or "heap"
  bufs,        \* req->bufs: "null", "user", "small" (bufsml) or "heap"
  ptr,         \* req->ptr: "null", "statbuf", "statx", "answer", "dents" or the user's "dir"
  fs_result,   \* req->fs_result: "none", "ok", "err" or "cancelled"
  nbufs,       \* the index uv_fs_scandir_next keeps in req->nbufs
  allocated,   \* what is allocated for the request
  wild,        \* history: something was freed that is not allocated
  sq,          \* submissions the kernel has not taken
  in_kernel,   \* requests in the kernel
  cq,          \* the completion ring, from its head
  overflow,    \* completions it has no room for
  seen,        \* uv__poll_io_uring: the completions it still handles; cq keeps them
  reaping,     \* ... and how many these were; 0 if it does not run
  in_flight,   \* iou->in_flight
  active_reqs  \* loop->active_reqs

reqFields == <<fs_type, with_cb, path, bufs, ptr, fs_result, nbufs, allocated, wild>>
ringVars == <<sq, in_kernel, cq, overflow, seen, reaping, in_flight>>
fsRequestVars == <<stage, reqFields, ringVars, active_reqs>>

FsRequestInit ==
  /\ stage = [q \in FsReqs |-> "free"]
  /\ fs_type = [q \in FsReqs |-> "open"]
  /\ with_cb = [q \in FsReqs |-> FALSE]
  /\ path = [q \in FsReqs |-> "null"]
  /\ bufs = [q \in FsReqs |-> "null"]
  /\ ptr = [q \in FsReqs |-> "null"]
  /\ fs_result = [q \in FsReqs |-> "none"]
  /\ nbufs = [q \in FsReqs |-> 0]
  /\ allocated = [q \in FsReqs |-> {}]
  /\ wild = FALSE
  /\ sq = <<>> /\ in_kernel = {} /\ cq = <<>> /\ overflow = <<>>
  /\ seen = <<>> /\ reaping = 0
  /\ in_flight = 0 /\ active_reqs = 0

\* The entries of a scanned directory, each allocated by itself.
Entries == 2
Entry(i) == <<"entry1", "entry2">>[i]
EntriesFrom(i) == {Entry(j) : j \in i..Entries}

-----------------------------------------------------------------------------
(* What the user passes, and what the request copies of it.                 *)

TakesPath(k) == k \in {"open", "stat", "mkdtemp", "readlink", "scandir", "opendir"}
TakesBufs(k) == k \in {"read", "write"}

\* PATH copies the path of an asynchronous request; uv_fs_mkdtemp always does.
PathOf(k, async) == IF ~TakesPath(k) THEN "null"
                    ELSE IF async \/ k = "mkdtemp" THEN "heap" ELSE "user"

\* Few buffers fit into bufsml; a synchronous read uses the user's array.
BufsOf(k, async) == IF ~TakesBufs(k) THEN {"null"}
                    ELSE IF k = "read" /\ ~async THEN {"user"} ELSE {"small", "heap"}

Owned(p, b) == (IF p = "heap" THEN {"path"} ELSE {}) \cup (IF b = "heap" THEN {"bufs"} ELSE {})

\* A request as INIT and the arguments leave it.
Prepared(q, k, async, b) ==
  /\ stage[q] = "free"
  /\ fs_type' = [fs_type EXCEPT ![q] = k]
  /\ with_cb' = [with_cb EXCEPT ![q] = async]
  /\ path' = [path EXCEPT ![q] = PathOf(k, async)]
  /\ bufs' = [bufs EXCEPT ![q] = b]
  /\ nbufs' = [nbufs EXCEPT ![q] = 0]

\* uv__iou_get_sqe and uv__iou_submit: there must be room in the ring.
ToRing(q) ==
  /\ Len(sq) < SqRoom
  /\ sq' = Append(sq, q)
  /\ in_flight' = in_flight + 1
  /\ UNCHANGED <<in_kernel, cq, overflow, seen, reaping>>

\* uv_fs_xxx with a callback; more than IOV_MAX buffers to write go to the pool.
SubmitAsync(q, k) ==
  /\ \E b \in BufsOf(k, TRUE) :
       /\ Prepared(q, k, TRUE, b)
       /\ \/ /\ k \in RingKinds
             /\ ToRing(q)
             /\ stage' = [stage EXCEPT ![q] = "ring"]
             /\ ptr' = [ptr EXCEPT ![q] = IF k = "stat" THEN "statx" ELSE "null"]
             /\ allocated' = [allocated EXCEPT ![q] = Owned(PathOf(k, TRUE), b)
                                              \cup (IF k = "stat" THEN {"statx"} ELSE {})]
          \/ /\ k \notin RingKinds \/ Len(sq) = SqRoom \/ (k = "write" /\ b = "heap")
             /\ stage' = [stage EXCEPT ![q] = "pool"]
             /\ ptr' = [ptr EXCEPT ![q] = IF k = "readdir" THEN "dir" ELSE "null"]
             /\ allocated' = [allocated EXCEPT ![q] = Owned(PathOf(k, TRUE), b)]
             /\ UNCHANGED ringVars
  /\ fs_result' = [fs_result EXCEPT ![q] = "none"]
  /\ active_reqs' = active_reqs + 1
  /\ UNCHANGED wild

\* uv__fs_work: what the operation leaves in the request.  A read frees the
\* copy of the buffers, which a synchronous one does not have; a write has it.
BufsFreed(k, b) == IF TakesBufs(k) /\ b = "heap" THEN {"bufs"} ELSE {}

Gained(k) == IF k = "scandir" THEN {"dents"} \cup EntriesFrom(1)
             ELSE IF k = "readdir" THEN {"names"}
             ELSE IF k = "readlink" THEN {"answer"} ELSE {}

Results == [stat |-> "statbuf", scandir |-> "dents", readlink |-> "answer", opendir |-> "dir"]
PtrAfter(k, p, r) == IF r = "ok" /\ k \in DOMAIN Results THEN Results[k] ELSE p

HeapAfter(k, h, b, r) == (h \ BufsFreed(k, b)) \cup (IF r = "ok" THEN Gained(k) ELSE {})

\* Without a callback the work is done before the call returns.
SubmitSync(q, k) ==
  /\ \E b \in BufsOf(k, FALSE), r \in {"ok", "err"} :
       /\ stage[q] = "free"
       /\ fs_type' = [fs_type EXCEPT ![q] = k]
       /\ with_cb' = [with_cb EXCEPT ![q] = FALSE]
       /\ path' = [path EXCEPT ![q] = PathOf(k, FALSE)]
       /\ bufs' = [bufs EXCEPT ![q] = "null"]
       /\ nbufs' = [nbufs EXCEPT ![q] = 0]
       /\ fs_result' = [fs_result EXCEPT ![q] = r]
       /\ ptr' = [ptr EXCEPT ![q] = PtrAfter(k, IF k = "readdir" THEN "dir" ELSE "null", r)]
       /\ allocated' = [allocated EXCEPT ![q] = HeapAfter(k, Owned(PathOf(k, FALSE), b), b, r)]
  /\ stage' = [stage EXCEPT ![q] = "called"]
  /\ UNCHANGED <<wild, ringVars, active_reqs>>

-----------------------------------------------------------------------------
(* The thread pool.                                                         *)

StartWork(q) ==
  /\ stage[q] = "pool"
  /\ stage' = [stage EXCEPT ![q] = "running"]
  /\ UNCHANGED <<reqFields, ringVars, active_reqs>>

uv__fs_work(q) ==
  /\ stage[q] = "running"
  /\ stage' = [stage EXCEPT ![q] = "worked"]
  /\ \E r \in {"ok", "err"} :
       /\ fs_result' = [fs_result EXCEPT ![q] = r]
       /\ ptr' = [ptr EXCEPT ![q] = PtrAfter(fs_type[q], @, r)]
       /\ allocated' = [allocated EXCEPT ![q] = HeapAfter(fs_type[q], @, bufs[q], r)]
       /\ bufs' = [bufs EXCEPT ![q] = IF TakesBufs(fs_type[q]) THEN "null" ELSE @]
  /\ UNCHANGED <<fs_type, with_cb, path, nbufs, wild, ringVars, active_reqs>>

\* uv_cancel: only what the pool has not begun; a request in the ring was given
\* an empty queue node and no work function, which makes it busy.
uv_cancel(q) ==
  /\ stage[q] = "pool" /\ fs_result[q] = "none"
  /\ stage' = [stage EXCEPT ![q] = "worked"]
  /\ fs_result' = [fs_result EXCEPT ![q] = "cancelled"]
  /\ UNCHANGED <<fs_type, with_cb, path, bufs, ptr, nbufs, allocated, wild, ringVars, active_reqs>>

uv__fs_done(q) ==
  /\ stage[q] = "worked"
  /\ stage' = [stage EXCEPT ![q] = "called"]
  /\ active_reqs' = active_reqs - 1
  /\ UNCHANGED <<reqFields, ringVars>>

-----------------------------------------------------------------------------
(* The rings.                                                               *)

KernelTakes ==
  /\ sq # <<>>
  /\ in_kernel' = in_kernel \cup {Head(sq)}
  /\ sq' = Tail(sq)
  /\ UNCHANGED <<stage, reqFields, cq, overflow, seen, reaping, in_flight, active_reqs>>

\* A completion waits in the kernel while the ring is full.
KernelCompletes(q) ==
  /\ q \in in_kernel
  /\ in_kernel' = in_kernel \ {q}
  /\ IF Len(cq) < CqRoom
       THEN cq' = Append(cq, q) /\ UNCHANGED overflow
       ELSE overflow' = Append(overflow, q) /\ UNCHANGED cq
  /\ UNCHANGED <<stage, reqFields, sq, seen, reaping, in_flight, active_reqs>>

\* uv__poll_io_uring handles what the ring holds when it begins ...
PollIoUring ==
  /\ reaping = 0 /\ cq # <<>>
  /\ seen' = cq
  /\ reaping' = Len(cq)
  /\ UNCHANGED <<stage, reqFields, sq, in_kernel, cq, overflow, in_flight, active_reqs>>

\* ... one after the other: it retries in the pool what the kernel does not
\* support, and calls back for the rest.
StatxFreed(q) == allocated[q] \ {"statx"}

Reap ==
  /\ reaping > 0 /\ seen # <<>>
  /\ seen' = Tail(seen)
  /\ in_flight' = in_flight - 1
  /\ LET q == Head(seen)
     IN \/ /\ stage' = [stage EXCEPT ![q] = "pool"]
           /\ fs_type[q] = "stat" => StatxLacking
           /\ UNCHANGED <<ptr, allocated, fs_result, active_reqs>>
        \/ /\ stage' = [stage EXCEPT ![q] = "called"]
           /\ \E r \in {"ok", "err"} :
                /\ fs_result' = [fs_result EXCEPT ![q] = r]
                /\ ptr' = [ptr EXCEPT ![q] = IF fs_type[q] = "stat" /\ r = "ok" THEN "statbuf"
                                             ELSE "null"]
           /\ allocated' = [allocated EXCEPT ![q] = StatxFreed(q)]
           /\ active_reqs' = active_reqs - 1
  /\ UNCHANGED <<fs_type, with_cb, path, bufs, nbufs, wild, sq, in_kernel, cq, overflow, reaping>>

\* Only then are their slots given back, and the kernel moves up what overflowed.
Reaped ==
  /\ reaping > 0 /\ seen = <<>>
  /\ reaping' = 0
  /\ LET rest == SubSeq(cq, reaping + 1, Len(cq)) \o overflow
         fits == IF Len(rest) < CqRoom THEN Len(rest) ELSE CqRoom
     IN /\ cq' = SubSeq(rest, 1, fits)
        /\ overflow' = SubSeq(rest, fits + 1, Len(rest))
  /\ UNCHANGED <<stage, reqFields, sq, in_kernel, seen, in_flight, active_reqs>>

-----------------------------------------------------------------------------
(* The user, in the callback or later.                                      *)

Free(q, what) ==
  /\ allocated' = [allocated EXCEPT ![q] = @ \ what]
  /\ wild' = (wild \/ ~(what \subseteq allocated[q]))

\* uv_fs_scandir_next frees the entry it gave out before, and all at the end.
uv_fs_scandir_next(q) ==
  /\ stage[q] = "called" /\ fs_type[q] = "scandir" /\ ptr[q] = "dents"
  /\ LET last == IF nbufs[q] > 0 THEN {Entry(nbufs[q])} ELSE {}
     IN IF nbufs[q] = Entries
          THEN /\ Free(q, last \cup {"dents"})
               /\ ptr' = [ptr EXCEPT ![q] = "null"]
               /\ UNCHANGED nbufs
          ELSE /\ Free(q, last)
               /\ nbufs' = [nbufs EXCEPT ![q] = @ + 1]
               /\ UNCHANGED ptr
  /\ UNCHANGED <<stage, fs_type, with_cb, path, bufs, fs_result, ringVars, active_reqs>>

\* uv__fs_scandir_cleanup: the entry given out last is still to be freed.
DentsSkippingLast(q) == IF ptr[q] # "dents" THEN {} ELSE {"dents"} \cup EntriesFrom(nbufs[q] + 1)
DentsFreed(q) ==
  IF ptr[q] # "dents" THEN {}
  ELSE {"dents"} \cup EntriesFrom(IF nbufs[q] > 0 THEN nbufs[q] ELSE 1)

NamesFreed(q) == IF fs_type[q] = "readdir" /\ ptr[q] = "dir" /\ fs_result[q] = "ok" THEN {"names"} ELSE {}

PathFreed(q) ==
  IF path[q] # "null" /\ (with_cb[q] \/ fs_type[q] = "mkdtemp") THEN {"path"} ELSE {}

\* The directory is the user's; the other cleanups have cleared req->ptr.
PtrFreed(q) == IF fs_type[q] \in {"opendir", "readdir", "scandir"} \/ ptr[q] \in {"null", "statbuf"}
                 THEN {} ELSE {ptr[q]}
BufsOfCleanup(q) == IF bufs[q] \in {"heap", "user"} THEN {"bufs"} ELSE {}

\* INIT sets the other fields, whatever they are before.
uv_fs_req_cleanup(q) ==
  /\ stage[q] = "called"
  /\ Free(q, PathFreed(q) \cup NamesFreed(q) \cup DentsFreed(q) \cup BufsOfCleanup(q) \cup PtrFreed(q))
  /\ path' = [path EXCEPT ![q] = "null"]
  /\ bufs' = [bufs EXCEPT ![q] = "null"]
  /\ ptr' = [ptr EXCEPT ![q] = "null"]
  /\ stage' = [stage EXCEPT ![q] = "free"]
  /\ nbufs' = [nbufs EXCEPT ![q] = 0]
  /\ fs_type' = [fs_type EXCEPT ![q] = "open"]
  /\ with_cb' = [with_cb EXCEPT ![q] = FALSE]
  /\ fs_result' = [fs_result EXCEPT ![q] = "none"]
  /\ UNCHANGED <<ringVars, active_reqs>>

FsRequestStep(q) == StartWork(q) \/ uv__fs_work(q) \/ uv__fs_done(q) \/ KernelCompletes(q)
RingStep == KernelTakes \/ PollIoUring \/ Reap \/ Reaped

FsRequestNext ==
  \/ RingStep
  \/ \E q \in FsReqs :
       \/ FsRequestStep(q) \/ uv_cancel(q) \/ uv_fs_scandir_next(q) \/ uv_fs_req_cleanup(q)
       \/ \E k \in FsKinds : SubmitAsync(q, k) \/ SubmitSync(q, k)

FsRequestSpec == FsRequestInit /\ [][FsRequestNext]_fsRequestVars

-----------------------------------------------------------------------------
(* Properties *)

\* Whichever way a request went, it frees only what it allocated, its fields
\* point to all it has allocated, and nothing is left after the cleanup.
MemoryOwned ==
  /\ ~wild
  /\ \A q \in FsReqs :
       /\ "path" \in allocated[q] => path[q] = "heap"
       /\ "bufs" \in allocated[q] => bufs[q] = "heap"
       /\ "statx" \in allocated[q] => ptr[q] = "statx"
       /\ \A what \in {"dents", "answer"} : what \in allocated[q] <=> ptr[q] = what
       /\ stage[q] = "free" => allocated[q] = {}

\* in_flight counts the requests whose completion is still to be handled, so
\* that uv__io_poll waits for them, and active_reqs all that will call back.
InFlightExact ==
  /\ in_flight = Cardinality({q \in FsReqs : stage[q] = "ring"})
  /\ active_reqs = Cardinality({q \in FsReqs : stage[q] \in {"ring", "pool", "running", "worked"}})

\* What a file request promises at any time: both of the above.
FsRequestPromise == MemoryOwned /\ InFlightExact

\* Each request with a callback is called back, also when the ring overflows.
FsRequestEnds == \A q \in FsReqs : []<>(stage[q] \in {"free", "called"})
=============================================================================
