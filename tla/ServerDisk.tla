----------------------------- MODULE ServerDisk -----------------------------
(***************************************************************************)
(* The server's local replica on a real disk engine.  ServerDispatch lets *)
(* the local subtask complete in one step; here the flash store hands it  *)
(* to the I/O engine app_context.engine selects (PfAioEngine or           *)
(* PfIouringEngine, pf_ioengine.cpp), submit_io gives its aio_cb or sqe   *)
(* to the kernel, and the engine's poller thread reaps the completion and *)
(* turns it into a status.  The composition is shown to implement         *)
(* ServerDispatch with the engine's state hidden.                         *)
(***************************************************************************)
EXTENDS ServerDispatch

\* PfAppCtx::engine.  SPDK is left out: PfspdkEngine::init returns an
\* error on every path that allocates its qpairs (README).
Engines == {"AIO", "IO_URING"}

\* What the kernel reports for a read or write of cmd->length bytes: all of
\* it, or less (a short transfer or a negative errno).
Lengths == {"FULL", "SHORT"}

\* io_event::res2 of libaio: zero or a negative error.
Res2 == {"OK", "NEG"}

VARIABLES
  engine,   \* app_context.engine of the disk
  kernel,   \* [Iocbs -> {"None", "InFlight"}]: whether the kernel holds the
            \* local subtask's aio_cb (or sqe) and the iocb's data buffer
  uringUp   \* whether PfIouringEngine::polling_proc is still running

dvars == <<vars, engine, kernel, uringUp>>

-----------------------------------------------------------------------------
(* Submission, on the flash store's thread                                 *)

\* PfIoEngine::submit_io: the local subtask's buffer and length go to the
\* kernel in one request.
Submit(i) ==
  /\ sub[i][LocalRep].st = "Backend"
  /\ kernel[i] = "None"
  /\ kernel' = [kernel EXCEPT ![i] = "InFlight"]
  /\ UNCHANGED <<vars, engine, uringUp>>

\* io_prep_pread/io_prep_pwrite of the aio_cb, then io_submit.
AioSubmitIo(i) == engine = "AIO" /\ Submit(i)

\* io_uring_get_sqe, io_uring_prep_read_fixed/write_fixed into the
\* registered buffer, then io_uring_submit.
UringSubmitIo(i) == engine = "IO_URING" /\ Submit(i)

-----------------------------------------------------------------------------
(* Completion, on the engine's poller thread                               *)

\* The completed subtask's status goes to SubTask::complete (or, on error,
\* through the error handler with MSG_STATUS_AIOERROR), which posts
\* EVT_IO_COMPLETE to the dispatcher.
Reaped(i, s) ==
  /\ sub' = [sub EXCEPT ![i][LocalRep] = [st |-> "Posted", res |-> s, mv |-> 0]]
  /\ dq' = Append(dq, CompleteEvt(i, LocalRep))

\* polling_proc of AIO: a read or write is in error when res differs from
\* cmd->length or res2 is negative.
AioStatus(len, res2) == IF len = "FULL" /\ res2 = "OK" THEN SUCCESS ELSE AIOERROR

\* (Mutant) the error handler records AIOERROR but never posts
\* EVT_IO_COMPLETE.
AioReapNoPostOnError(i) ==
  /\ engine = "AIO"
  /\ kernel[i] = "InFlight"
  /\ \E len \in Lengths, res2 \in Res2 :
       LET s == AioStatus(len, res2) IN
         /\ sub' = [sub EXCEPT ![i][LocalRep] = [st |-> "Posted", res |-> s, mv |-> 0]]
         /\ dq' = IF s = SUCCESS THEN Append(dq, CompleteEvt(i, LocalRep)) ELSE dq
  /\ kernel' = [kernel EXCEPT ![i] = "None"]
  /\ UNCHANGED <<free, ref, conn, stage, isWrite, taskMask, status, metaVer,
                 req, nreq, replies, connState, hs, connRef, pc, faults, engine, uringUp>>

\* io_getevents returns the aio_cb (a failed io_getevents is retried and
\* changes nothing).
AioReap(i) ==
  /\ engine = "AIO"
  /\ kernel[i] = "InFlight"
  /\ \E len \in Lengths, res2 \in Res2 : Reaped(i, AioStatus(len, res2))
  /\ kernel' = [kernel EXCEPT ![i] = "None"]
  /\ UNCHANGED <<free, ref, conn, stage, isWrite, taskMask, status, metaVer,
                 req, nreq, replies, connState, hs, connRef, pc, faults, engine, uringUp>>

\* polling_proc of io_uring: only cqe->res is compared with cmd->length.
UringStatus(res) == IF res = "FULL" THEN SUCCESS ELSE AIOERROR

\* (Mutant) the completion is reported but io_uring_cqe_seen is left out,
\* so the kernel keeps the request as outstanding.
UringReapNoSeen(i) ==
  /\ engine = "IO_URING"
  /\ uringUp
  /\ kernel[i] = "InFlight"
  /\ sub[i][LocalRep].st = "Backend"
  /\ \E res \in Lengths : Reaped(i, UringStatus(res))
  /\ UNCHANGED kernel
  /\ UNCHANGED <<free, ref, conn, stage, isWrite, taskMask, status, metaVer,
                 req, nreq, replies, connState, hs, connRef, pc, faults, engine, uringUp>>

\* (Mutant) an io_uring error is recorded without posting EVT_IO_COMPLETE.
UringReapNoPostOnError(i) ==
  /\ engine = "IO_URING"
  /\ uringUp
  /\ kernel[i] = "InFlight"
  /\ \E res \in Lengths :
       /\ sub' = [sub EXCEPT ![i][LocalRep] = [st |-> "Posted", res |-> UringStatus(res), mv |-> 0]]
       /\ dq' = IF res = "FULL" THEN Append(dq, CompleteEvt(i, LocalRep)) ELSE dq
  /\ kernel' = [kernel EXCEPT ![i] = "None"]
  /\ UNCHANGED <<free, ref, conn, stage, isWrite, taskMask, status, metaVer,
                 req, nreq, replies, connState, hs, connRef, pc, faults, engine, uringUp>>

\* io_uring_wait_cqe fails: polling_proc logs the error and returns, and
\* no completion of this disk is reaped again.
UringWaitFail ==
  /\ engine = "IO_URING"
  /\ uringUp
  /\ uringUp' = FALSE
  /\ UNCHANGED <<vars, engine, kernel>>

\* io_uring_wait_cqe returns the completion and io_uring_cqe_seen frees
\* its slot of the completion ring.
UringReap(i) ==
  /\ engine = "IO_URING"
  /\ uringUp
  /\ kernel[i] = "InFlight"
  /\ \E res \in Lengths : Reaped(i, UringStatus(res))
  /\ kernel' = [kernel EXCEPT ![i] = "None"]
  /\ UNCHANGED <<free, ref, conn, stage, isWrite, taskMask, status, metaVer,
                 req, nreq, replies, connState, hs, connRef, pc, faults, engine, uringUp>>

-----------------------------------------------------------------------------

DiskInit ==
  /\ Init
  /\ engine \in Engines
  /\ kernel = [i \in Iocbs |-> "None"]
  /\ uringUp = TRUE

LocalDisk(i) == AioSubmitIo(i) \/ UringSubmitIo(i) \/ AioReap(i) \/ UringReap(i)

DiskNext ==
  \/ NetAndDispatch /\ UNCHANGED <<engine, kernel, uringUp>>
  \/ \E i \in Iocbs : LocalDisk(i)
  \/ UringWaitFail

\* As ServerDispatch, with the flash store's thread and the engine's
\* poller making progress while it runs.  io_uring_wait_cqe failing is
\* not a step the system must take, so UringWaitFail has no fairness.
DiskFairness ==
  /\ \A i \in Iocbs : /\ WF_vars(DataReceived(i)) /\ WF_vars(SendDone(i))
                      /\ WF_vars(FlushDone(i)) /\ WF_vars(RemoteStep(i))
                      /\ WF_dvars(LocalDisk(i))
  /\ \A t \in Pollers : WF_vars(ReleaseConn(t)) /\ WF_vars(RepostRecv(t))
  /\ WF_vars(DispatchIo) /\ WF_vars(DispatchComplete)

DiskSpec == DiskInit /\ [][DiskNext]_dvars /\ DiskFairness

-----------------------------------------------------------------------------
(* Properties                                                              *)

\* The kernel only ever holds the buffer of a subtask that is still waiting
\* for its disk: while an aio_cb or sqe is in flight, its iocb has not been
\* joined, answered or returned to iocb_pool, so no later request can reuse
\* the data buffer the disk is still reading or writing.
KernelOwnsLiveIocb ==
  \A i \in Iocbs : kernel[i] = "InFlight" =>
     /\ sub[i][LocalRep].st = "Backend"
     /\ i \notin free
     /\ LocalRep \in taskMask[i]

\* Every request head queued to the dispatcher is answered exactly once,
\* through the disk's completion, unless the io_uring poller has exited:
\* after polling_proc returns, a local subtask it should have reaped never
\* completes, and neither does its request.
DiskRequestAnswered ==
  \A q \in 1..MaxReq : ReqQueued(q) ~> (replies[q] = 1 \/ ~uringUp)

\* A closed connection is eventually released, every iocb it holds
\* returning to the pool, unless the io_uring poller has exited with one of
\* them still in the kernel.
DiskClosedConnDrains ==
  \A c \in Conns : (connState[c] = "CLOSED") ~> (connRef[c] = 0 \/ ~uringUp)

\* The engines implement ServerDispatch's local back end: with engine,
\* kernel and uringUp hidden, every submission and the poller's exit are
\* stutters and every reap is one LocalComplete step; and in a behaviour
\* where the io_uring poller never exits (always, with AIO, whose poller
\* retries a failed io_getevents), the threads' fairness yields
\* ServerDispatch's fairness.
Abs == INSTANCE ServerDispatch

LocalDiskRefinesBackend ==
  /\ Abs!Init /\ [][Abs!Next]_vars
  /\ []uringUp => Abs!Fairness

=============================================================================
