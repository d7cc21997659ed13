# TLA+ models of the PureFlash data path

This directory holds TLA+ specifications of the concurrent parts of PureFlash
(`src/`). They are checked with TLC. `PROJECT.json` lists the components,
runs, mutants, the source lines each definition models (`map`), the findings
and the hazards.

## The system and its parts

PureFlash is a block store. A client library, `pf_client_api.cpp`, sends each
I/O to a store server. The server writes it to every replica of the shard and
answers once.

**Server** (`src/pfs`)
- **Pollers** run the TCP callbacks of their connections one at a time
  (`pf_server.cpp`):
  - the handshake, which allocates `io_depth*2` receive iocbs from the
    dispatcher's shared `iocb_pool`;
  - `server_on_tcp_network_done`: request head received, write data
    received, reply sent, and flush of a closed connection;
  - `server_on_conn_close`.
- **The dispatcher thread** (`PfDispatcher`, `pf_dispatcher.h`) takes
  `EVT_IO_REQ` and `EVT_IO_COMPLETE` from its event queue. It fans a request
  out into one `SubTask` per replica (`setup_subtask`, which sets `ref_count`
  and `task_mask`) and joins their completions. The last completion posts the
  reply.
- **Back ends** complete subtasks from other threads:
  - the local disk: the flash store submits the local subtask to the I/O
    engine `app_context.engine` selects (`PfAioEngine` or `PfIouringEngine`,
    `pf_ioengine.cpp`), and the engine's poller thread reaps the completion
    and calls `SubTask::complete` (a short transfer or error becomes
    `MSG_STATUS_AIOERROR`);
  - replicator connections for remote replicas (`SubTask::complete` with a
    `meta_ver`).
- **Freeing a slot.** `PfServerIocb::dec_ref` frees the slot when its count
  reaches zero, then drops the connection reference through the slot.

**Client** (`src/common/src/pf_client_api.cpp`)
- **The user thread** takes an iocb in `pf_io_submit` and posts
  `EVT_IO_REQ` to **vol_proc**.
- **vol_proc** runs `process_event`:
  - REQ: resolve the shard's connection with `get_shard_conn` (failing over
    between store IPs), post a reply bd, then send;
  - COMPLETE (`client_do_complete`): a final status calls the user back; a
    `MSG_STATUS_REOPEN` reply queues the request again and may request a
    reopen;
  - TIMEOUT: close the connection and `resend_io` with `command_seq + 2`;
  - REOPEN (`reopen_volume`);
  - RECONNECT: close every connection and reopen, but only when no iocb is
    in use.
- **The poller** receives replies (`client_on_tcp_network_done`). It matches
  them with `pick_iocb(command_id, command_seq)` and posts COMPLETE.
- **The timeout scanner** (`timeout_check_proc`) posts TIMEOUT for each
  expired iocb with `is_timeout` clear, and then sets `is_timeout`.

**Event threads** (`pf_event_thread.cpp`, `pf_spdk_ring.cpp`)
- Each `PfEventThread` consumes its queue on one thread. With the SPDK engine
  the queue is a `PfSpdkQueue`: an MP_SC spdk ring of `pf_spdk_msg` pointers.
- A post takes a message from `msg_cache_locked` under a spinlock, fills it
  and enqueues it. `post_event_locked` (server pollers) also sets
  `lock_cache_msg`; `post_event` (AIO completions, `stop()`, `sync_invoke`)
  does not.
- `thread_proc_spdkr` dequeues up to 8 messages, processes each and returns
  it with `put_event`: to `msg_cache_locked` if `lock_cache_msg` is set,
  else to `msg_cache`. `EVT_THREAD_EXIT` returns at once.
- `set_thread_queue` is never called, so the lock-free `tls_queue` path of
  `post_event` is dead and nothing ever takes from `msg_cache`.

## Modules

| Module | Models | State | Actions |
|---|---|---|---|
| `ServerDispatch` | server iocb pool, poller callbacks, dispatcher, back ends | `free`, `ref`, `conn`, `stage`, `taskMask`, `status`, `metaVer`, `sub` of each slot; connection state and `connRef`; dispatcher queue `dq`; per-poller phase `pc` (the `dec_ref` window); ghost `req`/`replies` | `HandshakeSent`, `HandshakeRecved`, `HeadReceived`, `DataReceived`, `SendDone`, `FlushDone`, `ReleaseConn`, `RepostRecv`, `PeerClose`, `DispatchIo`, `DispatchComplete`, `LocalComplete`, `RemoteComplete`, `RemoteRaise` |
| `ServerDisk` | `ServerDispatch` composed with the AIO and io_uring engines | all of `ServerDispatch`, plus `engine` (`app_context.engine`), `kernel` (whether the kernel holds the local subtask's aio_cb or sqe) and `uringUp` (whether the io_uring `polling_proc` still runs) | `NetAndDispatch` (every `ServerDispatch` step but the local back end), `AioSubmitIo`, `UringSubmitIo` (`submit_io`), `AioReap`, `UringReap` (`polling_proc`, with `AioStatus` checking res and res2, `UringStatus` only res), `UringWaitFail` (the poller returning on a failed `io_uring_wait_cqe`) |
| `SpdkBlocks` | `PfspdkEngine::spdk_nvme_bytes_to_blocks` and the alignment check of `sync_read`/`sync_write` | none (constant operators) | `BytesToBlocks` (shift path for power-of-two block sizes, division path otherwise), `SyncIoBlocks` |
| `MC_ServerDispatch` | model values and small sets for TLC; the `SpdkBlocks` check as an invariant | | |
| `ClientVolume` | client iocb pool, vol_proc, poller, scanner, shard failover, reopen | `vstate`, `curIp`, `opens` (open_time); per-IP connection `connUp`/`gen`/`recvs`; per-iocb `sent`, `isTimeout`, `ioConn`, `seq`, `owner`, `op` (READ or WRITE); `rx` (reads whose reply head is in and whose data_bd is receiving); `rfree` (reply_pool); `wire` (requests held by stores); `vq` (vol_proc queue); `scan`; ghost `cb` (callbacks per request) | `Submit`; one action per outcome of `process_event` (`ReqNoConn`, `ReqNoReplyBd`, `ReqPost`, `CompleteReopen`, `CompleteOk`, `TimeoutIgnored`, `TimeoutNotSent`, `TimeoutResend`, `ReopenStale`, `ReopenVolume`, `ReconnectBusy`, `ReconnectReopen`), and `NullConnCrash` (a COMPLETE or TIMEOUT whose `io->conn` is NULL); `Reply`, `ReadData` (a read's payload arriving), `ReplyAsData` (a reply head swallowed as data after a desync); `ScanPost`, `ScanFlag`; environment `ConnLost`, `IpRecover`, `ReconnectTick` |
| `ClientAlgorithms` | client algorithms as operators: the `EVT_SEND_HEARTBEAT` sweep over `ip_id_map` and the heartbeat reply; `iov_to_buf`, `iov_from_buf` | none (constant operators) | `SweepStep` (one loop iteration), `HeartbeatSweep` (the handler as a `FoldLeft`), `Answer`, `Sweeps` (repeated timer events); `ToBufLoop`, `FromBufLoop` (the loops, offset branch included) |
| `MC_ClientVolume` | model values, IP sequences; the `ClientAlgorithms` checks as invariants | | |
| `EventFifo` | what an event queue promises (abstract) | `q`, `delivered`, `failed`, `halted` | `Post`, `PostFail`, `Deliver`, `Halt` |
| `SpdkQueue` | `PfSpdkQueue` and `thread_proc_spdkr` | `locked` (msg_cache_locked as a stack), `unlocked` (messages returned to msg_cache), `flag` (lock_cache_msg), per-poster `hold`/`posted`, `ring`, the worker's `batch` and `cur`; ghost `done`, `failed`, `leaked`, `nullDeref` | `TakeMsg`, `TakeEmpty`, `Enqueue`, `EnqueueFull` (the two halves of a post); `GetEvents`, `Process`, `ProcessExit`, `PutEvent` |
| `MC_SpdkQueue` | model values for posters | | |

How the models abstract the code:
- **Time** is abstract. The scanner may judge a sent request expired once
  neither it nor its reply is still on its way. With `LateReply`, it may also
  do so while the reply is on its way.
- **A connection** is an IP and a generation. `get_conn` opens a new
  generation after a close.
- **Closing a connection** drops the requests the store holds on it. Its
  posted reply bds complete with FLUSH_ERR, which the poller does not free
  (`CloseConn`).
- **A NULL `io->conn` dereference** in vol_proc (`pf_client_api.cpp`
  lines 585, 627, 776-778) is the step `NullConnCrash`. It records fault
  `NullConn`, and `Next` is conjoined with `Running`, so nothing happens
  after it: the process has crashed. `NoNullConn` checks that it never
  happens.
- **Other undefined behaviour** is recorded in `faults` and the model goes on:
  - an out-of-range read in `get_shard_conn` (`IpIndex`);
  - a double free;
  - the "should never happen" branch of `pick_iocb` (`StaleReply`);
  - a post on an empty `msg_cache_locked` (`nullDeref`).
- **`lock_cache_msg` starts undefined**: `init` never writes it, so `Init`
  lets each message's flag be either value.
- **The refinement**: `SpdkQueue` maps `batch \o ring` to `EventFifo`'s
  `q`, and `done`, `failed`, `halted` to themselves. Taking a message and
  moving messages from ring to batch are stuttering steps.
- **Reads**: a READ's reply head holds its reply bd and posts `data_bd`
  (the set `rx`); the data completes the request (`ReadData`). The server
  sends data only after a SUCCESS head (`pf_server.cpp:273`), so after any
  other head the client waits for data that never comes, and the next reply
  heads on that connection are consumed as data (`ReplyAsData`) until the
  connection closes. Closing a connection drops `rx`, leaking the held
  reply bds.
- **The disk refinement**: `ServerDisk` instantiates `ServerDispatch` with
  every variable mapped to itself, hiding `engine`, `kernel` and `uringUp`.
  A submission and the poller's exit are stuttering steps, and a reap is
  one `LocalComplete`. The per-slot fairness of `LocalDisk` gives back
  `WF(BackendStep(i))` in every behaviour where the io_uring poller never
  exits (`[]uringUp => Abs!Fairness`). The
  violation runs on `MC_ServerDispatch` use `DiskSpec` too.

## Runs

| Run | Config | Expect | What it shows |
|---|---|---|---|
| server_join | `ServerDispatch.cfg` | pass | Fan-out/join over 3 replicas keeps `ref_count = 1 + |task_mask|` and connection references exact. No allocated slot loses its `conn`. Every queued request is answered exactly once with the first failure, and a closed connection drains, unless the io_uring poller has exited (`DiskRequestAnswered`, `DiskClosedConnDrains`). With the local replica on AIO or io_uring, the kernel never holds the buffer of a joined or freed iocb (`KernelOwnsLiveIocb`), and the engines refine the one-step `LocalComplete` (`LocalDiskRefinesBackend`). For every block size, offset and length checked, the SPDK conversion issues exactly the requested bytes or refuses the request (`SpdkBlocksExact`). |
| server_dec_ref_race | `ServerDispatch_race.cfg` | violation | With two pollers, a slot freed by `dec_ref` is reallocated before `conn = NULL`. The other connection's iocb loses its `conn` (`AllocatedHasConn`). |
| server_meta_ver_race | `ServerDispatch_metaver.cfg` | violation | The unsynchronised max of `complete_meta_ver` keeps a smaller version (`MetaVerIsMax`). |
| client_failover | `ClientVolume.cfg` | pass | With three iocbs and three reads or writes over two IPs and one connection loss, callbacks happen exactly once and eventually. Freed iocbs stay quiet. |
| client_reopen_null_conn | `ClientVolume_reopenfail.cfg` | violation | A request answered REOPEN keeps `sent_time` and loses its `conn`; the reopen fails and the request is freed with -EIO; after RECONNECT and a successful reopen the scanner times out the free slot and vol_proc dereferences its NULL `conn` (`NoNullConn`). |
| client_late_reply | `ClientVolume_late.cfg` | pass | With reads and writes, REOPEN replies, reopens that may fail, and late replies: closing the connection on timeout and bumping `command_seq` means `pick_iocb` never sees a stale reply. Two properties cover the heartbeat sweep. Whatever cursor the last sweep left, the rotating `next_heartbeat_idx` reaches every healthy connection within `RotationBound` sweeps (`HeartbeatRotation`). A connection that stops answering is evicted, and no answering one is (`HeartbeatEviction`). For every small iovec array, `iov_to_buf` returns its first `min(bytes, total)` bytes, and `iov_from_buf` overwrites exactly those (`IovCopy`). |
| client_post_fail_double_callback | `ClientVolume_postfail.cfg` | violation | A failed post frees the iocb with `sent_time` set. The scanner resends it, so the callback runs twice. The REOPEN path followed by a failed reopen does the same (see the finding). |
| client_flush_leak | `ClientVolume_leak.cfg` | violation | FLUSH_ERR reply bds are never freed. |
| client_disconnected_hang | `ClientVolume_hang.cfg` | violation | A TIMEOUT dropped while DISCONNECTED, with RECONNECT waiting for a full pool, means the request never completes. |
| queue_fifo | `SpdkQueue.cfg` | pass | The spdk ring with its batches refines `EventFifo` (`FifoRefined`): each accepted event is processed once, in order, and eventually unless EXIT was taken first. A full ring is a reported failure. |
| queue_msg_drain | `SpdkQueue_drain.cfg` | violation | Failed enqueues and put_event to the unused `msg_cache` drain `msg_cache_locked`; the next post dereferences NULL (`NoNullMsg`). |
| client_timeout_flag_hang | `ClientVolume_flag.cfg` | violation | The scanner sets `is_timeout` after vol_proc has resent the request and cleared it. The resent request is never timed out again. |

- **Sequential algorithms** (`ClientAlgorithms`, `SpdkBlocks`) are
  operators, checked against a reference definition over every small
  input. Such a check is a constant formula. `MC_ClientVolume` and
  `MC_ServerDispatch` state each one as an invariant that is required only
  before the first request (`nsub = 0`, `nreq = 0`). This makes TLC evaluate
  it in a few states rather than in every state, and report a failure as a
  violated invariant.

Every property of a passing run has a mutant in `PROJECT.json`: a plausible
bug in one mapped definition (a dropped reset, a missing callback, an extra
free) that TLC finds violating it under the same configuration.

## Bounds and why they suffice

**Server**
- Two slots are enough to reach a reuse of a freed slot.
- One connection with three replicas covers:
  - a local replica together with two concurrent remote completions, which
    the meta_ver race needs;
  - every order of the subtasks' completions.
- Two connections on two pollers are needed for the `dec_ref` reuse race.
- `RecvDepth = 1` still exercises both handshake failure paths: allocation
  failing and `post_recv` failing.
- `MaxReq` bounds the request heads received. 2–3 requests let a slot be
  reused after its reply.
- Both engines are initial choices in the same run, so `server_join` covers
  AIO and io_uring, and the io_uring poller exiting (224,000 states, a minute and a half). A completion is
  all of `cmd->length`, or short. For AIO, res2 is either zero or
  negative. These are all the outcomes the status checks tell apart.

**Client**
- Two iocbs and up to three submissions let a reused slot, a concurrent
  request and a full pool all occur. `client_failover` uses three iocbs,
  three submissions and `MaxSeq = 6` (353,000 states); each submission is
  a READ or a WRITE.
- Two IPs with `StrLen = 3` (the string "a,b") give failover. With every
  store down this also reaches the out-of-range index, recorded as fault
  `IpIndex`.
- `MaxLoss` is 0 to 2 connection losses. `MaxSeq = 4` allows two resends
  per iocb. `MaxOpen = 2` allows one reopen.
- `client_failover` keeps `MaxLoss = 1`. Two losses take both stores down
  and reach the hang that `client_disconnected_hang` reports.
- Each counter bound sits in the guard of the action that increments it.

**Event queue**
- In `queue_fifo`: a `post_event_locked` poster, a `post_event` poster
  (two posts each) and `stop()`. A ring of 2 with batches of 2 is full often
  and splits a batch. The 4 messages cover, at most, one held by each of
  two posters plus two in the ring, so a post can find the cache empty only
  after a message has been lost.
- In `queue_msg_drain`: one `post_event` poster and `stop()`, ring 1,
  batch 1, 4 messages. At most 3 messages are ever in flight, so an empty
  cache can only come from messages that never come back.
- Three posters or six messages take TLC more than ten minutes.

**Algorithms**
- The sweep is checked on maps of 1 to 5 healthy connections
  (`MaxConns = 5`), with every cursor from 0 to 5 and every subset of
  silent connections. Five connections are more than one sweep's four
  heartbeats, so the cursor must wrap around a map that shrinks.
- iovec arrays have up to 3 entries of up to 2 bytes, empty entries
  included, and lengths from 0 to 6. This covers lengths that end inside an
  entry, after an empty entry, and past the array.
- Block sizes are 1, 2, 3, 4, 6 and 8, which cover both the shift path and
  the division path, with offsets and lengths up to 20.

Configurations that stop when their bounds are exhausted set
`CHECK_DEADLOCK FALSE`. A real hang is caught by the liveness properties.

## Fairness

**Server**
- Weak fairness on each poller's callbacks, the dispatcher and the back
  ends: they are threads that loop while they have work, and a kernel or
  disk completes every submitted operation.
- In `ServerDisk`, the flash store's submission and the engine's poller
  share one weak-fairness condition per slot (`LocalDisk`). The AIO poller
  retries a failed `io_getevents` forever. The io_uring poller *returns* on
  a failed `io_uring_wait_cqe` (`pf_ioengine.cpp:215`), after which no
  completion of that disk is processed again. That exit is `UringWaitFail`,
  a step with no fairness: the code does not promise it, nor that it never
  happens. The liveness properties therefore promise an answer, or a
  drained connection, only while the poller runs (`... \/ ~uringUp`).
- Clients and peer closes are not fair, so they need not happen.

**Event queue**
- Weak fairness on the worker: `thread_proc_spdkr` polls in a loop.
- Weak fairness on the second half of a post: a thread that took a message
  goes on to enqueue it. Taking one is the poster's choice.

**Client**
- Weak fairness on vol_proc, the poller, the scanner (it wakes every
  `CLIENT_TIMEOUT_CHECK_INTERVAL`) and the volume monitor's RECONNECT tick.
- Users, network losses and recoveries are not fair.

## Not modelled (yet), and the plan

Not modelled now:
- conductor/HTTP queries, configuration parsing, socket setup and teardown
  (`pf_http_get` keeps a failed attempt's partial body when it retries; its
  only effect, a failed reopen, is already an outcome of `ReopenVolume`);
- `pf_md5.cpp`: `MD5Stream` only wraps `sync_read`/`sync_write` of a disk.
  It contains no MD5 computation, and `finalize` is empty. Lines 67 and 81
  (`! =`) do not compile;
- engine setup: `PfIouringEngine::init`'s fixed-buffer registration
  (segment count rounded down to whole GiB, segment lengths swapped at
  line 172, a failure only logged) and `PfAioEngine::init`;
- the SPDK engine's queues and completions; only its byte-to-block
  conversion is modelled (`SpdkBlocks`). On the path that allocates its I/O qpairs, `init` tests
  `if (qpair)` where it means `if (!qpair)` (line 266) and returns
  `-ENOMEM`. `spdk_io_complete` ignores every error but a
  protection-information error. `sync_read`/`sync_write` are synchronous
  calls of the flash store's metadata code, which is not under `src/`;
- snapshot/COW tasks;
- the payload of a read that arrives after a desync: `ReplyAsData` only
  swallows reply heads, and the model never lets a desynced `data_bd`
  complete, so line 588's free of `data_bd` on that path is not reached;
  the resulting hang of later requests and the held reply bd's leak are
  hazards without a run;
- the pthread `PfEventQueue` (`thread_proc_eventq`), used when the engine
  is not SPDK, and the `func_priv` hook after each batch.

- buffer contents and sizes in `ClientVolume`. Two defects found while
  modelling `iov_to_buf` are therefore hazards without a run:
  - `pf_iov_submit` ignores the count that `iov_to_buf` returns
    (line 993), so a write from an iovec array shorter than `length`
    sends stale bytes of `data_bd`;
  - `pf_io_submit` never checks `length` against `PF_MAX_IO_SIZE` before
    its `memcpy` (line 1034).

These are I/O without protocol state, or lie outside the data path.

Planned next, in this order:
1. **The waiting caller** of `PfEventThread::sync_invoke` and `stop()`:
   both ignore a failed post and block forever.
2. **Heartbeat iocbs in `ClientVolume`**. The sweep itself is checked in
   `ClientAlgorithms`. The state machine still lacks heartbeat iocbs. A
   heartbeat that times out keeps its `conn` and `command_seq`
   (`pf_client_api.cpp:772`), and its late reply can be matched to the
   slot's next request.
3. **An abstract request/reply specification**: each submitted I/O is
   answered once. `ClientVolume` would be shown to refine it under the
   configurations where it holds.
4. **`get_shard_conn` as a pure operator**, checked against a reference
   definition over all short IP strings.
5. **The read desync as runs of its own**: a read answered non-SUCCESS
   hangs later requests on its connection and leaks a reply bd on close.
