---------------------------- MODULE ClientVolume ----------------------------
(***************************************************************************)
(* The client side of PureFlash's data path (pf_client_api.cpp): the      *)
(* volume's iocb pool, the vol_proc worker thread that runs               *)
(* PfClientVolume::process_event, the timeout scanner thread              *)
(* (timeout_check_proc), the connection poller that receives replies      *)
(* (client_on_tcp_network_done), and shard-to-connection resolution       *)
(* (get_shard_conn) with failover between the shard's store IPs.          *)
(*                                                                         *)
(* Time is abstract: a sent request may be judged expired by the scanner  *)
(* whenever its reply is lost, and also while its reply is still on the   *)
(* way if LateReply holds (io_timeout shorter than the server's latency). *)
(* A connection is identified by its IP and a generation: get_conn opens  *)
(* a new generation after the previous one was closed.                    *)
(***************************************************************************)
EXTENDS Naturals, Sequences, FiniteSets, Functions

CONSTANTS
  Iocbs,        \* slots of iocb_pool (io_depth); reply_pool has as many bds
  IpSeq,        \* shard->parsed_store_ips, a sequence of distinct IPs
  StrLen,       \* shard->store_ips.size(): length of the comma-separated string
  MaxSubmit,    \* bound: pf_io_submit calls
  MaxLoss,      \* bound: connections lost to network failure
  MaxSeq,       \* bound: command_seq of any iocb
  MaxOpen,      \* bound: successful (re)opens
  PostMayFail,  \* post_recv / post_send may return an error
  LateReply,    \* a request may time out while its reply is on the way
  ReopenReplies,\* a store may answer MSG_STATUS_REOPEN
  ReopenMayFail,\* the conductor query of a reopen may fail
  Ops,          \* opcodes users submit: a subset of {"READ", "WRITE"}
  NoIocb

Ips == {IpSeq[k] : k \in 1..Len(IpSeq)}
Gens == 0..(MaxLoss + MaxSeq + MaxOpen + 1)
Conn == Ips \X Gens
NoConn == <<"none", 0>>

ASSUME /\ Len(IpSeq) >= 1 /\ StrLen >= Len(IpSeq)
       /\ PostMayFail \in BOOLEAN /\ LateReply \in BOOLEAN
       /\ ReopenReplies \in BOOLEAN /\ ReopenMayFail \in BOOLEAN
       /\ NoIocb \notin Iocbs /\ Ops \subseteq {"READ", "WRITE"}

VARIABLES
  vstate,     \* PfClientVolume::state
  curIp,      \* shard->current_ip
  opens,      \* successful opens so far: stands for open_time
  ipUp,       \* [Ips -> BOOLEAN]: the store at the IP accepts connections
  connUp,     \* [Ips -> BOOLEAN]: the pool's connection to the IP is CONN_OK
  gen,        \* [Ips -> Gens]: generation of the pool's connection to the IP
  recvs,      \* [Ips -> Nat]: reply bds posted on that connection
  free,       \* free slots of iocb_pool
  sent,       \* [Iocbs -> BOOLEAN]: sent_time != 0
  isTimeout,  \* [Iocbs -> BOOLEAN]: is_timeout
  ioConn,     \* [Iocbs -> Conn \cup {NoConn}]: io->conn
  seq,        \* [Iocbs -> Nat]: cmd_bd->command_seq
  owner,      \* [Iocbs -> 0..MaxSubmit]: the request whose ulp_arg it holds
  nsub,       \* requests submitted so far
  cb,         \* [1..MaxSubmit -> Nat]: ulp_handler invocations per request
  rfree,      \* free bds of reply_pool
  wire,       \* requests a store holds, to be answered on their connection
  vq,         \* vol_proc's event queue
  scan,       \* timeout scanner: [ph : {"Idle", "Posted"}, io]
  loss,       \* connection losses so far
  stale,      \* the stores' meta_ver is newer than the volume's
  faults,     \* undefined behaviour reached
  op,         \* [Iocbs -> Ops \cup {"NONE"}]: cmd_bd->opcode
  rx          \* reads whose reply head is in: [io, seq, conn, st], the
              \* reply bd held in iocb->reply_bd and data_bd receiving

vars == <<vstate, curIp, opens, ipUp, connUp, gen, recvs, free, sent, isTimeout,
          ioConn, seq, owner, nsub, cb, rfree, wire, vq, scan, loss, stale, faults,
          op, rx>>

ReqEvt(i)          == [t |-> "REQ", io |-> i, seq |-> 0, st |-> "OK", ep |-> 0]
TimeoutEvt(i)      == [t |-> "TIMEOUT", io |-> i, seq |-> 0, st |-> "OK", ep |-> 0]
CompleteEvt(i, s, st) == [t |-> "COMPLETE", io |-> i, seq |-> s, st |-> st, ep |-> 0]
ReopenEvt(e)       == [t |-> "REOPEN", io |-> NoIocb, seq |-> 0, st |-> "OK", ep |-> e]
ReconnectEvt       == [t |-> "RECONNECT", io |-> NoIocb, seq |-> 0, st |-> "OK", ep |-> 0]

-----------------------------------------------------------------------------
(* Connection pool and shard resolution                                    *)

CurConn(ip) == <<ip, gen[ip]>>

\* conn_pool->get_conn(ip): the existing OK connection, or a new one if the
\* store accepts it.
Usable(ip) == connUp[ip] \/ ipUp[ip]

\* The loop of get_shard_conn: at most store_ips.size() probes from
\* current_ip, advancing current_ip modulo store_ips.size() after each
\* failure.  An index past parsed_store_ips reads outside the vector.
RECURSIVE Probe(_, _, _)
Probe(cur, k, oob) ==
  IF k = StrLen THEN [ip |-> "none", cur |-> cur, oob |-> oob]
  ELSE IF cur < Len(IpSeq) /\ Usable(IpSeq[cur + 1])
    THEN [ip |-> IpSeq[cur + 1], cur |-> cur, oob |-> oob]
    ELSE Probe((cur + 1) % StrLen, k + 1, oob \/ cur >= Len(IpSeq))

ShardConn == Probe(curIp, 0, FALSE)

\* Closing connection c: a no-op unless it is the pool's live connection to
\* its IP; otherwise the store's pending requests on it are lost and the
\* posted reply bds complete with FLUSH_ERR, which client_on_tcp_network_done
\* logs and returns -1 for without freeing them.  A read receiving its data
\* on it gets FLUSH_ERR on data_bd the same way, and the reply bd it holds
\* is never freed.
CloseConn(c) ==
  IF c # NoConn /\ connUp[c[1]] /\ gen[c[1]] = c[2]
    THEN /\ connUp' = [connUp EXCEPT ![c[1]] = FALSE]
         /\ recvs' = [recvs EXCEPT ![c[1]] = 0]
         /\ wire' = {m \in wire : m.conn # c}
         /\ rx' = {r \in rx : r.conn # c}
    ELSE UNCHANGED <<connUp, recvs, wire, rx>>

\* The pool hands out the connection to ip, opening a new generation if the
\* previous one was closed.
UseConn(ip) ==
  IF connUp[ip] THEN UNCHANGED <<connUp, gen, op, rx>>
  ELSE /\ connUp' = [connUp EXCEPT ![ip] = TRUE]
       /\ gen' = [gen EXCEPT ![ip] = @ + 1]

NewConn(ip) == <<ip, IF connUp[ip] THEN gen[ip] ELSE gen[ip] + 1>>

\* ulp_handler(ulp_arg, status) for the request slot i carries.
Callback(i) ==
  cb' = IF owner[i] = 0 THEN cb ELSE [cb EXCEPT ![owner[i]] = @ + 1]

-----------------------------------------------------------------------------
(* User thread: pf_io_submit                                               *)

\* A request takes an iocb from the pool and is posted to vol_proc as
\* EVT_IO_REQ.  With the pool empty the call returns -EAGAIN at once.
Submit ==
  /\ nsub < MaxSubmit
  /\ \E i \in free :
       /\ free' = free \ {i}
       /\ owner' = [owner EXCEPT ![i] = nsub + 1]
       /\ \E o \in Ops : op' = [op EXCEPT ![i] = o]
       /\ vq' = Append(vq, ReqEvt(i))
  /\ nsub' = nsub + 1
  /\ UNCHANGED <<vstate, curIp, opens, ipUp, connUp, gen, recvs, sent, isTimeout,
                 ioConn, seq, cb, rfree, wire, scan, loss, stale, faults, rx>>

-----------------------------------------------------------------------------
(* vol_proc: PfClientVolume::process_event, one action per outcome         *)

Ev == Head(vq)
At(t) == vq # <<>> /\ Ev.t = t

\* iocb_pool.free(io) on the error paths: the slot goes back as it is,
\* sent_time and conn included.  A slot already in the pool is freed twice.
FreeIocb(i) == free' = free \cup {i}
FreeFaults(i, oob) ==
  faults' = faults \cup (IF oob THEN {"IpIndex"} ELSE {})
                   \cup (IF i \in free THEN {"DoubleFree"} ELSE {})

\* EVT_IO_REQ with no connection: the volume is not OPENED, or no IP of the
\* shard is usable and the volume becomes DISCONNECTED; the request is
\* completed with -EIO.
ReqNoConn ==
  /\ At("REQ")
  /\ LET i == Ev.io
         r == ShardConn
     IN /\ vstate # "OPENED" \/ r.ip = "none"
        /\ IF vstate = "OPENED"
             THEN /\ vstate' = "DISCONNECTED" /\ curIp' = r.cur
                  /\ FreeFaults(i, r.oob)
             ELSE /\ UNCHANGED <<vstate, curIp, op, rx>>
                  /\ FreeFaults(i, FALSE)
        /\ Callback(i)
        /\ FreeIocb(i)
  /\ vq' = Tail(vq)
  /\ UNCHANGED <<opens, ipUp, connUp, gen, recvs, sent, isTimeout, ioConn, seq,
                 owner, nsub, rfree, wire, scan, loss, stale, op, rx>>

\* Mutant: the -EAGAIN path frees the iocb without calling ulp_handler.
ReqNoReplyBdSilent ==
  /\ At("REQ")
  /\ vstate = "OPENED"
  /\ ShardConn.ip # "none"
  /\ rfree = 0
  /\ curIp' = ShardConn.cur
  /\ UseConn(ShardConn.ip)
  /\ FreeIocb(Ev.io)
  /\ vq' = Tail(vq)
  /\ UNCHANGED <<vstate, opens, ipUp, recvs, sent, isTimeout, ioConn, seq,
                 owner, nsub, rfree, wire, scan, loss, stale, faults, cb, op, rx>>

\* EVT_IO_REQ on a connection but with reply_pool empty: -EAGAIN.
ReqNoReplyBd ==
  /\ At("REQ")
  /\ vstate = "OPENED"
  /\ LET i == Ev.io
         r == ShardConn
     IN /\ r.ip # "none"
        /\ rfree = 0
        /\ curIp' = r.cur
        /\ UseConn(r.ip)
        /\ FreeFaults(i, r.oob)
        /\ Callback(i)
        /\ FreeIocb(i)
  /\ vq' = Tail(vq)
  /\ UNCHANGED <<vstate, opens, ipUp, recvs, sent, isTimeout, ioConn, seq,
                 owner, nsub, rfree, wire, scan, loss, stale, op, rx>>

\* EVT_IO_REQ: is_timeout = FALSE, conn taken, sent_time = now, then
\* post_recv(reply bd) and post_send(cmd).  outcome "recv_fail": post_recv
\* failed, the bd is returned and the request completed with -EAGAIN;
\* "send_fail": post_send failed, the bd stays posted and the request is
\* completed with -EAGAIN; both free the iocb with sent_time and conn set.
\* "sent": the store now holds the request.
ReqPost ==
  /\ At("REQ")
  /\ vstate = "OPENED"
  /\ LET i == Ev.io
         r == ShardConn
         c == NewConn(r.ip)
     IN /\ r.ip # "none"
        /\ rfree > 0
        /\ curIp' = r.cur
        /\ UseConn(r.ip)
        /\ sent' = [sent EXCEPT ![i] = TRUE]
        /\ isTimeout' = [isTimeout EXCEPT ![i] = FALSE]
        /\ ioConn' = [ioConn EXCEPT ![i] = c]
        /\ \E outcome \in IF PostMayFail THEN {"recv_fail", "send_fail", "sent"}
                                         ELSE {"sent"} :
             /\ rfree' = IF outcome = "recv_fail" THEN rfree ELSE rfree - 1
             /\ recvs' = IF outcome = "recv_fail" THEN recvs
                         ELSE [recvs EXCEPT ![r.ip] = IF connUp[r.ip] THEN @ + 1 ELSE 1]
             /\ IF outcome = "sent"
                  THEN /\ wire' = wire \cup {[io |-> i, seq |-> seq[i], conn |-> c]}
                       /\ faults' = IF r.oob THEN faults \cup {"IpIndex"} ELSE faults
                       /\ UNCHANGED <<cb, free, op, rx>>
                  ELSE /\ UNCHANGED wire
                       /\ FreeFaults(i, r.oob)
                       /\ Callback(i)
                       /\ FreeIocb(i)
  /\ vq' = Tail(vq)
  /\ UNCHANGED <<vstate, opens, ipUp, seq, owner, nsub, scan, loss, stale, op, rx>>

\* EVT_IO_COMPLETE with MSG_STATUS_REOPEN (client_do_complete): if the
\* store's meta_ver is newer, EVT_REOPEN_VOLUME is posted stamped with now;
\* the connection reference is dropped and the request is queued again.
\* sent_time is left as it was.
CompleteReopen ==
  /\ At("COMPLETE")
  /\ Ev.st = "REOPEN"
  /\ ioConn[Ev.io] # NoConn
  /\ LET i == Ev.io IN
       /\ ioConn' = [ioConn EXCEPT ![i] = NoConn]
       /\ vq' = Tail(vq) \o (IF stale THEN <<ReopenEvt(opens)>> ELSE <<>>)
                         \o <<ReqEvt(i)>>
  /\ rfree' = rfree + 1
  /\ UNCHANGED <<vstate, curIp, opens, ipUp, connUp, gen, recvs, free, sent,
                 isTimeout, seq, owner, nsub, cb, wire, scan, loss, stale, faults, op, rx>>

\* Mutants of the final completion: the reply bd is freed twice
\* (reply_pool.free(io->reply_bd) and again for wr_bd); sent_time is not
\* cleared before free_iocb.
CompleteOkFreeBdTwice ==
  /\ At("COMPLETE") /\ Ev.st = "OK" /\ ioConn[Ev.io] # NoConn
  /\ sent' = [sent EXCEPT ![Ev.io] = FALSE]
  /\ ioConn' = [ioConn EXCEPT ![Ev.io] = NoConn]
  /\ FreeIocb(Ev.io) /\ Callback(Ev.io)
  /\ rfree' = rfree + 2
  /\ vq' = Tail(vq)
  /\ UNCHANGED <<vstate, curIp, opens, ipUp, connUp, gen, recvs, isTimeout, seq,
                 owner, nsub, wire, scan, loss, stale, faults, op, rx>>

CompleteOkKeepSent ==
  /\ At("COMPLETE") /\ Ev.st = "OK" /\ ioConn[Ev.io] # NoConn
  /\ ioConn' = [ioConn EXCEPT ![Ev.io] = NoConn]
  /\ FreeIocb(Ev.io) /\ Callback(Ev.io)
  /\ rfree' = rfree + 1
  /\ vq' = Tail(vq)
  /\ UNCHANGED <<vstate, curIp, opens, ipUp, connUp, gen, recvs, isTimeout, seq,
                 owner, nsub, wire, scan, loss, stale, faults, sent, op, rx>>

\* EVT_IO_COMPLETE with a final status: the reply bd is freed, sent_time
\* cleared, the connection reference dropped, the iocb freed and the user
\* callback invoked.
CompleteOk ==
  /\ At("COMPLETE")
  /\ Ev.st = "OK"
  /\ ioConn[Ev.io] # NoConn
  /\ LET i == Ev.io IN
       /\ sent' = [sent EXCEPT ![i] = FALSE]
       /\ ioConn' = [ioConn EXCEPT ![i] = NoConn]
       /\ FreeIocb(i)
       /\ Callback(i)
  /\ rfree' = rfree + 1
  /\ vq' = Tail(vq)
  /\ UNCHANGED <<vstate, curIp, opens, ipUp, connUp, gen, recvs, isTimeout, seq,
                 owner, nsub, wire, scan, loss, stale, faults, op, rx>>

\* Mutants of the timeout path: the user is told of the timeout and the
\* request is resent anyway; the connection is kept open, so the store
\* may still answer the old attempt.
TimeoutResendCallback ==
  /\ At("TIMEOUT") /\ vstate = "OPENED" /\ sent[Ev.io] /\ ioConn[Ev.io] # NoConn
  /\ sent' = [sent EXCEPT ![Ev.io] = FALSE]
  /\ CloseConn(ioConn[Ev.io])
  /\ ioConn' = [ioConn EXCEPT ![Ev.io] = NoConn]
  /\ seq' = [seq EXCEPT ![Ev.io] = @ + 2]
  /\ vq' = Append(Tail(vq), ReqEvt(Ev.io))
  /\ Callback(Ev.io)
  /\ UNCHANGED <<vstate, curIp, opens, ipUp, gen, free, isTimeout, owner, nsub,
                 rfree, scan, loss, stale, faults, op>>

TimeoutIgnored ==
  /\ At("TIMEOUT")
  /\ vstate # "OPENED"
  /\ vq' = Tail(vq)
  /\ UNCHANGED <<vstate, curIp, opens, ipUp, connUp, gen, recvs, free, sent,
                 isTimeout, ioConn, seq, owner, nsub, cb, rfree, wire, scan,
                 loss, stale, faults, op, rx>>

\* EVT_IO_TIMEOUT for an iocb whose sent_time is 0 (completed meanwhile).
\* The check 'now > sent_time + io_timeout' adds seconds to microseconds
\* and holds whenever sent_time is set.
TimeoutNotSent ==
  /\ At("TIMEOUT")
  /\ vstate = "OPENED"
  /\ ~sent[Ev.io]
  /\ vq' = Tail(vq)
  /\ UNCHANGED <<vstate, curIp, opens, ipUp, connUp, gen, recvs, free, sent,
                 isTimeout, ioConn, seq, owner, nsub, cb, rfree, wire, scan,
                 loss, stale, faults, op, rx>>

\* EVT_IO_TIMEOUT for a sent request: sent_time = 0, the connection is
\* closed and released, and resend_io bumps command_seq twice (++ and an
\* atomic add) and posts EVT_IO_REQ again.
TimeoutResend ==
  /\ At("TIMEOUT")
  /\ vstate = "OPENED"
  /\ LET i == Ev.io IN
       /\ sent[i]
       /\ ioConn[i] # NoConn
       /\ sent' = [sent EXCEPT ![i] = FALSE]
       /\ CloseConn(ioConn[i])
       /\ ioConn' = [ioConn EXCEPT ![i] = NoConn]
       /\ seq' = [seq EXCEPT ![i] = @ + 2]
       /\ vq' = Append(Tail(vq), ReqEvt(i))
  /\ UNCHANGED <<vstate, curIp, opens, ipUp, gen, free, isTimeout, owner, nsub,
                 cb, rfree, scan, loss, stale, faults, op>>

\* vol_proc dereferences io->conn when it is NULL and the client process
\* dies: client_do_complete's io->conn->dec_ref() for a final or a REOPEN
\* status (lines 627, 585), or the timeout handler's
\* io->conn->connection_info and close() for a sent request (776-778).
\* Nothing runs after it (Next).
NullConnCrash ==
  /\ \/ At("COMPLETE")
     \/ At("TIMEOUT") /\ vstate = "OPENED" /\ sent[Ev.io]
  /\ ioConn[Ev.io] = NoConn
  /\ faults' = faults \cup {"NullConn"}
  /\ UNCHANGED <<vstate, curIp, opens, ipUp, connUp, gen, recvs, free, sent,
                 isTimeout, ioConn, seq, owner, nsub, cb, rfree, wire, vq, scan,
                 loss, stale, op, rx>>

\* EVT_REOPEN_VOLUME stamped before the last successful open: ignored.
ReopenStale ==
  /\ At("REOPEN")
  /\ Ev.ep # opens
  /\ vq' = Tail(vq)
  /\ UNCHANGED <<vstate, curIp, opens, ipUp, connUp, gen, recvs, free, sent,
                 isTimeout, ioConn, seq, owner, nsub, cb, rfree, wire, scan,
                 loss, stale, faults, op, rx>>

\* reopen_volume: do_open(true) queries the conductor again and rebuilds the
\* shard table (current_ip back to 0); on success the volume is OPENED with
\* a new open_time and the current meta_ver, on failure REOPEN_FAIL.
ReopenVolume ==
  /\ At("REOPEN")
  /\ Ev.ep = opens
  /\ \E ok \in IF ReopenMayFail THEN BOOLEAN ELSE {TRUE} :
       IF ok THEN /\ vstate' = "OPENED" /\ opens' = opens + 1
                  /\ curIp' = 0 /\ stale' = FALSE
             ELSE /\ vstate' = "REOPEN_FAIL"
                  /\ UNCHANGED <<opens, curIp, stale, op, rx>>
  /\ vq' = Tail(vq)
  /\ UNCHANGED <<ipUp, connUp, gen, recvs, free, sent, isTimeout, ioConn, seq,
                 owner, nsub, cb, rfree, wire, scan, loss, faults, op, rx>>

\* EVT_VOLUME_RECONNECT while some iocb is in use: ignored.
ReconnectBusy ==
  /\ At("RECONNECT")
  /\ free # Iocbs
  /\ vq' = Tail(vq)
  /\ UNCHANGED <<vstate, curIp, opens, ipUp, connUp, gen, recvs, free, sent,
                 isTimeout, ioConn, seq, owner, nsub, cb, rfree, wire, scan,
                 loss, stale, faults, op, rx>>

\* EVT_VOLUME_RECONNECT with every iocb in the pool: conn_pool->close_all()
\* and EVT_REOPEN_VOLUME stamped with now.
ReconnectReopen ==
  /\ At("RECONNECT")
  /\ free = Iocbs
  /\ vstate \in {"OPENED", "REOPEN_FAIL", "DISCONNECTED"}
  /\ connUp' = [ip \in Ips |-> FALSE]
  /\ recvs' = [ip \in Ips |-> 0]
  /\ wire' = {}
  /\ rx' = {}
  /\ vq' = Append(Tail(vq), ReopenEvt(opens))
  /\ UNCHANGED <<vstate, curIp, opens, ipUp, gen, free, sent, isTimeout, ioConn,
                 seq, owner, nsub, cb, rfree, scan, loss, stale, faults, op>>

-----------------------------------------------------------------------------
(* Connection poller: client_on_tcp_network_done                           *)

\* A read on connection c has its reply head in and data_bd receiving.
DataPending(c) == \E r \in rx : r.conn = c

\* ... and the store sends no data after that head: it sends a read's data
\* only after a SUCCESS reply (server_on_tcp_network_done).
Desynced(c) == \E r \in rx : r.conn = c /\ r.st # "OK"

\* A store answers request m on its connection: the reply lands in a
\* posted reply bd; pick_iocb(command_id, command_seq) matches it to the
\* iocb whose current command_seq it carries.  A write's reply posts
\* EVT_IO_COMPLETE; a read's keeps the bd in iocb->reply_bd and starts
\* receiving the data into data_bd, whatever the status.  No match is
\* logged with S5LOG_FATAL ("should never happen") and the bd is kept by
\* nobody.  The stream delivers a read's data before any later reply.
Reply(m) ==
  /\ recvs[m.conn[1]] > 0
  /\ ~DataPending(m.conn)
  /\ wire' = wire \ {m}
  /\ recvs' = [recvs EXCEPT ![m.conn[1]] = @ - 1]
  /\ IF seq[m.io] = m.seq
       THEN /\ \E st \in IF stale THEN {"OK", "REOPEN"} ELSE {"OK"} :
                 IF op[m.io] = "READ"
                   THEN /\ rx' = rx \cup {[io |-> m.io, seq |-> m.seq, conn |-> m.conn, st |-> st]}
                        /\ UNCHANGED vq
                   ELSE /\ vq' = Append(vq, CompleteEvt(m.io, m.seq, st))
                        /\ UNCHANGED rx
            /\ UNCHANGED faults
       ELSE /\ faults' = faults \cup {"StaleReply"}
            /\ UNCHANGED <<vq, rx>>
  /\ UNCHANGED <<vstate, curIp, opens, ipUp, connUp, gen, free, sent, isTimeout,
                 ioConn, seq, owner, nsub, cb, rfree, scan, loss, stale, op>>

\* A read's data arrives in data_bd after its SUCCESS head, and
\* EVT_IO_COMPLETE is posted with data_bd (the "case c" branch).
ReadData(r) ==
  /\ r.st = "OK"
  /\ rx' = rx \ {r}
  /\ vq' = Append(vq, CompleteEvt(r.io, r.seq, r.st))
  /\ UNCHANGED <<vstate, curIp, opens, ipUp, connUp, gen, recvs, free, sent,
                 isTimeout, ioConn, seq, owner, nsub, cb, rfree, wire, scan,
                 loss, stale, faults, op>>

\* A reply sent on a connection whose read waits for data that never comes
\* is received into data_bd as that data: no iocb ever sees it.  A read's
\* data is many reply heads long, so data_bd is never filled here.
ReplyAsData(m) ==
  /\ Desynced(m.conn)
  /\ wire' = wire \ {m}
  /\ UNCHANGED <<vstate, curIp, opens, ipUp, connUp, gen, recvs, free, sent,
                 isTimeout, ioConn, seq, owner, nsub, cb, rfree, vq, scan, loss,
                 stale, faults, op, rx>>

-----------------------------------------------------------------------------
(* Timeout scanner: timeout_check_proc                                     *)

InWire(i) == \E m \in wire : m.io = i
ReplyQueued(i) == \E k \in 1..Len(vq) : vq[k].t = "COMPLETE" /\ vq[k].io = i

ReqQueued(i) == \E k \in 1..Len(vq) : vq[k].t = "REQ" /\ vq[k].io = i

DataComing(i) == \E r \in rx : r.io = i /\ r.st = "OK"

\* Whether io_timeout may have passed since sent_time: always for a request
\* whose reply is lost; while it or its reply is still on its way through
\* the store, the poller or vol_proc's queue only if LateReply.
Expired(i) ==
  LateReply \/ (~InWire(i) /\ ~DataComing(i) /\ ~ReplyQueued(i) /\ ~ReqQueued(i))

\* The scanner finds a slot with sent_time set, expired and not flagged, and
\* posts EVT_IO_TIMEOUT ...
ScanPost(i) ==
  /\ scan.ph = "Idle"
  /\ sent[i] /\ ~isTimeout[i] /\ Expired(i)
  /\ seq[i] + 2 <= MaxSeq
  /\ vq' = Append(vq, TimeoutEvt(i))
  /\ scan' = [ph |-> "Posted", io |-> i]
  /\ UNCHANGED <<vstate, curIp, opens, ipUp, connUp, gen, recvs, free, sent,
                 isTimeout, ioConn, seq, owner, nsub, cb, rfree, wire, loss,
                 stale, faults, op, rx>>

\* ... and then sets is_timeout = 1.
ScanFlag ==
  /\ scan.ph = "Posted"
  /\ isTimeout' = [isTimeout EXCEPT ![scan.io] = TRUE]
  /\ scan' = [ph |-> "Idle", io |-> NoIocb]
  /\ UNCHANGED <<vstate, curIp, opens, ipUp, connUp, gen, recvs, free, sent,
                 ioConn, seq, owner, nsub, cb, rfree, wire, vq, loss, stale,
                 faults, op, rx>>

-----------------------------------------------------------------------------
(* Environment                                                             *)

\* The network to a store fails: its connection closes, pending requests
\* are lost, and the store refuses connections for a while.
ConnLost(ip) ==
  /\ loss < MaxLoss
  /\ ipUp[ip]
  /\ ipUp' = [ipUp EXCEPT ![ip] = FALSE]
  /\ CloseConn(CurConn(ip))
  /\ loss' = loss + 1
  /\ UNCHANGED <<vstate, curIp, opens, gen, free, sent, isTimeout, ioConn, seq,
                 owner, nsub, cb, rfree, vq, scan, stale, faults, op>>

IpRecover(ip) ==
  /\ ~ipUp[ip]
  /\ ipUp' = [ipUp EXCEPT ![ip] = TRUE]
  /\ UNCHANGED <<vstate, curIp, opens, connUp, gen, recvs, free, sent, isTimeout,
                 ioConn, seq, owner, nsub, cb, rfree, wire, vq, scan, loss,
                 stale, faults, op, rx>>

\* The volume monitor posts EVT_VOLUME_RECONNECT while the volume is not
\* OPENED (bounded by MaxOpen opens).
ReconnectTick ==
  /\ vstate # "OPENED"
  /\ opens < MaxOpen
  /\ \A k \in 1..Len(vq) : vq[k].t # "RECONNECT"
  /\ vq' = Append(vq, ReconnectEvt)
  /\ UNCHANGED <<vstate, curIp, opens, ipUp, connUp, gen, recvs, free, sent,
                 isTimeout, ioConn, seq, owner, nsub, cb, rfree, wire, scan,
                 loss, stale, faults, op, rx>>

-----------------------------------------------------------------------------

\* do_open: pools pre-warmed and empty of requests, the volume OPENED, no
\* connection opened yet.
Init ==
  /\ vstate = "OPENED" /\ curIp = 0 /\ opens = 1
  /\ ipUp = [ip \in Ips |-> TRUE]
  /\ connUp = [ip \in Ips |-> FALSE]
  /\ gen = [ip \in Ips |-> 0]
  /\ recvs = [ip \in Ips |-> 0]
  /\ free = Iocbs
  /\ sent = [i \in Iocbs |-> FALSE]
  /\ isTimeout = [i \in Iocbs |-> FALSE]
  /\ ioConn = [i \in Iocbs |-> NoConn]
  /\ seq = [i \in Iocbs |-> 0]
  /\ owner = [i \in Iocbs |-> 0]
  /\ nsub = 0
  /\ cb = [q \in 1..MaxSubmit |-> 0]
  /\ rfree = Cardinality(Iocbs)
  /\ wire = {}
  /\ vq = <<>>
  /\ scan = [ph |-> "Idle", io |-> NoIocb]
  /\ loss = 0
  /\ stale = ReopenReplies
  /\ faults = {}
  /\ op = [i \in Iocbs |-> "NONE"]
  /\ rx = {}

VolProc ==
  \/ ReqNoConn \/ ReqNoReplyBd \/ ReqPost
  \/ CompleteReopen \/ CompleteOk \/ NullConnCrash
  \/ TimeoutIgnored \/ TimeoutNotSent \/ TimeoutResend
  \/ ReopenStale \/ ReopenVolume \/ ReconnectBusy \/ ReconnectReopen

Poll == (\E m \in wire : Reply(m) \/ ReplyAsData(m)) \/ \E r \in rx : ReadData(r)
Scan == (\E i \in Iocbs : ScanPost(i)) \/ ScanFlag

\* The client process runs until vol_proc dereferences a NULL conn.
Running == "NullConn" \notin faults

Next ==
  /\ Running
  /\ \/ Submit \/ VolProc \/ Poll \/ Scan \/ ReconnectTick
     \/ \E ip \in Ips : ConnLost(ip) \/ IpRecover(ip)

\* vol_proc, the poller, the scanner and the volume monitor are threads
\* that keep running; a store answers every request it holds.  Users,
\* failures and recoveries need not happen.
Fairness ==
  WF_vars(VolProc) /\ WF_vars(Poll) /\ WF_vars(Scan) /\ WF_vars(ReconnectTick)

Spec == Init /\ [][Next]_vars /\ Fairness

-----------------------------------------------------------------------------
(* Properties                                                              *)

TypeOK ==
  /\ vstate \in {"OPENED", "DISCONNECTED", "REOPEN_FAIL"}
  /\ curIp \in 0..(StrLen - 1) /\ opens \in 1..(MaxOpen + 1)
  /\ ipUp \in [Ips -> BOOLEAN] /\ connUp \in [Ips -> BOOLEAN]
  /\ gen \in [Ips -> Gens] /\ recvs \in [Ips -> Nat]
  /\ free \subseteq Iocbs
  /\ sent \in [Iocbs -> BOOLEAN] /\ isTimeout \in [Iocbs -> BOOLEAN]
  /\ ioConn \in [Iocbs -> Conn \cup {NoConn}]
  /\ seq \in [Iocbs -> 0..MaxSeq]
  /\ owner \in [Iocbs -> 0..MaxSubmit] /\ nsub \in 0..MaxSubmit
  /\ cb \in [1..MaxSubmit -> Nat]
  /\ rfree \in 0..Cardinality(Iocbs)
  /\ wire \subseteq [io : Iocbs, seq : 0..MaxSeq, conn : Conn]
  /\ scan \in [ph : {"Idle", "Posted"}, io : Iocbs \cup {NoIocb}]
  /\ loss \in 0..MaxLoss /\ stale \in BOOLEAN
  /\ faults \subseteq {"IpIndex", "DoubleFree", "NullConn", "StaleReply"}
  /\ op \in [Iocbs -> Ops \cup {"NONE"}]
  /\ rx \subseteq [io : Iocbs, seq : 0..MaxSeq, conn : Conn, st : {"OK", "REOPEN"}]

\* The user callback of a request runs at most once, across timeouts,
\* resends, reopen replies and failed posts.
ExactlyOnceCallback == \A q \in 1..MaxSubmit : cb[q] <= 1

\* Every submitted request has its callback invoked eventually.
CallbackEventually ==
  \A q \in 1..MaxSubmit : (nsub >= q) ~> (cb[q] >= 1)

\* A slot back in iocb_pool is quiet: sent_time is 0, and no request, reply
\* or EVT_IO_REQ of it is still around to resurrect it.
FreeIocbQuiet ==
  \A i \in free :
    /\ ~sent[i]
    /\ ~InWire(i)
    /\ \A r \in rx : r.io # i
    /\ \A k \in 1..Len(vq) : vq[k].io = i => vq[k].t = "TIMEOUT"

NoNullConn == "NullConn" \notin faults

\* Reply bds are never lost: every bd of reply_pool is free, posted on a
\* live connection, held by a read receiving its data, or carries a reply
\* to vol_proc.
ReplyBdConserved ==
  rfree + SumFunction(recvs) + Cardinality(rx)
    + Cardinality({k \in 1..Len(vq) : vq[k].t = "COMPLETE"})
    = Cardinality(Iocbs)

=============================================================================
