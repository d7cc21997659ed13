--------------------------- MODULE ServerDispatch ---------------------------
(***************************************************************************)
(* The server data path of PureFlash: the dispatcher's pool of            *)
(* PfServerIocb, the TCP poller callbacks that receive requests and send  *)
(* replies (pf_server.cpp), the per-replica subtask fan-out and its join  *)
(* (pf_dispatcher.h), and the storage back ends that complete subtasks    *)
(* (pf_ioengine.cpp).                                                     *)
(*                                                                         *)
(* Threads: every poller runs the network callbacks of its connections    *)
(* one at a time; the dispatcher thread runs EVT_IO_REQ / EVT_IO_COMPLETE *)
(* from its queue; each subtask is completed by a back-end thread (the    *)
(* AIO poller for the local replica, a replicator connection for a remote *)
(* one).  PfServerIocb::dec_ref returns the slot to the pool and only     *)
(* afterwards drops the connection reference through the slot's `conn`  *)
(* field; a poller in between the two is in phase "Release".              *)
(***************************************************************************)
EXTENDS Naturals, FiniteSets, Sequences, FiniteSetsExt

CONSTANTS
  Iocbs,      \* slots of PfDispatcher::iocb_pool
  Conns,      \* accepted TCP connections served by this dispatcher
  Pollers,    \* poller threads
  PollerOf,   \* [Conns -> Pollers]: PfTcpServer::get_best_poller's choice
  RecvDepth,  \* conn->io_depth*2: receives posted at handshake
  Replicas,   \* replica indexes of the shard (rep_index)
  LocalRep,   \* the replica stored on this server's own disk
  MetaVers,   \* meta_ver values a remote replica may report
  MaxReq,     \* bound: request heads received over the whole run
  NoConn,     \* NULL connection pointer
  NoIocb      \* no iocb

ASSUME /\ PollerOf \in [Conns -> Pollers]
       /\ RecvDepth \in Nat \ {0}
       /\ LocalRep \in Replicas
       /\ MetaVers \subseteq Nat \ {0}
       /\ MaxReq \in Nat
       /\ NoConn \notin Conns /\ NoIocb \notin Iocbs

Remote == Replicas \ {LocalRep}

\* PfMessageStatus values the model tells apart
SUCCESS   == "SUCCESS"
AIOERROR  == "AIOERROR"    \* MSG_STATUS_AIOERROR: length mismatch or media error
REPERROR  == "REPERROR"    \* failure reported by a remote replica
NOREPLICA == "NOREPLICA"   \* no replica eligible for a write
Status == {SUCCESS, AIOERROR, REPERROR, NOREPLICA}

\* What the network or the dispatcher holds the iocb for
Stages == {"Free", "RecvHead", "RecvData", "Queued", "Dispatched",
           "Reply", "SendData", "Detached"}
NetStages == {"RecvHead", "RecvData", "Reply", "SendData"}

SubStates == {"Idle", "Backend", "Raise", "Posted", "Joined"}

VARIABLES
  free,       \* free slots of iocb_pool
  ref,        \* PfServerIocb::ref_count
  conn,       \* PfServerIocb::conn
  stage,      \* outstanding network operation or dispatcher step
  isWrite,    \* IS_WRITE_OP(cmd_bd->opcode)
  taskMask,   \* PfServerIocb::task_mask as the set of its bits
  status,     \* PfServerIocb::complete_status
  metaVer,    \* PfServerIocb::complete_meta_ver
  sub,        \* [Iocbs -> [Replicas -> [st, res, mv]]]: SubTask state
  req,        \* id of the request the slot carries (history)
  nreq,       \* request heads received so far
  replies,    \* [1..MaxReq -> Nat]: replies posted per request (history)
  connState,  \* PfConnection::state
  hs,         \* handshake progress of each connection
  connRef,    \* PfConnection reference count
  dq,         \* the dispatcher's event queue
  pc,         \* [Pollers -> [ph, iocb, conn, repost]]: poller inside dec_ref
  faults      \* NULL dereferences reached

vars == <<free, ref, conn, stage, isWrite, taskMask, status, metaVer, sub,
          req, nreq, replies, connState, hs, connRef, dq, pc, faults>>

IdleSub == [st |-> "Idle", res |-> SUCCESS, mv |-> 0]
IdlePc  == [ph |-> "Idle", iocb |-> NoIocb, conn |-> NoConn, repost |-> FALSE]

ReqEvt(i)         == [kind |-> "REQ", iocb |-> i, rep |-> LocalRep]
CompleteEvt(i, r) == [kind |-> "COMPLETE", iocb |-> i, rep |-> r]

-----------------------------------------------------------------------------
(* Helpers shared by the actions                                           *)

\* The thread a network completion of iocb i runs on.
PollerIdle(i) == conn[i] \in Conns /\ pc[PollerOf[conn[i]]].ph = "Idle"

\* PfConnection::add_ref / dec_ref on connection c.
AddConnRef(c, n) == connRef' = [connRef EXCEPT ![c] = @ + n]

CloseConnKeepRef(c) ==
  /\ connState' = [connState EXCEPT ![c] = "CLOSED"]
  /\ UNCHANGED connRef

\* The connection closes: state CLOSED and its on_close callback,
\* server_on_conn_close, drops the reference taken in accept_connection.
CloseConn(c) ==
  /\ connState' = [connState EXCEPT ![c] = "CLOSED"]
  /\ AddConnRef(c, -1)

\* PfServerIocb::dec_ref as run by poller t.  At zero the fields are reset
\* and the slot goes back to iocb_pool; the conn->dec_ref() that follows
\* is the poller's next step (ReleaseConn).  `repost` is what the callback
\* does after dec_ref: allocate a new iocb and post its receive.
DecRef(t, i, repost) ==
  /\ ref' = [ref EXCEPT ![i] = @ - 1]
  /\ IF ref[i] = 1
       THEN /\ free' = free \cup {i}
            /\ stage' = [stage EXCEPT ![i] = "Free"]
            /\ status' = [status EXCEPT ![i] = SUCCESS]
            /\ metaVer' = [metaVer EXCEPT ![i] = 0]
            /\ taskMask' = [taskMask EXCEPT ![i] = {}]
            /\ sub' = [sub EXCEPT ![i] = [r \in Replicas |-> IdleSub]]
            /\ pc' = [pc EXCEPT ![t] = [ph |-> "Release", iocb |-> i,
                                        conn |-> conn[i], repost |-> repost]]
       ELSE /\ stage' = [stage EXCEPT ![i] = "Detached"]
            /\ pc' = [pc EXCEPT ![t] = IF repost
                        THEN [IdlePc EXCEPT !.ph = "Repost", !.conn = conn[i]]
                        ELSE IdlePc]
            /\ UNCHANGED <<free, status, metaVer, taskMask, sub>>

\* The same dec_ref run by the dispatcher thread, whose handler finishes it
\* in one step: nothing else of the dispatcher runs in between.
DecRefNow(i) ==
  /\ ref' = [ref EXCEPT ![i] = @ - 1]
  /\ IF ref[i] = 1
       THEN /\ free' = free \cup {i}
            /\ conn' = [conn EXCEPT ![i] = NoConn]
            /\ AddConnRef(conn[i], -1)
       ELSE UNCHANGED <<free, conn, connRef>>

SetupSubtaskNoRef(i, eligible) ==
  /\ taskMask' = [taskMask EXCEPT ![i] = @ \cup eligible]
  /\ UNCHANGED ref
  /\ sub' = [sub EXCEPT ![i] = [r \in Replicas |->
                IF r \in eligible THEN [st |-> "Backend", res |-> SUCCESS, mv |-> 0]
                                  ELSE @[r]]]

\* PfServerIocb::setup_subtask: one subtask per eligible replica.
SetupSubtask(i, eligible) ==
  /\ taskMask' = [taskMask EXCEPT ![i] = @ \cup eligible]
  /\ ref' = [ref EXCEPT ![i] = @ + Cardinality(eligible)]
  /\ sub' = [sub EXCEPT ![i] = [r \in Replicas |->
                IF r \in eligible THEN [st |-> "Backend", res |-> SUCCESS, mv |-> 0]
                                  ELSE @[r]]]

\* PfServerIocb::setup_one_subtask for replica r.
SetupOneSubtask(i, r) == SetupSubtask(i, {r})

\* How a subtask's status folds into the iocb's complete_status: the first
\* failure is kept.
JoinStatusLast(cur, res) == res
JoinStatus(cur, res) == IF cur = SUCCESS THEN res ELSE cur

\* Whether the subtask of replica r is the last one outstanding.
LastSubtaskAny(mask, r) == r \in mask
LastSubtask(mask, r) == mask = {r}

\* The dispatcher posts the reply of iocb i on its connection.
PostReply(i) ==
  /\ stage' = [stage EXCEPT ![i] = "Reply"]
  /\ replies' = [replies EXCEPT ![req[i]] = @ + 1]

-----------------------------------------------------------------------------
(* Connection set-up: on_tcp_handshake_recved, on_tcp_handshake_sent       *)

\* The handshake arrives; an invalid io_depth or an unopened volume marks
\* the connection CLOSING; the handshake reply is posted either way.
HandshakeRecved(c) ==
  /\ hs[c] = "RecvPosted"
  /\ pc[PollerOf[c]].ph = "Idle"
  /\ \E valid \in BOOLEAN :
        connState' = [connState EXCEPT ![c] = IF valid THEN "OK" ELSE "CLOSING"]
  /\ hs' = [hs EXCEPT ![c] = "ReplyPosted"]
  /\ UNCHANGED <<free, ref, conn, stage, isWrite, taskMask, status, metaVer,
                 sub, req, nreq, replies, connRef, dq, pc, faults>>

\* The handshake reply is sent: a CLOSING connection or a failed send is
\* closed; otherwise RecvDepth iocbs are allocated, each referencing the
\* connection and with a receive posted; the connection is closed if the
\* pool runs out first, and the loop stops early if a post_recv fails.
HandshakeSent(c) ==
  /\ hs[c] = "ReplyPosted"
  /\ pc[PollerOf[c]].ph = "Idle"
  /\ hs' = [hs EXCEPT ![c] = "Done"]
  /\ \/ /\ connState[c] = "CLOSING"
        /\ CloseConn(c)
        /\ UNCHANGED <<free, ref, conn, stage>>
     \/ /\ connState[c] = "OK"
        /\ CloseConn(c)        \* the handshake send failed
        /\ UNCHANGED <<free, ref, conn, stage>>
     \/ /\ connState[c] = "OK"
        /\ \E s \in SUBSET free :
             /\ Cardinality(s) <= RecvDepth
             /\ free' = free \ s
             /\ ref' = [i \in Iocbs |-> IF i \in s THEN ref[i] + 1 ELSE ref[i]]
             /\ conn' = [i \in Iocbs |-> IF i \in s THEN c ELSE conn[i]]
             /\ stage' = [i \in Iocbs |-> IF i \in s THEN "RecvHead" ELSE stage[i]]
             /\ \/ /\ Cardinality(s) = RecvDepth          \* every receive posted
                   /\ AddConnRef(c, Cardinality(s))
                   /\ UNCHANGED connState
                \/ /\ s = free /\ Cardinality(s) < RecvDepth   \* alloc() returned NULL
                   /\ connState' = [connState EXCEPT ![c] = "CLOSED"]
                   /\ AddConnRef(c, Cardinality(s) - 1)
                \/ /\ Cardinality(s) < RecvDepth   \* post_recv failed: that iocb's
                   /\ AddConnRef(c, Cardinality(s))   \* dec_ref undoes its references
                   /\ UNCHANGED connState
  /\ UNCHANGED <<isWrite, taskMask, status, metaVer, sub, req, nreq, replies,
                 dq, pc, faults>>

\* The peer goes away: the connection is closed and its posted operations
\* complete with TCP_WC_FLUSH_ERR.
PeerClose(c) ==
  /\ connState[c] = "OK"
  /\ hs[c] = "Done"
  /\ CloseConn(c)
  /\ UNCHANGED <<free, ref, conn, stage, isWrite, taskMask, status, metaVer,
                 sub, req, nreq, replies, hs, dq, pc, faults>>

-----------------------------------------------------------------------------
(* Poller: server_on_tcp_network_done                                      *)

\* A message head is received: a write goes on to receive its data, a read
\* is posted to the dispatcher as EVT_IO_REQ.
HeadReceived(i) ==
  /\ stage[i] = "RecvHead"
  /\ PollerIdle(i)
  /\ connState[conn[i]] = "OK"
  /\ nreq < MaxReq
  /\ nreq' = nreq + 1
  /\ req' = [req EXCEPT ![i] = nreq + 1]
  /\ \E w \in BOOLEAN :
       /\ isWrite' = [isWrite EXCEPT ![i] = w]
       /\ IF w THEN /\ stage' = [stage EXCEPT ![i] = "RecvData"]
                    /\ AddConnRef(conn[i], 1)
                    /\ UNCHANGED dq
               ELSE /\ stage' = [stage EXCEPT ![i] = "Queued"]
                    /\ dq' = Append(dq, ReqEvt(i))
                    /\ UNCHANGED connRef
  /\ UNCHANGED <<free, ref, conn, taskMask, status, metaVer, sub, replies,
                 connState, hs, pc, faults>>

DataDoneTwice(c) == AddConnRef(c, -2)
DataDoneLeak(c) == UNCHANGED connRef

\* The transport drops the reference a data transfer held on the
\* connection when the transfer completes.
DataDone(c) == AddConnRef(c, -1)

\* The data of a write is received: EVT_IO_REQ to the dispatcher.
DataReceived(i) ==
  /\ stage[i] = "RecvData"
  /\ PollerIdle(i)
  /\ connState[conn[i]] = "OK"
  /\ stage' = [stage EXCEPT ![i] = "Queued"]
  /\ dq' = Append(dq, ReqEvt(i))
  /\ DataDone(conn[i])
  /\ UNCHANGED <<free, ref, conn, isWrite, taskMask, status, metaVer, sub,
                 req, nreq, replies, connState, hs, pc, faults>>

\* A send completes.  The reply head of a successful read is followed by
\* its data; otherwise the iocb is released and a fresh iocb is posted to
\* receive the next request.
SendDone(i) ==
  /\ stage[i] \in {"Reply", "SendData"}
  /\ PollerIdle(i)
  /\ connState[conn[i]] = "OK"
  /\ \/ /\ stage[i] = "Reply" /\ ~isWrite[i] /\ status[i] = SUCCESS
        /\ stage' = [stage EXCEPT ![i] = "SendData"]
        /\ AddConnRef(conn[i], 1)
        /\ UNCHANGED <<free, ref, status, metaVer, taskMask, sub, pc>>
     \/ /\ ~(stage[i] = "Reply" /\ ~isWrite[i] /\ status[i] = SUCCESS)
        /\ DecRef(PollerOf[conn[i]], i, TRUE)
        /\ IF stage[i] = "SendData" THEN DataDone(conn[i]) ELSE UNCHANGED connRef
  /\ UNCHANGED <<conn, isWrite, req, nreq, replies, connState, hs, dq, faults>>

\* A posted operation of a closed connection completes with FLUSH_ERR.
FlushDone(i) ==
  /\ stage[i] \in NetStages
  /\ PollerIdle(i)
  /\ connState[conn[i]] = "CLOSED"
  /\ DecRef(PollerOf[conn[i]], i, FALSE)
  /\ IF stage[i] \in {"RecvData", "SendData"} THEN DataDone(conn[i])
                                              ELSE UNCHANGED connRef
  /\ UNCHANGED <<conn, isWrite, req, nreq, replies, connState, hs, dq, faults>>

\* The rest of dec_ref after the slot went back to the pool:
\* conn->dec_ref(); conn = NULL;  both through the slot's field.
ReleaseConn(t) ==
  /\ pc[t].ph = "Release"
  /\ LET i == pc[t].iocb IN
       IF conn[i] = NoConn
         THEN /\ faults' = faults \cup {"NullConn"}
              /\ UNCHANGED <<conn, connRef>>
         ELSE /\ AddConnRef(conn[i], -1)
              /\ conn' = [conn EXCEPT ![i] = NoConn]
              /\ UNCHANGED faults
  /\ pc' = [pc EXCEPT ![t] = IF pc[t].repost
                               THEN [IdlePc EXCEPT !.ph = "Repost", !.conn = pc[t].conn]
                               ELSE IdlePc]
  /\ UNCHANGED <<free, ref, stage, isWrite, taskMask, status, metaVer, sub,
                 req, nreq, replies, connState, hs, dq>>

RepostRecvNoConn(t) ==
  /\ pc[t].ph = "Repost"
  /\ IF free = {}
       THEN /\ faults' = faults \cup {"NullIocb"}
            /\ UNCHANGED <<free, ref, stage, connRef>>
       ELSE \E n \in free :
              /\ free' = free \ {n}
              /\ ref' = [ref EXCEPT ![n] = @ + 1]
              /\ stage' = [stage EXCEPT ![n] = "RecvHead"]
              /\ AddConnRef(pc[t].conn, 1)
              /\ UNCHANGED faults
  /\ pc' = [pc EXCEPT ![t] = IdlePc]
  /\ UNCHANGED <<conn, isWrite, taskMask, status, metaVer, sub, req, nreq, replies,
                 connState, hs, dq>>

\* iocb_pool.alloc() for the next request on the callback's connection,
\* new_iocb->conn = conn, add_ref on both, post_recv(cmd_bd).  The result
\* of alloc is not checked.
RepostRecv(t) ==
  /\ pc[t].ph = "Repost"
  /\ LET c == pc[t].conn IN
       IF free = {}
         THEN /\ faults' = faults \cup {"NullIocb"}
              /\ UNCHANGED <<free, ref, conn, stage, connRef>>
         ELSE \E n \in free :
                /\ free' = free \ {n}
                /\ ref' = [ref EXCEPT ![n] = @ + 1]
                /\ conn' = [conn EXCEPT ![n] = c]
                /\ stage' = [stage EXCEPT ![n] = "RecvHead"]
                /\ AddConnRef(c, 1)
                /\ UNCHANGED faults
  /\ pc' = [pc EXCEPT ![t] = IdlePc]
  /\ UNCHANGED <<isWrite, taskMask, status, metaVer, sub, req, nreq, replies,
                 connState, hs, dq>>

-----------------------------------------------------------------------------
(* Dispatcher thread: PfDispatcher::process_event                          *)

\* EVT_IO_REQ: a write fans out to every eligible replica (replicas whose
\* health is OK or RECOVERING); a write with none is answered at once with
\* an error; a read is served by the local replica.
DispatchIo ==
  /\ dq # <<>>
  /\ Head(dq).kind = "REQ"
  /\ LET i == Head(dq).iocb IN
       /\ \/ /\ isWrite[i]
             /\ \E eligible \in SUBSET Replicas :
                  IF eligible = {}
                    THEN /\ status' = [status EXCEPT ![i] = NOREPLICA]
                         /\ PostReply(i)
                         /\ UNCHANGED <<taskMask, ref, sub>>
                    ELSE /\ SetupSubtask(i, eligible)
                         /\ stage' = [stage EXCEPT ![i] = "Dispatched"]
                         /\ UNCHANGED <<status, replies>>
          \/ /\ ~isWrite[i]
             /\ SetupOneSubtask(i, LocalRep)
             /\ stage' = [stage EXCEPT ![i] = "Dispatched"]
             /\ UNCHANGED <<status, replies>>
  /\ dq' = Tail(dq)
  /\ UNCHANGED <<free, conn, isWrite, metaVer, req, nreq, connState, hs,
                 connRef, pc, faults>>

\* EVT_IO_COMPLETE: fold the subtask's status into the iocb (the first
\* failure is kept), clear its task_mask bit, drop its reference, and post
\* the reply once no subtask is left.
DispatchComplete ==
  /\ dq # <<>>
  /\ Head(dq).kind = "COMPLETE"
  /\ LET i == Head(dq).iocb
         r == Head(dq).rep
     IN /\ status' = [status EXCEPT ![i] = JoinStatus(@, sub[i][r].res)]
        /\ taskMask' = [taskMask EXCEPT ![i] = @ \ {r}]
        /\ sub' = [sub EXCEPT ![i][r].st = "Joined"]
        /\ DecRefNow(i)
        /\ IF LastSubtask(taskMask[i], r)
             THEN PostReply(i)
             ELSE UNCHANGED <<stage, replies>>
  /\ dq' = Tail(dq)
  /\ UNCHANGED <<isWrite, metaVer, req, nreq, connState, hs, pc, faults>>

-----------------------------------------------------------------------------
(* Back ends: the local disk and the replicator's completions              *)

\* The local disk completes a subtask, successfully or with
\* MSG_STATUS_AIOERROR; SubTask::complete records the status and posts
\* EVT_IO_COMPLETE.  ServerDisk refines this one step into the I/O
\* engine's submission and its poller's reap.
LocalComplete(i) ==
  /\ sub[i][LocalRep].st = "Backend"
  /\ \E s \in {SUCCESS, AIOERROR} :
       sub' = [sub EXCEPT ![i][LocalRep] = [st |-> "Posted", res |-> s, mv |-> 0]]
  /\ dq' = Append(dq, CompleteEvt(i, LocalRep))
  /\ UNCHANGED <<free, ref, conn, stage, isWrite, taskMask, status, metaVer,
                 req, nreq, replies, connState, hs, connRef, pc, faults>>

\* A remote replica answers with a status and its meta_ver.
\* SubTask::complete(status, meta_ver) first compares meta_ver with the
\* parent's complete_meta_ver; only a larger one is written, in a second
\* step, before complete(status).  Nothing orders the two steps against
\* another replica's completion.
RemoteComplete(i, r) ==
  /\ sub[i][r].st = "Backend"
  /\ \E s \in {SUCCESS, REPERROR}, mv \in MetaVers :
       IF mv > metaVer[i]
         THEN /\ sub' = [sub EXCEPT ![i][r] = [st |-> "Raise", res |-> s, mv |-> mv]]
              /\ UNCHANGED dq
         ELSE /\ sub' = [sub EXCEPT ![i][r] = [st |-> "Posted", res |-> s, mv |-> mv]]
              /\ dq' = Append(dq, CompleteEvt(i, r))
  /\ UNCHANGED <<free, ref, conn, stage, isWrite, taskMask, status, metaVer,
                 req, nreq, replies, connState, hs, connRef, pc, faults>>

\* The second step: complete_meta_ver = meta_ver; then complete(status).
RemoteRaise(i, r) ==
  /\ sub[i][r].st = "Raise"
  /\ metaVer' = [metaVer EXCEPT ![i] = sub[i][r].mv]
  /\ sub' = [sub EXCEPT ![i][r].st = "Posted"]
  /\ dq' = Append(dq, CompleteEvt(i, r))
  /\ UNCHANGED <<free, ref, conn, stage, isWrite, taskMask, status, req, nreq,
                 replies, connState, hs, connRef, pc, faults>>

-----------------------------------------------------------------------------

Init ==
  /\ free = Iocbs
  /\ ref = [i \in Iocbs |-> 0]
  /\ conn = [i \in Iocbs |-> NoConn]
  /\ stage = [i \in Iocbs |-> "Free"]
  /\ isWrite = [i \in Iocbs |-> FALSE]
  /\ taskMask = [i \in Iocbs |-> {}]
  /\ status = [i \in Iocbs |-> SUCCESS]
  /\ metaVer = [i \in Iocbs |-> 0]
  /\ sub = [i \in Iocbs |-> [r \in Replicas |-> IdleSub]]
  /\ req = [i \in Iocbs |-> 0]
  /\ nreq = 0
  /\ replies = [q \in 1..MaxReq |-> 0]
  /\ connState = [c \in Conns |-> "INIT"]
  /\ hs = [c \in Conns |-> "RecvPosted"]
  /\ connRef = [c \in Conns |-> 1]       \* the reference accept_connection takes
  /\ dq = <<>>
  /\ pc = [t \in Pollers |-> IdlePc]
  /\ faults = {}

PollerStep(i) ==
  \/ HeadReceived(i) \/ DataReceived(i) \/ SendDone(i) \/ FlushDone(i)

RemoteStep(i) == \E r \in Remote : RemoteComplete(i, r) \/ RemoteRaise(i, r)

BackendStep(i) == LocalComplete(i) \/ RemoteStep(i)

\* Every step but the local back end's: the network, the pollers, the
\* dispatcher and the remote replicas.
NetAndDispatch ==
  \/ \E c \in Conns : HandshakeRecved(c) \/ HandshakeSent(c) \/ PeerClose(c)
  \/ \E i \in Iocbs : PollerStep(i) \/ RemoteStep(i)
  \/ \E t \in Pollers : ReleaseConn(t) \/ RepostRecv(t)
  \/ DispatchIo \/ DispatchComplete

Next == NetAndDispatch \/ \E i \in Iocbs : LocalComplete(i)

\* Network completions, the dispatcher and the back ends always make
\* progress; a client sending a request or a handshake, or a peer closing,
\* need not.
Fairness ==
  /\ \A i \in Iocbs : /\ WF_vars(DataReceived(i)) /\ WF_vars(SendDone(i))
                      /\ WF_vars(FlushDone(i)) /\ WF_vars(BackendStep(i))
  /\ \A t \in Pollers : WF_vars(ReleaseConn(t)) /\ WF_vars(RepostRecv(t))
  /\ WF_vars(DispatchIo) /\ WF_vars(DispatchComplete)

Spec == Init /\ [][Next]_vars /\ Fairness

-----------------------------------------------------------------------------
(* Properties                                                              *)

TypeOK ==
  /\ free \subseteq Iocbs
  /\ ref \in [Iocbs -> Nat]
  /\ conn \in [Iocbs -> Conns \cup {NoConn}]
  /\ stage \in [Iocbs -> Stages]
  /\ isWrite \in [Iocbs -> BOOLEAN]
  /\ taskMask \in [Iocbs -> SUBSET Replicas]
  /\ status \in [Iocbs -> Status]
  /\ metaVer \in [Iocbs -> {0} \cup MetaVers]
  /\ sub \in [Iocbs -> [Replicas -> [st : SubStates, res : Status,
                                      mv : {0} \cup MetaVers]]]
  /\ req \in [Iocbs -> 0..MaxReq] /\ nreq \in 0..MaxReq
  /\ replies \in [1..MaxReq -> Nat]
  /\ connState \in [Conns -> {"INIT", "OK", "CLOSING", "CLOSED"}]
  /\ hs \in [Conns -> {"RecvPosted", "ReplyPosted", "Done"}]
  /\ connRef \in [Conns -> Nat]
  /\ dq \in Seq([kind : {"REQ", "COMPLETE"}, iocb : Iocbs, rep : Replicas])
  /\ pc \in [Pollers -> [ph : {"Idle", "Release", "Repost"}, iocb : Iocbs \cup {NoIocb},
                         conn : Conns \cup {NoConn}, repost : BOOLEAN]]
  /\ faults \subseteq {"NullConn", "NullIocb"}

Pending(i) == {r \in Replicas : sub[i][r].st \in {"Backend", "Raise", "Posted"}}
Joined(i)  == {r \in Replicas : sub[i][r].st = "Joined"}
Replying(i) == stage[i] \in {"Reply", "SendData"}

\* The join protocol of setup_subtask / dispatch_complete / dec_ref: a free
\* slot holds no reference; an allocated one holds exactly one for the
\* network operation or dispatcher step it is in, plus one per subtask not
\* yet joined, and task_mask has exactly the bits of those subtasks.
RefCountMatchesMask ==
  \A i \in Iocbs :
    IF i \in free THEN ref[i] = 0
    ELSE /\ ref[i] = 1 + Cardinality(taskMask[i])
         /\ taskMask[i] = Pending(i)

\* Connection lifetime: a connection's reference count is the reference of
\* accept_connection until it closes, plus one per iocb whose conn field
\* names it, plus one per data transfer in flight on it.  A slot back in
\* the pool keeps its reference until dec_ref's conn->dec_ref().
ConnRefAccounting ==
  \A c \in Conns :
    connRef[c] = (IF connState[c] = "CLOSED" THEN 0 ELSE 1)
                 + Cardinality({i \in Iocbs : conn[i] = c})
                 + Cardinality({i \in Iocbs : conn[i] = c /\ stage[i] \in {"RecvData", "SendData"}})

\* No request is answered twice, even though its slot is recycled and its
\* subtasks complete in any order on several threads.
ExactlyOnceReply == \A q \in 1..MaxReq : replies[q] <= 1

\* First failure wins: the reply reports success exactly when at least one
\* replica was written and every subtask succeeded; a failure it reports
\* is one a subtask returned, or the no-replica error.
FirstErrorWins ==
  \A i \in Iocbs : Replying(i) =>
    /\ status[i] = SUCCESS <=> (Joined(i) # {} /\ \A r \in Joined(i) : sub[i][r].res = SUCCESS)
    /\ status[i] \in {SUCCESS, NOREPLICA} \cup {sub[i][r].res : r \in Joined(i)}

\* complete_meta_ver reported in the reply is the largest meta_ver any
\* replica returned (SubTask::complete(status, meta_ver)).
MetaVerIsMax ==
  \A i \in Iocbs : Replying(i) =>
    metaVer[i] = Max({0} \cup {sub[i][r].mv : r \in Joined(i)})

\* dec_ref resets the iocb before it returns to the pool: no allocated slot
\* ever loses its connection.
AllocatedHasConn == \A i \in Iocbs \ free : conn[i] \in Conns

\* Every request that reaches the dispatcher is eventually answered, even
\* if its connection closes meanwhile.
ReqQueued(q) == \E i \in Iocbs : req[i] = q /\ stage[i] = "Queued"
RequestAnswered == \A q \in 1..MaxReq : ReqQueued(q) ~> (replies[q] = 1)

\* A closed connection is eventually released: every iocb it holds returns
\* to the pool and drops its reference.
ClosedConnDrains ==
  \A c \in Conns : (connState[c] = "CLOSED") ~> (connRef[c] = 0)

=============================================================================
