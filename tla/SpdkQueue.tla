------------------------------ MODULE SpdkQueue ------------------------------
(***************************************************************************)
(* PfSpdkQueue (pf_spdk_ring.cpp) consumed by thread_proc_spdkr           *)
(* (pf_event_thread.cpp): the event queue of a PfEventThread when the     *)
(* engine is SPDK, an MP_SC spdk ring of pf_spdk_msg pointers.  A message  *)
(* is taken from a cache list, filled and enqueued; the worker dequeues a *)
(* batch, processes each event and puts its message back on the list its *)
(* lock_cache_msg flag names.                                             *)
(*                                                                         *)
(* set_thread_queue is never called, so tls_queue is NULL and every post   *)
(* takes from msg_cache_locked under the spinlock.  msg_cache, the other  *)
(* 1024 messages, is never taken from; `unlocked` holds only the messages *)
(* put_event returns to it.                                               *)
(***************************************************************************)
EXTENDS Naturals, Sequences, FiniteSets

CONSTANTS
  Producers,        \* threads that post events
  LockedProducers,  \* those that call post_event_locked (server pollers)
  Stopper,          \* the thread that calls PfEventThread::stop()
  NMsg,             \* messages on msg_cache_locked after init
  RingCap,          \* capacity of the spdk ring (qd)
  Batch,            \* BATH_PROCESS / MSG_BATCH_SIZE
  MaxPost           \* posts per producer

ASSUME LockedProducers \subseteq Producers /\ Stopper \notin Producers
ASSUME RingCap >= 1 /\ Batch >= 1 /\ NMsg >= 1

Posters == Producers \cup {Stopper}
Msgs == 1..NMsg
NoMsg == 0

\* The k-th event posted by p; stop() posts exactly one, EVT_THREAD_EXIT.
Event(p, k) == [src |-> p, n |-> k]
Events == {Event(p, k) : p \in Posters, k \in 1..MaxPost}
IsExit(e) == e.src = Stopper
Budget(p) == IF p = Stopper THEN 1 ELSE MaxPost

VARIABLES
  locked,    \* msg_cache_locked, an SLIST used as a stack
  unlocked,  \* messages put_event returned to msg_cache
  flag,      \* lock_cache_msg of each message
  hold,      \* the message a poster has taken and not yet enqueued
  posted,    \* posts each poster has made
  nullDeref, \* posters that found msg_cache_locked empty
  ring,      \* the spdk ring: <<[m, ev]>>
  batch,     \* events[] of thread_proc_spdkr not yet handled
  cur,       \* the message processed and not yet put back
  done,      \* events passed to process_event, in order
  failed,    \* events whose post returned -1
  leaked,    \* messages never returned: failed enqueue, EVT_THREAD_EXIT
  halted     \* thread_proc_spdkr has returned

vars == <<locked, unlocked, flag, hold, posted, nullDeref, ring, batch, cur,
          done, failed, leaked, halted>>
prodVars == <<hold, posted, nullDeref>>
workerVars == <<batch, cur, done, halted>>

TypeOK ==
  /\ locked \in Seq(Msgs) /\ unlocked \subseteq Msgs
  /\ flag \in [Msgs -> BOOLEAN]
  /\ hold \in [Posters -> Msgs \cup {NoMsg}]
  /\ posted \in [Posters -> 0..MaxPost] /\ nullDeref \subseteq Posters
  /\ ring \in Seq([m : Msgs, ev : Events]) /\ Len(ring) <= RingCap
  /\ batch \in Seq([m : Msgs, ev : Events]) /\ Len(batch) <= Batch
  /\ cur \in Msgs \cup {NoMsg}
  /\ done \in Seq(Events) /\ failed \subseteq Events
  /\ leaked \subseteq Msgs /\ halted \in BOOLEAN

\* init: the mempool's messages go onto the list; lock_cache_msg is never
\* written there, so each flag holds whatever the mempool memory held.
Init ==
  /\ locked = [i \in 1..NMsg |-> i]
  /\ unlocked = {}
  /\ flag \in [Msgs -> BOOLEAN]
  /\ hold = [p \in Posters |-> NoMsg]
  /\ posted = [p \in Posters |-> 0]
  /\ nullDeref = {}
  /\ ring = <<>> /\ batch = <<>> /\ cur = NoMsg
  /\ done = <<>> /\ failed = {} /\ leaked = {} /\ halted = FALSE

\* post_event / post_event_locked, first half: SLIST_FIRST and
\* SLIST_REMOVE_HEAD of msg_cache_locked under the spinlock.
TakeMsg(p) ==
  /\ hold[p] = NoMsg /\ p \notin nullDeref /\ posted[p] < Budget(p)
  /\ locked # <<>>
  /\ hold' = [hold EXCEPT ![p] = Head(locked)]
  /\ locked' = Tail(locked)
  /\ UNCHANGED <<unlocked, flag, posted, nullDeref, ring, failed, leaked,
                 workerVars>>

\* The same lines on an empty list: SLIST_FIRST is NULL and
\* SLIST_REMOVE_HEAD dereferences it.  There is no check.
TakeEmpty(p) ==
  /\ hold[p] = NoMsg /\ p \notin nullDeref /\ posted[p] < Budget(p)
  /\ locked = <<>>
  /\ nullDeref' = nullDeref \cup {p}
  /\ UNCHANGED <<locked, unlocked, flag, hold, posted, ring, failed, leaked,
                 workerVars>>

\* Second half: post_event_locked sets lock_cache_msg; post_event leaves it.
\* spdk_ring_enqueue of one message.
FlagOnPost(p, m) ==
  IF p \in LockedProducers THEN [flag EXCEPT ![m] = TRUE] ELSE flag

\* Mutant: the enqueue does not look at the ring's free space.
EnqueueNoCapCheck(p) ==
  /\ hold[p] # NoMsg
  /\ ring' = Append(ring, [m |-> hold[p], ev |-> Event(p, posted[p] + 1)])
  /\ flag' = FlagOnPost(p, hold[p])
  /\ hold' = [hold EXCEPT ![p] = NoMsg]
  /\ posted' = [posted EXCEPT ![p] = @ + 1]
  /\ UNCHANGED <<locked, unlocked, nullDeref, failed, leaked, workerVars>>

Enqueue(p) ==
  /\ hold[p] # NoMsg
  /\ Len(ring) < RingCap
  /\ ring' = Append(ring, [m |-> hold[p], ev |-> Event(p, posted[p] + 1)])
  /\ flag' = FlagOnPost(p, hold[p])
  /\ hold' = [hold EXCEPT ![p] = NoMsg]
  /\ posted' = [posted EXCEPT ![p] = @ + 1]
  /\ UNCHANGED <<locked, unlocked, nullDeref, failed, leaked, workerVars>>

\* A full ring: the post returns -1 and the message is not put back.
EnqueueFull(p) ==
  /\ hold[p] # NoMsg
  /\ Len(ring) = RingCap
  /\ failed' = failed \cup {Event(p, posted[p] + 1)}
  /\ leaked' = leaked \cup {hold[p]}
  /\ flag' = FlagOnPost(p, hold[p])
  /\ hold' = [hold EXCEPT ![p] = NoMsg]
  /\ posted' = [posted EXCEPT ![p] = @ + 1]
  /\ UNCHANGED <<locked, unlocked, nullDeref, ring, workerVars>>

\* Mutant: the dequeue leaves the last message of the batch in the ring.
GetEventsOffByOne ==
  /\ ~halted /\ batch = <<>> /\ cur = NoMsg /\ ring # <<>>
  /\ LET k == IF Len(ring) < Batch THEN Len(ring) ELSE Batch
     IN /\ batch' = SubSeq(ring, 1, k)
        /\ ring' = SubSeq(ring, k, Len(ring))
  /\ UNCHANGED <<locked, unlocked, flag, prodVars, cur, done, failed, leaked,
                 halted>>

\* get_events(BATH_PROCESS): spdk_ring_dequeue of up to Batch messages, once
\* the previous batch is handled.  An empty dequeue is a stuttering poll.
GetEvents ==
  /\ ~halted /\ batch = <<>> /\ cur = NoMsg /\ ring # <<>>
  /\ LET k == IF Len(ring) < Batch THEN Len(ring) ELSE Batch
     IN /\ batch' = SubSeq(ring, 1, k)
        /\ ring' = SubSeq(ring, k + 1, Len(ring))
  /\ UNCHANGED <<locked, unlocked, flag, prodVars, cur, done, failed, leaked,
                 halted>>

\* The loop body: process_event for an ordinary event ...
Process ==
  /\ ~halted /\ cur = NoMsg /\ batch # <<>>
  /\ ~IsExit(Head(batch).ev)
  /\ done' = Append(done, Head(batch).ev)
  /\ cur' = Head(batch).m
  /\ batch' = Tail(batch)
  /\ UNCHANGED <<locked, unlocked, flag, prodVars, ring, failed, leaked,
                 halted>>

\* ... and EVT_THREAD_EXIT, which returns without put_event; the rest of
\* the batch stays in events[] for good.
ProcessExit ==
  /\ ~halted /\ cur = NoMsg /\ batch # <<>>
  /\ IsExit(Head(batch).ev)
  /\ halted' = TRUE
  /\ leaked' = leaked \cup {Head(batch).m}
  /\ batch' = Tail(batch)
  /\ UNCHANGED <<locked, unlocked, flag, prodVars, ring, cur, done, failed>>

\* put_event: back to msg_cache_locked under the lock if lock_cache_msg is
\* set, otherwise to msg_cache.
PutEvent ==
  /\ cur # NoMsg
  /\ \/ flag[cur] /\ locked' = <<cur>> \o locked /\ UNCHANGED unlocked
     \/ ~flag[cur] /\ unlocked' = unlocked \cup {cur} /\ UNCHANGED locked
  /\ cur' = NoMsg
  /\ UNCHANGED <<flag, prodVars, ring, batch, done, failed, leaked, halted>>

Post(p) == TakeMsg(p) \/ TakeEmpty(p) \/ Enqueue(p) \/ EnqueueFull(p)
Worker == GetEvents \/ Process \/ ProcessExit \/ PutEvent

Next == (\E p \in Posters : Post(p)) \/ Worker

\* The worker loops while it has events; a thread that has taken a message
\* goes on to enqueue it.  Taking one is the poster's choice.
Fairness ==
  /\ WF_vars(Worker)
  /\ \A p \in Posters : WF_vars(Enqueue(p) \/ EnqueueFull(p))

Spec == Init /\ [][Next]_vars /\ Fairness

-----------------------------------------------------------------------------
(* Properties *)

\* No post_event or post_event_locked ever reaches SLIST_FIRST of an empty
\* msg_cache_locked: the cache must be refilled by put_event as fast as it
\* is drained, since neither post checks for NULL.
NoNullMsg == nullDeref = {}

\* The ring, seen through the worker's batch, refines the abstract FIFO:
\* each accepted event is processed once, in ring order, and eventually,
\* unless EVT_THREAD_EXIT comes first; a post that fails says so.
Pending == batch \o ring
Abs == INSTANCE EventFifo
         WITH q <- [i \in 1..Len(Pending) |-> Pending[i].ev],
              delivered <- done, failed <- failed, halted <- halted
FifoRefined == Abs!Spec

=============================================================================
