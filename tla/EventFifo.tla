------------------------------ MODULE EventFifo ------------------------------
(***************************************************************************)
(* What an event queue of PureFlash promises its users (pfqueue and the   *)
(* worker loop of PfEventThread): a post either fails and says so, or its *)
(* event is handed to process_event exactly once, in the order the posts  *)
(* entered the queue, unless the worker has already taken EVT_THREAD_EXIT. *)
(* An EXIT event stops the worker; later events are never processed.      *)
(***************************************************************************)
EXTENDS Naturals, Sequences

CONSTANTS
  Events,     \* the events that may be posted
  IsExit(_)   \* whether an event is EVT_THREAD_EXIT

VARIABLES
  q,          \* events accepted by the queue and not yet processed
  delivered,  \* events passed to process_event, in order (history)
  failed,     \* events whose post returned an error
  halted      \* the worker thread has returned

avars == <<q, delivered, failed, halted>>

Init ==
  /\ q = <<>>
  /\ delivered = <<>>
  /\ failed = {}
  /\ halted = FALSE

\* Each event is a distinct post: it is accepted or refused once.
Seen(e) == \/ \E i \in 1..Len(q) : q[i] = e
           \/ \E i \in 1..Len(delivered) : delivered[i] = e
           \/ e \in failed

Post(e) ==
  /\ ~Seen(e)
  /\ q' = Append(q, e)
  /\ UNCHANGED <<delivered, failed, halted>>

PostFail(e) ==
  /\ ~Seen(e)
  /\ failed' = failed \cup {e}
  /\ UNCHANGED <<q, delivered, halted>>

Deliver ==
  /\ ~halted
  /\ q # <<>>
  /\ ~IsExit(Head(q))
  /\ delivered' = Append(delivered, Head(q))
  /\ q' = Tail(q)
  /\ UNCHANGED <<failed, halted>>

Halt ==
  /\ ~halted
  /\ q # <<>>
  /\ IsExit(Head(q))
  /\ halted' = TRUE
  /\ q' = Tail(q)
  /\ UNCHANGED <<delivered, failed>>

Next ==
  \/ \E e \in Events : Post(e) \/ PostFail(e)
  \/ Deliver
  \/ Halt

\* The worker keeps taking events while it runs.
Spec == Init /\ [][Next]_avars /\ WF_avars(Deliver) /\ WF_avars(Halt)

=============================================================================
