-------------------------- MODULE ClientAlgorithms --------------------------
(***************************************************************************)
(* Sequential algorithms of the client (pf_client_api.cpp) as operators,  *)
(* each checked against a reference definition over all small inputs.    *)
(*   - The EVT_SEND_HEARTBEAT sweep of PfClientVolume::process_event over  *)
(*     conn_pool->ip_id_map, with its rotating next_heartbeat_idx.         *)
(*   - iov_to_buf and iov_from_buf, which copy between a user's iovec     *)
(*     array and the iocb's data buffer in pf_iov_submit and              *)
(*     client_do_complete.                                                 *)
(***************************************************************************)
EXTENDS Naturals, Sequences, SequencesExt, FiniteSets

CONSTANTS
  MaxConns,   \* largest ip_id_map checked
  MaxSegs,    \* most iovec entries checked
  MaxSegLen   \* longest iovec entry checked, in bytes

-----------------------------------------------------------------------------
(* The heartbeat sweep                                                     *)

\* A pooled connection in ip_id_map order: its id, whether its state is
\* CONN_OK, and its inflying_heartbeat.
PoolConn(id, ok, hb) == [id |-> id, ok |-> ok, hb |-> hb]

\* The loop's variables: the entries the map keeps, next_heartbeat_idx,
\* hb_sent, ht_idx, and the connections heartbeated or evicted.
SweepStart(next) ==
  [kept |-> <<>>, next |-> next, hbSent |-> 0, ht |-> 0, sent |-> {}, evicted |-> {}]

\* (Mutant) next_heartbeat_idx is not advanced after a heartbeat is sent.
SweepStepNoAdvance(acc, c) ==
  IF ~c.ok \/ c.hb > 2
    THEN [acc EXCEPT !.evicted = @ \cup {c.id}, !.ht = @ + 1]
  ELSE IF acc.ht >= acc.next /\ acc.hbSent < 4
    THEN [acc EXCEPT !.kept = Append(@, [c EXCEPT !.hb = @ + 1]),
                     !.sent = @ \cup {c.id}, !.hbSent = @ + 1, !.ht = @ + 1]
  ELSE [acc EXCEPT !.kept = Append(@, c), !.ht = @ + 1]

\* (Mutant) only a connection whose state is not CONN_OK is evicted.
SweepStepNoHbEvict(acc, c) ==
  IF ~c.ok
    THEN [acc EXCEPT !.evicted = @ \cup {c.id}, !.ht = @ + 1]
  ELSE IF acc.ht >= acc.next /\ acc.hbSent < 4
    THEN [acc EXCEPT !.kept = Append(@, [c EXCEPT !.hb = @ + 1]),
                     !.sent = @ \cup {c.id}, !.hbSent = @ + 1,
                     !.next = @ + 1, !.ht = @ + 1]
  ELSE [acc EXCEPT !.kept = Append(@, c), !.ht = @ + 1]

\* One iteration: a connection not CONN_OK or with more than two heartbeats
\* outstanding is erased and closed; otherwise, if the index has reached
\* next_heartbeat_idx and fewer than four were sent, send_heartbeat (which
\* counts one more outstanding heartbeat) and advance the cursor.  ht_idx
\* counts every entry, erased ones too.
SweepStep(acc, c) ==
  IF ~c.ok \/ c.hb > 2
    THEN [acc EXCEPT !.evicted = @ \cup {c.id}, !.ht = @ + 1]
  ELSE IF acc.ht >= acc.next /\ acc.hbSent < 4
    THEN [acc EXCEPT !.kept = Append(@, [c EXCEPT !.hb = @ + 1]),
                     !.sent = @ \cup {c.id}, !.hbSent = @ + 1,
                     !.next = @ + 1, !.ht = @ + 1]
  ELSE [acc EXCEPT !.kept = Append(@, c), !.ht = @ + 1]

\* EVT_SEND_HEARTBEAT: nothing on an empty map; else the cursor is reduced
\* modulo the map's size and the map is walked once.
HeartbeatSweep(m, next) ==
  IF m = <<>>
    THEN SweepStart(next)
    ELSE FoldLeft(SweepStep, SweepStart(next % Len(m)), m)

\* Replies to every outstanding heartbeat of the given connections arrive
\* before the next sweep (client_do_complete's S5_OP_HEARTBEAT branch).
Answer(m, ids) == [k \in DOMAIN m |-> IF m[k].id \in ids THEN [m[k] EXCEPT !.hb = 0] ELSE m[k]]

\* n consecutive sweeps from map m and cursor next, the connections in
\* silent never answering: the connections heartbeated and evicted, and the
\* map left.
RECURSIVE Sweeps(_, _, _, _)
Sweeps(m, next, silent, n) ==
  IF n = 0 THEN [kept |-> m, next |-> next, sent |-> {}, evicted |-> {}]
  ELSE LET s == HeartbeatSweep(m, next)
           ids == {s.kept[k].id : k \in DOMAIN s.kept}
           r == Sweeps(Answer(s.kept, ids \ silent), s.next, silent, n - 1)
       IN [r EXCEPT !.sent = @ \cup s.sent, !.evicted = @ \cup s.evicted]

\* The maps checked: 1..n healthy connections, and any cursor a previous
\* sweep over a map of at most MaxConns entries can leave.
Maps == {[k \in 1..n |-> PoolConn(k, TRUE, 0)] : n \in 1..MaxConns}
Cursors == 0..MaxConns

\* Sweeps needed to reach every one of n connections, four per sweep from
\* wherever the cursor stands.
RotationBound(n) == (n + 3) \div 4 + 1

-----------------------------------------------------------------------------
(* iov_to_buf and iov_from_buf                                             *)

\* An iovec array is a sequence of segments, each the sequence of its
\* bytes; iov_len is the segment's length.
MinOf(a, b) == IF a < b THEN a ELSE b

\* (Mutant) each entry is copied whole, without limiting the copy to the
\* bytes still wanted.
RECURSIVE ToBufLoopNoMin(_, _, _, _, _)
ToBufLoopNoMin(iov, i, offset, buf, bytes) ==
  IF (offset # 0 \/ Len(buf) < bytes) /\ i <= Len(iov)
    THEN IF offset < Len(iov[i])
           THEN ToBufLoopNoMin(iov, i + 1, 0, buf \o SubSeq(iov[i], offset + 1, Len(iov[i])), bytes)
           ELSE ToBufLoopNoMin(iov, i + 1, offset - Len(iov[i]), buf, bytes)
    ELSE buf

\* The loop of iov_to_buf from entry i on, with its offset and done:
\* while offset is non-zero or fewer than bytes were copied, and entries
\* remain, copy min(iov_len - offset, bytes - done) bytes of the entry
\* (or, when offset is past the entry, subtract its length).  Returns the
\* bytes copied into buf, whose length is the function's result done.
RECURSIVE ToBufLoop(_, _, _, _, _)
ToBufLoop(iov, i, offset, buf, bytes) ==
  IF (offset # 0 \/ Len(buf) < bytes) /\ i <= Len(iov)
    THEN IF offset < Len(iov[i])
           THEN LET len == MinOf(Len(iov[i]) - offset, bytes - Len(buf))
                IN ToBufLoop(iov, i + 1, 0, buf \o SubSeq(iov[i], offset + 1, offset + len), bytes)
           ELSE ToBufLoop(iov, i + 1, offset - Len(iov[i]), buf, bytes)
    ELSE buf

IovToBuf(iov, bytes) == ToBufLoop(iov, 1, 0, <<>>, bytes)

\* The loop of iov_from_buf: the same walk, writing buf's bytes done + 1
\* onwards over the start of each entry.  Returns the iovec contents.
RECURSIVE FromBufLoop(_, _, _, _, _, _)
FromBufLoop(iov, i, offset, done, buf, bytes) ==
  IF (offset # 0 \/ done < bytes) /\ i <= Len(iov)
    THEN IF offset < Len(iov[i])
           THEN LET len == MinOf(Len(iov[i]) - offset, bytes - done)
                    seg == SubSeq(iov[i], 1, offset) \o SubSeq(buf, done + 1, done + len)
                           \o SubSeq(iov[i], offset + len + 1, Len(iov[i]))
                IN FromBufLoop([iov EXCEPT ![i] = seg], i + 1, 0, done + len, buf, bytes)
           ELSE FromBufLoop(iov, i + 1, offset - Len(iov[i]), done, buf, bytes)
    ELSE iov

IovFromBuf(iov, buf, bytes) == FromBufLoop(iov, 1, 0, 0, buf, bytes)

\* The inputs checked: every iovec array of up to MaxSegs entries of up to
\* MaxSegLen bytes over two byte values, empty entries included.
Iovs == UNION {[1..n -> BoundedSeq({0, 1}, MaxSegLen)] : n \in 0..MaxSegs}
Lens(iov) == [k \in DOMAIN iov |-> Len(iov[k])]
Total(iov) == Len(FlattenSeq(iov))

-----------------------------------------------------------------------------
(* Properties                                                              *)

\* The rotating cursor: over an unchanged map of healthy connections that
\* answer their heartbeats, every connection is sent a heartbeat within
\* RotationBound sweeps, whatever next_heartbeat_idx the last sweep left,
\* so no connection goes unprobed however many share the pool.
SweepRotates ==
  \A m \in Maps, c \in Cursors :
    Sweeps(m, c, {}, RotationBound(Len(m))).sent = {m[k].id : k \in DOMAIN m}

\* Heartbeat eviction: a connection that stops answering is sent
\* heartbeats until three are outstanding and is then erased from
\* ip_id_map and closed, within 3 * RotationBound + 1 sweeps, while the
\* pool's answering connections are never evicted.
SilentConnEvicted ==
  \A m \in Maps, c \in Cursors, silent \in SUBSET (1..MaxConns) :
    Sweeps(m, c, silent, 3 * RotationBound(Len(m)) + 1).evicted
      = silent \cap {m[k].id : k \in DOMAIN m}

\* The copies agree with the flat view of the iovec array: iov_to_buf
\* returns its first bytes bytes (all of them when the array is shorter),
\* and iov_from_buf overwrites exactly those bytes with the buffer's and
\* keeps every entry's length, for arrays with empty entries and lengths
\* that end inside an entry.  A read completion thus hands the user the
\* data_len bytes the store returned, and a write sends the user's bytes.
IovCopiesMatchFlatten ==
  \A iov \in Iovs, bytes \in 0..MaxSegs * MaxSegLen :
    LET k   == MinOf(bytes, Total(iov))
        buf == [j \in 1..bytes |-> 2]
        out == IovFromBuf(iov, buf, bytes)
    IN /\ IovToBuf(iov, bytes) = SubSeq(FlattenSeq(iov), 1, k)
       /\ Lens(out) = Lens(iov)
       /\ FlattenSeq(out) = SubSeq(buf, 1, k) \o SubSeq(FlattenSeq(iov), k + 1, Total(iov))

=============================================================================
