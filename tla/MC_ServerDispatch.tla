------------------------- MODULE MC_ServerDispatch -------------------------
(* Instantiates ServerDispatch, and its composition ServerDisk with the  *)
(* disk engines, for TLC: up to three pool slots, two connections, three *)
(* replicas (one local, two remote).                                     *)
EXTENDS ServerDisk, SpdkBlocks, TLC

CONSTANTS i1, i2, i3, c1, c2, p1, p2

MC_Iocbs2   == {i1, i2}
MC_Iocbs    == {i1, i2, i3}
MC_Conns1   == {c1}
MC_Conns    == {c1, c2}
MC_Replicas  == {0, 1}
MC_Replicas3 == {0, 1, 2}

\* Both connections on one poller thread.
MC_OnePoller  == {p1}
MC_PollerOf1  == [c \in Conns |-> p1]

\* Each connection on its own poller, both feeding this dispatcher.
MC_TwoPollers == {p1, p2}
MC_PollerOf2  == (c1 :> p1) @@ (c2 :> p2)

MC_Symmetry == Permutations(MC_Iocbs)

\* SpdkBlocks' check is a constant formula; it is checked in the states
\* before the first request head arrives, where TLC reports a failure as a
\* violated invariant.

\* The SPDK engine's block conversion and alignment check issue exactly
\* the requested bytes (SpdkBlocks!BlocksCoverRequest).
SpdkBlocksExact == nreq = 0 => BlocksCoverRequest
=============================================================================
