----------------------------- MODULE SpdkBlocks -----------------------------
(***************************************************************************)
(* PfspdkEngine::spdk_nvme_bytes_to_blocks (pf_ioengine.cpp), which turns *)
(* a byte offset and length into the LBA and block count of an NVMe      *)
(* command, and the alignment check sync_read and sync_write make with   *)
(* it.  Checked against integer division over small block sizes, both   *)
(* powers of two (the shift path) and not (the division path).           *)
(***************************************************************************)
EXTENDS Naturals, Bitwise

\* ns->block_size values checked: powers of two and others.
BlockSizes == {1, 2, 3, 4, 6, 8}

\* Byte offsets and lengths checked.
MaxBytes == 20

\* spdk_u32_is_pow2 and spdk_u32log2, SPDK's helpers.
IsPow2(x) == x # 0 /\ (x & (x - 1)) = 0

RECURSIVE Log2(_)
Log2(x) == IF x <= 1 THEN 0 ELSE 1 + Log2(x \div 2)

\* A left shift of a value that cannot overflow 64 bits here.
ShiftL(n, s) == n * 2^s

\* (Mutant) the two remainders are combined with & instead of |.
BytesToBlocksAnd(off, len, bs) ==
  IF IsPow2(bs)
    THEN LET s == Log2(bs) ob == shiftR(off, s) nb == shiftR(len, s)
         IN [lba |-> ob, cnt |-> nb, rc |-> (off - ShiftL(ob, s)) & (len - ShiftL(nb, s))]
    ELSE [lba |-> off \div bs, cnt |-> len \div bs, rc |-> (off % bs) & (len % bs)]

\* The conversion: by shifts when the block size is a power of two, by
\* division otherwise; the result is non-zero when either the offset or
\* the length is not a whole number of blocks.
BytesToBlocks(off, len, bs) ==
  IF IsPow2(bs)
    THEN LET s == Log2(bs) ob == shiftR(off, s) nb == shiftR(len, s)
         IN [lba |-> ob, cnt |-> nb, rc |-> (off - ShiftL(ob, s)) | (len - ShiftL(nb, s))]
    ELSE [lba |-> off \div bs, cnt |-> len \div bs, rc |-> (off % bs) | (len % bs)]

\* sync_read / sync_write: -EINVAL unless the conversion returned zero,
\* else (ok) the command is issued for lba and lba_cnt.
SyncIoBlocks(off, len, bs) ==
  LET r == BytesToBlocks(off, len, bs)
  IN [ok |-> r.rc = 0, lba |-> r.lba, cnt |-> r.cnt]

-----------------------------------------------------------------------------
(* Properties                                                              *)

\* A synchronous SPDK read or write is refused exactly when its offset or
\* length is not block-aligned, and a command that is issued covers
\* exactly the requested bytes: lba * block_size = offset and
\* lba_cnt * block_size = length, on both the shift and the division path.
BlocksCoverRequest ==
  \A bs \in BlockSizes, off, len \in 0..MaxBytes :
    LET r == SyncIoBlocks(off, len, bs)
    IN /\ r.ok <=> (off % bs = 0 /\ len % bs = 0)
       /\ r.ok => r.lba * bs = off /\ r.cnt * bs = len

=============================================================================
