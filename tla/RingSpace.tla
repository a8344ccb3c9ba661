------------------------------ MODULE RingSpace ------------------------------
(***************************************************************************)
(* Space management of the journal v3 ring (journal.c).                    *)
(*                                                                         *)
(* Block numbers are relative to sbi->journal_block: block 0 is the        *)
(* control block, blocks RingStart .. RingEnd - 1 are the ring.  A         *)
(* transaction of n entries occupies the n + 2 consecutive blocks          *)
(* descriptor, payload * n, commit and never crosses RingEnd.              *)
(***************************************************************************)
EXTENDS Naturals

CONSTANTS JournalBlocks,  \* sbi->journal_blocks
          MaxEntries      \* CRYEXTS_JOURNAL_V3_MAX_ENTRIES

(* cryexts_validate_v5_layout refuses a v3 journal of fewer than           *)
(* CRYEXTS_JOURNAL_V3_MIN_BLOCKS blocks.                                   *)
ASSUME JournalAssumption ==
  /\ JournalBlocks \in Nat
  /\ JournalBlocks >= 4
  /\ MaxEntries \in Nat \ {0}

RingStart == 1
RingEnd   == JournalBlocks
RingPos   == RingStart .. (RingEnd - 1)

(* cryexts_journal_v3_payload_capacity *)
PayloadCapacity ==
  IF MaxEntries < JournalBlocks - 3 THEN MaxEntries ELSE JournalBlocks - 3

(* Mutant: the position past the last block is not brought back. *)
WrapNot(p) == p

(* A position just past a segment, brought back into the ring. *)
Wrap(p) == IF p = RingEnd THEN RingStart ELSE p

(***************************************************************************)
(* cryexts_journal_v3_ring_allocate: when it returns -ENOSPC, and where    *)
(* the segment of `needed' blocks starts otherwise.                        *)
(***************************************************************************)
NoSpace(head, tail, needed) ==
  \/ needed >= RingEnd - RingStart
  \/ head < tail /\ head + needed > tail
  \/ head > tail /\ head + needed > RingEnd /\ needed > tail - RingStart

SegmentStart(head, tail, needed) ==
  IF head >= tail /\ head + needed > RingEnd THEN RingStart ELSE head

(* The blocks from tail up to head, going round the ring; none if equal. *)
Live(tail, head) ==
  IF tail <= head THEN tail .. (head - 1)
                  ELSE (tail .. (RingEnd - 1)) \cup (RingStart .. (head - 1))

Segment(start, needed) == start .. (start + needed - 1)
=============================================================================
