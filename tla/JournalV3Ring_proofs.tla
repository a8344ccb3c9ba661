------------------------ MODULE JournalV3Ring_proofs ------------------------
(***************************************************************************)
(* Theorems of JournalV3Ring for every ring size, every set of home blocks *)
(* and every number of transactions, crashes and failed writes: first      *)
(* TypeOK and ControlValid, then durability.                               *)
(***************************************************************************)
EXTENDS JournalV3Ring, Integers, SequenceTheorems, TLAPS
-----------------------------------------------------------------------------
(* What cryexts_journal_v3_ring_allocate guarantees, for every ring size. *)

(* The position past a segment that ends inside the ring is in the ring. *)
LEMMA WrapInRing ==
  ASSUME NEW p \in Nat, p > RingStart, p <= RingEnd
  PROVE  Wrap(p) \in RingPos
BY JournalAssumption DEF Wrap, RingPos, RingStart, RingEnd

(* An allocation that does not return -ENOSPC stays inside the ring: no     *)
(* segment crosses ring_end, and the next head is a ring position again.    *)
THEOREM SegmentFits ==
  ASSUME NEW head \in RingPos, NEW tail \in RingPos, NEW n \in Nat, n > 0,
         ~NoSpace(head, tail, n)
  PROVE  /\ SegmentStart(head, tail, n) \in RingPos
         /\ SegmentStart(head, tail, n) + n <= RingEnd
         /\ Segment(SegmentStart(head, tail, n), n) \subseteq RingPos
         /\ Wrap(SegmentStart(head, tail, n) + n) \in RingPos
<1> DEFINE s == SegmentStart(head, tail, n)
<1>1. s \in RingPos
  BY JournalAssumption DEF SegmentStart, RingPos, RingStart, RingEnd
<1>2. s + n <= RingEnd
  BY JournalAssumption DEF NoSpace, SegmentStart, RingPos, RingStart, RingEnd
<1>3. Segment(s, n) \subseteq RingPos
  BY <1>1, <1>2, JournalAssumption DEF Segment, RingPos, RingStart, RingEnd
<1>4. Wrap(s + n) \in RingPos
  BY <1>1, <1>2, JournalAssumption DEF Wrap, RingPos, RingStart, RingEnd
<1> QED BY <1>1, <1>2, <1>3, <1>4

(* While head # tail, an allocation that succeeds never touches a block     *)
(* between tail and head, the ones that hold segments not yet checkpointed. *)
(* Nothing of the kind holds for head = tail, which the code reads as an    *)
(* empty ring even when the last segment ended exactly at tail.             *)
THEOREM SegmentAvoidsLive ==
  ASSUME NEW head \in RingPos, NEW tail \in RingPos, NEW n \in Nat, n > 0,
         head # tail, ~NoSpace(head, tail, n)
  PROVE  Segment(SegmentStart(head, tail, n), n) \cap Live(tail, head) = {}
<1> DEFINE s == SegmentStart(head, tail, n)
<1>1. CASE head < tail
  <2>1. s = head /\ head + n <= tail
    BY <1>1, JournalAssumption DEF SegmentStart, NoSpace, RingPos, RingStart, RingEnd
  <2> QED BY <1>1, <2>1, JournalAssumption
          DEF Segment, Live, RingPos, RingStart, RingEnd
<1>2. CASE head > tail /\ head + n <= RingEnd
  <2>1. s = head
    BY <1>2, JournalAssumption DEF SegmentStart, RingPos, RingStart, RingEnd
  <2> QED BY <1>2, <2>1, JournalAssumption
          DEF Segment, Live, RingPos, RingStart, RingEnd
<1>3. CASE head > tail /\ head + n > RingEnd
  <2>1. s = RingStart /\ RingStart + n <= tail
    BY <1>3, JournalAssumption DEF SegmentStart, NoSpace, RingPos, RingStart, RingEnd
  <2> QED BY <1>3, <2>1, JournalAssumption
          DEF Segment, Live, RingPos, RingStart, RingEnd
<1> QED BY <1>1, <1>2, <1>3, JournalAssumption DEF RingPos, RingStart, RingEnd
-----------------------------------------------------------------------------
(* The inductive invariant. *)

(* Which holder of the mutex there can be in which state of the mount. *)
HolderOK ==
  /\ pc \in TransactionPC => fs = "up"
  /\ pc \in CheckpointPC => fs \in {"up", "unmounting"}
  /\ pc \in ReplayPC <=> fs = "mounting"

(* The ring pointers, wherever they are kept: in memory while mounted, in  *)
(* the locals of replay_ring while mounting, and in the previous_head and  *)
(* previous_tail a failing commit goes back to.                            *)
PointersOK ==
  /\ fs \in {"up", "unmounting"} => j.head \in RingPos /\ j.tail \in RingPos
  /\ fs = "mounting" => seg.head \in RingPos
  /\ pc = "scan" => seg.pos \in RingPos
  /\ pc \in ResetPC => j.head \in RingPos /\ j.tail = j.head
  /\ pc \in WritePC => seg.head \in RingPos /\ seg.tail \in RingPos

(* The descriptor the holder works with was checked before. *)
SegmentOK ==
  /\ pc \in WritePC \cup {"home", "replay"} => seg.d \in DescriptorType
  /\ pc \in {"home", "replay"} => seg.d.commit \in RingPos
  /\ pc = "replay" => PayloadsValid(seg.d)

IInv == TypeOK /\ RingValid(ctl) /\ HolderOK /\ PointersOK /\ SegmentOK

USE DEF TransactionPC, WritePC, CheckpointPC, ResetPC, ReplayPC, PC, media, buffers, Mounted
-----------------------------------------------------------------------------
(* Types of the values the actions build. *)

LEMMA EmptyHomes == <<>> \in Seq(Block)
OBVIOUS

(* clear_runtime touches neither the ring pointers nor the sequence. *)
LEMMA ClearRuntimeType ==
  ASSUME NEW r \in RuntimeType
  PROVE  /\ ClearRuntime(r) \in RuntimeType
         /\ ClearRuntime(r).head = r.head /\ ClearRuntime(r).tail = r.tail
         /\ ClearRuntime(r).seq = r.seq
BY EmptyHomes DEF RuntimeType, ClearRuntime

LEMMA FreshRuntimeType == FreshRuntime \in RuntimeType
BY EmptyHomes DEF RuntimeType, FreshRuntime

(* Recording a block touches neither the ring pointers nor the sequence. *)
LEMMA RecordType ==
  ASSUME NEW r \in RuntimeType, NEW b \in Block
  PROVE  /\ Record(r, b) \in RuntimeType
         /\ Record(r, b).head = r.head /\ Record(r, b).tail = r.tail
<1>1. CASE Record(r, b) = r
  BY <1>1
<1>2. CASE Record(r, b) = [r EXCEPT !.err = TRUE]
  BY <1>2 DEF RuntimeType
<1>3. CASE Record(r, b) = [r EXCEPT !.homes = Append(@, b)]
  <2>1. Append(r.homes, b) \in Seq(Block)
    BY DEF RuntimeType
  <2> QED BY <1>3, <2>1 DEF RuntimeType
<1> QED BY <1>1, <1>2, <1>3 DEF Record

LEMMA DescriptorFields ==
  ASSUME NEW s \in Nat, NEW h \in Seq(Block), NEW q \in Seq(Nat),
         NEW p \in Nat, NEW c \in Nat
  PROVE  Descriptor(s, h, q, p, c) \in DescriptorType
BY DEF Descriptor, DescriptorType

LEMMA EmptyDescriptorType ==
  ASSUME NEW s \in Nat
  PROVE  EmptyDescriptor(s) \in DescriptorType
<1>1. <<>> \in Seq(Nat)
  OBVIOUS
<1>2. RingStart + 1 \in Nat /\ RingEnd - 1 \in Nat
  BY JournalAssumption DEF RingStart, RingEnd
<1> QED BY <1>1, <1>2, EmptyHomes, DescriptorFields DEF EmptyDescriptor

LEMMA CommitType ==
  ASSUME NEW d \in DescriptorType, NEW f \in BOOLEAN, NEW p \in Nat
  PROVE  Commit(d, f, p) \in SlotType
BY DEF Commit, SlotType

LEMMA PayloadType ==
  ASSUME NEW v
  PROVE  Payload(v) \in SlotType <=> v \in Nat
BY DEF Payload, SlotType, None, DescriptorType

LEMMA DescriptorSlot ==
  ASSUME NEW x \in SlotType, x.t = "descriptor"
  PROVE  x \in DescriptorType
BY DEF SlotType, None

LEMMA NoSegmentType == NoSegment \in LocalsType
BY DEF NoSegment, LocalsType

(* A payload that passed its checksum is written to its home block. *)
LEMMA HomeWrittenType ==
  ASSUME TypeOK, HomeWritten, PayloadsValid(seg.d), seg.d \in DescriptorType,
         seg.i < Len(seg.d.homes)
  PROVE  /\ cache' \in [Block -> Nat] /\ disk' \in [Block -> Nat] /\ dirty' \subseteq Block
         /\ rec' \in BOOLEAN /\ drec' \in BOOLEAN
         /\ seg' \in LocalsType
         /\ seg'.d = seg.d /\ seg'.head = seg.head
<1> DEFINE b == seg.d.homes[seg.i + 1]
           slot == ring[seg.d.payload + seg.i]
<1>1. seg.i \in Nat /\ seg.d.homes \in Seq(Block) /\ seg.d.payload \in Nat
  BY DEF TypeOK, LocalsType, DescriptorType
<1>2. seg.i + 1 \in 1 .. Len(seg.d.homes)
  BY <1>1
<1>3. b \in Block
  BY <1>1, <1>2
<1>4. seg.d.payload + (seg.i + 1) - 1 = seg.d.payload + seg.i
  BY <1>1
<1>5. seg.d.payload + seg.i \in RingPos /\ slot = Payload(seg.d.sums[seg.i + 1])
  BY <1>2, <1>4 DEF PayloadsValid
<1>6. slot \in SlotType
  BY <1>5 DEF TypeOK
<1>7. slot.val \in Nat
  BY <1>5, <1>6, PayloadType DEF Payload
<1>8. seg' \in LocalsType /\ seg'.d = seg.d /\ seg'.head = seg.head
  <2>1. seg' = [seg EXCEPT !.i = @ + 1]
    BY DEF HomeWritten
  <2>2. seg \in LocalsType
    BY DEF TypeOK
  <2>3. seg' \in LocalsType
    BY <2>1, <2>2 DEF LocalsType
  <2>4. seg'.d = seg.d /\ seg'.head = seg.head
    BY <2>1, <2>2 DEF LocalsType
  <2> QED BY <2>3, <2>4
<1> QED BY <1>3, <1>7, <1>8 DEF HomeWritten, TypeOK

(* The segment a commit places: its pointers stay in the ring. *)
LEMMA CommitPlacement ==
  ASSUME IInv, CommitAllocate
  PROVE  /\ j' \in RuntimeType /\ seg' \in LocalsType
         /\ j'.head \in RingPos /\ j'.tail \in RingPos
         /\ seg'.head = j.head /\ seg'.tail = j.tail
         /\ seg'.d \in DescriptorType
<1> DEFINE r == Record(j, SB)
           n == Len(r.homes)
           start == SegmentStart(j.head, j.tail, n + 2)
           d == Descriptor(j.active, r.homes, <<>>, start + 1, start + 1 + n)
<1>1. r \in RuntimeType /\ r.head = j.head /\ r.tail = j.tail
  BY RecordType DEF IInv, TypeOK, Block
<1>2. n \in Nat /\ r.homes \in Seq(Block) /\ j.active \in Nat
  BY <1>1 DEF RuntimeType, IInv, TypeOK
<1>3. j.head \in RingPos /\ j.tail \in RingPos
  BY DEF CommitAllocate, IInv, HolderOK, PointersOK
<1>4. start \in RingPos /\ Wrap(start + (n + 2)) \in RingPos
  BY <1>2, <1>3, SegmentFits DEF CommitAllocate
<1>5. start \in Nat /\ start + (n + 2) = start + n + 2
  BY <1>2, <1>4, JournalAssumption DEF RingPos, RingStart, RingEnd
<1>6. d \in DescriptorType
  <2>1. <<>> \in Seq(Nat)
    OBVIOUS
  <2>2. start + 1 \in Nat /\ start + 1 + n \in Nat
    BY <1>2, <1>5
  <2> HIDE DEF r, n, start
  <2> QED BY <1>2, <2>1, <2>2, DescriptorFields
<1>7. /\ j' = [r EXCEPT !.tail = IF j.tail = j.head THEN start ELSE @,
                        !.head = Wrap(start + n + 2)]
      /\ seg' = [NoSegment EXCEPT !.pos = start, !.head = j.head, !.tail = j.tail, !.d = d]
  BY DEF CommitAllocate
<1>8. Wrap(start + n + 2) \in RingPos
  BY <1>4, <1>5
<1>9. RingPos \subseteq Nat
  BY JournalAssumption DEF RingPos, RingStart, RingEnd
<1>10. j' \in RuntimeType /\ j'.head \in RingPos /\ j'.tail \in RingPos
  <2> HIDE DEF r, n, start
  <2> QED BY <1>1, <1>3, <1>4, <1>7, <1>8, <1>9 DEF RuntimeType
<1>11. /\ seg' \in LocalsType /\ seg'.head = j.head /\ seg'.tail = j.tail
       /\ seg'.d \in DescriptorType
  <2> HIDE DEF d, start
  <2> QED BY <1>3, <1>5, <1>6, <1>7, <1>9, NoSegmentType DEF LocalsType
<1> QED BY <1>10, <1>11

LEMMA WritePayloadLocals ==
  ASSUME IInv, WritePayload
  PROVE  /\ seg' \in LocalsType /\ seg'.head = seg.head /\ seg'.tail = seg.tail
         /\ seg'.d \in DescriptorType
<1> DEFINE v == cache[j.homes[seg.i + 1]]
<1>1. v \in Nat
  <2>1. j.homes[seg.i + 1] \in Block
    BY DEF IInv, TypeOK, WritePayload, RuntimeType, LocalsType
  <2> QED BY <2>1 DEF IInv, TypeOK
<1>2. seg.d \in DescriptorType /\ Append(seg.d.sums, v) \in Seq(Nat)
  BY <1>1 DEF IInv, SegmentOK, WritePayload, DescriptorType
<1> DEFINE nd == [seg.d EXCEPT !.sums = Append(@, v)]
<1>3. seg' = [seg EXCEPT !.i = @ + 1, !.d = nd]
  BY DEF WritePayload
<1>4. nd \in DescriptorType
  BY <1>2 DEF DescriptorType
<1>5. seg \in LocalsType /\ seg.i + 1 \in Nat
  BY DEF IInv, TypeOK, LocalsType
<1> HIDE DEF nd
<1>6. seg' \in LocalsType
  <2> SUFFICES ASSUME NEW D, nd \in D, seg.d \in D PROVE
        [seg EXCEPT !.i = @ + 1, !.d = nd] \in [i : Nat, d : D, pos : Nat, head : Nat, tail : Nat, prev : Nat, last : Nat]
    BY <1>3, <1>4, <1>5 DEF LocalsType
  <2> QED BY <1>5 DEF LocalsType
<1>7. seg'.d = nd /\ seg'.head = seg.head /\ seg'.tail = seg.tail
  BY <1>3, <1>5 DEF LocalsType
<1> QED BY <1>4, <1>6, <1>7

LEMMA CommitBlockType ==
  ASSUME TypeOK, CommitBlockWritten, seg.d \in DescriptorType
  PROVE  ring' \in [RingPos -> SlotType] /\ ghost' \in GhostType
<1>1. Commit(seg.d, TRUE, seg.pos) \in SlotType
  BY CommitType DEF TypeOK, LocalsType
<1>2. ring' \in [RingPos -> SlotType]
  BY <1>1 DEF CommitBlockWritten, TypeOK
<1>3. Append(ghost.pend, [pos |-> seg.pos, d |-> seg.d]) \in Seq([pos : Nat, d : DescriptorType])
  BY DEF TypeOK, LocalsType, GhostType
<1>4. [b \in Home |-> IF b \in ghost.wrote[ghost.tid] THEN ghost.tid ELSE ghost.durable[b]]
        \in [Home -> Nat]
  BY DEF TypeOK, GhostType
<1>5. ghost' \in GhostType
  BY <1>3, <1>4 DEF CommitBlockWritten, TypeOK, GhostType
<1> QED BY <1>2, <1>5

(* The tests of checkpoint_one put the commit block inside the ring. *)
LEMMA CheckpointStartLocals ==
  ASSUME IInv, CheckpointStart
  PROVE  seg' \in LocalsType /\ seg'.d \in DescriptorType /\ seg'.d.commit \in RingPos
<1>1. j.tail \in RingPos /\ j.tail \in Nat
  BY DEF IInv, HolderOK, PointersOK, CheckpointStart, TypeOK, RuntimeType
<1>2. ring[j.tail] \in DescriptorType
  BY <1>1, DescriptorSlot DEF CheckpointStart, TailValid, DescriptorValid, IInv, TypeOK
<1>3. ring[j.tail].commit \in RingPos
  BY DEF CheckpointStart, TailValid, CommitMatches
<1>4. seg' = [NoSegment EXCEPT !.d = ring[j.tail], !.pos = j.tail]
  BY DEF CheckpointStart
<1> QED BY <1>1, <1>2, <1>3, <1>4, NoSegmentType DEF LocalsType

LEMMA NextTailInRing ==
  ASSUME IInv, pc \in {"home", "replay"}
  PROVE  SegmentEnd(seg.d) \in RingPos /\ SegmentEnd(seg.d) \in Nat /\ seg.d.seq \in Nat
<1>1. seg.d.commit \in RingPos /\ seg.d.seq \in Nat
  BY DEF IInv, SegmentOK, DescriptorType
<1> QED BY <1>1, JournalAssumption DEF SegmentEnd, Wrap, RingPos, RingStart, RingEnd

LEMMA ReplaySegmentLocals ==
  ASSUME IInv, ReplaySegment
  PROVE  /\ seg' \in LocalsType /\ seg'.head = seg.head
         /\ seg'.d \in DescriptorType /\ PayloadsValid(seg'.d)
         /\ seg'.d.commit \in RingPos
<1>1. ring[seg.pos].t = "descriptor" /\ PayloadsValid(ring[seg.pos])
  BY DEF ReplaySegment, ScanReadable, ScanIntact, DescriptorValid
<1>2. seg.pos \in RingPos /\ ring[seg.pos].commit \in RingPos
  BY DEF IInv, PointersOK, ReplaySegment, ScanCommitted, CommitMatches
<1>3. ring[seg.pos] \in DescriptorType
  BY <1>1, <1>2, DescriptorSlot DEF IInv, TypeOK
<1>4. seg' = [seg EXCEPT !.d = ring[seg.pos], !.i = 0]
  BY DEF ReplaySegment
<1>5. seg' \in LocalsType /\ seg'.head = seg.head /\ seg'.d = ring[seg.pos]
  BY <1>3, <1>4 DEF IInv, TypeOK, LocalsType
<1> QED BY <1>1, <1>2, <1>3, <1>5
-----------------------------------------------------------------------------
(* One lemma per action. *)

LEMMA BeginStep ==
  ASSUME IInv, Begin
  PROVE  IInv'
<1>1. TypeOK'
  <2>1. j' \in RuntimeType
    <3>1. j' = [ClearRuntime(j) EXCEPT !.active = j.seq + 1] /\ j.seq + 1 \in Nat
      BY DEF IInv, TypeOK, Begin, RuntimeType
    <3> QED BY <3>1, ClearRuntimeType DEF IInv, TypeOK, RuntimeType
  <2>2. ghost' \in GhostType
    <3>1. ghost' = [ghost EXCEPT !.tid = ghost.tid + 1]
      BY DEF Begin
    <3>2. ghost \in GhostType /\ ghost.tid + 1 \in Nat
      BY DEF IInv, TypeOK, GhostType
    <3> QED BY <3>1, <3>2 DEF GhostType
  <2> QED BY <2>1, <2>2 DEF IInv, TypeOK, Begin
<1>2. RingValid(ctl)'
  BY DEF IInv, Begin, RingValid
<1>3. HolderOK'
  BY DEF IInv, HolderOK, Begin
<1>4. PointersOK'
  BY DEF IInv, HolderOK, PointersOK, Begin, ClearRuntime, RingValid, NoSegment, TypeOK,
     RuntimeType, LocalsType
<1>5. SegmentOK'
  BY DEF IInv, HolderOK, SegmentOK, Begin, PayloadsValid
<1> QED BY <1>1, <1>2, <1>3, <1>4, <1>5 DEF IInv

LEMMA ModifyStep ==
  ASSUME IInv, NEW b \in Home, Modify(b)
  PROVE  IInv'
<1>1. TypeOK'
  <2>1. j' \in RuntimeType
    BY RecordType DEF IInv, TypeOK, Modify, Block
  <2>2. /\ cache' \in [Block -> Nat] /\ disk' \in [Block -> Nat] /\ dirty' \subseteq Block
       /\ rec' \in BOOLEAN /\ drec' \in BOOLEAN
    BY DEF IInv, TypeOK, Modify, Block, GhostType
  <2>3. ghost' \in GhostType
    BY RingAssumption DEF IInv, TypeOK, Modify, GhostType, MountRefused
  <2> QED BY <2>1, <2>2, <2>3 DEF IInv, TypeOK, Modify
<1>2. RingValid(ctl)'
  BY DEF IInv, Modify, RingValid
<1>3. HolderOK'
  BY DEF IInv, HolderOK, Modify
<1>4. PointersOK'
  BY RecordType DEF IInv, HolderOK, PointersOK, Modify, TypeOK, Block
<1>5. SegmentOK'
  BY DEF IInv, HolderOK, SegmentOK, Modify, PayloadsValid
<1> QED BY <1>1, <1>2, <1>3, <1>4, <1>5 DEF IInv

LEMMA AbortStep ==
  ASSUME IInv, Abort
  PROVE  IInv'
<1>1. TypeOK'
  <2>1. j' \in RuntimeType
    BY ClearRuntimeType, FreshRuntimeType DEF IInv, TypeOK, Abort, RuntimeType, MountRefused
  <2> QED BY <2>1 DEF IInv, TypeOK, Abort
<1>2. RingValid(ctl)'
  BY DEF IInv, Abort, RingValid
<1>3. HolderOK'
  BY DEF IInv, HolderOK, Abort
<1>4. PointersOK'
  BY DEF IInv, HolderOK, PointersOK, Abort, ClearRuntime, RingValid, NoSegment, TypeOK,
     RuntimeType, LocalsType
<1>5. SegmentOK'
  BY DEF IInv, HolderOK, SegmentOK, Abort, PayloadsValid
<1> QED BY <1>1, <1>2, <1>3, <1>4, <1>5 DEF IInv

LEMMA StartCommitStep ==
  ASSUME IInv, StartCommit
  PROVE  IInv'
<1>1. TypeOK'
  BY DEF IInv, TypeOK, StartCommit
<1>2. RingValid(ctl)'
  BY DEF IInv, StartCommit, RingValid
<1>3. HolderOK'
  BY DEF IInv, HolderOK, StartCommit
<1>4. PointersOK'
  BY DEF IInv, HolderOK, PointersOK, StartCommit, ClearRuntime, RingValid, NoSegment, TypeOK,
     RuntimeType, LocalsType
<1>5. SegmentOK'
  BY DEF IInv, HolderOK, SegmentOK, StartCommit, PayloadsValid
<1> QED BY <1>1, <1>2, <1>3, <1>4, <1>5 DEF IInv

LEMMA WritebackStep ==
  ASSUME IInv, NEW b \in Block, Writeback(b)
  PROVE  IInv'
<1>1. TypeOK'
  <2>1. /\ cache' \in [Block -> Nat] /\ disk' \in [Block -> Nat] /\ dirty' \subseteq Block
       /\ rec' \in BOOLEAN /\ drec' \in BOOLEAN
    BY RingAssumption DEF IInv, TypeOK, Writeback, Block, FreshBuffers, RuntimeType
  <2> QED BY <2>1 DEF IInv, TypeOK, Writeback
<1>2. RingValid(ctl)'
  BY DEF IInv, Writeback, RingValid
<1>3. HolderOK'
  BY DEF IInv, HolderOK, Writeback
<1>4. PointersOK'
  BY DEF IInv, HolderOK, PointersOK, Writeback, ClearRuntime, RingValid, NoSegment, TypeOK,
     RuntimeType, LocalsType
<1>5. SegmentOK'
  BY DEF IInv, HolderOK, SegmentOK, Writeback, PayloadsValid
<1> QED BY <1>1, <1>2, <1>3, <1>4, <1>5 DEF IInv

LEMMA BarrierDoneStep ==
  ASSUME IInv, BarrierDone
  PROVE  IInv'
<1>1. TypeOK'
  BY DEF IInv, TypeOK, BarrierDone
<1>2. RingValid(ctl)'
  BY DEF IInv, BarrierDone, RingValid
<1>3. HolderOK'
  BY DEF IInv, HolderOK, BarrierDone
<1>4. PointersOK'
  BY DEF IInv, HolderOK, PointersOK, BarrierDone, ClearRuntime, RingValid, NoSegment, TypeOK,
     RuntimeType, LocalsType
<1>5. SegmentOK'
  BY DEF IInv, HolderOK, SegmentOK, BarrierDone, PayloadsValid
<1> QED BY <1>1, <1>2, <1>3, <1>4, <1>5 DEF IInv

LEMMA CommitRefusedStep ==
  ASSUME IInv, CommitRefused
  PROVE  IInv'
<1>1. TypeOK'
  <2>1. j' \in RuntimeType
    BY ClearRuntimeType, FreshRuntimeType DEF IInv, TypeOK, CommitRefused, RuntimeType, MountRefused
  <2> QED BY <2>1 DEF IInv, TypeOK, CommitRefused
<1>2. RingValid(ctl)'
  BY DEF IInv, CommitRefused, RingValid
<1>3. HolderOK'
  BY DEF IInv, HolderOK, CommitRefused
<1>4. PointersOK'
  BY DEF IInv, HolderOK, PointersOK, CommitRefused, ClearRuntime, RingValid, NoSegment, TypeOK,
     RuntimeType, LocalsType
<1>5. SegmentOK'
  BY DEF IInv, HolderOK, SegmentOK, CommitRefused, PayloadsValid
<1> QED BY <1>1, <1>2, <1>3, <1>4, <1>5 DEF IInv

LEMMA CommitNoSpaceStep ==
  ASSUME IInv, CommitNoSpace
  PROVE  IInv'
<1>1. TypeOK'
  <2>1. j' \in RuntimeType
    BY ClearRuntimeType, FreshRuntimeType DEF IInv, TypeOK, CommitNoSpace, RuntimeType, MountRefused
  <2>2. /\ cache' \in [Block -> Nat] /\ disk' \in [Block -> Nat] /\ dirty' \subseteq Block
       /\ rec' \in BOOLEAN /\ drec' \in BOOLEAN
    BY RingAssumption DEF IInv, TypeOK, CommitNoSpace, Block, FreshBuffers, RuntimeType
  <2> QED BY <2>1, <2>2 DEF IInv, TypeOK, CommitNoSpace
<1>2. RingValid(ctl)'
  BY DEF IInv, CommitNoSpace, RingValid
<1>3. HolderOK'
  BY DEF IInv, HolderOK, CommitNoSpace
<1>4. PointersOK'
  BY DEF IInv, HolderOK, PointersOK, CommitNoSpace, ClearRuntime, RingValid, NoSegment, TypeOK,
     RuntimeType, LocalsType
<1>5. SegmentOK'
  BY DEF IInv, HolderOK, SegmentOK, CommitNoSpace, PayloadsValid
<1> QED BY <1>1, <1>2, <1>3, <1>4, <1>5 DEF IInv

LEMMA CommitAllocateStep ==
  ASSUME IInv, CommitAllocate
  PROVE  IInv'
<1>1. TypeOK'
  <2>1. j' \in RuntimeType
    BY CommitPlacement
  <2>2. seg' \in LocalsType
    BY CommitPlacement
  <2>3. /\ cache' \in [Block -> Nat] /\ disk' \in [Block -> Nat] /\ dirty' \subseteq Block
       /\ rec' \in BOOLEAN /\ drec' \in BOOLEAN
    BY RingAssumption DEF IInv, TypeOK, CommitAllocate, Block, FreshBuffers, RuntimeType
  <2> QED BY <2>1, <2>2, <2>3 DEF IInv, TypeOK, CommitAllocate
<1>2. RingValid(ctl)'
  BY DEF IInv, CommitAllocate, RingValid
<1>3. HolderOK'
  BY DEF IInv, HolderOK, CommitAllocate
<1>4. PointersOK'
  BY CommitPlacement DEF IInv, HolderOK, PointersOK, CommitAllocate
<1>5. SegmentOK'
  BY CommitPlacement DEF SegmentOK, CommitAllocate
<1> QED BY <1>1, <1>2, <1>3, <1>4, <1>5 DEF IInv

LEMMA WritePayloadStep ==
  ASSUME IInv, WritePayload
  PROVE  IInv'
<1>1. TypeOK'
  <2>1. ring' \in [RingPos -> SlotType]
    <3>1. j.homes[seg.i + 1] \in Block
      BY DEF IInv, TypeOK, WritePayload, RuntimeType, LocalsType
    <3>2. Payload(cache[j.homes[seg.i + 1]]) \in SlotType
      BY <3>1, PayloadType DEF IInv, TypeOK
    <3> QED BY <3>2 DEF IInv, TypeOK, WritePayload
  <2>2. seg' \in LocalsType
    BY WritePayloadLocals
  <2> QED BY <2>1, <2>2 DEF IInv, TypeOK, WritePayload
<1>2. RingValid(ctl)'
  BY DEF IInv, WritePayload, RingValid
<1>3. HolderOK'
  BY DEF IInv, HolderOK, WritePayload
<1>4. PointersOK'
  BY WritePayloadLocals DEF IInv, HolderOK, PointersOK, WritePayload
<1>5. SegmentOK'
  BY WritePayloadLocals DEF SegmentOK, WritePayload
<1> QED BY <1>1, <1>2, <1>3, <1>4, <1>5 DEF IInv

LEMMA WriteDescriptorStep ==
  ASSUME IInv, WriteDescriptor
  PROVE  IInv'
<1>1. TypeOK'
  <2>1. ring' \in [RingPos -> SlotType]
    BY DEF IInv, TypeOK, WriteDescriptor, SegmentOK, SlotType
  <2> QED BY <2>1 DEF IInv, TypeOK, WriteDescriptor
<1>2. RingValid(ctl)'
  BY DEF IInv, WriteDescriptor, RingValid
<1>3. HolderOK'
  BY DEF IInv, HolderOK, WriteDescriptor
<1>4. PointersOK'
  BY DEF IInv, HolderOK, PointersOK, WriteDescriptor, ClearRuntime, RingValid, NoSegment, TypeOK,
     RuntimeType, LocalsType
<1>5. SegmentOK'
  BY DEF IInv, HolderOK, SegmentOK, WriteDescriptor, PayloadsValid
<1> QED BY <1>1, <1>2, <1>3, <1>4, <1>5 DEF IInv

LEMMA WritePreparedStep ==
  ASSUME IInv, WritePrepared
  PROVE  IInv'
<1>1. TypeOK'
  <2>1. ctl' \in ControlType
    BY JournalAssumption DEF IInv, TypeOK, WritePrepared, ControlType, Control, ControlState, RuntimeType
  <2> QED BY <2>1 DEF IInv, TypeOK, WritePrepared
<1>2. RingValid(ctl)'
  BY DEF IInv, WritePrepared, RingValid, Control, PointersOK, HolderOK
<1>3. HolderOK'
  BY DEF IInv, HolderOK, WritePrepared
<1>4. PointersOK'
  BY DEF IInv, HolderOK, PointersOK, WritePrepared, ClearRuntime, RingValid, NoSegment, TypeOK,
     RuntimeType, LocalsType
<1>5. SegmentOK'
  BY DEF IInv, HolderOK, SegmentOK, WritePrepared, PayloadsValid
<1> QED BY <1>1, <1>2, <1>3, <1>4, <1>5 DEF IInv

LEMMA WriteCommitBlockStep ==
  ASSUME IInv, WriteCommitBlock
  PROVE  IInv'
<1>1. TypeOK'
  <2>1. ring' \in [RingPos -> SlotType]
    BY CommitBlockType DEF IInv, SegmentOK, WriteCommitBlock
  <2>2. ghost' \in GhostType
    BY CommitBlockType DEF IInv, SegmentOK, WriteCommitBlock
  <2> QED BY <2>1, <2>2 DEF IInv, TypeOK, WriteCommitBlock, CommitBlockWritten
<1>2. RingValid(ctl)'
  BY DEF IInv, WriteCommitBlock, RingValid
<1>3. HolderOK'
  BY DEF IInv, HolderOK, WriteCommitBlock
<1>4. PointersOK'
  BY DEF IInv, HolderOK, PointersOK, WriteCommitBlock, ClearRuntime, RingValid, NoSegment, TypeOK,
     RuntimeType, LocalsType
<1>5. SegmentOK'
  BY DEF IInv, HolderOK, SegmentOK, WriteCommitBlock, PayloadsValid
<1> QED BY <1>1, <1>2, <1>3, <1>4, <1>5 DEF IInv

LEMMA WriteCommittedStep ==
  ASSUME IInv, WriteCommitted
  PROVE  IInv'
<1>1. TypeOK'
  <2>1. ctl' \in ControlType
    BY JournalAssumption DEF IInv, TypeOK, WriteCommitted, ControlType, Control, ControlState, RuntimeType
  <2>2. j' \in RuntimeType
    BY ClearRuntimeType DEF IInv, TypeOK, WriteCommitted, RuntimeType, ClearRuntime
  <2>3. seg' \in LocalsType
    BY NoSegmentType DEF IInv, TypeOK, WriteCommitted, MountRefused
  <2> QED BY <2>1, <2>2, <2>3 DEF IInv, TypeOK, WriteCommitted
<1>2. RingValid(ctl)'
  BY DEF IInv, WriteCommitted, RingValid, Control, PointersOK, HolderOK
<1>3. HolderOK'
  BY DEF IInv, HolderOK, WriteCommitted
<1>4. PointersOK'
  BY DEF IInv, HolderOK, PointersOK, WriteCommitted, ClearRuntime, RingValid, NoSegment, TypeOK,
     RuntimeType, LocalsType
<1>5. SegmentOK'
  BY DEF IInv, HolderOK, SegmentOK, WriteCommitted, PayloadsValid
<1> QED BY <1>1, <1>2, <1>3, <1>4, <1>5 DEF IInv

LEMMA CheckpointWorkerStep ==
  ASSUME IInv, CheckpointWorker
  PROVE  IInv'
<1>1. TypeOK'
  BY DEF IInv, TypeOK, CheckpointWorker
<1>2. RingValid(ctl)'
  BY DEF IInv, CheckpointWorker, RingValid
<1>3. HolderOK'
  BY DEF IInv, HolderOK, CheckpointWorker
<1>4. PointersOK'
  BY DEF IInv, HolderOK, PointersOK, CheckpointWorker, ClearRuntime, RingValid, NoSegment, TypeOK,
     RuntimeType, LocalsType
<1>5. SegmentOK'
  BY DEF IInv, HolderOK, SegmentOK, CheckpointWorker, PayloadsValid
<1> QED BY <1>1, <1>2, <1>3, <1>4, <1>5 DEF IInv

LEMMA CheckpointEndStep ==
  ASSUME IInv, CheckpointEnd
  PROVE  IInv'
<1>1. TypeOK'
  BY DEF IInv, TypeOK, CheckpointEnd
<1>2. RingValid(ctl)'
  BY DEF IInv, CheckpointEnd, RingValid
<1>3. HolderOK'
  BY DEF IInv, HolderOK, CheckpointEnd
<1>4. PointersOK'
  BY DEF IInv, HolderOK, PointersOK, CheckpointEnd, ClearRuntime, RingValid, NoSegment, TypeOK,
     RuntimeType, LocalsType
<1>5. SegmentOK'
  BY DEF IInv, HolderOK, SegmentOK, CheckpointEnd, PayloadsValid
<1> QED BY <1>1, <1>2, <1>3, <1>4, <1>5 DEF IInv

LEMMA CheckpointStartStep ==
  ASSUME IInv, CheckpointStart
  PROVE  IInv'
<1>1. TypeOK'
  <2>1. ctl' \in ControlType
    BY JournalAssumption DEF IInv, TypeOK, CheckpointStart, ControlType, Control, ControlState, RuntimeType
  <2>2. seg' \in LocalsType
    BY CheckpointStartLocals
  <2> QED BY <2>1, <2>2 DEF IInv, TypeOK, CheckpointStart
<1>2. RingValid(ctl)'
  BY DEF IInv, CheckpointStart, RingValid, Control, PointersOK, HolderOK
<1>3. HolderOK'
  BY DEF IInv, HolderOK, CheckpointStart
<1>4. PointersOK'
  BY DEF IInv, HolderOK, PointersOK, CheckpointStart, ClearRuntime, RingValid, NoSegment, TypeOK,
     RuntimeType, LocalsType
<1>5. SegmentOK'
  BY CheckpointStartLocals DEF SegmentOK, CheckpointStart
<1> QED BY <1>1, <1>2, <1>3, <1>4, <1>5 DEF IInv

LEMMA CheckpointCorruptStep ==
  ASSUME IInv, CheckpointCorrupt
  PROVE  IInv'
<1>1. TypeOK'
  <2>1. seg' \in LocalsType
    BY NoSegmentType DEF IInv, TypeOK, CheckpointCorrupt, MountRefused
  <2> QED BY <2>1 DEF IInv, TypeOK, CheckpointCorrupt
<1>2. RingValid(ctl)'
  BY DEF IInv, CheckpointCorrupt, RingValid
<1>3. HolderOK'
  BY DEF IInv, HolderOK, CheckpointCorrupt
<1>4. PointersOK'
  BY DEF IInv, HolderOK, PointersOK, CheckpointCorrupt, ClearRuntime, RingValid, NoSegment, TypeOK,
     RuntimeType, LocalsType
<1>5. SegmentOK'
  BY DEF IInv, HolderOK, SegmentOK, CheckpointCorrupt, PayloadsValid
<1> QED BY <1>1, <1>2, <1>3, <1>4, <1>5 DEF IInv

LEMMA CheckpointHomeStep ==
  ASSUME IInv, CheckpointHome
  PROVE  IInv'
<1>1. TypeOK'
  <2>1. /\ cache' \in [Block -> Nat] /\ disk' \in [Block -> Nat] /\ dirty' \subseteq Block
       /\ rec' \in BOOLEAN /\ drec' \in BOOLEAN
    BY HomeWrittenType DEF IInv, SegmentOK, CheckpointHome
  <2>2. seg' \in LocalsType
    BY HomeWrittenType DEF IInv, SegmentOK, CheckpointHome
  <2> QED BY <2>1, <2>2 DEF IInv, TypeOK, CheckpointHome, HomeWritten
<1>2. RingValid(ctl)'
  BY DEF IInv, CheckpointHome, RingValid
<1>3. HolderOK'
  BY DEF IInv, HolderOK, CheckpointHome
<1>4. PointersOK'
  BY DEF IInv, HolderOK, PointersOK, CheckpointHome, ClearRuntime, RingValid, NoSegment, TypeOK,
     RuntimeType, LocalsType
<1>5. SegmentOK'
  BY HomeWrittenType DEF IInv, SegmentOK, CheckpointHome
<1> QED BY <1>1, <1>2, <1>3, <1>4, <1>5 DEF IInv

LEMMA CheckpointAdvanceStep ==
  ASSUME IInv, CheckpointAdvance
  PROVE  IInv'
<1>1. TypeOK'
  <2>1. j' \in RuntimeType
    BY NextTailInRing DEF IInv, TypeOK, CheckpointAdvance, RuntimeType
  <2>2. /\ cache' \in [Block -> Nat] /\ disk' \in [Block -> Nat] /\ dirty' \subseteq Block
       /\ rec' \in BOOLEAN /\ drec' \in BOOLEAN
    BY RingAssumption DEF IInv, TypeOK, CheckpointAdvance, Block, FreshBuffers, RuntimeType
  <2>3. ghost' \in GhostType
    <3>1. ghost.pend # <<>> => Tail(ghost.pend) \in Seq([pos : Nat, d : DescriptorType])
      BY DEF IInv, TypeOK, GhostType
    <3> QED BY <3>1 DEF IInv, TypeOK, CheckpointAdvance, GhostType
  <2> QED BY <2>1, <2>2, <2>3 DEF IInv, TypeOK, CheckpointAdvance
<1>2. RingValid(ctl)'
  BY DEF IInv, CheckpointAdvance, RingValid
<1>3. HolderOK'
  BY DEF IInv, HolderOK, CheckpointAdvance
<1>4. PointersOK'
  BY NextTailInRing DEF IInv, HolderOK, PointersOK, CheckpointAdvance, TypeOK, RuntimeType
<1>5. SegmentOK'
  BY DEF IInv, HolderOK, SegmentOK, CheckpointAdvance, PayloadsValid
<1> QED BY <1>1, <1>2, <1>3, <1>4, <1>5 DEF IInv

LEMMA CheckpointSuperStep ==
  ASSUME IInv, CheckpointSuper
  PROVE  IInv'
<1>1. TypeOK'
  <2>1. /\ cache' \in [Block -> Nat] /\ disk' \in [Block -> Nat] /\ dirty' \subseteq Block
       /\ rec' \in BOOLEAN /\ drec' \in BOOLEAN
    BY RingAssumption DEF IInv, TypeOK, CheckpointSuper, Block, FreshBuffers, RuntimeType
  <2> QED BY <2>1 DEF IInv, TypeOK, CheckpointSuper
<1>2. RingValid(ctl)'
  BY DEF IInv, CheckpointSuper, RingValid
<1>3. HolderOK'
  BY DEF IInv, HolderOK, CheckpointSuper
<1>4. PointersOK'
  BY DEF IInv, HolderOK, PointersOK, CheckpointSuper, ClearRuntime, RingValid, NoSegment, TypeOK,
     RuntimeType, LocalsType
<1>5. SegmentOK'
  BY DEF IInv, HolderOK, SegmentOK, CheckpointSuper, PayloadsValid
<1> QED BY <1>1, <1>2, <1>3, <1>4, <1>5 DEF IInv

LEMMA CheckpointControlStep ==
  ASSUME IInv, CheckpointControl
  PROVE  IInv'
<1>1. TypeOK'
  <2>1. ctl' \in ControlType
    BY JournalAssumption DEF IInv, TypeOK, CheckpointControl, ControlType, Control, ControlState, RuntimeType
  <2>2. seg' \in LocalsType
    BY NoSegmentType DEF IInv, TypeOK, CheckpointControl, MountRefused
  <2> QED BY <2>1, <2>2 DEF IInv, TypeOK, CheckpointControl
<1>2. RingValid(ctl)'
  BY DEF IInv, CheckpointControl, RingValid, Control, PointersOK, HolderOK
<1>3. HolderOK'
  BY DEF IInv, HolderOK, CheckpointControl
<1>4. PointersOK'
  BY DEF IInv, HolderOK, PointersOK, CheckpointControl, ClearRuntime, RingValid, NoSegment, TypeOK,
     RuntimeType, LocalsType
<1>5. SegmentOK'
  BY DEF IInv, HolderOK, SegmentOK, CheckpointControl, PayloadsValid
<1> QED BY <1>1, <1>2, <1>3, <1>4, <1>5 DEF IInv

LEMMA MountCleanStep ==
  ASSUME IInv, MountClean
  PROVE  IInv'
<1>1. TypeOK'
  <2>1. /\ cache' \in [Block -> Nat] /\ disk' \in [Block -> Nat] /\ dirty' \subseteq Block
       /\ rec' \in BOOLEAN /\ drec' \in BOOLEAN
    BY RingAssumption DEF IInv, TypeOK, MountClean, Block, FreshBuffers, RuntimeType
  <2>2. j' \in RuntimeType
    BY FreshRuntimeType DEF IInv, TypeOK, MountClean, RuntimeType, FreshRuntime, ControlType
  <2> QED BY <2>1, <2>2 DEF IInv, TypeOK, MountClean
<1>2. RingValid(ctl)'
  BY DEF IInv, MountClean, RingValid
<1>3. HolderOK'
  BY DEF IInv, HolderOK, MountClean
<1>4. PointersOK'
  BY DEF IInv, HolderOK, PointersOK, MountClean, ClearRuntime, RingValid, NoSegment, TypeOK,
     RuntimeType, LocalsType
<1>5. SegmentOK'
  BY DEF IInv, HolderOK, SegmentOK, MountClean, PayloadsValid
<1> QED BY <1>1, <1>2, <1>3, <1>4, <1>5 DEF IInv

LEMMA MountReplayStep ==
  ASSUME IInv, MountReplay
  PROVE  IInv'
<1>1. TypeOK'
  <2>1. /\ cache' \in [Block -> Nat] /\ disk' \in [Block -> Nat] /\ dirty' \subseteq Block
       /\ rec' \in BOOLEAN /\ drec' \in BOOLEAN
    BY RingAssumption DEF IInv, TypeOK, MountReplay, Block, FreshBuffers, RuntimeType
  <2>2. seg' \in LocalsType
    BY NoSegmentType DEF IInv, TypeOK, MountReplay, LocalsType, ControlType
  <2> QED BY <2>1, <2>2 DEF IInv, TypeOK, MountReplay
<1>2. RingValid(ctl)'
  BY DEF IInv, MountReplay, RingValid
<1>3. HolderOK'
  BY DEF IInv, HolderOK, MountReplay
<1>4. PointersOK'
  BY DEF IInv, HolderOK, PointersOK, MountReplay, ClearRuntime, RingValid, NoSegment, TypeOK,
     RuntimeType, LocalsType
<1>5. SegmentOK'
  BY DEF IInv, HolderOK, SegmentOK, MountReplay, PayloadsValid
<1> QED BY <1>1, <1>2, <1>3, <1>4, <1>5 DEF IInv

LEMMA MountCorruptStep ==
  ASSUME IInv, MountCorrupt
  PROVE  IInv'
<1>1. TypeOK'
  <2>1. /\ cache' \in [Block -> Nat] /\ disk' \in [Block -> Nat] /\ dirty' \subseteq Block
       /\ rec' \in BOOLEAN /\ drec' \in BOOLEAN
    BY RingAssumption DEF IInv, TypeOK, MountCorrupt, Block, FreshBuffers, RuntimeType
  <2>2. seg' \in LocalsType
    BY NoSegmentType DEF IInv, TypeOK, MountCorrupt, MountRefused
  <2>3. j' \in RuntimeType
    BY ClearRuntimeType, FreshRuntimeType DEF IInv, TypeOK, MountCorrupt, RuntimeType, MountRefused
  <2>4. ghost' \in GhostType
    BY RingAssumption DEF IInv, TypeOK, MountCorrupt, GhostType, MountRefused
  <2> QED BY <2>1, <2>2, <2>3, <2>4 DEF IInv, TypeOK, MountCorrupt, MountRefused
<1>2. RingValid(ctl)'
  BY DEF IInv, MountCorrupt, RingValid
<1>3. HolderOK'
  BY DEF IInv, HolderOK, MountCorrupt, MountRefused
<1>4. PointersOK'
  BY DEF IInv, HolderOK, PointersOK, MountCorrupt, ClearRuntime, RingValid, NoSegment, TypeOK,
     RuntimeType, LocalsType, MountRefused
<1>5. SegmentOK'
  BY DEF IInv, HolderOK, SegmentOK, MountCorrupt, PayloadsValid, MountRefused
<1> QED BY <1>1, <1>2, <1>3, <1>4, <1>5 DEF IInv

LEMMA ReplaySegmentStep ==
  ASSUME IInv, ReplaySegment
  PROVE  IInv'
<1>1. TypeOK'
  <2>1. seg' \in LocalsType
    BY ReplaySegmentLocals
  <2> QED BY <2>1 DEF IInv, TypeOK, ReplaySegment
<1>2. RingValid(ctl)'
  BY DEF IInv, ReplaySegment, RingValid
<1>3. HolderOK'
  BY DEF IInv, HolderOK, ReplaySegment
<1>4. PointersOK'
  BY ReplaySegmentLocals DEF IInv, HolderOK, PointersOK, ReplaySegment
<1>5. SegmentOK'
  BY ReplaySegmentLocals DEF SegmentOK, PayloadsValid, ReplaySegment
<1> QED BY <1>1, <1>2, <1>3, <1>4, <1>5 DEF IInv

LEMMA ReplayHomeStep ==
  ASSUME IInv, ReplayHome
  PROVE  IInv'
<1>1. TypeOK'
  <2>1. /\ cache' \in [Block -> Nat] /\ disk' \in [Block -> Nat] /\ dirty' \subseteq Block
       /\ rec' \in BOOLEAN /\ drec' \in BOOLEAN
    BY HomeWrittenType DEF IInv, SegmentOK, ReplayHome
  <2>2. seg' \in LocalsType
    BY HomeWrittenType DEF IInv, SegmentOK, ReplayHome
  <2> QED BY <2>1, <2>2 DEF IInv, TypeOK, ReplayHome, HomeWritten
<1>2. RingValid(ctl)'
  BY DEF IInv, ReplayHome, RingValid
<1>3. HolderOK'
  BY DEF IInv, HolderOK, ReplayHome
<1>4. PointersOK'
  BY HomeWrittenType DEF IInv, HolderOK, PointersOK, SegmentOK, ReplayHome
<1>5. SegmentOK'
  BY HomeWrittenType DEF IInv, SegmentOK, PayloadsValid, ReplayHome
<1> QED BY <1>1, <1>2, <1>3, <1>4, <1>5 DEF IInv

LEMMA ReplayNextStep ==
  ASSUME IInv, ReplayNext
  PROVE  IInv'
<1>1. TypeOK'
  <2>1. seg' \in LocalsType
    BY NextTailInRing DEF IInv, TypeOK, ReplayNext, LocalsType
  <2> QED BY <2>1 DEF IInv, TypeOK, ReplayNext
<1>2. RingValid(ctl)'
  BY DEF IInv, ReplayNext, RingValid
<1>3. HolderOK'
  BY DEF IInv, HolderOK, ReplayNext
<1>4. PointersOK'
  <2>1. seg'.pos = SegmentEnd(seg.d) /\ seg'.head = seg.head
    BY DEF IInv, ReplayNext, TypeOK, LocalsType
  <2>2. SegmentEnd(seg.d) \in RingPos
    BY NextTailInRing DEF ReplayNext
  <2> QED BY <2>1, <2>2 DEF IInv, HolderOK, PointersOK, ReplayNext
<1>5. SegmentOK'
  BY DEF IInv, HolderOK, SegmentOK, ReplayNext, PayloadsValid
<1> QED BY <1>1, <1>2, <1>3, <1>4, <1>5 DEF IInv

LEMMA ScanCorruptStep ==
  ASSUME IInv, ScanCorrupt
  PROVE  IInv'
<1>1. TypeOK'
  <2>1. seg' \in LocalsType
    BY NoSegmentType DEF IInv, TypeOK, ScanCorrupt, MountRefused
  <2>2. j' \in RuntimeType
    BY ClearRuntimeType, FreshRuntimeType DEF IInv, TypeOK, ScanCorrupt, RuntimeType, MountRefused
  <2>3. ghost' \in GhostType
    BY RingAssumption DEF IInv, TypeOK, ScanCorrupt, GhostType, MountRefused
  <2> QED BY <2>1, <2>2, <2>3 DEF IInv, TypeOK, ScanCorrupt, MountRefused
<1>2. RingValid(ctl)'
  BY DEF IInv, ScanCorrupt, RingValid
<1>3. HolderOK'
  BY DEF IInv, HolderOK, ScanCorrupt, MountRefused
<1>4. PointersOK'
  BY DEF IInv, HolderOK, PointersOK, ScanCorrupt, ClearRuntime, RingValid, NoSegment, TypeOK,
     RuntimeType, LocalsType, MountRefused
<1>5. SegmentOK'
  BY DEF IInv, HolderOK, SegmentOK, ScanCorrupt, PayloadsValid, MountRefused
<1> QED BY <1>1, <1>2, <1>3, <1>4, <1>5 DEF IInv

LEMMA ReplayDiscardStep ==
  ASSUME IInv, ReplayDiscard
  PROVE  IInv'
<1>1. TypeOK'
  <2>1. j' \in RuntimeType
    BY DEF IInv, TypeOK, ReplayDiscard, RuntimeType, LocalsType
  <2>2. /\ cache' \in [Block -> Nat] /\ disk' \in [Block -> Nat] /\ dirty' \subseteq Block
       /\ rec' \in BOOLEAN /\ drec' \in BOOLEAN
    BY DEF IInv, TypeOK, ReplayDiscard, Block, LocalsType
  <2>3. ghost' \in GhostType
    <3>1. <<>> \in Seq([pos : Nat, d : DescriptorType])
      OBVIOUS
    <3> QED BY <3>1 DEF IInv, TypeOK, ReplayDiscard, GhostType
  <2> QED BY <2>1, <2>2, <2>3 DEF IInv, TypeOK, ReplayDiscard
<1>2. RingValid(ctl)'
  BY DEF IInv, ReplayDiscard, RingValid
<1>3. HolderOK'
  BY DEF IInv, HolderOK, ReplayDiscard
<1>4. PointersOK'
  BY DEF IInv, HolderOK, PointersOK, ReplayDiscard, ClearRuntime, RingValid, NoSegment, TypeOK,
     RuntimeType, LocalsType
<1>5. SegmentOK'
  BY DEF IInv, HolderOK, SegmentOK, ReplayDiscard, PayloadsValid
<1> QED BY <1>1, <1>2, <1>3, <1>4, <1>5 DEF IInv

LEMMA ResetDescriptorStep ==
  ASSUME IInv, ResetDescriptor
  PROVE  IInv'
<1>1. TypeOK'
  <2>1. ring' \in [RingPos -> SlotType]
    <3>1. EmptyDescriptor(j.seq) \in SlotType
      BY EmptyDescriptorType DEF IInv, TypeOK, RuntimeType, SlotType
    <3> QED BY <3>1 DEF IInv, TypeOK, ResetDescriptor
  <2> QED BY <2>1 DEF IInv, TypeOK, ResetDescriptor
<1>2. RingValid(ctl)'
  BY DEF IInv, ResetDescriptor, RingValid
<1>3. HolderOK'
  BY DEF IInv, HolderOK, ResetDescriptor
<1>4. PointersOK'
  BY DEF IInv, HolderOK, PointersOK, ResetDescriptor, ClearRuntime, RingValid, NoSegment, TypeOK,
     RuntimeType, LocalsType
<1>5. SegmentOK'
  BY DEF IInv, HolderOK, SegmentOK, ResetDescriptor, PayloadsValid
<1> QED BY <1>1, <1>2, <1>3, <1>4, <1>5 DEF IInv

LEMMA ResetCommitStep ==
  ASSUME IInv, ResetCommit
  PROVE  IInv'
<1>1. TypeOK'
  <2>1. ring' \in [RingPos -> SlotType]
    <3>1. Commit(EmptyDescriptor(j.seq), FALSE, RingStart) \in SlotType
      BY EmptyDescriptorType, CommitType DEF IInv, TypeOK, RuntimeType, RingStart
    <3> QED BY <3>1 DEF IInv, TypeOK, ResetCommit
  <2> QED BY <2>1 DEF IInv, TypeOK, ResetCommit
<1>2. RingValid(ctl)'
  BY DEF IInv, ResetCommit, RingValid
<1>3. HolderOK'
  BY DEF IInv, HolderOK, ResetCommit
<1>4. PointersOK'
  BY DEF IInv, HolderOK, PointersOK, ResetCommit, ClearRuntime, RingValid, NoSegment, TypeOK,
     RuntimeType, LocalsType
<1>5. SegmentOK'
  BY DEF IInv, HolderOK, SegmentOK, ResetCommit, PayloadsValid
<1> QED BY <1>1, <1>2, <1>3, <1>4, <1>5 DEF IInv

LEMMA ResetControlStep ==
  ASSUME IInv, ResetControl
  PROVE  IInv'
<1>1. TypeOK'
  <2>1. ctl' \in ControlType
    BY JournalAssumption DEF IInv, TypeOK, ResetControl, ControlType, Control, ControlState, RuntimeType
  <2>2. j' \in RuntimeType
    BY ClearRuntimeType, FreshRuntimeType DEF IInv, TypeOK, ResetControl, RuntimeType, MountRefused
  <2>3. seg' \in LocalsType
    BY NoSegmentType DEF IInv, TypeOK, ResetControl, MountRefused
  <2> QED BY <2>1, <2>2, <2>3 DEF IInv, TypeOK, ResetControl
<1>2. RingValid(ctl)'
  BY DEF IInv, ResetControl, RingValid, Control, PointersOK, HolderOK
<1>3. HolderOK'
  BY DEF IInv, HolderOK, ResetControl
<1>4. PointersOK'
  BY DEF IInv, HolderOK, PointersOK, ResetControl, ClearRuntime, RingValid, NoSegment, TypeOK,
     RuntimeType, LocalsType
<1>5. SegmentOK'
  BY DEF IInv, HolderOK, SegmentOK, ResetControl, PayloadsValid
<1> QED BY <1>1, <1>2, <1>3, <1>4, <1>5 DEF IInv

LEMMA UnmountStep ==
  ASSUME IInv, Unmount
  PROVE  IInv'
<1>1. TypeOK'
  BY DEF IInv, TypeOK, Unmount
<1>2. RingValid(ctl)'
  BY DEF IInv, Unmount, RingValid
<1>3. HolderOK'
  BY DEF IInv, HolderOK, Unmount
<1>4. PointersOK'
  BY DEF IInv, HolderOK, PointersOK, Unmount, ClearRuntime, RingValid, NoSegment, TypeOK,
     RuntimeType, LocalsType
<1>5. SegmentOK'
  BY DEF IInv, HolderOK, SegmentOK, Unmount, PayloadsValid
<1> QED BY <1>1, <1>2, <1>3, <1>4, <1>5 DEF IInv

LEMMA UnmountDoneStep ==
  ASSUME IInv, UnmountDone
  PROVE  IInv'
<1>1. TypeOK'
  <2>1. j' \in RuntimeType
    BY ClearRuntimeType, FreshRuntimeType DEF IInv, TypeOK, UnmountDone, RuntimeType, MountRefused
  <2> QED BY <2>1 DEF IInv, TypeOK, UnmountDone
<1>2. RingValid(ctl)'
  BY DEF IInv, UnmountDone, RingValid
<1>3. HolderOK'
  BY DEF IInv, HolderOK, UnmountDone
<1>4. PointersOK'
  BY DEF IInv, HolderOK, PointersOK, UnmountDone, ClearRuntime, RingValid, NoSegment, TypeOK,
     RuntimeType, LocalsType
<1>5. SegmentOK'
  BY DEF IInv, HolderOK, SegmentOK, UnmountDone, PayloadsValid
<1> QED BY <1>1, <1>2, <1>3, <1>4, <1>5 DEF IInv

LEMMA CrashStep ==
  ASSUME IInv, Crash
  PROVE  IInv'
<1>1. TypeOK'
  <2>1. count' \in CountType
    BY RingAssumption DEF IInv, TypeOK, Crash, CountType
  <2>2. ring' \in [RingPos -> SlotType]
    BY JournalAssumption DEF IInv, TypeOK, Crash, SlotType, None, LocalsType
  <2>3. ghost' \in GhostType
    BY RingAssumption DEF IInv, TypeOK, Crash, GhostType, MountRefused
  <2>4. seg' \in LocalsType
    BY NoSegmentType DEF IInv, TypeOK, Crash, MountRefused
  <2>5. j' \in RuntimeType
    BY ClearRuntimeType, FreshRuntimeType DEF IInv, TypeOK, Crash, RuntimeType, MountRefused
  <2>6. /\ cache' \in [Block -> Nat] /\ disk' \in [Block -> Nat] /\ dirty' \subseteq Block
       /\ rec' \in BOOLEAN /\ drec' \in BOOLEAN
    BY RingAssumption DEF IInv, TypeOK, Crash, Block, FreshBuffers, RuntimeType
  <2> QED BY <2>1, <2>2, <2>3, <2>4, <2>5, <2>6 DEF IInv, TypeOK, Crash
<1>2. RingValid(ctl)'
  BY DEF IInv, Crash, RingValid
<1>3. HolderOK'
  BY DEF IInv, HolderOK, Crash
<1>4. PointersOK'
  BY DEF IInv, HolderOK, PointersOK, Crash, ClearRuntime, RingValid, NoSegment, TypeOK,
     RuntimeType, LocalsType
<1>5. SegmentOK'
  BY DEF IInv, HolderOK, SegmentOK, Crash, PayloadsValid
<1> QED BY <1>1, <1>2, <1>3, <1>4, <1>5 DEF IInv

LEMMA CommitWriteFailsStep ==
  ASSUME IInv, CommitWriteFails
  PROVE  IInv'
<1>1. TypeOK'
  <2>1. count' \in CountType
    BY RingAssumption DEF IInv, TypeOK, CommitWriteFails, CountType
  <2>2. j' \in RuntimeType
    BY ClearRuntimeType DEF IInv, TypeOK, CommitWriteFails, RuntimeType, LocalsType
  <2>3. /\ cache' \in [Block -> Nat] /\ disk' \in [Block -> Nat] /\ dirty' \subseteq Block
       /\ rec' \in BOOLEAN /\ drec' \in BOOLEAN
    BY RingAssumption DEF IInv, TypeOK, CommitWriteFails, Block, FreshBuffers, RuntimeType
  <2>4. seg' \in LocalsType
    BY NoSegmentType DEF IInv, TypeOK, CommitWriteFails, MountRefused
  <2> QED BY <2>1, <2>2, <2>3, <2>4 DEF IInv, TypeOK, CommitWriteFails
<1>2. RingValid(ctl)'
  BY DEF IInv, CommitWriteFails, RingValid
<1>3. HolderOK'
  BY DEF IInv, HolderOK, CommitWriteFails
<1>4. PointersOK'
  BY DEF IInv, HolderOK, PointersOK, CommitWriteFails, ClearRuntime, RingValid, NoSegment, TypeOK,
     RuntimeType, LocalsType
<1>5. SegmentOK'
  BY DEF IInv, HolderOK, SegmentOK, CommitWriteFails, PayloadsValid
<1> QED BY <1>1, <1>2, <1>3, <1>4, <1>5 DEF IInv

LEMMA CommitUncertainStep ==
  ASSUME IInv, CommitUncertain
  PROVE  IInv'
<1>1. TypeOK'
  <2>1. count' \in CountType
    BY RingAssumption DEF IInv, TypeOK, CommitUncertain, CountType
  <2>2. ring' \in [RingPos -> SlotType]
    BY CommitBlockType DEF IInv, TypeOK, SegmentOK, CommitUncertain
  <2>3. ghost' \in GhostType
    BY CommitBlockType DEF IInv, TypeOK, SegmentOK, CommitUncertain
  <2>4. j' \in RuntimeType
    BY ClearRuntimeType, FreshRuntimeType DEF IInv, TypeOK, CommitUncertain, RuntimeType, MountRefused
  <2>5. seg' \in LocalsType
    BY NoSegmentType DEF IInv, TypeOK, CommitUncertain, MountRefused
  <2> QED BY <2>1, <2>2, <2>3, <2>4, <2>5 DEF IInv, TypeOK, CommitUncertain, CommitBlockWritten
<1>2. RingValid(ctl)'
  BY DEF IInv, CommitUncertain, RingValid
<1>3. HolderOK'
  BY DEF IInv, HolderOK, CommitUncertain
<1>4. PointersOK'
  BY DEF IInv, HolderOK, PointersOK, CommitUncertain, ClearRuntime, RingValid, NoSegment, TypeOK,
     RuntimeType, LocalsType
<1>5. SegmentOK'
  BY DEF IInv, HolderOK, SegmentOK, CommitUncertain, PayloadsValid
<1> QED BY <1>1, <1>2, <1>3, <1>4, <1>5 DEF IInv

LEMMA CheckpointWriteFailsStep ==
  ASSUME IInv, CheckpointWriteFails
  PROVE  IInv'
<1>1. TypeOK'
  <2>1. count' \in CountType
    BY RingAssumption DEF IInv, TypeOK, CheckpointWriteFails, CountType
  <2>2. seg' \in LocalsType
    BY NoSegmentType DEF IInv, TypeOK, CheckpointWriteFails, MountRefused
  <2> QED BY <2>1, <2>2 DEF IInv, TypeOK, CheckpointWriteFails
<1>2. RingValid(ctl)'
  BY DEF IInv, CheckpointWriteFails, RingValid
<1>3. HolderOK'
  BY DEF IInv, HolderOK, CheckpointWriteFails
<1>4. PointersOK'
  BY DEF IInv, HolderOK, PointersOK, CheckpointWriteFails, ClearRuntime, RingValid, NoSegment, TypeOK,
     RuntimeType, LocalsType
<1>5. SegmentOK'
  BY DEF IInv, HolderOK, SegmentOK, CheckpointWriteFails, PayloadsValid
<1> QED BY <1>1, <1>2, <1>3, <1>4, <1>5 DEF IInv

LEMMA ReplayWriteFailsStep ==
  ASSUME IInv, ReplayWriteFails
  PROVE  IInv'
<1>1. TypeOK'
  <2>1. count' \in CountType
    BY RingAssumption DEF IInv, TypeOK, ReplayWriteFails, CountType
  <2>2. ghost' \in GhostType
    BY RingAssumption DEF IInv, TypeOK, ReplayWriteFails, GhostType, MountRefused
  <2>3. seg' \in LocalsType
    BY NoSegmentType DEF IInv, TypeOK, ReplayWriteFails, MountRefused
  <2>4. j' \in RuntimeType
    BY ClearRuntimeType, FreshRuntimeType DEF IInv, TypeOK, ReplayWriteFails, RuntimeType, MountRefused
  <2>5. /\ cache' \in [Block -> Nat] /\ disk' \in [Block -> Nat] /\ dirty' \subseteq Block
       /\ rec' \in BOOLEAN /\ drec' \in BOOLEAN
    BY RingAssumption DEF IInv, TypeOK, ReplayWriteFails, Block, FreshBuffers, RuntimeType
  <2> QED BY <2>1, <2>2, <2>3, <2>4, <2>5 DEF IInv, TypeOK, ReplayWriteFails
<1>2. RingValid(ctl)'
  BY DEF IInv, ReplayWriteFails, RingValid
<1>3. HolderOK'
  BY DEF IInv, HolderOK, ReplayWriteFails
<1>4. PointersOK'
  BY DEF IInv, HolderOK, PointersOK, ReplayWriteFails, ClearRuntime, RingValid, NoSegment, TypeOK,
     RuntimeType, LocalsType
<1>5. SegmentOK'
  BY DEF IInv, HolderOK, SegmentOK, ReplayWriteFails, PayloadsValid
<1> QED BY <1>1, <1>2, <1>3, <1>4, <1>5 DEF IInv

-----------------------------------------------------------------------------
LEMMA InitIInv == Init => IInv
<1> SUFFICES ASSUME Init PROVE IInv
  OBVIOUS
<1>1. ring \in [RingPos -> SlotType]
  <2>1. EmptyDescriptor(0) \in DescriptorType
    BY EmptyDescriptorType
  <2>2. Commit(EmptyDescriptor(0), FALSE, RingStart) \in SlotType
    BY <2>1, CommitType DEF RingStart
  <2>3. EmptyDescriptor(0) \in SlotType /\ None \in SlotType
    BY <2>1 DEF SlotType
  <2> QED BY <2>2, <2>3 DEF Init
<1>2. ghost \in GhostType
  <2>1. <<>> \in Seq([pos : Nat, d : DescriptorType])
    OBVIOUS
  <2> QED BY <2>1, RingAssumption DEF Init, GhostType
<1>3. ctl \in ControlType /\ RingValid(ctl)
  BY JournalAssumption
  DEF Init, ControlType, Control, ControlState, RingValid, RingPos, RingStart, RingEnd
<1>4. count \in CountType
  BY RingAssumption DEF Init, CountType
<1>5. TypeOK
  BY <1>1, <1>2, <1>3, <1>4, FreshRuntimeType, NoSegmentType DEF Init, TypeOK
<1>6. HolderOK /\ PointersOK /\ SegmentOK
  BY DEF Init, HolderOK, PointersOK, SegmentOK
<1> QED BY <1>3, <1>5, <1>6 DEF IInv

LEMMA StutterIInv == IInv /\ UNCHANGED vars => IInv'
BY DEF vars, IInv, TypeOK, RingValid, HolderOK, PointersOK, SegmentOK, PayloadsValid

LEMMA NextIInv == IInv /\ [Next]_vars => IInv'
<1> SUFFICES ASSUME IInv, [Next]_vars PROVE IInv'
  OBVIOUS
<1>1. CASE Transaction
  BY <1>1, BeginStep, ModifyStep, AbortStep, StartCommitStep,
     BarrierDoneStep, CommitRefusedStep, CommitNoSpaceStep,
     CommitAllocateStep, WritePayloadStep, WriteDescriptorStep,
     WritePreparedStep, WriteCommitBlockStep, WriteCommittedStep DEF Transaction
<1>2. CASE Checkpoint
  BY <1>2, CheckpointWorkerStep, CheckpointEndStep, CheckpointStartStep,
     CheckpointCorruptStep, CheckpointHomeStep,
     CheckpointAdvanceStep, CheckpointSuperStep,
     CheckpointControlStep DEF Checkpoint
<1>3. CASE Replay
  BY <1>3, MountCleanStep, MountReplayStep, MountCorruptStep,
     ReplaySegmentStep, ReplayHomeStep, ReplayNextStep,
     ScanCorruptStep, ReplayDiscardStep, ResetDescriptorStep,
     ResetCommitStep, ResetControlStep DEF Replay
<1>4. CASE Environment
  BY <1>4, WritebackStep, UnmountStep, UnmountDoneStep, CrashStep,
     CommitWriteFailsStep, CommitUncertainStep,
     CheckpointWriteFailsStep, ReplayWriteFailsStep DEF Environment
<1>5. CASE UNCHANGED vars
  BY <1>5, StutterIInv
<1> QED BY <1>1, <1>2, <1>3, <1>4, <1>5 DEF Next

LEMMA Inductive == Spec => []IInv
BY InitIInv, NextIInv, PTL DEF Spec

(* Every variable of the model keeps its type, for every size of the ring   *)
(* and every number of home blocks, transactions, crashes and faults.       *)
THEOREM TypeCorrect == Spec => []TypeOK
<1>1. IInv => TypeOK
  BY DEF IInv
<1> QED BY <1>1, Inductive, PTL

(* No step of begin, commit, its error paths, checkpoint, replay, reset,    *)
(* unmount or power failure leaves a control block on the device that       *)
(* cryexts_journal_v3_ring_valid would refuse, nor a ring pointer outside   *)
(* the ring in a mounted file system.                                       *)
THEOREM ControlAlwaysValid == Spec => []ControlValid
<1>1. IInv => ControlValid
  BY DEF IInv, ControlValid, PointersOK
<1> QED BY <1>1, Inductive, PTL
-----------------------------------------------------------------------------
(***************************************************************************)
(* Durability of JournalV3Ring: what a transaction committed is visible    *)
(* whenever the volume is mounted and idle, pending segments are intact    *)
(* and found by checkpoint, an idle control block hides nothing, and       *)
(* without failed writes no mount is refused.  For every ring size, set of *)
(* home blocks and number of transactions, crashes and failed writes.      *)
(*                                                                         *)
(* The theorems assume MaxPending = 0: a transaction begins only when the  *)
(* ones before it have been checkpointed.  Without it they do not hold:    *)
(* RingGap.cfg and RingResetLoss.cfg are counterexamples with two segments *)
(* pending.                                                                *)
(***************************************************************************)

(* A volume with a buffer cache of its own: mounted, or being unmounted. *)
InUse == fs \in {"up", "unmounting"}
Pending == ghost.pend # <<>>
Oldest == ghost.pend[1]
UncommittedPC == {"running", "barrier", "commit", "payload", "prepare", "commit_block"}

(* The segment of d at pos lies inside the ring and does not fill it. *)
Placed(pos, d) ==
  /\ pos \in RingPos /\ d.commit \in RingPos
  /\ Len(d.homes) <= PayloadCapacity
  /\ d.payload = pos + 1 /\ d.commit = d.payload + Len(d.homes)
  /\ SegmentEnd(d) # pos

(* SegmentIntact and DescriptorValid for the ring r. *)
Stored(r, s) ==
  /\ r[s.pos] = s.d
  /\ r[s.d.commit] = Commit(s.d, TRUE, s.pos)
  /\ \A i \in 1 .. Len(s.d.homes) : r[s.d.payload + i - 1] = Payload(s.d.sums[i])
Readable(r, pos, floor) ==
  /\ r[pos].t = "descriptor"
  /\ Len(r[pos].homes) <= PayloadCapacity
  /\ r[pos].payload = pos + 1
  /\ r[pos].commit = r[pos].payload + Len(r[pos].homes)
  /\ r[pos].seq > floor

(* No image of d is older than dur, what was committed for its block. *)
Current(dur, d) ==
  \A i \in 1 .. Len(d.homes) : d.homes[i] \in Home => d.sums[i] >= dur[d.homes[i]]

(* p holds the commit block of a transaction with a sequence above n. *)
Flagged(r, p) == p \in RingPos /\ r[p].t = "commit" /\ r[p].flag
Fresh(r, n, p) == Flagged(r, p) /\ r[p].of.seq > n
NoneAfter(r, n) == \A p \in RingPos : ~Fresh(r, n, p)

(* At most one segment is pending; it is intact and the control block leads *)
(* to it; while it is pending nobody writes to the ring.                    *)
PendingLog ==
  Pending =>
    /\ Len(ghost.pend) = 1
    /\ Placed(Oldest.pos, Oldest.d)
    /\ Stored(ring, Oldest) /\ Current(ghost.durable, Oldest.d)
    /\ ctl.state # "IDLE" /\ Oldest.d.seq > ctl.ckpt
    /\ ctl.tail = Oldest.pos /\ ctl.head = SegmentEnd(Oldest.d)
    /\ pc \notin UncommittedPC \cup ResetPC \cup {"advanced", "drained"}
    /\ InUse =>
         /\ j.tail = Oldest.pos /\ j.head = SegmentEnd(Oldest.d)
         /\ j.ckpt < Oldest.d.seq /\ j.ckpt <= j.seq
         /\ j.active = 0 => j.seq = Oldest.d.seq

(* What was committed to a home block is on the device or in the pending    *)
(* segment, in the part of it that is still to be written home.             *)
HomeCurrent ==
  \A b \in Home :
    \/ disk[b] >= ghost.durable[b]
    \/ Pending /\ \E k \in 1 .. Len(Oldest.d.homes) :
         Oldest.d.homes[k] = b /\ (pc \in {"home", "replay"} => k > seg.i)

CacheCurrent ==
  \A b \in Home :
    /\ InUse => cache[b] >= ghost.durable[b]
    /\ fs = "mounting" => cache[b] = disk[b]

(* A commit block that replay could accept belongs to the last transaction  *)
(* committed, and there is no other one like it.                            *)
CommitsCurrent ==
  \A p \in RingPos : Fresh(ring, ctl.ckpt, p) =>
    /\ Current(ghost.durable, ring[p].of)
    /\ Pending => p = Oldest.d.commit
    /\ \A q \in RingPos : Fresh(ring, ctl.ckpt, q) => q = p

CommitsBehind ==
  ctl.state = "IDLE" /\ ctl.active = 0 /\ ctl.ckpt = ctl.last => NoneAfter(ring, ctl.ckpt)

(* A commit block that is younger than the control block was written for it.*)
Ahead(r, c, p) ==
  /\ r[p].of.commit = p
  /\ c.tail = r[p].pos /\ c.head = SegmentEnd(r[p].of)
  /\ Placed(c.tail, r[p].of)
  /\ Readable(r, c.tail, c.ckpt) => r[c.tail] = r[p].of
CommitsAhead ==
  ctl.state # "IDLE" => \A p \in RingPos : Fresh(ring, ctl.last, p) => Ahead(ring, ctl, p)

(* A commit whose outcome is unknown and that did not reach the device. *)
Fenced ==
  /\ pc \notin TransactionPC
  /\ j.ckpt = j.seq /\ j.active = j.seq + 1
  /\ ring[j.tail].t = "descriptor" /\ ring[j.tail].seq = j.active

(* The journal fields of a mounted volume and its media. *)
Runtime ==
  InUse =>
    /\ ctl.last = j.seq /\ ctl.ckpt <= j.ckpt
    /\ \A p \in RingPos : Fresh(ring, j.ckpt, p) => Pending /\ p = Oldest.d.commit
    /\ ~Pending /\ j.active = 0 => j.ckpt = j.seq /\ j.tail = j.head
    /\ ~Pending /\ pc \notin WritePC => j.tail = j.head \/ Fenced
    /\ pc = "home" => Pending /\ seg.d = Oldest.d /\ seg.i <= Len(seg.d.homes)
    /\ pc \in {"advanced", "drained"} => j.tail = j.head
    /\ pc \in UncommittedPC =>
         j.active = j.seq + 1 /\ j.ckpt = j.seq /\ ghost.tid \in 1 .. MaxTxn
    /\ pc \in {"running", "barrier", "commit"} => j.tail = j.head

(* What the running transaction wrote is in the cache, and recorded. *)
Running ==
  pc \in UncommittedPC =>
    /\ Len(j.homes) <= PayloadCapacity
    /\ \A b \in ghost.wrote[ghost.tid] :
         cache[b] = ghost.tid /\ (~j.err => \E k \in 1 .. Len(j.homes) : j.homes[k] = b)

(* The segment a commit is writing. *)
Writing ==
  pc \in WritePC =>
    /\ Placed(seg.pos, seg.d) /\ seg.d.homes = j.homes /\ seg.d.seq = j.active
    /\ j.active = j.seq + 1
    /\ j.tail = seg.pos /\ j.head = SegmentEnd(seg.d) /\ seg.head = seg.tail
    /\ ~j.err /\ seg.i = Len(seg.d.sums) /\ seg.i <= Len(j.homes)
    /\ \A k \in 1 .. seg.i :
         /\ ring[seg.d.payload + k - 1] = Payload(seg.d.sums[k])
         /\ j.homes[k] \in Home => seg.d.sums[k] = cache[j.homes[k]]
    /\ pc # "payload" => seg.i = Len(j.homes) /\ ring[seg.pos] = seg.d
    /\ pc \in {"commit_block", "committed"} =>
         /\ ctl.state = "PREPARED" /\ ctl.ckpt = j.ckpt
         /\ ctl.tail = j.tail /\ ctl.head = j.head
    /\ pc = "committed" => Pending /\ Oldest = [pos |-> seg.pos, d |-> seg.d]

(* Transactions are numbered in the order in which they begin. *)
Ages ==
  /\ ghost.tid \in 0 .. MaxTxn
  /\ \A b \in Home : ghost.durable[b] <= ghost.tid
  /\ \A t \in 1 .. MaxTxn : t > ghost.tid => ghost.wrote[t] = {}

(* replay_ring before it has accepted a segment, and after. *)
ScanStart ==
  /\ seg.pos = IF ctl.state = "IDLE" THEN ctl.head ELSE ctl.tail
  /\ seg.prev = ctl.ckpt /\ seg.last = ctl.last
  /\ ctl.state = "IDLE" => ctl.active = 0 /\ ctl.ckpt = ctl.last
ScanDone ==
  /\ ctl.state # "IDLE" /\ seg.prev = seg.last /\ seg.prev > ctl.ckpt
  /\ NoneAfter(ring, seg.last)
  /\ \A b \in Home : disk[b] >= ghost.durable[b]
  /\ Pending => seg.pos = seg.head

Replaying ==
  /\ pc \in {"scan", "replay"} => seg.head = ctl.head
  /\ pc = "scan" => ScanStart \/ ScanDone
  /\ pc = "replay" =>
       /\ ctl.state # "IDLE" /\ seg.d.seq > ctl.ckpt /\ NoneAfter(ring, seg.d.seq)
       /\ Current(ghost.durable, seg.d) /\ seg.i <= Len(seg.d.homes)
       /\ Pending => seg.d = Oldest.d
  /\ pc \in ResetPC => j.seq = j.ckpt /\ NoneAfter(ring, j.ckpt)

(* The log that the control block c points to can be read: an uncommitted   *)
(* segment or an intact one, and nothing after it.                          *)
LogReadable(r, c) ==
  LET d == r[c.tail]
  IN /\ Readable(r, c.tail, c.ckpt) /\ SegmentEnd(d) = c.head
     /\ Flagged(r, d.commit) /\ r[d.commit].of.seq = d.seq =>
          Stored(r, [pos |-> c.tail, d |-> d])

(* Without failed writes and interrupted resets. *)
Smooth ==
  count.faults = 0 /\ ~ghost.torn =>
    /\ ~ghost.euclean
    /\ ctl.state = "IDLE" => ctl.active = 0 /\ ctl.ckpt = ctl.last
    /\ ctl.state # "IDLE" /\ pc \notin {"reset_commit", "reset_control"} => LogReadable(ring, ctl)
    /\ InUse /\ pc \notin TransactionPC => j.active = 0
    /\ InUse /\ ~Pending /\ pc \notin {"commit_block", "advanced", "drained"} =>
         ctl.state = "IDLE"
    /\ pc = "scan" => seg.pos = seg.head \/ (seg.pos = ctl.tail /\ seg.prev = ctl.ckpt)
    /\ pc = "replay" => SegmentEnd(seg.d) = ctl.head

(* The inductive invariant, beside IInv. *)
DInv ==
  /\ PendingLog /\ HomeCurrent /\ CacheCurrent
  /\ CommitsCurrent /\ CommitsBehind /\ CommitsAhead
  /\ Runtime /\ Running /\ Writing /\ Ages /\ Replaying /\ Smooth


USE DEF UncommittedPC
-----------------------------------------------------------------------------
(* Types of what the invariant compares. *)
LEMMA RingNumbers ==
  /\ RingStart = 1 /\ RingEnd \in Nat /\ RingEnd >= 4 /\ RingPos = 1 .. (RingEnd - 1)
  /\ PayloadCapacity \in Nat
BY JournalAssumption DEF RingStart, RingEnd, RingPos, PayloadCapacity

LEMMA RuntimeNumbers ==
  ASSUME IInv
  PROVE  /\ j.seq \in Nat /\ j.active \in Nat /\ j.ckpt \in Nat
         /\ j.head \in Nat /\ j.tail \in Nat
BY DEF IInv, TypeOK, RuntimeType

LEMMA RuntimeHomes ==
  ASSUME IInv
  PROVE  j.homes \in Seq(Block) /\ j.err \in BOOLEAN
BY DEF IInv, TypeOK, RuntimeType

LEMMA ControlNumbers ==
  ASSUME IInv
  PROVE  /\ ctl.last \in Nat /\ ctl.ckpt \in Nat /\ ctl.active \in Nat
         /\ ctl.head \in RingPos /\ ctl.tail \in RingPos
         /\ ctl.state = "IDLE" => ctl.head = ctl.tail
<1>1. ctl.last \in Nat /\ ctl.ckpt \in Nat /\ ctl.active \in Nat
  BY DEF IInv, TypeOK, ControlType
<1>2. /\ ctl.head \in RingPos /\ ctl.tail \in RingPos
      /\ ctl.state = "IDLE" => ctl.head = ctl.tail
  BY DEF IInv, RingValid
<1>. QED  BY <1>1, <1>2

LEMMA LocalNumbers ==
  ASSUME IInv
  PROVE  /\ seg.i \in Nat /\ seg.pos \in Nat /\ seg.prev \in Nat /\ seg.last \in Nat
         /\ seg.head \in Nat /\ seg.tail \in Nat
BY DEF IInv, TypeOK, LocalsType

LEMMA GhostNumbers ==
  ASSUME IInv
  PROVE  /\ ghost.tid \in Nat /\ MaxTxn \in Nat
         /\ \A b \in Home : ghost.durable[b] \in Nat
         /\ \A t \in 1 .. MaxTxn : ghost.wrote[t] \subseteq Home
BY RingAssumption DEF IInv, TypeOK, GhostType

LEMMA HomeNumbers ==
  ASSUME IInv
  PROVE  \A b \in Home : b \in Block /\ cache[b] \in Nat /\ disk[b] \in Nat
BY DEF IInv, TypeOK, Block

LEMMA OldestType ==
  ASSUME IInv, Pending
  PROVE  /\ Oldest \in [pos : Nat, d : DescriptorType] /\ Oldest.pos \in Nat
         /\ Oldest.d \in DescriptorType /\ Oldest.d.seq \in Nat
         /\ Oldest.d.payload \in Nat /\ Oldest.d.commit \in Nat
         /\ Oldest.d.homes \in Seq(Block) /\ Oldest.d.sums \in Seq(Nat)
<1>1. ghost.pend \in Seq([pos : Nat, d : DescriptorType])
  BY DEF IInv, TypeOK, GhostType
<1>2. ghost.pend # <<>> /\ Oldest = ghost.pend[1]
  BY DEF Pending, Oldest
<1>3. Oldest \in [pos : Nat, d : DescriptorType]
  <2>. DEFINE T == [pos : Nat, d : DescriptorType]
  <2>1. ghost.pend \in Seq(T)
    BY <1>1
  <2>2. Len(ghost.pend) \in Nat /\ Len(ghost.pend) # 0
    BY <1>2, <2>1, EmptySeq
  <2>3. 1 \in 1 .. Len(ghost.pend)
    BY <2>2
  <2>. HIDE DEF T
  <2>4. ghost.pend[1] \in T
    BY <2>1, <2>3, ElementOfSeq
  <2>. QED  BY <1>2, <2>4 DEF T
<1>. QED  BY <1>3 DEF DescriptorType

LEMMA FlaggedType ==
  ASSUME IInv, NEW p, Flagged(ring, p)
  PROVE  /\ p \in RingPos /\ ring[p].of \in DescriptorType /\ ring[p].of.seq \in Nat
         /\ ring[p].pos \in Nat /\ ring[p] = Commit(ring[p].of, TRUE, ring[p].pos)
<1>1. ring[p] \in [t : {"commit"}, of : DescriptorType, flag : BOOLEAN, pos : Nat]
  BY DEF Flagged, IInv, TypeOK, SlotType, None, DescriptorType
<1>2. ring[p].of \in DescriptorType /\ ring[p].pos \in Nat
  BY <1>1
<1>. QED  BY <1>1, <1>2 DEF Flagged, Commit, DescriptorType

LEMMA FreshFloor ==
  ASSUME IInv, NEW p, NEW m \in Nat, NEW n \in Nat, m <= n, Fresh(ring, n, p)
  PROVE  Fresh(ring, m, p)
<1>1. ring[p].of.seq \in Nat /\ ring[p].of.seq > n
  BY FlaggedType DEF Fresh
<1>2. ring[p].of.seq > m
  BY <1>1
<1>. QED  BY <1>2 DEF Fresh

(* Steps that leave the ring, the control block and the history of commits. *)
LEMMA LogFrozen ==
  ASSUME ring' = ring, ctl' = ctl, ghost'.durable = ghost.durable, ghost'.pend = ghost.pend,
         CommitsCurrent, CommitsBehind, CommitsAhead
  PROVE  CommitsCurrent' /\ CommitsBehind' /\ CommitsAhead'
<1>1. CommitsCurrent'
  BY DEF CommitsCurrent, Pending, Oldest
<1>2. CommitsBehind'
  BY DEF CommitsBehind
<1>3. CommitsAhead'
  BY DEF CommitsAhead
<1>. QED  BY <1>1, <1>2, <1>3

(* What recording a block leaves alone and what it adds. *)
LEMMA RecordFacts ==
  ASSUME NEW r \in RuntimeType, NEW b \in Block, Len(r.homes) <= PayloadCapacity
  PROVE  /\ Record(r, b).seq = r.seq /\ Record(r, b).active = r.active
         /\ Record(r, b).ckpt = r.ckpt /\ Record(r, b).head = r.head
         /\ Record(r, b).tail = r.tail
         /\ Record(r, b).homes \in Seq(Block) /\ Len(Record(r, b).homes) <= PayloadCapacity
         /\ \A k \in 1 .. Len(r.homes) :
              k \in 1 .. Len(Record(r, b).homes) /\ Record(r, b).homes[k] = r.homes[k]
         /\ ~Record(r, b).err => /\ ~r.err
                                 /\ \E k \in 1 .. Len(Record(r, b).homes) :
                                      Record(r, b).homes[k] = b
<1>1. r.homes \in Seq(Block) /\ Len(r.homes) \in Nat /\ r.err \in BOOLEAN
  BY DEF RuntimeType
<1>2. CASE r.err \/ b \in {r.homes[i] : i \in 1 .. Len(r.homes)}
  <2>1. Record(r, b) = r
    BY <1>2 DEF Record
  <2>. QED  BY <1>1, <1>2, <2>1
<1>3. CASE ~(r.err \/ b \in {r.homes[i] : i \in 1 .. Len(r.homes)})
           /\ Len(r.homes) >= PayloadCapacity
  <2>1. Record(r, b) = [r EXCEPT !.err = TRUE]
    BY <1>3 DEF Record
  <2>2. /\ Record(r, b).seq = r.seq /\ Record(r, b).active = r.active
        /\ Record(r, b).ckpt = r.ckpt /\ Record(r, b).head = r.head
        /\ Record(r, b).tail = r.tail /\ Record(r, b).homes = r.homes /\ Record(r, b).err
    BY <2>1 DEF RuntimeType
  <2>. QED  BY <1>1, <2>2
<1>4. CASE ~(r.err \/ b \in {r.homes[i] : i \in 1 .. Len(r.homes)})
           /\ ~(Len(r.homes) >= PayloadCapacity)
  <2>1. Record(r, b) = [r EXCEPT !.homes = Append(@, b)]
    BY <1>4 DEF Record
  <2>2. /\ Record(r, b).seq = r.seq /\ Record(r, b).active = r.active
        /\ Record(r, b).ckpt = r.ckpt /\ Record(r, b).head = r.head
        /\ Record(r, b).tail = r.tail /\ Record(r, b).homes = Append(r.homes, b)
        /\ Record(r, b).err = r.err
    BY <2>1 DEF RuntimeType
  <2>3. /\ Append(r.homes, b) \in Seq(Block)
        /\ Len(Append(r.homes, b)) = Len(r.homes) + 1
        /\ Append(r.homes, b)[Len(r.homes) + 1] = b
        /\ \A k \in 1 .. Len(r.homes) : Append(r.homes, b)[k] = r.homes[k]
    BY <1>1
  <2>4. /\ Len(r.homes) + 1 <= PayloadCapacity
        /\ \A k \in 1 .. Len(r.homes) : k \in 1 .. Len(r.homes) + 1
    BY <1>1, <1>4, RingNumbers
  <2>5. Len(r.homes) + 1 \in 1 .. Len(r.homes) + 1
    BY <1>1
  <2>. QED  BY <1>4, <2>2, <2>3, <2>4, <2>5
<1>. QED  BY <1>2, <1>3, <1>4

(* While a transaction writes nothing is pending, and no commit block in the *)
(* ring is younger than the checkpoint.                                      *)
LEMMA InTransaction ==
  ASSUME IInv, DInv, pc \in UncommittedPC
  PROVE  /\ fs = "up" /\ ghost.pend = <<>>
         /\ ctl.last = j.seq /\ j.ckpt = j.seq /\ j.active = j.seq + 1 /\ ctl.ckpt <= j.ckpt
         /\ NoneAfter(ring, j.seq) /\ ghost.tid \in 1 .. MaxTxn
<1>1. fs = "up"
  BY DEF IInv, HolderOK
<1>2. ghost.pend = <<>>
  BY DEF DInv, PendingLog, Pending
<1>. QED  BY <1>1, <1>2 DEF DInv, Runtime, InUse, Pending, NoneAfter

(* Steps that write no commit block with the flag set. *)
LEMMA CommitsRemoved ==
  ASSUME ctl' = ctl, ghost'.durable = ghost.durable, ghost'.pend = ghost.pend,
         \A p \in RingPos : Flagged(ring', p) => Flagged(ring, p) /\ ring'[p] = ring[p]
  PROVE  /\ CommitsCurrent => CommitsCurrent'
         /\ CommitsBehind => CommitsBehind'
         /\ \A n : NoneAfter(ring, n) => NoneAfter(ring', n)
         /\ NoneAfter(ring, ctl.last) => CommitsAhead'
<1>1. \A n : \A p \in RingPos : Fresh(ring', n, p) => Fresh(ring, n, p) /\ ring'[p] = ring[p]
  BY DEF Fresh
<1>2. CommitsCurrent => CommitsCurrent'
  BY <1>1 DEF CommitsCurrent, Pending, Oldest
<1>3. \A n : NoneAfter(ring, n) => NoneAfter(ring', n)
  BY <1>1 DEF NoneAfter
<1>4. CommitsBehind => CommitsBehind'
  BY <1>3 DEF CommitsBehind
<1>5. NoneAfter(ring, ctl.last) => CommitsAhead'
  BY <1>1 DEF NoneAfter, CommitsAhead
<1>. QED  BY <1>2, <1>3, <1>4, <1>5

(* What a commit writes keeps inside its segment. *)
LEMMA PlacedFacts ==
  ASSUME NEW d \in DescriptorType, NEW pos, Placed(pos, d)
  PROVE  /\ pos \in RingPos /\ d.commit \in RingPos /\ pos # d.commit
         /\ pos < d.payload /\ d.payload <= d.commit
         /\ Len(d.homes) \in Nat /\ d.commit = d.payload + Len(d.homes) /\ d.payload \in Nat
         /\ \A i \in 1 .. Len(d.homes) : /\ d.payload + i - 1 \in RingPos
                                        /\ d.payload + i - 1 # pos
                                        /\ d.payload + i - 1 # d.commit
         /\ SegmentEnd(d) \in RingPos
<1>1. /\ pos \in RingPos /\ d.commit \in RingPos /\ d.homes \in Seq(Block) /\ d.payload \in Nat
      /\ d.payload = pos + 1 /\ d.commit = d.payload + Len(d.homes)
  BY DEF Placed, DescriptorType
<1>2. Len(d.homes) \in Nat
  BY <1>1
<1>. DEFINE n == Len(d.homes)
            c == d.commit
            p == d.payload
<1>3. /\ n \in Nat /\ pos \in 1 .. (RingEnd - 1) /\ c \in 1 .. (RingEnd - 1) /\ p = pos + 1
      /\ c = p + n /\ RingEnd \in Nat /\ RingEnd >= 4
  BY <1>1, <1>2, RingNumbers
<1>. HIDE DEF n, c, p
<1>4. Wrap(c + 1) \in 1 .. (RingEnd - 1)
  BY <1>3 DEF Wrap, RingStart
<1>5. /\ pos < p /\ p <= c /\ p \in Nat /\ pos # c
      /\ \A i \in 1 .. n : p + i - 1 \in 1 .. (RingEnd - 1) /\ p + i - 1 # pos /\ p + i - 1 # c
  BY <1>3
<1>. QED  BY <1>1, <1>3, <1>4, <1>5, RingNumbers DEF n, c, p, SegmentEnd

(* The commit point: what the step that writes the commit block establishes, *)
(* whether or not the code learns that it was written.                       *)
LEMMA CommitPoint ==
  ASSUME IInv, DInv, pc = "commit_block", CommitBlockWritten
  PROVE  /\ ghost'.pend = <<[pos |-> seg.pos, d |-> seg.d]>> /\ Len(ghost'.pend) = 1
         /\ ghost'.pend[1].pos = seg.pos /\ ghost'.pend[1].d = seg.d
         /\ ghost'.tid = ghost.tid /\ ghost'.wrote = ghost.wrote
         /\ ghost'.torn = ghost.torn /\ ghost'.euclean = ghost.euclean
         /\ ring'[seg.pos] = seg.d
         /\ ring'[seg.d.commit] = Commit(seg.d, TRUE, seg.pos)
         /\ \A i \in 1 .. Len(seg.d.homes) : ring'[seg.d.payload + i - 1] = Payload(seg.d.sums[i])
         /\ Current(ghost'.durable, seg.d)
         /\ \A p : Fresh(ring', j.seq, p) => p = seg.d.commit
         /\ \A p : Fresh(ring', ctl.ckpt, p) => p = seg.d.commit
         /\ \A b \in Home : ghost'.durable[b] <= cache[b] /\ ghost'.durable[b] <= ghost.tid
         /\ \A b \in Home : \/ disk[b] >= ghost'.durable[b]
                            \/ \E k \in 1 .. Len(seg.d.homes) : seg.d.homes[k] = b
<1>1. PendingLog /\ HomeCurrent /\ CacheCurrent /\ Runtime /\ Running /\ Writing /\ Ages
  BY DEF DInv
<1>2. /\ fs = "up" /\ ghost.pend = <<>> /\ ctl.ckpt = j.seq /\ j.ckpt = j.seq
      /\ NoneAfter(ring, j.seq) /\ ghost.tid \in 1 .. MaxTxn
  BY <1>1, InTransaction DEF Writing
<1>3. /\ Placed(seg.pos, seg.d) /\ seg.d \in DescriptorType /\ seg.d.homes = j.homes
      /\ seg.i = Len(seg.d.homes) /\ ring[seg.pos] = seg.d /\ ~j.err
  BY <1>1 DEF Writing, IInv, SegmentOK
<1>4. ring' = [ring EXCEPT ![seg.d.commit] = Commit(seg.d, TRUE, seg.pos)]
  BY DEF CommitBlockWritten
<1>5. seg.d.commit \in RingPos /\ seg.pos \in RingPos /\ seg.pos # seg.d.commit
  BY <1>3, PlacedFacts
<1>6. /\ ring'[seg.d.commit] = Commit(seg.d, TRUE, seg.pos)
      /\ \A p \in RingPos : p # seg.d.commit => ring'[p] = ring[p]
  BY <1>4, <1>5 DEF IInv, TypeOK
<1>. DEFINE dur == [b \in Home |-> IF b \in ghost.wrote[ghost.tid] THEN ghost.tid
                                   ELSE ghost.durable[b]]
            new == [pos |-> seg.pos, d |-> seg.d]
<1>7. /\ ghost'.durable = dur /\ ghost'.pend = Append(ghost.pend, new)
      /\ ghost'.tid = ghost.tid /\ ghost'.wrote = ghost.wrote
      /\ ghost'.torn = ghost.torn /\ ghost'.euclean = ghost.euclean
  BY DEF CommitBlockWritten, IInv, TypeOK, GhostType
<1>8. ghost'.pend = <<new>> /\ Len(<<new>>) = 1 /\ <<new>>[1] = new
  BY <1>2, <1>7
<1>9. \A b \in Home : /\ b \in ghost.wrote[ghost.tid] => dur[b] = ghost.tid
                      /\ b \notin ghost.wrote[ghost.tid] => dur[b] = ghost.durable[b]
  OBVIOUS
<1>10. \A b \in Home : dur[b] <= cache[b] /\ dur[b] <= ghost.tid
  <2>1. \A b \in ghost.wrote[ghost.tid] : cache[b] = ghost.tid
    BY <1>1 DEF Running
  <2>2. \A b \in Home : ghost.durable[b] <= cache[b] /\ ghost.durable[b] <= ghost.tid
    BY <1>1, <1>2, GhostNumbers, HomeNumbers DEF CacheCurrent, InUse, Ages
  <2>. HIDE DEF dur
  <2>. QED  BY <1>9, <2>1, <2>2, GhostNumbers
<1>11. \A k \in 1 .. Len(seg.d.homes) :
         /\ ring[seg.d.payload + k - 1] = Payload(seg.d.sums[k])
         /\ seg.d.homes[k] \in Home => seg.d.sums[k] = cache[seg.d.homes[k]]
  BY <1>1, <1>3 DEF Writing
<1>12. Current(dur, seg.d)
  <2>. HIDE DEF dur
  <2>1. \A b \in Home : cache[b] >= dur[b]
    <3>1. \A b \in Home : cache[b] \in Nat /\ dur[b] \in Nat
      BY <1>9, <1>2, GhostNumbers, HomeNumbers
    <3>. QED  BY <1>10, <3>1
  <2>. QED  BY <1>11, <2>1 DEF Current
<1>13. \A i \in 1 .. Len(seg.d.homes) : ring'[seg.d.payload + i - 1] = Payload(seg.d.sums[i])
  BY <1>3, <1>6, <1>11, PlacedFacts
<1>14. \A p : Fresh(ring', j.seq, p) => p = seg.d.commit
  BY <1>2, <1>6 DEF NoneAfter, Fresh, Flagged
<1>15. \A b \in Home : disk[b] >= dur[b] \/ \E k \in 1 .. Len(seg.d.homes) : seg.d.homes[k] = b
  <2>1. \A b \in ghost.wrote[ghost.tid] : \E k \in 1 .. Len(seg.d.homes) : seg.d.homes[k] = b
    BY <1>1, <1>3 DEF Running
  <2>2. \A b \in Home : disk[b] >= ghost.durable[b]
    BY <1>1, <1>2 DEF HomeCurrent, Pending
  <2>. HIDE DEF dur
  <2>. QED  BY <1>9, <2>1, <2>2
<1>16. ring'[seg.pos] = seg.d
  BY <1>3, <1>5, <1>6
<1>. HIDE DEF dur
<1>. QED
  BY <1>2, <1>6, <1>7, <1>8, <1>10, <1>12, <1>13, <1>14, <1>15, <1>16 DEF new

(* A checkpointed or replayed image is not older than what was committed. *)
LEMMA HomeWrittenFacts ==
  ASSUME IInv, pc \in {"home", "replay"}, HomeWritten, PayloadsValid(seg.d),
         seg.i < Len(seg.d.homes), Current(ghost.durable, seg.d)
  PROVE  /\ seg'.i = seg.i + 1 /\ seg'.d = seg.d /\ seg'.i <= Len(seg.d.homes)
         /\ seg'.pos = seg.pos /\ seg'.head = seg.head /\ seg'.prev = seg.prev
         /\ seg'.last = seg.last
         /\ \A c \in Home : c = seg.d.homes[seg.i + 1] =>
              /\ disk'[c] >= ghost.durable[c] /\ cache'[c] >= ghost.durable[c]
              /\ cache'[c] = disk'[c]
         /\ \A c \in Home : c # seg.d.homes[seg.i + 1] =>
              cache'[c] = cache[c] /\ disk'[c] = disk[c]
         /\ \A k \in 1 .. Len(seg.d.homes) : k > seg.i => k = seg.i + 1 \/ k > seg.i + 1
<1>. DEFINE b == seg.d.homes[seg.i + 1]
            v == ring[seg.d.payload + seg.i].val
<1>1. seg.d \in DescriptorType /\ seg.i \in Nat /\ seg.d.payload \in Nat
      /\ Len(seg.d.homes) \in Nat
  BY LocalNumbers DEF IInv, SegmentOK, DescriptorType
<1>2. /\ seg.i + 1 \in 1 .. Len(seg.d.homes)
      /\ seg.d.payload + (seg.i + 1) - 1 = seg.d.payload + seg.i
      /\ \A k \in 1 .. Len(seg.d.homes) : k > seg.i => k = seg.i + 1 \/ k > seg.i + 1
  BY <1>1
<1>3. v = seg.d.sums[seg.i + 1]
  <2>1. ring[seg.d.payload + (seg.i + 1) - 1] = Payload(seg.d.sums[seg.i + 1])
    BY <1>2 DEF PayloadsValid
  <2>. QED  BY <1>2, <2>1 DEF Payload
<1>4. b \in Home => v >= ghost.durable[b]
  BY <1>2, <1>3 DEF Current
<1>5. /\ cache' = [cache EXCEPT ![b] = v] /\ disk' = [disk EXCEPT ![b] = v]
      /\ seg' = [seg EXCEPT !.i = @ + 1]
  BY DEF HomeWritten
<1>. HIDE DEF b, v
<1>6. \A c \in Home : /\ c = b => cache'[c] = v /\ disk'[c] = v
                      /\ c # b => cache'[c] = cache[c] /\ disk'[c] = disk[c]
  BY <1>5, HomeNumbers DEF IInv, TypeOK
<1>7. /\ seg'.i = seg.i + 1 /\ seg'.d = seg.d /\ seg'.pos = seg.pos /\ seg'.head = seg.head
      /\ seg'.prev = seg.prev /\ seg'.last = seg.last
  BY <1>5 DEF IInv, TypeOK, LocalsType
<1>8. seg.i + 1 <= Len(seg.d.homes)
  BY <1>2
<1>. QED  BY <1>2, <1>4, <1>6, <1>7, <1>8 DEF b
-----------------------------------------------------------------------------
(* One lemma per action. *)


LEMMA BeginD ==
  ASSUME IInv, DInv, MaxPending = 0, Begin
  PROVE  DInv'
<1>1. /\ pc = "free" /\ fs = "up" /\ pc' = "running" /\ j.active = 0 /\ ghost.pend = <<>>
      /\ ghost.tid < MaxTxn /\ cache' = cache /\ disk' = disk /\ ring' = ring /\ ctl' = ctl
      /\ fs' = fs /\ seg' = seg /\ count' = count /\ j'.seq = j.seq /\ j'.active = j.seq + 1
      /\ j'.ckpt = j.ckpt /\ j'.head = j.head /\ j'.tail = j.tail /\ j'.homes = <<>>
      /\ ~j'.err /\ ghost'.pend = ghost.pend /\ ghost'.durable = ghost.durable
      /\ ghost'.wrote = ghost.wrote /\ ghost'.torn = ghost.torn
      /\ ghost'.euclean = ghost.euclean /\ ghost'.tid = ghost.tid + 1
  BY GhostNumbers DEF Begin, IInv, TypeOK, GhostType, ClearRuntime, RuntimeType
<1>2. PendingLog /\ HomeCurrent /\ CacheCurrent /\ CommitsCurrent /\ CommitsBehind
      /\ CommitsAhead /\ Runtime /\ Running /\ Writing /\ Ages /\ Replaying /\ Smooth
  BY DEF DInv
<1>3. CommitsCurrent' /\ CommitsBehind' /\ CommitsAhead'
  BY <1>1, <1>2, LogFrozen
<1>4. PendingLog'
  BY <1>1, <1>2 DEF PendingLog, Pending, Oldest, InUse
<1>5. HomeCurrent'
  BY <1>1, <1>2 DEF HomeCurrent, Pending, Oldest
<1>6. CacheCurrent'
  BY <1>1, <1>2 DEF CacheCurrent, InUse
<1>7. Runtime'
  BY <1>1, <1>2, RuntimeNumbers, ControlNumbers, GhostNumbers DEF Runtime, PendingLog, Fenced,
     Pending, Oldest, InUse
<1>8. Running'
  <2>1. Len(<<>>) = 0 /\ ghost'.wrote[ghost'.tid] = {}
    BY <1>1, <1>2, GhostNumbers DEF Ages
  <2>. QED  BY <1>1, <2>1, RingNumbers DEF Running
<1>9. Writing'
  BY <1>1, <1>2 DEF Writing, Pending, Oldest
<1>10. Ages'
  <2>1. \A b \in Home : ghost.durable[b] <= ghost.tid + 1
    BY <1>2, GhostNumbers DEF Ages
  <2>. QED  BY <1>1, <1>2, <2>1, GhostNumbers DEF Ages
<1>11. Replaying'
  BY <1>1, <1>2 DEF Replaying, ScanStart, ScanDone, Pending, Oldest
<1>12. Smooth'
  BY <1>1, <1>2 DEF Smooth, Pending, InUse
<1>. QED
  BY <1>3, <1>4, <1>5, <1>6, <1>7, <1>8, <1>9, <1>10, <1>11, <1>12 DEF DInv

LEMMA ModifyD ==
  ASSUME IInv, DInv, NEW b \in Home, Modify(b)
  PROVE  DInv'
<1>1. /\ pc = "running" /\ fs = "up" /\ pc' = "running"
      /\ \A c \in Home : cache'[c] = IF c = b THEN ghost.tid ELSE cache[c]
      /\ disk' = disk /\ ring' = ring /\ ctl' = ctl /\ fs' = fs /\ seg' = seg
      /\ count' = count /\ ghost'.pend = ghost.pend /\ ghost'.durable = ghost.durable
      /\ ghost'.torn = ghost.torn /\ ghost'.euclean = ghost.euclean /\ ghost'.tid = ghost.tid
  BY GhostNumbers DEF Modify, IInv, TypeOK, GhostType, Block, HolderOK
<1>2. PendingLog /\ HomeCurrent /\ CacheCurrent /\ CommitsCurrent /\ CommitsBehind
      /\ CommitsAhead /\ Runtime /\ Running /\ Writing /\ Ages /\ Replaying /\ Smooth
  BY DEF DInv
<1>3. /\ j' = Record(j, b) /\ j \in RuntimeType /\ b \in Block
      /\ \A t \in 1 .. MaxTxn :
           ghost'.wrote[t] = IF t = ghost.tid THEN ghost.wrote[t] \cup {b} ELSE ghost.wrote[t]
  BY DEF Modify, IInv, TypeOK, GhostType, Block
<1>4. /\ ghost.tid \in 1 .. MaxTxn /\ Len(j.homes) <= PayloadCapacity
      /\ \A c \in Home : ghost.durable[c] <= ghost.tid
      /\ \A c \in ghost.wrote[ghost.tid] : cache[c] = ghost.tid
      /\ \A c \in ghost.wrote[ghost.tid] : ~j.err => \E k \in 1 .. Len(j.homes) : j.homes[k] = c
      /\ ghost.wrote[ghost.tid] \subseteq Home
  BY <1>1, <1>2, GhostNumbers DEF Running, Runtime, InUse, Ages
<1>5. /\ j'.seq = j.seq /\ j'.active = j.active /\ j'.ckpt = j.ckpt
      /\ j'.head = j.head /\ j'.tail = j.tail /\ Len(j'.homes) <= PayloadCapacity
      /\ \A k \in 1 .. Len(j.homes) : k \in 1 .. Len(j'.homes) /\ j'.homes[k] = j.homes[k]
      /\ ~j'.err => ~j.err /\ \E k \in 1 .. Len(j'.homes) : j'.homes[k] = b
  BY <1>3, <1>4, RecordFacts
<1>6. ghost'.wrote[ghost.tid] = ghost.wrote[ghost.tid] \cup {b}
  BY <1>3, <1>4
<1>7. CommitsCurrent' /\ CommitsBehind' /\ CommitsAhead'
  BY <1>1, <1>2, LogFrozen
<1>8. PendingLog'
BY <1>1, <1>2, <1>5 DEF PendingLog, Pending, Oldest, InUse
<1>9. HomeCurrent'
  BY <1>1, <1>2 DEF HomeCurrent, Pending, Oldest
<1>10. CacheCurrent'
BY <1>1, <1>2, <1>4, GhostNumbers, HomeNumbers DEF CacheCurrent, InUse
<1>11. Runtime'
BY <1>1, <1>2, <1>4, <1>5 DEF Runtime, Fenced, Pending, Oldest, InUse
<1>12. Running'
  <2>1. \A c \in ghost'.wrote[ghost.tid] : cache'[c] = ghost.tid
    BY <1>1, <1>4, <1>6
  <2>2. ASSUME NEW c \in ghost'.wrote[ghost.tid], ~j'.err
        PROVE  \E k \in 1 .. Len(j'.homes) : j'.homes[k] = c
    BY <1>4, <1>5, <1>6, <2>2
  <2>. QED  BY <1>1, <1>5, <2>1, <2>2 DEF Running
<1>13. Writing'
  BY <1>1, <1>2 DEF Writing, Pending, Oldest
<1>14. Ages'
  <2>1. \A t \in 1 .. MaxTxn : t > ghost.tid => ghost'.wrote[t] = {}
    <3>. TAKE t \in 1 .. MaxTxn
    <3>. HAVE t > ghost.tid
    <3>1. t # ghost.tid /\ ghost.wrote[t] = {}
      BY <1>2, <1>4 DEF Ages
    <3>. QED  BY <1>3, <3>1
  <2>. QED  BY <1>1, <1>2, <2>1 DEF Ages
<1>15. Replaying'
  BY <1>1, <1>2 DEF Replaying, ScanStart, ScanDone, Pending, Oldest
<1>16. Smooth'
  BY <1>1, <1>2 DEF Smooth, Pending, InUse
<1>. QED
  BY <1>7, <1>8, <1>9, <1>10, <1>11, <1>12, <1>13, <1>14, <1>15, <1>16 DEF DInv

LEMMA AbortD ==
  ASSUME IInv, DInv, Abort
  PROVE  DInv'
<1>1. /\ pc = "running" /\ fs = "up" /\ pc' = "free" /\ cache' = cache /\ disk' = disk
      /\ ring' = ring /\ ctl' = ctl /\ fs' = fs /\ seg' = seg /\ ghost' = ghost
      /\ count' = count /\ j'.seq = j.seq /\ j'.active = 0 /\ j'.ckpt = j.ckpt
      /\ j'.head = j.head /\ j'.tail = j.tail /\ j'.homes = <<>> /\ ~j'.err
  BY GhostNumbers DEF Abort, IInv, TypeOK, ClearRuntime, RuntimeType, HolderOK
<1>2. PendingLog /\ HomeCurrent /\ CacheCurrent /\ CommitsCurrent /\ CommitsBehind
      /\ CommitsAhead /\ Runtime /\ Running /\ Writing /\ Ages /\ Replaying /\ Smooth
  BY DEF DInv
<1>3. CommitsCurrent' /\ CommitsBehind' /\ CommitsAhead'
  BY <1>1, <1>2, LogFrozen
<1>4. PendingLog'
  BY <1>1, <1>2 DEF PendingLog, Pending, Oldest, InUse
<1>5. HomeCurrent'
  BY <1>1, <1>2 DEF HomeCurrent, Pending, Oldest
<1>6. CacheCurrent'
  BY <1>1, <1>2 DEF CacheCurrent, InUse
<1>7. Runtime'
  BY <1>1, <1>2 DEF Runtime, Fenced, Pending, Oldest, InUse
<1>8. Running'
  BY <1>1, <1>2 DEF Running
<1>9. Writing'
  BY <1>1, <1>2 DEF Writing, Pending, Oldest
<1>10. Ages'
  BY <1>1, <1>2 DEF Ages
<1>11. Replaying'
  BY <1>1, <1>2 DEF Replaying, ScanStart, ScanDone, Pending, Oldest
<1>12. Smooth'
  BY <1>1, <1>2 DEF Smooth, Pending, InUse
<1>. QED
  BY <1>3, <1>4, <1>5, <1>6, <1>7, <1>8, <1>9, <1>10, <1>11, <1>12 DEF DInv

LEMMA StartCommitD ==
  ASSUME IInv, DInv, StartCommit
  PROVE  DInv'
<1>1. /\ pc = "running" /\ fs = "up" /\ pc' = "barrier" /\ cache' = cache /\ disk' = disk
      /\ ring' = ring /\ ctl' = ctl /\ j' = j /\ fs' = fs /\ seg' = seg /\ ghost' = ghost
      /\ count' = count
  BY GhostNumbers DEF StartCommit, IInv, TypeOK, HolderOK
<1>2. PendingLog /\ HomeCurrent /\ CacheCurrent /\ CommitsCurrent /\ CommitsBehind
      /\ CommitsAhead /\ Runtime /\ Running /\ Writing /\ Ages /\ Replaying /\ Smooth
  BY DEF DInv
<1>3. CommitsCurrent' /\ CommitsBehind' /\ CommitsAhead'
  BY <1>1, <1>2, LogFrozen
<1>4. PendingLog'
  BY <1>1, <1>2 DEF PendingLog, Pending, Oldest, InUse
<1>5. HomeCurrent'
  BY <1>1, <1>2 DEF HomeCurrent, Pending, Oldest
<1>6. CacheCurrent'
  BY <1>1, <1>2 DEF CacheCurrent, InUse
<1>7. Runtime'
  BY <1>1, <1>2 DEF Runtime, Fenced, Pending, Oldest, InUse
<1>8. Running'
  BY <1>1, <1>2 DEF Running
<1>9. Writing'
  BY <1>1, <1>2 DEF Writing, Pending, Oldest
<1>10. Ages'
  BY <1>1, <1>2 DEF Ages
<1>11. Replaying'
  BY <1>1, <1>2 DEF Replaying, ScanStart, ScanDone, Pending, Oldest
<1>12. Smooth'
  BY <1>1, <1>2 DEF Smooth, Pending, InUse
<1>. QED
  BY <1>3, <1>4, <1>5, <1>6, <1>7, <1>8, <1>9, <1>10, <1>11, <1>12 DEF DInv

LEMMA BarrierDoneD ==
  ASSUME IInv, DInv, BarrierDone
  PROVE  DInv'
<1>1. /\ pc = "barrier" /\ fs = "up" /\ pc' = "commit" /\ cache' = cache /\ disk' = disk
      /\ ring' = ring /\ ctl' = ctl /\ j' = j /\ fs' = fs /\ seg' = seg /\ ghost' = ghost
      /\ count' = count
  BY GhostNumbers DEF BarrierDone, IInv, TypeOK, HolderOK
<1>2. PendingLog /\ HomeCurrent /\ CacheCurrent /\ CommitsCurrent /\ CommitsBehind
      /\ CommitsAhead /\ Runtime /\ Running /\ Writing /\ Ages /\ Replaying /\ Smooth
  BY DEF DInv
<1>3. CommitsCurrent' /\ CommitsBehind' /\ CommitsAhead'
  BY <1>1, <1>2, LogFrozen
<1>4. PendingLog'
  BY <1>1, <1>2 DEF PendingLog, Pending, Oldest, InUse
<1>5. HomeCurrent'
  BY <1>1, <1>2 DEF HomeCurrent, Pending, Oldest
<1>6. CacheCurrent'
  BY <1>1, <1>2 DEF CacheCurrent, InUse
<1>7. Runtime'
  BY <1>1, <1>2 DEF Runtime, Fenced, Pending, Oldest, InUse
<1>8. Running'
  BY <1>1, <1>2 DEF Running
<1>9. Writing'
  BY <1>1, <1>2 DEF Writing, Pending, Oldest
<1>10. Ages'
  BY <1>1, <1>2 DEF Ages
<1>11. Replaying'
  BY <1>1, <1>2 DEF Replaying, ScanStart, ScanDone, Pending, Oldest
<1>12. Smooth'
  BY <1>1, <1>2 DEF Smooth, Pending, InUse
<1>. QED
  BY <1>3, <1>4, <1>5, <1>6, <1>7, <1>8, <1>9, <1>10, <1>11, <1>12 DEF DInv

LEMMA CommitRefusedD ==
  ASSUME IInv, DInv, CommitRefused
  PROVE  DInv'
<1>1. /\ pc = "commit" /\ fs = "up" /\ pc' = "free" /\ cache' = cache /\ disk' = disk
      /\ ring' = ring /\ ctl' = ctl /\ fs' = fs /\ seg' = seg /\ ghost' = ghost
      /\ count' = count /\ j'.seq = j.seq /\ j'.active = 0 /\ j'.ckpt = j.ckpt
      /\ j'.head = j.head /\ j'.tail = j.tail /\ j'.homes = <<>> /\ ~j'.err
  BY GhostNumbers DEF CommitRefused, IInv, TypeOK, ClearRuntime, RuntimeType, HolderOK
<1>2. PendingLog /\ HomeCurrent /\ CacheCurrent /\ CommitsCurrent /\ CommitsBehind
      /\ CommitsAhead /\ Runtime /\ Running /\ Writing /\ Ages /\ Replaying /\ Smooth
  BY DEF DInv
<1>3. CommitsCurrent' /\ CommitsBehind' /\ CommitsAhead'
  BY <1>1, <1>2, LogFrozen
<1>4. PendingLog'
  BY <1>1, <1>2 DEF PendingLog, Pending, Oldest, InUse
<1>5. HomeCurrent'
  BY <1>1, <1>2 DEF HomeCurrent, Pending, Oldest
<1>6. CacheCurrent'
  BY <1>1, <1>2 DEF CacheCurrent, InUse
<1>7. Runtime'
  BY <1>1, <1>2 DEF Runtime, Fenced, Pending, Oldest, InUse
<1>8. Running'
  BY <1>1, <1>2 DEF Running
<1>9. Writing'
  BY <1>1, <1>2 DEF Writing, Pending, Oldest
<1>10. Ages'
  BY <1>1, <1>2 DEF Ages
<1>11. Replaying'
  BY <1>1, <1>2 DEF Replaying, ScanStart, ScanDone, Pending, Oldest
<1>12. Smooth'
  BY <1>1, <1>2 DEF Smooth, Pending, InUse
<1>. QED
  BY <1>3, <1>4, <1>5, <1>6, <1>7, <1>8, <1>9, <1>10, <1>11, <1>12 DEF DInv

LEMMA CommitNoSpaceD ==
  ASSUME IInv, DInv, CommitNoSpace
  PROVE  DInv'
<1>1. /\ pc = "commit" /\ fs = "up" /\ pc' = "free"
      /\ \A b \in Home : cache'[b] = cache[b]
      /\ disk' = disk /\ ring' = ring /\ ctl' = ctl /\ fs' = fs /\ seg' = seg
      /\ ghost' = ghost /\ count' = count /\ j'.seq = j.seq /\ j'.active = 0
      /\ j'.ckpt = j.ckpt /\ j'.head = j.head /\ j'.tail = j.tail /\ j'.homes = <<>>
      /\ ~j'.err
  BY RingAssumption DEF CommitNoSpace, IInv, TypeOK, ClearRuntime, RuntimeType, HolderOK, Block
<1>2. PendingLog /\ HomeCurrent /\ CacheCurrent /\ CommitsCurrent /\ CommitsBehind
      /\ CommitsAhead /\ Runtime /\ Running /\ Writing /\ Ages /\ Replaying /\ Smooth
  BY DEF DInv
<1>3. CommitsCurrent' /\ CommitsBehind' /\ CommitsAhead'
  BY <1>1, <1>2, LogFrozen
<1>4. PendingLog'
  BY <1>1, <1>2 DEF PendingLog, Pending, Oldest, InUse
<1>5. HomeCurrent'
  BY <1>1, <1>2 DEF HomeCurrent, Pending, Oldest
<1>6. CacheCurrent'
BY <1>1, <1>2 DEF CacheCurrent, InUse
<1>7. Runtime'
  BY <1>1, <1>2 DEF Runtime, Fenced, Pending, Oldest, InUse
<1>8. Running'
BY <1>1 DEF Running
<1>9. Writing'
  BY <1>1, <1>2 DEF Writing, Pending, Oldest
<1>10. Ages'
  BY <1>1, <1>2 DEF Ages
<1>11. Replaying'
  BY <1>1, <1>2 DEF Replaying, ScanStart, ScanDone, Pending, Oldest
<1>12. Smooth'
  BY <1>1, <1>2 DEF Smooth, Pending, InUse
<1>. QED
  BY <1>3, <1>4, <1>5, <1>6, <1>7, <1>8, <1>9, <1>10, <1>11, <1>12 DEF DInv

LEMMA CommitAllocateD ==
  ASSUME IInv, DInv, CommitAllocate
  PROVE  DInv'
<1>1. /\ pc = "commit" /\ fs = "up" /\ pc' = "payload"
      /\ \A b \in Home : cache'[b] = cache[b]
      /\ disk' = disk /\ ring' = ring /\ ctl' = ctl /\ fs' = fs /\ ghost' = ghost
      /\ count' = count
  BY RingAssumption DEF CommitAllocate, IInv, TypeOK, HolderOK, Block
<1>2. PendingLog /\ HomeCurrent /\ CacheCurrent /\ CommitsCurrent /\ CommitsBehind
      /\ CommitsAhead /\ Runtime /\ Running /\ Writing /\ Ages /\ Replaying /\ Smooth
  BY DEF DInv
<1>3. /\ ghost.pend = <<>> /\ ctl.last = j.seq /\ j.ckpt = j.seq /\ j.active = j.seq + 1
      /\ ghost.tid \in 1 .. MaxTxn /\ j.tail = j.head /\ Len(j.homes) <= PayloadCapacity
      /\ j.head \in RingPos /\ ghost.wrote[ghost.tid] \subseteq Home
  BY <1>1, <1>2, InTransaction, GhostNumbers DEF Runtime, Running, InUse, IInv, PointersOK
<1>. DEFINE r == Record(j, SB)
            n == Len(r.homes)
            start == SegmentStart(j.head, j.tail, n + 2)
            d == Descriptor(j.active, r.homes, <<>>, start + 1, start + 1 + n)
<1>4. j \in RuntimeType /\ SB \in Block
  BY DEF IInv, TypeOK, Block
<1>5. /\ r.seq = j.seq /\ r.active = j.active /\ r.ckpt = j.ckpt
      /\ r.homes \in Seq(Block) /\ Len(r.homes) <= PayloadCapacity
      /\ \A k \in 1 .. Len(j.homes) : k \in 1 .. Len(r.homes) /\ r.homes[k] = j.homes[k]
      /\ ~r.err /\ ~j.err /\ r \in RuntimeType
  BY <1>3, <1>4, RecordFacts, RecordType DEF CommitAllocate
<1>6. n \in Nat /\ ~NoSpace(j.head, j.tail, n + 2)
  BY <1>5 DEF CommitAllocate
<1>7. /\ j' = [r EXCEPT !.tail = IF j.tail = j.head THEN start ELSE @,
                        !.head = Wrap(start + n + 2)]
      /\ seg' = [NoSegment EXCEPT !.pos = start, !.head = j.head, !.tail = j.tail, !.d = d]
  BY DEF CommitAllocate
<1>8. /\ j'.seq = j.seq /\ j'.active = j.active /\ j'.ckpt = j.ckpt /\ j'.homes = r.homes
      /\ ~j'.err /\ j'.tail = start /\ j'.head = Wrap(start + n + 2)
  <2>. HIDE DEF r, n, start
  <2>. QED  BY <1>3, <1>5, <1>7 DEF RuntimeType
<1>9. seg'.pos = start /\ seg'.d = d /\ seg'.i = 0 /\ seg'.head = j.head /\ seg'.tail = j.tail
  <2>. HIDE DEF d, start
  <2>. QED  BY <1>7 DEF NoSegment
<1>10. start \in RingPos /\ start + (n + 2) <= RingEnd /\ n + 2 < RingEnd - RingStart
  <2>. HIDE DEF n
  <2>1. n + 2 \in Nat /\ n + 2 > 0
    BY <1>6
  <2>2. start \in RingPos /\ start + (n + 2) <= RingEnd
    BY <1>3, <1>6, <2>1, SegmentFits
  <2>3. n + 2 < RingEnd - RingStart
    BY <1>6, RingNumbers DEF NoSpace
  <2>. QED  BY <2>2, <2>3
<1>11. /\ d.seq = j.active /\ d.homes = r.homes /\ d.sums = <<>> /\ d.payload = start + 1
       /\ d.commit = start + 1 + n
  BY DEF Descriptor
<1>12. Placed(start, d) /\ SegmentEnd(d) = Wrap(start + n + 2)
  <2>. HIDE DEF d, start, r
  <2>. DEFINE c == d.commit
  <2>0. /\ n \in Nat /\ start \in 1 .. (RingEnd - 1) /\ RingEnd \in Nat
        /\ start + (n + 2) <= RingEnd /\ d.commit = start + 1 + n
    BY <1>6, <1>10, <1>11, RingNumbers
  <2>1. d.commit \in RingPos /\ d.commit + 1 = start + n + 2
    <3>. HIDE DEF n, c
    <3>1. c \in 1 .. (RingEnd - 1) /\ c + 1 = start + n + 2
      BY <2>0 DEF c
    <3>. QED  BY <3>1, RingNumbers DEF c
  <2>2. Wrap(start + n + 2) # start
    BY <1>6, <1>10, RingNumbers DEF Wrap
  <2>. QED  BY <1>5, <1>10, <1>11, <2>1, <2>2 DEF Placed, SegmentEnd
<1>. HIDE DEF d, start, n, r
<1>13. CommitsCurrent' /\ CommitsBehind' /\ CommitsAhead'
  BY <1>1, <1>2, LogFrozen
<1>14. PendingLog'
BY <1>1, <1>3 DEF PendingLog, Pending
<1>15. HomeCurrent'
  BY <1>1, <1>2 DEF HomeCurrent, Pending, Oldest
<1>16. CacheCurrent'
BY <1>1, <1>2 DEF CacheCurrent, InUse
<1>17. Runtime'
  <2>1. ctl.last = j.seq /\ ctl.ckpt <= j.ckpt /\ j.active # 0
    BY <1>1, <1>3, InTransaction, RuntimeNumbers
  <2>2. \A p \in RingPos : ~Fresh(ring', j'.ckpt, p)
    BY <1>1, <1>2, <1>3, <1>8 DEF Runtime, Pending, InUse
  <2>. QED  BY <1>1, <1>3, <1>8, <2>1, <2>2 DEF Runtime, Pending, InUse
<1>18. Running'
  <2>. SUFFICES ASSUME NEW b \in ghost.wrote[ghost.tid]
                PROVE  /\ cache'[b] = ghost.tid
                       /\ \E k \in 1 .. Len(r.homes) : r.homes[k] = b
    BY <1>1, <1>5, <1>8 DEF Running
  <2>1. cache[b] = ghost.tid /\ (~j.err => \E k \in 1 .. Len(j.homes) : j.homes[k] = b)
    BY <1>1, <1>2 DEF Running
  <2>. QED  BY <1>1, <1>3, <1>5, <2>1
<1>19. Writing'
  <2>1. Len(<<>>) = 0
    OBVIOUS
  <2>2. 0 <= Len(r.homes) /\ 1 .. 0 = {}
    BY <1>5
  <2>. QED  BY <1>1, <1>3, <1>8, <1>9, <1>11, <1>12, <2>1, <2>2 DEF Writing
<1>20. Ages'
  BY <1>1, <1>2 DEF Ages
<1>21. Replaying'
  BY <1>1, <1>2 DEF Replaying, ScanStart, ScanDone, Pending, Oldest
<1>22. Smooth'
  BY <1>1, <1>2 DEF Smooth, Pending, InUse
<1>. QED
  BY <1>13, <1>14, <1>15, <1>16, <1>17, <1>18, <1>19, <1>20, <1>21, <1>22 DEF DInv

LEMMA WritePayloadD ==
  ASSUME IInv, DInv, WritePayload
  PROVE  DInv'
<1>1. /\ pc = "payload" /\ fs = "up" /\ pc' = "payload" /\ cache' = cache /\ disk' = disk
      /\ ctl' = ctl /\ j' = j /\ fs' = fs /\ pc' = pc /\ ghost' = ghost /\ count' = count
  BY DEF WritePayload, IInv, TypeOK, HolderOK
<1>2. PendingLog /\ HomeCurrent /\ CacheCurrent /\ CommitsCurrent /\ CommitsBehind
      /\ CommitsAhead /\ Runtime /\ Running /\ Writing /\ Ages /\ Replaying /\ Smooth
  BY DEF DInv
<1>3. /\ ghost.pend = <<>> /\ ctl.last = j.seq /\ NoneAfter(ring, j.seq)
  BY <1>1, InTransaction
<1>4. /\ Placed(seg.pos, seg.d) /\ seg.d.homes = j.homes /\ seg.i = Len(seg.d.sums)
      /\ seg.i < Len(j.homes) /\ seg.d \in DescriptorType /\ seg.i \in Nat
      /\ j.homes \in Seq(Block)
  BY <1>1, <1>2, LocalNumbers, RuntimeHomes DEF Writing, WritePayload, IInv, SegmentOK
<1>. DEFINE v == cache[j.homes[seg.i + 1]]
            slot == seg.d.payload + seg.i
            nd == [seg.d EXCEPT !.sums = Append(@, v)]
<1>5. /\ slot \in RingPos /\ slot # seg.pos /\ slot # seg.d.commit
      /\ slot = seg.d.payload + (seg.i + 1) - 1
  <2>1. seg.d.payload \in Nat /\ seg.i + 1 \in 1 .. Len(seg.d.homes)
    BY <1>4, PlacedFacts
  <2>2. slot = seg.d.payload + (seg.i + 1) - 1
    BY <1>4, <2>1
  <2>. QED  BY <1>4, <2>1, <2>2, PlacedFacts
<1>6. ring' = [ring EXCEPT ![slot] = Payload(v)] /\ seg' = [seg EXCEPT !.i = @ + 1, !.d = nd]
  BY DEF WritePayload
<1>7. /\ ring'[slot] = Payload(v)
      /\ \A p \in RingPos : p # slot => ring'[p] = ring[p]
  <2>. HIDE DEF slot, v
  <2>. QED  BY <1>5, <1>6 DEF IInv, TypeOK
<1>8. /\ seg'.i = seg.i + 1 /\ seg'.d = nd /\ seg'.pos = seg.pos /\ seg'.head = seg.head
      /\ seg'.tail = seg.tail
  <2>. HIDE DEF nd
  <2>. QED  BY <1>6 DEF IInv, TypeOK, LocalsType
<1>9. v \in Nat
  BY <1>4 DEF IInv, TypeOK
<1>10. /\ nd.seq = seg.d.seq /\ nd.homes = seg.d.homes /\ nd.payload = seg.d.payload
       /\ nd.commit = seg.d.commit /\ nd.sums = Append(seg.d.sums, v)
  <2>. HIDE DEF v
  <2>. QED  BY <1>4 DEF DescriptorType
<1>11. /\ Len(nd.sums) = seg.i + 1 /\ nd.sums[seg.i + 1] = v
       /\ \A k \in 1 .. seg.i : nd.sums[k] = seg.d.sums[k]
  <2>1. seg.d.sums \in Seq(Nat)
    BY <1>4 DEF DescriptorType
  <2>. HIDE DEF v, nd
  <2>. QED  BY <1>4, <1>9, <1>10, <2>1
<1>12. \A p \in RingPos : Flagged(ring', p) => Flagged(ring, p) /\ ring'[p] = ring[p]
  <2>. HIDE DEF slot, v
  <2>. QED  BY <1>7 DEF Flagged, Payload
<1>. HIDE DEF nd, slot, v
<1>13. CommitsCurrent' /\ CommitsBehind' /\ CommitsAhead'
  BY <1>1, <1>2, <1>3, <1>12, CommitsRemoved
<1>14. PendingLog'
BY <1>1, <1>3 DEF PendingLog, Pending
<1>15. HomeCurrent'
BY <1>1, <1>2, <1>3 DEF HomeCurrent, Pending
<1>16. CacheCurrent'
  BY <1>1, <1>2 DEF CacheCurrent, InUse
<1>17. Runtime'
  <2>1. NoneAfter(ring', j.seq) /\ j.ckpt = j.seq
    BY <1>1, <1>3, <1>12, CommitsRemoved, InTransaction
  <2>. QED  BY <1>1, <1>2, <1>3, <2>1 DEF Runtime, Pending, InUse, NoneAfter
<1>18. Running'
  BY <1>1, <1>2 DEF Running
<1>19. Writing'
  <2>1. Placed(seg.pos, nd) /\ SegmentEnd(nd) = SegmentEnd(seg.d)
    BY <1>4, <1>10 DEF Placed, SegmentEnd
  <2>2. ASSUME NEW k \in 1 .. seg.i + 1
        PROVE  /\ ring'[nd.payload + k - 1] = Payload(nd.sums[k])
               /\ j.homes[k] \in Home => nd.sums[k] = cache[j.homes[k]]
    <3>1. CASE k = seg.i + 1
      BY <1>5, <1>7, <1>10, <1>11, <3>1 DEF v
    <3>2. CASE k # seg.i + 1
      <4>1. k \in 1 .. seg.i /\ k \in 1 .. Len(seg.d.homes)
        BY <1>4, <2>2, <3>2
      <4>2. /\ ring[seg.d.payload + k - 1] = Payload(seg.d.sums[k])
            /\ j.homes[k] \in Home => seg.d.sums[k] = cache[j.homes[k]]
        BY <1>1, <1>2, <4>1 DEF Writing
      <4>3. seg.d.payload + k - 1 \in RingPos /\ seg.d.payload + k - 1 # slot
        BY <1>4, <3>2, <4>1, PlacedFacts DEF slot
      <4>. QED  BY <1>7, <1>10, <1>11, <4>1, <4>2, <4>3
    <3>. QED  BY <3>1, <3>2
  <2>3. seg.i + 1 <= Len(j.homes)
    BY <1>4
  <2>. QED  BY <1>1, <1>2, <1>4, <1>8, <1>10, <1>11, <2>1, <2>2, <2>3 DEF Writing
<1>20. Ages'
  BY <1>1, <1>2 DEF Ages
<1>21. Replaying'
  BY <1>1, <1>2 DEF Replaying, ScanStart, ScanDone, Pending, Oldest
<1>22. Smooth'
BY <1>1, <1>2, <1>3 DEF Smooth, Pending, InUse
<1>. QED
  BY <1>13, <1>14, <1>15, <1>16, <1>17, <1>18, <1>19, <1>20, <1>21, <1>22 DEF DInv

LEMMA WriteDescriptorD ==
  ASSUME IInv, DInv, WriteDescriptor
  PROVE  DInv'
<1>1. /\ pc = "payload" /\ fs = "up" /\ pc' = "prepare" /\ cache' = cache /\ disk' = disk
      /\ ctl' = ctl /\ j' = j /\ fs' = fs /\ seg' = seg /\ ghost' = ghost /\ count' = count
  BY DEF WriteDescriptor, IInv, TypeOK, HolderOK
<1>2. PendingLog /\ HomeCurrent /\ CacheCurrent /\ CommitsCurrent /\ CommitsBehind
      /\ CommitsAhead /\ Runtime /\ Running /\ Writing /\ Ages /\ Replaying /\ Smooth
  BY DEF DInv
<1>3. /\ ghost.pend = <<>> /\ ctl.last = j.seq /\ NoneAfter(ring, j.seq)
  BY <1>1, InTransaction
<1>4. /\ Placed(seg.pos, seg.d) /\ seg.d.homes = j.homes /\ seg.i = Len(j.homes)
      /\ seg.d \in DescriptorType
  BY <1>1, <1>2 DEF Writing, WriteDescriptor, IInv, SegmentOK
<1>5. seg.pos \in RingPos /\ \A k \in 1 .. seg.i :
        seg.d.payload + k - 1 \in RingPos /\ seg.d.payload + k - 1 # seg.pos
  BY <1>4, PlacedFacts
<1>7. /\ ring'[seg.pos] = seg.d
      /\ \A p \in RingPos : p # seg.pos => ring'[p] = ring[p]
  BY <1>5 DEF WriteDescriptor, IInv, TypeOK
<1>12. \A p \in RingPos : Flagged(ring', p) => Flagged(ring, p) /\ ring'[p] = ring[p]
  BY <1>4, <1>7 DEF Flagged, DescriptorType
<1>13. CommitsCurrent' /\ CommitsBehind' /\ CommitsAhead'
  BY <1>1, <1>2, <1>3, <1>12, CommitsRemoved
<1>14. PendingLog'
BY <1>1, <1>3 DEF PendingLog, Pending
<1>15. HomeCurrent'
BY <1>1, <1>2, <1>3 DEF HomeCurrent, Pending
<1>16. CacheCurrent'
  BY <1>1, <1>2 DEF CacheCurrent, InUse
<1>17. Runtime'
  <2>1. NoneAfter(ring', j.seq) /\ j.ckpt = j.seq
    BY <1>1, <1>3, <1>12, CommitsRemoved, InTransaction
  <2>. QED  BY <1>1, <1>2, <1>3, <2>1 DEF Runtime, Pending, InUse, NoneAfter
<1>18. Running'
  BY <1>1, <1>2 DEF Running
<1>19. Writing'
BY <1>1, <1>2, <1>4, <1>5, <1>7 DEF Writing
<1>20. Ages'
  BY <1>1, <1>2 DEF Ages
<1>21. Replaying'
  BY <1>1, <1>2 DEF Replaying, ScanStart, ScanDone, Pending, Oldest
<1>22. Smooth'
BY <1>1, <1>2, <1>3 DEF Smooth, Pending, InUse
<1>. QED
  BY <1>13, <1>14, <1>15, <1>16, <1>17, <1>18, <1>19, <1>20, <1>21, <1>22 DEF DInv

LEMMA WritePreparedD ==
  ASSUME IInv, DInv, WritePrepared
  PROVE  DInv'
<1>1. /\ pc = "prepare" /\ fs = "up" /\ pc' = "commit_block" /\ cache' = cache
      /\ disk' = disk /\ ring' = ring /\ j' = j /\ fs' = fs /\ seg' = seg /\ ghost' = ghost
      /\ count' = count
  BY DEF WritePrepared, IInv, TypeOK, HolderOK
<1>2. PendingLog /\ HomeCurrent /\ CacheCurrent /\ CommitsCurrent /\ CommitsBehind
      /\ CommitsAhead /\ Runtime /\ Running /\ Writing /\ Ages /\ Replaying /\ Smooth
  BY DEF DInv
<1>3. /\ ghost.pend = <<>> /\ ctl.last = j.seq /\ NoneAfter(ring, j.seq) /\ j.ckpt = j.seq
      /\ j.active = j.seq + 1
  BY <1>1, InTransaction
<1>4. /\ ctl'.state = "PREPARED" /\ ctl'.last = j.seq /\ ctl'.active = j.active
      /\ ctl'.ckpt = j.ckpt /\ ctl'.head = j.head /\ ctl'.tail = j.tail
  BY DEF WritePrepared, Control
<1>5. PendingLog'
BY <1>1, <1>3 DEF PendingLog, Pending
<1>6. HomeCurrent'
BY <1>1, <1>2, <1>3 DEF HomeCurrent, Pending
<1>7. CacheCurrent'
  BY <1>1, <1>2 DEF CacheCurrent, InUse
<1>8. CommitsCurrent'
BY <1>1, <1>3, <1>4 DEF CommitsCurrent, NoneAfter
<1>9. CommitsBehind'
BY <1>4 DEF CommitsBehind
<1>10. CommitsAhead'
BY <1>1, <1>3, <1>4 DEF CommitsAhead, NoneAfter
<1>11. Runtime'
  <2>1. ctl'.last = j.seq /\ ctl'.ckpt <= j.ckpt /\ j.active # 0
    BY <1>3, <1>4, RuntimeNumbers
  <2>. QED  BY <1>1, <1>2, <1>3, <2>1 DEF Runtime, Pending, InUse, NoneAfter
<1>12. Running'
  BY <1>1, <1>2 DEF Running
<1>13. Writing'
BY <1>1, <1>2, <1>4 DEF Writing
<1>14. Ages'
  BY <1>1, <1>2 DEF Ages
<1>15. Replaying'
  BY <1>1, <1>2 DEF Replaying, ScanStart, ScanDone, Pending, Oldest
<1>16. Smooth'
  <2>1. seg.d \in DescriptorType /\ ring[seg.pos] = seg.d /\ j.tail = seg.pos
        /\ j.head = SegmentEnd(seg.d) /\ Placed(seg.pos, seg.d) /\ seg.d.seq = j.seq + 1
    BY <1>1, <1>2, <1>3 DEF Writing, IInv, SegmentOK
  <2>2. Readable(ring, j.tail, j.ckpt)
    BY <1>3, <2>1, RuntimeNumbers DEF Readable, Placed, DescriptorType
  <2>3. ~(Flagged(ring, seg.d.commit) /\ ring[seg.d.commit].of.seq = seg.d.seq)
    <3>1. seg.d.seq > j.seq
      BY <2>1, RuntimeNumbers
    <3>. QED  BY <1>3, <3>1 DEF NoneAfter, Fresh, Flagged
  <2>4. LogReadable(ring, ctl')
    BY <1>4, <2>1, <2>2, <2>3 DEF LogReadable
  <2>. QED  BY <1>1, <1>2, <1>4, <2>4 DEF Smooth, InUse
<1>. QED
  BY <1>5, <1>6, <1>7, <1>8, <1>9, <1>10, <1>11, <1>12, <1>13, <1>14, <1>15, <1>16 DEF DInv

LEMMA WriteCommitBlockD ==
  ASSUME IInv, DInv, IInv', WriteCommitBlock
  PROVE  DInv'
<1>1. /\ pc = "commit_block" /\ fs = "up" /\ pc' = "committed" /\ CommitBlockWritten
      /\ cache' = cache /\ disk' = disk /\ ctl' = ctl /\ j' = j /\ fs' = fs /\ seg' = seg
      /\ count' = count
  BY DEF WriteCommitBlock, IInv, TypeOK, HolderOK
<1>2. PendingLog /\ HomeCurrent /\ CacheCurrent /\ CommitsCurrent /\ CommitsBehind
      /\ CommitsAhead /\ Runtime /\ Running /\ Writing /\ Ages /\ Replaying /\ Smooth
  BY DEF DInv
<1>3. /\ ghost.pend = <<>> /\ ctl.last = j.seq /\ j.ckpt = j.seq
      /\ j.active = j.seq + 1 /\ ctl.ckpt = j.seq /\ seg.d.seq = j.seq + 1
      /\ Placed(seg.pos, seg.d) /\ seg.d \in DescriptorType /\ ctl.state = "PREPARED"
      /\ j.tail = seg.pos /\ j.head = SegmentEnd(seg.d) /\ ctl.tail = j.tail /\ ctl.head = j.head
  BY <1>1, <1>2, InTransaction DEF Writing, IInv, SegmentOK
<1>4. /\ ghost'.pend = <<[pos |-> seg.pos, d |-> seg.d]>> /\ Len(ghost'.pend) = 1
      /\ Oldest' = [pos |-> seg.pos, d |-> seg.d]
      /\ ghost'.tid = ghost.tid /\ ghost'.wrote = ghost.wrote
      /\ ghost'.torn = ghost.torn /\ ghost'.euclean = ghost.euclean /\ Pending'
  BY <1>1, CommitPoint DEF Oldest, Pending
<1>5. /\ Oldest'.pos = seg.pos /\ Oldest'.d = seg.d
  BY <1>4
<1>6. /\ ring'[seg.pos] = seg.d
      /\ ring'[seg.d.commit] = Commit(seg.d, TRUE, seg.pos)
      /\ \A i \in 1 .. Len(seg.d.homes) : ring'[seg.d.payload + i - 1] = Payload(seg.d.sums[i])
      /\ Current(ghost'.durable, seg.d)
      /\ \A p : Fresh(ring', j.seq, p) => p = seg.d.commit
  BY <1>1, CommitPoint
<1>7. /\ \A b \in Home : ghost'.durable[b] <= cache[b] /\ ghost'.durable[b] <= ghost.tid
      /\ \A b \in Home : \/ disk[b] >= ghost'.durable[b]
                         \/ \E k \in 1 .. Len(seg.d.homes) : seg.d.homes[k] = b
      /\ \A b \in Home : ghost'.durable[b] \in Nat
  BY <1>1, CommitPoint, GhostNumbers DEF IInv, TypeOK, GhostType
<1>8. Stored(ring', [pos |-> seg.pos, d |-> seg.d])
  BY <1>6 DEF Stored
<1>9. ring'[seg.d.commit].of = seg.d /\ ring'[seg.d.commit].pos = seg.pos
  BY <1>6 DEF Commit
<1>10. PendingLog'
  <2>1. /\ j.seq \in Nat /\ j.seq + 1 > j.seq /\ j.seq + 1 # 0
        /\ j.ckpt < seg.d.seq /\ j.ckpt <= j.seq
    BY <1>3, RuntimeNumbers
  <2>. QED  BY <1>1, <1>3, <1>4, <1>5, <1>6, <1>8, <2>1 DEF PendingLog, InUse
<1>11. HomeCurrent'
BY <1>1, <1>4, <1>5, <1>7 DEF HomeCurrent
<1>12. CacheCurrent'
BY <1>1, <1>7, HomeNumbers DEF CacheCurrent, InUse
<1>13. CommitsCurrent'
BY <1>1, <1>3, <1>4, <1>5, <1>6, <1>9 DEF CommitsCurrent
<1>14. CommitsBehind'
BY <1>1, <1>3 DEF CommitsBehind
<1>15. CommitsAhead'
BY <1>1, <1>3, <1>6, <1>9 DEF CommitsAhead, Ahead
<1>16. Runtime'
  <2>1. j.active # 0 /\ ctl.ckpt <= j.ckpt
    BY <1>3, RuntimeNumbers
  <2>. QED  BY <1>1, <1>3, <1>4, <1>5, <1>6, <2>1 DEF Runtime, InUse
<1>17. Running'
  BY <1>1, <1>2 DEF Running
<1>18. Writing'
BY <1>1, <1>2, <1>4, <1>6 DEF Writing
<1>19. Ages'
BY <1>1, <1>2, <1>4, <1>7 DEF Ages
<1>20. Replaying'
  BY <1>1, <1>2 DEF Replaying, ScanStart, ScanDone, Pending, Oldest
<1>21. Smooth'
  <2>1. Readable(ring', seg.pos, ctl.ckpt)
    BY <1>3, <1>6, RuntimeNumbers DEF Readable, Placed, DescriptorType
  <2>2. LogReadable(ring', ctl)
    BY <1>3, <1>6, <1>8, <2>1 DEF LogReadable
  <2>. QED  BY <1>1, <1>2, <1>3, <1>4, <2>2 DEF Smooth, InUse
<1>. QED
  BY <1>10, <1>11, <1>12, <1>13, <1>14, <1>15, <1>16, <1>17, <1>18, <1>19, <1>20, <1>21 DEF DInv

LEMMA WriteCommittedD ==
  ASSUME IInv, DInv, WriteCommitted
  PROVE  DInv'
<1>1. /\ pc = "committed" /\ fs = "up" /\ pc' = "free" /\ cache' = cache /\ disk' = disk
      /\ ring' = ring /\ fs' = fs /\ ghost' = ghost /\ count' = count /\ j'.seq = j.active
      /\ j'.active = 0 /\ j'.ckpt = j.ckpt /\ j'.head = j.head /\ j'.tail = j.tail
      /\ j'.homes = <<>> /\ ~j'.err
  BY DEF WriteCommitted, IInv, TypeOK, HolderOK, ClearRuntime, RuntimeType
<1>2. PendingLog /\ HomeCurrent /\ CacheCurrent /\ CommitsCurrent /\ CommitsBehind
      /\ CommitsAhead /\ Runtime /\ Running /\ Writing /\ Ages /\ Replaying /\ Smooth
  BY DEF DInv
<1>3. /\ j.active = j.seq + 1 /\ seg.d.seq = j.active /\ Pending /\ Oldest.d = seg.d
      /\ ctl.state = "PREPARED" /\ ctl.ckpt = j.ckpt /\ ctl.tail = j.tail /\ ctl.head = j.head
  BY <1>1, <1>2 DEF Writing
<1>4. /\ ctl'.state = "COMMITTED" /\ ctl'.last = j.active /\ ctl'.active = 0
      /\ ctl'.ckpt = ctl.ckpt /\ ctl'.head = ctl.head /\ ctl'.tail = ctl.tail
  BY <1>3 DEF WriteCommitted, Control
<1>5. /\ Oldest.d.seq = j.active /\ Stored(ring, Oldest) /\ j.ckpt < Oldest.d.seq
  BY <1>1, <1>2, <1>3 DEF PendingLog, InUse
<1>6. \A p \in RingPos : ~Fresh(ring, j.active, p)
  <2>. SUFFICES ASSUME NEW p \in RingPos, Fresh(ring, j.active, p) PROVE FALSE
    OBVIOUS
  <2>1. ring[p].of.seq \in Nat /\ ring[p].of.seq > j.ckpt
    <3>1. ring[p].of.seq \in Nat
      BY FlaggedType DEF Fresh
    <3>2. ring[p].of.seq > j.active
      BY DEF Fresh
    <3>. QED  BY <1>5, <3>1, <3>2, RuntimeNumbers
  <2>2. p = Oldest.d.commit
    BY <1>1, <1>2, <2>1 DEF Runtime, InUse, Fresh
  <2>3. ring[p].of = Oldest.d
    BY <1>5, <2>2 DEF Stored, Commit
  <2>. QED  BY <1>5, <2>3, RuntimeNumbers DEF Fresh
<1>7. PendingLog'
BY <1>1, <1>2, <1>3, <1>4, <1>5, RuntimeNumbers DEF PendingLog, Pending, Oldest, InUse
<1>8. HomeCurrent'
  BY <1>1, <1>2 DEF HomeCurrent, Pending, Oldest
<1>9. CacheCurrent'
  BY <1>1, <1>2 DEF CacheCurrent, InUse
<1>10. CommitsCurrent'
BY <1>1, <1>2, <1>4 DEF CommitsCurrent, Pending, Oldest
<1>11. CommitsBehind'
BY <1>4 DEF CommitsBehind
<1>12. CommitsAhead'
BY <1>1, <1>4, <1>6 DEF CommitsAhead
<1>13. Runtime'
BY <1>1, <1>2, <1>3, <1>4 DEF Runtime, Pending, Oldest, InUse
<1>14. Running'
  BY <1>1, <1>2 DEF Running
<1>15. Writing'
  BY <1>1, <1>2 DEF Writing, Pending, Oldest
<1>16. Ages'
  BY <1>1, <1>2 DEF Ages
<1>17. Replaying'
  BY <1>1, <1>2 DEF Replaying, ScanStart, ScanDone, Pending, Oldest
<1>18. Smooth'
  <2>1. LogReadable(ring, ctl) => LogReadable(ring, ctl')
    BY <1>4 DEF LogReadable, Readable
  <2>. QED  BY <1>1, <1>2, <1>3, <1>4, <2>1 DEF Smooth, Pending, InUse
<1>. QED
  BY <1>7, <1>8, <1>9, <1>10, <1>11, <1>12, <1>13, <1>14, <1>15, <1>16, <1>17, <1>18 DEF DInv

LEMMA WritebackD ==
  ASSUME IInv, DInv, NEW b \in Block, Writeback(b)
  PROVE  DInv'
<1>1. /\ fs # "down" /\ pc' = pc
      /\ \A c \in Home : disk'[c] = disk[c] \/ disk'[c] = cache[c]
      /\ cache' = cache /\ ring' = ring /\ ctl' = ctl /\ j' = j /\ fs' = fs /\ seg' = seg
      /\ ghost' = ghost /\ count' = count
  BY DEF Writeback, IInv, TypeOK
<1>2. PendingLog /\ HomeCurrent /\ CacheCurrent /\ CommitsCurrent /\ CommitsBehind
      /\ CommitsAhead /\ Runtime /\ Running /\ Writing /\ Ages /\ Replaying /\ Smooth
  BY DEF DInv
<1>3. \A c \in Home : \/ disk'[c] = disk[c]
                      \/ InUse /\ disk'[c] = cache[c] /\ disk'[c] >= ghost.durable[c]
  BY <1>1, <1>2 DEF CacheCurrent, InUse, IInv, TypeOK
<1>4. pc \in {"scan", "replay"} => fs = "mounting"
  BY DEF IInv, HolderOK
<1>5. CommitsCurrent' /\ CommitsBehind' /\ CommitsAhead'
  BY <1>1, <1>2, LogFrozen
<1>6. PendingLog'
  BY <1>1, <1>2 DEF PendingLog, Pending, Oldest, InUse
<1>7. HomeCurrent'
BY <1>1, <1>2, <1>3 DEF HomeCurrent, Pending, Oldest
<1>8. CacheCurrent'
BY <1>1, <1>2, <1>3 DEF CacheCurrent, InUse
<1>9. Runtime'
  BY <1>1, <1>2 DEF Runtime, Fenced, Pending, Oldest, InUse
<1>10. Running'
  BY <1>1, <1>2 DEF Running
<1>11. Writing'
  BY <1>1, <1>2 DEF Writing, Pending, Oldest
<1>12. Ages'
  BY <1>1, <1>2 DEF Ages
<1>13. Replaying'
  <2>1. ScanDone => ScanDone' \/ InUse
    BY <1>1, <1>3 DEF ScanDone, Pending
  <2>2. ScanStart => ScanStart'
    BY <1>1 DEF ScanStart
  <2>. QED  BY <1>1, <1>2, <1>4, <2>1, <2>2 DEF Replaying, InUse, Pending, Oldest
<1>14. Smooth'
  BY <1>1, <1>2 DEF Smooth, Pending, InUse
<1>. QED
  BY <1>5, <1>6, <1>7, <1>8, <1>9, <1>10, <1>11, <1>12, <1>13, <1>14 DEF DInv

LEMMA CheckpointWorkerD ==
  ASSUME IInv, DInv, CheckpointWorker
  PROVE  DInv'
<1>1. /\ pc = "free" /\ fs = "up" /\ pc' = "checkpoint" /\ cache' = cache /\ disk' = disk
      /\ ring' = ring /\ ctl' = ctl /\ j' = j /\ fs' = fs /\ seg' = seg /\ ghost' = ghost
      /\ count' = count
  BY DEF CheckpointWorker, IInv, TypeOK
<1>2. PendingLog /\ HomeCurrent /\ CacheCurrent /\ CommitsCurrent /\ CommitsBehind
      /\ CommitsAhead /\ Runtime /\ Running /\ Writing /\ Ages /\ Replaying /\ Smooth
  BY DEF DInv
<1>3. CommitsCurrent' /\ CommitsBehind' /\ CommitsAhead'
  BY <1>1, <1>2, LogFrozen
<1>4. PendingLog'
  BY <1>1, <1>2 DEF PendingLog, Pending, Oldest, InUse
<1>5. HomeCurrent'
  BY <1>1, <1>2 DEF HomeCurrent, Pending, Oldest
<1>6. CacheCurrent'
  BY <1>1, <1>2 DEF CacheCurrent, InUse
<1>7. Runtime'
  BY <1>1, <1>2 DEF Runtime, Fenced, Pending, Oldest, InUse
<1>8. Running'
  BY <1>1, <1>2 DEF Running
<1>9. Writing'
  BY <1>1, <1>2 DEF Writing, Pending, Oldest
<1>10. Ages'
  BY <1>1, <1>2 DEF Ages
<1>11. Replaying'
  BY <1>1, <1>2 DEF Replaying, ScanStart, ScanDone, Pending, Oldest
<1>12. Smooth'
  BY <1>1, <1>2 DEF Smooth, Pending, InUse
<1>. QED
  BY <1>3, <1>4, <1>5, <1>6, <1>7, <1>8, <1>9, <1>10, <1>11, <1>12 DEF DInv

LEMMA CheckpointEndD ==
  ASSUME IInv, DInv, CheckpointEnd
  PROVE  DInv'
<1>1. /\ pc = "checkpoint" /\ fs \in {"up", "unmounting"} /\ pc' = "free" /\ cache' = cache
      /\ disk' = disk /\ ring' = ring /\ ctl' = ctl /\ j' = j /\ fs' = fs /\ seg' = seg
      /\ ghost' = ghost /\ count' = count
  BY DEF CheckpointEnd, IInv, TypeOK, HolderOK
<1>2. PendingLog /\ HomeCurrent /\ CacheCurrent /\ CommitsCurrent /\ CommitsBehind
      /\ CommitsAhead /\ Runtime /\ Running /\ Writing /\ Ages /\ Replaying /\ Smooth
  BY DEF DInv
<1>3. CommitsCurrent' /\ CommitsBehind' /\ CommitsAhead'
  BY <1>1, <1>2, LogFrozen
<1>4. PendingLog'
  BY <1>1, <1>2 DEF PendingLog, Pending, Oldest, InUse
<1>5. HomeCurrent'
  BY <1>1, <1>2 DEF HomeCurrent, Pending, Oldest
<1>6. CacheCurrent'
  BY <1>1, <1>2 DEF CacheCurrent, InUse
<1>7. Runtime'
  BY <1>1, <1>2 DEF Runtime, Fenced, Pending, Oldest, InUse
<1>8. Running'
  BY <1>1, <1>2 DEF Running
<1>9. Writing'
  BY <1>1, <1>2 DEF Writing, Pending, Oldest
<1>10. Ages'
  BY <1>1, <1>2 DEF Ages
<1>11. Replaying'
  BY <1>1, <1>2 DEF Replaying, ScanStart, ScanDone, Pending, Oldest
<1>12. Smooth'
  BY <1>1, <1>2 DEF Smooth, Pending, InUse
<1>. QED
  BY <1>3, <1>4, <1>5, <1>6, <1>7, <1>8, <1>9, <1>10, <1>11, <1>12 DEF DInv

LEMMA CheckpointStartD ==
  ASSUME IInv, DInv, CheckpointStart
  PROVE  DInv'
<1>1. /\ pc = "checkpoint" /\ fs \in {"up", "unmounting"} /\ pc' = "home" /\ j.tail # j.head
      /\ cache' = cache /\ disk' = disk /\ ring' = ring /\ j' = j /\ fs' = fs
      /\ ghost' = ghost /\ count' = count
  BY DEF CheckpointStart, IInv, TypeOK, HolderOK
<1>2. PendingLog /\ HomeCurrent /\ CacheCurrent /\ CommitsCurrent /\ CommitsBehind
      /\ CommitsAhead /\ Runtime /\ Running /\ Writing /\ Ages /\ Replaying /\ Smooth
  BY DEF DInv
<1>3. /\ ctl'.state = "CHECKPOINTING" /\ ctl'.last = j.seq /\ ctl'.active = 0
      /\ ctl'.ckpt = j.ckpt /\ ctl'.head = j.head /\ ctl'.tail = j.tail
  BY DEF CheckpointStart, Control
<1>4. /\ seg'.d = ring[j.tail] /\ seg'.i = 0
  BY DEF CheckpointStart, NoSegment
<1>5. Pending
  <2>. SUFFICES ASSUME ~Pending PROVE FALSE
    OBVIOUS
  <2>1. Fenced
    BY <1>1, <1>2 DEF Runtime, InUse
  <2>2. /\ ring[j.tail].commit \in RingPos /\ ring[ring[j.tail].commit].t = "commit"
        /\ ring[ring[j.tail].commit].flag /\ ring[ring[j.tail].commit].of.seq = ring[j.tail].seq
    BY DEF CheckpointStart, TailValid, CommitMatches, CommitFlagged
  <2>3. Fresh(ring, j.ckpt, ring[j.tail].commit)
    BY <2>1, <2>2, RuntimeNumbers DEF Fenced, Fresh, Flagged
  <2>. QED  BY <1>1, <1>2, <2>2, <2>3 DEF Runtime, InUse
<1>6. /\ Placed(Oldest.pos, Oldest.d) /\ Stored(ring, Oldest) /\ Oldest.d \in DescriptorType
      /\ j.tail = Oldest.pos /\ j.head = SegmentEnd(Oldest.d) /\ j.ckpt < Oldest.d.seq
      /\ ring[j.tail] = Oldest.d /\ ctl.ckpt <= j.ckpt /\ ctl.last = j.seq
  BY <1>1, <1>2, <1>5, OldestType DEF PendingLog, Stored, Runtime, InUse
<1>7. \A p \in RingPos : Fresh(ring, j.ckpt, p) => Fresh(ring, ctl.ckpt, p)
  BY <1>6, FreshFloor, RuntimeNumbers, ControlNumbers
<1>8. /\ ring[Oldest.d.commit].of = Oldest.d /\ ring[Oldest.d.commit].pos = Oldest.pos
  BY <1>6 DEF Stored, Commit
<1>9. PendingLog'
BY <1>1, <1>2, <1>3, <1>5, <1>6 DEF PendingLog, Pending, Oldest, InUse
<1>10. HomeCurrent'
  <2>1. Oldest.d.homes \in Seq(Block) /\ \A k \in 1 .. Len(Oldest.d.homes) : k > 0
    BY <1>5, OldestType
  <2>. QED  BY <1>1, <1>2, <1>4, <2>1 DEF HomeCurrent, Pending, Oldest
<1>11. CacheCurrent'
  BY <1>1, <1>2 DEF CacheCurrent, InUse
<1>12. CommitsCurrent'
BY <1>1, <1>2, <1>3, <1>7 DEF CommitsCurrent, Pending, Oldest
<1>13. CommitsBehind'
BY <1>3 DEF CommitsBehind
<1>14. CommitsAhead'
  <2>. SUFFICES ASSUME NEW p \in RingPos, Fresh(ring, j.seq, p)
                PROVE  Ahead(ring, ctl', p)
    BY <1>1, <1>3 DEF CommitsAhead
  <2>1. j.ckpt <= j.seq
    BY <1>1, <1>2, <1>5 DEF PendingLog, InUse
  <2>2. Fresh(ring, j.ckpt, p)
    BY <2>1, FreshFloor, RuntimeNumbers
  <2>3. p = Oldest.d.commit
    BY <1>1, <1>2, <2>2 DEF Runtime, InUse
  <2>. QED  BY <1>3, <1>6, <1>8, <2>3 DEF Ahead
<1>15. Runtime'
  <2>1. Len(Oldest.d.homes) \in Nat /\ 0 <= Len(Oldest.d.homes)
    BY <1>5, OldestType
  <2>2. ctl'.last = j.seq /\ ctl'.ckpt <= j.ckpt
    BY <1>3, RuntimeNumbers
  <2>. QED  BY <1>1, <1>2, <1>4, <1>5, <1>6, <2>1, <2>2 DEF Runtime, Pending, Oldest, InUse
<1>16. Running'
  BY <1>1, <1>2 DEF Running
<1>17. Writing'
  BY <1>1, <1>2 DEF Writing, Pending, Oldest
<1>18. Ages'
  BY <1>1, <1>2 DEF Ages
<1>19. Replaying'
  BY <1>1, <1>2 DEF Replaying, ScanStart, ScanDone, Pending, Oldest
<1>20. Smooth'
  <2>1. Readable(ring, j.tail, j.ckpt)
    BY <1>6, OldestType, <1>5, RuntimeNumbers DEF Readable, Placed, DescriptorType
  <2>2. Stored(ring, [pos |-> j.tail, d |-> Oldest.d])
    BY <1>6 DEF Stored
  <2>3. LogReadable(ring, ctl')
    BY <1>3, <1>6, <2>1, <2>2 DEF LogReadable
  <2>. QED  BY <1>1, <1>2, <1>3, <1>5, <2>3 DEF Smooth, Pending, InUse
<1>. QED
  BY <1>9, <1>10, <1>11, <1>12, <1>13, <1>14, <1>15, <1>16, <1>17, <1>18, <1>19, <1>20 DEF DInv

LEMMA CheckpointCorruptD ==
  ASSUME IInv, DInv, CheckpointCorrupt
  PROVE  DInv'
<1>1. /\ pc \in {"checkpoint", "home"} /\ fs \in {"up", "unmounting"} /\ pc' = "free"
      /\ cache' = cache /\ disk' = disk /\ ring' = ring /\ ctl' = ctl /\ j' = j /\ fs' = fs
      /\ ghost' = ghost /\ count' = count
  BY DEF CheckpointCorrupt, IInv, TypeOK, HolderOK
<1>2. PendingLog /\ HomeCurrent /\ CacheCurrent /\ CommitsCurrent /\ CommitsBehind
      /\ CommitsAhead /\ Runtime /\ Running /\ Writing /\ Ages /\ Replaying /\ Smooth
  BY DEF DInv
<1>3. CommitsCurrent' /\ CommitsBehind' /\ CommitsAhead'
  BY <1>1, <1>2, LogFrozen
<1>4. PendingLog'
  BY <1>1, <1>2 DEF PendingLog, Pending, Oldest, InUse
<1>5. HomeCurrent'
  BY <1>1, <1>2 DEF HomeCurrent, Pending, Oldest
<1>6. CacheCurrent'
  BY <1>1, <1>2 DEF CacheCurrent, InUse
<1>7. Runtime'
  BY <1>1, <1>2 DEF Runtime, Fenced, Pending, Oldest, InUse
<1>8. Running'
  BY <1>1, <1>2 DEF Running
<1>9. Writing'
  BY <1>1, <1>2 DEF Writing, Pending, Oldest
<1>10. Ages'
  BY <1>1, <1>2 DEF Ages
<1>11. Replaying'
  BY <1>1, <1>2 DEF Replaying, ScanStart, ScanDone, Pending, Oldest
<1>12. Smooth'
  BY <1>1, <1>2 DEF Smooth, Pending, InUse
<1>. QED
  BY <1>3, <1>4, <1>5, <1>6, <1>7, <1>8, <1>9, <1>10, <1>11, <1>12 DEF DInv

LEMMA CheckpointHomeD ==
  ASSUME IInv, DInv, CheckpointHome
  PROVE  DInv'
<1>1. /\ pc = "home" /\ fs \in {"up", "unmounting"} /\ pc' = "home" /\ ring' = ring
      /\ ctl' = ctl /\ j' = j /\ fs' = fs /\ pc' = pc /\ ghost' = ghost /\ count' = count
  BY DEF CheckpointHome, IInv, TypeOK, HolderOK
<1>2. PendingLog /\ HomeCurrent /\ CacheCurrent /\ CommitsCurrent /\ CommitsBehind
      /\ CommitsAhead /\ Runtime /\ Running /\ Writing /\ Ages /\ Replaying /\ Smooth
  BY DEF DInv
<1>3. /\ Pending /\ seg.d = Oldest.d /\ Current(ghost.durable, seg.d) /\ seg.i < Len(seg.d.homes)
  BY <1>1, <1>2 DEF Runtime, InUse, PendingLog, CheckpointHome
<1>4. HomeWritten /\ PayloadsValid(seg.d)
  BY DEF CheckpointHome
<1>5. /\ seg'.i = seg.i + 1 /\ seg'.d = seg.d /\ seg'.i <= Len(seg.d.homes)
      /\ \A c \in Home : c = seg.d.homes[seg.i + 1] =>
           disk'[c] >= ghost.durable[c] /\ cache'[c] >= ghost.durable[c]
      /\ \A c \in Home : c # seg.d.homes[seg.i + 1] => cache'[c] = cache[c] /\ disk'[c] = disk[c]
      /\ \A k \in 1 .. Len(seg.d.homes) : k > seg.i => k = seg.i + 1 \/ k > seg.i + 1
  BY <1>1, <1>3, <1>4, HomeWrittenFacts
<1>6. CommitsCurrent' /\ CommitsBehind' /\ CommitsAhead'
  BY <1>1, <1>2, LogFrozen
<1>7. PendingLog'
  BY <1>1, <1>2 DEF PendingLog, Pending, Oldest, InUse
<1>8. HomeCurrent'
  <2>. SUFFICES ASSUME NEW b \in Home, ~(disk'[b] >= ghost.durable[b])
                PROVE  \E k \in 1 .. Len(Oldest.d.homes) : Oldest.d.homes[k] = b /\ k > seg.i + 1
    BY <1>1, <1>3, <1>5 DEF HomeCurrent, Pending, Oldest
  <2>1. disk'[b] = disk[b] /\ b # seg.d.homes[seg.i + 1]
    BY <1>5
  <2>2. PICK k \in 1 .. Len(Oldest.d.homes) : Oldest.d.homes[k] = b /\ k > seg.i
    BY <1>1, <1>2, <2>1 DEF HomeCurrent
  <2>. QED  BY <1>3, <1>5, <2>1, <2>2
<1>9. CacheCurrent'
BY <1>1, <1>2, <1>5 DEF CacheCurrent, InUse
<1>10. Runtime'
BY <1>1, <1>2, <1>3, <1>5 DEF Runtime, Fenced, Pending, Oldest, InUse
<1>11. Running'
  BY <1>1, <1>2 DEF Running
<1>12. Writing'
  BY <1>1, <1>2 DEF Writing, Pending, Oldest
<1>13. Ages'
  BY <1>1, <1>2 DEF Ages
<1>14. Replaying'
  BY <1>1, <1>2 DEF Replaying, ScanStart, ScanDone, Pending, Oldest
<1>15. Smooth'
  BY <1>1, <1>2 DEF Smooth, Pending, InUse
<1>. QED
  BY <1>6, <1>7, <1>8, <1>9, <1>10, <1>11, <1>12, <1>13, <1>14, <1>15 DEF DInv

LEMMA CheckpointAdvanceD ==
  ASSUME IInv, DInv, CheckpointAdvance
  PROVE  DInv'
<1>1. /\ pc = "home" /\ fs \in {"up", "unmounting"} /\ cache' = cache /\ disk' = disk
      /\ ring' = ring /\ ctl' = ctl /\ fs' = fs /\ seg' = seg /\ count' = count
  BY DEF CheckpointAdvance, IInv, TypeOK, HolderOK
<1>2. PendingLog /\ HomeCurrent /\ CacheCurrent /\ CommitsCurrent /\ CommitsBehind
      /\ CommitsAhead /\ Runtime /\ Running /\ Writing /\ Ages /\ Replaying /\ Smooth
  BY DEF DInv
<1>3. /\ Pending /\ seg.d = Oldest.d /\ seg.i = Len(seg.d.homes) /\ Len(ghost.pend) = 1
      /\ j.head = SegmentEnd(seg.d) /\ j.ckpt < seg.d.seq /\ ctl.ckpt < seg.d.seq
      /\ ctl.last = j.seq /\ (j.active = 0 => j.seq = seg.d.seq) /\ Stored(ring, Oldest)
      /\ seg.d \in DescriptorType
  BY <1>1, <1>2, OldestType, ControlNumbers DEF Runtime, InUse, PendingLog, CheckpointAdvance
<1>4. /\ pc' = "drained" /\ j'.tail = j'.head
      /\ j'.ckpt = seg.d.seq /\ j'.seq = j.seq /\ j'.active = j.active
  BY <1>3 DEF CheckpointAdvance, IInv, TypeOK, RuntimeType
<1>5. /\ ghost'.durable = ghost.durable /\ ghost'.tid = ghost.tid /\ ghost'.wrote = ghost.wrote
      /\ ghost'.torn = ghost.torn /\ ghost'.euclean = ghost.euclean /\ ghost'.pend = <<>>
  <2>1. ghost' = [ghost EXCEPT !.pend = IF @ # <<>> /\ Head(@).d = seg.d THEN Tail(@) ELSE @]
    BY DEF CheckpointAdvance
  <2>2. ghost.pend # <<>> /\ Head(ghost.pend).d = seg.d
    BY <1>3 DEF Pending, Oldest
  <2>3. Tail(ghost.pend) = <<>>
    <3>. DEFINE T == [pos : Nat, d : DescriptorType]
    <3>1. ghost.pend \in Seq(T)
      BY DEF IInv, TypeOK, GhostType
    <3>. HIDE DEF T
    <3>2. Tail(ghost.pend) \in Seq(T) /\ Len(Tail(ghost.pend)) = 0
      BY <1>3, <2>2, <3>1, HeadTailProperties
    <3>. QED  BY <3>2, EmptySeq
  <2>. QED  BY <2>1, <2>2, <2>3 DEF IInv, TypeOK, GhostType
<1>6. \A p \in RingPos : ~Fresh(ring, seg.d.seq, p)
  <2>. SUFFICES ASSUME NEW p \in RingPos, Fresh(ring, seg.d.seq, p) PROVE FALSE
    OBVIOUS
  <2>1. ring[p].of.seq \in Nat /\ seg.d.seq \in Nat /\ ring[p].of.seq > seg.d.seq
    BY <1>3, FlaggedType DEF Fresh, DescriptorType
  <2>2. Fresh(ring, j.ckpt, p)
    BY <1>3, <2>1, RuntimeNumbers DEF Fresh
  <2>3. p = Oldest.d.commit
    BY <1>1, <1>2, <2>2 DEF Runtime, InUse
  <2>4. ring[p].of = seg.d
    BY <1>3, <2>3 DEF Stored, Commit
  <2>. QED  BY <2>1, <2>4
<1>7. \A b \in Home : disk[b] >= ghost.durable[b]
  <2>1. seg.i \in Nat /\ \A k \in 1 .. Len(Oldest.d.homes) : ~(k > seg.i)
    BY <1>3, LocalNumbers
  <2>. QED  BY <1>1, <1>2, <2>1 DEF HomeCurrent
<1>8. PendingLog'
BY <1>5 DEF PendingLog, Pending
<1>9. HomeCurrent'
BY <1>1, <1>5, <1>7 DEF HomeCurrent
<1>10. CacheCurrent'
BY <1>1, <1>2, <1>5 DEF CacheCurrent, InUse
<1>11. CommitsCurrent'
BY <1>1, <1>2, <1>5 DEF CommitsCurrent, Pending
<1>12. CommitsBehind'
BY <1>1, <1>2 DEF CommitsBehind
<1>13. CommitsAhead'
BY <1>1, <1>2 DEF CommitsAhead
<1>14. Runtime'
  <2>1. ctl.ckpt <= seg.d.seq
    BY <1>3, ControlNumbers DEF DescriptorType
  <2>. QED  BY <1>1, <1>3, <1>4, <1>5, <1>6, <2>1 DEF Runtime, Pending, InUse
<1>15. Running'
BY <1>4 DEF Running
<1>16. Writing'
BY <1>4 DEF Writing
<1>17. Ages'
BY <1>1, <1>2, <1>5 DEF Ages
<1>18. Replaying'
BY <1>4 DEF Replaying
<1>19. Smooth'
BY <1>1, <1>2, <1>4, <1>5 DEF Smooth, InUse
<1>. QED
  BY <1>8, <1>9, <1>10, <1>11, <1>12, <1>13, <1>14, <1>15, <1>16, <1>17, <1>18, <1>19 DEF DInv

LEMMA CheckpointSuperD ==
  ASSUME IInv, DInv, CheckpointSuper
  PROVE  DInv'
<1>1. /\ pc = "drained" /\ fs \in {"up", "unmounting"} /\ pc' = "advanced"
      /\ \A c \in Home : disk'[c] = disk[c]
      /\ cache' = cache /\ ring' = ring /\ ctl' = ctl /\ j' = j /\ fs' = fs /\ seg' = seg
      /\ ghost' = ghost /\ count' = count
  BY RingAssumption DEF CheckpointSuper, IInv, TypeOK, HolderOK, Block
<1>2. PendingLog /\ HomeCurrent /\ CacheCurrent /\ CommitsCurrent /\ CommitsBehind
      /\ CommitsAhead /\ Runtime /\ Running /\ Writing /\ Ages /\ Replaying /\ Smooth
  BY DEF DInv
<1>3. CommitsCurrent' /\ CommitsBehind' /\ CommitsAhead'
  BY <1>1, <1>2, LogFrozen
<1>4. PendingLog'
  BY <1>1, <1>2 DEF PendingLog, Pending, Oldest, InUse
<1>5. HomeCurrent'
  BY <1>1, <1>2 DEF HomeCurrent, Pending, Oldest
<1>6. CacheCurrent'
  BY <1>1, <1>2 DEF CacheCurrent, InUse
<1>7. Runtime'
  BY <1>1, <1>2 DEF Runtime, Fenced, Pending, Oldest, InUse
<1>8. Running'
  BY <1>1, <1>2 DEF Running
<1>9. Writing'
  BY <1>1, <1>2 DEF Writing, Pending, Oldest
<1>10. Ages'
  BY <1>1, <1>2 DEF Ages
<1>11. Replaying'
BY <1>1 DEF Replaying
<1>12. Smooth'
  BY <1>1, <1>2 DEF Smooth, Pending, InUse
<1>. QED
  BY <1>3, <1>4, <1>5, <1>6, <1>7, <1>8, <1>9, <1>10, <1>11, <1>12 DEF DInv

LEMMA CheckpointControlD ==
  ASSUME IInv, DInv, CheckpointControl
  PROVE  DInv'
<1>1. /\ pc = "advanced" /\ fs \in {"up", "unmounting"} /\ pc' = "checkpoint"
      /\ cache' = cache /\ disk' = disk /\ ring' = ring /\ j' = j /\ fs' = fs
      /\ ghost' = ghost /\ count' = count
  BY DEF CheckpointControl, IInv, TypeOK, HolderOK
<1>2. PendingLog /\ HomeCurrent /\ CacheCurrent /\ CommitsCurrent /\ CommitsBehind
      /\ CommitsAhead /\ Runtime /\ Running /\ Writing /\ Ages /\ Replaying /\ Smooth
  BY DEF DInv
<1>3. j.tail = j.head /\ ~Pending /\ NoneAfter(ring, j.ckpt)
  BY <1>1, <1>2 DEF Runtime, InUse, PendingLog, NoneAfter
<1>4. /\ ctl'.state = "IDLE" /\ ctl'.last = j.seq /\ ctl'.active = 0
      /\ ctl'.ckpt = j.ckpt /\ ctl'.head = j.head /\ ctl'.tail = j.tail
  BY <1>3 DEF CheckpointControl, Control
<1>5. PendingLog'
BY <1>1, <1>3 DEF PendingLog, Pending
<1>6. HomeCurrent'
BY <1>1, <1>2, <1>3 DEF HomeCurrent, Pending
<1>7. CacheCurrent'
  BY <1>1, <1>2 DEF CacheCurrent, InUse
<1>8. CommitsCurrent'
BY <1>1, <1>3, <1>4 DEF CommitsCurrent, NoneAfter
<1>9. CommitsBehind'
BY <1>1, <1>3, <1>4 DEF CommitsBehind
<1>10. CommitsAhead'
BY <1>4 DEF CommitsAhead
<1>11. Runtime'
  <2>1. ctl'.last = j.seq /\ ctl'.ckpt <= j.ckpt
    BY <1>4, RuntimeNumbers
  <2>. QED  BY <1>1, <1>2, <1>3, <2>1 DEF Runtime, Pending, InUse
<1>12. Running'
  BY <1>1, <1>2 DEF Running
<1>13. Writing'
  BY <1>1, <1>2 DEF Writing, Pending, Oldest
<1>14. Ages'
  BY <1>1, <1>2 DEF Ages
<1>15. Replaying'
  BY <1>1, <1>2 DEF Replaying, ScanStart, ScanDone, Pending, Oldest
<1>16. Smooth'
  <2>1. count.faults = 0 /\ ~ghost.torn => j.active = 0 /\ j.ckpt = j.seq
    BY <1>1, <1>2, <1>3 DEF Smooth, Runtime, InUse
  <2>. QED  BY <1>1, <1>2, <1>4, <2>1 DEF Smooth, InUse
<1>. QED
  BY <1>5, <1>6, <1>7, <1>8, <1>9, <1>10, <1>11, <1>12, <1>13, <1>14, <1>15, <1>16 DEF DInv

LEMMA MountCleanD ==
  ASSUME IInv, DInv, MountClean
  PROVE  DInv'
<1>1. /\ fs = "down" /\ fs' = "up" /\ pc = "free" /\ pc' = "free" /\ ctl.state = "IDLE"
      /\ cache' = disk /\ ctl.active = 0 /\ ctl.ckpt = ctl.last /\ j'.seq = ctl.last
      /\ j'.active = 0 /\ j'.ckpt = ctl.last /\ j'.head = ctl.head /\ j'.tail = ctl.tail
      /\ disk' = disk /\ ring' = ring /\ ctl' = ctl /\ seg' = seg /\ ghost' = ghost
      /\ count' = count
  BY DEF MountClean, IInv, TypeOK, HolderOK, FreshRuntime, FreshBuffers, ControlSettled
<1>2. PendingLog /\ HomeCurrent /\ CacheCurrent /\ CommitsCurrent /\ CommitsBehind
      /\ CommitsAhead /\ Runtime /\ Running /\ Writing /\ Ages /\ Replaying /\ Smooth
  BY DEF DInv
<1>3. ~Pending /\ NoneAfter(ring, ctl.ckpt) /\ ctl.head = ctl.tail
  BY <1>1, <1>2, ControlNumbers DEF PendingLog, CommitsBehind
<1>4. CommitsCurrent' /\ CommitsBehind' /\ CommitsAhead'
  BY <1>1, <1>2, LogFrozen
<1>5. PendingLog'
BY <1>1, <1>3 DEF PendingLog, Pending
<1>6. HomeCurrent'
  BY <1>1, <1>2 DEF HomeCurrent, Pending, Oldest
<1>7. CacheCurrent'
BY <1>1, <1>2, <1>3 DEF CacheCurrent, HomeCurrent, InUse
<1>8. Runtime'
BY <1>1, <1>3, ControlNumbers DEF Runtime, Pending, InUse, NoneAfter
<1>9. Running'
  BY <1>1, <1>2 DEF Running
<1>10. Writing'
  BY <1>1, <1>2 DEF Writing, Pending, Oldest
<1>11. Ages'
  BY <1>1, <1>2 DEF Ages
<1>12. Replaying'
  BY <1>1, <1>2 DEF Replaying, ScanStart, ScanDone, Pending, Oldest
<1>13. Smooth'
BY <1>1, <1>2 DEF Smooth
<1>. QED
  BY <1>4, <1>5, <1>6, <1>7, <1>8, <1>9, <1>10, <1>11, <1>12, <1>13 DEF DInv

LEMMA MountReplayD ==
  ASSUME IInv, DInv, MountReplay
  PROVE  DInv'
<1>1. /\ fs = "down" /\ fs' = "mounting" /\ pc = "free" /\ pc' = "scan" /\ cache' = disk
      /\ ctl.state = "IDLE" => ctl.active = 0 /\ ctl.ckpt = ctl.last
      /\ seg'.pos = IF ctl.state = "IDLE" THEN ctl.head ELSE ctl.tail
      /\ seg'.head = ctl.head /\ seg'.prev = ctl.ckpt /\ seg'.last = ctl.last /\ disk' = disk
      /\ ring' = ring /\ ctl' = ctl /\ j' = j /\ ghost' = ghost /\ count' = count
  BY DEF MountReplay, IInv, TypeOK, HolderOK, NoSegment, FreshBuffers, ControlSettled
<1>2. PendingLog /\ HomeCurrent /\ CacheCurrent /\ CommitsCurrent /\ CommitsBehind
      /\ CommitsAhead /\ Runtime /\ Running /\ Writing /\ Ages /\ Replaying /\ Smooth
  BY DEF DInv
<1>3. CommitsCurrent' /\ CommitsBehind' /\ CommitsAhead'
  BY <1>1, <1>2, LogFrozen
<1>4. PendingLog'
  BY <1>1, <1>2 DEF PendingLog, Pending, Oldest, InUse
<1>5. HomeCurrent'
  BY <1>1, <1>2 DEF HomeCurrent, Pending, Oldest
<1>6. CacheCurrent'
BY <1>1 DEF CacheCurrent, InUse
<1>7. Runtime'
  BY <1>1, <1>2 DEF Runtime, Fenced, Pending, Oldest, InUse
<1>8. Running'
  BY <1>1, <1>2 DEF Running
<1>9. Writing'
  BY <1>1, <1>2 DEF Writing, Pending, Oldest
<1>10. Ages'
  BY <1>1, <1>2 DEF Ages
<1>11. Replaying'
BY <1>1 DEF Replaying, ScanStart
<1>12. Smooth'
BY <1>1, <1>2 DEF Smooth, Pending, InUse
<1>. QED
  BY <1>3, <1>4, <1>5, <1>6, <1>7, <1>8, <1>9, <1>10, <1>11, <1>12 DEF DInv

LEMMA MountCorruptD ==
  ASSUME IInv, DInv, MountCorrupt
  PROVE  DInv'
<1>1. /\ fs = "down" /\ fs' = "down" /\ pc = "free" /\ pc' = "free" /\ disk' = disk
      /\ ring' = ring /\ ctl' = ctl /\ count' = count /\ ghost'.pend = ghost.pend
      /\ ghost'.durable = ghost.durable /\ ghost'.wrote = ghost.wrote
      /\ ghost'.torn = ghost.torn /\ ghost'.tid = ghost.tid
  BY DEF MountCorrupt, IInv, TypeOK, HolderOK, GhostType, MountRefused
<1>2. PendingLog /\ HomeCurrent /\ CacheCurrent /\ CommitsCurrent /\ CommitsBehind
      /\ CommitsAhead /\ Runtime /\ Running /\ Writing /\ Ages /\ Replaying /\ Smooth
  BY DEF DInv
<1>3. CommitsCurrent' /\ CommitsBehind' /\ CommitsAhead'
  BY <1>1, <1>2, LogFrozen
<1>4. PendingLog'
  BY <1>1, <1>2 DEF PendingLog, Pending, Oldest, InUse
<1>5. HomeCurrent'
  BY <1>1, <1>2 DEF HomeCurrent, Pending, Oldest
<1>6. CacheCurrent'
  BY <1>1, <1>2 DEF CacheCurrent, InUse
<1>7. Runtime'
  BY <1>1, <1>2 DEF Runtime, Fenced, Pending, Oldest, InUse
<1>8. Running'
  BY <1>1, <1>2 DEF Running
<1>9. Writing'
  BY <1>1, <1>2 DEF Writing, Pending, Oldest
<1>10. Ages'
  BY <1>1, <1>2 DEF Ages
<1>11. Replaying'
  BY <1>1, <1>2 DEF Replaying, ScanStart, ScanDone, Pending, Oldest
<1>12. Smooth'
  <2>1. ctl.state = "IDLE" /\ ~(ctl.active = 0 /\ ctl.ckpt = ctl.last)
    BY DEF MountCorrupt, IInv, ControlSettled
  <2>. QED  BY <1>1, <1>2, <2>1 DEF Smooth
<1>. QED
  BY <1>3, <1>4, <1>5, <1>6, <1>7, <1>8, <1>9, <1>10, <1>11, <1>12 DEF DInv

LEMMA ReplaySegmentD ==
  ASSUME IInv, DInv, ReplaySegment
  PROVE  DInv'
<1>1. /\ fs = "mounting" /\ pc = "scan" /\ pc' = "replay" /\ cache' = cache /\ disk' = disk
      /\ ring' = ring /\ ctl' = ctl /\ j' = j /\ fs' = fs /\ ghost' = ghost /\ count' = count
  BY DEF ReplaySegment, IInv, TypeOK, HolderOK
<1>2. PendingLog /\ HomeCurrent /\ CacheCurrent /\ CommitsCurrent /\ CommitsBehind
      /\ CommitsAhead /\ Runtime /\ Running /\ Writing /\ Ages /\ Replaying /\ Smooth
  BY DEF DInv
<1>. DEFINE d == ring[seg.pos]
<1>3. /\ d \in DescriptorType /\ d.commit \in RingPos /\ d.seq > seg.prev /\ seg.pos # seg.head
      /\ ring[d.commit].t = "commit" /\ ring[d.commit].flag /\ ring[d.commit].of = d
  <2>1. seg.pos \in RingPos /\ ring[seg.pos].t = "descriptor"
    BY <1>1 DEF IInv, PointersOK, ReplaySegment, ScanReadable, DescriptorValid
  <2>2. d \in DescriptorType
    BY <2>1, DescriptorSlot DEF IInv, TypeOK
  <2>. QED  BY <2>2 DEF ReplaySegment, ScanReadable, DescriptorValid, ScanCommitted,
              CommitMatches, CommitFlagged, ScanIntact, DescriptorChecksumValid
<1>4. seg'.d = d /\ seg'.i = 0 /\ seg'.head = seg.head
  BY DEF ReplaySegment, IInv, TypeOK, LocalsType
<1>. HIDE DEF d
<1>5. Fresh(ring, seg.prev, d.commit)
  BY <1>3 DEF Fresh, Flagged
<1>6. ScanStart /\ ctl.state # "IDLE" /\ seg.head = ctl.head
  BY <1>1, <1>2, <1>3, <1>5 DEF Replaying, ScanDone, ScanStart, NoneAfter
<1>7. /\ Fresh(ring, ctl.ckpt, d.commit) /\ d.seq > ctl.ckpt
      /\ Current(ghost.durable, d) /\ (Pending => d.commit = Oldest.d.commit)
      /\ \A q \in RingPos : Fresh(ring, ctl.ckpt, q) => q = d.commit
  BY <1>2, <1>3, <1>5, <1>6 DEF CommitsCurrent, ScanStart
<1>8. NoneAfter(ring, d.seq)
  <2>. SUFFICES ASSUME NEW p \in RingPos, Fresh(ring, d.seq, p) PROVE FALSE
    BY DEF NoneAfter
  <2>1. d.seq \in Nat /\ ctl.ckpt <= d.seq
    BY <1>3, <1>7, ControlNumbers DEF DescriptorType
  <2>2. p = d.commit
    BY <1>7, <2>1, FreshFloor, ControlNumbers
  <2>. QED  BY <1>3, <2>1, <2>2 DEF Fresh
<1>9. Pending => d = Oldest.d
  BY <1>2, <1>3, <1>7 DEF PendingLog, Stored, Commit
<1>10. Len(d.homes) \in Nat /\ 0 <= Len(d.homes)
  BY <1>3 DEF DescriptorType
<1>11. CommitsCurrent' /\ CommitsBehind' /\ CommitsAhead'
  BY <1>1, <1>2, LogFrozen
<1>12. PendingLog'
  BY <1>1, <1>2 DEF PendingLog, Pending, Oldest, InUse
<1>13. HomeCurrent'
  <2>1. Pending => \A k \in 1 .. Len(Oldest.d.homes) : k > 0
    BY OldestType
  <2>. QED  BY <1>1, <1>2, <1>4, <2>1 DEF HomeCurrent, Pending, Oldest
<1>14. CacheCurrent'
  BY <1>1, <1>2 DEF CacheCurrent, InUse
<1>15. Runtime'
  BY <1>1, <1>2 DEF Runtime, Fenced, Pending, Oldest, InUse
<1>16. Running'
  BY <1>1, <1>2 DEF Running
<1>17. Writing'
  BY <1>1, <1>2 DEF Writing, Pending, Oldest
<1>18. Ages'
  BY <1>1, <1>2 DEF Ages
<1>19. Replaying'
BY <1>1, <1>2, <1>4, <1>6, <1>7, <1>8, <1>9, <1>10 DEF Replaying, Pending, Oldest
<1>20. Smooth'
  <2>1. count.faults = 0 /\ ~ghost.torn => SegmentEnd(d) = ctl.head
    <3>1. count.faults = 0 /\ ~ghost.torn => LogReadable(ring, ctl) /\ seg.pos = ctl.tail
      BY <1>1, <1>2, <1>3, <1>6 DEF Smooth
    <3>. QED  BY <3>1 DEF LogReadable, d
  <2>. QED  BY <1>1, <1>2, <1>4, <2>1 DEF Smooth, Pending, InUse
<1>. QED
  BY <1>11, <1>12, <1>13, <1>14, <1>15, <1>16, <1>17, <1>18, <1>19, <1>20 DEF DInv

LEMMA ReplayHomeD ==
  ASSUME IInv, DInv, ReplayHome
  PROVE  DInv'
<1>1. /\ fs = "mounting" /\ pc = "replay" /\ pc' = "replay" /\ ring' = ring /\ ctl' = ctl
      /\ j' = j /\ fs' = fs /\ pc' = pc /\ ghost' = ghost /\ count' = count
  BY DEF ReplayHome, IInv, TypeOK, HolderOK
<1>2. PendingLog /\ HomeCurrent /\ CacheCurrent /\ CommitsCurrent /\ CommitsBehind
      /\ CommitsAhead /\ Runtime /\ Running /\ Writing /\ Ages /\ Replaying /\ Smooth
  BY DEF DInv
<1>3. /\ (Pending => seg.d = Oldest.d) /\ Current(ghost.durable, seg.d)
      /\ seg.i < Len(seg.d.homes)
  BY <1>1, <1>2 DEF Replaying, ReplayHome
<1>4. HomeWritten /\ PayloadsValid(seg.d)
  BY <1>1 DEF ReplayHome, IInv, SegmentOK
<1>5. /\ seg'.i = seg.i + 1 /\ seg'.d = seg.d /\ seg'.i <= Len(seg.d.homes)
      /\ seg'.head = seg.head
      /\ \A c \in Home : c = seg.d.homes[seg.i + 1] =>
           disk'[c] >= ghost.durable[c] /\ cache'[c] = disk'[c]
      /\ \A c \in Home : c # seg.d.homes[seg.i + 1] => cache'[c] = cache[c] /\ disk'[c] = disk[c]
      /\ \A k \in 1 .. Len(seg.d.homes) : k > seg.i => k = seg.i + 1 \/ k > seg.i + 1
  BY <1>1, <1>3, <1>4, HomeWrittenFacts
<1>6. CommitsCurrent' /\ CommitsBehind' /\ CommitsAhead'
  BY <1>1, <1>2, LogFrozen
<1>7. PendingLog'
  BY <1>1, <1>2 DEF PendingLog, Pending, Oldest, InUse
<1>8. HomeCurrent'
  <2>. SUFFICES ASSUME NEW b \in Home, ~(disk'[b] >= ghost.durable[b])
                PROVE  /\ Pending
                       /\ \E k \in 1 .. Len(Oldest.d.homes) :
                            Oldest.d.homes[k] = b /\ k > seg.i + 1
    BY <1>1, <1>5 DEF HomeCurrent, Pending, Oldest
  <2>1. disk'[b] = disk[b] /\ b # seg.d.homes[seg.i + 1]
    BY <1>5
  <2>2. Pending
    BY <1>2, <2>1 DEF HomeCurrent
  <2>3. PICK k \in 1 .. Len(Oldest.d.homes) : Oldest.d.homes[k] = b /\ k > seg.i
    BY <1>1, <1>2, <2>1 DEF HomeCurrent
  <2>. QED  BY <1>3, <1>5, <2>1, <2>2, <2>3
<1>9. CacheCurrent'
BY <1>1, <1>2, <1>5 DEF CacheCurrent, InUse
<1>10. Runtime'
  BY <1>1, <1>2 DEF Runtime, Fenced, Pending, Oldest, InUse
<1>11. Running'
  BY <1>1, <1>2 DEF Running
<1>12. Writing'
  BY <1>1, <1>2 DEF Writing, Pending, Oldest
<1>13. Ages'
  BY <1>1, <1>2 DEF Ages
<1>14. Replaying'
BY <1>1, <1>2, <1>5 DEF Replaying, Pending, Oldest
<1>15. Smooth'
BY <1>1, <1>2, <1>5 DEF Smooth, Pending, InUse
<1>. QED
  BY <1>6, <1>7, <1>8, <1>9, <1>10, <1>11, <1>12, <1>13, <1>14, <1>15 DEF DInv

LEMMA ReplayNextD ==
  ASSUME IInv, DInv, ReplayNext
  PROVE  DInv'
<1>1. /\ fs = "mounting" /\ pc = "replay" /\ pc' = "scan" /\ seg'.pos = SegmentEnd(seg.d)
      /\ seg'.prev = seg.d.seq /\ seg'.last = seg.d.seq /\ seg'.head = seg.head
      /\ seg.i = Len(seg.d.homes) /\ cache' = cache /\ disk' = disk /\ ring' = ring
      /\ ctl' = ctl /\ j' = j /\ fs' = fs /\ ghost' = ghost /\ count' = count
  BY DEF ReplayNext, IInv, TypeOK, HolderOK, LocalsType
<1>2. PendingLog /\ HomeCurrent /\ CacheCurrent /\ CommitsCurrent /\ CommitsBehind
      /\ CommitsAhead /\ Runtime /\ Running /\ Writing /\ Ages /\ Replaying /\ Smooth
  BY DEF DInv
<1>3. /\ ctl.state # "IDLE" /\ seg.d.seq > ctl.ckpt /\ NoneAfter(ring, seg.d.seq)
      /\ (Pending => seg.d = Oldest.d) /\ seg.head = ctl.head
  BY <1>1, <1>2 DEF Replaying
<1>4. \A b \in Home : disk[b] >= ghost.durable[b]
  <2>1. Pending => \A k \in 1 .. Len(Oldest.d.homes) : ~(k > seg.i)
    BY <1>1, <1>3, LocalNumbers, OldestType
  <2>. QED  BY <1>1, <1>2, <2>1 DEF HomeCurrent
<1>5. CommitsCurrent' /\ CommitsBehind' /\ CommitsAhead'
  BY <1>1, <1>2, LogFrozen
<1>6. PendingLog'
  BY <1>1, <1>2 DEF PendingLog, Pending, Oldest, InUse
<1>7. HomeCurrent'
BY <1>1, <1>4 DEF HomeCurrent
<1>8. CacheCurrent'
  BY <1>1, <1>2 DEF CacheCurrent, InUse
<1>9. Runtime'
  BY <1>1, <1>2 DEF Runtime, Fenced, Pending, Oldest, InUse
<1>10. Running'
  BY <1>1, <1>2 DEF Running
<1>11. Writing'
  BY <1>1, <1>2 DEF Writing, Pending, Oldest
<1>12. Ages'
  BY <1>1, <1>2 DEF Ages
<1>13. Replaying'
BY <1>1, <1>2, <1>3, <1>4 DEF Replaying, ScanDone, PendingLog, Pending, Oldest
<1>14. Smooth'
BY <1>1, <1>2, <1>3 DEF Smooth, Pending, InUse
<1>. QED
  BY <1>5, <1>6, <1>7, <1>8, <1>9, <1>10, <1>11, <1>12, <1>13, <1>14 DEF DInv

LEMMA ScanCorruptD ==
  ASSUME IInv, DInv, ScanCorrupt
  PROVE  DInv'
<1>1. /\ fs = "mounting" /\ pc = "scan" /\ fs' = "down" /\ pc' = "free" /\ disk' = disk
      /\ ring' = ring /\ ctl' = ctl /\ count' = count /\ cache' = cache
      /\ ghost'.pend = ghost.pend /\ ghost'.durable = ghost.durable
      /\ ghost'.wrote = ghost.wrote /\ ghost'.torn = ghost.torn /\ ghost'.tid = ghost.tid
  BY DEF ScanCorrupt, IInv, TypeOK, HolderOK, GhostType, MountRefused
<1>2. PendingLog /\ HomeCurrent /\ CacheCurrent /\ CommitsCurrent /\ CommitsBehind
      /\ CommitsAhead /\ Runtime /\ Running /\ Writing /\ Ages /\ Replaying /\ Smooth
  BY DEF DInv
<1>3. ~(count.faults = 0 /\ ~ghost.torn)
  <2>. SUFFICES ASSUME count.faults = 0, ~ghost.torn PROVE FALSE
    OBVIOUS
  <2>. DEFINE d == ring[seg.pos]
  <2>1. seg.pos # seg.head /\ seg.head = ctl.head /\ seg.pos = ctl.tail /\ seg.prev = ctl.ckpt
    BY <1>1, <1>2 DEF Smooth, Replaying, ScanCorrupt
  <2>2. ctl.state # "IDLE"
    BY <2>1, ControlNumbers
  <2>3. LogReadable(ring, ctl)
    BY <1>1, <1>2, <2>2 DEF Smooth
  <2>4. ScanReadable /\ SegmentEnd(d) = seg.head
    BY <2>1, <2>3 DEF LogReadable, Readable, ScanReadable, DescriptorValid
  <2>5. ScanCommitted /\ ~ScanIntact
    BY <2>4 DEF ScanCorrupt
  <2>6. Flagged(ring, d.commit) /\ ring[d.commit].of.seq = d.seq
    BY <2>5 DEF ScanCommitted, CommitMatches, CommitFlagged, Flagged
  <2>7. Stored(ring, [pos |-> ctl.tail, d |-> d])
    BY <2>1, <2>3, <2>6 DEF LogReadable
  <2>8. DescriptorChecksumValid(d) /\ ring[d.commit].of.sums = d.sums
    BY <2>7 DEF Stored, Commit, DescriptorChecksumValid
  <2>9. \A i \in 1 .. Len(d.homes) : ring[d.payload + i - 1] = Payload(d.sums[i])
    BY <2>7 DEF Stored
  <2>10. \A i \in 1 .. Len(d.homes) : d.payload + i - 1 \in RingPos
    <3>1. seg.pos \in RingPos /\ d.t = "descriptor"
      BY <1>1, <2>4 DEF IInv, PointersOK, ScanReadable, DescriptorValid
    <3>2. d \in DescriptorType
      BY <3>1, DescriptorSlot DEF IInv, TypeOK
    <3>3. Placed(seg.pos, d)
      BY <2>1, <2>4, <2>6, <3>1 DEF Placed, ScanReadable, DescriptorValid, Flagged
    <3>. HIDE DEF d
    <3>. QED  BY <3>2, <3>3, PlacedFacts
  <2>. QED  BY <2>5, <2>8, <2>9, <2>10 DEF ScanIntact, PayloadsValid
<1>4. CommitsCurrent' /\ CommitsBehind' /\ CommitsAhead'
  BY <1>1, <1>2, LogFrozen
<1>5. PendingLog'
  BY <1>1, <1>2 DEF PendingLog, Pending, Oldest, InUse
<1>6. HomeCurrent'
BY <1>1, <1>2 DEF HomeCurrent, Pending, Oldest
<1>7. CacheCurrent'
BY <1>1 DEF CacheCurrent, InUse
<1>8. Runtime'
  BY <1>1, <1>2 DEF Runtime, Fenced, Pending, Oldest, InUse
<1>9. Running'
  BY <1>1, <1>2 DEF Running
<1>10. Writing'
  BY <1>1, <1>2 DEF Writing, Pending, Oldest
<1>11. Ages'
  BY <1>1, <1>2 DEF Ages
<1>12. Replaying'
  BY <1>1, <1>2 DEF Replaying, ScanStart, ScanDone, Pending, Oldest
<1>13. Smooth'
BY <1>1, <1>3 DEF Smooth
<1>. QED
  BY <1>4, <1>5, <1>6, <1>7, <1>8, <1>9, <1>10, <1>11, <1>12, <1>13 DEF DInv

LEMMA ReplayDiscardD ==
  ASSUME IInv, DInv, ReplayDiscard
  PROVE  DInv'
<1>1. /\ fs = "mounting" /\ pc = "scan" /\ pc' = "reset_descriptor"
      /\ \A c \in Home : cache'[c] = cache[c] /\ disk'[c] = disk[c]
      /\ j'.seq = seg.last /\ j'.ckpt = seg.last /\ ghost'.pend = <<>>
      /\ ghost'.durable = ghost.durable /\ ghost'.wrote = ghost.wrote
      /\ ghost'.torn = ghost.torn /\ ghost'.euclean = ghost.euclean /\ ghost'.tid = ghost.tid
      /\ ring' = ring /\ ctl' = ctl /\ fs' = fs /\ seg' = seg /\ count' = count
  BY RingAssumption DEF ReplayDiscard, IInv, TypeOK, HolderOK, GhostType, RuntimeType, Block
<1>2. PendingLog /\ HomeCurrent /\ CacheCurrent /\ CommitsCurrent /\ CommitsBehind
      /\ CommitsAhead /\ Runtime /\ Running /\ Writing /\ Ages /\ Replaying /\ Smooth
  BY DEF DInv
<1>. DEFINE d == ring[seg.pos]
<1>3. \/ seg.pos = seg.head
      \/ ScanReadable /\ ~ScanCommitted
  BY DEF ReplayDiscard
<1>4. /\ seg.head = ctl.head /\ (ScanStart \/ ScanDone)
      /\ seg.pos \in RingPos
  BY <1>1, <1>2 DEF Replaying, IInv, PointersOK
<1>5. ScanStart => ~Pending
  <2>. SUFFICES ASSUME ScanStart, Pending PROVE FALSE
    OBVIOUS
  <2>1. /\ seg.pos = Oldest.pos /\ seg.head = SegmentEnd(Oldest.d) /\ Placed(Oldest.pos, Oldest.d)
        /\ Stored(ring, Oldest)
    BY <1>2, <1>4 DEF PendingLog, ScanStart
  <2>2. seg.pos # seg.head /\ d = Oldest.d /\ Oldest.d.commit \in RingPos
    BY <2>1 DEF Placed, Stored
  <2>3. ScanCommitted
    BY <2>1, <2>2 DEF Stored, Commit, ScanCommitted, CommitMatches, CommitFlagged
  <2>. QED  BY <1>3, <2>2, <2>3
<1>6. \A b \in Home : disk[b] >= ghost.durable[b]
  BY <1>2, <1>4, <1>5 DEF ScanDone, HomeCurrent
<1>7. NoneAfter(ring, seg.last)
  <2>1. CASE ScanDone
    BY <2>1 DEF ScanDone
  <2>2. CASE ScanStart /\ ctl.state = "IDLE"
    BY <1>2, <2>2 DEF ScanStart, CommitsBehind
  <2>3. CASE ScanStart /\ ctl.state # "IDLE"
    <3>. SUFFICES ASSUME NEW p \in RingPos, Fresh(ring, ctl.last, p) PROVE FALSE
      BY <2>3 DEF ScanStart, NoneAfter
    <3>1. Ahead(ring, ctl, p) /\ seg.pos = ctl.tail /\ seg.prev = ctl.ckpt
      BY <1>2, <2>3 DEF CommitsAhead, ScanStart
    <3>2. seg.pos # seg.head
      BY <1>4, <3>1 DEF Ahead, Placed
    <3>3. Readable(ring, ctl.tail, ctl.ckpt) /\ ~ScanCommitted
      BY <1>3, <3>1, <3>2 DEF ScanReadable, DescriptorValid, Readable
    <3>4. d = ring[p].of /\ d.commit = p /\ ring[p].pos = seg.pos
      BY <3>1, <3>3 DEF Ahead
    <3>5. ScanCommitted
      BY <3>4 DEF Fresh, Flagged, ScanCommitted, CommitMatches, CommitFlagged
    <3>. QED  BY <3>3, <3>5
  <2>. QED  BY <1>4, <2>1, <2>2, <2>3
<1>8. PendingLog'
BY <1>1 DEF PendingLog, Pending
<1>9. HomeCurrent'
BY <1>1, <1>6 DEF HomeCurrent
<1>10. CacheCurrent'
BY <1>1, <1>2 DEF CacheCurrent, InUse
<1>11. CommitsCurrent'
BY <1>1, <1>2 DEF CommitsCurrent, Pending
<1>12. CommitsBehind'
BY <1>1, <1>2 DEF CommitsBehind
<1>13. CommitsAhead'
BY <1>1, <1>2 DEF CommitsAhead
<1>14. Runtime'
BY <1>1 DEF Runtime, InUse
<1>15. Running'
  BY <1>1, <1>2 DEF Running
<1>16. Writing'
  BY <1>1, <1>2 DEF Writing, Pending, Oldest
<1>17. Ages'
  BY <1>1, <1>2 DEF Ages
<1>18. Replaying'
BY <1>1, <1>7 DEF Replaying
<1>19. Smooth'
BY <1>1, <1>2 DEF Smooth, InUse
<1>. QED
  BY <1>8, <1>9, <1>10, <1>11, <1>12, <1>13, <1>14, <1>15, <1>16, <1>17, <1>18, <1>19 DEF DInv

LEMMA ResetDescriptorD ==
  ASSUME IInv, DInv, ResetDescriptor
  PROVE  DInv'
<1>1. /\ fs = "mounting" /\ pc = "reset_descriptor" /\ pc' = "reset_commit" /\ cache' = cache
      /\ disk' = disk /\ ctl' = ctl /\ j' = j /\ fs' = fs /\ seg' = seg /\ ghost' = ghost
      /\ count' = count
  BY DEF ResetDescriptor, IInv, TypeOK, HolderOK
<1>2. PendingLog /\ HomeCurrent /\ CacheCurrent /\ CommitsCurrent /\ CommitsBehind
      /\ CommitsAhead /\ Runtime /\ Running /\ Writing /\ Ages /\ Replaying /\ Smooth
  BY DEF DInv
<1>3. /\ ~Pending /\ NoneAfter(ring, j.ckpt) /\ j.seq = j.ckpt
  BY <1>1, <1>2 DEF PendingLog, Replaying
<1>4. /\ RingStart \in RingPos /\ RingEnd - 1 \in RingPos
      /\ RingEnd - 1 # RingStart /\ RingEnd - 1 # RingStart + 1
  BY RingNumbers
<1>. DEFINE e == EmptyDescriptor(j.seq)
<1>5. /\ e.t = "descriptor" /\ e.homes = <<>> /\ e.payload = RingStart + 1
      /\ e.commit = RingEnd - 1
  BY DEF EmptyDescriptor, Descriptor
<1>. HIDE DEF e

<1>7. /\ ring'[RingStart] = e
      /\ \A p \in RingPos : p # RingStart => ring'[p] = ring[p]
  BY <1>4 DEF ResetDescriptor, IInv, TypeOK, e
<1>12. \A p \in RingPos : Flagged(ring', p) => Flagged(ring, p) /\ ring'[p] = ring[p]
  BY <1>5, <1>7 DEF Flagged
<1>13. PendingLog'
BY <1>1, <1>3 DEF PendingLog, Pending
<1>14. HomeCurrent'
BY <1>1, <1>2, <1>3 DEF HomeCurrent, Pending
<1>15. CacheCurrent'
BY <1>1, <1>2 DEF CacheCurrent, InUse
<1>16. CommitsCurrent'
BY <1>1, <1>2, <1>12, CommitsRemoved
<1>17. CommitsBehind'
BY <1>1, <1>2, <1>12, CommitsRemoved
<1>18. CommitsAhead'
  <2>. SUFFICES ASSUME ctl.state # "IDLE", NEW p \in RingPos, Fresh(ring', ctl.last, p)
                PROVE  Ahead(ring', ctl, p)
    BY <1>1 DEF CommitsAhead
  <2>1. Fresh(ring, ctl.last, p) /\ ring'[p] = ring[p]
    BY <1>12 DEF Fresh
  <2>2. Ahead(ring, ctl, p) /\ ctl.tail \in RingPos
    BY <1>2, <2>1, ControlNumbers DEF CommitsAhead
  <2>3. CASE ctl.tail # RingStart
    <3>1. ring'[ctl.tail] = ring[ctl.tail]
      BY <1>7, <2>2, <2>3
    <3>. QED  BY <2>1, <2>2, <3>1 DEF Ahead, Readable
  <2>4. CASE ctl.tail = RingStart
    <3>1. ~Readable(ring', ctl.tail, ctl.ckpt)
      BY <1>4, <1>5, <1>7, <2>4, RingNumbers DEF Readable
    <3>. QED  BY <2>1, <2>2, <3>1 DEF Ahead
  <2>. QED  BY <2>3, <2>4
<1>19. Runtime'
BY <1>1 DEF Runtime, InUse
<1>20. Running'
  BY <1>1, <1>2 DEF Running
<1>21. Writing'
  BY <1>1, <1>2 DEF Writing, Pending, Oldest
<1>22. Ages'
  BY <1>1, <1>2 DEF Ages
<1>23. Replaying'
  <2>1. NoneAfter(ring', j.ckpt)
    BY <1>1, <1>3, <1>12, CommitsRemoved
  <2>. QED  BY <1>1, <1>2, <2>1 DEF Replaying
<1>24. Smooth'
BY <1>1, <1>2 DEF Smooth, InUse
<1>. QED
  BY <1>13, <1>14, <1>15, <1>16, <1>17, <1>18, <1>19, <1>20, <1>21, <1>22, <1>23, <1>24 DEF DInv

LEMMA ResetCommitD ==
  ASSUME IInv, DInv, ResetCommit
  PROVE  DInv'
<1>1. /\ fs = "mounting" /\ pc = "reset_commit" /\ pc' = "reset_control" /\ cache' = cache
      /\ disk' = disk /\ ctl' = ctl /\ j' = j /\ fs' = fs /\ seg' = seg /\ ghost' = ghost
      /\ count' = count
  BY DEF ResetCommit, IInv, TypeOK, HolderOK
<1>2. PendingLog /\ HomeCurrent /\ CacheCurrent /\ CommitsCurrent /\ CommitsBehind
      /\ CommitsAhead /\ Runtime /\ Running /\ Writing /\ Ages /\ Replaying /\ Smooth
  BY DEF DInv
<1>3. /\ ~Pending /\ NoneAfter(ring, j.ckpt) /\ j.seq = j.ckpt
  BY <1>1, <1>2 DEF PendingLog, Replaying
<1>4. /\ RingStart \in RingPos /\ RingEnd - 1 \in RingPos
      /\ RingEnd - 1 # RingStart /\ RingEnd - 1 # RingStart + 1
  BY RingNumbers
<1>. DEFINE e == EmptyDescriptor(j.seq)
<1>5. /\ e.t = "descriptor" /\ e.homes = <<>> /\ e.payload = RingStart + 1
      /\ e.commit = RingEnd - 1
  BY DEF EmptyDescriptor, Descriptor
<1>. HIDE DEF e

<1>6. Commit(e, FALSE, RingStart).t = "commit" /\ ~Commit(e, FALSE, RingStart).flag
  BY DEF Commit
<1>7. /\ ring'[RingEnd - 1] = Commit(e, FALSE, RingStart)
      /\ \A p \in RingPos : p # RingEnd - 1 => ring'[p] = ring[p]
  BY <1>4 DEF ResetCommit, IInv, TypeOK, e
<1>12. \A p \in RingPos : Flagged(ring', p) => Flagged(ring, p) /\ ring'[p] = ring[p]
  BY <1>6, <1>7 DEF Flagged
<1>13. PendingLog'
BY <1>1, <1>3 DEF PendingLog, Pending
<1>14. HomeCurrent'
BY <1>1, <1>2, <1>3 DEF HomeCurrent, Pending
<1>15. CacheCurrent'
BY <1>1, <1>2 DEF CacheCurrent, InUse
<1>16. CommitsCurrent'
BY <1>1, <1>2, <1>12, CommitsRemoved
<1>17. CommitsBehind'
BY <1>1, <1>2, <1>12, CommitsRemoved
<1>18. CommitsAhead'
  <2>. SUFFICES ASSUME ctl.state # "IDLE", NEW p \in RingPos, Fresh(ring', ctl.last, p)
                PROVE  Ahead(ring', ctl, p)
    BY <1>1 DEF CommitsAhead
  <2>1. Fresh(ring, ctl.last, p) /\ ring'[p] = ring[p]
    BY <1>12 DEF Fresh
  <2>2. Ahead(ring, ctl, p) /\ ctl.tail \in RingPos
    BY <1>2, <2>1, ControlNumbers DEF CommitsAhead
  <2>3. CASE ctl.tail # RingEnd - 1
    <3>1. ring'[ctl.tail] = ring[ctl.tail]
      BY <1>7, <2>2, <2>3
    <3>. QED  BY <2>1, <2>2, <3>1 DEF Ahead, Readable
  <2>4. CASE ctl.tail = RingEnd - 1
    <3>1. ~Readable(ring', ctl.tail, ctl.ckpt)
      BY <1>6, <1>7, <2>4 DEF Readable
    <3>. QED  BY <2>1, <2>2, <3>1 DEF Ahead
  <2>. QED  BY <2>3, <2>4
<1>19. Runtime'
BY <1>1 DEF Runtime, InUse
<1>20. Running'
  BY <1>1, <1>2 DEF Running
<1>21. Writing'
  BY <1>1, <1>2 DEF Writing, Pending, Oldest
<1>22. Ages'
  BY <1>1, <1>2 DEF Ages
<1>23. Replaying'
  <2>1. NoneAfter(ring', j.ckpt)
    BY <1>1, <1>3, <1>12, CommitsRemoved
  <2>. QED  BY <1>1, <1>2, <2>1 DEF Replaying
<1>24. Smooth'
BY <1>1, <1>2 DEF Smooth, InUse
<1>. QED
  BY <1>13, <1>14, <1>15, <1>16, <1>17, <1>18, <1>19, <1>20, <1>21, <1>22, <1>23, <1>24 DEF DInv

LEMMA ResetControlD ==
  ASSUME IInv, DInv, ResetControl
  PROVE  DInv'
<1>1. /\ fs = "mounting" /\ pc = "reset_control" /\ fs' = "up" /\ pc' = "free"
      /\ cache' = cache /\ disk' = disk /\ ring' = ring /\ ghost' = ghost /\ count' = count
      /\ j'.seq = j.seq /\ j'.active = 0 /\ j'.ckpt = j.ckpt /\ j'.head = j.head
      /\ j'.tail = j.tail /\ j'.homes = <<>> /\ ~j'.err /\ j.tail = j.head
  BY DEF ResetControl, IInv, TypeOK, HolderOK, PointersOK, ClearRuntime, RuntimeType
<1>2. PendingLog /\ HomeCurrent /\ CacheCurrent /\ CommitsCurrent /\ CommitsBehind
      /\ CommitsAhead /\ Runtime /\ Running /\ Writing /\ Ages /\ Replaying /\ Smooth
  BY DEF DInv
<1>3. /\ ~Pending /\ NoneAfter(ring, j.ckpt) /\ j.seq = j.ckpt
  BY <1>1, <1>2 DEF PendingLog, Replaying
<1>4. /\ ctl'.state = "IDLE" /\ ctl'.last = j.seq /\ ctl'.active = 0
      /\ ctl'.ckpt = j.seq
  BY DEF ResetControl, Control
<1>5. PendingLog'
BY <1>1, <1>3 DEF PendingLog, Pending
<1>6. HomeCurrent'
BY <1>1, <1>2, <1>3 DEF HomeCurrent, Pending
<1>7. CacheCurrent'
BY <1>1, <1>2, <1>3 DEF CacheCurrent, HomeCurrent, InUse
<1>8. CommitsCurrent'
BY <1>1, <1>3, <1>4 DEF CommitsCurrent, NoneAfter
<1>9. CommitsBehind'
BY <1>1, <1>3, <1>4 DEF CommitsBehind
<1>10. CommitsAhead'
BY <1>4 DEF CommitsAhead
<1>11. Runtime'
BY <1>1, <1>3, <1>4, RuntimeNumbers DEF Runtime, Pending, InUse, NoneAfter
<1>12. Running'
  BY <1>1, <1>2 DEF Running
<1>13. Writing'
  BY <1>1, <1>2 DEF Writing, Pending, Oldest
<1>14. Ages'
  BY <1>1, <1>2 DEF Ages
<1>15. Replaying'
  BY <1>1, <1>2 DEF Replaying, ScanStart, ScanDone, Pending, Oldest
<1>16. Smooth'
BY <1>1, <1>2, <1>4 DEF Smooth
<1>. QED
  BY <1>5, <1>6, <1>7, <1>8, <1>9, <1>10, <1>11, <1>12, <1>13, <1>14, <1>15, <1>16 DEF DInv

LEMMA UnmountD ==
  ASSUME IInv, DInv, Unmount
  PROVE  DInv'
<1>1. /\ pc = "free" /\ fs = "up" /\ fs' = "unmounting" /\ pc' = "checkpoint"
      /\ cache' = cache /\ disk' = disk /\ ring' = ring /\ ctl' = ctl /\ j' = j /\ seg' = seg
      /\ ghost' = ghost /\ count' = count
  BY DEF Unmount, IInv, TypeOK
<1>2. PendingLog /\ HomeCurrent /\ CacheCurrent /\ CommitsCurrent /\ CommitsBehind
      /\ CommitsAhead /\ Runtime /\ Running /\ Writing /\ Ages /\ Replaying /\ Smooth
  BY DEF DInv
<1>3. CommitsCurrent' /\ CommitsBehind' /\ CommitsAhead'
  BY <1>1, <1>2, LogFrozen
<1>4. PendingLog'
  BY <1>1, <1>2 DEF PendingLog, Pending, Oldest, InUse
<1>5. HomeCurrent'
  BY <1>1, <1>2 DEF HomeCurrent, Pending, Oldest
<1>6. CacheCurrent'
  BY <1>1, <1>2 DEF CacheCurrent, InUse
<1>7. Runtime'
  BY <1>1, <1>2 DEF Runtime, Fenced, Pending, Oldest, InUse
<1>8. Running'
  BY <1>1, <1>2 DEF Running
<1>9. Writing'
  BY <1>1, <1>2 DEF Writing, Pending, Oldest
<1>10. Ages'
  BY <1>1, <1>2 DEF Ages
<1>11. Replaying'
  BY <1>1, <1>2 DEF Replaying, ScanStart, ScanDone, Pending, Oldest
<1>12. Smooth'
  BY <1>1, <1>2 DEF Smooth, Pending, InUse
<1>. QED
  BY <1>3, <1>4, <1>5, <1>6, <1>7, <1>8, <1>9, <1>10, <1>11, <1>12 DEF DInv

LEMMA UnmountDoneD ==
  ASSUME IInv, DInv, UnmountDone
  PROVE  DInv'
<1>1. /\ pc = "free" /\ fs = "unmounting" /\ fs' = "down" /\ pc' = "free" /\ cache' = cache
      /\ disk' = disk /\ ring' = ring /\ ctl' = ctl /\ seg' = seg /\ ghost' = ghost
      /\ count' = count
  BY DEF UnmountDone, IInv, TypeOK
<1>2. PendingLog /\ HomeCurrent /\ CacheCurrent /\ CommitsCurrent /\ CommitsBehind
      /\ CommitsAhead /\ Runtime /\ Running /\ Writing /\ Ages /\ Replaying /\ Smooth
  BY DEF DInv
<1>3. CommitsCurrent' /\ CommitsBehind' /\ CommitsAhead'
  BY <1>1, <1>2, LogFrozen
<1>4. PendingLog'
  BY <1>1, <1>2 DEF PendingLog, Pending, Oldest, InUse
<1>5. HomeCurrent'
  BY <1>1, <1>2 DEF HomeCurrent, Pending, Oldest
<1>6. CacheCurrent'
  BY <1>1, <1>2 DEF CacheCurrent, InUse
<1>7. Runtime'
BY <1>1 DEF Runtime, InUse
<1>8. Running'
  BY <1>1, <1>2 DEF Running
<1>9. Writing'
  BY <1>1, <1>2 DEF Writing, Pending, Oldest
<1>10. Ages'
  BY <1>1, <1>2 DEF Ages
<1>11. Replaying'
  BY <1>1, <1>2 DEF Replaying, ScanStart, ScanDone, Pending, Oldest
<1>12. Smooth'
  BY <1>1, <1>2 DEF Smooth, Pending, InUse
<1>. QED
  BY <1>3, <1>4, <1>5, <1>6, <1>7, <1>8, <1>9, <1>10, <1>11, <1>12 DEF DInv

LEMMA CrashD ==
  ASSUME IInv, DInv, Crash
  PROVE  DInv'
<1>1. /\ fs # "down" /\ fs' = "down" /\ pc' = "free" /\ disk' = disk /\ ctl' = ctl
      /\ ghost'.pend = ghost.pend /\ ghost'.durable = ghost.durable
      /\ ghost'.wrote = ghost.wrote /\ ghost'.tid = ghost.tid
      /\ ghost'.euclean = ghost.euclean
      /\ ghost'.torn = (ghost.torn \/ pc \in {"reset_commit", "reset_control"})
      /\ count'.faults = count.faults
  BY DEF Crash, IInv, TypeOK, GhostType, CountType
<1>2. PendingLog /\ HomeCurrent /\ CacheCurrent /\ CommitsCurrent /\ CommitsBehind
      /\ CommitsAhead /\ Runtime /\ Running /\ Writing /\ Ages /\ Replaying /\ Smooth
  BY DEF DInv
<1>3. pc = "payload" \/ ring' = ring
  <2>. SUFFICES ASSUME pc # "payload" PROVE ring' = ring
    OBVIOUS
  <2>1. TornBlock = {}
    BY DEF TornBlock
  <2>2. ring' = [p \in RingPos |-> ring[p]]
    BY <2>1 DEF Crash
  <2>. QED  BY <2>2 DEF IInv, TypeOK
<1>4. pc = "payload" => /\ fs = "up" /\ ghost.pend = <<>> /\ NoneAfter(ring, ctl.last)
  BY InTransaction
<1>12. \A p \in RingPos : Flagged(ring', p) => Flagged(ring, p) /\ ring'[p] = ring[p]
  <2>1. PICK torn \in {{}, TornBlock} :
          ring' = [p \in RingPos |-> IF p \in torn THEN None ELSE ring[p]]
    BY DEF Crash
  <2>. QED  BY <2>1 DEF Flagged, None
<1>13. PendingLog'
BY <1>1, <1>2, <1>3, <1>4 DEF PendingLog, Pending, Oldest, InUse
<1>14. HomeCurrent'
  BY <1>1, <1>2 DEF HomeCurrent, Pending, Oldest
<1>15. CacheCurrent'
BY <1>1 DEF CacheCurrent, InUse
<1>16. CommitsCurrent'
BY <1>1, <1>2, <1>12, CommitsRemoved
<1>17. CommitsBehind'
BY <1>1, <1>2, <1>12, CommitsRemoved
<1>18. CommitsAhead'
  <2>1. CASE ring' = ring
    BY <1>1, <1>2, <2>1 DEF CommitsAhead
  <2>2. CASE pc = "payload"
    BY <1>1, <1>4, <1>12, <2>2, CommitsRemoved
  <2>. QED  BY <1>3, <2>1, <2>2
<1>19. Runtime'
BY <1>1 DEF Runtime, InUse
<1>20. Running'
  BY <1>1, <1>2 DEF Running
<1>21. Writing'
  BY <1>1, <1>2 DEF Writing, Pending, Oldest
<1>22. Ages'
  BY <1>1, <1>2 DEF Ages
<1>23. Replaying'
  BY <1>1, <1>2 DEF Replaying, ScanStart, ScanDone, Pending, Oldest
<1>24. Smooth'
BY <1>1, <1>2, <1>3, <1>4 DEF Smooth, Pending, InUse
<1>. QED
  BY <1>13, <1>14, <1>15, <1>16, <1>17, <1>18, <1>19, <1>20, <1>21, <1>22, <1>23, <1>24 DEF DInv

LEMMA CommitWriteFailsD ==
  ASSUME IInv, DInv, CommitWriteFails
  PROVE  DInv'
<1>1. /\ pc \in {"barrier", "payload", "prepare"} /\ fs = "up" /\ pc' = "free"
      /\ \A b \in Home : cache'[b] = cache[b]
      /\ count'.faults = count.faults + 1 /\ disk' = disk /\ ring' = ring /\ ctl' = ctl
      /\ fs' = fs /\ ghost' = ghost
  BY RingAssumption DEF CommitWriteFails, IInv, TypeOK, HolderOK, CountType, Block
<1>2. PendingLog /\ HomeCurrent /\ CacheCurrent /\ CommitsCurrent /\ CommitsBehind
      /\ CommitsAhead /\ Runtime /\ Running /\ Writing /\ Ages /\ Replaying /\ Smooth
  BY DEF DInv
<1>3. /\ ghost.pend = <<>> /\ ctl.last = j.seq /\ j.ckpt = j.seq /\ ctl.ckpt <= j.ckpt
  BY <1>1, InTransaction
<1>4. /\ j'.seq = j.seq /\ j'.ckpt = j.ckpt /\ j'.active = 0 /\ j'.tail = j'.head
  <2>1. CASE pc = "barrier"
    <3>1. j.tail = j.head
      BY <1>1, <1>2, <2>1 DEF Runtime, InUse
    <3>. QED  BY <2>1, <3>1 DEF CommitWriteFails, ClearRuntime, IInv, TypeOK, RuntimeType
  <2>2. CASE pc # "barrier"
    <3>1. seg.head = seg.tail
      BY <1>1, <1>2, <2>2 DEF Writing
    <3>2. j' = [ClearRuntime(j) EXCEPT !.head = seg.head, !.tail = seg.tail]
      BY <2>2 DEF CommitWriteFails
    <3>. QED  BY <3>1, <3>2 DEF ClearRuntime, IInv, TypeOK, RuntimeType
  <2>. QED  BY <2>1, <2>2
<1>5. CommitsCurrent' /\ CommitsBehind' /\ CommitsAhead'
  BY <1>1, <1>2, LogFrozen
<1>6. PendingLog'
BY <1>1, <1>3 DEF PendingLog, Pending
<1>7. HomeCurrent'
  BY <1>1, <1>2 DEF HomeCurrent, Pending, Oldest
<1>8. CacheCurrent'
BY <1>1, <1>2 DEF CacheCurrent, InUse
<1>9. Runtime'
BY <1>1, <1>2, <1>3, <1>4 DEF Runtime, Pending, InUse
<1>10. Running'
  BY <1>1, <1>2 DEF Running
<1>11. Writing'
  BY <1>1, <1>2 DEF Writing, Pending, Oldest
<1>12. Ages'
  BY <1>1, <1>2 DEF Ages
<1>13. Replaying'
  BY <1>1, <1>2 DEF Replaying, ScanStart, ScanDone, Pending, Oldest
<1>14. Smooth'
  <2>1. count'.faults # 0
    BY <1>1 DEF IInv, TypeOK, CountType
  <2>. QED  BY <2>1 DEF Smooth
<1>. QED
  BY <1>5, <1>6, <1>7, <1>8, <1>9, <1>10, <1>11, <1>12, <1>13, <1>14 DEF DInv

LEMMA CheckpointWriteFailsD ==
  ASSUME IInv, DInv, CheckpointWriteFails
  PROVE  DInv'
<1>1. /\ pc \in {"advanced", "drained", "home", "checkpoint"} /\ fs \in {"up", "unmounting"}
      /\ pc' = "free" /\ count'.faults = count.faults + 1 /\ cache' = cache /\ disk' = disk
      /\ ring' = ring /\ ctl' = ctl /\ j' = j /\ fs' = fs /\ ghost' = ghost
  BY DEF CheckpointWriteFails, IInv, TypeOK, HolderOK, CountType
<1>2. PendingLog /\ HomeCurrent /\ CacheCurrent /\ CommitsCurrent /\ CommitsBehind
      /\ CommitsAhead /\ Runtime /\ Running /\ Writing /\ Ages /\ Replaying /\ Smooth
  BY DEF DInv
<1>3. CommitsCurrent' /\ CommitsBehind' /\ CommitsAhead'
  BY <1>1, <1>2, LogFrozen
<1>4. PendingLog'
  BY <1>1, <1>2 DEF PendingLog, Pending, Oldest, InUse
<1>5. HomeCurrent'
  BY <1>1, <1>2 DEF HomeCurrent, Pending, Oldest
<1>6. CacheCurrent'
  BY <1>1, <1>2 DEF CacheCurrent, InUse
<1>7. Runtime'
  BY <1>1, <1>2 DEF Runtime, Fenced, Pending, Oldest, InUse
<1>8. Running'
  BY <1>1, <1>2 DEF Running
<1>9. Writing'
  BY <1>1, <1>2 DEF Writing, Pending, Oldest
<1>10. Ages'
  BY <1>1, <1>2 DEF Ages
<1>11. Replaying'
  BY <1>1, <1>2 DEF Replaying, ScanStart, ScanDone, Pending, Oldest
<1>12. Smooth'
  <2>1. count'.faults # 0
    BY <1>1 DEF IInv, TypeOK, CountType
  <2>. QED  BY <2>1 DEF Smooth
<1>. QED
  BY <1>3, <1>4, <1>5, <1>6, <1>7, <1>8, <1>9, <1>10, <1>11, <1>12 DEF DInv

LEMMA ReplayWriteFailsD ==
  ASSUME IInv, DInv, ReplayWriteFails
  PROVE  DInv'
<1>1. /\ pc \in {"replay", "reset_descriptor", "reset_commit", "reset_control"}
      /\ fs = "mounting" /\ fs' = "down" /\ pc' = "free" /\ count'.faults = count.faults + 1
      /\ disk' = disk /\ ring' = ring /\ ctl' = ctl /\ ghost'.pend = ghost.pend
      /\ ghost'.durable = ghost.durable /\ ghost'.wrote = ghost.wrote
      /\ ghost'.tid = ghost.tid
  BY DEF ReplayWriteFails, IInv, TypeOK, HolderOK, CountType, GhostType
<1>2. PendingLog /\ HomeCurrent /\ CacheCurrent /\ CommitsCurrent /\ CommitsBehind
      /\ CommitsAhead /\ Runtime /\ Running /\ Writing /\ Ages /\ Replaying /\ Smooth
  BY DEF DInv
<1>3. CommitsCurrent' /\ CommitsBehind' /\ CommitsAhead'
  BY <1>1, <1>2, LogFrozen
<1>4. PendingLog'
  BY <1>1, <1>2 DEF PendingLog, Pending, Oldest, InUse
<1>5. HomeCurrent'
  BY <1>1, <1>2 DEF HomeCurrent, Pending, Oldest
<1>6. CacheCurrent'
BY <1>1 DEF CacheCurrent, InUse
<1>7. Runtime'
BY <1>1 DEF Runtime, InUse
<1>8. Running'
  BY <1>1, <1>2 DEF Running
<1>9. Writing'
  BY <1>1, <1>2 DEF Writing, Pending, Oldest
<1>10. Ages'
  BY <1>1, <1>2 DEF Ages
<1>11. Replaying'
  BY <1>1, <1>2 DEF Replaying, ScanStart, ScanDone, Pending, Oldest
<1>12. Smooth'
  <2>1. count'.faults # 0
    BY <1>1 DEF IInv, TypeOK, CountType
  <2>. QED  BY <2>1 DEF Smooth
<1>. QED
  BY <1>3, <1>4, <1>5, <1>6, <1>7, <1>8, <1>9, <1>10, <1>11, <1>12 DEF DInv

LEMMA CommitUncertainD ==
  ASSUME IInv, DInv, IInv', CommitUncertain
  PROVE  DInv'
<1>1. /\ pc \in {"commit_block", "committed"} /\ fs = "up" /\ pc' = "free"
      /\ count'.faults = count.faults + 1 /\ j'.seq = j.seq /\ j'.active = j.active
      /\ j'.ckpt = j.ckpt /\ j'.head = j.head /\ j'.tail = j.tail /\ ghost'.tid = ghost.tid
      /\ ghost'.wrote = ghost.wrote /\ cache' = cache /\ disk' = disk /\ ctl' = ctl
      /\ fs' = fs
  BY DEF CommitUncertain, IInv, TypeOK, HolderOK, CountType, RuntimeType, CommitBlockWritten,
     GhostType
<1>2. PendingLog /\ HomeCurrent /\ CacheCurrent /\ CommitsCurrent /\ CommitsBehind
      /\ CommitsAhead /\ Runtime /\ Running /\ Writing /\ Ages /\ Replaying /\ Smooth
  BY DEF DInv
<1>3. /\ j.active = j.seq + 1 /\ seg.d.seq = j.active /\ Placed(seg.pos, seg.d)
      /\ seg.d \in DescriptorType /\ ctl.state = "PREPARED" /\ j.tail = seg.pos
      /\ j.head = SegmentEnd(seg.d) /\ ctl.tail = j.tail /\ ctl.head = j.head /\ ctl.ckpt = j.ckpt
      /\ ring[seg.pos] = seg.d /\ (pc = "committed" => Pending)
      /\ ctl.last = j.seq /\ j.active # 0
  BY <1>1, <1>2, RuntimeNumbers DEF Writing, Runtime, InUse, IInv, SegmentOK
<1>4. pc = "commit_block" => ghost.pend = <<>> /\ j.ckpt = j.seq
  BY InTransaction
<1>5. \/ ring' = ring /\ ghost' = ghost
      \/ pc = "commit_block" /\ CommitBlockWritten
  BY DEF CommitUncertain
<1>6. Smooth' /\ Running' /\ Writing' /\ Replaying'
  <2>1. count'.faults # 0
    BY <1>1 DEF IInv, TypeOK, CountType
  <2>. QED  BY <1>1, <2>1 DEF Smooth, Running, Writing, Replaying
<1>7. CASE ring' = ring /\ ghost' = ghost
  <2>1. CommitsCurrent' /\ CommitsBehind' /\ CommitsAhead'
    BY <1>1, <1>2, <1>7, LogFrozen
  <2>2. PendingLog'
    BY <1>1, <1>2, <1>7 DEF PendingLog, Pending, Oldest, InUse
  <2>3. HomeCurrent'
    BY <1>1, <1>2, <1>7 DEF HomeCurrent, Pending, Oldest
  <2>4. CacheCurrent'
    BY <1>1, <1>2, <1>7 DEF CacheCurrent, InUse
  <2>5. Runtime'
    <3>1. pc = "commit_block" => Fenced'
      BY <1>1, <1>3, <1>4, <1>7 DEF Fenced, DescriptorType
    <3>. QED  BY <1>1, <1>2, <1>3, <1>7, <3>1 DEF Runtime, Pending, Oldest, InUse
  <2>6. Ages'
    BY <1>1, <1>2, <1>7 DEF Ages
  <2>. QED  BY <1>6, <2>1, <2>2, <2>3, <2>4, <2>5, <2>6 DEF DInv
<1>8. CASE pc = "commit_block" /\ CommitBlockWritten
  <2>1. /\ ghost'.pend = <<[pos |-> seg.pos, d |-> seg.d]>> /\ Len(ghost'.pend) = 1
        /\ Oldest' = [pos |-> seg.pos, d |-> seg.d] /\ Pending'
    BY <1>8, CommitPoint DEF Oldest, Pending
  <2>2. Oldest'.pos = seg.pos /\ Oldest'.d = seg.d
    BY <2>1
  <2>3. /\ ring'[seg.pos] = seg.d
        /\ ring'[seg.d.commit] = Commit(seg.d, TRUE, seg.pos)
        /\ \A i \in 1 .. Len(seg.d.homes) : ring'[seg.d.payload + i - 1] = Payload(seg.d.sums[i])
        /\ Current(ghost'.durable, seg.d)
        /\ \A p : Fresh(ring', j.seq, p) => p = seg.d.commit
    BY <1>8, CommitPoint
  <2>4. /\ \A b \in Home : ghost'.durable[b] <= cache[b] /\ ghost'.durable[b] <= ghost.tid
        /\ \A b \in Home : \/ disk[b] >= ghost'.durable[b]
                           \/ \E k \in 1 .. Len(seg.d.homes) : seg.d.homes[k] = b
        /\ \A b \in Home : ghost'.durable[b] \in Nat
    BY <1>8, CommitPoint, GhostNumbers DEF IInv, TypeOK, GhostType
  <2>5. Stored(ring', [pos |-> seg.pos, d |-> seg.d])
    BY <2>3 DEF Stored
  <2>6. ring'[seg.d.commit].of = seg.d /\ ring'[seg.d.commit].pos = seg.pos
    BY <2>3 DEF Commit
  <2>7. PendingLog'
    <3>1. j.ckpt < seg.d.seq /\ j.ckpt <= j.seq
      BY <1>3, <1>4, <1>8, RuntimeNumbers
    <3>. QED  BY <1>1, <1>3, <2>1, <2>2, <2>3, <2>5, <3>1 DEF PendingLog, InUse
  <2>8. HomeCurrent'
    BY <1>1, <2>1, <2>2, <2>4 DEF HomeCurrent
  <2>9. CacheCurrent'
    BY <1>1, <2>4, HomeNumbers DEF CacheCurrent, InUse
  <2>10. CommitsCurrent'
    BY <1>1, <1>3, <1>4, <1>8, <2>1, <2>2, <2>3, <2>6 DEF CommitsCurrent
  <2>11. CommitsBehind'
    BY <1>1, <1>3 DEF CommitsBehind
  <2>12. CommitsAhead'
    BY <1>1, <1>3, <2>3, <2>6 DEF CommitsAhead, Ahead
  <2>13. Runtime'
    <3>1. ctl.ckpt <= j.ckpt
      BY <1>3, RuntimeNumbers
    <3>. QED  BY <1>1, <1>3, <1>4, <1>8, <2>1, <2>2, <2>3, <3>1 DEF Runtime, InUse
  <2>14. Ages'
    BY <1>1, <1>2, <2>4 DEF Ages
  <2>. QED
    BY <1>6, <2>7, <2>8, <2>9, <2>10, <2>11, <2>12, <2>13, <2>14 DEF DInv
<1>. QED  BY <1>5, <1>7, <1>8

LEMMA StutterD ==
  ASSUME IInv, DInv, UNCHANGED vars
  PROVE  DInv'
<1>1. /\ cache' = cache /\ disk' = disk /\ ring' = ring /\ ctl' = ctl /\ j' = j /\ fs' = fs
      /\ pc' = pc /\ seg' = seg /\ ghost' = ghost /\ count' = count
  BY DEF vars
<1>. QED
  BY <1>1 DEF DInv, PendingLog, HomeCurrent, CacheCurrent, CommitsCurrent, CommitsBehind,
     CommitsAhead, Runtime, Running, Writing, Ages, Replaying, Smooth, Fenced, InUse,
     Pending, Oldest, ScanStart, ScanDone

LEMMA InitD == Init => DInv
<1>. SUFFICES ASSUME Init PROVE DInv
  OBVIOUS
<1>1. /\ fs = "down" /\ pc = "free" /\ ghost.pend = <<>> /\ ghost.tid = 0
      /\ \A b \in Home : ghost.durable[b] = 0 /\ disk[b] = 0 /\ cache[b] = 0
      /\ \A t \in 1 .. MaxTxn : ghost.wrote[t] = {}
      /\ ~ghost.euclean /\ ctl.state = "IDLE" /\ ctl.active = 0 /\ ctl.ckpt = 0 /\ ctl.last = 0
  BY DEF Init, Control, Block
<1>2. \A p \in RingPos : ~Flagged(ring, p)
  <2>. TAKE p \in RingPos
  <2>1. \/ ring[p].t = "descriptor" \/ ring[p].t = "none"
        \/ ring[p].t = "commit" /\ ~ring[p].flag
    BY DEF Init, EmptyDescriptor, Descriptor, Commit, None
  <2>. QED  BY <2>1 DEF Flagged
<1>3. PendingLog /\ HomeCurrent /\ CacheCurrent
  BY <1>1 DEF PendingLog, Pending, HomeCurrent, CacheCurrent, InUse
<1>4. CommitsCurrent /\ CommitsBehind /\ CommitsAhead
  BY <1>2 DEF CommitsCurrent, CommitsBehind, CommitsAhead, NoneAfter, Fresh
<1>5. Runtime /\ Running /\ Writing /\ Replaying
  BY <1>1 DEF Runtime, Running, Writing, Replaying, InUse
<1>6. Ages
  BY <1>1, RingAssumption DEF Ages
<1>7. Smooth
  BY <1>1 DEF Smooth, InUse
<1>. QED  BY <1>3, <1>4, <1>5, <1>6, <1>7 DEF DInv

(* Every step keeps the invariant, one lemma per action. *)
LEMMA NextD ==
  ASSUME MaxPending = 0, IInv, DInv, [Next]_vars
  PROVE  DInv'
<1>1. IInv'
  BY NextIInv
<1>2. CASE Transaction
  BY <1>1, <1>2, BeginD, ModifyD, AbortD, StartCommitD, BarrierDoneD, CommitRefusedD,
     CommitNoSpaceD, CommitAllocateD, WritePayloadD, WriteDescriptorD, WritePreparedD,
     WriteCommitBlockD, WriteCommittedD DEF Transaction
<1>3. CASE Checkpoint
  BY <1>3, CheckpointWorkerD, CheckpointEndD, CheckpointStartD, CheckpointCorruptD,
     CheckpointHomeD, CheckpointAdvanceD, CheckpointSuperD, CheckpointControlD DEF Checkpoint
<1>4. CASE Replay
  BY <1>4, MountCleanD, MountReplayD, MountCorruptD, ReplaySegmentD, ReplayHomeD, ReplayNextD,
     ScanCorruptD, ReplayDiscardD, ResetDescriptorD, ResetCommitD, ResetControlD DEF Replay
<1>5. CASE Environment
  BY <1>1, <1>5, WritebackD, UnmountD, UnmountDoneD, CrashD, CommitWriteFailsD,
     CommitUncertainD, CheckpointWriteFailsD, ReplayWriteFailsD DEF Environment
<1>6. CASE UNCHANGED vars
  BY <1>6, StutterD
<1>. QED  BY <1>2, <1>3, <1>4, <1>5, <1>6 DEF Next

LEMMA DurableInductive ==
  ASSUME MaxPending = 0
  PROVE  Spec => [](IInv /\ DInv)
<1>1. Init => IInv /\ DInv
  BY InitIInv, InitD
<1>2. IInv /\ DInv /\ [Next]_vars => (IInv /\ DInv)'
  BY NextIInv, NextD
<1>. QED  BY <1>1, <1>2, PTL DEF Spec
-----------------------------------------------------------------------------
(* A mounted, idle file system shows every transaction whose commit block   *)
(* reached the device, or a later one: neither an aborted or failed commit, *)
(* nor checkpoint, replay, reset or a crash in one of their steps brings    *)
(* older metadata back.                                                     *)
THEOREM CommittedAlwaysVisible ==
  ASSUME MaxPending = 0
  PROVE  Spec => []CommittedVisible
<1>1. DInv => CommittedVisible
  BY DEF DInv, CacheCurrent, InUse, CommittedVisible
<1>. QED  BY <1>1, DurableInductive, PTL

(* A mount that finds the control block IDLE does not scan: the home blocks *)
(* on the device already hold everything that was committed.                *)
THEOREM IdleAlwaysMeansHome ==
  ASSUME MaxPending = 0
  PROVE  Spec => []IdleMeansHome
<1>1. DInv => IdleMeansHome
  BY DEF DInv, HomeCurrent, PendingLog, IdleMeansHome
<1>. QED  BY <1>1, DurableInductive, PTL

(* A segment that is committed and not yet checkpointed is overwritten      *)
(* neither by a later segment nor by the sentinel of reset_disk.            *)
THEOREM PendingAlwaysIntact ==
  ASSUME MaxPending = 0
  PROVE  Spec => []PendingIntact
<1>1. DInv => PendingIntact
  <2>. SUFFICES ASSUME DInv, NEW k \in 1 .. Len(ghost.pend) PROVE SegmentIntact(ghost.pend[k])
    BY DEF PendingIntact
  <2>1. Len(<<>>) = 0 /\ 1 .. 0 = {}
    OBVIOUS
  <2>2. Pending
    BY <2>1 DEF Pending
  <2>3. Len(ghost.pend) = 1 /\ Stored(ring, Oldest)
    BY <2>2 DEF DInv, PendingLog
  <2>4. k = 1
    BY <2>3
  <2>. QED  BY <2>3, <2>4 DEF Oldest, Stored, SegmentIntact
<1>. QED  BY <1>1, DurableInductive, PTL

(* The pending segment is the one checkpoint meets at the tail, and the     *)
(* ring is empty for checkpoint exactly when nothing is pending.            *)
THEOREM PendingAlwaysReachable ==
  ASSUME MaxPending = 0
  PROVE  Spec => []PendingReachable
<1>1. IInv /\ DInv => PendingReachable
  <2>. SUFFICES ASSUME IInv, DInv, fs = "up", pc = "free", j.active = 0
       PROVE  /\ ghost.pend = <<>> <=> j.tail = j.head
              /\ ghost.pend # <<>> => /\ ghost.pend[1].pos = j.tail
                                     /\ SegmentEnd(ghost.pend[Len(ghost.pend)].d) = j.head
              /\ \A k \in 1 .. Len(ghost.pend) - 1 :
                   /\ ghost.pend[k + 1].pos = SegmentEnd(ghost.pend[k].d)
                   /\ ghost.pend[k].d.seq < ghost.pend[k + 1].d.seq
    BY DEF PendingReachable
  <2>1. CASE Pending
    <3>1. /\ Len(ghost.pend) = 1 /\ j.tail = Oldest.pos /\ j.head = SegmentEnd(Oldest.d)
          /\ SegmentEnd(Oldest.d) # Oldest.pos
      BY <2>1 DEF DInv, PendingLog, InUse, Placed
    <3>2. 1 .. (1 - 1) = {}
      OBVIOUS
    <3>. QED  BY <2>1, <3>1, <3>2 DEF Pending, Oldest
  <2>2. CASE ~Pending
    <3>1. ghost.pend = <<>> /\ j.tail = j.head
      BY <2>2 DEF DInv, Runtime, InUse, Pending
    <3>2. 1 .. (Len(<<>>) - 1) = {}
      OBVIOUS
    <3>. QED  BY <3>1, <3>2
  <2>. QED  BY <2>1, <2>2
<1>. QED  BY <1>1, DurableInductive, PTL

(* Without failed writes no mount is refused as corrupt, whatever step a    *)
(* crash interrupted, except for a crash between the writes of reset_disk.  *)
THEOREM MountableAlways ==
  ASSUME MaxPending = 0, MaxFaults = 0
  PROVE  Spec => []MountableUnlessTorn
<1>1. IInv /\ DInv => MountableUnlessTorn
  <2>. SUFFICES ASSUME IInv, DInv PROVE MountableUnlessTorn
    OBVIOUS
  <2>1. count.faults = 0
    BY DEF IInv, TypeOK, CountType
  <2>. QED  BY <2>1 DEF DInv, Smooth, MountableUnlessTorn
<1>. QED  BY <1>1, DurableInductive, PTL
=============================================================================
