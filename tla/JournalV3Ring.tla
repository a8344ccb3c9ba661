--------------------------- MODULE JournalV3Ring ---------------------------
(***************************************************************************)
(* The journal v3 ring of journal.c: transactions, ordered barrier, commit,*)
(* background checkpoint, replay at mount and the reset that follows it.   *)
(*                                                                         *)
(* The device holds the home blocks (Home: inode table, bitmaps, GDT, ...; *)
(* SB: the super block), the ring blocks and the control block.  Writes of *)
(* journal and control blocks are synchronous (v3_write_sync); home blocks *)
(* live in the buffer cache and the kernel may write a dirty one back at   *)
(* any time.  The value of a home block is the identifier of the           *)
(* transaction that wrote it last; the value of SB is its journal_sequence.*)
(* Checksums are modelled as collision free: a checksum of a block is the  *)
(* contents of the block.                                                  *)
(*                                                                         *)
(* The holder of sbi->journal_lock is the only one that acts on the        *)
(* journal; pc is the next step of that holder, "free" when the mutex is.  *)
(***************************************************************************)
EXTENDS RingSpace, Sequences, FiniteSets

CONSTANTS Home,        \* home blocks transactions modify
          SB,          \* the super block, recorded by every commit
          MaxTxn,      \* bound: transactions begun in a behaviour
          MaxCrash,    \* bound: power failures
          MaxFaults,   \* bound: failed device writes
          MaxPending   \* bound: committed segments not yet checkpointed
                       \* when a transaction begins

ASSUME RingAssumption ==
  /\ SB \notin Home
  /\ MaxTxn \in Nat /\ MaxCrash \in Nat /\ MaxFaults \in Nat /\ MaxPending \in Nat

VARIABLES
  cache,    \* buffer cache: contents of every home block
  dirty,    \* buffers not yet on the device
  rec,      \* NEEDS_RECOVERY of the cached super block (sbi->disk_sb)
  disk,     \* home blocks on the device
  drec,     \* NEEDS_RECOVERY of the super block on the device
  ring,     \* ring blocks on the device
  ctl,      \* the control block on the device
  j,        \* journal fields of struct cryexts_sb_info
  fs,       \* "down", "mounting", "up", "unmounting"
  pc,       \* next step of the journal_lock holder
  seg,      \* that holder's local variables
  work,     \* journal_checkpoint_work is queued
  ghost,    \* history of the behaviour, read by the properties only
  count     \* how much of each bound is used

media == <<disk, drec, ring, ctl>>
buffers == <<cache, dirty, rec>>
vars == <<cache, dirty, rec, disk, drec, ring, ctl, j, fs, pc, seg, work, ghost, count>>

Block == Home \cup {SB}

-----------------------------------------------------------------------------
(* On-disk formats.  A slot that fails the magic, type or checksum test is *)
(* "none".  A commit block is kept as the descriptor it was computed from: *)
(* its sequence, entry_count, descriptor_checksum and payload_checksum are *)
(* functions of that descriptor.                                           *)

None == [t |-> "none"]
Payload(v) == [t |-> "payload", val |-> v]

(* cryexts_journal_v3_prepare_descriptor / _finish_descriptor *)
Descriptor(seq, homes, sums, payloadStart, commitBlock) ==
  [t |-> "descriptor", seq |-> seq, homes |-> homes, sums |-> sums,
   payload |-> payloadStart, commit |-> commitBlock]

(* cryexts_journal_v3_prepare_commit *)
Commit(d, committed, descriptorBlock) ==
  [t |-> "commit", of |-> d, flag |-> committed, pos |-> descriptorBlock]

(* cryexts_journal_v3_prepare_control; head and tail are the in-memory ones *)
Control(state, last, active, ckpt, head, tail) ==
  [state |-> state, last |-> last, active |-> active, ckpt |-> ckpt,
   head |-> head, tail |-> tail]

(* cryexts_journal_v3_ring_valid *)
RingValid(c) ==
  /\ c.head \in RingPos /\ c.tail \in RingPos
  /\ c.state = "IDLE" => c.head = c.tail

(* The descriptor tests of checkpoint_one and replay_ring at block pos; *)
(* floor is the checkpoint sequence, or that of the segment before.     *)
DescriptorValid(pos, floor) ==
  LET d == ring[pos]
  IN /\ d.t = "descriptor"
     /\ Len(d.homes) <= PayloadCapacity
     /\ d.payload = pos + 1
     /\ d.commit = d.payload + Len(d.homes)
     /\ d.seq > floor

(* Mutant: the commit block of an earlier lap is taken for this segment's. *)
CommitMatchesAnySequence(pos, d) ==
  /\ d.commit \in RingPos
  /\ ring[d.commit].t = "commit" /\ ring[d.commit].pos = pos

(* The commit block matches the descriptor d at pos, whatever its flag. *)
CommitMatches(pos, d) ==
  /\ d.commit \in RingPos
  /\ LET c == ring[d.commit]
     IN /\ c.t = "commit"
        /\ c.pos = pos
        /\ Len(c.of.homes) = Len(d.homes)
        /\ c.of.seq = d.seq

CommitFlagged(d) == ring[d.commit].flag

DescriptorChecksumValid(d) == ring[d.commit].of = d

(* Every payload block has the checksum the descriptor gives it, and all *)
(* of them together the checksum of the commit block.                    *)
PayloadsValid(d) ==
  /\ \A i \in 1 .. Len(d.homes) :
        /\ d.payload + i - 1 \in RingPos
        /\ ring[d.payload + i - 1] = Payload(d.sums[i])
  /\ ring[d.commit].of.sums = d.sums

SegmentEnd(d) == Wrap(d.commit + 1)
-----------------------------------------------------------------------------
NoSegment == [i |-> 0, d |-> None, pos |-> 0, head |-> 0, tail |-> 0,
              prev |-> 0, last |-> 0]

(* cryexts_journal_v3_clear_runtime *)
ClearRuntime(r) == [r EXCEPT !.active = 0, !.err = FALSE, !.homes = <<>>]

(* struct cryexts_sb_info as fill_super allocates it *)
FreshRuntime == [seq |-> 0, active |-> 0, ckpt |-> 0, head |-> 0, tail |-> 0,
                 err |-> FALSE, homes |-> <<>>]

(* A file system mkfs.cryexts just made: empty sentinel descriptor, control IDLE. *)
EmptyDescriptor(seq) == Descriptor(seq, <<>>, <<>>, RingStart + 1, RingEnd - 1)

Init ==
  /\ cache = [b \in Block |-> 0] /\ dirty = {} /\ rec = FALSE
  /\ disk = [b \in Block |-> 0] /\ drec = FALSE
  /\ ring = [p \in RingPos |->
               IF p = RingStart THEN EmptyDescriptor(0)
               ELSE IF p = RingEnd - 1 THEN Commit(EmptyDescriptor(0), FALSE, RingStart)
               ELSE None]
  /\ ctl = Control("IDLE", 0, 0, 0, RingStart, RingStart)
  /\ j = FreshRuntime
  /\ fs = "down" /\ pc = "free" /\ seg = NoSegment /\ work = FALSE
  /\ ghost = [durable |-> [b \in Home |-> 0], pend |-> <<>>, tid |-> 0,
              wrote |-> [t \in 1 .. MaxTxn |-> {}], torn |-> FALSE, euclean |-> FALSE]
  /\ count = [crashes |-> 0, faults |-> 0]
-----------------------------------------------------------------------------
(* Transactions. *)

Mounted == fs = "up"

(* cryexts_journal_v3_begin; a begin refused because the journal is fenced *)
(* (active_sequence still set) changes nothing.                            *)
Begin ==
  /\ Mounted /\ pc = "free" /\ j.active = 0
  /\ ghost.tid < MaxTxn /\ Len(ghost.pend) <= MaxPending
  /\ j' = [ClearRuntime(j) EXCEPT !.active = j.seq + 1]
  /\ pc' = "running"
  /\ ghost' = [ghost EXCEPT !.tid = @ + 1]
  /\ UNCHANGED <<media, buffers, fs, seg, work, count>>

(* cryexts_journal_v3_record_block *)
Record(r, b) ==
  IF r.err \/ b \in {r.homes[i] : i \in 1 .. Len(r.homes)} THEN r
  ELSE IF Len(r.homes) >= PayloadCapacity THEN [r EXCEPT !.err = TRUE]
  ELSE [r EXCEPT !.homes = Append(@, b)]

(* An operation changes a metadata buffer, marks it dirty and records it. *)
Modify(b) ==
  /\ pc = "running" /\ b \in Home
  /\ cache' = [cache EXCEPT ![b] = ghost.tid]
  /\ dirty' = dirty \cup {b}
  /\ j' = Record(j, b)
  /\ ghost' = [ghost EXCEPT !.wrote[ghost.tid] = @ \cup {b}]
  /\ UNCHANGED <<media, rec, fs, pc, seg, work, count>>

(* cryexts_journal_v3_abort: the buffers keep what the operation wrote. *)
Abort ==
  /\ pc = "running"
  /\ j' = ClearRuntime(j)
  /\ pc' = "free"
  /\ UNCHANGED <<media, buffers, fs, seg, work, ghost, count>>

(* cryexts_journal_commit enters cryexts_journal_ordered_barrier. *)
StartCommit ==
  /\ pc = "running"
  /\ pc' = "barrier"
  /\ UNCHANGED <<media, buffers, j, fs, seg, work, ghost, count>>

(* The flusher, or sync_blockdev, writes a dirty home block in place. *)
Writeback(b) ==
  /\ fs # "down" /\ b \in dirty
  /\ disk' = [disk EXCEPT ![b] = cache[b]]
  /\ drec' = IF b = SB THEN rec ELSE drec
  /\ dirty' = dirty \ {b}
  /\ UNCHANGED <<cache, rec, ring, ctl, j, fs, pc, seg, work, ghost, count>>

(* sync_blockdev returns once no buffer of the device is dirty. *)
BarrierDone ==
  /\ pc = "barrier" /\ dirty = {}
  /\ pc' = "commit"
  /\ UNCHANGED <<media, buffers, j, fs, seg, work, ghost, count>>

(* cryexts_journal_v3_commit returns the error a record left behind. *)
CommitRefused ==
  /\ pc = "commit" /\ j.err
  /\ j' = ClearRuntime(j)
  /\ pc' = "free"
  /\ UNCHANGED <<media, buffers, fs, seg, work, ghost, count>>

(* The recording of SB (super_set_recovery) overflows the descriptor, or  *)
(* ring_allocate finds no space: out_clear_recovery.                      *)
CommitNoSpace ==
  /\ pc = "commit" /\ ~j.err
  /\ LET r == Record(j, SB)
     IN r.err \/ NoSpace(j.head, j.tail, Len(r.homes) + 2)
  /\ j' = ClearRuntime(j)
  /\ cache' = [cache EXCEPT ![SB] = j.seq]
  /\ rec' = FALSE
  /\ dirty' = dirty \cup {SB}
  /\ pc' = "free"
  /\ UNCHANGED <<media, fs, seg, work, ghost, count>>

(* Mutant: the tail of an empty ring stays behind when the segment wraps. *)
CommitAllocateKeepTail ==
  /\ pc = "commit" /\ ~j.err
  /\ LET r == Record(j, SB)
         n == Len(r.homes)
         start == SegmentStart(j.head, j.tail, n + 2)
     IN /\ ~r.err /\ ~NoSpace(j.head, j.tail, n + 2)
        /\ seg' = [NoSegment EXCEPT !.pos = start, !.head = j.head, !.tail = j.tail,
                     !.d = Descriptor(j.active, r.homes, <<>>, start + 1, start + 1 + n)]
        /\ j' = [r EXCEPT !.head = Wrap(start + n + 2)]
  /\ cache' = [cache EXCEPT ![SB] = j.active]
  /\ rec' = TRUE
  /\ dirty' = dirty \cup {SB}
  /\ pc' = "payload"
  /\ UNCHANGED <<media, fs, work, ghost, count>>

(* Set journal_sequence and NEEDS_RECOVERY in the cached super block, place *)
(* the segment and move head (and the tail of an empty ring).              *)
CommitAllocate ==
  /\ pc = "commit" /\ ~j.err
  /\ LET r == Record(j, SB)
         n == Len(r.homes)
         start == SegmentStart(j.head, j.tail, n + 2)
     IN /\ ~r.err /\ ~NoSpace(j.head, j.tail, n + 2)
        /\ seg' = [NoSegment EXCEPT !.pos = start, !.head = j.head, !.tail = j.tail,
                     !.d = Descriptor(j.active, r.homes, <<>>, start + 1, start + 1 + n)]
        /\ j' = [r EXCEPT !.tail = IF j.tail = j.head THEN start ELSE @,
                          !.head = Wrap(start + n + 2)]
  /\ cache' = [cache EXCEPT ![SB] = j.active]
  /\ rec' = TRUE
  /\ dirty' = dirty \cup {SB}
  /\ pc' = "payload"
  /\ UNCHANGED <<media, fs, work, ghost, count>>

(* Copy the next recorded home block from the cache into the segment. *)
WritePayload ==
  /\ pc = "payload" /\ seg.i < Len(j.homes)
  /\ LET v == cache[j.homes[seg.i + 1]]
     IN /\ ring' = [ring EXCEPT ![seg.d.payload + seg.i] = Payload(v)]
        /\ seg' = [seg EXCEPT !.i = @ + 1, !.d = [seg.d EXCEPT !.sums = Append(@, v)]]
  /\ UNCHANGED <<disk, drec, ctl, buffers, j, fs, pc, work, ghost, count>>

WriteDescriptor ==
  /\ pc = "payload" /\ seg.i = Len(j.homes)
  /\ ring' = [ring EXCEPT ![seg.pos] = seg.d]
  /\ pc' = "prepare"
  /\ UNCHANGED <<disk, drec, ctl, buffers, j, fs, seg, work, ghost, count>>

WritePrepared ==
  /\ pc = "prepare"
  /\ ctl' = Control("PREPARED", j.seq, j.active, j.ckpt, j.head, j.tail)
  /\ pc' = "commit_block"
  /\ UNCHANGED <<disk, drec, ring, buffers, j, fs, seg, work, ghost, count>>

(* The commit point: from here on the transaction must survive. *)
CommitBlockWritten ==
  /\ ring' = [ring EXCEPT ![seg.d.commit] = Commit(seg.d, TRUE, seg.pos)]
  /\ ghost' = [ghost EXCEPT
       !.durable = [b \in Home |-> IF b \in ghost.wrote[ghost.tid] THEN ghost.tid ELSE @[b]],
       !.pend = Append(@, [pos |-> seg.pos, d |-> seg.d])]

WriteCommitBlock ==
  /\ pc = "commit_block"
  /\ CommitBlockWritten
  /\ pc' = "committed"
  /\ UNCHANGED <<disk, drec, ctl, buffers, j, fs, seg, work, count>>

(* Mutant: schedule_work is forgotten. *)
WriteCommittedNoWork ==
  /\ pc = "committed"
  /\ ctl' = Control("COMMITTED", j.active, 0, j.ckpt, j.head, j.tail)
  /\ j' = [ClearRuntime(j) EXCEPT !.seq = j.active]
  /\ seg' = NoSegment
  /\ pc' = "free"
  /\ UNCHANGED <<disk, drec, ring, buffers, fs, work, ghost, count>>

(* Mutant: the head moves back to where the commit found it. *)
WriteCommittedStaleHead ==
  /\ pc = "committed"
  /\ ctl' = Control("COMMITTED", j.active, 0, j.ckpt, j.head, j.tail)
  /\ j' = [ClearRuntime(j) EXCEPT !.seq = j.active, !.head = seg.head]
  /\ seg' = NoSegment
  /\ work' = TRUE
  /\ pc' = "free"
  /\ UNCHANGED <<disk, drec, ring, buffers, fs, ghost, count>>

(* Control COMMITTED, clear_runtime, schedule_work, unlock. *)
WriteCommitted ==
  /\ pc = "committed"
  /\ ctl' = Control("COMMITTED", j.active, 0, j.ckpt, j.head, j.tail)
  /\ j' = [ClearRuntime(j) EXCEPT !.seq = j.active]
  /\ seg' = NoSegment
  /\ work' = TRUE
  /\ pc' = "free"
  /\ UNCHANGED <<disk, drec, ring, buffers, fs, ghost, count>>
-----------------------------------------------------------------------------
(* Checkpoint: cryexts_journal_checkpoint_sync, called by the worker and by *)
(* put_super.                                                              *)

CheckpointWorker ==
  /\ Mounted /\ pc = "free" /\ work
  /\ work' = FALSE
  /\ pc' = "checkpoint"
  /\ UNCHANGED <<media, buffers, j, fs, seg, ghost, count>>

CheckpointEnd ==
  /\ pc = "checkpoint" /\ j.tail = j.head
  /\ pc' = "free"
  /\ UNCHANGED <<media, buffers, j, fs, seg, work, ghost, count>>

(* The tests of cryexts_journal_v3_checkpoint_one on the segment at tail. *)
TailValid ==
  LET d == ring[j.tail]
  IN /\ DescriptorValid(j.tail, j.ckpt)
     /\ CommitMatches(j.tail, d)
     /\ CommitFlagged(d)
     /\ DescriptorChecksumValid(d)

CheckpointStart ==
  /\ pc = "checkpoint" /\ j.tail # j.head /\ TailValid
  /\ ctl' = Control("CHECKPOINTING", j.seq, 0, j.ckpt, j.head, j.tail)
  /\ seg' = [NoSegment EXCEPT !.d = ring[j.tail], !.pos = j.tail]
  /\ pc' = "home"
  /\ UNCHANGED <<disk, drec, ring, buffers, j, fs, work, ghost, count>>

(* -EUCLEAN ends the loop and the mutex is released; nobody is told. *)
CheckpointCorrupt ==
  /\ \/ pc = "checkpoint" /\ j.tail # j.head /\ ~TailValid
     \/ pc = "home" /\ seg.i = 0 /\ ~PayloadsValid(seg.d)
  /\ pc' = "free"
  /\ seg' = NoSegment
  /\ UNCHANGED <<media, buffers, j, fs, work, ghost, count>>

(* write_sync of payload i + 1 to its home: cache and device. *)
HomeWritten ==
  LET b == seg.d.homes[seg.i + 1]
      v == ring[seg.d.payload + seg.i].val
  IN /\ cache' = [cache EXCEPT ![b] = v]
     /\ disk' = [disk EXCEPT ![b] = v]
     /\ dirty' = dirty \ {b}
     /\ rec' = (b = SB \/ rec)    \* every journalled super block has the flag
     /\ drec' = (b = SB \/ drec)
     /\ seg' = [seg EXCEPT !.i = @ + 1]

CheckpointHome ==
  /\ pc = "home" /\ PayloadsValid(seg.d) /\ seg.i < Len(seg.d.homes)
  /\ HomeWritten
  /\ UNCHANGED <<ring, ctl, j, fs, pc, work, ghost, count>>

(* Advance the tail; when the ring is drained clear NEEDS_RECOVERY. *)
CheckpointAdvance ==
  /\ pc = "home" /\ PayloadsValid(seg.d) /\ seg.i = Len(seg.d.homes)
  /\ j' = [j EXCEPT !.tail = SegmentEnd(seg.d), !.ckpt = seg.d.seq]
  /\ IF SegmentEnd(seg.d) = j.head
     THEN rec' = FALSE /\ dirty' = dirty \cup {SB} /\ pc' = "drained"
     ELSE UNCHANGED <<rec, dirty>> /\ pc' = "advanced"
  /\ ghost' = [ghost EXCEPT !.pend = IF @ # <<>> /\ Head(@).d = seg.d THEN Tail(@) ELSE @]
  /\ UNCHANGED <<cache, media, fs, seg, work, count>>

(* Drained: the super block is synced before the control block turns IDLE. *)
CheckpointSuper ==
  /\ pc = "drained"
  /\ disk' = [disk EXCEPT ![SB] = cache[SB]]
  /\ drec' = rec
  /\ dirty' = dirty \ {SB}
  /\ pc' = "advanced"
  /\ UNCHANGED <<cache, rec, ring, ctl, j, fs, seg, work, ghost, count>>

(* Mutant: the mutex is released after each segment. *)
CheckpointControlUnlock ==
  /\ pc = "advanced"
  /\ ctl' = Control(IF j.tail = j.head THEN "IDLE" ELSE "COMMITTED",
                    j.seq, 0, j.ckpt, j.head, j.tail)
  /\ seg' = NoSegment
  /\ work' = TRUE
  /\ pc' = "free"
  /\ UNCHANGED <<disk, drec, ring, buffers, j, fs, ghost, count>>

(* Mutant: the ring is declared idle after the first segment. *)
CheckpointControlIdle ==
  /\ pc = "advanced"
  /\ ctl' = Control("IDLE", j.seq, 0, j.seq, j.head, j.head)
  /\ seg' = NoSegment
  /\ pc' = "checkpoint"
  /\ UNCHANGED <<disk, drec, ring, buffers, j, fs, work, ghost, count>>

(* Mutant: last_sequence is written as the checkpoint sequence. *)
CheckpointControlLast ==
  /\ pc = "advanced"
  /\ ctl' = Control(IF j.tail = j.head THEN "IDLE" ELSE "COMMITTED",
                    j.seq, 0, j.seq, j.head, j.tail)
  /\ seg' = NoSegment
  /\ pc' = "checkpoint"
  /\ UNCHANGED <<disk, drec, ring, buffers, j, fs, work, ghost, count>>

CheckpointControl ==
  /\ pc = "advanced"
  /\ ctl' = Control(IF j.tail = j.head THEN "IDLE" ELSE "COMMITTED",
                    j.seq, 0, j.ckpt, j.head, j.tail)
  /\ seg' = NoSegment
  /\ pc' = "checkpoint"
  /\ UNCHANGED <<disk, drec, ring, buffers, j, fs, work, ghost, count>>
-----------------------------------------------------------------------------
(* Mount: cryexts_journal_v3_replay_ring, then cryexts_journal_v3_reset_disk. *)

(* The buffer cache of a device nobody uses holds what the device holds. *)
FreshBuffers == cache' = disk /\ dirty' = {} /\ rec' = drec

MountRefused ==
  /\ fs' = "down" /\ pc' = "free" /\ seg' = NoSegment /\ j' = FreshRuntime
  /\ ghost' = [ghost EXCEPT !.euclean = TRUE]

ControlSettled == ctl.active = 0 /\ ctl.ckpt = ctl.last

(* IDLE and no recovery needed: cryexts_journal_v3_validate_clean. *)
MountClean ==
  /\ fs = "down" /\ RingValid(ctl) /\ ctl.state = "IDLE" /\ ~drec /\ ControlSettled
  /\ FreshBuffers
  /\ j' = [FreshRuntime EXCEPT !.seq = ctl.last, !.ckpt = ctl.last,
                               !.head = ctl.head, !.tail = ctl.tail]
  /\ fs' = "up" /\ pc' = "free"
  /\ UNCHANGED <<media, seg, work, ghost, count>>

(* A ring that is not idle is scanned from tail to head; an idle one whose *)
(* recovery flag is still set is only reset.                               *)
MountReplay ==
  /\ fs = "down" /\ RingValid(ctl)
  /\ \/ ctl.state = "IDLE" /\ drec /\ ControlSettled
     \/ ctl.state # "IDLE"
  /\ FreshBuffers
  /\ seg' = [NoSegment EXCEPT !.pos = IF ctl.state = "IDLE" THEN ctl.head ELSE ctl.tail,
                              !.head = ctl.head, !.prev = ctl.ckpt, !.last = ctl.last]
  /\ fs' = "mounting" /\ pc' = "scan"
  /\ UNCHANGED <<media, j, work, ghost, count>>

MountCorrupt ==
  /\ fs = "down"
  /\ ~RingValid(ctl) \/ (ctl.state = "IDLE" /\ ~ControlSettled)
  /\ FreshBuffers
  /\ MountRefused
  /\ UNCHANGED <<media, work, count>>

(* The segment at seg.pos can be read as a descriptor ... *)
ScanReadable == DescriptorValid(seg.pos, seg.prev)

(* ... and its commit block says the transaction committed. *)
ScanCommitted ==
  /\ CommitMatches(seg.pos, ring[seg.pos])
  /\ CommitFlagged(ring[seg.pos])

ScanIntact ==
  /\ DescriptorChecksumValid(ring[seg.pos])
  /\ PayloadsValid(ring[seg.pos])

(* Replay the committed segment at seg.pos. *)
ReplaySegment ==
  /\ pc = "scan" /\ seg.pos # seg.head
  /\ ScanReadable /\ ScanCommitted /\ ScanIntact
  /\ seg' = [seg EXCEPT !.d = ring[seg.pos], !.i = 0]
  /\ pc' = "replay"
  /\ UNCHANGED <<media, buffers, j, fs, work, ghost, count>>

ReplayHome ==
  /\ pc = "replay" /\ seg.i < Len(seg.d.homes)
  /\ HomeWritten
  /\ UNCHANGED <<ring, ctl, j, fs, pc, work, ghost, count>>

ReplayNext ==
  /\ pc = "replay" /\ seg.i = Len(seg.d.homes)
  /\ seg' = [seg EXCEPT !.pos = SegmentEnd(seg.d), !.prev = seg.d.seq,
                        !.last = seg.d.seq, !.d = None, !.i = 0]
  /\ pc' = "scan"
  /\ UNCHANGED <<media, buffers, j, fs, work, ghost, count>>

(* Only the last segment may lack a commit; anything else is -EUCLEAN. *)
ScanCorrupt ==
  /\ pc = "scan" /\ seg.pos # seg.head
  /\ \/ ~ScanReadable
     \/ ScanReadable /\ ~ScanCommitted /\ SegmentEnd(ring[seg.pos]) # seg.head
     \/ ScanReadable /\ ScanCommitted /\ ~ScanIntact
  /\ MountRefused
  /\ UNCHANGED <<media, buffers, work, count>>

(* The end of the log, or an uncommitted last segment: discard the rest, *)
(* clear NEEDS_RECOVERY and sync the super block.                        *)
ReplayDiscard ==
  /\ pc = "scan"
  /\ \/ seg.pos = seg.head
     \/ ScanReadable /\ ~ScanCommitted /\ SegmentEnd(ring[seg.pos]) = seg.head
  /\ j' = [j EXCEPT !.seq = seg.last, !.ckpt = seg.last,
                    !.head = seg.head, !.tail = seg.head]
  /\ cache' = [cache EXCEPT ![SB] = seg.last]
  /\ disk' = [disk EXCEPT ![SB] = seg.last]
  /\ rec' = FALSE /\ drec' = FALSE /\ dirty' = dirty \ {SB}
  /\ ghost' = [ghost EXCEPT !.pend = <<>>]
  /\ pc' = "reset_descriptor"
  /\ UNCHANGED <<ring, ctl, fs, seg, work, count>>

(* reset_disk writes the empty sentinel over the first and the last ring *)
(* block, then the control block.                                        *)
ResetDescriptor ==
  /\ pc = "reset_descriptor"
  /\ ring' = [ring EXCEPT ![RingStart] = EmptyDescriptor(j.seq)]
  /\ pc' = "reset_commit"
  /\ UNCHANGED <<disk, drec, ctl, buffers, j, fs, seg, work, ghost, count>>

ResetCommit ==
  /\ pc = "reset_commit"
  /\ ring' = [ring EXCEPT ![RingEnd - 1] = Commit(EmptyDescriptor(j.seq), FALSE, RingStart)]
  /\ pc' = "reset_control"
  /\ UNCHANGED <<disk, drec, ctl, buffers, j, fs, seg, work, ghost, count>>

ResetControl ==
  /\ pc = "reset_control"
  /\ ctl' = Control("IDLE", j.seq, 0, j.seq, j.head, j.tail)
  /\ j' = ClearRuntime(j)
  /\ seg' = NoSegment
  /\ fs' = "up" /\ pc' = "free"
  /\ UNCHANGED <<disk, drec, ring, buffers, work, ghost, count>>
-----------------------------------------------------------------------------
(* Unmount, power failure and failed writes. *)

(* put_super: cancel_work_sync, then checkpoint_sync under the lock. *)
Unmount ==
  /\ Mounted /\ pc = "free"
  /\ work' = FALSE
  /\ fs' = "unmounting"
  /\ pc' = "checkpoint"
  /\ UNCHANGED <<media, buffers, j, seg, ghost, count>>

(* put_super ignores the result of checkpoint_sync and syncs the super  *)
(* block; kill_block_super writes back whatever is still dirty.         *)
UnmountDone ==
  /\ fs = "unmounting" /\ pc = "free" /\ dirty = {}
  /\ fs' = "down"
  /\ j' = FreshRuntime
  /\ UNCHANGED <<media, buffers, pc, seg, work, ghost, count>>

(* A payload or a descriptor block that was being written may be torn;    *)
(* the control and the commit record fit one sector.                      *)
TornBlock ==
  CASE pc = "payload" /\ seg.i < Len(j.homes) -> {seg.d.payload + seg.i}
    [] pc = "payload" /\ seg.i = Len(j.homes) -> {seg.pos}
    [] OTHER -> {}

Crash ==
  /\ fs # "down" /\ count.crashes < MaxCrash
  /\ count' = [count EXCEPT !.crashes = @ + 1]
  /\ \E torn \in {{}, TornBlock} :
        ring' = [p \in RingPos |-> IF p \in torn THEN None ELSE ring[p]]
  /\ ghost' = [ghost EXCEPT !.torn = @ \/ pc \in {"reset_commit", "reset_control"}]
  /\ fs' = "down" /\ pc' = "free" /\ seg' = NoSegment /\ work' = FALSE
  /\ j' = FreshRuntime
  /\ FreshBuffers
  /\ UNCHANGED <<disk, drec, ctl>>

(* Mutant: out_clear_recovery does not restore head and tail. *)
CommitWriteFailsKeepHead ==
  /\ count.faults < MaxFaults /\ pc \in {"barrier", "payload", "prepare"}
  /\ count' = [count EXCEPT !.faults = @ + 1]
  /\ j' = ClearRuntime(j)
  /\ cache' = [cache EXCEPT ![SB] = j.seq]
  /\ rec' = FALSE
  /\ dirty' = dirty \cup {SB}
  /\ seg' = NoSegment
  /\ pc' = "free"
  /\ UNCHANGED <<media, fs, work, ghost>>

(* A device write that fails before the commit block was attempted:        *)
(* cryexts_journal_commit aborts (barrier) or takes out_clear_recovery.    *)
CommitWriteFails ==
  /\ count.faults < MaxFaults /\ pc \in {"barrier", "payload", "prepare"}
  /\ count' = [count EXCEPT !.faults = @ + 1]
  /\ IF pc = "barrier"
     THEN j' = ClearRuntime(j) /\ UNCHANGED buffers
     ELSE /\ j' = [ClearRuntime(j) EXCEPT !.head = seg.head, !.tail = seg.tail]
          /\ cache' = [cache EXCEPT ![SB] = j.seq]
          /\ rec' = FALSE
          /\ dirty' = dirty \cup {SB}
  /\ seg' = NoSegment
  /\ pc' = "free"
  /\ UNCHANGED <<media, fs, work, ghost>>

(* Mutant: a failed commit write is rolled back like any other. *)
CommitUncertainRollback ==
  /\ count.faults < MaxFaults /\ pc \in {"commit_block", "committed"}
  /\ count' = [count EXCEPT !.faults = @ + 1]
  /\ \/ UNCHANGED <<ring, ghost>>
     \/ pc = "commit_block" /\ CommitBlockWritten
  /\ j' = [ClearRuntime(j) EXCEPT !.head = seg.head, !.tail = seg.tail]
  /\ seg' = NoSegment
  /\ pc' = "free"
  /\ UNCHANGED <<disk, drec, ctl, buffers, fs, work>>

(* From the commit block on the outcome is unknown to the code: the journal *)
(* is fenced, active_sequence stays set.                                    *)
CommitUncertain ==
  /\ count.faults < MaxFaults /\ pc \in {"commit_block", "committed"}
  /\ count' = [count EXCEPT !.faults = @ + 1]
  /\ \/ UNCHANGED <<ring, ghost>>
     \/ pc = "commit_block" /\ CommitBlockWritten
  /\ j' = [j EXCEPT !.err = TRUE]
  /\ seg' = NoSegment
  /\ pc' = "free"
  /\ UNCHANGED <<disk, drec, ctl, buffers, fs, work>>

(* checkpoint_one returns the error: the loop ends, the tail stays where it is. *)
CheckpointWriteFails ==
  /\ count.faults < MaxFaults
  /\ \/ pc \in {"advanced", "drained"}
     \/ pc = "home" /\ PayloadsValid(seg.d) /\ seg.i < Len(seg.d.homes)
     \/ pc = "checkpoint" /\ j.tail # j.head /\ TailValid
  /\ count' = [count EXCEPT !.faults = @ + 1]
  /\ seg' = NoSegment
  /\ pc' = "free"
  /\ UNCHANGED <<media, buffers, j, fs, work, ghost>>

(* The mount fails; another one may be tried. *)
ReplayWriteFails ==
  /\ count.faults < MaxFaults
  /\ pc \in {"replay", "reset_descriptor", "reset_commit", "reset_control"}
  /\ count' = [count EXCEPT !.faults = @ + 1]
  /\ ghost' = [ghost EXCEPT !.torn = @ \/ pc \in {"reset_commit", "reset_control"}]
  /\ fs' = "down" /\ pc' = "free" /\ seg' = NoSegment /\ j' = FreshRuntime
  /\ FreshBuffers
  /\ UNCHANGED <<media, work>>
-----------------------------------------------------------------------------
Transaction ==
  \/ Begin \/ Abort \/ StartCommit \/ BarrierDone
  \/ CommitRefused \/ CommitNoSpace \/ CommitAllocate
  \/ WritePayload \/ WriteDescriptor \/ WritePrepared
  \/ WriteCommitBlock \/ WriteCommitted
  \/ \E b \in Home : Modify(b)

Checkpoint ==
  \/ CheckpointWorker \/ CheckpointEnd \/ CheckpointStart \/ CheckpointCorrupt
  \/ CheckpointHome \/ CheckpointAdvance \/ CheckpointSuper
  \/ CheckpointControl

Replay ==
  \/ MountClean \/ MountReplay \/ MountCorrupt
  \/ ReplaySegment \/ ReplayHome \/ ReplayNext \/ ScanCorrupt \/ ReplayDiscard
  \/ ResetDescriptor \/ ResetCommit \/ ResetControl

Environment ==
  \/ Unmount \/ UnmountDone \/ Crash
  \/ CommitWriteFails \/ CommitUncertain \/ CheckpointWriteFails \/ ReplayWriteFails
  \/ \E b \in Block : Writeback(b)

Next == Transaction \/ Checkpoint \/ Replay \/ Environment

Spec == Init /\ [][Next]_vars
-----------------------------------------------------------------------------
(* Types. *)

DescriptorType ==
  [t : {"descriptor"}, seq : Nat, homes : Seq(Block), sums : Seq(Nat),
   payload : Nat, commit : Nat]
SlotType ==
  {None} \cup [t : {"payload"}, val : Nat] \cup DescriptorType
  \cup [t : {"commit"}, of : DescriptorType, flag : BOOLEAN, pos : Nat]
ControlState == {"IDLE", "PREPARED", "COMMITTED", "CHECKPOINTING"}
ControlType ==
  [state : ControlState, last : Nat, active : Nat, ckpt : Nat, head : Nat, tail : Nat]
RuntimeType ==
  [seq : Nat, active : Nat, ckpt : Nat, head : Nat, tail : Nat, err : BOOLEAN,
   homes : Seq(Block)]
LocalsType ==
  [i : Nat, d : DescriptorType \cup {None}, pos : Nat, head : Nat, tail : Nat,
   prev : Nat, last : Nat]
GhostType ==
  [durable : [Home -> Nat], pend : Seq([pos : Nat, d : DescriptorType]), tid : Nat,
   wrote : [1 .. MaxTxn -> SUBSET Home], torn : BOOLEAN, euclean : BOOLEAN]
CountType == [crashes : 0 .. MaxCrash, faults : 0 .. MaxFaults]

(* The steps of each holder of the mutex. *)
TransactionPC == {"running", "barrier", "commit", "payload", "prepare",
                  "commit_block", "committed"}
WritePC == {"payload", "prepare", "commit_block", "committed"}
CheckpointPC == {"checkpoint", "home", "advanced", "drained"}
ResetPC == {"reset_descriptor", "reset_commit", "reset_control"}
ReplayPC == {"scan", "replay"} \cup ResetPC
PC == {"free"} \cup TransactionPC \cup CheckpointPC \cup ReplayPC

(* Every variable has its type. *)
TypeOK ==
  /\ cache \in [Block -> Nat] /\ disk \in [Block -> Nat]
  /\ dirty \subseteq Block /\ rec \in BOOLEAN /\ drec \in BOOLEAN
  /\ ring \in [RingPos -> SlotType]
  /\ ctl \in ControlType
  /\ j \in RuntimeType /\ seg \in LocalsType
  /\ fs \in {"down", "mounting", "up", "unmounting"}
  /\ pc \in PC /\ work \in BOOLEAN
  /\ ghost \in GhostType /\ count \in CountType
-----------------------------------------------------------------------------
(* Safety. *)

(* Whatever step a crash interrupts, the control block on the device passes *)
(* cryexts_journal_v3_ring_valid, and the ring pointers of a mounted file   *)
(* system stay inside the ring.                                             *)
ControlValid ==
  /\ RingValid(ctl)
  /\ fs \in {"up", "unmounting"} => j.head \in RingPos /\ j.tail \in RingPos

(* Durability.  Whenever the mutex is free on a mounted file system, every  *)
(* home block shows at least the last transaction whose commit block was    *)
(* written to it: neither checkpoint, nor replay, nor a crash in any of     *)
(* their steps brings back older metadata.                                  *)
CommittedVisible ==
  Mounted /\ pc = "free" => \A b \in Home : cache[b] >= ghost.durable[b]

(* An IDLE control block is a promise that the log holds nothing the home   *)
(* blocks on the device do not: a mount that sees it does not scan.         *)
IdleMeansHome ==
  ctl.state = "IDLE" => \A b \in Home : disk[b] >= ghost.durable[b]

SegmentIntact(p) ==
  /\ ring[p.pos] = p.d
  /\ ring[p.d.commit] = Commit(p.d, TRUE, p.pos)
  /\ \A i \in 1 .. Len(p.d.homes) : ring[p.d.payload + i - 1] = Payload(p.d.sums[i])

(* A segment that is committed and not checkpointed is never overwritten,   *)
(* by a later segment or by the sentinel of reset_disk.                     *)
PendingIntact ==
  \A k \in 1 .. Len(ghost.pend) : SegmentIntact(ghost.pend[k])

(* The pending segments are exactly what checkpoint meets walking from tail *)
(* to head, in commit order and with increasing sequence numbers.           *)
PendingReachable ==
  LET pend == ghost.pend
      stop(k) == SegmentEnd(pend[k].d)
  IN Mounted /\ pc = "free" /\ j.active = 0 =>
       /\ pend = <<>> <=> j.tail = j.head
       /\ pend # <<>> => pend[1].pos = j.tail /\ stop(Len(pend)) = j.head
       /\ \A k \in 1 .. Len(pend) - 1 :
            pend[k + 1].pos = stop(k) /\ pend[k].d.seq < pend[k + 1].d.seq

(* The log is never refused as corrupt, whatever step a crash interrupts,   *)
(* unless the crash came between the writes of reset_disk.                  *)
MountableUnlessTorn == ghost.euclean => ghost.torn

(* The same without the exception. *)
Mountable == ~ghost.euclean

(* After a mount a transaction is there as a whole or not at all, later     *)
(* transactions aside.                                                      *)
NoHalfTransaction ==
  Mounted /\ pc = "free" =>
    \A t \in 1 .. MaxTxn : \A b, c \in ghost.wrote[t] :
      cache[b] = t => cache[c] >= t
-----------------------------------------------------------------------------
(* Liveness.  The holder of the mutex goes on, the work queue runs queued   *)
(* work, and sync_blockdev writes dirty buffers.                            *)

HolderStep ==
  \/ Abort \/ StartCommit \/ BarrierDone
  \/ CommitRefused \/ CommitNoSpace \/ CommitAllocate
  \/ WritePayload \/ WriteDescriptor \/ WritePrepared
  \/ WriteCommitBlock \/ WriteCommitted
  \/ CheckpointEnd \/ CheckpointStart \/ CheckpointCorrupt
  \/ CheckpointHome \/ CheckpointAdvance \/ CheckpointSuper \/ CheckpointControl

Fairness ==
  /\ WF_vars(HolderStep)
  /\ WF_vars(CheckpointWorker)
  /\ \A b \in Block : WF_vars(Writeback(b))

FairSpec == Spec /\ Fairness

(* Every committed segment is checkpointed while the file system stays up   *)
(* and no device write fails (checkpoint_sync gives up on the first error). *)
PendingDrains ==
  Mounted /\ ghost.pend # <<>> ~>
    ghost.pend = <<>> \/ fs = "down" \/ count.faults > 0
=============================================================================
