---------------------------- MODULE JournalFixed ----------------------------
(***************************************************************************)
(* The journals of journal.c that have one fixed transaction area: the v1  *)
(* header, the v2 control/descriptor/commit blocks and the v3 layout       *)
(* without a ring.  Which one a volume has is chosen by mkfs, so version   *)
(* is set by Init and never changes.                                       *)
(*                                                                         *)
(* v1 and v2 copy a block into the journal the first time a transaction    *)
(* records it and never again; v3 copies all of them at commit.  Writes of *)
(* journal blocks are synchronous except where the code only dirties the   *)
(* buffer: jc is the buffer cache of the journal blocks, jd the device.    *)
(* The contents of a home block are the number of the write that made      *)
(* them.                                                                   *)
(***************************************************************************)
EXTENDS Naturals, Sequences, FiniteSets

CONSTANTS Home,       \* metadata blocks in the data area
          SB,         \* the super block
          NoBlock,    \* an unused entry of the v1 header
          Area,       \* payload blocks of the journal
          Versions,   \* subset of 1 .. 3
          MaxTxn,     \* bound: transactions
          MaxWrites,  \* bound: changes of home blocks
          MaxCrashes, \* bound: power failures
          MaxFaults   \* bound: failed device writes

ASSUME FixedAssumption ==
  /\ IsFiniteSet(Home) /\ SB \notin Home /\ NoBlock \notin Home \cup {SB}
  /\ Area \in Nat \ {0} /\ Versions \subseteq 1 .. 3
  /\ MaxTxn \in Nat /\ MaxWrites \in Nat /\ MaxCrashes \in Nat /\ MaxFaults \in Nat

VARIABLES
  version, \* journal_v2, journal_v3
  cache,   \* home blocks in the buffer cache
  dirty,   \* dirty home buffers
  disk,    \* home blocks on the device
  sbc,     \* super block in the buffer cache: NEEDS_RECOVERY, journal_sequence
  sbd,     \* super block on the device
  jc,      \* header or control, descriptor, commit block in the buffer cache
  jd,      \* the same on the device
  pay,     \* payload blocks
  j,       \* journal fields of cryexts_sb_info
  pc,      \* where the holder of journal_lock is
  op,      \* its locals
  ghost    \* history

vars == <<version, cache, dirty, disk, sbc, sbd, jc, jd, pay, j, pc, op, ghost>>
homes == <<cache, dirty, disk>>
super == <<sbc, sbd>>
journal == <<jc, jd, pay>>

(* Journal blocks.  n is the entry count of a v1 header and payload_blocks  *)
(* of a v3 control block.                                                   *)
NoHomes == [i \in 1 .. Area |-> NoBlock]
Header(n, hs) == [state |-> "v1", n |-> n, homes |-> hs, last |-> 0, active |-> 0]
Control(s, last, active, n) ==
  [state |-> s, n |-> n, homes |-> NoHomes, last |-> last, active |-> active]
Zero == [kind |-> "zero", seq |-> 0, entries |-> <<>>]
Block(k, seq, es) == [kind |-> k, seq |-> seq, entries |-> es]
Runtime(seq) == [seq |-> seq, active |-> 0, entries |-> <<>>, err |-> FALSE]
Locals == [block |-> NoBlock, k |-> 1, last |-> 0, what |-> "none"]

Init ==
  /\ version \in Versions
  /\ cache = [b \in Home |-> 0] /\ dirty = {} /\ disk = cache
  /\ sbc = [rec |-> FALSE, seq |-> 0] /\ sbd = sbc
  /\ jc = [hdr |-> CASE version = 1 -> Header(0, NoHomes)
                     [] version = 2 -> Control("v2", 0, 0, Area)
                     [] version = 3 -> Control("IDLE", 0, 0, Area),
           desc |-> Block("desc", 0, <<>>), com |-> Block("empty", 0, <<>>)]
  /\ jd = jc
  /\ pay = [i \in 1 .. Area |-> [val |-> 0, txn |-> 0]]
  /\ j = Runtime(0) /\ pc = "free" /\ op = Locals
  /\ ghost = [txn |-> 0, writes |-> 0, mods |-> {}, committed |-> [b \in Home |-> 0],
              replayed |-> {}, last |-> 0, stale |-> FALSE, crashes |-> 0, faults |-> 0]

(* A journal block written and synced, or only written. *)
WriteSync(f, v) == jc' = [jc EXCEPT ![f] = v] /\ jd' = [jd EXCEPT ![f] = v]
Synced == dirty = {} /\ sbc = sbd /\ jc = jd
-----------------------------------------------------------------------------
(* The buffer cache is written back at any time and in any order;           *)
(* sync_metadata and sync_blockdev are over when nothing is dirty.          *)
WritebackHome(b) ==
  /\ pc \notin {"off", "refused"} /\ b \in dirty
  /\ disk' = [disk EXCEPT ![b] = cache[b]] /\ dirty' = dirty \ {b}
  /\ UNCHANGED <<version, cache, super, journal, j, pc, op, ghost>>

WritebackSuper ==
  /\ pc \notin {"off", "refused"} /\ sbd # sbc
  /\ sbd' = sbc
  /\ UNCHANGED <<version, homes, sbc, journal, j, pc, op, ghost>>

WritebackJournal(f) ==
  /\ pc \notin {"off", "refused"} /\ jd[f] # jc[f]
  /\ jd' = [jd EXCEPT ![f] = jc[f]]
  /\ UNCHANGED <<version, homes, super, jc, pay, j, pc, op, ghost>>
-----------------------------------------------------------------------------
(* cryexts_journal_begin *)

(* v1: NEEDS_RECOVERY, then sync_metadata. *)
BeginV1 ==
  /\ version = 1 /\ sbc' = [sbc EXCEPT !.rec = TRUE]
  /\ j' = [j EXCEPT !.entries = <<>>]
  /\ pc' = "begin_sync"
  /\ UNCHANGED <<sbd, journal>>

(* v2: the next sequence number goes to the super block. *)
BeginV2 ==
  /\ version = 2 /\ sbc' = [rec |-> TRUE, seq |-> j.seq + 1]
  /\ j' = [j EXCEPT !.seq = @ + 1, !.entries = <<>>]
  /\ pc' = "begin_control"
  /\ UNCHANGED <<sbd, journal>>

(* v3: only memory; a fenced journal refuses (its active_sequence is kept). *)
BeginV3 ==
  /\ version = 3 /\ j.active = 0
  /\ j' = [Runtime(j.seq) EXCEPT !.active = j.seq + 1]
  /\ pc' = "txn"
  /\ UNCHANGED <<super, journal>>

Begin ==
  /\ pc = "free" /\ ghost.txn < MaxTxn
  /\ BeginV1 \/ BeginV2 \/ BeginV3
  /\ ghost' = [ghost EXCEPT !.txn = @ + 1, !.mods = {}, !.replayed = {}]
  /\ op' = Locals
  /\ UNCHANGED <<version, homes>>

(* v2: the control block says ACTIVE; descriptor and commit block are only  *)
(* zeroed in the buffer cache.                                              *)
BeginControl ==
  /\ pc = "begin_control"
  /\ LET c == Control("v2", j.seq - 1, j.seq, Area)
     IN /\ jc' = [hdr |-> c, desc |-> Zero, com |-> Zero]
        /\ jd' = [jd EXCEPT !.hdr = c]
  /\ pc' = "begin_sync"
  /\ UNCHANGED <<version, homes, super, pay, j, op, ghost>>

BeginSync ==
  /\ pc = "begin_sync" /\ Synced
  /\ pc' = "txn"
  /\ UNCHANGED <<version, homes, super, journal, j, op, ghost>>

BeginFails ==
  /\ pc \in {"begin_control", "begin_sync"} /\ ghost.faults < MaxFaults
  /\ j' = IF version = 2 THEN Runtime(j.seq - 1) ELSE j
  /\ sbc' = [rec |-> FALSE, seq |-> j'.seq]
  /\ pc' = "free"
  /\ ghost' = [ghost EXCEPT !.faults = @ + 1]
  /\ UNCHANGED <<version, homes, sbd, journal, op>>
-----------------------------------------------------------------------------
(* An operation changes a home block in its buffer and records it.  Only v3 *)
(* records blocks outside the data area; the error of a full journal is     *)
(* ignored by v1's and v2's callers and kept by v3 until the commit.        *)

Recorded(b) == \E i \in 1 .. Len(j.entries) : j.entries[i] = b
Full == Len(j.entries) >= Area

Modify(b) ==
  /\ pc = "txn" /\ ghost.writes < MaxWrites
  /\ cache' = [cache EXCEPT ![b] = ghost.writes + 1]
  /\ dirty' = dirty \cup {b}
  /\ ghost' = [ghost EXCEPT !.writes = @ + 1, !.mods = @ \cup {b}]
  /\ IF version = 3
     THEN /\ j' = [j EXCEPT !.entries = IF Recorded(b) \/ Full \/ j.err THEN @ ELSE Append(@, b),
                            !.err = @ \/ (Full /\ ~Recorded(b))]
          /\ UNCHANGED <<pc, op>>
     ELSE /\ IF Recorded(b) \/ Full THEN UNCHANGED <<pc, op>>
             ELSE pc' = "rec_payload" /\ op' = [op EXCEPT !.block = b]
          /\ UNCHANGED j
  /\ UNCHANGED <<version, disk, super, journal>>

RecordPayload ==
  /\ pc = "rec_payload"
  /\ pay' = [pay EXCEPT ![Len(j.entries) + 1] = [val |-> cache[op.block], txn |-> ghost.txn]]
  /\ pc' = "rec_header"
  /\ UNCHANGED <<version, homes, super, jc, jd, j, op, ghost>>

(* cryexts_journal_header_valid: nothing beyond the entries. *)
HeaderValid(h) == \A i \in h.n + 1 .. Area : h.homes[i] = NoBlock

(* v1 keeps what the header holds if it is valid; v2 writes the descriptor. *)
NextEntries == Append(j.entries, op.block)
NextHeader ==
  LET hs == IF HeaderValid(jc.hdr) THEN jc.hdr.homes ELSE NoHomes
  IN Header(Len(NextEntries), [hs EXCEPT ![Len(NextEntries)] = op.block])

RecordHeader ==
  /\ pc = "rec_header"
  /\ IF version = 1
     THEN /\ WriteSync("hdr", NextHeader)
          /\ j' = [j EXCEPT !.entries = NextEntries]
          /\ pc' = "txn"
     ELSE /\ WriteSync("desc", Block("desc", j.seq, NextEntries))
          /\ pc' = "rec_commit"
          /\ UNCHANGED j
  /\ UNCHANGED <<version, homes, super, pay, op, ghost>>

RecordCommit ==
  /\ pc = "rec_commit"
  /\ WriteSync("com", Block("commit", j.seq, NextEntries))
  /\ j' = [j EXCEPT !.entries = NextEntries]
  /\ pc' = "txn"
  /\ UNCHANGED <<version, homes, super, pay, op, ghost>>

(* The block stays unrecorded, except that v1 counted it before its header  *)
(* is synced; nobody looks at the error.                                    *)
RecordFails ==
  /\ pc \in {"rec_payload", "rec_header", "rec_commit"} /\ ghost.faults < MaxFaults
  /\ IF pc = "rec_header" /\ version = 1
     THEN j' = [j EXCEPT !.entries = NextEntries] /\ jc' = [jc EXCEPT !.hdr = NextHeader]
     ELSE UNCHANGED <<j, jc>>
  /\ pc' = "txn"
  /\ ghost' = [ghost EXCEPT !.faults = @ + 1]
  /\ UNCHANGED <<version, homes, super, jd, pay, op>>
-----------------------------------------------------------------------------
(* cryexts_journal_abort.  v1 leaves its header, v2 resets the area, v3 has *)
(* only memory to clear.                                                    *)
AbortV1 ==
  /\ version = 1
  /\ sbc' = [sbc EXCEPT !.rec = @ /\ j.entries # <<>>]
  /\ ghost' = [ghost EXCEPT !.stale = @ \/ j.entries # <<>>,
                            !.faults = IF pc = "barrier" THEN @ + 1 ELSE @]
  /\ j' = Runtime(j.seq) /\ pc' = "free" /\ UNCHANGED op

AbortV2 ==
  /\ version = 2
  /\ op' = [op EXCEPT !.last = j.seq, !.what = "abort"] /\ pc' = "reset_control"
  /\ ghost' = [ghost EXCEPT !.faults = IF pc = "barrier" THEN @ + 1 ELSE @]
  /\ UNCHANGED <<sbc, j>>

AbortV3 ==
  /\ version = 3
  /\ j' = Runtime(j.seq) /\ pc' = "free"
  /\ ghost' = [ghost EXCEPT !.faults = IF pc = "barrier" THEN @ + 1 ELSE @]
  /\ UNCHANGED <<sbc, op>>

(* Called by the operation, or by cryexts_journal_commit when its barrier   *)
(* fails.                                                                   *)
Abort ==
  /\ pc = "txn" \/ (pc = "barrier" /\ ghost.faults < MaxFaults)
  /\ AbortV1 \/ AbortV2 \/ AbortV3
  /\ UNCHANGED <<version, homes, sbd, journal>>

(* cryexts_journal_commit starts with the ordered barrier. *)
StartCommit ==
  /\ pc = "txn"
  /\ pc' = "barrier"
  /\ op' = [op EXCEPT !.what = "commit", !.last = j.seq]
  /\ UNCHANGED <<version, homes, super, journal, j, ghost>>

(* The header is not emptied at commit. *)
Mut_Barrier ==
  /\ pc = "barrier" /\ Synced
  /\ CASE version = 1 ->
            /\ UNCHANGED jc
            /\ sbc' = [sbc EXCEPT !.rec = FALSE]
            /\ pc' = "final_sync" /\ UNCHANGED j
       [] version = 2 -> pc' = "reset_control" /\ UNCHANGED <<jc, sbc, j>>
       [] version = 3 /\ j.err ->
            /\ j' = Runtime(j.seq) /\ pc' = "free" /\ UNCHANGED <<jc, sbc>>
       [] version = 3 /\ ~j.err /\ Full ->
            /\ j' = Runtime(j.seq) /\ pc' = "free"
            /\ sbc' = [sbc EXCEPT !.rec = FALSE] /\ UNCHANGED jc
       [] OTHER ->
            /\ sbc' = [rec |-> TRUE, seq |-> j.active]
            /\ j' = [j EXCEPT !.entries = Append(@, SB)]
            /\ pc' = "v3_payload" /\ UNCHANGED jc
  /\ op' = [op EXCEPT !.k = 1]
  /\ UNCHANGED <<version, homes, sbd, jd, pay, ghost>>

Barrier ==
  /\ pc = "barrier" /\ Synced
  /\ CASE version = 1 ->
            /\ jc' = [jc EXCEPT !.hdr = Header(0, NoHomes)]
            /\ sbc' = [sbc EXCEPT !.rec = FALSE]
            /\ pc' = "final_sync" /\ UNCHANGED j
       [] version = 2 -> pc' = "reset_control" /\ UNCHANGED <<jc, sbc, j>>
       [] version = 3 /\ j.err ->
            /\ j' = Runtime(j.seq) /\ pc' = "free" /\ UNCHANGED <<jc, sbc>>
       [] version = 3 /\ ~j.err /\ Full ->
            /\ j' = Runtime(j.seq) /\ pc' = "free"
            /\ sbc' = [sbc EXCEPT !.rec = FALSE] /\ UNCHANGED jc
       [] OTHER ->
            /\ sbc' = [rec |-> TRUE, seq |-> j.active]
            /\ j' = [j EXCEPT !.entries = Append(@, SB)]
            /\ pc' = "v3_payload" /\ UNCHANGED jc
  /\ op' = [op EXCEPT !.k = 1]
  /\ UNCHANGED <<version, homes, sbd, jd, pay, ghost>>

Commits == [ghost EXCEPT !.last = ghost.txn, !.committed =
              [b \in Home |-> IF b \in ghost.mods THEN cache[b] ELSE @[b]]]

(* The last sync_metadata of a v1 or v2 commit, or of a replay. *)
FinalSync ==
  /\ pc = "final_sync" /\ Synced
  /\ pc' = "free"
  /\ j' = Runtime(j.seq)
  /\ ghost' = IF op.what = "commit" THEN Commits ELSE ghost
  /\ UNCHANGED <<version, homes, super, journal, op>>

(* cryexts_journal_v2_reset_state: control, then descriptor, then commit.   *)
Reset ==
  /\ CASE pc = "reset_control" ->
            /\ WriteSync("hdr", Control("v2", op.last, 0, Area))
            /\ pc' = "reset_desc" /\ UNCHANGED <<sbc, j>>
       [] pc = "reset_desc" ->
            /\ WriteSync("desc", Block("desc", op.last, <<>>))
            /\ pc' = "reset_commit" /\ UNCHANGED <<sbc, j>>
       [] pc = "reset_commit" ->
            /\ WriteSync("com", Block("empty", op.last, <<>>))
            /\ sbc' = [sbc EXCEPT !.rec = FALSE]
            /\ pc' = IF op.what = "abort" THEN "free" ELSE "final_sync"
            /\ j' = IF op.what = "abort" THEN Runtime(j.seq) ELSE j
       [] OTHER -> FALSE
  /\ UNCHANGED <<version, homes, sbd, pay, op, ghost>>

(* A write of a v1 or v2 commit fails: the mutex is dropped and everything  *)
(* stays as it is on the device.  An abort takes the flag back all the same.*)
CommitFails ==
  /\ op.what \in {"commit", "abort"} /\ ghost.faults < MaxFaults
  /\ pc \in {"final_sync", "reset_control", "reset_desc", "reset_commit"}
  /\ sbc' = [sbc EXCEPT !.rec = @ /\ op.what = "commit"]
  /\ pc' = "free"
  /\ j' = Runtime(j.seq)
  /\ ghost' = [ghost EXCEPT !.faults = @ + 1, !.stale = @ \/ version = 1]
  /\ UNCHANGED <<version, homes, sbd, journal, op>>
-----------------------------------------------------------------------------
(* cryexts_journal_v3_commit without a ring, one step per synchronous write.*)

V3Seq == j.active
Sums == [i \in 1 .. Len(j.entries) |-> <<j.entries[i], pay[i].val>>]

V3Write ==
  /\ CASE pc = "v3_payload" ->
            /\ pay' = [pay EXCEPT ![op.k] =
                 [val |-> IF j.entries[op.k] = SB THEN V3Seq ELSE cache[j.entries[op.k]],
                  txn |-> ghost.txn]]
            /\ op' = [op EXCEPT !.k = IF @ = Len(j.entries) THEN 1 ELSE @ + 1]
            /\ pc' = IF op.k = Len(j.entries) THEN "v3_desc" ELSE pc
            /\ UNCHANGED <<jc, jd, j, ghost>>
       [] pc = "v3_desc" ->
            /\ WriteSync("desc", Block("desc", V3Seq, Sums))
            /\ pc' = "v3_prepared" /\ UNCHANGED <<pay, op, j, ghost>>
       [] pc = "v3_prepared" ->
            /\ WriteSync("hdr", Control("PREPARED", j.seq, V3Seq, Len(j.entries)))
            /\ pc' = "v3_commit" /\ UNCHANGED <<pay, op, j, ghost>>
       [] pc = "v3_commit" ->
            /\ WriteSync("com", Block("commit", V3Seq, Sums))
            /\ ghost' = Commits
            /\ pc' = "v3_checkpoint" /\ UNCHANGED <<pay, op, j>>
       [] pc = "v3_checkpoint" ->
            /\ WriteSync("hdr", Control("CHECKPOINTING", V3Seq, V3Seq, Len(j.entries)))
            /\ pc' = "v3_home" /\ UNCHANGED <<pay, op, j, ghost>>
       [] OTHER -> FALSE
  /\ UNCHANGED <<version, homes, super>>

(* A payload goes home; the image of the super block says NEEDS_RECOVERY.   *)
Restore(b, v) ==
  IF b = SB
  THEN /\ sbc' = [rec |-> TRUE, seq |-> v] /\ sbd' = sbc' /\ UNCHANGED homes
  ELSE /\ cache' = [cache EXCEPT ![b] = v] /\ disk' = [disk EXCEPT ![b] = v]
       /\ dirty' = dirty \ {b} /\ UNCHANGED super

V3Home ==
  /\ pc = "v3_home"
  /\ LET es == jc.desc.entries
     IN /\ Restore(es[op.k][1], pay[op.k].val)
        /\ op' = [op EXCEPT !.k = @ + 1, !.last = V3Seq]
        /\ pc' = IF op.k = Len(es) THEN "v3_super" ELSE pc
  /\ UNCHANGED <<version, journal, j, ghost>>

V3Super ==
  /\ pc = "v3_super"
  /\ sbc' = [rec |-> FALSE, seq |-> op.last] /\ sbd' = sbc'
  /\ pc' = "v3_empty_desc"
  /\ UNCHANGED <<version, homes, journal, j, op, ghost>>

(* Descriptor and commit block are emptied, the control block says IDLE.  A *)
(* commit stores the number of its entries in payload_blocks, reset_disk    *)
(* the size of the area.                                                    *)
V3Empty ==
  /\ CASE pc = "v3_empty_desc" ->
            /\ WriteSync("desc", Block("desc", op.last, <<>>))
            /\ pc' = "v3_empty_commit" /\ UNCHANGED j
       [] pc = "v3_empty_commit" ->
            /\ WriteSync("com", Block("empty", op.last, <<>>))
            /\ pc' = "v3_idle" /\ UNCHANGED j
       [] pc = "v3_idle" ->
            /\ WriteSync("hdr", Control("IDLE", op.last, 0,
                 IF op.what = "commit" THEN Len(j.entries) ELSE Area))
            /\ j' = Runtime(op.last)
            /\ pc' = "free"
       [] OTHER -> FALSE
  /\ UNCHANGED <<version, homes, super, pay, op, ghost>>

(* A failed write before the commit block takes the flag back; from the     *)
(* commit block on it fences the journal.                                   *)
V3Fails ==
  /\ op.what = "commit" /\ ghost.faults < MaxFaults
  /\ \/ /\ pc \in {"v3_payload", "v3_desc", "v3_prepared"}
        /\ sbc' = [rec |-> FALSE, seq |-> j.seq]
        /\ j' = Runtime(j.seq)
     \/ /\ pc \in {"v3_commit", "v3_checkpoint", "v3_home", "v3_super",
                   "v3_empty_desc", "v3_empty_commit", "v3_idle"}
        /\ j' = [j EXCEPT !.err = TRUE]
        /\ UNCHANGED sbc
  /\ pc' = "free"
  /\ ghost' = [ghost EXCEPT !.faults = @ + 1]
  /\ UNCHANGED <<version, homes, sbd, journal, op>>
-----------------------------------------------------------------------------
(* A power failure; a descriptor that is being written may be torn.         *)
Crash ==
  /\ pc \notin {"off", "refused"} /\ ghost.crashes < MaxCrashes
  /\ pc' = "off"
  /\ jd' \in {jd} \cup (IF pc = "v3_desc" \/ (pc = "rec_header" /\ version = 2)
                        THEN {[jd EXCEPT !.desc.kind = "torn"]} ELSE {})
  /\ ghost' = [ghost EXCEPT !.crashes = @ + 1,
                            !.stale = @ \/ (version = 1 /\ jd.hdr.n > 0 /\ ~sbd.rec)]
  /\ UNCHANGED <<version, homes, super, jc, pay, j, op>>

(* put_super writes what is dirty and forgets the rest. *)
Unmount ==
  /\ pc = "free" /\ Synced
  /\ pc' = "off"
  /\ UNCHANGED <<version, homes, super, journal, j, op, ghost>>

Reread == dirty' = {} /\ jc' = jd /\ UNCHANGED <<disk, sbd, jd, pay>>
Clean(seq) == /\ cache' = disk /\ sbc' = sbd /\ j' = Runtime(seq) /\ pc' = "free"
              /\ UNCHANGED <<op, ghost>>
Refuse == /\ cache' = disk /\ sbc' = sbd /\ pc' = "refused"
          /\ UNCHANGED <<j, op, ghost>>

(* cryexts_journal_replay, v1. *)
MountV1 ==
  LET h == jd.hdr
  IN \/ ~sbd.rec /\ Clean(sbd.seq)
     \/ sbd.rec /\ ~HeaderValid(h) /\ Refuse
     \/ sbd.rec /\ HeaderValid(h) /\ (\E i \in 1 .. h.n : h.homes[i] = NoBlock) /\ Refuse
     \/ /\ sbd.rec /\ HeaderValid(h) /\ h.n = 0
        /\ cache' = disk /\ sbc' = [sbd EXCEPT !.rec = FALSE]
        /\ j' = Runtime(sbd.seq) /\ pc' = "free" /\ UNCHANGED <<op, ghost>>

Image(es, n) ==
  [b \in Home |-> IF \E i \in 1 .. n : es[i] = b
                  THEN pay[CHOOSE i \in 1 .. n : es[i] = b].val ELSE disk[b]]

(* The home blocks are only dirtied, and the empty header with them. *)
ReplayV1 ==
  LET h == jd.hdr
  IN /\ sbd.rec /\ HeaderValid(h) /\ h.n > 0
     /\ \A i \in 1 .. h.n : h.homes[i] # NoBlock
     /\ cache' = Image(h.homes, h.n)
     /\ dirty' = {b \in Home : cache'[b] # disk[b]}
     /\ jc' = [jd EXCEPT !.hdr = Header(0, NoHomes)]
     /\ sbc' = [sbd EXCEPT !.rec = FALSE]
     /\ j' = Runtime(sbd.seq) /\ op' = [Locals EXCEPT !.what = "replay"]
     /\ pc' = "final_sync"
     /\ ghost' = [ghost EXCEPT !.replayed = {pay[i].txn : i \in 1 .. h.n}]
     /\ UNCHANGED <<disk, sbd, jd, pay>>

(* cryexts_journal_v2_replay: descriptor and commit block must both carry   *)
(* the active sequence number.                                              *)
V2Complete ==
  /\ jd.desc.kind = "desc" /\ jd.com.kind = "commit"
  /\ jd.com.seq = jd.hdr.active /\ jd.desc.seq = jd.hdr.active
  /\ Len(jd.com.entries) <= Len(jd.desc.entries)

MountV2 ==
  \/ ~sbd.rec /\ Clean(sbd.seq)
  \/ /\ sbd.rec /\ jd.hdr.active = 0
     /\ cache' = disk /\ sbc' = [rec |-> FALSE, seq |-> jd.hdr.last]
     /\ j' = Runtime(jd.hdr.last) /\ pc' = "final_sync"
     /\ op' = [Locals EXCEPT !.what = "replay"] /\ UNCHANGED ghost
  \/ /\ sbd.rec /\ jd.hdr.active # 0 /\ ~V2Complete
     /\ cache' = disk /\ sbc' = [sbd EXCEPT !.seq = jd.hdr.last]
     /\ j' = Runtime(jd.hdr.last) /\ pc' = "reset_control"
     /\ op' = [Locals EXCEPT !.what = "replay", !.last = jd.hdr.last]
     /\ UNCHANGED ghost

ReplayV2 ==
  /\ sbd.rec /\ jd.hdr.active # 0 /\ V2Complete
  /\ LET n == Len(jd.com.entries)
     IN /\ cache' = Image(jd.desc.entries, n)
        /\ ghost' = [ghost EXCEPT !.replayed = {pay[i].txn : i \in 1 .. n}]
  /\ dirty' = {b \in Home : cache'[b] # disk[b]}
  /\ jc' = jd /\ sbc' = [sbd EXCEPT !.seq = jd.hdr.active]
  /\ j' = Runtime(jd.hdr.active)
  /\ op' = [Locals EXCEPT !.what = "replay", !.last = jd.hdr.active]
  /\ pc' = "replay_sync"
  /\ UNCHANGED <<disk, sbd, jd, pay>>

ReplaySync ==
  /\ pc = "replay_sync" /\ Synced
  /\ pc' = "reset_control"
  /\ UNCHANGED <<version, homes, super, journal, j, op, ghost>>

(* cryexts_journal_v3_replay without a ring. *)
V3CleanArea ==
  /\ jd.desc.kind = "desc" /\ jd.desc.entries = <<>> /\ jd.desc.seq = jd.hdr.last
  /\ jd.com.kind = "empty" /\ jd.com.seq = jd.hdr.last
V3DescValid == jd.desc.kind = "desc" /\ jd.desc.seq = jd.hdr.active
V3CommitValid ==
  /\ jd.com.seq = jd.hdr.active /\ jd.com.entries = jd.desc.entries
  /\ \A i \in 1 .. Len(jd.desc.entries) : jd.desc.entries[i][2] = pay[i].val

Discard(last) ==
  /\ cache' = disk /\ sbc' = sbd /\ j' = Runtime(last)
  /\ op' = [Locals EXCEPT !.what = "replay", !.last = last]
  /\ pc' = "v3_super" /\ UNCHANGED ghost

MountV3 ==
  LET h == jd.hdr
      live == h.state \in {"PREPARED", "CHECKPOINTING"}
               /\ ~(h.state = "CHECKPOINTING" /\ ~sbd.rec)
  IN \/ h.n # Area /\ Refuse
     \/ h.n = Area /\ h.state = "IDLE" /\ ~sbd.rec /\ V3CleanArea /\ Clean(h.last)
     \/ h.n = Area /\ h.state = "IDLE" /\ ~sbd.rec /\ ~V3CleanArea /\ Refuse
     \/ h.n = Area /\ h.state = "IDLE" /\ sbd.rec /\ Discard(h.last)
     \/ h.n = Area /\ h.state = "CHECKPOINTING" /\ ~sbd.rec /\ Discard(h.last)
     \/ h.n = Area /\ live /\ ~V3DescValid /\ Refuse
     \/ /\ h.n = Area /\ live /\ V3DescValid /\ jd.com.kind # "commit"
        /\ IF h.state = "PREPARED" THEN Discard(h.last) ELSE Refuse
     \/ /\ h.n = Area /\ live /\ V3DescValid /\ jd.com.kind = "commit"
        /\ IF ~V3CommitValid THEN Refuse
           ELSE /\ cache' = disk /\ sbc' = sbd
                /\ j' = [Runtime(h.last) EXCEPT !.active = h.active]
                /\ op' = [Locals EXCEPT !.what = "replay", !.last = h.active]
                /\ pc' = "replay_control"
                /\ ghost' = [ghost EXCEPT !.replayed =
                     {pay[i].txn : i \in 1 .. Len(jd.desc.entries)}]

(* Replay marks the area CHECKPOINTING before it writes the home blocks. *)
ReplayControl ==
  /\ pc = "replay_control"
  /\ WriteSync("hdr", Control("CHECKPOINTING", op.last, op.last, Len(jc.desc.entries)))
  /\ pc' = "v3_home"
  /\ UNCHANGED <<version, homes, super, pay, j, op, ghost>>

Mount ==
  /\ pc = "off"
  /\ \/ version = 1 /\ ((MountV1 /\ Reread) \/ ReplayV1)
     \/ version = 2 /\ ((MountV2 /\ Reread) \/ ReplayV2)
     \/ version = 3 /\ MountV3 /\ Reread
  /\ UNCHANGED version
-----------------------------------------------------------------------------
Next ==
  \/ Begin \/ BeginControl \/ BeginSync \/ BeginFails
  \/ (\E b \in Home : Modify(b))
  \/ RecordPayload \/ RecordHeader \/ RecordCommit \/ RecordFails
  \/ Abort \/ StartCommit \/ Barrier \/ FinalSync \/ Reset \/ CommitFails
  \/ V3Write \/ V3Home \/ V3Super \/ V3Empty \/ V3Fails
  \/ Crash \/ Unmount \/ Mount \/ ReplaySync \/ ReplayControl
  \/ (\E b \in Home : WritebackHome(b)) \/ WritebackSuper
  \/ (\E f \in {"hdr", "desc", "com"} : WritebackJournal(f))

Spec == Init /\ [][Next]_vars
-----------------------------------------------------------------------------
(* What a commit made durable (v1, v2: when it returns; v3: from its commit *)
(* block on) is there after every crash and mount, and no replay takes it   *)
(* back to an older image.  A v1 volume whose header was *)
(* left valid (by an abort, a failed commit, or a crash between the clean   *)
(* super block and the empty header) is excepted.                           *)
CommittedVisible ==
  pc = "free" /\ ~ghost.stale => \A b \in Home : cache[b] >= ghost.committed[b]

(* Replay applies the images of one transaction, never a mixture of two,    *)
(* and never of one that is older than a transaction reported as committed. *)
ReplayAtomic ==
  ghost.stale \/ /\ Cardinality(ghost.replayed) <= 1
                 /\ \A t \in ghost.replayed : t >= ghost.last

(* A v3 volume that was unmounted properly mounts again.                    *)
CleanUnmountMounts ==
  pc = "refused" => ghost.crashes > 0 \/ ghost.faults > 0
=============================================================================
