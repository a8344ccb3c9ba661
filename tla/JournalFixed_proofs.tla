------------------------- MODULE JournalFixed_proofs -------------------------
(***************************************************************************)
(* Proofs about JournalFixed, for every size of the journal, every set of  *)
(* home blocks and every number of transactions, writes, crashes and       *)
(* failed writes, and for the three versions of the journal.               *)
(***************************************************************************)
EXTENDS JournalFixed, FiniteSetTheorems, TLAPS

(* The places of the journal's holder in each version. *)
RecordPC == {"rec_payload", "rec_header"}
ResetPC == {"reset_control", "reset_desc", "reset_commit"}
WritePC == {"v3_payload", "v3_desc", "v3_prepared", "v3_commit"}
HomePC == {"v3_home", "v3_super", "v3_empty_desc", "v3_empty_commit", "v3_idle"}
AnyPC == {"free", "txn", "barrier", "off", "refused"}
PC1 == AnyPC \cup RecordPC \cup {"begin_sync", "final_sync"}
PC2 == PC1 \cup ResetPC \cup {"begin_control", "rec_commit", "replay_sync"}
PC3 == AnyPC \cup WritePC \cup HomePC \cup {"v3_checkpoint", "replay_control"}
RunningPC == RecordPC \cup {"begin_control", "begin_sync", "txn", "rec_commit", "barrier"}

Mounted == pc \notin {"off", "refused"}

Target == Home \cup {SB}
Item == Target \cup (Target \X Nat)
SuperType == [rec : BOOLEAN, seq : Nat]
HeaderType ==
  [state : {"v1", "v2", "IDLE", "PREPARED", "CHECKPOINTING"}, n : Nat,
   homes : [1 .. Area -> Home \cup {NoBlock}], last : Nat, active : Nat]
BlockType == [kind : {"zero", "desc", "commit", "empty", "torn"}, seq : Nat,
              entries : Seq(Item)]
AreaType == [hdr : HeaderType, desc : BlockType, com : BlockType]
Payloads == [1 .. Area -> [val : Nat, txn : Nat]]
RuntimeType == [seq : Nat, active : Nat, entries : Seq(Target), err : BOOLEAN]
LocalsType ==
  [block : Home \cup {NoBlock}, k : Nat, last : Nat,
   what : {"none", "commit", "abort", "replay"}]
GhostType ==
  [txn : Nat, writes : Nat, mods : SUBSET Home, committed : [Home -> Nat],
   replayed : SUBSET Nat, last : Nat, stale : BOOLEAN, crashes : Nat, faults : Nat]

TypeOK ==
  /\ version \in 1 .. 3
  /\ cache \in [Home -> Nat] /\ disk \in [Home -> Nat] /\ dirty \in SUBSET Home
  /\ sbc \in SuperType /\ sbd \in SuperType
  /\ jc \in AreaType /\ jd \in AreaType /\ pay \in Payloads
  /\ j \in RuntimeType /\ op \in LocalsType /\ ghost \in GhostType
  /\ pc \in PC1 \cup PC2 \cup PC3

(* Where a version can be, and what holds of a stale header, too. *)
Places ==
  /\ version = 1 => pc \in PC1
  /\ version = 2 => pc \in PC2
  /\ version = 3 => pc \in PC3
  /\ pc \in RecordPC \cup {"rec_commit"} => op.block \in Home /\ Len(j.entries) < Area
  /\ version = 1 => jc.hdr.n <= Area /\ jd.hdr.n <= Area
  /\ ghost.stale => version = 1
  /\ pc = "barrier" => op.what = "commit"

(* Nothing is older than what was committed, in the cache or on the device: *)
(* every version writes the home blocks before its commit point.            *)
Current ==
  /\ Mounted => \A b \in Home \ dirty : cache[b] = disk[b]
  /\ \A b \in Home : /\ ghost.committed[b] <= cache[b] /\ cache[b] <= ghost.writes
                     /\ ghost.committed[b] <= disk[b] /\ disk[b] <= ghost.writes

(* Replay took one transaction, none that is older than the last committed. *)
Order ==
  /\ ghost.last <= ghost.txn
  /\ \E t \in Nat : t >= ghost.last /\ ghost.replayed \subseteq {t}
  /\ pc \in RunningPC \/ op.what = "commit" => ghost.replayed = {}

(* Payload i holds an image of b that is not older than what was committed. *)
Good(b, i) == b \in Home => ghost.committed[b] <= pay[i].val /\ pay[i].val <= ghost.writes

(* The first n payloads belong to one transaction. *)
OneTxn(n) == \E t \in Nat : t >= ghost.last /\ \A i \in 1 .. n : pay[i].txn = t
-----------------------------------------------------------------------------
(* Version 1.  Whatever the header names was logged by the last transaction.*)
Logged(h) ==
  \A i \in 1 .. h.n : Good(h.homes[i], i) /\ pay[i].txn = ghost.txn

(* The block that is being recorded: its image is in the payload. *)
Recording ==
  pc \in {"rec_header", "rec_commit"} =>
    /\ Good(op.block, Len(j.entries) + 1)
    /\ pay[Len(j.entries) + 1].txn = ghost.txn

HeaderLog ==
  version = 1 =>
    /\ Logged(jc.hdr) /\ Logged(jd.hdr)
    /\ pc \in {"txn", "barrier"} \cup RecordPC =>
         jc.hdr.n = Len(j.entries) /\ jd.hdr.n <= jc.hdr.n
    /\ pc \in {"free", "begin_sync"} => jc.hdr.n = 0 /\ jd.hdr.n = 0
    /\ pc = "begin_sync" => j.entries = <<>>
    /\ pc = "final_sync" => jc.hdr.n = 0
    /\ pc = "off" /\ ~sbd.rec => jd.hdr.n = 0
-----------------------------------------------------------------------------
(* Version 2.  Descriptor and commit block of the transaction m. *)
Pair(m) ==
  /\ jd.desc.kind = "desc" /\ jd.com.kind = "commit"
  /\ jd.desc.seq = m /\ jd.com.seq = m

(* Which transactions the log can be complete for. *)
Sequences ==
  version = 2 =>
    /\ jd.hdr.active # 0 => jd.hdr.active = jd.hdr.last + 1
    /\ \A m \in Nat : Pair(m) =>
         /\ m <= IF jd.hdr.active = 0 THEN jd.hdr.last ELSE jd.hdr.active
         /\ ~sbd.rec => m <= sbd.seq
         /\ Mounted => m <= j.seq
         /\ pc \in {"begin_control", "begin_sync"} => m < j.seq
    /\ Mounted =>
         /\ jc.hdr = jd.hdr /\ sbc.seq = j.seq
         /\ \A f \in {"desc", "com"} : jc[f] = jd[f] \/ jc[f] = Zero
    /\ pc \in {"begin_control", "begin_sync"} => j.seq > 0 /\ sbc.rec /\ j.entries = <<>>
    /\ pc = "begin_sync" => jc.desc = Zero /\ jc.com = Zero /\ jd.hdr.active = j.seq
    /\ pc \in {"barrier", "replay_sync"} \cup ResetPC => op.last = j.seq
    /\ pc \in {"txn", "rec_commit", "barrier", "replay_sync"} \cup RecordPC \cup ResetPC =>
         sbd.rec /\ sbc.rec
    /\ pc \in {"reset_desc", "reset_commit", "final_sync"} => jd.hdr.active = 0
    /\ pc = "reset_desc" => jd.hdr.last = j.seq

(* A log that is complete for the active transaction is good to replay. *)
CompleteLog ==
  version = 2 /\ jd.hdr.active # 0 /\ Pair(jd.hdr.active) =>
    /\ Len(jd.com.entries) <= Len(jd.desc.entries) /\ Len(jd.com.entries) <= Area
    /\ OneTxn(Len(jd.com.entries))
    /\ \A i \in 1 .. Len(jd.com.entries) : Good(jd.desc.entries[i], i)

(* The log of the running transaction. *)
RunningLog ==
  version = 2 /\ pc \in {"txn", "rec_commit"} \cup RecordPC =>
    /\ jc = jd /\ jd.hdr.active = j.seq /\ j.seq > 0
    /\ Len(j.entries) <= Area /\ Len(j.entries) <= Len(jd.desc.entries)
    /\ jd.com.entries = j.entries
    /\ \A i \in 1 .. Len(j.entries) :
         /\ jd.desc.entries[i] = j.entries[i]
         /\ Good(j.entries[i], i) /\ pay[i].txn = ghost.txn
    /\ pc = "rec_commit" => jd.desc = Block("desc", j.seq, NextEntries)
-----------------------------------------------------------------------------
(* Version 3.  As long as the commit block is there, the payloads are its.  *)
CommitBlock ==
  version = 3 /\ jd.com.kind = "commit" =>
    /\ Len(jd.com.entries) \in 1 .. Area
    /\ OneTxn(Len(jd.com.entries))
    /\ \A i \in 1 .. Len(jd.com.entries) : Good(jd.com.entries[i][1], i)

Fixed ==
  version = 3 =>
    /\ Mounted => jc = jd
    /\ pc \in {"txn", "barrier", "v3_idle"} \cup WritePC => jd.com.kind # "commit"
    /\ pc = "free" /\ j.active = 0 => jd.com.kind # "commit"
    /\ pc \in {"v3_checkpoint", "v3_home", "replay_control"} =>
         /\ jd.com.kind = "commit" /\ jd.desc.entries = jd.com.entries
         /\ op.k \in 1 .. Len(jd.com.entries)
    /\ pc \in {"txn", "barrier", "v3_checkpoint"} \cup WritePC => j.active # 0
    /\ pc \in HomePC /\ op.what = "commit" => j.active # 0
    /\ pc = "replay_control" => op.what = "replay"

(* The commit that is being written. *)
Writing ==
  pc \in WritePC =>
    /\ op.what = "commit" /\ dirty = {}
    /\ Len(j.entries) \in 1 .. Area
    /\ op.k \in 1 .. Len(j.entries) /\ (pc # "v3_payload" => op.k = 1)
    /\ \A i \in 1 .. (IF pc = "v3_payload" THEN op.k - 1 ELSE Len(j.entries)) :
         /\ pay[i].txn = ghost.txn
         /\ j.entries[i] \in Home => pay[i].val = cache[j.entries[i]]
    /\ pc \in {"v3_prepared", "v3_commit"} => jd.desc.entries = Sums
-----------------------------------------------------------------------------
Inv ==
  /\ Current /\ Order /\ Recording
  /\ HeaderLog
  /\ Sequences /\ CompleteLog /\ RunningLog
  /\ CommitBlock /\ Fixed /\ Writing

IInv == TypeOK /\ Places /\ (~ghost.stale => Inv)

USE FixedAssumption DEF RecordPC, ResetPC, WritePC, HomePC, AnyPC, PC1, PC2, PC3, RunningPC,
  Mounted, homes, super, journal
-----------------------------------------------------------------------------
(* Values the actions build. *)
LEMMA Blanks ==
  /\ <<>> \in Seq(Target) /\ <<>> \in Seq(Item) /\ Len(<<>>) = 0
  /\ NoHomes \in [1 .. Area -> Home \cup {NoBlock}]
BY DEF NoHomes

(* A control block is a header. *)
LEMMA ControlTyped ==
  ASSUME NEW s \in {"v2", "IDLE", "PREPARED", "CHECKPOINTING"}, NEW last \in Nat,
           NEW active \in Nat,
         NEW n \in Nat
  PROVE  [state |-> s, n |-> n, homes |-> NoHomes, last |-> last,
          active |-> active] \in HeaderType
BY Blanks DEF HeaderType

(* A descriptor, a commit block or a cleared block. *)
LEMMA BlockTyped ==
  ASSUME NEW k \in {"zero", "desc", "commit", "empty", "torn"}, NEW seq \in Nat,
           NEW es \in Seq(Item)
  PROVE  [kind |-> k, seq |-> seq, entries |-> es] \in BlockType
BY DEF BlockType

(* A sequence that grows by one. *)
LEMMA AppendFacts ==
  ASSUME NEW S, NEW s \in Seq(S), NEW e \in S
  PROVE  /\ Append(s, e) \in Seq(S) /\ Len(Append(s, e)) = Len(s) + 1
         /\ \A i \in 1 .. Len(s) : Append(s, e)[i] = s[i]
         /\ Append(s, e)[Len(s) + 1] = e
OBVIOUS

(* The home blocks version 2 lists are entries of a descriptor, too. *)
LEMMA SeqInItem == ASSUME NEW s \in Seq(Target) PROVE s \in Seq(Item)
BY DEF Item

(* The types of the variables, of what is compared and of the log. *)
Records ==
  /\ ghost \in GhostType /\ j \in RuntimeType /\ op \in LocalsType
  /\ jc \in AreaType /\ jd \in AreaType /\ pay \in Payloads
  /\ sbc \in SuperType /\ sbd \in SuperType
  /\ version \in 1 .. 3 /\ cache \in [Home -> Nat] /\ disk \in [Home -> Nat]
  /\ dirty \in SUBSET Home /\ pc \in PC1 \cup PC2 \cup PC3
Numbers ==
  /\ ghost.txn \in Nat /\ ghost.writes \in Nat /\ ghost.last \in Nat
  /\ ghost.crashes \in Nat /\ ghost.faults \in Nat /\ ghost.stale \in BOOLEAN
  /\ ghost.mods \in SUBSET Home /\ ghost.replayed \in SUBSET Nat
  /\ op.k \in Nat /\ op.last \in Nat /\ op.block \in Home \cup {NoBlock}
  /\ op.what \in {"none", "commit", "abort", "replay"}
  /\ j.seq \in Nat /\ j.active \in Nat /\ j.err \in BOOLEAN
  /\ sbc.rec \in BOOLEAN /\ sbc.seq \in Nat /\ sbd.rec \in BOOLEAN /\ sbd.seq \in Nat
Values ==
  /\ cache \in [Home -> Nat] /\ disk \in [Home -> Nat] /\ ghost.committed \in [Home -> Nat]
  /\ \A i \in 1 .. Area : pay[i].val \in Nat /\ pay[i].txn \in Nat
  /\ ghost.writes \in Nat /\ ghost.last \in Nat /\ ghost.txn \in Nat
Blocks ==
  /\ jc.hdr \in HeaderType /\ jc.desc \in BlockType /\ jc.com \in BlockType
  /\ jd.hdr \in HeaderType /\ jd.desc \in BlockType /\ jd.com \in BlockType
Lengths ==
  /\ j.entries \in Seq(Target) /\ Len(j.entries) \in Nat
  /\ jc.hdr.n \in Nat /\ jd.hdr.n \in Nat /\ jd.hdr.last \in Nat /\ jd.hdr.active \in Nat
  /\ jc.hdr.homes \in [1 .. Area -> Home \cup {NoBlock}]
  /\ jd.desc.seq \in Nat /\ jd.com.seq \in Nat
  /\ jd.desc.entries \in Seq(Item) /\ Len(jd.desc.entries) \in Nat
  /\ jd.com.entries \in Seq(Item) /\ Len(jd.com.entries) \in Nat

(* What is logged stays good while the payloads stay and nothing commits.  *)
Keeps ==
  /\ pay' = pay /\ ghost'.committed = ghost.committed /\ ghost'.last = ghost.last
  /\ ghost'.writes \in Nat /\ ghost.writes <= ghost'.writes

(* Under Keeps, images stay good and belong to one transaction. *)
LEMMA KeepsGood ==
  ASSUME Values, Keeps
  PROVE  /\ \A b, i : i \in 1 .. Area /\ Good(b, i) => Good(b, i)'
         /\ \A n : OneTxn(n) => OneTxn(n)'
<1>1. ASSUME NEW b, NEW i \in 1 .. Area, Good(b, i) PROVE Good(b, i)'
  BY <1>1 DEF Values, Keeps, Good
<1>2. ASSUME NEW n, OneTxn(n) PROVE OneTxn(n)'
  BY <1>2 DEF Keeps, OneTxn
<1>. QED  BY <1>1, <1>2

(* The types of the fields the steps below reason about. *)
LEMMA Fields == ASSUME TypeOK PROVE Records /\ Numbers /\ Values /\ Blocks /\ Lengths
<1>1. Records
  BY DEF TypeOK, Records
<1>2. Numbers
  <2>1. /\ ghost.txn \in Nat /\ ghost.writes \in Nat /\ ghost.last \in Nat
        /\ ghost.crashes \in Nat /\ ghost.faults \in Nat /\ ghost.stale \in BOOLEAN
        /\ ghost.mods \in SUBSET Home /\ ghost.replayed \in SUBSET Nat
    BY <1>1 DEF Records, GhostType
  <2>2. /\ op.k \in Nat /\ op.last \in Nat /\ op.block \in Home \cup {NoBlock}
        /\ op.what \in {"none", "commit", "abort", "replay"}
    BY <1>1 DEF Records, LocalsType
  <2>3. j.seq \in Nat /\ j.active \in Nat /\ j.err \in BOOLEAN
    BY <1>1 DEF Records, RuntimeType
  <2>4. sbc.rec \in BOOLEAN /\ sbc.seq \in Nat /\ sbd.rec \in BOOLEAN /\ sbd.seq \in Nat
    BY <1>1 DEF Records, SuperType
  <2>. QED  BY <2>1, <2>2, <2>3, <2>4 DEF Numbers
<1>3. Values
  <2>1. ghost.committed \in [Home -> Nat]
    BY <1>1 DEF Records, GhostType
  <2>2. \A i \in 1 .. Area : pay[i].val \in Nat /\ pay[i].txn \in Nat
    BY <1>1 DEF Records, Payloads
  <2>. QED  BY <1>1, <1>2, <2>1, <2>2 DEF Values, Records, Numbers
<1>4. Blocks
  BY <1>1 DEF Records, AreaType, Blocks
<1>5. Lengths
  <2>1. j.entries \in Seq(Target) /\ Len(j.entries) \in Nat
    BY <1>1 DEF Records, RuntimeType
  <2>2. /\ jc.hdr.n \in Nat /\ jd.hdr.n \in Nat /\ jd.hdr.last \in Nat /\ jd.hdr.active \in Nat
        /\ jc.hdr.homes \in [1 .. Area -> Home \cup {NoBlock}]
    BY <1>4 DEF Blocks, HeaderType
  <2>3. /\ jd.desc.seq \in Nat /\ jd.com.seq \in Nat
        /\ jd.desc.entries \in Seq(Item) /\ Len(jd.desc.entries) \in Nat
        /\ jd.com.entries \in Seq(Item) /\ Len(jd.com.entries) \in Nat
    BY <1>4 DEF Blocks, BlockType
  <2>. QED  BY <2>1, <2>2, <2>3 DEF Lengths
<1>. QED  BY <1>1, <1>2, <1>3, <1>4, <1>5
-----------------------------------------------------------------------------
(* The header with one more entry. *)
LEMMA NextHeaderTyped ==
  ASSUME Lengths, Len(j.entries) < Area, op.block \in Home
  PROVE  /\ NextHeader \in HeaderType
         /\ NextHeader.n = Len(j.entries) + 1 /\ NextHeader.n <= Area
         /\ NextHeader.homes[Len(j.entries) + 1] = op.block
         /\ \A i \in 1 .. Len(j.entries) : NextHeader.homes[i] \in {jc.hdr.homes[i], NoBlock}
<1>1. op.block \in Home \cup {NoBlock} /\ j.entries \in Seq(Target) /\ op.block \in Target
  BY DEF Lengths, Target
<1>2. Len(NextEntries) = Len(j.entries) + 1
  BY <1>1, AppendFacts DEF NextEntries
<1>3. PICK hs : hs \in {jc.hdr.homes, NoHomes}
        /\ NextHeader = Header(Len(j.entries) + 1, [hs EXCEPT ![Len(j.entries) + 1] = op.block])
  BY <1>2 DEF NextHeader
<1>4. hs \in [1 .. Area -> Home \cup {NoBlock}]
  BY <1>3, Blanks DEF Lengths
<1>5. Len(j.entries) \in Nat /\ Len(j.entries) + 1 \in 1 .. Area
  BY FixedAssumption DEF Lengths
<1>6. [hs EXCEPT ![Len(j.entries) + 1] = op.block] \in [1 .. Area -> Home \cup {NoBlock}]
  BY <1>1, <1>4, <1>5
<1>7. \A i \in 1 .. Len(j.entries) : hs[i] \in {jc.hdr.homes[i], NoBlock}
        /\ i # Len(j.entries) + 1 /\ i \in 1 .. Area
  BY <1>3, <1>5 DEF NoHomes
<1>8. /\ NextHeader.n = Len(j.entries) + 1
      /\ NextHeader.homes = [hs EXCEPT ![Len(j.entries) + 1] = op.block]
      /\ NextHeader \in HeaderType
  BY <1>3, <1>5, <1>6 DEF Header, HeaderType
<1>. QED  BY <1>4, <1>5, <1>7, <1>8

(* Version 1: it names logged blocks only. *)
LEMMA NextHeaderLogged ==
  ASSUME Lengths, Len(j.entries) < Area, op.block \in Home, Logged(jc.hdr),
           jc.hdr.n = Len(j.entries),
         Good(op.block, Len(j.entries) + 1), pay[Len(j.entries) + 1].txn = ghost.txn
  PROVE  Logged(NextHeader)
<1>. SUFFICES ASSUME NEW i \in 1 .. Len(j.entries) + 1
              PROVE  Good(NextHeader.homes[i], i) /\ pay[i].txn = ghost.txn
  BY NextHeaderTyped DEF Logged
<1>1. CASE i = Len(j.entries) + 1
  BY <1>1, NextHeaderTyped
<1>2. CASE i \in 1 .. Len(j.entries)
  <2>1. Good(jc.hdr.homes[i], i) /\ pay[i].txn = ghost.txn
    BY <1>2 DEF Logged
  <2>2. Good(NoBlock, i)
    BY FixedAssumption DEF Good
  <2>3. NextHeader.homes[i] \in {jc.hdr.homes[i], NoBlock}
    BY <1>2, NextHeaderTyped
  <2>. QED  BY <2>1, <2>2, <2>3
<1>3. Len(j.entries) \in Nat
  BY DEF Lengths
<1>. QED  BY <1>1, <1>2, <1>3

(* What descriptor and commit block of version 3 list. *)
LEMMA SumsTyped ==
  ASSUME Values, Lengths, Len(j.entries) \in 1 .. Area
  PROVE  /\ Sums \in Seq(Item) /\ Len(Sums) = Len(j.entries)
         /\ \A i \in 1 .. Len(j.entries) : Sums[i][1] = j.entries[i]
<1>1. ASSUME NEW i \in 1 .. Len(j.entries)
      PROVE  /\ <<j.entries[i], pay[i].val>> \in Item
             /\ <<j.entries[i], pay[i].val>>[1] = j.entries[i]
  <2>1. i \in 1 .. Area /\ j.entries[i] \in Target
    BY FixedAssumption DEF Lengths
  <2>2. pay[i].val \in Nat
    BY <2>1 DEF Values
  <2>. QED  BY <2>1, <2>2 DEF Item
<1>2. Sums \in [1 .. Len(j.entries) -> Item]
  BY <1>1 DEF Sums
<1>3. Len(j.entries) \in Nat
  BY DEF Lengths
<1>4. Sums \in Seq(Item) /\ Len(Sums) = Len(j.entries)
  BY <1>2, <1>3
<1>. QED  BY <1>1, <1>4 DEF Sums
-----------------------------------------------------------------------------
(* The home blocks a replay makes. *)
LEMMA ImageValues ==
  ASSUME Values, NEW es, NEW n \in Nat, n <= Area
  PROVE  /\ Image(es, n) \in [Home -> Nat]
         /\ \A b \in Home : Image(es, n)[b] = disk[b]
                            \/ \E i \in 1 .. n : es[i] = b /\ Image(es, n)[b] = pay[i].val
<1>1. ASSUME NEW b \in Home
      PROVE  /\ Image(es, n)[b] = disk[b] \/ \E i \in 1 .. n : es[i] = b
                  /\ Image(es, n)[b] = pay[i].val
             /\ Image(es, n)[b] \in Nat
  <2>1. CASE \E i \in 1 .. n : es[i] = b
    <3>1. PICK k : k = CHOOSE i \in 1 .. n : es[i] = b
      OBVIOUS
    <3>2. k \in 1 .. n /\ es[k] = b /\ k \in 1 .. Area
      BY <2>1, <3>1, FixedAssumption
    <3>3. Image(es, n)[b] = pay[k].val
      BY <2>1, <3>1 DEF Image
    <3>. QED  BY <3>2, <3>3 DEF Values
  <2>2. CASE ~\E i \in 1 .. n : es[i] = b
    <3>1. Image(es, n)[b] = disk[b]
      BY <2>2 DEF Image
    <3>. QED  BY <3>1 DEF Values
  <2>. QED  BY <2>1, <2>2
<1>2. Image(es, n) = [b \in Home |-> Image(es, n)[b]]
  BY DEF Image
<1>. QED  BY <1>1, <1>2

(* Replaying good payloads makes no block older than what was committed. *)
LEMMA ImageCurrent ==
  ASSUME Values, Current, NEW es, NEW n \in Nat, n <= Area, \A i \in 1 .. n : Good(es[i], i)
  PROVE  \A b \in Home : ghost.committed[b] <= Image(es, n)[b]
           /\ Image(es, n)[b] <= ghost.writes
<1>. SUFFICES ASSUME NEW b \in Home
              PROVE  ghost.committed[b] <= Image(es, n)[b] /\ Image(es, n)[b] <= ghost.writes
  OBVIOUS
<1>1. CASE Image(es, n)[b] = disk[b]
  BY <1>1 DEF Current
<1>2. CASE \E i \in 1 .. n : es[i] = b /\ Image(es, n)[b] = pay[i].val
  BY <1>2 DEF Good
<1>. QED  BY <1>1, <1>2, ImageValues
-----------------------------------------------------------------------------
(* What is said of the journals of the other versions.                     *)
LEMMA Elsewhere ==
  ASSUME TypeOK', Places'
  PROVE  /\ version' # 1 => HeaderLog'
         /\ version' # 2 => Sequences' /\ CompleteLog' /\ RunningLog'
         /\ version' # 3 => CommitBlock' /\ Fixed' /\ Writing'
         /\ version' = 3 => Recording'
<1>1. version' # 1 => HeaderLog'
  BY DEF HeaderLog
<1>2. version' # 2 => Sequences' /\ CompleteLog' /\ RunningLog'
  BY DEF Sequences, CompleteLog, RunningLog
<1>3. version' # 3 => CommitBlock' /\ Fixed' /\ Writing'
  BY DEF CommitBlock, Fixed, Writing, Places, TypeOK
<1>4. version' = 3 => Recording'
  BY DEF Recording, Places
<1>. QED  BY <1>1, <1>2, <1>3, <1>4
-----------------------------------------------------------------------------

(* Every action, or every case of it that differs in what it disturbs,      *)
(* keeps the invariant: steps <1>t to <1>f say what the action does, a step *)
(* named for a record gives its fields after the action, and one step each  *)
(* re-establishes the type, the places and the parts of Inv; the parts about *)
(* another version of the journal follow from Elsewhere.                    *)
(* Beginning a transaction, and modifying and recording a home block.       *)
LEMMA Begin1I ==
  ASSUME IInv, Begin, BeginV1 PROVE IInv'
<1>t. TypeOK /\ Records /\ Numbers /\ Values /\ Blocks /\ Lengths
  BY Fields DEF IInv
<1>0. /\ version = 1
      /\ pc = "free"
      /\ pc' = "begin_sync"
      /\ UNCHANGED <<version, cache, dirty, disk, sbd, jc, jd, pay>>
  BY DEF Begin, BeginV1, Locals, Runtime
<1>j. /\ j' = [seq |-> j.seq, active |-> j.active, entries |-> <<>>, err |-> j.err]
      /\ j' \in RuntimeType
  <2>1. j' = [seq |-> j.seq, active |-> j.active, entries |-> <<>>, err |-> j.err]
    BY <1>t DEF Records, RuntimeType, BeginV1, Runtime
  <2>2. j.seq \in Nat /\ j.active \in Nat /\ j.err \in BOOLEAN
    BY <1>t, <1>0 DEF Numbers
  <2>3. <<>> \in Seq(Target)
    BY Blanks
  <2>. QED  BY <2>1, <2>2, <2>3 DEF RuntimeType
<1>sbc. /\ sbc' = [rec |-> TRUE, seq |-> sbc.seq]
        /\ sbc' \in SuperType
  <2>1. sbc' = [rec |-> TRUE, seq |-> sbc.seq]
    BY <1>t DEF Records, SuperType, BeginV1
  <2>2. sbc.seq \in Nat
    BY <1>t, <1>0, <1>j DEF Numbers
  <2>. QED  BY <2>1, <2>2 DEF SuperType
<1>op. /\ op' = [block |-> NoBlock, k |-> 1, last |-> 0, what |-> "none"]
       /\ op' \in LocalsType
  <2>1. op' = [block |-> NoBlock, k |-> 1, last |-> 0, what |-> "none"]
    BY <1>t DEF Records, LocalsType, Begin, Locals
  <2>2. /\ NoBlock \in (Home \cup {NoBlock})
        /\ "none" \in {"none", "commit", "abort", "replay"}
    BY <1>t, <1>0, <1>j, <1>sbc DEF Numbers
  <2>. QED  BY <2>1, <2>2 DEF LocalsType
<1>ghost. /\ ghost' = [txn |-> ghost.txn + 1, writes |-> ghost.writes, mods |-> {},
                       committed |-> ghost.committed, replayed |-> {}, last |-> ghost.last,
                       stale |-> ghost.stale, crashes |-> ghost.crashes,
                       faults |-> ghost.faults]
          /\ ghost' \in GhostType
  <2>1. ghost' = [txn |-> ghost.txn + 1, writes |-> ghost.writes, mods |-> {},
                  committed |-> ghost.committed, replayed |-> {}, last |-> ghost.last,
                  stale |-> ghost.stale, crashes |-> ghost.crashes, faults |-> ghost.faults]
    BY <1>t DEF Records, GhostType, Begin
  <2>2. /\ ghost.txn + 1 \in Nat /\ ghost.writes \in Nat
        /\ ghost.committed \in [Home -> Nat] /\ ghost.last \in Nat
        /\ ghost.stale \in BOOLEAN /\ ghost.crashes \in Nat /\ ghost.faults \in Nat
    BY <1>t DEF Numbers, Values
  <2>. QED  BY <2>1, <2>2 DEF GhostType
<1>1. TypeOK'
  BY <1>t, <1>0, <1>j, <1>sbc, <1>op, <1>ghost DEF TypeOK, Records
<1>2. Places'
  BY <1>t, <1>0, <1>j, <1>op, <1>ghost DEF IInv, Places, Records
<1>. SUFFICES ASSUME ~ghost.stale' PROVE Inv'
  BY <1>1, <1>2 DEF IInv
<1>3. Inv /\ Places /\ ~ghost.stale
  BY <1>t, <1>0, <1>ghost DEF IInv, Numbers
<1>4. Current'
  BY <1>t, <1>3, <1>0, <1>ghost DEF Inv, Places, Values, Current
<1>5. Order'
  BY <1>t, <1>3, <1>0, <1>op, <1>ghost DEF Inv, Places, Numbers, Order
<1>6. Recording'
  BY <1>t, <1>3, <1>0, <1>j, <1>op, <1>ghost DEF Inv, Places, Values,
     Lengths, Recording, Good
<1>7. HeaderLog'
  BY <1>t, <1>3, <1>0, <1>j, <1>ghost DEF Inv, Places, Values, Lengths,
     HeaderLog, Logged, Good
<1>. QED  BY <1>0, <1>1, <1>2, Elsewhere, <1>4, <1>5, <1>6, <1>7 DEF Inv

LEMMA Begin2I ==
  ASSUME IInv, Begin, BeginV2 PROVE IInv'
<1>t. TypeOK /\ Records /\ Numbers /\ Values /\ Blocks /\ Lengths
  BY Fields DEF IInv
<1>0. /\ version = 2
      /\ pc = "free"
      /\ pc' = "begin_control"
      /\ UNCHANGED <<version, cache, dirty, disk, sbd, jc, jd, pay>>
  BY DEF Begin, BeginV2, Locals, Runtime
<1>j. /\ j' = [seq |-> j.seq + 1, active |-> j.active, entries |-> <<>>, err |-> j.err]
      /\ j' \in RuntimeType
  <2>1. j' = [seq |-> j.seq + 1, active |-> j.active, entries |-> <<>>, err |-> j.err]
    BY <1>t DEF Records, RuntimeType, BeginV2, Runtime
  <2>2. j.seq + 1 \in Nat /\ j.active \in Nat /\ j.err \in BOOLEAN
    BY <1>t, <1>0 DEF Numbers
  <2>3. <<>> \in Seq(Target)
    BY Blanks
  <2>. QED  BY <2>1, <2>2, <2>3 DEF RuntimeType
<1>sbc. /\ sbc' = [rec |-> TRUE, seq |-> j.seq + 1]
        /\ sbc' \in SuperType
  <2>1. sbc' = [rec |-> TRUE, seq |-> j.seq + 1]
    BY <1>t DEF Records, SuperType, BeginV2
  <2>2. j.seq + 1 \in Nat
    BY <1>t, <1>0, <1>j DEF Numbers
  <2>. QED  BY <2>1, <2>2 DEF SuperType
<1>op. /\ op' = [block |-> NoBlock, k |-> 1, last |-> 0, what |-> "none"]
       /\ op' \in LocalsType
  <2>1. op' = [block |-> NoBlock, k |-> 1, last |-> 0, what |-> "none"]
    BY <1>t DEF Records, LocalsType, Begin, Locals
  <2>2. /\ NoBlock \in (Home \cup {NoBlock})
        /\ "none" \in {"none", "commit", "abort", "replay"}
    BY <1>t, <1>0, <1>j, <1>sbc DEF Numbers
  <2>. QED  BY <2>1, <2>2 DEF LocalsType
<1>ghost. /\ ghost' = [txn |-> ghost.txn + 1, writes |-> ghost.writes, mods |-> {},
                       committed |-> ghost.committed, replayed |-> {}, last |-> ghost.last,
                       stale |-> ghost.stale, crashes |-> ghost.crashes,
                       faults |-> ghost.faults]
          /\ ghost' \in GhostType
  <2>1. ghost' = [txn |-> ghost.txn + 1, writes |-> ghost.writes, mods |-> {},
                  committed |-> ghost.committed, replayed |-> {}, last |-> ghost.last,
                  stale |-> ghost.stale, crashes |-> ghost.crashes, faults |-> ghost.faults]
    BY <1>t DEF Records, GhostType, Begin
  <2>2. /\ ghost.txn + 1 \in Nat /\ ghost.writes \in Nat
        /\ ghost.committed \in [Home -> Nat] /\ ghost.last \in Nat
        /\ ghost.stale \in BOOLEAN /\ ghost.crashes \in Nat /\ ghost.faults \in Nat
    BY <1>t DEF Numbers, Values
  <2>. QED  BY <2>1, <2>2 DEF GhostType
<1>1. TypeOK'
  BY <1>t, <1>0, <1>j, <1>sbc, <1>op, <1>ghost DEF TypeOK, Records
<1>2. Places'
  BY <1>t, <1>0, <1>j, <1>op, <1>ghost DEF IInv, Places, Records
<1>. SUFFICES ASSUME ~ghost.stale' PROVE Inv'
  BY <1>1, <1>2 DEF IInv
<1>3. Inv /\ Places /\ ~ghost.stale
  BY <1>t, <1>0, <1>ghost DEF IInv, Numbers
<1>4. Current'
  BY <1>t, <1>3, <1>0, <1>ghost DEF Inv, Places, Values, Current
<1>5. Order'
  BY <1>t, <1>3, <1>0, <1>op, <1>ghost DEF Inv, Places, Numbers, Order
<1>6. Recording'
  BY <1>t, <1>3, <1>0, <1>j, <1>op, <1>ghost DEF Inv, Places, Values,
     Lengths, Recording, Good
<1>7. Sequences'
  BY <1>t, <1>3, <1>0, <1>j, <1>sbc, <1>op DEF Inv, Places, Numbers, Lengths,
     Sequences, Pair, Zero
<1>8. CompleteLog'
  BY <1>t, <1>3, <1>0, <1>ghost DEF Inv, Places, Values, Lengths,
     CompleteLog, Pair, OneTxn, Good
<1>9. RunningLog'
  BY <1>t, <1>3, <1>0, <1>j, <1>ghost DEF Inv, Places, Values, Lengths,
     RunningLog, Good, NextEntries, Block
<1>. QED  BY <1>0, <1>1, <1>2, Elsewhere, <1>4, <1>5, <1>6, <1>7, <1>8, <1>9
       DEF Inv

LEMMA Begin3I ==
  ASSUME IInv, Begin, BeginV3 PROVE IInv'
<1>t. TypeOK /\ Records /\ Numbers /\ Values /\ Blocks /\ Lengths
  BY Fields DEF IInv
<1>0. /\ version = 3
      /\ pc = "free"
      /\ j.active = 0
      /\ pc' = "txn"
      /\ UNCHANGED <<version, cache, dirty, disk, sbc, sbd, jc, jd, pay>>
  BY DEF Begin, BeginV3, Locals, Runtime
<1>j. /\ j' = [seq |-> j.seq, active |-> j.seq + 1, entries |-> <<>>, err |-> FALSE]
      /\ j' \in RuntimeType
  <2>1. j' = [seq |-> j.seq, active |-> j.seq + 1, entries |-> <<>>, err |-> FALSE]
    BY <1>t DEF Records, RuntimeType, BeginV3, Runtime
  <2>2. j.seq \in Nat /\ j.seq + 1 \in Nat
    BY <1>t, <1>0 DEF Numbers
  <2>3. <<>> \in Seq(Target)
    BY Blanks
  <2>. QED  BY <2>1, <2>2, <2>3 DEF RuntimeType
<1>op. /\ op' = [block |-> NoBlock, k |-> 1, last |-> 0, what |-> "none"]
       /\ op' \in LocalsType
  <2>1. op' = [block |-> NoBlock, k |-> 1, last |-> 0, what |-> "none"]
    BY <1>t DEF Records, LocalsType, Begin, Locals
  <2>2. /\ NoBlock \in (Home \cup {NoBlock})
        /\ "none" \in {"none", "commit", "abort", "replay"}
    BY <1>t, <1>0, <1>j DEF Numbers
  <2>. QED  BY <2>1, <2>2 DEF LocalsType
<1>ghost. /\ ghost' = [txn |-> ghost.txn + 1, writes |-> ghost.writes, mods |-> {},
                       committed |-> ghost.committed, replayed |-> {}, last |-> ghost.last,
                       stale |-> ghost.stale, crashes |-> ghost.crashes,
                       faults |-> ghost.faults]
          /\ ghost' \in GhostType
  <2>1. ghost' = [txn |-> ghost.txn + 1, writes |-> ghost.writes, mods |-> {},
                  committed |-> ghost.committed, replayed |-> {}, last |-> ghost.last,
                  stale |-> ghost.stale, crashes |-> ghost.crashes, faults |-> ghost.faults]
    BY <1>t DEF Records, GhostType, Begin
  <2>2. /\ ghost.txn + 1 \in Nat /\ ghost.writes \in Nat
        /\ ghost.committed \in [Home -> Nat] /\ ghost.last \in Nat
        /\ ghost.stale \in BOOLEAN /\ ghost.crashes \in Nat /\ ghost.faults \in Nat
    BY <1>t DEF Numbers, Values
  <2>. QED  BY <2>1, <2>2 DEF GhostType
<1>1. TypeOK'
  BY <1>t, <1>0, <1>j, <1>op, <1>ghost DEF TypeOK, Records
<1>2. Places'
  BY <1>t, <1>0, <1>j, <1>op, <1>ghost DEF IInv, Places, Records
<1>. SUFFICES ASSUME ~ghost.stale' PROVE Inv'
  BY <1>1, <1>2 DEF IInv
<1>3. Inv /\ Places /\ ~ghost.stale
  BY <1>t, <1>0, <1>ghost DEF IInv, Numbers
<1>4. Current'
  BY <1>t, <1>3, <1>0, <1>ghost DEF Inv, Places, Values, Current
<1>5. Order'
  BY <1>t, <1>3, <1>0, <1>op, <1>ghost DEF Inv, Places, Numbers, Order
<1>6. CommitBlock'
  BY <1>t, <1>3, <1>0, <1>ghost DEF Inv, Places, Values, Lengths,
     CommitBlock, OneTxn, Good
<1>7. Fixed'
  BY <1>t, <1>3, <1>0, <1>j, <1>op DEF Inv, Places, Numbers, Lengths, Fixed
<1>8. Writing'
  BY <1>t, <1>3, <1>0, <1>j, <1>op, <1>ghost DEF Inv, Places, Values,
     Lengths, Writing, Sums
<1>. QED  BY <1>0, <1>1, <1>2, Elsewhere, <1>4, <1>5, <1>6, <1>7, <1>8 DEF
       Inv

LEMMA BeginControlI ==
  ASSUME IInv, BeginControl PROVE IInv'
<1>t. TypeOK /\ Records /\ Numbers /\ Values /\ Blocks /\ Lengths
  BY Fields DEF IInv
<1>0. /\ pc = "begin_control"
      /\ pc' = "begin_sync"
      /\ UNCHANGED <<version, cache, dirty, disk, sbc, sbd, pay, j, op, ghost>>
  BY DEF BeginControl, Control, Zero
<1>n. version = 2
  BY <1>t, <1>0 DEF IInv, Places, Records
<1>f0. version = 2 /\ j.seq > 0 /\ j.seq - 1 \in Nat
  BY <1>t, <1>0 DEF IInv, Inv, Places, Sequences, Records, Numbers
<1>f1. [state |-> "v2", n |-> Area, homes |-> NoHomes, last |-> j.seq - 1,
        active |-> j.seq] \in HeaderType
  BY <1>f0, <1>t, FixedAssumption, ControlTyped DEF Numbers
<1>f2. [kind |-> "zero", seq |-> 0, entries |-> <<>>] \in BlockType
  BY BlockTyped, Blanks
<1>jc. /\ jc' = [hdr |-> [state |-> "v2", n |-> Area, homes |-> NoHomes, last |-> j.seq - 1,
                          active |-> j.seq],
                          desc |-> [kind |-> "zero", seq |-> 0, entries |-> <<>>],
                          com |-> [kind |-> "zero", seq |-> 0, entries |-> <<>>]]
       /\ jc' \in AreaType
  <2>1. jc' = [hdr |-> [state |-> "v2", n |-> Area, homes |-> NoHomes, last |-> j.seq - 1,
                        active |-> j.seq],
                        desc |-> [kind |-> "zero", seq |-> 0, entries |-> <<>>],
                        com |-> [kind |-> "zero", seq |-> 0, entries |-> <<>>]]
    BY <1>t DEF Records, AreaType, BeginControl, Control, Zero
  <2>2. /\ [state |-> "v2", n |-> Area, homes |-> NoHomes, last |-> j.seq - 1,
            active |-> j.seq] \in HeaderType
        /\ [kind |-> "zero", seq |-> 0, entries |-> <<>>] \in BlockType
    BY <1>t, <1>0, <1>f0, <1>f1, <1>f2, Blanks DEF Blocks, Lengths,
       HeaderType, BlockType
  <2>. QED  BY <2>1, <2>2 DEF AreaType
<1>jd. /\ jd' = [hdr |-> [state |-> "v2", n |-> Area, homes |-> NoHomes, last |-> j.seq - 1,
                          active |-> j.seq], desc |-> jd.desc, com |-> jd.com]
       /\ jd' \in AreaType
  <2>1. jd' = [hdr |-> [state |-> "v2", n |-> Area, homes |-> NoHomes, last |-> j.seq - 1,
                        active |-> j.seq], desc |-> jd.desc, com |-> jd.com]
    BY <1>t DEF Records, AreaType, BeginControl, Control, Zero
  <2>2. /\ [state |-> "v2", n |-> Area, homes |-> NoHomes, last |-> j.seq - 1,
            active |-> j.seq] \in HeaderType
        /\ jd.desc \in BlockType /\ jd.com \in BlockType
    BY <1>t, <1>0, <1>f0, <1>f1, <1>f2, <1>jc, Blanks DEF Blocks, Lengths,
       HeaderType, BlockType
  <2>. QED  BY <2>1, <2>2 DEF AreaType
<1>1. TypeOK'
  BY <1>t, <1>0, <1>f0, <1>f1, <1>f2, <1>jc, <1>jd DEF TypeOK, Records
<1>2. Places'
  BY <1>t, <1>0, <1>f0, <1>f1, <1>f2, <1>jc, <1>jd DEF IInv, Places, Records
<1>. SUFFICES ASSUME ~ghost.stale' PROVE Inv'
  BY <1>1, <1>2 DEF IInv
<1>3. Inv /\ Places /\ ~ghost.stale
  BY <1>t, <1>0, <1>f0, <1>f1, <1>f2 DEF IInv, Numbers
<1>4. Current'
  BY <1>t, <1>3, <1>0, <1>f0, <1>f1, <1>f2 DEF Inv, Places, Values, Current
<1>5. Order'
  BY <1>t, <1>3, <1>0 DEF Inv, Places, Numbers, Order
<1>6. Recording'
  BY <1>t, <1>3, <1>0, <1>f0, <1>f1, <1>f2 DEF Inv, Places, Values, Lengths,
     Recording, Good
<1>7. Sequences'
  <2>1. /\ sbc.seq = j.seq /\ sbc.rec /\ j.entries = <<>>
        /\ \A m \in Nat : Pair(m) => m < j.seq /\ (~sbd.rec => m <= sbd.seq)
    BY <1>3, <1>0, <1>f0 DEF Inv, Sequences
  <2>2. jc'.hdr = jd'.hdr /\ jd'.hdr.active = j.seq /\ jd'.hdr.last = j.seq - 1
    BY <1>jc, <1>jd
  <2>3. jc'.desc = Zero /\ jc'.com = Zero /\ jd'.desc = jd.desc /\ jd'.com = jd.com
    BY <1>jc, <1>jd DEF Zero
  <2>4. \A m \in Nat : m < j.seq => m <= j.seq
    BY <1>t DEF Numbers
  <2>5. j.seq - 1 + 1 = j.seq /\ j.seq # 0 /\ j.seq > 0
    BY <1>t, <1>f0 DEF Numbers
  <2>. QED  BY <1>0, <2>1, <2>2, <2>3, <2>4, <2>5 DEF Sequences, Pair
<1>8. CompleteLog'
  <2>1. ~Pair(j.seq)
    BY <1>t, <1>3, <1>0, <1>f0 DEF Inv, Sequences, Numbers
  <2>2. jd'.hdr.active = j.seq /\ jd'.desc = jd.desc /\ jd'.com = jd.com
    BY <1>jd
  <2>. QED  BY <2>1, <2>2 DEF CompleteLog, Pair
<1>9. RunningLog'
  BY <1>t, <1>3, <1>0, <1>f0, <1>f1, <1>f2, <1>jc, <1>jd DEF Inv, Places,
     Values, Lengths, RunningLog, Good, NextEntries, Block
<1>. QED  BY <1>0, <1>n, <1>1, <1>2, Elsewhere, <1>4, <1>5, <1>6, <1>7, <1>8,
       <1>9 DEF Inv

LEMMA BeginSyncI ==
  ASSUME IInv, BeginSync PROVE IInv'
<1>t. TypeOK /\ Records /\ Numbers /\ Values /\ Blocks /\ Lengths
  BY Fields DEF IInv
<1>0. /\ pc = "begin_sync"
      /\ pc' = "txn"
      /\ dirty = {}
      /\ sbc = sbd
      /\ jc = jd
      /\ UNCHANGED <<version, cache, dirty, disk, sbc, sbd, jc, jd, pay, j, op, ghost>>
  BY DEF BeginSync, Synced
<1>n. version \in {1, 2}
  BY <1>t, <1>0 DEF IInv, Places, Records
<1>1. TypeOK'
  BY <1>t, <1>0 DEF TypeOK, Records
<1>2. Places'
  BY <1>t, <1>0 DEF IInv, Places, Records
<1>. SUFFICES ASSUME ~ghost.stale' PROVE Inv'
  BY <1>1, <1>2 DEF IInv
<1>3. Inv /\ Places /\ ~ghost.stale
  BY <1>t, <1>0 DEF IInv, Numbers
<1>4. Current'
  BY <1>t, <1>3, <1>0 DEF Inv, Places, Values, Current
<1>5. Order'
  BY <1>t, <1>3, <1>0 DEF Inv, Places, Numbers, Order
<1>6. Recording'
  BY <1>t, <1>3, <1>0 DEF Inv, Places, Values, Lengths, Recording, Good
<1>7. HeaderLog'
  BY <1>t, <1>3, <1>0 DEF Inv, Places, Values, Lengths, HeaderLog, Logged,
     Good
<1>8. Sequences'
  BY <1>t, <1>3, <1>0 DEF Inv, Places, Numbers, Lengths, Sequences, Pair,
     Zero
<1>9. CompleteLog'
  BY <1>t, <1>3, <1>0 DEF Inv, Places, Values, Lengths, CompleteLog, Pair,
     OneTxn, Good
<1>10. RunningLog'
  <2>1. version = 2 => j.entries = <<>> /\ jc.com = Zero /\ jd.hdr.active = j.seq /\ j.seq > 0
    BY <1>3, <1>0 DEF Inv, Sequences
  <2>2. Zero.entries = <<>>
    BY DEF Zero
  <2>3. version = 2 => Len(j.entries) = 0 /\ jd.com.entries = j.entries
    BY <1>0, <2>1, <2>2, Blanks
  <2>. QED  BY <1>t, <1>0, <2>1, <2>3 DEF RunningLog, Lengths
<1>. QED  BY <1>0, <1>n, <1>1, <1>2, Elsewhere, <1>4, <1>5, <1>6, <1>7, <1>8,
       <1>9, <1>10 DEF Inv

LEMMA BeginFails1I ==
  ASSUME IInv, BeginFails, version # 2 PROVE IInv'
<1>t. TypeOK /\ Records /\ Numbers /\ Values /\ Blocks /\ Lengths
  BY Fields DEF IInv
<1>0. /\ pc \in {"begin_control", "begin_sync"}
      /\ pc' = "free"
      /\ UNCHANGED <<version, cache, dirty, disk, sbd, jc, jd, pay, j, op>>
  BY DEF BeginFails
<1>n. version = 1
  BY <1>t, <1>0 DEF IInv, Places, Records
<1>sbc. /\ sbc' = [rec |-> FALSE, seq |-> j.seq]
        /\ sbc' \in SuperType
  <2>1. sbc' = [rec |-> FALSE, seq |-> j.seq]
    BY <1>t DEF Records, SuperType, BeginFails
  <2>2. j.seq \in Nat
    BY <1>t, <1>0 DEF Numbers
  <2>. QED  BY <2>1, <2>2 DEF SuperType
<1>ghost. /\ ghost' = [txn |-> ghost.txn, writes |-> ghost.writes, mods |-> ghost.mods,
                       committed |-> ghost.committed, replayed |-> ghost.replayed,
                       last |-> ghost.last, stale |-> ghost.stale, crashes |-> ghost.crashes,
                       faults |-> ghost.faults + 1]
          /\ ghost' \in GhostType
  <2>1. ghost' = [txn |-> ghost.txn, writes |-> ghost.writes, mods |-> ghost.mods,
                  committed |-> ghost.committed, replayed |-> ghost.replayed,
                  last |-> ghost.last, stale |-> ghost.stale, crashes |-> ghost.crashes,
                  faults |-> ghost.faults + 1]
    BY <1>t DEF Records, GhostType, BeginFails
  <2>2. /\ ghost.txn \in Nat /\ ghost.writes \in Nat /\ ghost.mods \in SUBSET Home
        /\ ghost.committed \in [Home -> Nat] /\ ghost.replayed \in SUBSET Nat
        /\ ghost.last \in Nat /\ ghost.stale \in BOOLEAN /\ ghost.crashes \in Nat
        /\ ghost.faults + 1 \in Nat
    BY <1>t DEF Numbers, Values
  <2>. QED  BY <2>1, <2>2 DEF GhostType
<1>1. TypeOK'
  BY <1>t, <1>0, <1>sbc, <1>ghost DEF TypeOK, Records
<1>2. Places'
  BY <1>t, <1>0, <1>ghost DEF IInv, Places, Records
<1>. SUFFICES ASSUME ~ghost.stale' PROVE Inv'
  BY <1>1, <1>2 DEF IInv
<1>3. Inv /\ Places /\ ~ghost.stale
  BY <1>t, <1>0, <1>ghost DEF IInv, Numbers
<1>4. Current'
  BY <1>t, <1>3, <1>0, <1>ghost DEF Inv, Places, Values, Current
<1>5. Order'
  BY <1>t, <1>3, <1>0, <1>ghost DEF Inv, Places, Numbers, Order
<1>6. Recording'
  BY <1>t, <1>3, <1>0, <1>ghost DEF Inv, Places, Values, Lengths, Recording,
     Good
<1>7. HeaderLog'
  BY <1>t, <1>3, <1>0, <1>ghost DEF Inv, Places, Values, Lengths, HeaderLog,
     Logged, Good
<1>. QED  BY <1>0, <1>n, <1>1, <1>2, Elsewhere, <1>4, <1>5, <1>6, <1>7 DEF
       Inv

LEMMA BeginFails2I ==
  ASSUME IInv, BeginFails, version = 2 PROVE IInv'
<1>t. TypeOK /\ Records /\ Numbers /\ Values /\ Blocks /\ Lengths
  BY Fields DEF IInv
<1>0. /\ pc \in {"begin_control", "begin_sync"}
      /\ pc' = "free"
      /\ UNCHANGED <<version, cache, dirty, disk, sbd, jc, jd, pay, op>>
  BY DEF BeginFails, Runtime
<1>f0. version = 2 /\ j.seq > 0 /\ j.seq - 1 \in Nat
  BY <1>t, <1>0 DEF IInv, Inv, Places, Sequences, Records, Numbers
<1>j. /\ j' = [seq |-> j.seq - 1, active |-> 0, entries |-> <<>>, err |-> FALSE]
      /\ j' \in RuntimeType
  <2>1. j' = [seq |-> j.seq - 1, active |-> 0, entries |-> <<>>, err |-> FALSE]
    BY <1>t DEF Records, RuntimeType, BeginFails, Runtime
  <2>2. j.seq - 1 \in Nat
    BY <1>t, <1>0, <1>f0 DEF Numbers
  <2>3. <<>> \in Seq(Target)
    BY Blanks
  <2>. QED  BY <2>1, <2>2, <2>3 DEF RuntimeType
<1>sbc. /\ sbc' = [rec |-> FALSE, seq |-> j.seq - 1]
        /\ sbc' \in SuperType
  <2>1. sbc' = [rec |-> FALSE, seq |-> j.seq - 1]
    BY <1>t DEF Records, SuperType, BeginFails, Runtime
  <2>2. j.seq - 1 \in Nat
    BY <1>t, <1>0, <1>f0, <1>j DEF Numbers
  <2>. QED  BY <2>1, <2>2 DEF SuperType
<1>ghost. /\ ghost' = [txn |-> ghost.txn, writes |-> ghost.writes, mods |-> ghost.mods,
                       committed |-> ghost.committed, replayed |-> ghost.replayed,
                       last |-> ghost.last, stale |-> ghost.stale, crashes |-> ghost.crashes,
                       faults |-> ghost.faults + 1]
          /\ ghost' \in GhostType
  <2>1. ghost' = [txn |-> ghost.txn, writes |-> ghost.writes, mods |-> ghost.mods,
                  committed |-> ghost.committed, replayed |-> ghost.replayed,
                  last |-> ghost.last, stale |-> ghost.stale, crashes |-> ghost.crashes,
                  faults |-> ghost.faults + 1]
    BY <1>t DEF Records, GhostType, BeginFails, Runtime
  <2>2. /\ ghost.txn \in Nat /\ ghost.writes \in Nat /\ ghost.mods \in SUBSET Home
        /\ ghost.committed \in [Home -> Nat] /\ ghost.replayed \in SUBSET Nat
        /\ ghost.last \in Nat /\ ghost.stale \in BOOLEAN /\ ghost.crashes \in Nat
        /\ ghost.faults + 1 \in Nat
    BY <1>t DEF Numbers, Values
  <2>. QED  BY <2>1, <2>2 DEF GhostType
<1>1. TypeOK'
  BY <1>t, <1>0, <1>f0, <1>j, <1>sbc, <1>ghost DEF TypeOK, Records
<1>2. Places'
  BY <1>t, <1>0, <1>f0, <1>j, <1>ghost DEF IInv, Places, Records
<1>. SUFFICES ASSUME ~ghost.stale' PROVE Inv'
  BY <1>1, <1>2 DEF IInv
<1>3. Inv /\ Places /\ ~ghost.stale
  BY <1>t, <1>0, <1>f0, <1>ghost DEF IInv, Numbers
<1>4. Current'
  BY <1>t, <1>3, <1>0, <1>f0, <1>ghost DEF Inv, Places, Values, Current
<1>5. Order'
  BY <1>t, <1>3, <1>0, <1>ghost DEF Inv, Places, Numbers, Order
<1>6. Recording'
  BY <1>t, <1>3, <1>0, <1>f0, <1>j, <1>ghost DEF Inv, Places, Values,
     Lengths, Recording, Good
<1>7. Sequences'
  <2>1. /\ jd.hdr.active # 0 => jd.hdr.active = jd.hdr.last + 1
        /\ \A m \in Nat : Pair(m) =>
             /\ m <= IF jd.hdr.active = 0 THEN jd.hdr.last ELSE jd.hdr.active
             /\ (~sbd.rec => m <= sbd.seq) /\ m < j.seq
        /\ jc.hdr = jd.hdr /\ \A f \in {"desc", "com"} : jc[f] = jd[f] \/ jc[f] = Zero
    BY <1>3, <1>0, <1>f0 DEF Inv, Sequences
  <2>2. \A m \in Nat : m < j.seq => m <= j.seq - 1
    BY <1>t DEF Numbers
  <2>3. j'.seq = j.seq - 1 /\ sbc'.seq = j.seq - 1
    BY <1>j, <1>sbc
  <2>. QED  BY <1>0, <2>1, <2>2, <2>3 DEF Sequences, Pair
<1>8. CompleteLog'
  BY <1>t, <1>3, <1>0, <1>f0, <1>ghost DEF Inv, Places, Values, Lengths,
     CompleteLog, Pair, OneTxn, Good
<1>9. RunningLog'
  BY <1>t, <1>3, <1>0, <1>f0, <1>j, <1>ghost DEF Inv, Places, Values,
     Lengths, RunningLog, Good, NextEntries, Block
<1>. QED  BY <1>0, <1>1, <1>2, Elsewhere, <1>4, <1>5, <1>6, <1>7, <1>8, <1>9
       DEF Inv

LEMMA Modify3I ==
  ASSUME IInv, NEW x \in Home, Modify(x), version = 3 PROVE IInv'
<1>t. TypeOK /\ Records /\ Numbers /\ Values /\ Blocks /\ Lengths
  BY Fields DEF IInv
<1>0. /\ pc = "txn"
      /\ cache' = [cache EXCEPT ![x] = ghost.writes + 1]
      /\ dirty' = dirty \cup {x}
      /\ UNCHANGED <<version, disk, sbc, sbd, jc, jd, pay, op, pc>>
  BY DEF Modify
<1>f0. j'.entries \in Seq(Target) /\ j'.err \in BOOLEAN
  <2>1. j' = [j EXCEPT !.entries = IF Recorded(x) \/ Full \/ j.err THEN j.entries
              ELSE Append(j.entries, x),
                     !.err = j.err \/ (Full /\ ~Recorded(x))]
    BY DEF Modify
  <2>2. j'.entries \in {j.entries, Append(j.entries, x)} /\ j'.err \in BOOLEAN
    BY <1>t, <2>1 DEF Records, RuntimeType
  <2>3. j.entries \in Seq(Target) /\ x \in Target
    BY <1>t DEF Lengths, Target
  <2>. QED  BY <2>2, <2>3, AppendFacts
<1>f1. cache' \in [Home -> Nat] /\ dirty' \in SUBSET Home
  BY <1>t, <1>0 DEF Values, Records
<1>j. /\ j' = [seq |-> j.seq, active |-> j.active, entries |-> j'.entries, err |-> j'.err]
      /\ j' \in RuntimeType
  <2>1. j' = [seq |-> j.seq, active |-> j.active, entries |-> j'.entries, err |-> j'.err]
    BY <1>t DEF Records, RuntimeType, Modify
  <2>2. j.seq \in Nat /\ j.active \in Nat /\ j'.err \in BOOLEAN
    BY <1>t, <1>0, <1>f0, <1>f1 DEF Numbers
  <2>3. j'.entries \in Seq(Target)
    BY <1>t, <1>0, <1>f0, <1>f1 DEF Lengths
  <2>. QED  BY <2>1, <2>2, <2>3 DEF RuntimeType
<1>ghost. /\ ghost' = [txn |-> ghost.txn, writes |-> ghost.writes + 1,
                       mods |-> ghost.mods \cup {x}, committed |-> ghost.committed,
                       replayed |-> ghost.replayed, last |-> ghost.last, stale |-> ghost.stale,
                       crashes |-> ghost.crashes, faults |-> ghost.faults]
          /\ ghost' \in GhostType
  <2>1. ghost' = [txn |-> ghost.txn, writes |-> ghost.writes + 1, mods |-> ghost.mods \cup {x},
                  committed |-> ghost.committed, replayed |-> ghost.replayed,
                  last |-> ghost.last, stale |-> ghost.stale, crashes |-> ghost.crashes,
                  faults |-> ghost.faults]
    BY <1>t DEF Records, GhostType, Modify
  <2>2. /\ ghost.txn \in Nat /\ ghost.writes + 1 \in Nat
        /\ ghost.committed \in [Home -> Nat] /\ ghost.replayed \in SUBSET Nat
        /\ ghost.last \in Nat /\ ghost.stale \in BOOLEAN /\ ghost.crashes \in Nat
        /\ ghost.faults \in Nat
    BY <1>t DEF Numbers, Values
  <2>3. ghost.mods \cup {x} \in SUBSET Home
    BY <1>t, <1>0, <1>f0, <1>f1 DEF Numbers, Values
  <2>. QED  BY <2>1, <2>2, <2>3 DEF GhostType
<1>1. TypeOK'
  BY <1>t, <1>0, <1>f0, <1>f1, <1>j, <1>ghost DEF TypeOK, Records
<1>2. Places'
  BY <1>t, <1>0, <1>f0, <1>f1, <1>j, <1>ghost DEF IInv, Places, Records
<1>. SUFFICES ASSUME ~ghost.stale' PROVE Inv'
  BY <1>1, <1>2 DEF IInv
<1>3. Inv /\ Places /\ ~ghost.stale
  BY <1>t, <1>0, <1>f0, <1>f1, <1>ghost DEF IInv, Numbers
<1>4. Current'
  BY <1>t, <1>3, <1>0, <1>ghost DEF Inv, Places, Values, Current
<1>5. Order'
  BY <1>t, <1>3, <1>0, <1>ghost DEF Inv, Places, Numbers, Order
<1>6. CommitBlock'
  <2>1. Keeps
    BY <1>t, <1>0, <1>ghost DEF Values, Keeps
  <2>2. /\ \A b, i : i \in 1 .. Area /\ Good(b, i) => Good(b, i)'
        /\ \A n : OneTxn(n) => OneTxn(n)'
    BY <1>t, <2>1, KeepsGood
  <2>. QED  BY <1>t, <1>3, <1>0, <1>f0, <1>f1, <1>j, <1>ghost, <2>2 DEF Inv, Places, Lengths,
         CommitBlock
<1>7. Fixed'
  BY <1>t, <1>3, <1>0, <1>f0, <1>f1, <1>j DEF Inv, Places, Numbers, Lengths,
     Fixed
<1>8. Writing'
  BY <1>t, <1>3, <1>0, <1>f0, <1>f1, <1>j, <1>ghost DEF Inv, Places, Values,
     Lengths, Writing, Sums
<1>. QED  BY <1>0, <1>1, <1>2, Elsewhere, <1>4, <1>5, <1>6, <1>7, <1>8 DEF
       Inv

LEMMA ModifyOldI ==
  ASSUME IInv, NEW x \in Home, Modify(x), version # 3, Recorded(x) \/ Full PROVE IInv'
<1>t. TypeOK /\ Records /\ Numbers /\ Values /\ Blocks /\ Lengths
  BY Fields DEF IInv
<1>0. /\ pc = "txn"
      /\ cache' = [cache EXCEPT ![x] = ghost.writes + 1]
      /\ dirty' = dirty \cup {x}
      /\ UNCHANGED <<version, disk, sbc, sbd, jc, jd, pay, j, op, pc>>
  BY DEF Modify
<1>n. version \in {1, 2}
  BY <1>t, <1>0 DEF IInv, Places, Records
<1>f0. cache' \in [Home -> Nat] /\ dirty' \in SUBSET Home
  BY <1>t, <1>0 DEF Values, Records
<1>ghost. /\ ghost' = [txn |-> ghost.txn, writes |-> ghost.writes + 1,
                       mods |-> ghost.mods \cup {x}, committed |-> ghost.committed,
                       replayed |-> ghost.replayed, last |-> ghost.last, stale |-> ghost.stale,
                       crashes |-> ghost.crashes, faults |-> ghost.faults]
          /\ ghost' \in GhostType
  <2>1. ghost' = [txn |-> ghost.txn, writes |-> ghost.writes + 1, mods |-> ghost.mods \cup {x},
                  committed |-> ghost.committed, replayed |-> ghost.replayed,
                  last |-> ghost.last, stale |-> ghost.stale, crashes |-> ghost.crashes,
                  faults |-> ghost.faults]
    BY <1>t DEF Records, GhostType, Modify
  <2>2. /\ ghost.txn \in Nat /\ ghost.writes + 1 \in Nat
        /\ ghost.committed \in [Home -> Nat] /\ ghost.replayed \in SUBSET Nat
        /\ ghost.last \in Nat /\ ghost.stale \in BOOLEAN /\ ghost.crashes \in Nat
        /\ ghost.faults \in Nat
    BY <1>t DEF Numbers, Values
  <2>3. ghost.mods \cup {x} \in SUBSET Home
    BY <1>t, <1>0, <1>f0 DEF Numbers, Values
  <2>. QED  BY <2>1, <2>2, <2>3 DEF GhostType
<1>1. TypeOK'
  BY <1>t, <1>0, <1>f0, <1>ghost DEF TypeOK, Records
<1>2. Places'
  BY <1>t, <1>0, <1>f0, <1>ghost DEF IInv, Places, Records
<1>. SUFFICES ASSUME ~ghost.stale' PROVE Inv'
  BY <1>1, <1>2 DEF IInv
<1>3. Inv /\ Places /\ ~ghost.stale
  BY <1>t, <1>0, <1>f0, <1>ghost DEF IInv, Numbers
<1>4. Current'
  BY <1>t, <1>3, <1>0, <1>f0, <1>ghost DEF Inv, Places, Values, Current
<1>5. Order'
  BY <1>t, <1>3, <1>0, <1>ghost DEF Inv, Places, Numbers, Order
<1>6. Recording'
  BY <1>t, <1>3, <1>0, <1>f0, <1>ghost DEF Inv, Places, Values, Lengths,
     Recording, Good
<1>7. HeaderLog'
  <2>1. Keeps
    BY <1>t, <1>0, <1>ghost DEF Values, Keeps
  <2>2. \A b, i : i \in 1 .. Area /\ Good(b, i) => Good(b, i)'
    BY <1>t, <2>1, KeepsGood
  <2>3. version = 1 => /\ Logged(jc.hdr) /\ jc.hdr.n \in Nat /\ jc.hdr.n <= Area
                       /\ Logged(jd.hdr) /\ jd.hdr.n \in Nat /\ jd.hdr.n <= Area
    BY <1>t, <1>3 DEF Inv, Places, Lengths, HeaderLog
  <2>4. jc' = jc /\ jd' = jd /\ pay' = pay /\ ghost'.txn = ghost.txn
    BY <1>0, <1>ghost
  <2>5. version = 1 => Logged(jc.hdr)' /\ Logged(jd.hdr)'
    BY <2>2, <2>3, <2>4 DEF Logged
  <2>. QED  BY <1>t, <1>3, <1>0, <1>f0, <1>ghost, <2>5 DEF Inv, HeaderLog
<1>8. Sequences'
  BY <1>t, <1>3, <1>0, <1>f0 DEF Inv, Places, Numbers, Lengths, Sequences,
     Pair, Zero
<1>9. CompleteLog'
  <2>1. Keeps
    BY <1>t, <1>0, <1>ghost DEF Values, Keeps
  <2>2. /\ \A b, i : i \in 1 .. Area /\ Good(b, i) => Good(b, i)'
        /\ \A n : OneTxn(n) => OneTxn(n)'
    BY <1>t, <2>1, KeepsGood
  <2>. QED  BY <1>t, <1>3, <1>0, <1>f0, <1>ghost, <2>2 DEF Inv, Places, Lengths, CompleteLog,
         Pair
<1>10. RunningLog'
  <2>1. Keeps
    BY <1>t, <1>0, <1>ghost DEF Values, Keeps
  <2>2. /\ \A b, i : i \in 1 .. Area /\ Good(b, i) => Good(b, i)'
        /\ \A n : OneTxn(n) => OneTxn(n)'
    BY <1>t, <2>1, KeepsGood
  <2>. QED  BY <1>t, <1>3, <1>0, <1>f0, <1>ghost, <2>2 DEF Inv, Places, Lengths, RunningLog,
         NextEntries, Block
<1>. QED  BY <1>0, <1>n, <1>1, <1>2, Elsewhere, <1>4, <1>5, <1>6, <1>7, <1>8,
       <1>9, <1>10 DEF Inv

LEMMA ModifyNewI ==
  ASSUME IInv, NEW x \in Home, Modify(x), version # 3, ~(Recorded(x) \/ Full) PROVE IInv'
<1>t. TypeOK /\ Records /\ Numbers /\ Values /\ Blocks /\ Lengths
  BY Fields DEF IInv
<1>0. /\ pc = "txn"
      /\ pc' = "rec_payload"
      /\ Len(j.entries) < Area
      /\ cache' = [cache EXCEPT ![x] = ghost.writes + 1]
      /\ dirty' = dirty \cup {x}
      /\ UNCHANGED <<version, disk, sbc, sbd, jc, jd, pay, j>>
  BY DEF Modify, Full
<1>n. version \in {1, 2}
  BY <1>t, <1>0 DEF IInv, Places, Records
<1>f0. cache' \in [Home -> Nat] /\ dirty' \in SUBSET Home
  BY <1>t, <1>0 DEF Values, Records
<1>op. /\ op' = [block |-> x, k |-> op.k, last |-> op.last, what |-> op.what]
       /\ op' \in LocalsType
  <2>1. op' = [block |-> x, k |-> op.k, last |-> op.last, what |-> op.what]
    BY <1>t DEF Records, LocalsType, Modify, Full
  <2>2. /\ x \in (Home \cup {NoBlock}) /\ op.k \in Nat /\ op.last \in Nat
        /\ op.what \in {"none", "commit", "abort", "replay"}
    BY <1>t, <1>0, <1>f0 DEF Numbers
  <2>. QED  BY <2>1, <2>2 DEF LocalsType
<1>ghost. /\ ghost' = [txn |-> ghost.txn, writes |-> ghost.writes + 1,
                       mods |-> ghost.mods \cup {x}, committed |-> ghost.committed,
                       replayed |-> ghost.replayed, last |-> ghost.last, stale |-> ghost.stale,
                       crashes |-> ghost.crashes, faults |-> ghost.faults]
          /\ ghost' \in GhostType
  <2>1. ghost' = [txn |-> ghost.txn, writes |-> ghost.writes + 1, mods |-> ghost.mods \cup {x},
                  committed |-> ghost.committed, replayed |-> ghost.replayed,
                  last |-> ghost.last, stale |-> ghost.stale, crashes |-> ghost.crashes,
                  faults |-> ghost.faults]
    BY <1>t DEF Records, GhostType, Modify, Full
  <2>2. /\ ghost.txn \in Nat /\ ghost.writes + 1 \in Nat
        /\ ghost.committed \in [Home -> Nat] /\ ghost.replayed \in SUBSET Nat
        /\ ghost.last \in Nat /\ ghost.stale \in BOOLEAN /\ ghost.crashes \in Nat
        /\ ghost.faults \in Nat
    BY <1>t DEF Numbers, Values
  <2>3. ghost.mods \cup {x} \in SUBSET Home
    BY <1>t, <1>0, <1>f0 DEF Numbers, Values
  <2>. QED  BY <2>1, <2>2, <2>3 DEF GhostType
<1>1. TypeOK'
  BY <1>t, <1>0, <1>f0, <1>op, <1>ghost DEF TypeOK, Records
<1>2. Places'
  BY <1>t, <1>0, <1>f0, <1>op, <1>ghost DEF IInv, Places, Records
<1>. SUFFICES ASSUME ~ghost.stale' PROVE Inv'
  BY <1>1, <1>2 DEF IInv
<1>3. Inv /\ Places /\ ~ghost.stale
  BY <1>t, <1>0, <1>f0, <1>ghost DEF IInv, Numbers
<1>4. Current'
  BY <1>t, <1>3, <1>0, <1>f0, <1>ghost DEF Inv, Places, Values, Current
<1>5. Order'
  BY <1>t, <1>3, <1>0, <1>op, <1>ghost DEF Inv, Places, Numbers, Order
<1>6. Recording'
  BY <1>t, <1>3, <1>0, <1>f0, <1>op, <1>ghost DEF Inv, Places, Values,
     Lengths, Recording, Good
<1>7. HeaderLog'
  <2>1. Keeps
    BY <1>t, <1>0, <1>ghost DEF Values, Keeps
  <2>2. \A b, i : i \in 1 .. Area /\ Good(b, i) => Good(b, i)'
    BY <1>t, <2>1, KeepsGood
  <2>3. version = 1 => /\ Logged(jc.hdr) /\ jc.hdr.n \in Nat /\ jc.hdr.n <= Area
                       /\ Logged(jd.hdr) /\ jd.hdr.n \in Nat /\ jd.hdr.n <= Area
    BY <1>t, <1>3 DEF Inv, Places, Lengths, HeaderLog
  <2>4. jc' = jc /\ jd' = jd /\ pay' = pay /\ ghost'.txn = ghost.txn
    BY <1>0, <1>ghost
  <2>5. version = 1 => Logged(jc.hdr)' /\ Logged(jd.hdr)'
    BY <2>2, <2>3, <2>4 DEF Logged
  <2>. QED  BY <1>t, <1>3, <1>0, <1>f0, <1>op, <1>ghost, <2>5 DEF Inv, HeaderLog
<1>8. Sequences'
  BY <1>t, <1>3, <1>0, <1>f0, <1>op DEF Inv, Places, Numbers, Lengths,
     Sequences, Pair, Zero
<1>9. CompleteLog'
  <2>1. Keeps
    BY <1>t, <1>0, <1>ghost DEF Values, Keeps
  <2>2. /\ \A b, i : i \in 1 .. Area /\ Good(b, i) => Good(b, i)'
        /\ \A n : OneTxn(n) => OneTxn(n)'
    BY <1>t, <2>1, KeepsGood
  <2>. QED  BY <1>t, <1>3, <1>0, <1>f0, <1>op, <1>ghost, <2>2 DEF Inv, Places, Lengths,
         CompleteLog, Pair
<1>10. RunningLog'
  <2>1. Keeps
    BY <1>t, <1>0, <1>ghost DEF Values, Keeps
  <2>2. /\ \A b, i : i \in 1 .. Area /\ Good(b, i) => Good(b, i)'
        /\ \A n : OneTxn(n) => OneTxn(n)'
    BY <1>t, <2>1, KeepsGood
  <2>. QED  BY <1>t, <1>3, <1>0, <1>f0, <1>op, <1>ghost, <2>2 DEF Inv, Places, Lengths,
         RunningLog, NextEntries, Block
<1>. QED  BY <1>0, <1>n, <1>1, <1>2, Elsewhere, <1>4, <1>5, <1>6, <1>7, <1>8,
       <1>9, <1>10 DEF Inv

LEMMA RecordPayloadI ==
  ASSUME IInv, RecordPayload PROVE IInv'
<1>t. TypeOK /\ Records /\ Numbers /\ Values /\ Blocks /\ Lengths
  BY Fields DEF IInv
<1>0. /\ pc = "rec_payload"
      /\ pc' = "rec_header"
      /\ pay' = [pay EXCEPT ![Len(j.entries) + 1] = [val |-> cache[op.block],
                                                     txn |-> ghost.txn]]
      /\ UNCHANGED <<version, cache, dirty, disk, sbc, sbd, jc, jd, j, op, ghost>>
  BY DEF RecordPayload
<1>n. version \in {1, 2}
  BY <1>t, <1>0 DEF IInv, Places, Records
<1>f0. /\ Len(j.entries) + 1 \in 1 .. Area /\ op.block \in Home /\ version # 3
      /\ cache[op.block] \in Nat /\ Len(j.entries) < Len(j.entries) + 1
  <2>1. op.block \in Home /\ Len(j.entries) < Area /\ version # 3
    BY <1>0 DEF IInv, Places
  <2>2. Len(j.entries) \in Nat /\ cache \in [Home -> Nat]
    BY <1>t DEF Values, Lengths
  <2>. QED  BY <2>1, <2>2, FixedAssumption
<1>f1. /\ pay' \in Payloads
       /\ \A i \in 1 .. Area : i # Len(j.entries) + 1 => pay'[i] = pay[i]
       /\ pay'[Len(j.entries) + 1].val = cache[op.block]
       /\ pay'[Len(j.entries) + 1].txn = ghost.txn
  BY <1>t, <1>0, <1>f0 DEF Values, Payloads, Records, Numbers
<1>f2. \A i \in 1 .. Len(j.entries) : i \in 1 .. Area /\ pay'[i] = pay[i]
  BY <1>t, <1>f0, <1>f1 DEF Lengths
<1>1. TypeOK'
  BY <1>t, <1>0, <1>f0, <1>f1, <1>f2 DEF TypeOK, Records
<1>2. Places'
  BY <1>t, <1>0, <1>f0, <1>f1, <1>f2 DEF IInv, Places, Records
<1>. SUFFICES ASSUME ~ghost.stale' PROVE Inv'
  BY <1>1, <1>2 DEF IInv
<1>3. Inv /\ Places /\ ~ghost.stale
  BY <1>t, <1>0, <1>f0, <1>f1, <1>f2 DEF IInv, Numbers
<1>4. Current'
  BY <1>t, <1>3, <1>0, <1>f0, <1>f1, <1>f2 DEF Inv, Places, Values, Current
<1>5. Order'
  BY <1>t, <1>3, <1>0 DEF Inv, Places, Numbers, Order
<1>6. Recording'
  <2>1. ghost.committed[op.block] <= cache[op.block] /\ cache[op.block] <= ghost.writes
    BY <1>3, <1>f0 DEF Inv, Current
  <2>2. pay'[Len(j.entries) + 1].val = cache[op.block]
          /\ pay'[Len(j.entries) + 1].txn = ghost.txn
    BY <1>f1
  <2>. QED  BY <1>0, <2>1, <2>2 DEF Recording, Good
<1>7. HeaderLog'
  <2>1. version = 1 => /\ jc.hdr.n = Len(j.entries) /\ jd.hdr.n <= jc.hdr.n
                       /\ Logged(jc.hdr) /\ Logged(jd.hdr)
    BY <1>3, <1>0 DEF Inv, HeaderLog
  <2>2. version = 1 => Logged(jc.hdr)' /\ Logged(jd.hdr)'
    BY <1>t, <1>0, <1>f2, <2>1 DEF Logged, Good, Lengths
  <2>. QED  BY <1>3, <1>0, <2>1, <2>2 DEF Inv, HeaderLog
<1>8. Sequences'
  BY <1>t, <1>3, <1>0, <1>f0, <1>f1, <1>f2 DEF Inv, Places, Numbers, Lengths,
     Sequences, Pair, Zero
<1>9. CompleteLog'
  <2>1. version = 2 => jd.com.entries = j.entries
    BY <1>3, <1>0 DEF Inv, RunningLog
  <2>. QED  BY <1>t, <1>3, <1>0, <1>f0, <1>f1, <1>f2, <2>1 DEF Inv, CompleteLog, Pair, OneTxn,
         Good
<1>10. RunningLog'
  BY <1>t, <1>3, <1>0, <1>f0, <1>f1, <1>f2 DEF Inv, Places, Values, Lengths,
     RunningLog, Good, NextEntries, Block
<1>. QED  BY <1>0, <1>n, <1>1, <1>2, Elsewhere, <1>4, <1>5, <1>6, <1>7, <1>8,
       <1>9, <1>10 DEF Inv

LEMMA RecordDescI ==
  ASSUME IInv, RecordHeader, version = 2 PROVE IInv'
<1>t. TypeOK /\ Records /\ Numbers /\ Values /\ Blocks /\ Lengths
  BY Fields DEF IInv
<1>0. /\ pc = "rec_header"
      /\ pc' = "rec_commit"
      /\ UNCHANGED <<version, cache, dirty, disk, sbc, sbd, pay, j, op, ghost>>
  BY DEF RecordHeader, WriteSync, Block
<1>f0. /\ Len(j.entries) + 1 \in 1 .. Area /\ op.block \in Home /\ version # 3
      /\ cache[op.block] \in Nat /\ Len(j.entries) < Len(j.entries) + 1
  <2>1. op.block \in Home /\ Len(j.entries) < Area /\ version # 3
    BY <1>0 DEF IInv, Places
  <2>2. Len(j.entries) \in Nat /\ cache \in [Home -> Nat]
    BY <1>t DEF Values, Lengths
  <2>. QED  BY <2>1, <2>2, FixedAssumption
<1>f1. /\ NextEntries \in Seq(Item) /\ NextEntries \in Seq(Target)
            /\ Len(NextEntries) = Len(j.entries) + 1
        /\ NextEntries[Len(j.entries) + 1] = op.block
        /\ \A i \in 1 .. Len(j.entries) : NextEntries[i] = j.entries[i]
  <2>1. op.block \in Target /\ j.entries \in Seq(Target)
    BY <1>t, <1>f0 DEF Lengths, Target
  <2>2. /\ NextEntries \in Seq(Target) /\ Len(NextEntries) = Len(j.entries) + 1
        /\ NextEntries[Len(j.entries) + 1] = op.block
        /\ \A i \in 1 .. Len(j.entries) : NextEntries[i] = j.entries[i]
    BY <2>1, AppendFacts DEF NextEntries
  <2>. QED  BY <2>2, SeqInItem
<1>f2. [kind |-> "desc", seq |-> j.seq, entries |-> NextEntries] \in BlockType
  BY <1>t, <1>f1, BlockTyped DEF Numbers
<1>jc. /\ jc' = [hdr |-> jc.hdr,
                 desc |-> [kind |-> "desc", seq |-> j.seq, entries |-> NextEntries],
                 com |-> jc.com]
       /\ jc' \in AreaType
  <2>1. jc' = [hdr |-> jc.hdr,
               desc |-> [kind |-> "desc", seq |-> j.seq, entries |-> NextEntries],
               com |-> jc.com]
    BY <1>t DEF Records, AreaType, RecordHeader, WriteSync, Block
  <2>2. /\ jc.hdr \in HeaderType
        /\ [kind |-> "desc", seq |-> j.seq, entries |-> NextEntries] \in BlockType
        /\ jc.com \in BlockType
    BY <1>t, <1>0, <1>f0, <1>f1, <1>f2, Blanks DEF Blocks, Lengths,
       HeaderType, BlockType
  <2>. QED  BY <2>1, <2>2 DEF AreaType
<1>jd. /\ jd' = [hdr |-> jd.hdr,
                 desc |-> [kind |-> "desc", seq |-> j.seq, entries |-> NextEntries],
                 com |-> jd.com]
       /\ jd' \in AreaType
  <2>1. jd' = [hdr |-> jd.hdr,
               desc |-> [kind |-> "desc", seq |-> j.seq, entries |-> NextEntries],
               com |-> jd.com]
    BY <1>t DEF Records, AreaType, RecordHeader, WriteSync, Block
  <2>2. /\ jd.hdr \in HeaderType
        /\ [kind |-> "desc", seq |-> j.seq, entries |-> NextEntries] \in BlockType
        /\ jd.com \in BlockType
    BY <1>t, <1>0, <1>f0, <1>f1, <1>f2, <1>jc, Blanks DEF Blocks, Lengths,
       HeaderType, BlockType
  <2>. QED  BY <2>1, <2>2 DEF AreaType
<1>1. TypeOK'
  BY <1>t, <1>0, <1>f0, <1>f1, <1>f2, <1>jc, <1>jd DEF TypeOK, Records
<1>2. Places'
  BY <1>t, <1>0, <1>f0, <1>f1, <1>f2, <1>jc, <1>jd DEF IInv, Places, Records
<1>. SUFFICES ASSUME ~ghost.stale' PROVE Inv'
  BY <1>1, <1>2 DEF IInv
<1>3. Inv /\ Places /\ ~ghost.stale
  BY <1>t, <1>0, <1>f0, <1>f1, <1>f2 DEF IInv, Numbers
<1>4. Current'
  BY <1>t, <1>3, <1>0, <1>f0, <1>f1, <1>f2 DEF Inv, Places, Values, Current
<1>5. Order'
  BY <1>t, <1>3, <1>0 DEF Inv, Places, Numbers, Order
<1>6. Recording'
  BY <1>t, <1>3, <1>0, <1>f0, <1>f1, <1>f2 DEF Inv, Places, Values, Lengths,
     Recording, Good
<1>7. Sequences'
  <2>1. /\ jc = jd /\ jd.hdr.active = j.seq /\ j.seq > 0 /\ jd.com.entries = j.entries
        /\ jd.hdr.active = jd.hdr.last + 1
        /\ \A i \in 1 .. Len(j.entries) :
             jd.desc.entries[i] = j.entries[i] /\ Good(j.entries[i], i)
               /\ pay[i].txn = ghost.txn
    BY <1>3, <1>0 DEF Inv, RunningLog, Sequences
  <2>2. ghost.txn >= ghost.last /\ ghost.txn \in Nat /\ j.seq \in Nat
    BY <1>t, <1>3 DEF Inv, Order, Numbers
  <2>3. jc' = jd' /\ jd'.hdr = jd.hdr /\ j'.seq = j.seq
    BY <2>1, <1>0, <1>jc, <1>jd
  <2>4. \A m \in Nat : Pair(m)' => Pair(m) \/ m = j.seq
    BY <1>jd DEF Pair
  <2>5. /\ sbc.seq = j.seq /\ sbd.rec /\ sbc.rec
        /\ \A m \in Nat : Pair(m) => m <= j.seq
    BY <1>3, <1>0, <2>1 DEF Inv, Sequences
  <2>6. \A m \in Nat : Pair(m)' => m <= j.seq
    BY <2>2, <2>4, <2>5
  <2>7. /\ jd'.hdr.active = jd'.hdr.last + 1 /\ jd'.hdr.active = j.seq /\ jd'.hdr.active # 0
        /\ jc'.hdr = jd'.hdr /\ sbc' = sbc /\ sbd' = sbd
    BY <1>0, <2>1, <2>2, <2>3
  <2>. QED  BY <1>0, <2>3, <2>5, <2>6, <2>7 DEF Sequences
<1>8. CompleteLog'
  <2>1. /\ jc = jd /\ jd.hdr.active = j.seq /\ j.seq > 0 /\ jd.com.entries = j.entries
        /\ jd.hdr.active = jd.hdr.last + 1
        /\ \A i \in 1 .. Len(j.entries) :
             jd.desc.entries[i] = j.entries[i] /\ Good(j.entries[i], i)
               /\ pay[i].txn = ghost.txn
    BY <1>3, <1>0 DEF Inv, RunningLog, Sequences
  <2>2. ghost.txn >= ghost.last /\ ghost.txn \in Nat /\ j.seq \in Nat
    BY <1>t, <1>3 DEF Inv, Order, Numbers
  <2>3. /\ jd'.hdr = jd.hdr /\ jd'.com.entries = j.entries /\ jd'.desc.entries = NextEntries
        /\ ghost' = ghost /\ pay' = pay
    BY <2>1, <1>jd, <1>0
  <2>4. \A i \in 1 .. Len(j.entries) : Good(NextEntries[i], i) /\ pay[i].txn = ghost.txn
    BY <1>t, <1>f0, <1>f1, <2>1 DEF Lengths
  <2>5. \A i \in 1 .. Len(j.entries) : Good(jd.desc.entries[i], i)'
    BY <2>3, <2>4 DEF Good
  <2>6. OneTxn(Len(jd.com.entries))'
    BY <2>2, <2>3, <2>4 DEF OneTxn
  <2>7. Len(j.entries) <= Len(NextEntries) /\ Len(j.entries) <= Area
    BY <1>t, <1>f0, <1>f1 DEF Lengths
  <2>. QED  BY <2>3, <2>5, <2>6, <2>7 DEF CompleteLog
<1>9. RunningLog'
  <2>1. /\ jc = jd /\ jd.hdr.active = j.seq /\ j.seq > 0 /\ jd.com.entries = j.entries
        /\ jd.hdr.active = jd.hdr.last + 1
        /\ \A i \in 1 .. Len(j.entries) :
             jd.desc.entries[i] = j.entries[i] /\ Good(j.entries[i], i)
               /\ pay[i].txn = ghost.txn
    BY <1>3, <1>0 DEF Inv, RunningLog, Sequences
  <2>2. ghost.txn >= ghost.last /\ ghost.txn \in Nat /\ j.seq \in Nat
    BY <1>t, <1>3 DEF Inv, Order, Numbers
  <2>3. /\ jd'.hdr = jd.hdr /\ jd'.com.entries = j.entries
             /\ jd'.desc = [kind |-> "desc", seq |-> j.seq, entries |-> NextEntries]
        /\ ghost' = ghost /\ pay' = pay /\ jc' = jd' /\ j'.seq = j.seq /\ j'.entries = j.entries
    BY <2>1, <1>jd, <1>jc, <1>0
  <2>4. \A i \in 1 .. Len(j.entries) : Good(NextEntries[i], i) /\ pay[i].txn = ghost.txn
    BY <1>t, <1>f0, <1>f1, <2>1 DEF Lengths
  <2>5. \A i \in 1 .. Len(j.entries) : Good(j.entries[i], i)'
          /\ jd'.desc.entries[i] = j'.entries[i]
    BY <2>3, <2>4, <1>f1 DEF Good
  <2>6. Len(j.entries) <= Len(NextEntries) /\ Len(j.entries) <= Area
          /\ jd'.desc.entries = NextEntries
    BY <1>t, <1>f0, <1>f1, <2>3 DEF Lengths
  <2>. QED  BY <1>0, <2>1, <2>3, <2>4, <2>5, <2>6 DEF RunningLog, NextEntries, Block
<1>. QED  BY <1>0, <1>1, <1>2, Elsewhere, <1>4, <1>5, <1>6, <1>7, <1>8, <1>9
       DEF Inv

LEMMA RecordCommitI ==
  ASSUME IInv, RecordCommit PROVE IInv'
<1>t. TypeOK /\ Records /\ Numbers /\ Values /\ Blocks /\ Lengths
  BY Fields DEF IInv
<1>v. version = 2
  BY <1>t DEF IInv, Places, Records, RecordCommit
<1>0. /\ version = 2
      /\ pc = "rec_commit"
      /\ pc' = "txn"
      /\ UNCHANGED <<version, cache, dirty, disk, sbc, sbd, pay, op, ghost>>
  BY <1>v DEF RecordCommit, WriteSync, Block
<1>f0. /\ Len(j.entries) + 1 \in 1 .. Area /\ op.block \in Home /\ version # 3
      /\ cache[op.block] \in Nat /\ Len(j.entries) < Len(j.entries) + 1
  <2>1. op.block \in Home /\ Len(j.entries) < Area /\ version # 3
    BY <1>0 DEF IInv, Places
  <2>2. Len(j.entries) \in Nat /\ cache \in [Home -> Nat]
    BY <1>t DEF Values, Lengths
  <2>. QED  BY <2>1, <2>2, FixedAssumption
<1>f1. /\ NextEntries \in Seq(Item) /\ NextEntries \in Seq(Target)
            /\ Len(NextEntries) = Len(j.entries) + 1
        /\ NextEntries[Len(j.entries) + 1] = op.block
        /\ \A i \in 1 .. Len(j.entries) : NextEntries[i] = j.entries[i]
  <2>1. op.block \in Target /\ j.entries \in Seq(Target)
    BY <1>t, <1>f0 DEF Lengths, Target
  <2>2. /\ NextEntries \in Seq(Target) /\ Len(NextEntries) = Len(j.entries) + 1
        /\ NextEntries[Len(j.entries) + 1] = op.block
        /\ \A i \in 1 .. Len(j.entries) : NextEntries[i] = j.entries[i]
    BY <2>1, AppendFacts DEF NextEntries
  <2>. QED  BY <2>2, SeqInItem
<1>f2. [kind |-> "commit", seq |-> j.seq, entries |-> NextEntries] \in BlockType
  BY <1>t, <1>f1, BlockTyped DEF Numbers
<1>jc. /\ jc' = [hdr |-> jc.hdr, desc |-> jc.desc,
                 com |-> [kind |-> "commit", seq |-> j.seq, entries |-> NextEntries]]
       /\ jc' \in AreaType
  <2>1. jc' = [hdr |-> jc.hdr, desc |-> jc.desc,
               com |-> [kind |-> "commit", seq |-> j.seq, entries |-> NextEntries]]
    BY <1>t DEF Records, AreaType, RecordCommit, WriteSync, Block
  <2>2. /\ jc.hdr \in HeaderType /\ jc.desc \in BlockType
        /\ [kind |-> "commit", seq |-> j.seq, entries |-> NextEntries] \in BlockType
    BY <1>t, <1>0, <1>f0, <1>f1, <1>f2, Blanks DEF Blocks, Lengths,
       HeaderType, BlockType
  <2>. QED  BY <2>1, <2>2 DEF AreaType
<1>jd. /\ jd' = [hdr |-> jd.hdr, desc |-> jd.desc,
                 com |-> [kind |-> "commit", seq |-> j.seq, entries |-> NextEntries]]
       /\ jd' \in AreaType
  <2>1. jd' = [hdr |-> jd.hdr, desc |-> jd.desc,
               com |-> [kind |-> "commit", seq |-> j.seq, entries |-> NextEntries]]
    BY <1>t DEF Records, AreaType, RecordCommit, WriteSync, Block
  <2>2. /\ jd.hdr \in HeaderType /\ jd.desc \in BlockType
        /\ [kind |-> "commit", seq |-> j.seq, entries |-> NextEntries] \in BlockType
    BY <1>t, <1>0, <1>f0, <1>f1, <1>f2, <1>jc, Blanks DEF Blocks, Lengths,
       HeaderType, BlockType
  <2>. QED  BY <2>1, <2>2 DEF AreaType
<1>j. /\ j' = [seq |-> j.seq, active |-> j.active, entries |-> NextEntries, err |-> j.err]
      /\ j' \in RuntimeType
  <2>1. j' = [seq |-> j.seq, active |-> j.active, entries |-> NextEntries, err |-> j.err]
    BY <1>t DEF Records, RuntimeType, RecordCommit, WriteSync, Block
  <2>2. j.seq \in Nat /\ j.active \in Nat /\ j.err \in BOOLEAN
    BY <1>t, <1>0, <1>f0, <1>f1, <1>f2, <1>jc, <1>jd DEF Numbers
  <2>3. NextEntries \in Seq(Target)
    BY <1>t, <1>0, <1>f0, <1>f1, <1>f2 DEF Lengths
  <2>. QED  BY <2>1, <2>2, <2>3 DEF RuntimeType
<1>1. TypeOK'
  BY <1>t, <1>0, <1>f0, <1>f1, <1>f2, <1>jc, <1>jd, <1>j DEF TypeOK, Records
<1>2. Places'
  BY <1>t, <1>0, <1>f0, <1>f1, <1>f2, <1>jc, <1>jd, <1>j DEF IInv, Places,
     Records
<1>. SUFFICES ASSUME ~ghost.stale' PROVE Inv'
  BY <1>1, <1>2 DEF IInv
<1>3. Inv /\ Places /\ ~ghost.stale
  BY <1>t, <1>0, <1>f0, <1>f1, <1>f2 DEF IInv, Numbers
<1>4. Current'
  BY <1>t, <1>3, <1>0, <1>f0, <1>f1, <1>f2 DEF Inv, Places, Values, Current
<1>5. Order'
  BY <1>t, <1>3, <1>0 DEF Inv, Places, Numbers, Order
<1>6. Recording'
  BY <1>t, <1>3, <1>0, <1>f0, <1>f1, <1>f2, <1>j DEF Inv, Places, Values,
     Lengths, Recording, Good
<1>7. Sequences'
  <2>1. /\ jc = jd /\ jd.hdr.active = j.seq /\ j.seq > 0
             /\ jd.desc = Block("desc", j.seq, NextEntries)
        /\ jd.hdr.active = jd.hdr.last + 1 /\ sbd.rec /\ sbc.seq = j.seq
        /\ \A i \in 1 .. Len(j.entries) : Good(j.entries[i], i) /\ pay[i].txn = ghost.txn
    BY <1>3, <1>0 DEF Inv, RunningLog, Sequences
  <2>a. Good(op.block, Len(j.entries) + 1) /\ pay[Len(j.entries) + 1].txn = ghost.txn
    BY <1>3, <1>0 DEF Inv, Recording
  <2>2. /\ ghost.txn >= ghost.last /\ ghost.txn \in Nat /\ j.seq \in Nat
        /\ jd'.hdr = jd.hdr /\ jd'.desc = jd.desc /\ jc' = jd' /\ j'.seq = j.seq
        /\ jd'.com.entries = NextEntries /\ j'.entries = NextEntries /\ jd'.com.seq = j.seq
    BY <2>1, <1>t, <1>3, <1>jc, <1>jd, <1>j DEF Inv, Order, Numbers
  <2>3. jd.desc.entries = NextEntries /\ jd.desc.seq = j.seq
    BY <2>1 DEF Block
  <2>4. \A m \in Nat : Pair(m)' => m = j.seq
    BY <2>2 DEF Pair
  <2>5. sbc.rec /\ sbd' = sbd /\ sbc' = sbc
    BY <1>3, <1>0 DEF Inv, Sequences
  <2>b. j.seq # 0 /\ j.seq \in Nat
    BY <2>1, <2>2
  <2>c. /\ jd'.hdr = jd.hdr /\ jd.hdr.active = jd.hdr.last + 1 /\ jd.hdr.active = j.seq
        /\ jc' = jd' /\ j'.seq = j.seq
    BY <2>1, <2>2
  <2>6. /\ jd'.hdr.active = jd'.hdr.last + 1 /\ jd'.hdr.active = j.seq /\ jd'.hdr.active # 0
        /\ jc'.hdr = jd'.hdr /\ jc' = jd' /\ j'.seq = j.seq
    BY <2>b, <2>c
  <2>7. \A m \in Nat : Pair(m)' => m <= j.seq
    BY <2>2, <2>4
  <2>8. sbd'.rec /\ sbc'.rec /\ sbc'.seq = j.seq
    BY <2>1, <2>5
  <2>. QED  BY <1>0, <2>6, <2>7, <2>8 DEF Sequences
<1>8. CompleteLog'
  <2>1. /\ jc = jd /\ jd.hdr.active = j.seq /\ j.seq > 0
             /\ jd.desc = Block("desc", j.seq, NextEntries)
        /\ jd.hdr.active = jd.hdr.last + 1 /\ sbd.rec /\ sbc.seq = j.seq
        /\ \A i \in 1 .. Len(j.entries) : Good(j.entries[i], i) /\ pay[i].txn = ghost.txn
    BY <1>3, <1>0 DEF Inv, RunningLog, Sequences
  <2>a. Good(op.block, Len(j.entries) + 1) /\ pay[Len(j.entries) + 1].txn = ghost.txn
    BY <1>3, <1>0 DEF Inv, Recording
  <2>2. /\ ghost.txn >= ghost.last /\ ghost.txn \in Nat /\ j.seq \in Nat
        /\ jd'.hdr = jd.hdr /\ jd'.desc = jd.desc /\ jc' = jd' /\ j'.seq = j.seq
        /\ jd'.com.entries = NextEntries /\ j'.entries = NextEntries /\ jd'.com.seq = j.seq
    BY <2>1, <1>t, <1>3, <1>jc, <1>jd, <1>j DEF Inv, Order, Numbers
  <2>3. jd.desc.entries = NextEntries /\ jd.desc.seq = j.seq
    BY <2>1 DEF Block
  <2>4. \A i \in 1 .. Len(NextEntries) :
          (Good(NextEntries[i], i) /\ pay[i].txn = ghost.txn) /\ i <= Area
    <3>. SUFFICES ASSUME NEW i \in 1 .. Len(j.entries) + 1
                  PROVE  (Good(NextEntries[i], i) /\ pay[i].txn = ghost.txn) /\ i <= Area
      BY <1>f1
    <3>1. CASE i = Len(j.entries) + 1
      BY <3>1, <2>a, <1>f0, <1>f1
    <3>2. CASE i \in 1 .. Len(j.entries)
      BY <3>2, <2>1, <1>f0, <1>f1, <1>t DEF Lengths
    <3>3. Len(j.entries) \in Nat
      BY <1>t DEF Lengths
    <3>. QED  BY <3>1, <3>2, <3>3
  <2>5. ghost' = ghost /\ pay' = pay /\ Len(NextEntries) <= Area /\ Len(NextEntries) \in Nat
    BY <1>0, <1>f0, <1>f1, <1>t DEF Lengths
  <2>6. \A i \in 1 .. Len(NextEntries) : Good(jd.desc.entries[i], i)'
    BY <2>2, <2>3, <2>4, <2>5 DEF Good
  <2>7. OneTxn(Len(jd.com.entries))'
    BY <2>2, <2>4, <2>5 DEF OneTxn
  <2>. QED  BY <2>2, <2>3, <2>5, <2>6, <2>7 DEF CompleteLog
<1>9. RunningLog'
  <2>1. /\ jc = jd /\ jd.hdr.active = j.seq /\ j.seq > 0
             /\ jd.desc = Block("desc", j.seq, NextEntries)
        /\ jd.hdr.active = jd.hdr.last + 1 /\ sbd.rec /\ sbc.seq = j.seq
        /\ \A i \in 1 .. Len(j.entries) : Good(j.entries[i], i) /\ pay[i].txn = ghost.txn
    BY <1>3, <1>0 DEF Inv, RunningLog, Sequences
  <2>a. Good(op.block, Len(j.entries) + 1) /\ pay[Len(j.entries) + 1].txn = ghost.txn
    BY <1>3, <1>0 DEF Inv, Recording
  <2>2. /\ ghost.txn >= ghost.last /\ ghost.txn \in Nat /\ j.seq \in Nat
        /\ jd'.hdr = jd.hdr /\ jd'.desc = jd.desc /\ jc' = jd' /\ j'.seq = j.seq
        /\ jd'.com.entries = NextEntries /\ j'.entries = NextEntries /\ jd'.com.seq = j.seq
    BY <2>1, <1>t, <1>3, <1>jc, <1>jd, <1>j DEF Inv, Order, Numbers
  <2>3. jd.desc.entries = NextEntries /\ jd.desc.seq = j.seq
    BY <2>1 DEF Block
  <2>4. \A i \in 1 .. Len(NextEntries) :
          (Good(NextEntries[i], i) /\ pay[i].txn = ghost.txn) /\ i <= Area
    <3>. SUFFICES ASSUME NEW i \in 1 .. Len(j.entries) + 1
                  PROVE  (Good(NextEntries[i], i) /\ pay[i].txn = ghost.txn) /\ i <= Area
      BY <1>f1
    <3>1. CASE i = Len(j.entries) + 1
      BY <3>1, <2>a, <1>f0, <1>f1
    <3>2. CASE i \in 1 .. Len(j.entries)
      BY <3>2, <2>1, <1>f0, <1>f1, <1>t DEF Lengths
    <3>3. Len(j.entries) \in Nat
      BY <1>t DEF Lengths
    <3>. QED  BY <3>1, <3>2, <3>3
  <2>5. ghost' = ghost /\ pay' = pay /\ Len(NextEntries) <= Area /\ Len(NextEntries) \in Nat
    BY <1>0, <1>f0, <1>f1, <1>t DEF Lengths
  <2>6. \A i \in 1 .. Len(NextEntries) : Good(j.entries[i], i)'
    BY <2>2, <2>4, <2>5 DEF Good
  <2>b. jd'.desc.entries = NextEntries /\ Len(NextEntries) <= Len(NextEntries)
    BY <2>2, <2>3, <2>5
  <2>7. /\ jc' = jd' /\ jd'.hdr.active = j'.seq /\ j'.seq > 0 /\ Len(j'.entries) <= Area
        /\ Len(j'.entries) <= Len(jd'.desc.entries) /\ jd'.com.entries = j'.entries
    BY <2>1, <2>2, <2>5, <2>b
  <2>8. \A i \in 1 .. Len(j'.entries) :
           /\ jd'.desc.entries[i] = j'.entries[i]
           /\ Good(j.entries[i], i)' /\ pay'[i].txn = ghost'.txn
    BY <2>2, <2>3, <2>4, <2>5, <2>6
  <2>. QED  BY <1>0, <2>7, <2>8 DEF RunningLog
<1>. QED  BY <1>0, <1>1, <1>2, Elsewhere, <1>4, <1>5, <1>6, <1>7, <1>8, <1>9
       DEF Inv

LEMMA RecordFailsI ==
  ASSUME IInv, RecordFails, ~(pc = "rec_header" /\ version = 1) PROVE IInv'
<1>t. TypeOK /\ Records /\ Numbers /\ Values /\ Blocks /\ Lengths
  BY Fields DEF IInv
<1>0. /\ pc \in {"rec_payload", "rec_header", "rec_commit"}
      /\ pc' = "txn"
      /\ UNCHANGED <<version, cache, dirty, disk, sbc, sbd, jc, jd, pay, j, op>>
  BY DEF RecordFails
<1>n. version \in {1, 2}
  BY <1>t, <1>0 DEF IInv, Places, Records
<1>ghost. /\ ghost' = [txn |-> ghost.txn, writes |-> ghost.writes, mods |-> ghost.mods,
                       committed |-> ghost.committed, replayed |-> ghost.replayed,
                       last |-> ghost.last, stale |-> ghost.stale, crashes |-> ghost.crashes,
                       faults |-> ghost.faults + 1]
          /\ ghost' \in GhostType
  <2>1. ghost' = [txn |-> ghost.txn, writes |-> ghost.writes, mods |-> ghost.mods,
                  committed |-> ghost.committed, replayed |-> ghost.replayed,
                  last |-> ghost.last, stale |-> ghost.stale, crashes |-> ghost.crashes,
                  faults |-> ghost.faults + 1]
    BY <1>t DEF Records, GhostType, RecordFails
  <2>2. /\ ghost.txn \in Nat /\ ghost.writes \in Nat /\ ghost.mods \in SUBSET Home
        /\ ghost.committed \in [Home -> Nat] /\ ghost.replayed \in SUBSET Nat
        /\ ghost.last \in Nat /\ ghost.stale \in BOOLEAN /\ ghost.crashes \in Nat
        /\ ghost.faults + 1 \in Nat
    BY <1>t DEF Numbers, Values
  <2>. QED  BY <2>1, <2>2 DEF GhostType
<1>1. TypeOK'
  BY <1>t, <1>0, <1>ghost DEF TypeOK, Records
<1>2. Places'
  BY <1>t, <1>0, <1>ghost DEF IInv, Places, Records
<1>. SUFFICES ASSUME ~ghost.stale' PROVE Inv'
  BY <1>1, <1>2 DEF IInv
<1>3. Inv /\ Places /\ ~ghost.stale
  BY <1>t, <1>0, <1>ghost DEF IInv, Numbers
<1>4. Current'
  BY <1>t, <1>3, <1>0, <1>ghost DEF Inv, Places, Values, Current
<1>5. Order'
  BY <1>t, <1>3, <1>0, <1>ghost DEF Inv, Places, Numbers, Order
<1>6. Recording'
  BY <1>t, <1>3, <1>0, <1>ghost DEF Inv, Places, Values, Lengths, Recording,
     Good
<1>7. HeaderLog'
  BY <1>t, <1>3, <1>0, <1>ghost DEF Inv, Places, Values, Lengths, HeaderLog,
     Logged, Good
<1>8. Sequences'
  BY <1>t, <1>3, <1>0 DEF Inv, Places, Numbers, Lengths, Sequences, Pair,
     Zero
<1>9. CompleteLog'
  BY <1>t, <1>3, <1>0, <1>ghost DEF Inv, Places, Values, Lengths,
     CompleteLog, Pair, OneTxn, Good
<1>10. RunningLog'
  BY <1>t, <1>3, <1>0, <1>ghost DEF Inv, Places, Values, Lengths, RunningLog,
     Good, NextEntries, Block
<1>. QED  BY <1>0, <1>n, <1>1, <1>2, Elsewhere, <1>4, <1>5, <1>6, <1>7, <1>8,
       <1>9, <1>10 DEF Inv

LEMMA RecordHeaderI ==
  ASSUME IInv, RecordHeader, version = 1 PROVE IInv'
<1>t. TypeOK /\ Records /\ Numbers /\ Values /\ Blocks /\ Lengths
  BY Fields DEF IInv
<1>0. /\ pc = "rec_header"
      /\ pc' = "txn"
      /\ version = 1
      /\ UNCHANGED <<version, cache, dirty, disk, sbc, sbd, pay, op, ghost>>
  BY DEF RecordHeader, WriteSync
<1>f0. /\ Len(j.entries) + 1 \in 1 .. Area /\ op.block \in Home /\ Len(j.entries) < Area
      /\ cache[op.block] \in Nat /\ Len(j.entries) < Len(j.entries) + 1
  <2>1. op.block \in Home /\ Len(j.entries) < Area /\ Len(j.entries) < Area
    BY <1>0 DEF IInv, Places
  <2>2. Len(j.entries) \in Nat /\ cache \in [Home -> Nat]
    BY <1>t DEF Values, Lengths
  <2>. QED  BY <2>1, <2>2, FixedAssumption
<1>f1. /\ NextHeader \in HeaderType /\ NextHeader.n = Len(j.entries) + 1 /\ NextHeader.n <= Area
  BY <1>t, <1>f0, FixedAssumption, NextHeaderTyped DEF Lengths
<1>f2. NextEntries \in Seq(Target) /\ Len(NextEntries) = Len(j.entries) + 1
  <2>1. op.block \in Target /\ j.entries \in Seq(Target)
    BY <1>t, <1>f0 DEF Lengths, Target
  <2>. QED  BY <2>1, AppendFacts DEF NextEntries
<1>jc. /\ jc' = [hdr |-> NextHeader, desc |-> jc.desc, com |-> jc.com]
       /\ jc' \in AreaType
  <2>1. jc' = [hdr |-> NextHeader, desc |-> jc.desc, com |-> jc.com]
    BY <1>t DEF Records, AreaType, RecordHeader, WriteSync
  <2>2. NextHeader \in HeaderType /\ jc.desc \in BlockType /\ jc.com \in BlockType
    BY <1>t, <1>0, <1>f0, <1>f1, <1>f2, Blanks DEF Blocks, Lengths,
       HeaderType, BlockType
  <2>. QED  BY <2>1, <2>2 DEF AreaType
<1>jd. /\ jd' = [hdr |-> NextHeader, desc |-> jd.desc, com |-> jd.com]
       /\ jd' \in AreaType
  <2>1. jd' = [hdr |-> NextHeader, desc |-> jd.desc, com |-> jd.com]
    BY <1>t DEF Records, AreaType, RecordHeader, WriteSync
  <2>2. NextHeader \in HeaderType /\ jd.desc \in BlockType /\ jd.com \in BlockType
    BY <1>t, <1>0, <1>f0, <1>f1, <1>f2, <1>jc, Blanks DEF Blocks, Lengths,
       HeaderType, BlockType
  <2>. QED  BY <2>1, <2>2 DEF AreaType
<1>j. /\ j' = [seq |-> j.seq, active |-> j.active, entries |-> NextEntries, err |-> j.err]
      /\ j' \in RuntimeType
  <2>1. j' = [seq |-> j.seq, active |-> j.active, entries |-> NextEntries, err |-> j.err]
    BY <1>t DEF Records, RuntimeType, RecordHeader, WriteSync
  <2>2. j.seq \in Nat /\ j.active \in Nat /\ j.err \in BOOLEAN
    BY <1>t, <1>0, <1>f0, <1>f1, <1>f2, <1>jc, <1>jd DEF Numbers
  <2>3. NextEntries \in Seq(Target)
    BY <1>t, <1>0, <1>f0, <1>f1, <1>f2 DEF Lengths
  <2>. QED  BY <2>1, <2>2, <2>3 DEF RuntimeType
<1>1. TypeOK'
  BY <1>t, <1>0, <1>f0, <1>f1, <1>f2, <1>jc, <1>jd, <1>j DEF TypeOK, Records
<1>2. Places'
  BY <1>t, <1>0, <1>f0, <1>f1, <1>f2, <1>jc, <1>jd, <1>j DEF IInv, Places,
     Records
<1>. SUFFICES ASSUME ~ghost.stale' PROVE Inv'
  BY <1>1, <1>2 DEF IInv
<1>3. Inv /\ Places /\ ~ghost.stale
  BY <1>t, <1>0, <1>f0, <1>f1, <1>f2 DEF IInv, Numbers
<1>4. Current'
  BY <1>t, <1>3, <1>0, <1>f0, <1>f1, <1>f2 DEF Inv, Places, Values, Current
<1>5. Order'
  BY <1>t, <1>3, <1>0 DEF Inv, Places, Numbers, Order
<1>6. Recording'
  BY <1>t, <1>3, <1>0, <1>f0, <1>f1, <1>f2, <1>j DEF Inv, Places, Values,
     Lengths, Recording, Good
<1>7. HeaderLog'
  <2>1. /\ jc.hdr.n = Len(j.entries) /\ jd.hdr.n <= jc.hdr.n /\ Logged(jc.hdr) /\ Logged(jd.hdr)
    BY <1>3, <1>0 DEF Inv, HeaderLog
  <2>2. Good(op.block, Len(j.entries) + 1) /\ pay[Len(j.entries) + 1].txn = ghost.txn
    BY <1>3, <1>0 DEF Inv, Recording
  <2>3. Logged(NextHeader)
    BY <1>t, <1>f0, <2>1, <2>2, NextHeaderLogged
  <2>4. /\ jc'.hdr = NextHeader /\ jd'.hdr = NextHeader /\ pay' = pay
             /\ j'.entries = NextEntries
        /\ ghost'.txn = ghost.txn /\ ghost'.writes = ghost.writes
             /\ ghost'.committed = ghost.committed
    BY <1>0, <1>j, <1>jc, <1>jd
  <2>5. Logged(jc.hdr)' /\ Logged(jd.hdr)'
    BY <2>1, <2>3, <2>4 DEF Logged, Good
  <2>6. jc'.hdr.n = Len(j'.entries) /\ jd'.hdr.n <= jc'.hdr.n
    BY <2>1, <2>4, <1>f1, <1>f2, <1>t DEF Lengths
  <2>. QED  BY <1>0, <2>5, <2>6 DEF HeaderLog
<1>. QED  BY <1>0, <1>1, <1>2, Elsewhere, <1>4, <1>5, <1>6, <1>7 DEF Inv

LEMMA RecordHeaderFailsI ==
  ASSUME IInv, RecordFails, pc = "rec_header", version = 1 PROVE IInv'
<1>t. TypeOK /\ Records /\ Numbers /\ Values /\ Blocks /\ Lengths
  BY Fields DEF IInv
<1>0. /\ pc = "rec_header"
      /\ pc' = "txn"
      /\ version = 1
      /\ UNCHANGED <<version, cache, dirty, disk, sbc, sbd, jd, pay, op>>
  BY DEF RecordFails
<1>f0. /\ Len(j.entries) + 1 \in 1 .. Area /\ op.block \in Home /\ Len(j.entries) < Area
      /\ cache[op.block] \in Nat /\ Len(j.entries) < Len(j.entries) + 1
  <2>1. op.block \in Home /\ Len(j.entries) < Area /\ Len(j.entries) < Area
    BY <1>0 DEF IInv, Places
  <2>2. Len(j.entries) \in Nat /\ cache \in [Home -> Nat]
    BY <1>t DEF Values, Lengths
  <2>. QED  BY <2>1, <2>2, FixedAssumption
<1>f1. /\ NextHeader \in HeaderType /\ NextHeader.n = Len(j.entries) + 1 /\ NextHeader.n <= Area
  BY <1>t, <1>f0, FixedAssumption, NextHeaderTyped DEF Lengths
<1>f2. NextEntries \in Seq(Target) /\ Len(NextEntries) = Len(j.entries) + 1
  <2>1. op.block \in Target /\ j.entries \in Seq(Target)
    BY <1>t, <1>f0 DEF Lengths, Target
  <2>. QED  BY <2>1, AppendFacts DEF NextEntries
<1>jc. /\ jc' = [hdr |-> NextHeader, desc |-> jc.desc, com |-> jc.com]
       /\ jc' \in AreaType
  <2>1. jc' = [hdr |-> NextHeader, desc |-> jc.desc, com |-> jc.com]
    BY <1>t DEF Records, AreaType, RecordFails
  <2>2. NextHeader \in HeaderType /\ jc.desc \in BlockType /\ jc.com \in BlockType
    BY <1>t, <1>0, <1>f0, <1>f1, <1>f2, Blanks DEF Blocks, Lengths,
       HeaderType, BlockType
  <2>. QED  BY <2>1, <2>2 DEF AreaType
<1>j. /\ j' = [seq |-> j.seq, active |-> j.active, entries |-> NextEntries, err |-> j.err]
      /\ j' \in RuntimeType
  <2>1. j' = [seq |-> j.seq, active |-> j.active, entries |-> NextEntries, err |-> j.err]
    BY <1>t DEF Records, RuntimeType, RecordFails
  <2>2. j.seq \in Nat /\ j.active \in Nat /\ j.err \in BOOLEAN
    BY <1>t, <1>0, <1>f0, <1>f1, <1>f2, <1>jc DEF Numbers
  <2>3. NextEntries \in Seq(Target)
    BY <1>t, <1>0, <1>f0, <1>f1, <1>f2 DEF Lengths
  <2>. QED  BY <2>1, <2>2, <2>3 DEF RuntimeType
<1>ghost. /\ ghost' = [txn |-> ghost.txn, writes |-> ghost.writes, mods |-> ghost.mods,
                       committed |-> ghost.committed, replayed |-> ghost.replayed,
                       last |-> ghost.last, stale |-> ghost.stale, crashes |-> ghost.crashes,
                       faults |-> ghost.faults + 1]
          /\ ghost' \in GhostType
  <2>1. ghost' = [txn |-> ghost.txn, writes |-> ghost.writes, mods |-> ghost.mods,
                  committed |-> ghost.committed, replayed |-> ghost.replayed,
                  last |-> ghost.last, stale |-> ghost.stale, crashes |-> ghost.crashes,
                  faults |-> ghost.faults + 1]
    BY <1>t DEF Records, GhostType, RecordFails
  <2>2. /\ ghost.txn \in Nat /\ ghost.writes \in Nat /\ ghost.mods \in SUBSET Home
        /\ ghost.committed \in [Home -> Nat] /\ ghost.replayed \in SUBSET Nat
        /\ ghost.last \in Nat /\ ghost.stale \in BOOLEAN /\ ghost.crashes \in Nat
        /\ ghost.faults + 1 \in Nat
    BY <1>t DEF Numbers, Values
  <2>. QED  BY <2>1, <2>2 DEF GhostType
<1>1. TypeOK'
  BY <1>t, <1>0, <1>f0, <1>f1, <1>f2, <1>jc, <1>j, <1>ghost DEF TypeOK,
     Records
<1>2. Places'
  BY <1>t, <1>0, <1>f0, <1>f1, <1>f2, <1>jc, <1>j, <1>ghost DEF IInv, Places,
     Records
<1>. SUFFICES ASSUME ~ghost.stale' PROVE Inv'
  BY <1>1, <1>2 DEF IInv
<1>3. Inv /\ Places /\ ~ghost.stale
  BY <1>t, <1>0, <1>f0, <1>f1, <1>f2, <1>ghost DEF IInv, Numbers
<1>4. Current'
  BY <1>t, <1>3, <1>0, <1>f0, <1>f1, <1>f2, <1>ghost DEF Inv, Places, Values,
     Current
<1>5. Order'
  BY <1>t, <1>3, <1>0, <1>ghost DEF Inv, Places, Numbers, Order
<1>6. Recording'
  BY <1>t, <1>3, <1>0, <1>f0, <1>f1, <1>f2, <1>j, <1>ghost DEF Inv, Places,
     Values, Lengths, Recording, Good
<1>7. HeaderLog'
  <2>1. /\ jc.hdr.n = Len(j.entries) /\ jd.hdr.n <= jc.hdr.n /\ Logged(jc.hdr) /\ Logged(jd.hdr)
    BY <1>3, <1>0 DEF Inv, HeaderLog
  <2>2. Good(op.block, Len(j.entries) + 1) /\ pay[Len(j.entries) + 1].txn = ghost.txn
    BY <1>3, <1>0 DEF Inv, Recording
  <2>3. Logged(NextHeader)
    BY <1>t, <1>f0, <2>1, <2>2, NextHeaderLogged
  <2>4. /\ jc'.hdr = NextHeader /\ jd'.hdr = jd.hdr /\ pay' = pay /\ j'.entries = NextEntries
        /\ ghost'.txn = ghost.txn /\ ghost'.writes = ghost.writes
             /\ ghost'.committed = ghost.committed
    BY <1>0, <1>j, <1>jc, <1>ghost
  <2>5. Logged(jc.hdr)' /\ Logged(jd.hdr)'
    BY <2>1, <2>3, <2>4 DEF Logged, Good
  <2>6. jc'.hdr.n = Len(j'.entries) /\ jd'.hdr.n <= jc'.hdr.n
    BY <2>1, <2>4, <1>f1, <1>f2, <1>t DEF Lengths
  <2>. QED  BY <1>0, <2>5, <2>6 DEF HeaderLog
<1>. QED  BY <1>0, <1>1, <1>2, Elsewhere, <1>4, <1>5, <1>6, <1>7 DEF Inv

-----------------------------------------------------------------------------
(* Aborting a transaction.                                                  *)
LEMMA Abort1I ==
  ASSUME IInv, Abort, AbortV1 PROVE IInv'
<1>t. TypeOK /\ Records /\ Numbers /\ Values /\ Blocks /\ Lengths
  BY Fields DEF IInv
<1>0. /\ version = 1
      /\ pc \in {"txn", "barrier"}
      /\ pc' = "free"
      /\ UNCHANGED <<version, cache, dirty, disk, sbd, jc, jd, pay, op>>
  BY DEF Abort, AbortV1, Runtime
<1>f0. ghost'.faults \in Nat
  BY <1>t DEF Abort, AbortV1, Numbers, Records, GhostType
<1>f1. ghost'.stale \in BOOLEAN /\ sbc'.rec \in BOOLEAN
  BY <1>t DEF AbortV1, Records, GhostType, SuperType
<1>f2. ~ghost'.stale => ~ghost.stale /\ j.entries = <<>>
  BY <1>t DEF AbortV1, Records, GhostType
<1>f3. j.entries = <<>> => Len(j.entries) = 0
  OBVIOUS
<1>j. /\ j' = [seq |-> j.seq, active |-> 0, entries |-> <<>>, err |-> FALSE]
      /\ j' \in RuntimeType
  <2>1. j' = [seq |-> j.seq, active |-> 0, entries |-> <<>>, err |-> FALSE]
    BY <1>t DEF Records, RuntimeType, AbortV1, Runtime
  <2>2. j.seq \in Nat
    BY <1>t, <1>0, <1>f0, <1>f1, <1>f2, <1>f3 DEF Numbers
  <2>3. <<>> \in Seq(Target)
    BY Blanks
  <2>. QED  BY <2>1, <2>2, <2>3 DEF RuntimeType
<1>sbc. /\ sbc' = [rec |-> sbc'.rec, seq |-> sbc.seq]
        /\ sbc' \in SuperType
  <2>1. sbc' = [rec |-> sbc'.rec, seq |-> sbc.seq]
    BY <1>t DEF Records, SuperType, AbortV1
  <2>2. sbc'.rec \in BOOLEAN /\ sbc.seq \in Nat
    BY <1>t, <1>0, <1>f0, <1>f1, <1>f2, <1>f3, <1>j DEF Numbers
  <2>. QED  BY <2>1, <2>2 DEF SuperType
<1>ghost. /\ ghost' = [txn |-> ghost.txn, writes |-> ghost.writes, mods |-> ghost.mods,
                       committed |-> ghost.committed, replayed |-> ghost.replayed,
                       last |-> ghost.last, stale |-> ghost'.stale, crashes |-> ghost.crashes,
                       faults |-> ghost'.faults]
          /\ ghost' \in GhostType
  <2>1. ghost' = [txn |-> ghost.txn, writes |-> ghost.writes, mods |-> ghost.mods,
                  committed |-> ghost.committed, replayed |-> ghost.replayed,
                  last |-> ghost.last, stale |-> ghost'.stale, crashes |-> ghost.crashes,
                  faults |-> ghost'.faults]
    BY <1>t DEF Records, GhostType, AbortV1
  <2>2. /\ ghost.txn \in Nat /\ ghost.writes \in Nat /\ ghost.mods \in SUBSET Home
        /\ ghost.committed \in [Home -> Nat] /\ ghost.replayed \in SUBSET Nat
        /\ ghost.last \in Nat /\ ghost.crashes \in Nat
    BY <1>t DEF Numbers, Values
  <2>3. ghost'.stale \in BOOLEAN
    BY <1>t, <1>0, <1>f0, <1>f1, <1>f2, <1>f3 DEF Numbers, Values
  <2>4. ghost'.faults \in Nat
    BY <1>t, <1>0, <1>f0, <1>f1, <1>f2, <1>f3 DEF Numbers, Values
  <2>. QED  BY <2>1, <2>2, <2>3, <2>4 DEF GhostType
<1>1. TypeOK'
  BY <1>t, <1>0, <1>f0, <1>f1, <1>f2, <1>f3, <1>j, <1>sbc, <1>ghost DEF
     TypeOK, Records
<1>2. Places'
  BY <1>t, <1>0, <1>f0, <1>f1, <1>f2, <1>f3, <1>j, <1>ghost DEF IInv, Places,
     Records
<1>. SUFFICES ASSUME ~ghost.stale' PROVE Inv'
  BY <1>1, <1>2 DEF IInv
<1>3. Inv /\ Places /\ ~ghost.stale
  BY <1>t, <1>0, <1>f0, <1>f1, <1>f2, <1>f3, <1>ghost DEF IInv, Numbers
<1>4. Current'
  BY <1>t, <1>3, <1>0, <1>f0, <1>f1, <1>f2, <1>f3, <1>ghost DEF Inv, Places,
     Values, Current
<1>5. Order'
  BY <1>t, <1>3, <1>0, <1>ghost DEF Inv, Places, Numbers, Order
<1>6. Recording'
  BY <1>t, <1>3, <1>0, <1>f0, <1>f1, <1>f2, <1>f3, <1>j, <1>ghost DEF Inv,
     Places, Values, Lengths, Recording, Good
<1>7. HeaderLog'
  <2>1. jc.hdr.n = Len(j.entries) /\ jd.hdr.n <= jc.hdr.n
    BY <1>3, <1>0 DEF Inv, HeaderLog
  <2>2. jc.hdr.n = 0 /\ jd.hdr.n = 0
    BY <1>t, <2>1, <1>f2, <1>f3 DEF Lengths
  <2>. QED  BY <1>0, <2>2 DEF HeaderLog, Logged
<1>. QED  BY <1>0, <1>1, <1>2, Elsewhere, <1>4, <1>5, <1>6, <1>7 DEF Inv

LEMMA Abort2I ==
  ASSUME IInv, Abort, AbortV2 PROVE IInv'
<1>t. TypeOK /\ Records /\ Numbers /\ Values /\ Blocks /\ Lengths
  BY Fields DEF IInv
<1>0. /\ version = 2
      /\ pc \in {"txn", "barrier"}
      /\ pc' = "reset_control"
      /\ UNCHANGED <<version, cache, dirty, disk, sbc, sbd, jc, jd, pay, j>>
  BY DEF Abort, AbortV2
<1>f0. ghost'.faults \in Nat
  BY <1>t DEF Abort, AbortV2, Numbers, Records, GhostType
<1>op. /\ op' = [block |-> op.block, k |-> op.k, last |-> j.seq, what |-> "abort"]
       /\ op' \in LocalsType
  <2>1. op' = [block |-> op.block, k |-> op.k, last |-> j.seq, what |-> "abort"]
    BY <1>t DEF Records, LocalsType, AbortV2
  <2>2. /\ op.block \in (Home \cup {NoBlock}) /\ op.k \in Nat /\ j.seq \in Nat
        /\ "abort" \in {"none", "commit", "abort", "replay"}
    BY <1>t, <1>0, <1>f0 DEF Numbers
  <2>. QED  BY <2>1, <2>2 DEF LocalsType
<1>ghost. /\ ghost' = [txn |-> ghost.txn, writes |-> ghost.writes, mods |-> ghost.mods,
                       committed |-> ghost.committed, replayed |-> ghost.replayed,
                       last |-> ghost.last, stale |-> ghost.stale, crashes |-> ghost.crashes,
                       faults |-> ghost'.faults]
          /\ ghost' \in GhostType
  <2>1. ghost' = [txn |-> ghost.txn, writes |-> ghost.writes, mods |-> ghost.mods,
                  committed |-> ghost.committed, replayed |-> ghost.replayed,
                  last |-> ghost.last, stale |-> ghost.stale, crashes |-> ghost.crashes,
                  faults |-> ghost'.faults]
    BY <1>t DEF Records, GhostType, AbortV2
  <2>2. /\ ghost.txn \in Nat /\ ghost.writes \in Nat /\ ghost.mods \in SUBSET Home
        /\ ghost.committed \in [Home -> Nat] /\ ghost.replayed \in SUBSET Nat
        /\ ghost.last \in Nat /\ ghost.stale \in BOOLEAN /\ ghost.crashes \in Nat
    BY <1>t DEF Numbers, Values
  <2>3. ghost'.faults \in Nat
    BY <1>t, <1>0, <1>f0 DEF Numbers, Values
  <2>. QED  BY <2>1, <2>2, <2>3 DEF GhostType
<1>1. TypeOK'
  BY <1>t, <1>0, <1>f0, <1>op, <1>ghost DEF TypeOK, Records
<1>2. Places'
  BY <1>t, <1>0, <1>f0, <1>op, <1>ghost DEF IInv, Places, Records
<1>. SUFFICES ASSUME ~ghost.stale' PROVE Inv'
  BY <1>1, <1>2 DEF IInv
<1>3. Inv /\ Places /\ ~ghost.stale
  BY <1>t, <1>0, <1>f0, <1>ghost DEF IInv, Numbers
<1>4. Current'
  BY <1>t, <1>3, <1>0, <1>f0, <1>ghost DEF Inv, Places, Values, Current
<1>5. Order'
  BY <1>t, <1>3, <1>0, <1>op, <1>ghost DEF Inv, Places, Numbers, Order
<1>6. Recording'
  BY <1>t, <1>3, <1>0, <1>f0, <1>op, <1>ghost DEF Inv, Places, Values,
     Lengths, Recording, Good
<1>7. Sequences'
  BY <1>t, <1>3, <1>0, <1>f0, <1>op DEF Inv, Places, Numbers, Lengths,
     Sequences, Pair, Zero
<1>8. CompleteLog'
  <2>1. Keeps
    BY <1>t, <1>0, <1>ghost DEF Values, Keeps
  <2>2. /\ \A b, i : i \in 1 .. Area /\ Good(b, i) => Good(b, i)'
        /\ \A n : OneTxn(n) => OneTxn(n)'
    BY <1>t, <2>1, KeepsGood
  <2>. QED  BY <1>t, <1>3, <1>0, <1>f0, <1>op, <1>ghost, <2>2 DEF Inv, Places, Lengths,
         CompleteLog, Pair
<1>9. RunningLog'
  BY <1>t, <1>3, <1>0, <1>f0, <1>ghost DEF Inv, Places, Values, Lengths,
     RunningLog, Good, NextEntries, Block
<1>. QED  BY <1>0, <1>1, <1>2, Elsewhere, <1>4, <1>5, <1>6, <1>7, <1>8, <1>9
       DEF Inv

LEMMA Abort3I ==
  ASSUME IInv, Abort, AbortV3 PROVE IInv'
<1>t. TypeOK /\ Records /\ Numbers /\ Values /\ Blocks /\ Lengths
  BY Fields DEF IInv
<1>0. /\ version = 3
      /\ pc \in {"txn", "barrier"}
      /\ pc' = "free"
      /\ UNCHANGED <<version, cache, dirty, disk, sbc, sbd, jc, jd, pay, op>>
  BY DEF Abort, AbortV3
<1>f0. ghost'.faults \in Nat
  BY <1>t DEF Abort, AbortV3, Numbers, Records, GhostType
<1>j. /\ j' = [seq |-> j.seq, active |-> 0, entries |-> <<>>, err |-> FALSE]
      /\ j' \in RuntimeType
  <2>1. j' = [seq |-> j.seq, active |-> 0, entries |-> <<>>, err |-> FALSE]
    BY <1>t DEF Records, RuntimeType, AbortV3, Runtime
  <2>2. j.seq \in Nat
    BY <1>t, <1>0, <1>f0 DEF Numbers
  <2>3. <<>> \in Seq(Target)
    BY Blanks
  <2>. QED  BY <2>1, <2>2, <2>3 DEF RuntimeType
<1>ghost. /\ ghost' = [txn |-> ghost.txn, writes |-> ghost.writes, mods |-> ghost.mods,
                       committed |-> ghost.committed, replayed |-> ghost.replayed,
                       last |-> ghost.last, stale |-> ghost.stale, crashes |-> ghost.crashes,
                       faults |-> ghost'.faults]
          /\ ghost' \in GhostType
  <2>1. ghost' = [txn |-> ghost.txn, writes |-> ghost.writes, mods |-> ghost.mods,
                  committed |-> ghost.committed, replayed |-> ghost.replayed,
                  last |-> ghost.last, stale |-> ghost.stale, crashes |-> ghost.crashes,
                  faults |-> ghost'.faults]
    BY <1>t DEF Records, GhostType, AbortV3
  <2>2. /\ ghost.txn \in Nat /\ ghost.writes \in Nat /\ ghost.mods \in SUBSET Home
        /\ ghost.committed \in [Home -> Nat] /\ ghost.replayed \in SUBSET Nat
        /\ ghost.last \in Nat /\ ghost.stale \in BOOLEAN /\ ghost.crashes \in Nat
    BY <1>t DEF Numbers, Values
  <2>3. ghost'.faults \in Nat
    BY <1>t, <1>0, <1>f0 DEF Numbers, Values
  <2>. QED  BY <2>1, <2>2, <2>3 DEF GhostType
<1>1. TypeOK'
  BY <1>t, <1>0, <1>f0, <1>j, <1>ghost DEF TypeOK, Records
<1>2. Places'
  BY <1>t, <1>0, <1>f0, <1>j, <1>ghost DEF IInv, Places, Records
<1>. SUFFICES ASSUME ~ghost.stale' PROVE Inv'
  BY <1>1, <1>2 DEF IInv
<1>3. Inv /\ Places /\ ~ghost.stale
  BY <1>t, <1>0, <1>f0, <1>ghost DEF IInv, Numbers
<1>4. Current'
  BY <1>t, <1>3, <1>0, <1>f0, <1>ghost DEF Inv, Places, Values, Current
<1>5. Order'
  BY <1>t, <1>3, <1>0, <1>ghost DEF Inv, Places, Numbers, Order
<1>6. CommitBlock'
  <2>1. Keeps
    BY <1>t, <1>0, <1>ghost DEF Values, Keeps
  <2>2. /\ \A b, i : i \in 1 .. Area /\ Good(b, i) => Good(b, i)'
        /\ \A n : OneTxn(n) => OneTxn(n)'
    BY <1>t, <2>1, KeepsGood
  <2>. QED  BY <1>t, <1>3, <1>0, <1>f0, <1>j, <1>ghost, <2>2 DEF Inv, Places, Lengths,
         CommitBlock
<1>7. Fixed'
  BY <1>t, <1>3, <1>0, <1>f0, <1>j DEF Inv, Places, Numbers, Lengths, Fixed
<1>8. Writing'
  BY <1>t, <1>3, <1>0, <1>f0, <1>j, <1>ghost DEF Inv, Places, Values,
     Lengths, Writing, Sums
<1>. QED  BY <1>0, <1>1, <1>2, Elsewhere, <1>4, <1>5, <1>6, <1>7, <1>8 DEF
       Inv

-----------------------------------------------------------------------------
(* Committing: the barrier that writes the home blocks out, then the end of *)
(* a commit or of a replay in versions 1 and 2.                             *)
LEMMA StartCommitI ==
  ASSUME IInv, StartCommit PROVE IInv'
<1>t. TypeOK /\ Records /\ Numbers /\ Values /\ Blocks /\ Lengths
  BY Fields DEF IInv
<1>0. /\ pc = "txn"
      /\ pc' = "barrier"
      /\ UNCHANGED <<version, cache, dirty, disk, sbc, sbd, jc, jd, pay, j, ghost>>
  BY DEF StartCommit
<1>op. /\ op' = [block |-> op.block, k |-> op.k, last |-> j.seq, what |-> "commit"]
       /\ op' \in LocalsType
  <2>1. op' = [block |-> op.block, k |-> op.k, last |-> j.seq, what |-> "commit"]
    BY <1>t DEF Records, LocalsType, StartCommit
  <2>2. /\ op.block \in (Home \cup {NoBlock}) /\ op.k \in Nat /\ j.seq \in Nat
        /\ "commit" \in {"none", "commit", "abort", "replay"}
    BY <1>t, <1>0 DEF Numbers
  <2>. QED  BY <2>1, <2>2 DEF LocalsType
<1>1. TypeOK'
  BY <1>t, <1>0, <1>op DEF TypeOK, Records
<1>2. Places'
  BY <1>t, <1>0, <1>op DEF IInv, Places, Records
<1>. SUFFICES ASSUME ~ghost.stale' PROVE Inv'
  BY <1>1, <1>2 DEF IInv
<1>3. Inv /\ Places /\ ~ghost.stale
  BY <1>t, <1>0 DEF IInv, Numbers
<1>4. Current'
  BY <1>t, <1>3, <1>0 DEF Inv, Places, Values, Current
<1>5. Order'
  BY <1>t, <1>3, <1>0, <1>op DEF Inv, Places, Numbers, Order
<1>6. Recording'
  BY <1>t, <1>3, <1>0, <1>op DEF Inv, Places, Values, Lengths, Recording,
     Good
<1>7. HeaderLog'
  BY <1>t, <1>3, <1>0 DEF Inv, Places, Values, Lengths, HeaderLog, Logged,
     Good
<1>8. Sequences'
  BY <1>t, <1>3, <1>0, <1>op DEF Inv, Places, Numbers, Lengths, Sequences,
     Pair, Zero
<1>9. CompleteLog'
  BY <1>t, <1>3, <1>0 DEF Inv, Places, Values, Lengths, CompleteLog, Pair,
     OneTxn, Good
<1>10. RunningLog'
  BY <1>t, <1>3, <1>0 DEF Inv, Places, Values, Lengths, RunningLog, Good,
     NextEntries, Block
<1>11. CommitBlock'
  BY <1>t, <1>3, <1>0 DEF Inv, Places, Values, Lengths, CommitBlock, OneTxn,
     Good
<1>12. Fixed'
  BY <1>t, <1>3, <1>0, <1>op DEF Inv, Places, Numbers, Lengths, Fixed
<1>13. Writing'
  BY <1>t, <1>3, <1>0, <1>op DEF Inv, Places, Values, Lengths, Writing, Sums
<1>. QED  BY <1>4, <1>5, <1>6, <1>7, <1>8, <1>9, <1>10, <1>11, <1>12, <1>13
       DEF Inv

LEMMA Barrier1I ==
  ASSUME IInv, Barrier, version = 1 PROVE IInv'
<1>t. TypeOK /\ Records /\ Numbers /\ Values /\ Blocks /\ Lengths
  BY Fields DEF IInv
<1>0. /\ version = 1
      /\ pc = "barrier"
      /\ pc' = "final_sync"
      /\ dirty = {}
      /\ sbc = sbd
      /\ jc = jd
      /\ UNCHANGED <<version, cache, dirty, disk, sbd, jd, pay, j, ghost>>
  BY DEF Barrier, Synced
<1>f0. [state |-> "v1", n |-> 0, homes |-> NoHomes, last |-> 0, active |-> 0] \in HeaderType
  BY Blanks DEF HeaderType
<1>sbc. /\ sbc' = [rec |-> FALSE, seq |-> sbc.seq]
        /\ sbc' \in SuperType
  <2>1. sbc' = [rec |-> FALSE, seq |-> sbc.seq]
    BY <1>t DEF Records, SuperType, Barrier, Synced
  <2>2. sbc.seq \in Nat
    BY <1>t, <1>0, <1>f0 DEF Numbers
  <2>. QED  BY <2>1, <2>2 DEF SuperType
<1>op. /\ op' = [block |-> op.block, k |-> 1, last |-> op.last, what |-> op.what]
       /\ op' \in LocalsType
  <2>1. op' = [block |-> op.block, k |-> 1, last |-> op.last, what |-> op.what]
    BY <1>t DEF Records, LocalsType, Barrier, Synced
  <2>2. /\ op.block \in (Home \cup {NoBlock}) /\ op.last \in Nat
        /\ op.what \in {"none", "commit", "abort", "replay"}
    BY <1>t, <1>0, <1>f0, <1>sbc DEF Numbers
  <2>. QED  BY <2>1, <2>2 DEF LocalsType
<1>jc. /\ jc' = [hdr |-> [state |-> "v1", n |-> 0, homes |-> NoHomes, last |-> 0, active |-> 0],
                 desc |-> jc.desc, com |-> jc.com]
       /\ jc' \in AreaType
  <2>1. jc' = [hdr |-> [state |-> "v1", n |-> 0, homes |-> NoHomes, last |-> 0, active |-> 0],
               desc |-> jc.desc, com |-> jc.com]
    BY <1>t DEF Records, AreaType, Barrier, Header
  <2>2. /\ [state |-> "v1", n |-> 0, homes |-> NoHomes, last |-> 0, active |-> 0] \in HeaderType
        /\ jc.desc \in BlockType /\ jc.com \in BlockType
    BY <1>t, <1>0, <1>f0, <1>sbc, <1>op, Blanks DEF Blocks, Lengths,
       HeaderType, BlockType
  <2>. QED  BY <2>1, <2>2 DEF AreaType
<1>1. TypeOK'
  BY <1>t, <1>0, <1>f0, <1>sbc, <1>op, <1>jc DEF TypeOK, Records
<1>2. Places'
  BY <1>t, <1>0, <1>f0, <1>op, <1>jc DEF IInv, Places, Records
<1>. SUFFICES ASSUME ~ghost.stale' PROVE Inv'
  BY <1>1, <1>2 DEF IInv
<1>3. Inv /\ Places /\ ~ghost.stale
  BY <1>t, <1>0, <1>f0 DEF IInv, Numbers
<1>4. Current'
  BY <1>t, <1>3, <1>0, <1>f0 DEF Inv, Places, Values, Current
<1>5. Order'
  BY <1>t, <1>3, <1>0, <1>op DEF Inv, Places, Numbers, Order
<1>6. Recording'
  BY <1>t, <1>3, <1>0, <1>f0, <1>op DEF Inv, Places, Values, Lengths,
     Recording, Good
<1>7. HeaderLog'
  BY <1>t, <1>3, <1>0, <1>f0, <1>jc DEF Inv, Places, Values, Lengths,
     HeaderLog, Logged, Good
<1>. QED  BY <1>0, <1>1, <1>2, Elsewhere, <1>4, <1>5, <1>6, <1>7 DEF Inv

LEMMA Barrier2I ==
  ASSUME IInv, Barrier, version = 2 PROVE IInv'
<1>t. TypeOK /\ Records /\ Numbers /\ Values /\ Blocks /\ Lengths
  BY Fields DEF IInv
<1>0. /\ version = 2
      /\ pc = "barrier"
      /\ pc' = "reset_control"
      /\ dirty = {}
      /\ sbc = sbd
      /\ jc = jd
      /\ UNCHANGED <<version, cache, dirty, disk, sbc, sbd, jc, jd, pay, j, ghost>>
  BY DEF Barrier, Synced
<1>op. /\ op' = [block |-> op.block, k |-> 1, last |-> op.last, what |-> op.what]
       /\ op' \in LocalsType
  <2>1. op' = [block |-> op.block, k |-> 1, last |-> op.last, what |-> op.what]
    BY <1>t DEF Records, LocalsType, Barrier, Synced
  <2>2. /\ op.block \in (Home \cup {NoBlock}) /\ op.last \in Nat
        /\ op.what \in {"none", "commit", "abort", "replay"}
    BY <1>t, <1>0 DEF Numbers
  <2>. QED  BY <2>1, <2>2 DEF LocalsType
<1>1. TypeOK'
  BY <1>t, <1>0, <1>op DEF TypeOK, Records
<1>2. Places'
  BY <1>t, <1>0, <1>op DEF IInv, Places, Records
<1>. SUFFICES ASSUME ~ghost.stale' PROVE Inv'
  BY <1>1, <1>2 DEF IInv
<1>3. Inv /\ Places /\ ~ghost.stale
  BY <1>t, <1>0 DEF IInv, Numbers
<1>4. Current'
  BY <1>t, <1>3, <1>0 DEF Inv, Places, Values, Current
<1>5. Order'
  BY <1>t, <1>3, <1>0, <1>op DEF Inv, Places, Numbers, Order
<1>6. Recording'
  BY <1>t, <1>3, <1>0, <1>op DEF Inv, Places, Values, Lengths, Recording,
     Good
<1>7. Sequences'
  BY <1>t, <1>3, <1>0, <1>op DEF Inv, Places, Numbers, Lengths, Sequences,
     Pair, Zero
<1>8. CompleteLog'
  BY <1>t, <1>3, <1>0 DEF Inv, Places, Values, Lengths, CompleteLog, Pair,
     OneTxn, Good
<1>9. RunningLog'
  BY <1>t, <1>3, <1>0 DEF Inv, Places, Values, Lengths, RunningLog, Good,
     NextEntries, Block
<1>. QED  BY <1>0, <1>1, <1>2, Elsewhere, <1>4, <1>5, <1>6, <1>7, <1>8, <1>9
       DEF Inv

LEMMA Barrier3ErrorI ==
  ASSUME IInv, Barrier, version = 3, j.err PROVE IInv'
<1>t. TypeOK /\ Records /\ Numbers /\ Values /\ Blocks /\ Lengths
  BY Fields DEF IInv
<1>0. /\ version = 3
      /\ pc = "barrier"
      /\ pc' = "free"
      /\ dirty = {}
      /\ sbc = sbd
      /\ jc = jd
      /\ UNCHANGED <<version, cache, dirty, disk, sbc, sbd, jc, jd, pay, ghost>>
  BY DEF Barrier, Synced, Runtime
<1>j. /\ j' = [seq |-> j.seq, active |-> 0, entries |-> <<>>, err |-> FALSE]
      /\ j' \in RuntimeType
  <2>1. j' = [seq |-> j.seq, active |-> 0, entries |-> <<>>, err |-> FALSE]
    BY <1>t DEF Records, RuntimeType, Barrier, Synced, Runtime
  <2>2. j.seq \in Nat
    BY <1>t, <1>0 DEF Numbers
  <2>3. <<>> \in Seq(Target)
    BY Blanks
  <2>. QED  BY <2>1, <2>2, <2>3 DEF RuntimeType
<1>op. /\ op' = [block |-> op.block, k |-> 1, last |-> op.last, what |-> op.what]
       /\ op' \in LocalsType
  <2>1. op' = [block |-> op.block, k |-> 1, last |-> op.last, what |-> op.what]
    BY <1>t DEF Records, LocalsType, Barrier, Synced, Runtime
  <2>2. /\ op.block \in (Home \cup {NoBlock}) /\ op.last \in Nat
        /\ op.what \in {"none", "commit", "abort", "replay"}
    BY <1>t, <1>0, <1>j DEF Numbers
  <2>. QED  BY <2>1, <2>2 DEF LocalsType
<1>1. TypeOK'
  BY <1>t, <1>0, <1>j, <1>op DEF TypeOK, Records
<1>2. Places'
  BY <1>t, <1>0, <1>j, <1>op DEF IInv, Places, Records
<1>. SUFFICES ASSUME ~ghost.stale' PROVE Inv'
  BY <1>1, <1>2 DEF IInv
<1>3. Inv /\ Places /\ ~ghost.stale
  BY <1>t, <1>0 DEF IInv, Numbers
<1>4. Current'
  BY <1>t, <1>3, <1>0 DEF Inv, Places, Values, Current
<1>5. Order'
  BY <1>t, <1>3, <1>0, <1>op DEF Inv, Places, Numbers, Order
<1>6. CommitBlock'
  BY <1>t, <1>3, <1>0 DEF Inv, Places, Values, Lengths, CommitBlock, OneTxn,
     Good
<1>7. Fixed'
  BY <1>t, <1>3, <1>0, <1>j, <1>op DEF Inv, Places, Numbers, Lengths, Fixed
<1>8. Writing'
  BY <1>t, <1>3, <1>0, <1>j, <1>op DEF Inv, Places, Values, Lengths, Writing,
     Sums
<1>. QED  BY <1>0, <1>1, <1>2, Elsewhere, <1>4, <1>5, <1>6, <1>7, <1>8 DEF
       Inv

LEMMA Barrier3FullI ==
  ASSUME IInv, Barrier, version = 3, ~j.err, Full PROVE IInv'
<1>t. TypeOK /\ Records /\ Numbers /\ Values /\ Blocks /\ Lengths
  BY Fields DEF IInv
<1>0. /\ version = 3
      /\ pc = "barrier"
      /\ pc' = "free"
      /\ dirty = {}
      /\ sbc = sbd
      /\ jc = jd
      /\ UNCHANGED <<version, cache, dirty, disk, sbd, jc, jd, pay, ghost>>
  BY DEF Barrier, Synced, Runtime
<1>j. /\ j' = [seq |-> j.seq, active |-> 0, entries |-> <<>>, err |-> FALSE]
      /\ j' \in RuntimeType
  <2>1. j' = [seq |-> j.seq, active |-> 0, entries |-> <<>>, err |-> FALSE]
    BY <1>t DEF Records, RuntimeType, Barrier, Synced, Runtime
  <2>2. j.seq \in Nat
    BY <1>t, <1>0 DEF Numbers
  <2>3. <<>> \in Seq(Target)
    BY Blanks
  <2>. QED  BY <2>1, <2>2, <2>3 DEF RuntimeType
<1>op. /\ op' = [block |-> op.block, k |-> 1, last |-> op.last, what |-> op.what]
       /\ op' \in LocalsType
  <2>1. op' = [block |-> op.block, k |-> 1, last |-> op.last, what |-> op.what]
    BY <1>t DEF Records, LocalsType, Barrier, Synced, Runtime
  <2>2. /\ op.block \in (Home \cup {NoBlock}) /\ op.last \in Nat
        /\ op.what \in {"none", "commit", "abort", "replay"}
    BY <1>t, <1>0, <1>j DEF Numbers
  <2>. QED  BY <2>1, <2>2 DEF LocalsType
<1>sbc. /\ sbc' = [rec |-> FALSE, seq |-> sbc.seq]
        /\ sbc' \in SuperType
  <2>1. sbc' = [rec |-> FALSE, seq |-> sbc.seq]
    BY <1>t DEF Records, SuperType, Barrier, Synced, Runtime
  <2>2. sbc.seq \in Nat
    BY <1>t, <1>0, <1>j, <1>op DEF Numbers
  <2>. QED  BY <2>1, <2>2 DEF SuperType
<1>1. TypeOK'
  BY <1>t, <1>0, <1>j, <1>op, <1>sbc DEF TypeOK, Records
<1>2. Places'
  BY <1>t, <1>0, <1>j, <1>op DEF IInv, Places, Records
<1>. SUFFICES ASSUME ~ghost.stale' PROVE Inv'
  BY <1>1, <1>2 DEF IInv
<1>3. Inv /\ Places /\ ~ghost.stale
  BY <1>t, <1>0 DEF IInv, Numbers
<1>4. Current'
  BY <1>t, <1>3, <1>0 DEF Inv, Places, Values, Current
<1>5. Order'
  BY <1>t, <1>3, <1>0, <1>op DEF Inv, Places, Numbers, Order
<1>6. CommitBlock'
  BY <1>t, <1>3, <1>0 DEF Inv, Places, Values, Lengths, CommitBlock, OneTxn,
     Good
<1>7. Fixed'
  BY <1>t, <1>3, <1>0, <1>j, <1>op DEF Inv, Places, Numbers, Lengths, Fixed
<1>8. Writing'
  BY <1>t, <1>3, <1>0, <1>j, <1>op DEF Inv, Places, Values, Lengths, Writing,
     Sums
<1>. QED  BY <1>0, <1>1, <1>2, Elsewhere, <1>4, <1>5, <1>6, <1>7, <1>8 DEF
       Inv

LEMMA Barrier3I ==
  ASSUME IInv, Barrier, version = 3, ~j.err, ~Full PROVE IInv'
<1>t. TypeOK /\ Records /\ Numbers /\ Values /\ Blocks /\ Lengths
  BY Fields DEF IInv
<1>0. /\ version = 3
      /\ pc = "barrier"
      /\ pc' = "v3_payload"
      /\ Len(j.entries) < Area
      /\ dirty = {}
      /\ sbc = sbd
      /\ jc = jd
      /\ UNCHANGED <<version, cache, dirty, disk, sbd, jc, jd, pay, ghost>>
  BY DEF Barrier, Synced, Full
<1>f0. Append(j.entries, SB) \in Seq(Target) /\ Len(Append(j.entries, SB)) = Len(j.entries) + 1
  <2>1. SB \in Target /\ j.entries \in Seq(Target)
    BY <1>t DEF Lengths, Target
  <2>. QED  BY <2>1, AppendFacts
<1>j. /\ j' = [seq |-> j.seq, active |-> j.active, entries |-> Append(j.entries, SB),
               err |-> j.err]
      /\ j' \in RuntimeType
  <2>1. j' = [seq |-> j.seq, active |-> j.active, entries |-> Append(j.entries, SB),
              err |-> j.err]
    BY <1>t DEF Records, RuntimeType, Barrier, Synced, Full
  <2>2. j.seq \in Nat /\ j.active \in Nat /\ j.err \in BOOLEAN
    BY <1>t, <1>0, <1>f0 DEF Numbers
  <2>3. Append(j.entries, SB) \in Seq(Target)
    BY <1>t, <1>0, <1>f0 DEF Lengths
  <2>. QED  BY <2>1, <2>2, <2>3 DEF RuntimeType
<1>op. /\ op' = [block |-> op.block, k |-> 1, last |-> op.last, what |-> op.what]
       /\ op' \in LocalsType
  <2>1. op' = [block |-> op.block, k |-> 1, last |-> op.last, what |-> op.what]
    BY <1>t DEF Records, LocalsType, Barrier, Synced, Full
  <2>2. /\ op.block \in (Home \cup {NoBlock}) /\ op.last \in Nat
        /\ op.what \in {"none", "commit", "abort", "replay"}
    BY <1>t, <1>0, <1>f0, <1>j DEF Numbers
  <2>. QED  BY <2>1, <2>2 DEF LocalsType
<1>sbc. /\ sbc' = [rec |-> TRUE, seq |-> j.active]
        /\ sbc' \in SuperType
  <2>1. sbc' = [rec |-> TRUE, seq |-> j.active]
    BY <1>t DEF Records, SuperType, Barrier, Synced, Full
  <2>2. j.active \in Nat
    BY <1>t, <1>0, <1>f0, <1>j, <1>op DEF Numbers
  <2>. QED  BY <2>1, <2>2 DEF SuperType
<1>1. TypeOK'
  BY <1>t, <1>0, <1>f0, <1>j, <1>op, <1>sbc DEF TypeOK, Records
<1>2. Places'
  BY <1>t, <1>0, <1>f0, <1>j, <1>op DEF IInv, Places, Records
<1>. SUFFICES ASSUME ~ghost.stale' PROVE Inv'
  BY <1>1, <1>2 DEF IInv
<1>3. Inv /\ Places /\ ~ghost.stale
  BY <1>t, <1>0, <1>f0 DEF IInv, Numbers
<1>4. Current'
  BY <1>t, <1>3, <1>0, <1>f0 DEF Inv, Places, Values, Current
<1>5. Order'
  BY <1>t, <1>3, <1>0, <1>op DEF Inv, Places, Numbers, Order
<1>6. CommitBlock'
  BY <1>t, <1>3, <1>0, <1>f0 DEF Inv, Places, Values, Lengths, CommitBlock,
     OneTxn, Good
<1>7. Fixed'
  BY <1>t, <1>3, <1>0, <1>f0, <1>j, <1>op DEF Inv, Places, Numbers, Lengths,
     Fixed
<1>8. Writing'
  BY <1>t, <1>3, <1>0, <1>f0, <1>j, <1>op DEF Inv, Places, Values, Lengths,
     Writing, Sums
<1>. QED  BY <1>0, <1>1, <1>2, Elsewhere, <1>4, <1>5, <1>6, <1>7, <1>8 DEF
       Inv

LEMMA FinalCommitI ==
  ASSUME IInv, FinalSync, op.what = "commit" PROVE IInv'
<1>t. TypeOK /\ Records /\ Numbers /\ Values /\ Blocks /\ Lengths
  BY Fields DEF IInv
<1>0. /\ pc = "final_sync"
      /\ pc' = "free"
      /\ op.what = "commit"
      /\ dirty = {}
      /\ sbc = sbd
      /\ jc = jd
      /\ UNCHANGED <<version, cache, dirty, disk, sbc, sbd, jc, jd, pay, op>>
  BY DEF FinalSync, Synced, Runtime
<1>n. version \in {1, 2}
  BY <1>t, <1>0 DEF IInv, Places, Records
<1>f0. \A b \in Home : ghost'.committed[b] \in {ghost.committed[b], cache[b]}
  BY <1>t DEF FinalSync, Commits, Records, GhostType
<1>f1. ghost'.committed \in [Home -> Nat]
  BY <1>t DEF FinalSync, Commits, Records, GhostType, Values
<1>j. /\ j' = [seq |-> j.seq, active |-> 0, entries |-> <<>>, err |-> FALSE]
      /\ j' \in RuntimeType
  <2>1. j' = [seq |-> j.seq, active |-> 0, entries |-> <<>>, err |-> FALSE]
    BY <1>t DEF Records, RuntimeType, FinalSync, Synced, Runtime
  <2>2. j.seq \in Nat
    BY <1>t, <1>0, <1>f0, <1>f1 DEF Numbers
  <2>3. <<>> \in Seq(Target)
    BY Blanks
  <2>. QED  BY <2>1, <2>2, <2>3 DEF RuntimeType
<1>ghost. /\ ghost' = [txn |-> ghost.txn, writes |-> ghost.writes, mods |-> ghost.mods,
                       committed |-> ghost'.committed, replayed |-> ghost.replayed,
                       last |-> ghost.txn, stale |-> ghost.stale, crashes |-> ghost.crashes,
                       faults |-> ghost.faults]
          /\ ghost' \in GhostType
  <2>1. ghost' = [txn |-> ghost.txn, writes |-> ghost.writes, mods |-> ghost.mods,
                  committed |-> ghost'.committed, replayed |-> ghost.replayed,
                  last |-> ghost.txn, stale |-> ghost.stale, crashes |-> ghost.crashes,
                  faults |-> ghost.faults]
    BY <1>t DEF Records, GhostType, FinalSync, Commits
  <2>2. /\ ghost.txn \in Nat /\ ghost.writes \in Nat /\ ghost.mods \in SUBSET Home
        /\ ghost.replayed \in SUBSET Nat /\ ghost.stale \in BOOLEAN
        /\ ghost.crashes \in Nat /\ ghost.faults \in Nat
    BY <1>t DEF Numbers, Values
  <2>3. ghost'.committed \in [Home -> Nat]
    BY <1>t, <1>0, <1>f0, <1>f1 DEF Numbers, Values
  <2>. QED  BY <2>1, <2>2, <2>3 DEF GhostType
<1>1. TypeOK'
  BY <1>t, <1>0, <1>f0, <1>f1, <1>j, <1>ghost DEF TypeOK, Records
<1>2. Places'
  BY <1>t, <1>0, <1>f0, <1>f1, <1>j, <1>ghost DEF IInv, Places, Records
<1>. SUFFICES ASSUME ~ghost.stale' PROVE Inv'
  BY <1>1, <1>2 DEF IInv
<1>3. Inv /\ Places /\ ~ghost.stale
  BY <1>t, <1>0, <1>f0, <1>f1, <1>ghost DEF IInv, Numbers
<1>4. Current'
  <2>1. ASSUME NEW b \in Home
        PROVE  /\ ghost'.committed[b] <= cache[b] /\ cache[b] <= ghost.writes
               /\ ghost'.committed[b] <= disk[b] /\ disk[b] <= ghost.writes
    <3>1. cache[b] = disk[b] /\ ghost.committed[b] <= cache[b] /\ cache[b] <= ghost.writes
      BY <1>3, <1>0 DEF Inv, Current
    <3>2. cache[b] \in Nat /\ ghost'.committed[b] \in {ghost.committed[b], cache[b]}
      BY <1>t, <1>f0 DEF Values
    <3>. QED  BY <3>1, <3>2
  <2>. QED  BY <1>3, <1>0, <1>ghost, <2>1 DEF Inv, Current
<1>5. Order'
  BY <1>t, <1>3, <1>0, <1>ghost DEF Inv, Places, Numbers, Order
<1>6. Recording'
  BY <1>t, <1>3, <1>0, <1>f0, <1>f1, <1>j, <1>ghost DEF Inv, Places, Values,
     Lengths, Recording, Good
<1>7. HeaderLog'
  BY <1>t, <1>3, <1>0, <1>f0, <1>f1, <1>j, <1>ghost DEF Inv, Places, Values,
     Lengths, HeaderLog, Logged, Good
<1>8. Sequences'
  BY <1>t, <1>3, <1>0, <1>f0, <1>f1, <1>j DEF Inv, Places, Numbers, Lengths,
     Sequences, Pair, Zero
<1>9. CompleteLog'
  <2>1. version = 2 => jd'.hdr.active = 0
    BY <1>3, <1>0 DEF Inv, Sequences
  <2>. QED  BY <1>0, <2>1 DEF CompleteLog
<1>10. RunningLog'
  BY <1>t, <1>3, <1>0, <1>f0, <1>f1, <1>j, <1>ghost DEF Inv, Places, Values,
     Lengths, RunningLog, Good, NextEntries, Block
<1>. QED  BY <1>0, <1>n, <1>1, <1>2, Elsewhere, <1>4, <1>5, <1>6, <1>7, <1>8,
       <1>9, <1>10 DEF Inv

LEMMA FinalReplayI ==
  ASSUME IInv, FinalSync, op.what # "commit" PROVE IInv'
<1>t. TypeOK /\ Records /\ Numbers /\ Values /\ Blocks /\ Lengths
  BY Fields DEF IInv
<1>0. /\ pc = "final_sync"
      /\ pc' = "free"
      /\ op.what # "commit"
      /\ dirty = {}
      /\ sbc = sbd
      /\ jc = jd
      /\ UNCHANGED <<version, cache, dirty, disk, sbc, sbd, jc, jd, pay, op, ghost>>
  BY DEF FinalSync, Synced, Runtime
<1>n. version \in {1, 2}
  BY <1>t, <1>0 DEF IInv, Places, Records
<1>j. /\ j' = [seq |-> j.seq, active |-> 0, entries |-> <<>>, err |-> FALSE]
      /\ j' \in RuntimeType
  <2>1. j' = [seq |-> j.seq, active |-> 0, entries |-> <<>>, err |-> FALSE]
    BY <1>t DEF Records, RuntimeType, FinalSync, Synced, Runtime
  <2>2. j.seq \in Nat
    BY <1>t, <1>0 DEF Numbers
  <2>3. <<>> \in Seq(Target)
    BY Blanks
  <2>. QED  BY <2>1, <2>2, <2>3 DEF RuntimeType
<1>1. TypeOK'
  BY <1>t, <1>0, <1>j DEF TypeOK, Records
<1>2. Places'
  BY <1>t, <1>0, <1>j DEF IInv, Places, Records
<1>. SUFFICES ASSUME ~ghost.stale' PROVE Inv'
  BY <1>1, <1>2 DEF IInv
<1>3. Inv /\ Places /\ ~ghost.stale
  BY <1>t, <1>0 DEF IInv, Numbers
<1>4. Current'
  BY <1>t, <1>3, <1>0 DEF Inv, Places, Values, Current
<1>5. Order'
  BY <1>t, <1>3, <1>0 DEF Inv, Places, Numbers, Order
<1>6. Recording'
  BY <1>t, <1>3, <1>0, <1>j DEF Inv, Places, Values, Lengths, Recording, Good
<1>7. HeaderLog'
  BY <1>t, <1>3, <1>0, <1>j DEF Inv, Places, Values, Lengths, HeaderLog,
     Logged, Good
<1>8. Sequences'
  BY <1>t, <1>3, <1>0, <1>j DEF Inv, Places, Numbers, Lengths, Sequences,
     Pair, Zero
<1>9. CompleteLog'
  BY <1>t, <1>3, <1>0 DEF Inv, Places, Values, Lengths, CompleteLog, Pair,
     OneTxn, Good
<1>10. RunningLog'
  BY <1>t, <1>3, <1>0, <1>j DEF Inv, Places, Values, Lengths, RunningLog,
     Good, NextEntries, Block
<1>. QED  BY <1>0, <1>n, <1>1, <1>2, Elsewhere, <1>4, <1>5, <1>6, <1>7, <1>8,
       <1>9, <1>10 DEF Inv

LEMMA ResetControlI ==
  ASSUME IInv, Reset, pc = "reset_control" PROVE IInv'
<1>t. TypeOK /\ Records /\ Numbers /\ Values /\ Blocks /\ Lengths
  BY Fields DEF IInv
<1>0. /\ pc = "reset_control"
      /\ pc' = "reset_desc"
      /\ UNCHANGED <<version, cache, dirty, disk, sbc, sbd, pay, j, op, ghost>>
  BY DEF Reset, WriteSync, Control
<1>n. version = 2
  BY <1>t, <1>0 DEF IInv, Places, Records
<1>f0. [state |-> "v2", n |-> Area, homes |-> NoHomes, last |-> op.last,
        active |-> 0] \in HeaderType
  BY <1>t, FixedAssumption, ControlTyped DEF Numbers
<1>jc. /\ jc' = [hdr |-> [state |-> "v2", n |-> Area, homes |-> NoHomes, last |-> op.last,
                          active |-> 0], desc |-> jc.desc, com |-> jc.com]
       /\ jc' \in AreaType
  <2>1. jc' = [hdr |-> [state |-> "v2", n |-> Area, homes |-> NoHomes, last |-> op.last,
                        active |-> 0], desc |-> jc.desc, com |-> jc.com]
    BY <1>t DEF Records, AreaType, Reset, WriteSync, Control
  <2>2. /\ [state |-> "v2", n |-> Area, homes |-> NoHomes, last |-> op.last,
            active |-> 0] \in HeaderType
        /\ jc.desc \in BlockType /\ jc.com \in BlockType
    BY <1>t, <1>0, <1>f0, Blanks DEF Blocks, Lengths, HeaderType, BlockType
  <2>. QED  BY <2>1, <2>2 DEF AreaType
<1>jd. /\ jd' = [hdr |-> [state |-> "v2", n |-> Area, homes |-> NoHomes, last |-> op.last,
                          active |-> 0], desc |-> jd.desc, com |-> jd.com]
       /\ jd' \in AreaType
  <2>1. jd' = [hdr |-> [state |-> "v2", n |-> Area, homes |-> NoHomes, last |-> op.last,
                        active |-> 0], desc |-> jd.desc, com |-> jd.com]
    BY <1>t DEF Records, AreaType, Reset, WriteSync, Control
  <2>2. /\ [state |-> "v2", n |-> Area, homes |-> NoHomes, last |-> op.last,
            active |-> 0] \in HeaderType
        /\ jd.desc \in BlockType /\ jd.com \in BlockType
    BY <1>t, <1>0, <1>f0, <1>jc, Blanks DEF Blocks, Lengths, HeaderType,
       BlockType
  <2>. QED  BY <2>1, <2>2 DEF AreaType
<1>1. TypeOK'
  BY <1>t, <1>0, <1>f0, <1>jc, <1>jd DEF TypeOK, Records
<1>2. Places'
  BY <1>t, <1>0, <1>f0, <1>jc, <1>jd DEF IInv, Places, Records
<1>. SUFFICES ASSUME ~ghost.stale' PROVE Inv'
  BY <1>1, <1>2 DEF IInv
<1>3. Inv /\ Places /\ ~ghost.stale
  BY <1>t, <1>0, <1>f0 DEF IInv, Numbers
<1>4. Current'
  BY <1>t, <1>3, <1>0, <1>f0 DEF Inv, Places, Values, Current
<1>5. Order'
  BY <1>t, <1>3, <1>0 DEF Inv, Places, Numbers, Order
<1>6. Recording'
  BY <1>t, <1>3, <1>0, <1>f0 DEF Inv, Places, Values, Lengths, Recording,
     Good
<1>7. Sequences'
  BY <1>t, <1>3, <1>0, <1>f0, <1>jc, <1>jd DEF Inv, Places, Numbers, Lengths,
     Sequences, Pair, Zero
<1>8. CompleteLog'
  BY <1>t, <1>3, <1>0, <1>f0, <1>jd DEF Inv, Places, Values, Lengths,
     CompleteLog, Pair, OneTxn, Good
<1>9. RunningLog'
  BY <1>t, <1>3, <1>0, <1>f0, <1>jc, <1>jd DEF Inv, Places, Values, Lengths,
     RunningLog, Good, NextEntries, Block
<1>. QED  BY <1>0, <1>n, <1>1, <1>2, Elsewhere, <1>4, <1>5, <1>6, <1>7, <1>8,
       <1>9 DEF Inv

LEMMA ResetDescI ==
  ASSUME IInv, Reset, pc = "reset_desc" PROVE IInv'
<1>t. TypeOK /\ Records /\ Numbers /\ Values /\ Blocks /\ Lengths
  BY Fields DEF IInv
<1>0. /\ pc = "reset_desc"
      /\ pc' = "reset_commit"
      /\ UNCHANGED <<version, cache, dirty, disk, sbc, sbd, pay, j, op, ghost>>
  BY DEF Reset, WriteSync, Block
<1>n. version = 2
  BY <1>t, <1>0 DEF IInv, Places, Records
<1>f0. [kind |-> "desc", seq |-> op.last, entries |-> <<>>] \in BlockType
  BY <1>t, Blanks, BlockTyped DEF Numbers
<1>jc. /\ jc' = [hdr |-> jc.hdr, desc |-> [kind |-> "desc", seq |-> op.last, entries |-> <<>>],
                 com |-> jc.com]
       /\ jc' \in AreaType
  <2>1. jc' = [hdr |-> jc.hdr, desc |-> [kind |-> "desc", seq |-> op.last, entries |-> <<>>],
               com |-> jc.com]
    BY <1>t DEF Records, AreaType, Reset, WriteSync, Block
  <2>2. /\ jc.hdr \in HeaderType
        /\ [kind |-> "desc", seq |-> op.last, entries |-> <<>>] \in BlockType
        /\ jc.com \in BlockType
    BY <1>t, <1>0, <1>f0, Blanks DEF Blocks, Lengths, HeaderType, BlockType
  <2>. QED  BY <2>1, <2>2 DEF AreaType
<1>jd. /\ jd' = [hdr |-> jd.hdr, desc |-> [kind |-> "desc", seq |-> op.last, entries |-> <<>>],
                 com |-> jd.com]
       /\ jd' \in AreaType
  <2>1. jd' = [hdr |-> jd.hdr, desc |-> [kind |-> "desc", seq |-> op.last, entries |-> <<>>],
               com |-> jd.com]
    BY <1>t DEF Records, AreaType, Reset, WriteSync, Block
  <2>2. /\ jd.hdr \in HeaderType
        /\ [kind |-> "desc", seq |-> op.last, entries |-> <<>>] \in BlockType
        /\ jd.com \in BlockType
    BY <1>t, <1>0, <1>f0, <1>jc, Blanks DEF Blocks, Lengths, HeaderType,
       BlockType
  <2>. QED  BY <2>1, <2>2 DEF AreaType
<1>1. TypeOK'
  BY <1>t, <1>0, <1>f0, <1>jc, <1>jd DEF TypeOK, Records
<1>2. Places'
  BY <1>t, <1>0, <1>f0, <1>jc, <1>jd DEF IInv, Places, Records
<1>. SUFFICES ASSUME ~ghost.stale' PROVE Inv'
  BY <1>1, <1>2 DEF IInv
<1>3. Inv /\ Places /\ ~ghost.stale
  BY <1>t, <1>0, <1>f0 DEF IInv, Numbers
<1>4. Current'
  BY <1>t, <1>3, <1>0, <1>f0 DEF Inv, Places, Values, Current
<1>5. Order'
  BY <1>t, <1>3, <1>0 DEF Inv, Places, Numbers, Order
<1>6. Recording'
  BY <1>t, <1>3, <1>0, <1>f0 DEF Inv, Places, Values, Lengths, Recording,
     Good
<1>7. Sequences'
  <2>1. version = 2 => op.last = j.seq /\ jd.hdr.last = j.seq /\ jd.hdr.active = 0 /\ sbd.rec
          /\ sbc.rec
    BY <1>3, <1>0 DEF Inv, Sequences
  <2>2. \A m \in Nat : Pair(m)' => m = op.last
    BY <1>jd DEF Pair
  <2>3. jd'.hdr = jd.hdr /\ jc'.hdr = jc.hdr /\ jc'.desc = jd'.desc /\ jc'.com = jc.com
          /\ jd'.com = jd.com
    BY <1>jc, <1>jd
  <2>4. /\ jc.hdr = jd.hdr /\ sbc.seq = j.seq
        /\ jc.com = jd.com \/ jc.com = Zero
    BY <1>3, <1>0, <1>n DEF Inv, Sequences
  <2>5. op.last \in Nat /\ op' = op /\ j' = j /\ sbc' = sbc /\ sbd' = sbd
    BY <1>t, <1>0 DEF Numbers
  <2>. QED  BY <1>0, <1>n, <2>1, <2>2, <2>3, <2>4, <2>5 DEF Sequences
<1>8. CompleteLog'
  <2>1. version = 2 => jd'.hdr.active = 0
    BY <1>3, <1>0, <1>jd DEF Inv, Sequences
  <2>. QED  BY <1>0, <2>1 DEF CompleteLog
<1>9. RunningLog'
  BY <1>t, <1>3, <1>0, <1>f0, <1>jc, <1>jd DEF Inv, Places, Values, Lengths,
     RunningLog, Good, NextEntries, Block
<1>. QED  BY <1>0, <1>n, <1>1, <1>2, Elsewhere, <1>4, <1>5, <1>6, <1>7, <1>8,
       <1>9 DEF Inv

LEMMA ResetCommitI ==
  ASSUME IInv, Reset, pc = "reset_commit", op.what # "abort" PROVE IInv'
<1>t. TypeOK /\ Records /\ Numbers /\ Values /\ Blocks /\ Lengths
  BY Fields DEF IInv
<1>0. /\ pc = "reset_commit"
      /\ pc' = "final_sync"
      /\ UNCHANGED <<version, cache, dirty, disk, sbd, pay, j, op, ghost>>
  BY DEF Reset, WriteSync, Block
<1>n. version = 2
  BY <1>t, <1>0 DEF IInv, Places, Records
<1>f0. [kind |-> "empty", seq |-> op.last, entries |-> <<>>] \in BlockType
  BY <1>t, Blanks, BlockTyped DEF Numbers
<1>jc. /\ jc' = [hdr |-> jc.hdr, desc |-> jc.desc,
                 com |-> [kind |-> "empty", seq |-> op.last, entries |-> <<>>]]
       /\ jc' \in AreaType
  <2>1. jc' = [hdr |-> jc.hdr, desc |-> jc.desc,
               com |-> [kind |-> "empty", seq |-> op.last, entries |-> <<>>]]
    BY <1>t DEF Records, AreaType, Reset, WriteSync, Block
  <2>2. /\ jc.hdr \in HeaderType /\ jc.desc \in BlockType
        /\ [kind |-> "empty", seq |-> op.last, entries |-> <<>>] \in BlockType
    BY <1>t, <1>0, <1>f0, Blanks DEF Blocks, Lengths, HeaderType, BlockType
  <2>. QED  BY <2>1, <2>2 DEF AreaType
<1>jd. /\ jd' = [hdr |-> jd.hdr, desc |-> jd.desc,
                 com |-> [kind |-> "empty", seq |-> op.last, entries |-> <<>>]]
       /\ jd' \in AreaType
  <2>1. jd' = [hdr |-> jd.hdr, desc |-> jd.desc,
               com |-> [kind |-> "empty", seq |-> op.last, entries |-> <<>>]]
    BY <1>t DEF Records, AreaType, Reset, WriteSync, Block
  <2>2. /\ jd.hdr \in HeaderType /\ jd.desc \in BlockType
        /\ [kind |-> "empty", seq |-> op.last, entries |-> <<>>] \in BlockType
    BY <1>t, <1>0, <1>f0, <1>jc, Blanks DEF Blocks, Lengths, HeaderType,
       BlockType
  <2>. QED  BY <2>1, <2>2 DEF AreaType
<1>sbc. /\ sbc' = [rec |-> FALSE, seq |-> sbc.seq]
        /\ sbc' \in SuperType
  <2>1. sbc' = [rec |-> FALSE, seq |-> sbc.seq]
    BY <1>t DEF Records, SuperType, Reset, WriteSync, Block
  <2>2. sbc.seq \in Nat
    BY <1>t, <1>0, <1>f0, <1>jc, <1>jd DEF Numbers
  <2>. QED  BY <2>1, <2>2 DEF SuperType
<1>1. TypeOK'
  BY <1>t, <1>0, <1>f0, <1>jc, <1>jd, <1>sbc DEF TypeOK, Records
<1>2. Places'
  BY <1>t, <1>0, <1>f0, <1>jc, <1>jd DEF IInv, Places, Records
<1>. SUFFICES ASSUME ~ghost.stale' PROVE Inv'
  BY <1>1, <1>2 DEF IInv
<1>3. Inv /\ Places /\ ~ghost.stale
  BY <1>t, <1>0, <1>f0 DEF IInv, Numbers
<1>4. Current'
  BY <1>t, <1>3, <1>0, <1>f0 DEF Inv, Places, Values, Current
<1>5. Order'
  BY <1>t, <1>3, <1>0 DEF Inv, Places, Numbers, Order
<1>6. Recording'
  BY <1>t, <1>3, <1>0, <1>f0 DEF Inv, Places, Values, Lengths, Recording,
     Good
<1>7. Sequences'
  BY <1>t, <1>3, <1>0, <1>f0, <1>jc, <1>jd, <1>sbc DEF Inv, Places, Numbers,
     Lengths, Sequences, Pair, Zero
<1>8. CompleteLog'
  BY <1>t, <1>3, <1>0, <1>f0, <1>jd DEF Inv, Places, Values, Lengths,
     CompleteLog, Pair, OneTxn, Good
<1>9. RunningLog'
  BY <1>t, <1>3, <1>0, <1>f0, <1>jc, <1>jd DEF Inv, Places, Values, Lengths,
     RunningLog, Good, NextEntries, Block
<1>. QED  BY <1>0, <1>n, <1>1, <1>2, Elsewhere, <1>4, <1>5, <1>6, <1>7, <1>8,
       <1>9 DEF Inv

LEMMA ResetAbortI ==
  ASSUME IInv, Reset, pc = "reset_commit", op.what = "abort" PROVE IInv'
<1>t. TypeOK /\ Records /\ Numbers /\ Values /\ Blocks /\ Lengths
  BY Fields DEF IInv
<1>0. /\ pc = "reset_commit"
      /\ pc' = "free"
      /\ UNCHANGED <<version, cache, dirty, disk, sbd, pay, op, ghost>>
  BY DEF Reset, WriteSync, Block, Runtime
<1>n. version = 2
  BY <1>t, <1>0 DEF IInv, Places, Records
<1>f0. [kind |-> "empty", seq |-> op.last, entries |-> <<>>] \in BlockType
  BY <1>t, Blanks, BlockTyped DEF Numbers
<1>jc. /\ jc' = [hdr |-> jc.hdr, desc |-> jc.desc,
                 com |-> [kind |-> "empty", seq |-> op.last, entries |-> <<>>]]
       /\ jc' \in AreaType
  <2>1. jc' = [hdr |-> jc.hdr, desc |-> jc.desc,
               com |-> [kind |-> "empty", seq |-> op.last, entries |-> <<>>]]
    BY <1>t DEF Records, AreaType, Reset, WriteSync, Block, Runtime
  <2>2. /\ jc.hdr \in HeaderType /\ jc.desc \in BlockType
        /\ [kind |-> "empty", seq |-> op.last, entries |-> <<>>] \in BlockType
    BY <1>t, <1>0, <1>f0, Blanks DEF Blocks, Lengths, HeaderType, BlockType
  <2>. QED  BY <2>1, <2>2 DEF AreaType
<1>jd. /\ jd' = [hdr |-> jd.hdr, desc |-> jd.desc,
                 com |-> [kind |-> "empty", seq |-> op.last, entries |-> <<>>]]
       /\ jd' \in AreaType
  <2>1. jd' = [hdr |-> jd.hdr, desc |-> jd.desc,
               com |-> [kind |-> "empty", seq |-> op.last, entries |-> <<>>]]
    BY <1>t DEF Records, AreaType, Reset, WriteSync, Block, Runtime
  <2>2. /\ jd.hdr \in HeaderType /\ jd.desc \in BlockType
        /\ [kind |-> "empty", seq |-> op.last, entries |-> <<>>] \in BlockType
    BY <1>t, <1>0, <1>f0, <1>jc, Blanks DEF Blocks, Lengths, HeaderType,
       BlockType
  <2>. QED  BY <2>1, <2>2 DEF AreaType
<1>sbc. /\ sbc' = [rec |-> FALSE, seq |-> sbc.seq]
        /\ sbc' \in SuperType
  <2>1. sbc' = [rec |-> FALSE, seq |-> sbc.seq]
    BY <1>t DEF Records, SuperType, Reset, WriteSync, Block, Runtime
  <2>2. sbc.seq \in Nat
    BY <1>t, <1>0, <1>f0, <1>jc, <1>jd DEF Numbers
  <2>. QED  BY <2>1, <2>2 DEF SuperType
<1>j. /\ j' = [seq |-> j.seq, active |-> 0, entries |-> <<>>, err |-> FALSE]
      /\ j' \in RuntimeType
  <2>1. j' = [seq |-> j.seq, active |-> 0, entries |-> <<>>, err |-> FALSE]
    BY <1>t DEF Records, RuntimeType, Reset, WriteSync, Block, Runtime
  <2>2. j.seq \in Nat
    BY <1>t, <1>0, <1>f0, <1>jc, <1>jd, <1>sbc DEF Numbers
  <2>3. <<>> \in Seq(Target)
    BY Blanks
  <2>. QED  BY <2>1, <2>2, <2>3 DEF RuntimeType
<1>1. TypeOK'
  BY <1>t, <1>0, <1>f0, <1>jc, <1>jd, <1>sbc, <1>j DEF TypeOK, Records
<1>2. Places'
  BY <1>t, <1>0, <1>f0, <1>jc, <1>jd, <1>j DEF IInv, Places, Records
<1>. SUFFICES ASSUME ~ghost.stale' PROVE Inv'
  BY <1>1, <1>2 DEF IInv
<1>3. Inv /\ Places /\ ~ghost.stale
  BY <1>t, <1>0, <1>f0 DEF IInv, Numbers
<1>4. Current'
  BY <1>t, <1>3, <1>0, <1>f0 DEF Inv, Places, Values, Current
<1>5. Order'
  BY <1>t, <1>3, <1>0 DEF Inv, Places, Numbers, Order
<1>6. Recording'
  BY <1>t, <1>3, <1>0, <1>f0, <1>j DEF Inv, Places, Values, Lengths,
     Recording, Good
<1>7. Sequences'
  BY <1>t, <1>3, <1>0, <1>f0, <1>jc, <1>jd, <1>sbc, <1>j DEF Inv, Places,
     Numbers, Lengths, Sequences, Pair, Zero
<1>8. CompleteLog'
  BY <1>t, <1>3, <1>0, <1>f0, <1>jd DEF Inv, Places, Values, Lengths,
     CompleteLog, Pair, OneTxn, Good
<1>9. RunningLog'
  BY <1>t, <1>3, <1>0, <1>f0, <1>jc, <1>jd, <1>j DEF Inv, Places, Values,
     Lengths, RunningLog, Good, NextEntries, Block
<1>. QED  BY <1>0, <1>n, <1>1, <1>2, Elsewhere, <1>4, <1>5, <1>6, <1>7, <1>8,
       <1>9 DEF Inv

LEMMA CommitFailsI ==
  ASSUME IInv, CommitFails PROVE IInv'
<1>t. TypeOK /\ Records /\ Numbers /\ Values /\ Blocks /\ Lengths
  BY Fields DEF IInv
<1>0. /\ pc \in {"final_sync", "reset_control", "reset_desc", "reset_commit"}
      /\ pc' = "free"
      /\ UNCHANGED <<version, cache, dirty, disk, sbd, jc, jd, pay, op>>
  BY DEF CommitFails, Runtime
<1>n. version \in {1, 2}
  BY <1>t, <1>0 DEF IInv, Places, Records
<1>f0. ghost'.stale \in BOOLEAN /\ sbc'.rec \in BOOLEAN
  BY <1>t DEF CommitFails, Records, GhostType, SuperType
<1>f1. ~ghost'.stale => ~ghost.stale /\ version # 1
  BY <1>t DEF CommitFails, Records, GhostType
<1>f2. ghost'.stale /\ ~ghost.stale => version = 1
  BY <1>t DEF CommitFails, Records, GhostType
<1>j. /\ j' = [seq |-> j.seq, active |-> 0, entries |-> <<>>, err |-> FALSE]
      /\ j' \in RuntimeType
  <2>1. j' = [seq |-> j.seq, active |-> 0, entries |-> <<>>, err |-> FALSE]
    BY <1>t DEF Records, RuntimeType, CommitFails, Runtime
  <2>2. j.seq \in Nat
    BY <1>t, <1>0, <1>f0, <1>f1, <1>f2 DEF Numbers
  <2>3. <<>> \in Seq(Target)
    BY Blanks
  <2>. QED  BY <2>1, <2>2, <2>3 DEF RuntimeType
<1>sbc. /\ sbc' = [rec |-> sbc'.rec, seq |-> sbc.seq]
        /\ sbc' \in SuperType
  <2>1. sbc' = [rec |-> sbc'.rec, seq |-> sbc.seq]
    BY <1>t DEF Records, SuperType, CommitFails
  <2>2. sbc'.rec \in BOOLEAN /\ sbc.seq \in Nat
    BY <1>t, <1>0, <1>f0, <1>f1, <1>f2, <1>j DEF Numbers
  <2>. QED  BY <2>1, <2>2 DEF SuperType
<1>ghost. /\ ghost' = [txn |-> ghost.txn, writes |-> ghost.writes, mods |-> ghost.mods,
                       committed |-> ghost.committed, replayed |-> ghost.replayed,
                       last |-> ghost.last, stale |-> ghost'.stale, crashes |-> ghost.crashes,
                       faults |-> ghost.faults + 1]
          /\ ghost' \in GhostType
  <2>1. ghost' = [txn |-> ghost.txn, writes |-> ghost.writes, mods |-> ghost.mods,
                  committed |-> ghost.committed, replayed |-> ghost.replayed,
                  last |-> ghost.last, stale |-> ghost'.stale, crashes |-> ghost.crashes,
                  faults |-> ghost.faults + 1]
    BY <1>t DEF Records, GhostType, CommitFails
  <2>2. /\ ghost.txn \in Nat /\ ghost.writes \in Nat /\ ghost.mods \in SUBSET Home
        /\ ghost.committed \in [Home -> Nat] /\ ghost.replayed \in SUBSET Nat
        /\ ghost.last \in Nat /\ ghost.crashes \in Nat /\ ghost.faults + 1 \in Nat
    BY <1>t DEF Numbers, Values
  <2>3. ghost'.stale \in BOOLEAN
    BY <1>t, <1>0, <1>f0, <1>f1, <1>f2 DEF Numbers, Values
  <2>. QED  BY <2>1, <2>2, <2>3 DEF GhostType
<1>1. TypeOK'
  BY <1>t, <1>0, <1>f0, <1>f1, <1>f2, <1>j, <1>sbc, <1>ghost DEF TypeOK,
     Records
<1>2. Places'
  BY <1>t, <1>0, <1>f0, <1>f1, <1>f2, <1>j, <1>ghost DEF IInv, Places,
     Records
<1>. SUFFICES ASSUME ~ghost.stale' PROVE Inv'
  BY <1>1, <1>2 DEF IInv
<1>3. Inv /\ Places /\ ~ghost.stale
  BY <1>t, <1>0, <1>f0, <1>f1, <1>f2, <1>ghost DEF IInv, Numbers
<1>4. Current'
  BY <1>t, <1>3, <1>0, <1>f0, <1>f1, <1>f2, <1>ghost DEF Inv, Places, Values,
     Current
<1>5. Order'
  BY <1>t, <1>3, <1>0, <1>ghost DEF Inv, Places, Numbers, Order
<1>6. Recording'
  BY <1>t, <1>3, <1>0, <1>f0, <1>f1, <1>f2, <1>j, <1>ghost DEF Inv, Places,
     Values, Lengths, Recording, Good
<1>7. HeaderLog'
  BY <1>t, <1>3, <1>0, <1>f0, <1>f1, <1>f2, <1>j, <1>ghost DEF Inv, Places,
     Values, Lengths, HeaderLog, Logged, Good
<1>8. Sequences'
  BY <1>t, <1>3, <1>0, <1>j, <1>sbc DEF Inv, Lengths, Sequences, Pair
<1>9. CompleteLog'
  <2>1. Keeps
    BY <1>t, <1>0, <1>ghost DEF Values, Keeps
  <2>2. /\ \A b, i : i \in 1 .. Area /\ Good(b, i) => Good(b, i)'
        /\ \A n : OneTxn(n) => OneTxn(n)'
    BY <1>t, <2>1, KeepsGood
  <2>. QED  BY <1>t, <1>3, <1>0, <1>f0, <1>f1, <1>f2, <1>j, <1>sbc, <1>ghost, <2>2 DEF Inv,
         Places, Lengths, CompleteLog, Pair
<1>10. RunningLog'
  BY <1>t, <1>3, <1>0, <1>f0, <1>f1, <1>f2, <1>j, <1>ghost DEF Inv, Places,
     Values, Lengths, RunningLog, Good, NextEntries, Block
<1>. QED  BY <1>0, <1>n, <1>1, <1>2, Elsewhere, <1>4, <1>5, <1>6, <1>7, <1>8,
       <1>9, <1>10 DEF Inv

-----------------------------------------------------------------------------
(* Version 3: the commit, the checkpoint that follows it and their failures. *)
LEMMA V3PayloadI ==
  ASSUME IInv, V3Write, pc = "v3_payload" PROVE IInv'
<1>t. TypeOK /\ Records /\ Numbers /\ Values /\ Blocks /\ Lengths
  BY Fields DEF IInv
<1>v. version = 3 /\ Inv
  BY <1>t DEF IInv, Places, Records, V3Write
<1>0. /\ version = 3
      /\ pc = "v3_payload"
      /\ pc' \in {"v3_payload", "v3_desc"}
      /\ pay' = [pay EXCEPT ![op.k] = [val |-> IF j.entries[op.k] = SB THEN V3Seq
                                       ELSE cache[j.entries[op.k]], txn |-> ghost.txn]]
      /\ UNCHANGED <<version, cache, dirty, disk, sbc, sbd, jc, jd, j, ghost>>
  BY <1>v DEF V3Write
<1>f0. /\ op.k \in 1 .. Len(j.entries) /\ op.k \in 1 .. Area /\ Len(j.entries) \in 1 .. Area
       /\ j.entries[op.k] \in Home \cup {SB}
  <2>1. op.k \in 1 .. Len(j.entries) /\ Len(j.entries) \in 1 .. Area
    BY <1>v, <1>0 DEF Inv, Writing
  <2>2. j.entries \in Seq(Home \cup {SB})
    BY <1>t DEF Lengths, Target
  <2>. QED  BY <2>1, <2>2, FixedAssumption
<1>f1. op'.k = (IF op.k = Len(j.entries) THEN 1 ELSE op.k + 1) /\ op'.k \in Nat
  BY <1>t DEF V3Write, Records, Numbers, LocalsType
<1>f2. pc' = IF op.k = Len(j.entries) THEN "v3_desc" ELSE "v3_payload"
  BY DEF V3Write
<1>f3. /\ (IF j.entries[op.k] = SB THEN V3Seq ELSE cache[j.entries[op.k]]) \in Nat
       /\ j.entries[op.k] \in Home
            => (IF j.entries[op.k] = SB THEN V3Seq
                ELSE cache[j.entries[op.k]]) = cache[j.entries[op.k]]
  BY <1>t, <1>f0, FixedAssumption DEF Numbers, Values, V3Seq
<1>f4. [val |-> IF j.entries[op.k] = SB THEN V3Seq ELSE cache[j.entries[op.k]],
        txn |-> ghost.txn] \in [val : Nat, txn : Nat]
  BY <1>t, <1>f3 DEF Numbers
<1>f5. /\ pay' \in Payloads
            /\ pay'[op.k] = [val |-> IF j.entries[op.k] = SB THEN V3Seq
                             ELSE cache[j.entries[op.k]], txn |-> ghost.txn]
       /\ \A i \in 1 .. Area : i # op.k => pay'[i] = pay[i]
  BY <1>t, <1>0, <1>f0, <1>f4 DEF Payloads, Records
<1>f6. /\ pay'[op.k].txn = ghost.txn
       /\ j.entries[op.k] \in Home => pay'[op.k].val = cache[j.entries[op.k]]
  BY <1>f3, <1>f5
<1>op. /\ op' = [block |-> op.block, k |-> op'.k, last |-> op.last, what |-> op.what]
       /\ op' \in LocalsType
  <2>1. op' = [block |-> op.block, k |-> op'.k, last |-> op.last, what |-> op.what]
    BY <1>t DEF Records, LocalsType, V3Write
  <2>2. /\ op.block \in (Home \cup {NoBlock}) /\ op.last \in Nat
        /\ op.what \in {"none", "commit", "abort", "replay"}
    BY <1>t, <1>0, <1>f0, <1>f1, <1>f2, <1>f3, <1>f4, <1>f5, <1>f6 DEF
       Numbers
  <2>3. op'.k \in Nat
    BY <1>t, <1>0, <1>f0, <1>f1, <1>f2, <1>f3, <1>f4, <1>f5, <1>f6 DEF Numbers
  <2>. QED  BY <2>1, <2>2, <2>3 DEF LocalsType
<1>1. TypeOK'
  BY <1>t, <1>0, <1>f0, <1>f1, <1>f2, <1>f3, <1>f4, <1>f5, <1>f6, <1>op DEF
     TypeOK, Records
<1>2. Places'
  BY <1>t, <1>0, <1>f0, <1>f1, <1>f2, <1>f3, <1>f4, <1>f5, <1>f6, <1>op DEF
     IInv, Places, Records
<1>. SUFFICES ASSUME ~ghost.stale' PROVE Inv'
  BY <1>1, <1>2 DEF IInv
<1>3. Inv /\ Places /\ ~ghost.stale
  BY <1>t, <1>0, <1>f0, <1>f1, <1>f2, <1>f3, <1>f4, <1>f5, <1>f6 DEF IInv,
     Numbers
<1>4. Current'
  BY <1>t, <1>3, <1>0, <1>f0, <1>f1, <1>f2, <1>f3, <1>f4, <1>f5, <1>f6 DEF
     Inv, Places, Values, Current
<1>5. Order'
  BY <1>t, <1>3, <1>0, <1>op DEF Inv, Places, Numbers, Order
<1>6. CommitBlock'
  <2>1. jd'.com.kind # "commit"
    BY <1>v, <1>0 DEF Inv, Fixed
  <2>. QED  BY <2>1 DEF CommitBlock
<1>7. Fixed'
  BY <1>t, <1>3, <1>0, <1>f0, <1>f1, <1>f2, <1>f3, <1>f4, <1>f5, <1>f6, <1>op
     DEF Inv, Places, Numbers, Lengths, Fixed
<1>8. Writing'
  <2>1. /\ op.what = "commit" /\ dirty = {}
        /\ \A i \in 1 .. op.k - 1 : /\ pay[i].txn = ghost.txn
                                    /\ j.entries[i] \in Home => pay[i].val = cache[j.entries[i]]
    BY <1>v, <1>0 DEF Inv, Writing
  <2>2. \A i \in 1 .. op.k : /\ pay'[i].txn = ghost.txn
                             /\ j.entries[i] \in Home => pay'[i].val = cache[j.entries[i]]
    <3>1. ASSUME NEW i \in 1 .. op.k, i # op.k PROVE i \in 1 .. op.k - 1 /\ pay'[i] = pay[i]
      BY <3>1, <1>f0, <1>f5
    <3>. QED  BY <3>1, <2>1, <1>f6
  <2>3. op'.k \in 1 .. Len(j.entries) /\ (pc' # "v3_payload" => op'.k = 1)
    BY <1>f0, <1>f1, <1>f2
  <2>4. (IF pc' = "v3_payload" THEN op'.k - 1 ELSE Len(j.entries)) = op.k
    BY <1>f0, <1>f1, <1>f2
  <2>5. \A i \in 1 .. (IF pc' = "v3_payload" THEN op'.k - 1 ELSE Len(j.entries)) :
          /\ pay'[i].txn = ghost.txn
          /\ j.entries[i] \in Home => pay'[i].val = cache[j.entries[i]]
    <3>. DEFINE n == IF pc' = "v3_payload" THEN op'.k - 1 ELSE Len(j.entries)
    <3>1. n = op.k
      BY <2>4
    <3>. HIDE DEF n
    <3>2. \A i \in 1 .. n : /\ pay'[i].txn = ghost.txn
                            /\ j.entries[i] \in Home => pay'[i].val = cache[j.entries[i]]
      BY <2>2, <3>1
    <3>. QED  BY <3>2 DEF n
  <2>6. j' = j /\ cache' = cache /\ dirty' = dirty /\ ghost' = ghost /\ op'.what = op.what
    BY <1>0, <1>op
  <2>7. pc' \notin {"v3_prepared", "v3_commit"} /\ Len(j.entries) \in 1 .. Area
    BY <1>0, <1>f0
  <2>. QED  BY <2>1, <2>3, <2>5, <2>6, <2>7 DEF Writing
<1>. QED  BY <1>0, <1>1, <1>2, Elsewhere, <1>4, <1>5, <1>6, <1>7, <1>8 DEF
       Inv

LEMMA V3DescI ==
  ASSUME IInv, V3Write, pc = "v3_desc" PROVE IInv'
<1>t. TypeOK /\ Records /\ Numbers /\ Values /\ Blocks /\ Lengths
  BY Fields DEF IInv
<1>v. version = 3 /\ Inv
  BY <1>t DEF IInv, Places, Records, V3Write
<1>0. /\ version = 3
      /\ pc = "v3_desc"
      /\ pc' = "v3_prepared"
      /\ UNCHANGED <<version, cache, dirty, disk, sbc, sbd, pay, j, op, ghost>>
  BY <1>v DEF V3Write, WriteSync, Block
<1>f0. V3Seq \in Nat /\ Sums \in Seq(Item) /\ Len(Sums) = Len(j.entries)
       /\ Len(j.entries) \in 1 .. Area
       /\ \A i \in 1 .. Len(j.entries) : Sums[i][1] = j.entries[i]
  <2>1. Len(j.entries) \in 1 .. Area
    BY <1>v, <1>0 DEF Inv, Writing
  <2>. QED  BY <1>t, <2>1, SumsTyped DEF Numbers, V3Seq
<1>f1. [kind |-> "desc", seq |-> V3Seq, entries |-> Sums] \in BlockType
  BY <1>f0, BlockTyped
<1>jc. /\ jc' = [hdr |-> jc.hdr, desc |-> [kind |-> "desc", seq |-> V3Seq, entries |-> Sums],
                 com |-> jc.com]
       /\ jc' \in AreaType
  <2>1. jc' = [hdr |-> jc.hdr, desc |-> [kind |-> "desc", seq |-> V3Seq, entries |-> Sums],
               com |-> jc.com]
    BY <1>t DEF Records, AreaType, V3Write, WriteSync, Block
  <2>2. /\ jc.hdr \in HeaderType
        /\ [kind |-> "desc", seq |-> V3Seq, entries |-> Sums] \in BlockType
        /\ jc.com \in BlockType
    BY <1>t, <1>0, <1>f0, <1>f1, Blanks DEF Blocks, Lengths, HeaderType,
       BlockType
  <2>. QED  BY <2>1, <2>2 DEF AreaType
<1>jd. /\ jd' = [hdr |-> jd.hdr, desc |-> [kind |-> "desc", seq |-> V3Seq, entries |-> Sums],
                 com |-> jd.com]
       /\ jd' \in AreaType
  <2>1. jd' = [hdr |-> jd.hdr, desc |-> [kind |-> "desc", seq |-> V3Seq, entries |-> Sums],
               com |-> jd.com]
    BY <1>t DEF Records, AreaType, V3Write, WriteSync, Block
  <2>2. /\ jd.hdr \in HeaderType
        /\ [kind |-> "desc", seq |-> V3Seq, entries |-> Sums] \in BlockType
        /\ jd.com \in BlockType
    BY <1>t, <1>0, <1>f0, <1>f1, <1>jc, Blanks DEF Blocks, Lengths,
       HeaderType, BlockType
  <2>. QED  BY <2>1, <2>2 DEF AreaType
<1>1. TypeOK'
  BY <1>t, <1>0, <1>f0, <1>f1, <1>jc, <1>jd DEF TypeOK, Records
<1>2. Places'
  BY <1>t, <1>0, <1>f0, <1>f1, <1>jc, <1>jd DEF IInv, Places, Records
<1>. SUFFICES ASSUME ~ghost.stale' PROVE Inv'
  BY <1>1, <1>2 DEF IInv
<1>3. Inv /\ Places /\ ~ghost.stale
  BY <1>t, <1>0, <1>f0, <1>f1 DEF IInv, Numbers
<1>4. Current'
  BY <1>t, <1>3, <1>0, <1>f0, <1>f1 DEF Inv, Places, Values, Current
<1>5. Order'
  BY <1>t, <1>3, <1>0 DEF Inv, Places, Numbers, Order
<1>6. CommitBlock'
  BY <1>t, <1>3, <1>0, <1>f0, <1>f1, <1>jd DEF Inv, Places, Values, Lengths,
     CommitBlock, OneTxn, Good
<1>7. Fixed'
  BY <1>t, <1>3, <1>0, <1>f0, <1>f1, <1>jc, <1>jd DEF Inv, Places, Numbers,
     Lengths, Fixed
<1>8. Writing'
  BY <1>t, <1>3, <1>0, <1>f0, <1>f1, <1>jd DEF Inv, Places, Values, Lengths,
     Writing, Sums
<1>. QED  BY <1>0, <1>1, <1>2, Elsewhere, <1>4, <1>5, <1>6, <1>7, <1>8 DEF
       Inv

LEMMA V3PreparedI ==
  ASSUME IInv, V3Write, pc = "v3_prepared" PROVE IInv'
<1>t. TypeOK /\ Records /\ Numbers /\ Values /\ Blocks /\ Lengths
  BY Fields DEF IInv
<1>v. version = 3 /\ Inv
  BY <1>t DEF IInv, Places, Records, V3Write
<1>0. /\ version = 3
      /\ pc = "v3_prepared"
      /\ pc' = "v3_commit"
      /\ UNCHANGED <<version, cache, dirty, disk, sbc, sbd, pay, j, op, ghost>>
  BY <1>v DEF V3Write, WriteSync, Control
<1>f0. [state |-> "PREPARED", n |-> Len(j.entries), homes |-> NoHomes, last |-> j.seq,
        active |-> V3Seq] \in HeaderType
  BY <1>t, ControlTyped DEF Numbers, Lengths, V3Seq
<1>jc. /\ jc' = [hdr |-> [state |-> "PREPARED", n |-> Len(j.entries), homes |-> NoHomes,
                          last |-> j.seq, active |-> V3Seq], desc |-> jc.desc, com |-> jc.com]
       /\ jc' \in AreaType
  <2>1. jc' = [hdr |-> [state |-> "PREPARED", n |-> Len(j.entries), homes |-> NoHomes,
                        last |-> j.seq, active |-> V3Seq], desc |-> jc.desc, com |-> jc.com]
    BY <1>t DEF Records, AreaType, V3Write, WriteSync, Control
  <2>2. /\ [state |-> "PREPARED", n |-> Len(j.entries), homes |-> NoHomes, last |-> j.seq,
            active |-> V3Seq] \in HeaderType
        /\ jc.desc \in BlockType /\ jc.com \in BlockType
    BY <1>t, <1>0, <1>f0, Blanks DEF Blocks, Lengths, HeaderType, BlockType
  <2>. QED  BY <2>1, <2>2 DEF AreaType
<1>jd. /\ jd' = [hdr |-> [state |-> "PREPARED", n |-> Len(j.entries), homes |-> NoHomes,
                          last |-> j.seq, active |-> V3Seq], desc |-> jd.desc, com |-> jd.com]
       /\ jd' \in AreaType
  <2>1. jd' = [hdr |-> [state |-> "PREPARED", n |-> Len(j.entries), homes |-> NoHomes,
                        last |-> j.seq, active |-> V3Seq], desc |-> jd.desc, com |-> jd.com]
    BY <1>t DEF Records, AreaType, V3Write, WriteSync, Control
  <2>2. /\ [state |-> "PREPARED", n |-> Len(j.entries), homes |-> NoHomes, last |-> j.seq,
            active |-> V3Seq] \in HeaderType
        /\ jd.desc \in BlockType /\ jd.com \in BlockType
    BY <1>t, <1>0, <1>f0, <1>jc, Blanks DEF Blocks, Lengths, HeaderType,
       BlockType
  <2>. QED  BY <2>1, <2>2 DEF AreaType
<1>1. TypeOK'
  BY <1>t, <1>0, <1>f0, <1>jc, <1>jd DEF TypeOK, Records
<1>2. Places'
  BY <1>t, <1>0, <1>f0, <1>jc, <1>jd DEF IInv, Places, Records
<1>. SUFFICES ASSUME ~ghost.stale' PROVE Inv'
  BY <1>1, <1>2 DEF IInv
<1>3. Inv /\ Places /\ ~ghost.stale
  BY <1>t, <1>0, <1>f0 DEF IInv, Numbers
<1>4. Current'
  BY <1>t, <1>3, <1>0, <1>f0 DEF Inv, Places, Values, Current
<1>5. Order'
  BY <1>t, <1>3, <1>0 DEF Inv, Places, Numbers, Order
<1>6. CommitBlock'
  BY <1>t, <1>3, <1>0, <1>f0, <1>jd DEF Inv, Places, Values, Lengths,
     CommitBlock, OneTxn, Good
<1>7. Fixed'
  BY <1>t, <1>3, <1>0, <1>f0, <1>jc, <1>jd DEF Inv, Places, Numbers, Lengths,
     Fixed
<1>8. Writing'
  BY <1>t, <1>3, <1>0, <1>f0, <1>jd DEF Inv, Places, Values, Lengths,
     Writing, Sums
<1>. QED  BY <1>0, <1>1, <1>2, Elsewhere, <1>4, <1>5, <1>6, <1>7, <1>8 DEF
       Inv

LEMMA V3CommitI ==
  ASSUME IInv, V3Write, pc = "v3_commit" PROVE IInv'
<1>t. TypeOK /\ Records /\ Numbers /\ Values /\ Blocks /\ Lengths
  BY Fields DEF IInv
<1>v. version = 3 /\ Inv
  BY <1>t DEF IInv, Places, Records, V3Write
<1>0. /\ version = 3
      /\ pc = "v3_commit"
      /\ pc' = "v3_checkpoint"
      /\ UNCHANGED <<version, cache, dirty, disk, sbc, sbd, pay, j, op>>
  BY <1>v DEF V3Write, WriteSync, Block
<1>f0. V3Seq \in Nat /\ Sums \in Seq(Item) /\ Len(Sums) = Len(j.entries)
       /\ Len(j.entries) \in 1 .. Area
       /\ \A i \in 1 .. Len(j.entries) : Sums[i][1] = j.entries[i]
  <2>1. Len(j.entries) \in 1 .. Area
    BY <1>v, <1>0 DEF Inv, Writing
  <2>. QED  BY <1>t, <2>1, SumsTyped DEF Numbers, V3Seq
<1>f1. [kind |-> "commit", seq |-> V3Seq, entries |-> Sums] \in BlockType
  BY <1>f0, BlockTyped
<1>f2. \A b \in Home : ghost'.committed[b] \in {ghost.committed[b], cache[b]}
  <2>1. ghost' = Commits
    BY DEF V3Write
  <2>. QED  BY <1>t, <2>1 DEF Commits, Records, GhostType
<1>f3. ghost'.committed \in [Home -> Nat]
  <2>1. ghost' = Commits
    BY DEF V3Write
  <2>. QED  BY <1>t, <2>1 DEF Commits, Records, GhostType, Values
<1>f4. /\ op.what = "commit" /\ dirty = {} /\ op.k = 1 /\ jd.desc.entries = Sums /\ j.active # 0
       /\ \A i \in 1 .. Len(j.entries) : /\ pay[i].txn = ghost.txn
                                         /\ j.entries[i] \in Home
                                              => pay[i].val = cache[j.entries[i]]
  BY <1>v, <1>0 DEF Inv, Writing, Fixed
<1>f5. \A b \in Home : /\ ghost'.committed[b] <= cache[b] /\ cache[b] <= ghost.writes
                       /\ ghost'.committed[b] <= disk[b] /\ disk[b] <= ghost.writes
                       /\ cache[b] = disk[b]
  <2>. SUFFICES ASSUME NEW b \in Home
                PROVE  /\ ghost'.committed[b] <= cache[b] /\ cache[b] <= ghost.writes
                       /\ ghost'.committed[b] <= disk[b] /\ disk[b] <= ghost.writes
                       /\ cache[b] = disk[b]
    OBVIOUS
  <2>1. cache[b] = disk[b] /\ ghost.committed[b] <= cache[b] /\ cache[b] <= ghost.writes
    BY <1>v, <1>0, <1>f4 DEF Inv, Current
  <2>2. cache[b] \in Nat /\ ghost'.committed[b] \in {ghost.committed[b], cache[b]}
    BY <1>t, <1>f2 DEF Values
  <2>. QED  BY <2>1, <2>2
<1>jc. /\ jc' = [hdr |-> jc.hdr, desc |-> jc.desc,
                 com |-> [kind |-> "commit", seq |-> V3Seq, entries |-> Sums]]
       /\ jc' \in AreaType
  <2>1. jc' = [hdr |-> jc.hdr, desc |-> jc.desc,
               com |-> [kind |-> "commit", seq |-> V3Seq, entries |-> Sums]]
    BY <1>t DEF Records, AreaType, V3Write, WriteSync, Block
  <2>2. /\ jc.hdr \in HeaderType /\ jc.desc \in BlockType
        /\ [kind |-> "commit", seq |-> V3Seq, entries |-> Sums] \in BlockType
    BY <1>t, <1>0, <1>f0, <1>f1, <1>f2, <1>f3, <1>f4, <1>f5, Blanks DEF
       Blocks, Lengths, HeaderType, BlockType
  <2>. QED  BY <2>1, <2>2 DEF AreaType
<1>jd. /\ jd' = [hdr |-> jd.hdr, desc |-> jd.desc,
                 com |-> [kind |-> "commit", seq |-> V3Seq, entries |-> Sums]]
       /\ jd' \in AreaType
  <2>1. jd' = [hdr |-> jd.hdr, desc |-> jd.desc,
               com |-> [kind |-> "commit", seq |-> V3Seq, entries |-> Sums]]
    BY <1>t DEF Records, AreaType, V3Write, WriteSync, Block
  <2>2. /\ jd.hdr \in HeaderType /\ jd.desc \in BlockType
        /\ [kind |-> "commit", seq |-> V3Seq, entries |-> Sums] \in BlockType
    BY <1>t, <1>0, <1>f0, <1>f1, <1>f2, <1>f3, <1>f4, <1>f5, <1>jc, Blanks
       DEF Blocks, Lengths, HeaderType, BlockType
  <2>. QED  BY <2>1, <2>2 DEF AreaType
<1>ghost. /\ ghost' = [txn |-> ghost.txn, writes |-> ghost.writes, mods |-> ghost.mods,
                       committed |-> ghost'.committed, replayed |-> ghost.replayed,
                       last |-> ghost.txn, stale |-> ghost.stale, crashes |-> ghost.crashes,
                       faults |-> ghost.faults]
          /\ ghost' \in GhostType
  <2>1. ghost' = [txn |-> ghost.txn, writes |-> ghost.writes, mods |-> ghost.mods,
                  committed |-> ghost'.committed, replayed |-> ghost.replayed,
                  last |-> ghost.txn, stale |-> ghost.stale, crashes |-> ghost.crashes,
                  faults |-> ghost.faults]
    BY <1>t DEF Records, GhostType, V3Write, Commits
  <2>2. /\ ghost.txn \in Nat /\ ghost.writes \in Nat /\ ghost.mods \in SUBSET Home
        /\ ghost.replayed \in SUBSET Nat /\ ghost.stale \in BOOLEAN
        /\ ghost.crashes \in Nat /\ ghost.faults \in Nat
    BY <1>t DEF Numbers, Values
  <2>3. ghost'.committed \in [Home -> Nat]
    BY <1>t, <1>0, <1>f0, <1>f1, <1>f2, <1>f3, <1>f4, <1>f5 DEF Numbers, Values
  <2>. QED  BY <2>1, <2>2, <2>3 DEF GhostType
<1>1. TypeOK'
  BY <1>t, <1>0, <1>f0, <1>f1, <1>f2, <1>f3, <1>f4, <1>f5, <1>jc, <1>jd,
     <1>ghost DEF TypeOK, Records
<1>2. Places'
  BY <1>t, <1>0, <1>f0, <1>f1, <1>f2, <1>f3, <1>f4, <1>f5, <1>jc, <1>jd,
     <1>ghost DEF IInv, Places, Records
<1>. SUFFICES ASSUME ~ghost.stale' PROVE Inv'
  BY <1>1, <1>2 DEF IInv
<1>3. Inv /\ Places /\ ~ghost.stale
  BY <1>t, <1>0, <1>f0, <1>f1, <1>f2, <1>f3, <1>f4, <1>f5, <1>ghost DEF IInv,
     Numbers
<1>4. Current'
  BY <1>0, <1>ghost, <1>f4, <1>f5 DEF Current
<1>5. Order'
  <2>1. ghost.replayed = {} /\ ghost.txn \in Nat
    BY <1>t, <1>3, <1>f4 DEF Inv, Order, Numbers
  <2>. QED  BY <1>0, <1>ghost, <2>1 DEF Order
<1>6. CommitBlock'
  <2>1. jd'.com.entries = Sums /\ ghost'.last = ghost.txn /\ ghost'.writes = ghost.writes
          /\ pay' = pay
    BY <1>0, <1>jd, <1>ghost
  <2>2. OneTxn(Len(jd.com.entries))'
    <3>1. ghost.txn \in Nat /\ \A i \in 1 .. Len(Sums) : pay[i].txn = ghost.txn
      BY <1>t, <1>f0, <1>f4 DEF Numbers
    <3>. QED  BY <2>1, <3>1 DEF OneTxn
  <2>3. \A i \in 1 .. Len(j.entries) : Good(jd.com.entries[i][1], i)'
    <3>1. ASSUME NEW i \in 1 .. Len(j.entries), j.entries[i] \in Home
          PROVE  /\ ghost'.committed[j.entries[i]] <= pay[i].val
                 /\ pay[i].val <= ghost.writes
      BY <3>1, <1>f4, <1>f5
    <3>2. \A i \in 1 .. Len(j.entries) : Sums[i][1] = j.entries[i]
      BY <1>f0
    <3>. QED  BY <2>1, <3>1, <3>2 DEF Good
  <2>. QED  BY <1>f0, <2>1, <2>2, <2>3 DEF CommitBlock
<1>7. Fixed'
  <2>1. /\ jd'.com.entries = Sums /\ jd'.com.kind = "commit" /\ jd'.desc.entries = Sums
        /\ jc' = jd' /\ op' = op /\ j' = j
    BY <1>v, <1>0, <1>jc, <1>jd, <1>f4 DEF Inv, Fixed
  <2>2. op.k \in 1 .. Len(Sums)
    BY <1>f0, <1>f4
  <2>. QED  BY <1>0, <1>f4, <2>1, <2>2 DEF Fixed
<1>8. Writing'
  BY <1>t, <1>3, <1>0, <1>f0, <1>f1, <1>f2, <1>f3, <1>f4, <1>f5, <1>jd,
     <1>ghost DEF Inv, Places, Values, Lengths, Writing, Sums
<1>. QED  BY <1>0, <1>1, <1>2, Elsewhere, <1>4, <1>5, <1>6, <1>7, <1>8 DEF
       Inv

LEMMA V3CheckpointI ==
  ASSUME IInv, V3Write, pc = "v3_checkpoint" PROVE IInv'
<1>t. TypeOK /\ Records /\ Numbers /\ Values /\ Blocks /\ Lengths
  BY Fields DEF IInv
<1>v. version = 3 /\ Inv
  BY <1>t DEF IInv, Places, Records, V3Write
<1>0. /\ version = 3
      /\ pc = "v3_checkpoint"
      /\ pc' = "v3_home"
      /\ UNCHANGED <<version, cache, dirty, disk, sbc, sbd, pay, j, op, ghost>>
  BY <1>v DEF V3Write, WriteSync, Control
<1>f0. [state |-> "CHECKPOINTING", n |-> Len(j.entries), homes |-> NoHomes, last |-> V3Seq,
        active |-> V3Seq] \in HeaderType
  BY <1>t, ControlTyped DEF Numbers, Lengths, V3Seq
<1>jc. /\ jc' = [hdr |-> [state |-> "CHECKPOINTING", n |-> Len(j.entries), homes |-> NoHomes,
                          last |-> V3Seq, active |-> V3Seq], desc |-> jc.desc, com |-> jc.com]
       /\ jc' \in AreaType
  <2>1. jc' = [hdr |-> [state |-> "CHECKPOINTING", n |-> Len(j.entries), homes |-> NoHomes,
                        last |-> V3Seq, active |-> V3Seq], desc |-> jc.desc, com |-> jc.com]
    BY <1>t DEF Records, AreaType, V3Write, WriteSync, Control
  <2>2. /\ [state |-> "CHECKPOINTING", n |-> Len(j.entries), homes |-> NoHomes, last |-> V3Seq,
            active |-> V3Seq] \in HeaderType
        /\ jc.desc \in BlockType /\ jc.com \in BlockType
    BY <1>t, <1>0, <1>f0, Blanks DEF Blocks, Lengths, HeaderType, BlockType
  <2>. QED  BY <2>1, <2>2 DEF AreaType
<1>jd. /\ jd' = [hdr |-> [state |-> "CHECKPOINTING", n |-> Len(j.entries), homes |-> NoHomes,
                          last |-> V3Seq, active |-> V3Seq], desc |-> jd.desc, com |-> jd.com]
       /\ jd' \in AreaType
  <2>1. jd' = [hdr |-> [state |-> "CHECKPOINTING", n |-> Len(j.entries), homes |-> NoHomes,
                        last |-> V3Seq, active |-> V3Seq], desc |-> jd.desc, com |-> jd.com]
    BY <1>t DEF Records, AreaType, V3Write, WriteSync, Control
  <2>2. /\ [state |-> "CHECKPOINTING", n |-> Len(j.entries), homes |-> NoHomes, last |-> V3Seq,
            active |-> V3Seq] \in HeaderType
        /\ jd.desc \in BlockType /\ jd.com \in BlockType
    BY <1>t, <1>0, <1>f0, <1>jc, Blanks DEF Blocks, Lengths, HeaderType,
       BlockType
  <2>. QED  BY <2>1, <2>2 DEF AreaType
<1>1. TypeOK'
  BY <1>t, <1>0, <1>f0, <1>jc, <1>jd DEF TypeOK, Records
<1>2. Places'
  BY <1>t, <1>0, <1>f0, <1>jc, <1>jd DEF IInv, Places, Records
<1>. SUFFICES ASSUME ~ghost.stale' PROVE Inv'
  BY <1>1, <1>2 DEF IInv
<1>3. Inv /\ Places /\ ~ghost.stale
  BY <1>t, <1>0, <1>f0 DEF IInv, Numbers
<1>4. Current'
  BY <1>t, <1>3, <1>0, <1>f0 DEF Inv, Places, Values, Current
<1>5. Order'
  BY <1>t, <1>3, <1>0 DEF Inv, Places, Numbers, Order
<1>6. CommitBlock'
  BY <1>t, <1>3, <1>0, <1>f0, <1>jd DEF Inv, Places, Values, Lengths,
     CommitBlock, OneTxn, Good
<1>7. Fixed'
  BY <1>t, <1>3, <1>0, <1>f0, <1>jc, <1>jd DEF Inv, Places, Numbers, Lengths,
     Fixed
<1>8. Writing'
  BY <1>t, <1>3, <1>0, <1>f0, <1>jd DEF Inv, Places, Values, Lengths,
     Writing, Sums
<1>. QED  BY <1>0, <1>1, <1>2, Elsewhere, <1>4, <1>5, <1>6, <1>7, <1>8 DEF
       Inv

LEMMA V3HomeSuperI ==
  ASSUME IInv, V3Home, jc.desc.entries[op.k][1] = SB PROVE IInv'
<1>t. TypeOK /\ Records /\ Numbers /\ Values /\ Blocks /\ Lengths
  BY Fields DEF IInv
<1>v. version = 3 /\ Inv
  BY <1>t DEF IInv, Places, Records, V3Home
<1>0. /\ version = 3
      /\ pc = "v3_home"
      /\ pc' \in {"v3_home", "v3_super"}
      /\ UNCHANGED <<version, cache, dirty, disk, jc, jd, pay, j, ghost>>
  BY <1>v DEF V3Home, Restore
<1>f0. /\ jd.com.kind = "commit" /\ jc = jd /\ jc.desc.entries = jd.com.entries
       /\ op.k \in 1 .. Len(jd.com.entries) /\ op.k \in 1 .. Area
       /\ Good(jc.desc.entries[op.k][1], op.k)
  <2>1. /\ jd.com.kind = "commit" /\ jc = jd /\ jd.desc.entries = jd.com.entries
        /\ op.k \in 1 .. Len(jd.com.entries)
    BY <1>v, <1>0 DEF Inv, Fixed
  <2>2. /\ Len(jd.com.entries) \in 1 .. Area
        /\ \A i \in 1 .. Len(jd.com.entries) : Good(jd.com.entries[i][1], i)
    BY <1>v, <2>1 DEF Inv, CommitBlock
  <2>. QED  BY <2>1, <2>2, FixedAssumption
<1>f1. pay[op.k].val \in Nat /\ V3Seq \in Nat
  BY <1>t, <1>f0 DEF Values, Numbers, V3Seq
<1>f2. pc' = IF op.k = Len(jd.com.entries) THEN "v3_super" ELSE "v3_home"
  BY <1>f0 DEF V3Home
<1>op. /\ op' = [block |-> op.block, k |-> op.k + 1, last |-> V3Seq, what |-> op.what]
       /\ op' \in LocalsType
  <2>1. op' = [block |-> op.block, k |-> op.k + 1, last |-> V3Seq, what |-> op.what]
    BY <1>t DEF Records, LocalsType, V3Home, Restore
  <2>2. /\ op.block \in (Home \cup {NoBlock}) /\ op.k + 1 \in Nat /\ V3Seq \in Nat
        /\ op.what \in {"none", "commit", "abort", "replay"}
    BY <1>t, <1>0, <1>f0, <1>f1, <1>f2 DEF Numbers
  <2>. QED  BY <2>1, <2>2 DEF LocalsType
<1>sbc. /\ sbc' = [rec |-> TRUE, seq |-> pay[op.k].val]
        /\ sbc' \in SuperType
  <2>1. sbc' = [rec |-> TRUE, seq |-> pay[op.k].val]
    BY <1>t DEF Records, SuperType, V3Home, Restore
  <2>2. pay[op.k].val \in Nat
    BY <1>t, <1>0, <1>f0, <1>f1, <1>f2, <1>op DEF Numbers
  <2>. QED  BY <2>1, <2>2 DEF SuperType
<1>sbd. /\ sbd' = [rec |-> TRUE, seq |-> pay[op.k].val]
        /\ sbd' \in SuperType
  <2>1. sbd' = [rec |-> TRUE, seq |-> pay[op.k].val]
    BY <1>t DEF Records, SuperType, V3Home, Restore
  <2>2. pay[op.k].val \in Nat
    BY <1>t, <1>0, <1>f0, <1>f1, <1>f2, <1>op, <1>sbc DEF Numbers
  <2>. QED  BY <2>1, <2>2 DEF SuperType
<1>1. TypeOK'
  BY <1>t, <1>0, <1>f0, <1>f1, <1>f2, <1>op, <1>sbc, <1>sbd DEF TypeOK,
     Records
<1>2. Places'
  BY <1>t, <1>0, <1>f0, <1>f1, <1>f2, <1>op DEF IInv, Places, Records
<1>. SUFFICES ASSUME ~ghost.stale' PROVE Inv'
  BY <1>1, <1>2 DEF IInv
<1>3. Inv /\ Places /\ ~ghost.stale
  BY <1>t, <1>0, <1>f0, <1>f1, <1>f2 DEF IInv, Numbers
<1>4. Current'
  BY <1>t, <1>3, <1>0, <1>f0, <1>f1, <1>f2 DEF Inv, Places, Values, Current
<1>5. Order'
  BY <1>t, <1>3, <1>0, <1>op DEF Inv, Places, Numbers, Order
<1>6. CommitBlock'
  BY <1>t, <1>3, <1>0, <1>f0, <1>f1, <1>f2 DEF Inv, Places, Values, Lengths,
     CommitBlock, OneTxn, Good
<1>7. Fixed'
  <2>1. jc' = jd' /\ jd' = jd /\ j' = j /\ op'.k = op.k + 1 /\ op'.what = op.what
    BY <1>0, <1>f0, <1>op
  <2>2. pc' = "v3_home" => op.k + 1 \in 1 .. Len(jd.com.entries)
    BY <1>f0, <1>f2
  <2>3. /\ pc' \in {"v3_home", "v3_super"}
        /\ op.what = "commit" => j.active # 0
    BY <1>v, <1>0 DEF Inv, Fixed
  <2>. QED  BY <1>0, <1>f0, <2>1, <2>2, <2>3 DEF Fixed
<1>8. Writing'
  BY <1>t, <1>3, <1>0, <1>f0, <1>f1, <1>f2, <1>op DEF Inv, Places, Values,
     Lengths, Writing, Sums
<1>. QED  BY <1>0, <1>1, <1>2, Elsewhere, <1>4, <1>5, <1>6, <1>7, <1>8 DEF
       Inv

LEMMA V3HomeBlockI ==
  ASSUME IInv, V3Home, jc.desc.entries[op.k][1] # SB PROVE IInv'
<1>t. TypeOK /\ Records /\ Numbers /\ Values /\ Blocks /\ Lengths
  BY Fields DEF IInv
<1>v. version = 3 /\ Inv
  BY <1>t DEF IInv, Places, Records, V3Home
<1>0. /\ version = 3
      /\ pc = "v3_home"
      /\ pc' \in {"v3_home", "v3_super"}
      /\ cache' = [cache EXCEPT ![jc.desc.entries[op.k][1]] = pay[op.k].val]
      /\ disk' = [disk EXCEPT ![jc.desc.entries[op.k][1]] = pay[op.k].val]
      /\ dirty' = dirty \ {jc.desc.entries[op.k][1]}
      /\ UNCHANGED <<version, sbc, sbd, jc, jd, pay, j, ghost>>
  BY <1>v DEF V3Home, Restore
<1>f0. /\ jd.com.kind = "commit" /\ jc = jd /\ jc.desc.entries = jd.com.entries
       /\ op.k \in 1 .. Len(jd.com.entries) /\ op.k \in 1 .. Area
       /\ Good(jc.desc.entries[op.k][1], op.k)
  <2>1. /\ jd.com.kind = "commit" /\ jc = jd /\ jd.desc.entries = jd.com.entries
        /\ op.k \in 1 .. Len(jd.com.entries)
    BY <1>v, <1>0 DEF Inv, Fixed
  <2>2. /\ Len(jd.com.entries) \in 1 .. Area
        /\ \A i \in 1 .. Len(jd.com.entries) : Good(jd.com.entries[i][1], i)
    BY <1>v, <2>1 DEF Inv, CommitBlock
  <2>. QED  BY <2>1, <2>2, FixedAssumption
<1>f1. pay[op.k].val \in Nat /\ V3Seq \in Nat
  BY <1>t, <1>f0 DEF Values, Numbers, V3Seq
<1>f2. pc' = IF op.k = Len(jd.com.entries) THEN "v3_super" ELSE "v3_home"
  BY <1>f0 DEF V3Home
<1>f3. cache' \in [Home -> Nat] /\ disk' \in [Home -> Nat] /\ dirty' \in SUBSET Home
  <2>. DEFINE x == jc.desc.entries[op.k][1]
  <2>. HIDE DEF x
  <2>1. /\ cache' = [cache EXCEPT ![x] = pay[op.k].val]
        /\ disk' = [disk EXCEPT ![x] = pay[op.k].val] /\ dirty' = dirty \ {x}
    BY <1>0 DEF x
  <2>. QED  BY <1>t, <1>f1, <2>1 DEF Values, Records
<1>op. /\ op' = [block |-> op.block, k |-> op.k + 1, last |-> V3Seq, what |-> op.what]
       /\ op' \in LocalsType
  <2>1. op' = [block |-> op.block, k |-> op.k + 1, last |-> V3Seq, what |-> op.what]
    BY <1>t DEF Records, LocalsType, V3Home, Restore
  <2>2. /\ op.block \in (Home \cup {NoBlock}) /\ op.k + 1 \in Nat /\ V3Seq \in Nat
        /\ op.what \in {"none", "commit", "abort", "replay"}
    BY <1>t, <1>0, <1>f0, <1>f1, <1>f2, <1>f3 DEF Numbers
  <2>. QED  BY <2>1, <2>2 DEF LocalsType
<1>1. TypeOK'
  BY <1>t, <1>0, <1>f0, <1>f1, <1>f2, <1>f3, <1>op DEF TypeOK, Records
<1>2. Places'
  BY <1>t, <1>0, <1>f0, <1>f1, <1>f2, <1>f3, <1>op DEF IInv, Places, Records
<1>. SUFFICES ASSUME ~ghost.stale' PROVE Inv'
  BY <1>1, <1>2 DEF IInv
<1>3. Inv /\ Places /\ ~ghost.stale
  BY <1>t, <1>0, <1>f0, <1>f1, <1>f2, <1>f3 DEF IInv, Numbers
<1>4. Current'
  <2>. DEFINE x == jc.desc.entries[op.k][1]
  <2>1. x \in Home => ghost.committed[x] <= pay[op.k].val /\ pay[op.k].val <= ghost.writes
    BY <1>f0 DEF Good
  <2>. HIDE DEF x
  <2>2. /\ cache' = [cache EXCEPT ![x] = pay[op.k].val]
        /\ disk' = [disk EXCEPT ![x] = pay[op.k].val] /\ dirty' = dirty \ {x}
        /\ ghost' = ghost
    BY <1>0 DEF x
  <2>. QED  BY <1>t, <1>3, <1>0, <2>1, <2>2 DEF Inv, Current, Values
<1>5. Order'
  BY <1>t, <1>3, <1>0, <1>op DEF Inv, Places, Numbers, Order
<1>6. CommitBlock'
  BY <1>t, <1>3, <1>0, <1>f0, <1>f1, <1>f2, <1>f3 DEF Inv, Places, Values,
     Lengths, CommitBlock, OneTxn, Good
<1>7. Fixed'
  <2>1. jc' = jd' /\ jd' = jd /\ j' = j /\ op'.k = op.k + 1 /\ op'.what = op.what
    BY <1>0, <1>f0, <1>op
  <2>2. pc' = "v3_home" => op.k + 1 \in 1 .. Len(jd.com.entries)
    BY <1>f0, <1>f2
  <2>3. /\ pc' \in {"v3_home", "v3_super"}
        /\ op.what = "commit" => j.active # 0
    BY <1>v, <1>0 DEF Inv, Fixed
  <2>. QED  BY <1>0, <1>f0, <2>1, <2>2, <2>3 DEF Fixed
<1>8. Writing'
  BY <1>t, <1>3, <1>0, <1>f0, <1>f1, <1>f2, <1>f3, <1>op DEF Inv, Places,
     Values, Lengths, Writing, Sums
<1>. QED  BY <1>0, <1>1, <1>2, Elsewhere, <1>4, <1>5, <1>6, <1>7, <1>8 DEF
       Inv

LEMMA V3SuperI ==
  ASSUME IInv, V3Super PROVE IInv'
<1>t. TypeOK /\ Records /\ Numbers /\ Values /\ Blocks /\ Lengths
  BY Fields DEF IInv
<1>v. version = 3 /\ Inv
  BY <1>t DEF IInv, Places, Records, V3Super
<1>0. /\ version = 3
      /\ pc = "v3_super"
      /\ pc' = "v3_empty_desc"
      /\ UNCHANGED <<version, cache, dirty, disk, jc, jd, pay, j, op, ghost>>
  BY <1>v DEF V3Super
<1>sbc. /\ sbc' = [rec |-> FALSE, seq |-> op.last]
        /\ sbc' \in SuperType
  <2>1. sbc' = [rec |-> FALSE, seq |-> op.last]
    BY <1>t DEF Records, SuperType, V3Super
  <2>2. op.last \in Nat
    BY <1>t, <1>0 DEF Numbers
  <2>. QED  BY <2>1, <2>2 DEF SuperType
<1>sbd. /\ sbd' = [rec |-> FALSE, seq |-> op.last]
        /\ sbd' \in SuperType
  <2>1. sbd' = [rec |-> FALSE, seq |-> op.last]
    BY <1>t DEF Records, SuperType, V3Super
  <2>2. op.last \in Nat
    BY <1>t, <1>0, <1>sbc DEF Numbers
  <2>. QED  BY <2>1, <2>2 DEF SuperType
<1>1. TypeOK'
  BY <1>t, <1>0, <1>sbc, <1>sbd DEF TypeOK, Records
<1>2. Places'
  BY <1>t, <1>0 DEF IInv, Places, Records
<1>. SUFFICES ASSUME ~ghost.stale' PROVE Inv'
  BY <1>1, <1>2 DEF IInv
<1>3. Inv /\ Places /\ ~ghost.stale
  BY <1>t, <1>0 DEF IInv, Numbers
<1>4. Current'
  BY <1>t, <1>3, <1>0 DEF Inv, Places, Values, Current
<1>5. Order'
  BY <1>t, <1>3, <1>0 DEF Inv, Places, Numbers, Order
<1>6. CommitBlock'
  BY <1>t, <1>3, <1>0 DEF Inv, Places, Values, Lengths, CommitBlock, OneTxn,
     Good
<1>7. Fixed'
  BY <1>t, <1>3, <1>0 DEF Inv, Places, Numbers, Lengths, Fixed
<1>8. Writing'
  BY <1>t, <1>3, <1>0 DEF Inv, Places, Values, Lengths, Writing, Sums
<1>. QED  BY <1>0, <1>1, <1>2, Elsewhere, <1>4, <1>5, <1>6, <1>7, <1>8 DEF
       Inv

LEMMA V3EmptyDescI ==
  ASSUME IInv, V3Empty, pc = "v3_empty_desc" PROVE IInv'
<1>t. TypeOK /\ Records /\ Numbers /\ Values /\ Blocks /\ Lengths
  BY Fields DEF IInv
<1>v. version = 3 /\ Inv
  BY <1>t DEF IInv, Places, Records, V3Empty
<1>0. /\ version = 3
      /\ pc = "v3_empty_desc"
      /\ pc' = "v3_empty_commit"
      /\ UNCHANGED <<version, cache, dirty, disk, sbc, sbd, pay, j, op, ghost>>
  BY <1>v DEF V3Empty, WriteSync, Block
<1>f0. [kind |-> "desc", seq |-> op.last, entries |-> <<>>] \in BlockType
  BY <1>t, Blanks, BlockTyped DEF Numbers
<1>jc. /\ jc' = [hdr |-> jc.hdr, desc |-> [kind |-> "desc", seq |-> op.last, entries |-> <<>>],
                 com |-> jc.com]
       /\ jc' \in AreaType
  <2>1. jc' = [hdr |-> jc.hdr, desc |-> [kind |-> "desc", seq |-> op.last, entries |-> <<>>],
               com |-> jc.com]
    BY <1>t DEF Records, AreaType, V3Empty, WriteSync, Block
  <2>2. /\ jc.hdr \in HeaderType
        /\ [kind |-> "desc", seq |-> op.last, entries |-> <<>>] \in BlockType
        /\ jc.com \in BlockType
    BY <1>t, <1>0, <1>f0, Blanks DEF Blocks, Lengths, HeaderType, BlockType
  <2>. QED  BY <2>1, <2>2 DEF AreaType
<1>jd. /\ jd' = [hdr |-> jd.hdr, desc |-> [kind |-> "desc", seq |-> op.last, entries |-> <<>>],
                 com |-> jd.com]
       /\ jd' \in AreaType
  <2>1. jd' = [hdr |-> jd.hdr, desc |-> [kind |-> "desc", seq |-> op.last, entries |-> <<>>],
               com |-> jd.com]
    BY <1>t DEF Records, AreaType, V3Empty, WriteSync, Block
  <2>2. /\ jd.hdr \in HeaderType
        /\ [kind |-> "desc", seq |-> op.last, entries |-> <<>>] \in BlockType
        /\ jd.com \in BlockType
    BY <1>t, <1>0, <1>f0, <1>jc, Blanks DEF Blocks, Lengths, HeaderType,
       BlockType
  <2>. QED  BY <2>1, <2>2 DEF AreaType
<1>1. TypeOK'
  BY <1>t, <1>0, <1>f0, <1>jc, <1>jd DEF TypeOK, Records
<1>2. Places'
  BY <1>t, <1>0, <1>f0, <1>jc, <1>jd DEF IInv, Places, Records
<1>. SUFFICES ASSUME ~ghost.stale' PROVE Inv'
  BY <1>1, <1>2 DEF IInv
<1>3. Inv /\ Places /\ ~ghost.stale
  BY <1>t, <1>0, <1>f0 DEF IInv, Numbers
<1>4. Current'
  BY <1>t, <1>3, <1>0, <1>f0 DEF Inv, Places, Values, Current
<1>5. Order'
  BY <1>t, <1>3, <1>0 DEF Inv, Places, Numbers, Order
<1>6. CommitBlock'
  BY <1>t, <1>3, <1>0, <1>f0, <1>jd DEF Inv, Places, Values, Lengths,
     CommitBlock, OneTxn, Good
<1>7. Fixed'
  BY <1>t, <1>3, <1>0, <1>f0, <1>jc, <1>jd DEF Inv, Places, Numbers, Lengths,
     Fixed
<1>8. Writing'
  BY <1>t, <1>3, <1>0, <1>f0, <1>jd DEF Inv, Places, Values, Lengths,
     Writing, Sums
<1>. QED  BY <1>0, <1>1, <1>2, Elsewhere, <1>4, <1>5, <1>6, <1>7, <1>8 DEF
       Inv

LEMMA V3EmptyCommitI ==
  ASSUME IInv, V3Empty, pc = "v3_empty_commit" PROVE IInv'
<1>t. TypeOK /\ Records /\ Numbers /\ Values /\ Blocks /\ Lengths
  BY Fields DEF IInv
<1>v. version = 3 /\ Inv
  BY <1>t DEF IInv, Places, Records, V3Empty
<1>0. /\ version = 3
      /\ pc = "v3_empty_commit"
      /\ pc' = "v3_idle"
      /\ UNCHANGED <<version, cache, dirty, disk, sbc, sbd, pay, j, op, ghost>>
  BY <1>v DEF V3Empty, WriteSync, Block
<1>f0. [kind |-> "empty", seq |-> op.last, entries |-> <<>>] \in BlockType
  BY <1>t, Blanks, BlockTyped DEF Numbers
<1>jc. /\ jc' = [hdr |-> jc.hdr, desc |-> jc.desc,
                 com |-> [kind |-> "empty", seq |-> op.last, entries |-> <<>>]]
       /\ jc' \in AreaType
  <2>1. jc' = [hdr |-> jc.hdr, desc |-> jc.desc,
               com |-> [kind |-> "empty", seq |-> op.last, entries |-> <<>>]]
    BY <1>t DEF Records, AreaType, V3Empty, WriteSync, Block
  <2>2. /\ jc.hdr \in HeaderType /\ jc.desc \in BlockType
        /\ [kind |-> "empty", seq |-> op.last, entries |-> <<>>] \in BlockType
    BY <1>t, <1>0, <1>f0, Blanks DEF Blocks, Lengths, HeaderType, BlockType
  <2>. QED  BY <2>1, <2>2 DEF AreaType
<1>jd. /\ jd' = [hdr |-> jd.hdr, desc |-> jd.desc,
                 com |-> [kind |-> "empty", seq |-> op.last, entries |-> <<>>]]
       /\ jd' \in AreaType
  <2>1. jd' = [hdr |-> jd.hdr, desc |-> jd.desc,
               com |-> [kind |-> "empty", seq |-> op.last, entries |-> <<>>]]
    BY <1>t DEF Records, AreaType, V3Empty, WriteSync, Block
  <2>2. /\ jd.hdr \in HeaderType /\ jd.desc \in BlockType
        /\ [kind |-> "empty", seq |-> op.last, entries |-> <<>>] \in BlockType
    BY <1>t, <1>0, <1>f0, <1>jc, Blanks DEF Blocks, Lengths, HeaderType,
       BlockType
  <2>. QED  BY <2>1, <2>2 DEF AreaType
<1>1. TypeOK'
  BY <1>t, <1>0, <1>f0, <1>jc, <1>jd DEF TypeOK, Records
<1>2. Places'
  BY <1>t, <1>0, <1>f0, <1>jc, <1>jd DEF IInv, Places, Records
<1>. SUFFICES ASSUME ~ghost.stale' PROVE Inv'
  BY <1>1, <1>2 DEF IInv
<1>3. Inv /\ Places /\ ~ghost.stale
  BY <1>t, <1>0, <1>f0 DEF IInv, Numbers
<1>4. Current'
  BY <1>t, <1>3, <1>0, <1>f0 DEF Inv, Places, Values, Current
<1>5. Order'
  BY <1>t, <1>3, <1>0 DEF Inv, Places, Numbers, Order
<1>6. CommitBlock'
  BY <1>t, <1>3, <1>0, <1>f0, <1>jd DEF Inv, Places, Values, Lengths,
     CommitBlock, OneTxn, Good
<1>7. Fixed'
  BY <1>t, <1>3, <1>0, <1>f0, <1>jc, <1>jd DEF Inv, Places, Numbers, Lengths,
     Fixed
<1>8. Writing'
  BY <1>t, <1>3, <1>0, <1>f0, <1>jd DEF Inv, Places, Values, Lengths,
     Writing, Sums
<1>. QED  BY <1>0, <1>1, <1>2, Elsewhere, <1>4, <1>5, <1>6, <1>7, <1>8 DEF
       Inv

LEMMA V3IdleI ==
  ASSUME IInv, V3Empty, pc = "v3_idle" PROVE IInv'
<1>t. TypeOK /\ Records /\ Numbers /\ Values /\ Blocks /\ Lengths
  BY Fields DEF IInv
<1>v. version = 3 /\ Inv
  BY <1>t DEF IInv, Places, Records, V3Empty
<1>0. /\ version = 3
      /\ pc = "v3_idle"
      /\ pc' = "free"
      /\ UNCHANGED <<version, cache, dirty, disk, sbc, sbd, pay, op, ghost>>
  BY <1>v DEF V3Empty, WriteSync, Control, Runtime
<1>f0. (IF op.what = "commit" THEN Len(j.entries) ELSE Area) \in Nat
  BY <1>t, FixedAssumption DEF Lengths
<1>f1. [state |-> "IDLE", n |-> (IF op.what = "commit" THEN Len(j.entries) ELSE Area),
        homes |-> NoHomes, last |-> op.last, active |-> 0] \in HeaderType
  BY <1>t, <1>f0, ControlTyped DEF Numbers
<1>jc. /\ jc' = [hdr |-> [state |-> "IDLE",
                          n |-> (IF op.what = "commit" THEN Len(j.entries) ELSE Area),
                          homes |-> NoHomes, last |-> op.last, active |-> 0], desc |-> jc.desc,
                          com |-> jc.com]
       /\ jc' \in AreaType
  <2>1. jc' = [hdr |-> [state |-> "IDLE",
                        n |-> (IF op.what = "commit" THEN Len(j.entries) ELSE Area),
                        homes |-> NoHomes, last |-> op.last, active |-> 0], desc |-> jc.desc,
                        com |-> jc.com]
    BY <1>t DEF Records, AreaType, V3Empty, WriteSync, Control, Runtime
  <2>2. /\ [state |-> "IDLE", n |-> (IF op.what = "commit" THEN Len(j.entries) ELSE Area),
            homes |-> NoHomes, last |-> op.last, active |-> 0] \in HeaderType
        /\ jc.desc \in BlockType /\ jc.com \in BlockType
    BY <1>t, <1>0, <1>f0, <1>f1, Blanks DEF Blocks, Lengths, HeaderType,
       BlockType
  <2>. QED  BY <2>1, <2>2 DEF AreaType
<1>jd. /\ jd' = [hdr |-> [state |-> "IDLE",
                          n |-> (IF op.what = "commit" THEN Len(j.entries) ELSE Area),
                          homes |-> NoHomes, last |-> op.last, active |-> 0], desc |-> jd.desc,
                          com |-> jd.com]
       /\ jd' \in AreaType
  <2>1. jd' = [hdr |-> [state |-> "IDLE",
                        n |-> (IF op.what = "commit" THEN Len(j.entries) ELSE Area),
                        homes |-> NoHomes, last |-> op.last, active |-> 0], desc |-> jd.desc,
                        com |-> jd.com]
    BY <1>t DEF Records, AreaType, V3Empty, WriteSync, Control, Runtime
  <2>2. /\ [state |-> "IDLE", n |-> (IF op.what = "commit" THEN Len(j.entries) ELSE Area),
            homes |-> NoHomes, last |-> op.last, active |-> 0] \in HeaderType
        /\ jd.desc \in BlockType /\ jd.com \in BlockType
    BY <1>t, <1>0, <1>f0, <1>f1, <1>jc, Blanks DEF Blocks, Lengths,
       HeaderType, BlockType
  <2>. QED  BY <2>1, <2>2 DEF AreaType
<1>j. /\ j' = [seq |-> op.last, active |-> 0, entries |-> <<>>, err |-> FALSE]
      /\ j' \in RuntimeType
  <2>1. j' = [seq |-> op.last, active |-> 0, entries |-> <<>>, err |-> FALSE]
    BY <1>t DEF Records, RuntimeType, V3Empty, WriteSync, Control, Runtime
  <2>2. op.last \in Nat
    BY <1>t, <1>0, <1>f0, <1>f1, <1>jc, <1>jd DEF Numbers
  <2>3. <<>> \in Seq(Target)
    BY Blanks
  <2>. QED  BY <2>1, <2>2, <2>3 DEF RuntimeType
<1>1. TypeOK'
  BY <1>t, <1>0, <1>f0, <1>f1, <1>jc, <1>jd, <1>j DEF TypeOK, Records
<1>2. Places'
  BY <1>t, <1>0, <1>f0, <1>f1, <1>jc, <1>jd, <1>j DEF IInv, Places, Records
<1>. SUFFICES ASSUME ~ghost.stale' PROVE Inv'
  BY <1>1, <1>2 DEF IInv
<1>3. Inv /\ Places /\ ~ghost.stale
  BY <1>t, <1>0, <1>f0, <1>f1 DEF IInv, Numbers
<1>4. Current'
  BY <1>t, <1>3, <1>0, <1>f0, <1>f1 DEF Inv, Places, Values, Current
<1>5. Order'
  BY <1>t, <1>3, <1>0 DEF Inv, Places, Numbers, Order
<1>6. CommitBlock'
  BY <1>t, <1>3, <1>0, <1>f0, <1>f1, <1>jd DEF Inv, Places, Values, Lengths,
     CommitBlock, OneTxn, Good
<1>7. Fixed'
  BY <1>t, <1>3, <1>0, <1>f0, <1>f1, <1>jc, <1>jd, <1>j DEF Inv, Places,
     Numbers, Lengths, Fixed
<1>8. Writing'
  BY <1>t, <1>3, <1>0, <1>f0, <1>f1, <1>jd, <1>j DEF Inv, Places, Values,
     Lengths, Writing, Sums
<1>. QED  BY <1>0, <1>1, <1>2, Elsewhere, <1>4, <1>5, <1>6, <1>7, <1>8 DEF
       Inv

LEMMA V3FailsEarlyI ==
  ASSUME IInv, V3Fails, pc \in {"v3_payload", "v3_desc", "v3_prepared"} PROVE IInv'
<1>t. TypeOK /\ Records /\ Numbers /\ Values /\ Blocks /\ Lengths
  BY Fields DEF IInv
<1>v. version = 3 /\ Inv
  BY <1>t DEF IInv, Places, Records, V3Fails
<1>0. /\ version = 3
      /\ pc \in {"v3_payload", "v3_desc", "v3_prepared"}
      /\ pc' = "free"
      /\ UNCHANGED <<version, cache, dirty, disk, sbd, jc, jd, pay, op>>
  BY <1>v DEF V3Fails, Runtime
<1>j. /\ j' = [seq |-> j.seq, active |-> 0, entries |-> <<>>, err |-> FALSE]
      /\ j' \in RuntimeType
  <2>1. j' = [seq |-> j.seq, active |-> 0, entries |-> <<>>, err |-> FALSE]
    BY <1>t DEF Records, RuntimeType, V3Fails, Runtime
  <2>2. j.seq \in Nat
    BY <1>t, <1>0 DEF Numbers
  <2>3. <<>> \in Seq(Target)
    BY Blanks
  <2>. QED  BY <2>1, <2>2, <2>3 DEF RuntimeType
<1>sbc. /\ sbc' = [rec |-> FALSE, seq |-> j.seq]
        /\ sbc' \in SuperType
  <2>1. sbc' = [rec |-> FALSE, seq |-> j.seq]
    BY <1>t DEF Records, SuperType, V3Fails, Runtime
  <2>2. j.seq \in Nat
    BY <1>t, <1>0, <1>j DEF Numbers
  <2>. QED  BY <2>1, <2>2 DEF SuperType
<1>ghost. /\ ghost' = [txn |-> ghost.txn, writes |-> ghost.writes, mods |-> ghost.mods,
                       committed |-> ghost.committed, replayed |-> ghost.replayed,
                       last |-> ghost.last, stale |-> ghost.stale, crashes |-> ghost.crashes,
                       faults |-> ghost.faults + 1]
          /\ ghost' \in GhostType
  <2>1. ghost' = [txn |-> ghost.txn, writes |-> ghost.writes, mods |-> ghost.mods,
                  committed |-> ghost.committed, replayed |-> ghost.replayed,
                  last |-> ghost.last, stale |-> ghost.stale, crashes |-> ghost.crashes,
                  faults |-> ghost.faults + 1]
    BY <1>t DEF Records, GhostType, V3Fails, Runtime
  <2>2. /\ ghost.txn \in Nat /\ ghost.writes \in Nat /\ ghost.mods \in SUBSET Home
        /\ ghost.committed \in [Home -> Nat] /\ ghost.replayed \in SUBSET Nat
        /\ ghost.last \in Nat /\ ghost.stale \in BOOLEAN /\ ghost.crashes \in Nat
        /\ ghost.faults + 1 \in Nat
    BY <1>t DEF Numbers, Values
  <2>. QED  BY <2>1, <2>2 DEF GhostType
<1>1. TypeOK'
  BY <1>t, <1>0, <1>j, <1>sbc, <1>ghost DEF TypeOK, Records
<1>2. Places'
  BY <1>t, <1>0, <1>j, <1>ghost DEF IInv, Places, Records
<1>. SUFFICES ASSUME ~ghost.stale' PROVE Inv'
  BY <1>1, <1>2 DEF IInv
<1>3. Inv /\ Places /\ ~ghost.stale
  BY <1>t, <1>0, <1>ghost DEF IInv, Numbers
<1>4. Current'
  BY <1>t, <1>3, <1>0, <1>ghost DEF Inv, Places, Values, Current
<1>5. Order'
  BY <1>t, <1>3, <1>0, <1>ghost DEF Inv, Places, Numbers, Order
<1>6. CommitBlock'
  BY <1>t, <1>3, <1>0, <1>ghost DEF Inv, Places, Values, Lengths,
     CommitBlock, OneTxn, Good
<1>7. Fixed'
  BY <1>t, <1>3, <1>0, <1>j DEF Inv, Places, Numbers, Lengths, Fixed
<1>8. Writing'
  BY <1>t, <1>3, <1>0, <1>j, <1>ghost DEF Inv, Places, Values, Lengths,
     Writing, Sums
<1>. QED  BY <1>0, <1>1, <1>2, Elsewhere, <1>4, <1>5, <1>6, <1>7, <1>8 DEF
       Inv

LEMMA V3FailsLateI ==
  ASSUME IInv, V3Fails, pc \notin {"v3_payload", "v3_desc", "v3_prepared"} PROVE IInv'
<1>t. TypeOK /\ Records /\ Numbers /\ Values /\ Blocks /\ Lengths
  BY Fields DEF IInv
<1>v. version = 3 /\ Inv
  BY <1>t DEF IInv, Places, Records, V3Fails
<1>0. /\ version = 3
      /\ pc \in HomePC \cup {"v3_commit", "v3_checkpoint"}
      /\ pc' = "free"
      /\ op.what = "commit"
      /\ UNCHANGED <<version, cache, dirty, disk, sbc, sbd, jc, jd, pay, op>>
  BY <1>v DEF V3Fails
<1>j. /\ j' = [seq |-> j.seq, active |-> j.active, entries |-> j.entries, err |-> TRUE]
      /\ j' \in RuntimeType
  <2>1. j' = [seq |-> j.seq, active |-> j.active, entries |-> j.entries, err |-> TRUE]
    BY <1>t DEF Records, RuntimeType, V3Fails
  <2>2. j.seq \in Nat /\ j.active \in Nat
    BY <1>t, <1>0 DEF Numbers
  <2>3. j.entries \in Seq(Target)
    BY <1>t, <1>0 DEF Lengths
  <2>. QED  BY <2>1, <2>2, <2>3 DEF RuntimeType
<1>ghost. /\ ghost' = [txn |-> ghost.txn, writes |-> ghost.writes, mods |-> ghost.mods,
                       committed |-> ghost.committed, replayed |-> ghost.replayed,
                       last |-> ghost.last, stale |-> ghost.stale, crashes |-> ghost.crashes,
                       faults |-> ghost.faults + 1]
          /\ ghost' \in GhostType
  <2>1. ghost' = [txn |-> ghost.txn, writes |-> ghost.writes, mods |-> ghost.mods,
                  committed |-> ghost.committed, replayed |-> ghost.replayed,
                  last |-> ghost.last, stale |-> ghost.stale, crashes |-> ghost.crashes,
                  faults |-> ghost.faults + 1]
    BY <1>t DEF Records, GhostType, V3Fails
  <2>2. /\ ghost.txn \in Nat /\ ghost.writes \in Nat /\ ghost.mods \in SUBSET Home
        /\ ghost.committed \in [Home -> Nat] /\ ghost.replayed \in SUBSET Nat
        /\ ghost.last \in Nat /\ ghost.stale \in BOOLEAN /\ ghost.crashes \in Nat
        /\ ghost.faults + 1 \in Nat
    BY <1>t DEF Numbers, Values
  <2>. QED  BY <2>1, <2>2 DEF GhostType
<1>1. TypeOK'
  BY <1>t, <1>0, <1>j, <1>ghost DEF TypeOK, Records
<1>2. Places'
  BY <1>t, <1>0, <1>j, <1>ghost DEF IInv, Places, Records
<1>. SUFFICES ASSUME ~ghost.stale' PROVE Inv'
  BY <1>1, <1>2 DEF IInv
<1>3. Inv /\ Places /\ ~ghost.stale
  BY <1>t, <1>0, <1>ghost DEF IInv, Numbers
<1>4. Current'
  BY <1>t, <1>3, <1>0, <1>ghost DEF Inv, Places, Values, Current
<1>5. Order'
  BY <1>t, <1>3, <1>0, <1>ghost DEF Inv, Places, Numbers, Order
<1>6. CommitBlock'
  BY <1>t, <1>3, <1>0, <1>ghost DEF Inv, Places, Values, Lengths,
     CommitBlock, OneTxn, Good
<1>7. Fixed'
  BY <1>t, <1>3, <1>0, <1>j DEF Inv, Places, Numbers, Lengths, Fixed
<1>8. Writing'
  BY <1>t, <1>3, <1>0, <1>j, <1>ghost DEF Inv, Places, Values, Lengths,
     Writing, Sums
<1>. QED  BY <1>0, <1>1, <1>2, Elsewhere, <1>4, <1>5, <1>6, <1>7, <1>8 DEF
       Inv

-----------------------------------------------------------------------------
(* Crashes, with and without a torn descriptor, and unmounting.             *)
LEMMA CrashWholeI ==
  ASSUME IInv, Crash, jd' = jd PROVE IInv'
<1>t. TypeOK /\ Records /\ Numbers /\ Values /\ Blocks /\ Lengths
  BY Fields DEF IInv
<1>0. /\ pc' = "off"
      /\ pc \notin {"off", "refused"}
      /\ jd' = jd
      /\ UNCHANGED <<version, cache, dirty, disk, sbc, sbd, jc, pay, j, op>>
  BY DEF Crash
<1>f0. /\ ghost'.stale \in BOOLEAN
       /\ ~ghost'.stale => ~ghost.stale /\ ~(version = 1 /\ jd.hdr.n > 0 /\ ~sbd.rec)
       /\ ghost'.stale => ghost.stale \/ version = 1
  BY <1>t DEF Crash, Records, GhostType
<1>ghost. /\ ghost' = [txn |-> ghost.txn, writes |-> ghost.writes, mods |-> ghost.mods,
                       committed |-> ghost.committed, replayed |-> ghost.replayed,
                       last |-> ghost.last, stale |-> ghost'.stale,
                       crashes |-> ghost.crashes + 1, faults |-> ghost.faults]
          /\ ghost' \in GhostType
  <2>1. ghost' = [txn |-> ghost.txn, writes |-> ghost.writes, mods |-> ghost.mods,
                  committed |-> ghost.committed, replayed |-> ghost.replayed,
                  last |-> ghost.last, stale |-> ghost'.stale, crashes |-> ghost.crashes + 1,
                  faults |-> ghost.faults]
    BY <1>t DEF Records, GhostType, Crash
  <2>2. /\ ghost.txn \in Nat /\ ghost.writes \in Nat /\ ghost.mods \in SUBSET Home
        /\ ghost.committed \in [Home -> Nat] /\ ghost.replayed \in SUBSET Nat
        /\ ghost.last \in Nat /\ ghost.crashes + 1 \in Nat /\ ghost.faults \in Nat
    BY <1>t DEF Numbers, Values
  <2>3. ghost'.stale \in BOOLEAN
    BY <1>t, <1>0, <1>f0 DEF Numbers, Values
  <2>. QED  BY <2>1, <2>2, <2>3 DEF GhostType
<1>1. TypeOK'
  BY <1>t, <1>0, <1>f0, <1>ghost DEF TypeOK, Records
<1>2. Places'
  BY <1>t, <1>0, <1>f0, <1>ghost DEF IInv, Places, Records
<1>. SUFFICES ASSUME ~ghost.stale' PROVE Inv'
  BY <1>1, <1>2 DEF IInv
<1>3. Inv /\ Places /\ ~ghost.stale
  BY <1>t, <1>0, <1>f0, <1>ghost DEF IInv, Numbers
<1>4. Current'
  BY <1>t, <1>3, <1>0, <1>f0, <1>ghost DEF Inv, Places, Values, Current
<1>5. Order'
  BY <1>t, <1>3, <1>0, <1>ghost DEF Inv, Places, Numbers, Order
<1>6. Recording'
  BY <1>t, <1>3, <1>0, <1>f0, <1>ghost DEF Inv, Places, Values, Lengths,
     Recording, Good
<1>7. HeaderLog'
  <2>1. Keeps
    BY <1>t, <1>0, <1>ghost DEF Values, Keeps
  <2>2. \A b, i : i \in 1 .. Area /\ Good(b, i) => Good(b, i)'
    BY <1>t, <2>1, KeepsGood
  <2>3. version = 1 => /\ Logged(jc.hdr) /\ jc.hdr.n \in Nat /\ jc.hdr.n <= Area
                       /\ Logged(jd.hdr) /\ jd.hdr.n \in Nat /\ jd.hdr.n <= Area
    BY <1>t, <1>3 DEF Inv, Places, Lengths, HeaderLog
  <2>4. jc'.hdr = jc.hdr /\ jd'.hdr = jd.hdr /\ pay' = pay /\ ghost'.txn = ghost.txn
    BY <1>0, <1>f0, <1>ghost
  <2>5. version = 1 => Logged(jc.hdr)' /\ Logged(jd.hdr)'
    BY <2>2, <2>3, <2>4 DEF Logged
  <2>6. version = 1 => jd.hdr.n = 0 \/ sbd.rec
    <3>1. version = 1 => ~(jd.hdr.n > 0 /\ ~sbd.rec)
      BY <1>f0
    <3>2. version = 1 => jd.hdr.n = 0 \/ jd.hdr.n > 0
      BY <2>3
    <3>. QED  BY <3>1, <3>2
  <2>. QED  BY <1>0, <2>4, <2>5, <2>6 DEF HeaderLog
<1>8. Sequences'
  BY <1>t, <1>3, <1>0, <1>f0 DEF Inv, Places, Numbers, Lengths, Sequences,
     Pair, Zero
<1>9. CompleteLog'
  <2>1. Keeps
    BY <1>t, <1>0, <1>ghost DEF Values, Keeps
  <2>2. /\ \A b, i : i \in 1 .. Area /\ Good(b, i) => Good(b, i)'
        /\ \A n : OneTxn(n) => OneTxn(n)'
    BY <1>t, <2>1, KeepsGood
  <2>. QED  BY <1>t, <1>3, <1>0, <1>f0, <1>ghost, <2>2 DEF Inv, Places, Lengths, CompleteLog,
         Pair
<1>10. RunningLog'
  BY <1>t, <1>3, <1>0, <1>f0, <1>ghost DEF Inv, Places, Values, Lengths,
     RunningLog, Good, NextEntries, Block
<1>11. CommitBlock'
  <2>1. Keeps
    BY <1>t, <1>0, <1>ghost DEF Values, Keeps
  <2>2. /\ \A b, i : i \in 1 .. Area /\ Good(b, i) => Good(b, i)'
        /\ \A n : OneTxn(n) => OneTxn(n)'
    BY <1>t, <2>1, KeepsGood
  <2>3. jd'.com = jd.com /\ version' = version
    BY <1>0, <1>f0, <1>ghost
  <2>. QED  BY <1>t, <1>3, <2>2, <2>3 DEF Inv, CommitBlock, Lengths
<1>12. Fixed'
  BY <1>t, <1>3, <1>0, <1>f0 DEF Inv, Places, Numbers, Lengths, Fixed
<1>13. Writing'
  BY <1>t, <1>3, <1>0, <1>f0, <1>ghost DEF Inv, Places, Values, Lengths,
     Writing, Sums
<1>. QED  BY <1>4, <1>5, <1>6, <1>7, <1>8, <1>9, <1>10, <1>11, <1>12, <1>13
       DEF Inv

LEMMA CrashTornI ==
  ASSUME IInv, Crash, jd' = [jd EXCEPT !.desc.kind = "torn"] PROVE IInv'
<1>t. TypeOK /\ Records /\ Numbers /\ Values /\ Blocks /\ Lengths
  BY Fields DEF IInv
<1>0. /\ pc' = "off"
      /\ pc \notin {"off", "refused"}
      /\ UNCHANGED <<version, cache, dirty, disk, sbc, sbd, jc, pay, j, op>>
  BY DEF Crash
<1>f0. /\ ghost'.stale \in BOOLEAN
       /\ ~ghost'.stale => ~ghost.stale /\ ~(version = 1 /\ jd.hdr.n > 0 /\ ~sbd.rec)
       /\ ghost'.stale => ghost.stale \/ version = 1
  BY <1>t DEF Crash, Records, GhostType
<1>f1. jd'.desc = [kind |-> "torn", seq |-> jd.desc.seq, entries |-> jd.desc.entries]
  BY <1>t DEF Blocks, BlockType, Records, AreaType
<1>f2. jd'.desc \in BlockType
  BY <1>t, <1>f1, BlockTyped DEF Lengths
<1>f3. version = 2 => ~\E m : Pair(m)'
  BY <1>f1 DEF Pair
<1>jd. /\ jd' = [hdr |-> jd.hdr, desc |-> jd'.desc, com |-> jd.com]
       /\ jd' \in AreaType
  <2>1. jd' = [hdr |-> jd.hdr, desc |-> jd'.desc, com |-> jd.com]
    BY <1>t DEF Records, AreaType, Crash
  <2>2. jd.hdr \in HeaderType /\ jd'.desc \in BlockType /\ jd.com \in BlockType
    BY <1>t, <1>0, <1>f0, <1>f1, <1>f2, <1>f3, Blanks DEF Blocks, Lengths,
       HeaderType, BlockType
  <2>. QED  BY <2>1, <2>2 DEF AreaType
<1>ghost. /\ ghost' = [txn |-> ghost.txn, writes |-> ghost.writes, mods |-> ghost.mods,
                       committed |-> ghost.committed, replayed |-> ghost.replayed,
                       last |-> ghost.last, stale |-> ghost'.stale,
                       crashes |-> ghost.crashes + 1, faults |-> ghost.faults]
          /\ ghost' \in GhostType
  <2>1. ghost' = [txn |-> ghost.txn, writes |-> ghost.writes, mods |-> ghost.mods,
                  committed |-> ghost.committed, replayed |-> ghost.replayed,
                  last |-> ghost.last, stale |-> ghost'.stale, crashes |-> ghost.crashes + 1,
                  faults |-> ghost.faults]
    BY <1>t DEF Records, GhostType, Crash
  <2>2. /\ ghost.txn \in Nat /\ ghost.writes \in Nat /\ ghost.mods \in SUBSET Home
        /\ ghost.committed \in [Home -> Nat] /\ ghost.replayed \in SUBSET Nat
        /\ ghost.last \in Nat /\ ghost.crashes + 1 \in Nat /\ ghost.faults \in Nat
    BY <1>t DEF Numbers, Values
  <2>3. ghost'.stale \in BOOLEAN
    BY <1>t, <1>0, <1>f0, <1>f1, <1>f2, <1>f3 DEF Numbers, Values
  <2>. QED  BY <2>1, <2>2, <2>3 DEF GhostType
<1>1. TypeOK'
  BY <1>t, <1>0, <1>f0, <1>f1, <1>f2, <1>f3, <1>jd, <1>ghost DEF TypeOK,
     Records
<1>2. Places'
  BY <1>t, <1>0, <1>f0, <1>f1, <1>f2, <1>f3, <1>jd, <1>ghost DEF IInv,
     Places, Records
<1>. SUFFICES ASSUME ~ghost.stale' PROVE Inv'
  BY <1>1, <1>2 DEF IInv
<1>3. Inv /\ Places /\ ~ghost.stale
  BY <1>t, <1>0, <1>f0, <1>f1, <1>f2, <1>f3, <1>ghost DEF IInv, Numbers
<1>4. Current'
  BY <1>t, <1>3, <1>0, <1>f0, <1>f1, <1>f2, <1>f3, <1>ghost DEF Inv, Places,
     Values, Current
<1>5. Order'
  BY <1>t, <1>3, <1>0, <1>ghost DEF Inv, Places, Numbers, Order
<1>6. Recording'
  BY <1>t, <1>3, <1>0, <1>f0, <1>f1, <1>f2, <1>f3, <1>ghost DEF Inv, Places,
     Values, Lengths, Recording, Good
<1>7. HeaderLog'
  <2>1. Keeps
    BY <1>t, <1>0, <1>ghost DEF Values, Keeps
  <2>2. \A b, i : i \in 1 .. Area /\ Good(b, i) => Good(b, i)'
    BY <1>t, <2>1, KeepsGood
  <2>3. version = 1 => /\ Logged(jc.hdr) /\ jc.hdr.n \in Nat /\ jc.hdr.n <= Area
                       /\ Logged(jd.hdr) /\ jd.hdr.n \in Nat /\ jd.hdr.n <= Area
    BY <1>t, <1>3 DEF Inv, Places, Lengths, HeaderLog
  <2>4. jc'.hdr = jc.hdr /\ jd'.hdr = jd.hdr /\ pay' = pay /\ ghost'.txn = ghost.txn
    BY <1>0, <1>f0, <1>f1, <1>f2, <1>f3, <1>jd, <1>ghost
  <2>5. version = 1 => Logged(jc.hdr)' /\ Logged(jd.hdr)'
    BY <2>2, <2>3, <2>4 DEF Logged
  <2>6. version = 1 => jd.hdr.n = 0 \/ sbd.rec
    <3>1. version = 1 => ~(jd.hdr.n > 0 /\ ~sbd.rec)
      BY <1>f0
    <3>2. version = 1 => jd.hdr.n = 0 \/ jd.hdr.n > 0
      BY <2>3
    <3>. QED  BY <3>1, <3>2
  <2>. QED  BY <1>0, <2>4, <2>5, <2>6 DEF HeaderLog
<1>8. Sequences'
  BY <1>t, <1>3, <1>0, <1>f0, <1>f1, <1>f2, <1>f3, <1>jd DEF Inv, Places,
     Numbers, Lengths, Sequences, Pair, Zero
<1>9. CompleteLog'
  <2>1. Keeps
    BY <1>t, <1>0, <1>ghost DEF Values, Keeps
  <2>2. /\ \A b, i : i \in 1 .. Area /\ Good(b, i) => Good(b, i)'
        /\ \A n : OneTxn(n) => OneTxn(n)'
    BY <1>t, <2>1, KeepsGood
  <2>. QED  BY <1>t, <1>3, <1>0, <1>f0, <1>f1, <1>f2, <1>f3, <1>jd, <1>ghost, <2>2 DEF Inv,
         Places, Lengths, CompleteLog, Pair
<1>10. RunningLog'
  BY <1>t, <1>3, <1>0, <1>f0, <1>f1, <1>f2, <1>f3, <1>jd, <1>ghost DEF Inv,
     Places, Values, Lengths, RunningLog, Good, NextEntries, Block
<1>11. CommitBlock'
  <2>1. Keeps
    BY <1>t, <1>0, <1>ghost DEF Values, Keeps
  <2>2. /\ \A b, i : i \in 1 .. Area /\ Good(b, i) => Good(b, i)'
        /\ \A n : OneTxn(n) => OneTxn(n)'
    BY <1>t, <2>1, KeepsGood
  <2>3. jd'.com = jd.com /\ version' = version
    BY <1>0, <1>f0, <1>f1, <1>f2, <1>f3, <1>jd, <1>ghost
  <2>. QED  BY <1>t, <1>3, <2>2, <2>3 DEF Inv, CommitBlock, Lengths
<1>12. Fixed'
  BY <1>t, <1>3, <1>0, <1>f0, <1>f1, <1>f2, <1>f3, <1>jd DEF Inv, Places,
     Numbers, Lengths, Fixed
<1>13. Writing'
  BY <1>t, <1>3, <1>0, <1>f0, <1>f1, <1>f2, <1>f3, <1>jd, <1>ghost DEF Inv,
     Places, Values, Lengths, Writing, Sums
<1>. QED  BY <1>4, <1>5, <1>6, <1>7, <1>8, <1>9, <1>10, <1>11, <1>12, <1>13
       DEF Inv

LEMMA UnmountI ==
  ASSUME IInv, Unmount PROVE IInv'
<1>t. TypeOK /\ Records /\ Numbers /\ Values /\ Blocks /\ Lengths
  BY Fields DEF IInv
<1>0. /\ pc = "free"
      /\ pc' = "off"
      /\ dirty = {}
      /\ sbc = sbd
      /\ jc = jd
      /\ UNCHANGED <<version, cache, dirty, disk, sbc, sbd, jc, jd, pay, j, op, ghost>>
  BY DEF Unmount, Synced
<1>1. TypeOK'
  BY <1>t, <1>0 DEF TypeOK, Records
<1>2. Places'
  BY <1>t, <1>0 DEF IInv, Places, Records
<1>. SUFFICES ASSUME ~ghost.stale' PROVE Inv'
  BY <1>1, <1>2 DEF IInv
<1>3. Inv /\ Places /\ ~ghost.stale
  BY <1>t, <1>0 DEF IInv, Numbers
<1>4. Current'
  BY <1>t, <1>3, <1>0 DEF Inv, Places, Values, Current
<1>5. Order'
  BY <1>t, <1>3, <1>0 DEF Inv, Places, Numbers, Order
<1>6. Recording'
  BY <1>t, <1>3, <1>0 DEF Inv, Places, Values, Lengths, Recording, Good
<1>7. HeaderLog'
  BY <1>t, <1>3, <1>0 DEF Inv, Places, Values, Lengths, HeaderLog, Logged,
     Good
<1>8. Sequences'
  BY <1>t, <1>3, <1>0 DEF Inv, Places, Numbers, Lengths, Sequences, Pair,
     Zero
<1>9. CompleteLog'
  BY <1>t, <1>3, <1>0 DEF Inv, Places, Values, Lengths, CompleteLog, Pair,
     OneTxn, Good
<1>10. RunningLog'
  BY <1>t, <1>3, <1>0 DEF Inv, Places, Values, Lengths, RunningLog, Good,
     NextEntries, Block
<1>11. CommitBlock'
  BY <1>t, <1>3, <1>0 DEF Inv, Places, Values, Lengths, CommitBlock, OneTxn,
     Good
<1>12. Fixed'
  BY <1>t, <1>3, <1>0 DEF Inv, Places, Numbers, Lengths, Fixed
<1>13. Writing'
  BY <1>t, <1>3, <1>0 DEF Inv, Places, Values, Lengths, Writing, Sums
<1>. QED  BY <1>4, <1>5, <1>6, <1>7, <1>8, <1>9, <1>10, <1>11, <1>12, <1>13
       DEF Inv

-----------------------------------------------------------------------------
(* The writes that end a replay, and the cache's own writeback.             *)
LEMMA ReplaySyncI ==
  ASSUME IInv, ReplaySync PROVE IInv'
<1>t. TypeOK /\ Records /\ Numbers /\ Values /\ Blocks /\ Lengths
  BY Fields DEF IInv
<1>0. /\ pc = "replay_sync"
      /\ pc' = "reset_control"
      /\ dirty = {}
      /\ sbc = sbd
      /\ jc = jd
      /\ UNCHANGED <<version, cache, dirty, disk, sbc, sbd, jc, jd, pay, j, op, ghost>>
  BY DEF ReplaySync, Synced
<1>n. version = 2
  BY <1>t, <1>0 DEF IInv, Places, Records
<1>1. TypeOK'
  BY <1>t, <1>0 DEF TypeOK, Records
<1>2. Places'
  BY <1>t, <1>0 DEF IInv, Places, Records
<1>. SUFFICES ASSUME ~ghost.stale' PROVE Inv'
  BY <1>1, <1>2 DEF IInv
<1>3. Inv /\ Places /\ ~ghost.stale
  BY <1>t, <1>0 DEF IInv, Numbers
<1>4. Current'
  BY <1>t, <1>3, <1>0 DEF Inv, Places, Values, Current
<1>5. Order'
  BY <1>t, <1>3, <1>0 DEF Inv, Places, Numbers, Order
<1>6. Recording'
  BY <1>t, <1>3, <1>0 DEF Inv, Places, Values, Lengths, Recording, Good
<1>7. Sequences'
  BY <1>t, <1>3, <1>0 DEF Inv, Places, Numbers, Lengths, Sequences, Pair,
     Zero
<1>8. CompleteLog'
  BY <1>t, <1>3, <1>0 DEF Inv, Places, Values, Lengths, CompleteLog, Pair,
     OneTxn, Good
<1>9. RunningLog'
  BY <1>t, <1>3, <1>0 DEF Inv, Places, Values, Lengths, RunningLog, Good,
     NextEntries, Block
<1>. QED  BY <1>0, <1>n, <1>1, <1>2, Elsewhere, <1>4, <1>5, <1>6, <1>7, <1>8,
       <1>9 DEF Inv

LEMMA ReplayControlI ==
  ASSUME IInv, ReplayControl PROVE IInv'
<1>t. TypeOK /\ Records /\ Numbers /\ Values /\ Blocks /\ Lengths
  BY Fields DEF IInv
<1>v. version = 3 /\ Inv
  BY <1>t DEF IInv, Places, Records, ReplayControl
<1>0. /\ version = 3
      /\ pc = "replay_control"
      /\ pc' = "v3_home"
      /\ UNCHANGED <<version, cache, dirty, disk, sbc, sbd, pay, j, op, ghost>>
  BY <1>v DEF ReplayControl, WriteSync, Control
<1>f0. Len(jc.desc.entries) \in Nat
  BY <1>t DEF Blocks, BlockType
<1>f1. [state |-> "CHECKPOINTING", n |-> Len(jc.desc.entries), homes |-> NoHomes,
        last |-> op.last, active |-> op.last] \in HeaderType
  BY <1>t, <1>f0, ControlTyped DEF Numbers
<1>jc. /\ jc' = [hdr |-> [state |-> "CHECKPOINTING", n |-> Len(jc.desc.entries),
                          homes |-> NoHomes, last |-> op.last, active |-> op.last],
                          desc |-> jc.desc, com |-> jc.com]
       /\ jc' \in AreaType
  <2>1. jc' = [hdr |-> [state |-> "CHECKPOINTING", n |-> Len(jc.desc.entries),
                        homes |-> NoHomes, last |-> op.last, active |-> op.last],
                        desc |-> jc.desc, com |-> jc.com]
    BY <1>t DEF Records, AreaType, ReplayControl, WriteSync, Control
  <2>2. /\ [state |-> "CHECKPOINTING", n |-> Len(jc.desc.entries), homes |-> NoHomes,
            last |-> op.last, active |-> op.last] \in HeaderType
        /\ jc.desc \in BlockType /\ jc.com \in BlockType
    BY <1>t, <1>0, <1>f0, <1>f1, Blanks DEF Blocks, Lengths, HeaderType,
       BlockType
  <2>. QED  BY <2>1, <2>2 DEF AreaType
<1>jd. /\ jd' = [hdr |-> [state |-> "CHECKPOINTING", n |-> Len(jc.desc.entries),
                          homes |-> NoHomes, last |-> op.last, active |-> op.last],
                          desc |-> jd.desc, com |-> jd.com]
       /\ jd' \in AreaType
  <2>1. jd' = [hdr |-> [state |-> "CHECKPOINTING", n |-> Len(jc.desc.entries),
                        homes |-> NoHomes, last |-> op.last, active |-> op.last],
                        desc |-> jd.desc, com |-> jd.com]
    BY <1>t DEF Records, AreaType, ReplayControl, WriteSync, Control
  <2>2. /\ [state |-> "CHECKPOINTING", n |-> Len(jc.desc.entries), homes |-> NoHomes,
            last |-> op.last, active |-> op.last] \in HeaderType
        /\ jd.desc \in BlockType /\ jd.com \in BlockType
    BY <1>t, <1>0, <1>f0, <1>f1, <1>jc, Blanks DEF Blocks, Lengths,
       HeaderType, BlockType
  <2>. QED  BY <2>1, <2>2 DEF AreaType
<1>1. TypeOK'
  BY <1>t, <1>0, <1>f0, <1>f1, <1>jc, <1>jd DEF TypeOK, Records
<1>2. Places'
  BY <1>t, <1>0, <1>f0, <1>f1, <1>jc, <1>jd DEF IInv, Places, Records
<1>. SUFFICES ASSUME ~ghost.stale' PROVE Inv'
  BY <1>1, <1>2 DEF IInv
<1>3. Inv /\ Places /\ ~ghost.stale
  BY <1>t, <1>0, <1>f0, <1>f1 DEF IInv, Numbers
<1>4. Current'
  BY <1>t, <1>3, <1>0, <1>f0, <1>f1 DEF Inv, Places, Values, Current
<1>5. Order'
  BY <1>t, <1>3, <1>0 DEF Inv, Places, Numbers, Order
<1>6. CommitBlock'
  BY <1>t, <1>3, <1>0, <1>f0, <1>f1, <1>jd DEF Inv, Places, Values, Lengths,
     CommitBlock, OneTxn, Good
<1>7. Fixed'
  <2>1. /\ jc = jd /\ jd.com.kind = "commit" /\ jd.desc.entries = jd.com.entries
        /\ op.k \in 1 .. Len(jd.com.entries) /\ (op.what = "commit" => j.active # 0)
    BY <1>v, <1>0 DEF Inv, Fixed
  <2>2. /\ jc' = jd' /\ jd'.com = jd.com /\ jd'.desc = jd.desc /\ op' = op /\ j' = j
    BY <1>0, <1>jc, <1>jd, <2>1
  <2>. QED  BY <1>0, <2>1, <2>2 DEF Fixed
<1>8. Writing'
  BY <1>t, <1>3, <1>0, <1>f0, <1>f1, <1>jd DEF Inv, Places, Values, Lengths,
     Writing, Sums
<1>. QED  BY <1>0, <1>1, <1>2, Elsewhere, <1>4, <1>5, <1>6, <1>7, <1>8 DEF
       Inv

LEMMA WritebackHomeI ==
  ASSUME IInv, NEW x \in Home, WritebackHome(x) PROVE IInv'
<1>t. TypeOK /\ Records /\ Numbers /\ Values /\ Blocks /\ Lengths
  BY Fields DEF IInv
<1>0. /\ pc \notin {"off", "refused"}
      /\ x \in dirty
      /\ disk' = [disk EXCEPT ![x] = cache[x]]
      /\ dirty' = dirty \ {x}
      /\ UNCHANGED <<version, cache, sbc, sbd, jc, jd, pay, j, op, ghost, pc>>
  BY DEF WritebackHome
<1>f0. disk' \in [Home -> Nat] /\ dirty' \in SUBSET Home
  BY <1>t, <1>0 DEF Values, Records
<1>1. TypeOK'
  BY <1>t, <1>0, <1>f0 DEF TypeOK, Records
<1>2. Places'
  BY <1>t, <1>0, <1>f0 DEF IInv, Places, Records
<1>. SUFFICES ASSUME ~ghost.stale' PROVE Inv'
  BY <1>1, <1>2 DEF IInv
<1>3. Inv /\ Places /\ ~ghost.stale
  BY <1>t, <1>0, <1>f0 DEF IInv, Numbers
<1>4. Current'
  BY <1>t, <1>3, <1>0, <1>f0 DEF Inv, Places, Values, Current
<1>5. Order'
  BY <1>t, <1>3, <1>0 DEF Inv, Places, Numbers, Order
<1>6. Recording'
  BY <1>t, <1>3, <1>0, <1>f0 DEF Inv, Places, Values, Lengths, Recording,
     Good
<1>7. HeaderLog'
  BY <1>t, <1>3, <1>0, <1>f0 DEF Inv, Places, Values, Lengths, HeaderLog,
     Logged, Good
<1>8. Sequences'
  BY <1>t, <1>3, <1>0, <1>f0 DEF Inv, Places, Numbers, Lengths, Sequences,
     Pair, Zero
<1>9. CompleteLog'
  BY <1>t, <1>3, <1>0, <1>f0 DEF Inv, Places, Values, Lengths, CompleteLog,
     Pair, OneTxn, Good
<1>10. RunningLog'
  BY <1>t, <1>3, <1>0, <1>f0 DEF Inv, Places, Values, Lengths, RunningLog,
     Good, NextEntries, Block
<1>11. CommitBlock'
  BY <1>t, <1>3, <1>0, <1>f0 DEF Inv, Places, Values, Lengths, CommitBlock,
     OneTxn, Good
<1>12. Fixed'
  BY <1>t, <1>3, <1>0, <1>f0 DEF Inv, Places, Numbers, Lengths, Fixed
<1>13. Writing'
  BY <1>t, <1>3, <1>0, <1>f0 DEF Inv, Places, Values, Lengths, Writing, Sums
<1>. QED  BY <1>4, <1>5, <1>6, <1>7, <1>8, <1>9, <1>10, <1>11, <1>12, <1>13
       DEF Inv

LEMMA WritebackSuperI ==
  ASSUME IInv, WritebackSuper PROVE IInv'
<1>t. TypeOK /\ Records /\ Numbers /\ Values /\ Blocks /\ Lengths
  BY Fields DEF IInv
<1>0. /\ pc \notin {"off", "refused"}
      /\ sbd' = sbc
      /\ UNCHANGED <<version, cache, dirty, disk, sbc, jc, jd, pay, j, op, ghost, pc>>
  BY DEF WritebackSuper
<1>1. TypeOK'
  BY <1>t, <1>0 DEF TypeOK, Records
<1>2. Places'
  BY <1>t, <1>0 DEF IInv, Places, Records
<1>. SUFFICES ASSUME ~ghost.stale' PROVE Inv'
  BY <1>1, <1>2 DEF IInv
<1>3. Inv /\ Places /\ ~ghost.stale
  BY <1>t, <1>0 DEF IInv, Numbers
<1>4. Current'
  BY <1>t, <1>3, <1>0 DEF Inv, Places, Values, Current
<1>5. Order'
  BY <1>t, <1>3, <1>0 DEF Inv, Places, Numbers, Order
<1>6. Recording'
  BY <1>t, <1>3, <1>0 DEF Inv, Places, Values, Lengths, Recording, Good
<1>7. HeaderLog'
  BY <1>t, <1>3, <1>0 DEF Inv, Places, Values, Lengths, HeaderLog, Logged,
     Good
<1>8. Sequences'
  BY <1>t, <1>3, <1>0 DEF Inv, Places, Numbers, Lengths, Sequences, Pair,
     Zero
<1>9. CompleteLog'
  BY <1>t, <1>3, <1>0 DEF Inv, Places, Values, Lengths, CompleteLog, Pair,
     OneTxn, Good
<1>10. RunningLog'
  BY <1>t, <1>3, <1>0 DEF Inv, Places, Values, Lengths, RunningLog, Good,
     NextEntries, Block
<1>11. CommitBlock'
  BY <1>t, <1>3, <1>0 DEF Inv, Places, Values, Lengths, CommitBlock, OneTxn,
     Good
<1>12. Fixed'
  BY <1>t, <1>3, <1>0 DEF Inv, Places, Numbers, Lengths, Fixed
<1>13. Writing'
  BY <1>t, <1>3, <1>0 DEF Inv, Places, Values, Lengths, Writing, Sums
<1>. QED  BY <1>4, <1>5, <1>6, <1>7, <1>8, <1>9, <1>10, <1>11, <1>12, <1>13
       DEF Inv

LEMMA WritebackHeaderI ==
  ASSUME IInv, WritebackJournal("hdr") PROVE IInv'
<1>t. TypeOK /\ Records /\ Numbers /\ Values /\ Blocks /\ Lengths
  BY Fields DEF IInv
<1>0. /\ pc \notin {"off", "refused"}
      /\ jd.hdr # jc.hdr
      /\ UNCHANGED <<version, cache, dirty, disk, sbc, sbd, jc, pay, j, op, ghost, pc>>
  BY DEF WritebackJournal
<1>jd. /\ jd' = [hdr |-> jc.hdr, desc |-> jd.desc, com |-> jd.com]
       /\ jd' \in AreaType
  <2>1. jd' = [hdr |-> jc.hdr, desc |-> jd.desc, com |-> jd.com]
    BY <1>t DEF Records, AreaType, WritebackJournal
  <2>2. jc.hdr \in HeaderType /\ jd.desc \in BlockType /\ jd.com \in BlockType
    BY <1>t, <1>0, Blanks DEF Blocks, Lengths, HeaderType, BlockType
  <2>. QED  BY <2>1, <2>2 DEF AreaType
<1>1. TypeOK'
  BY <1>t, <1>0, <1>jd DEF TypeOK, Records
<1>2. Places'
  BY <1>t, <1>0, <1>jd DEF IInv, Places, Records
<1>. SUFFICES ASSUME ~ghost.stale' PROVE Inv'
  BY <1>1, <1>2 DEF IInv
<1>3. Inv /\ Places /\ ~ghost.stale
  BY <1>t, <1>0 DEF IInv, Numbers
<1>4. Current'
  BY <1>t, <1>3, <1>0 DEF Inv, Places, Values, Current
<1>5. Order'
  BY <1>t, <1>3, <1>0 DEF Inv, Places, Numbers, Order
<1>6. Recording'
  BY <1>t, <1>3, <1>0 DEF Inv, Places, Values, Lengths, Recording, Good
<1>7. HeaderLog'
  BY <1>t, <1>3, <1>0, <1>jd DEF Inv, Places, Values, Lengths, HeaderLog,
     Logged, Good
<1>8. Sequences'
  BY <1>t, <1>3, <1>0, <1>jd DEF Inv, Places, Numbers, Lengths, Sequences,
     Pair, Zero
<1>9. CompleteLog'
  <2>1. version # 2
    BY <1>3, <1>0 DEF Inv, Sequences
  <2>. QED  BY <1>0, <2>1 DEF CompleteLog
<1>10. RunningLog'
  BY <1>t, <1>3, <1>0, <1>jd DEF Inv, Places, Values, Lengths, RunningLog,
     Good, NextEntries, Block
<1>11. CommitBlock'
  BY <1>t, <1>3, <1>0, <1>jd DEF Inv, Places, Values, Lengths, CommitBlock,
     OneTxn, Good
<1>12. Fixed'
  BY <1>t, <1>3, <1>0, <1>jd DEF Inv, Places, Numbers, Lengths, Fixed
<1>13. Writing'
  BY <1>t, <1>3, <1>0, <1>jd DEF Inv, Places, Values, Lengths, Writing, Sums
<1>. QED  BY <1>4, <1>5, <1>6, <1>7, <1>8, <1>9, <1>10, <1>11, <1>12, <1>13
       DEF Inv

LEMMA WritebackDescI ==
  ASSUME IInv, WritebackJournal("desc") PROVE IInv'
<1>t. TypeOK /\ Records /\ Numbers /\ Values /\ Blocks /\ Lengths
  BY Fields DEF IInv
<1>0. /\ pc \notin {"off", "refused"}
      /\ jd.desc # jc.desc
      /\ UNCHANGED <<version, cache, dirty, disk, sbc, sbd, jc, pay, j, op, ghost, pc>>
  BY DEF WritebackJournal
<1>jd. /\ jd' = [hdr |-> jd.hdr, desc |-> jc.desc, com |-> jd.com]
       /\ jd' \in AreaType
  <2>1. jd' = [hdr |-> jd.hdr, desc |-> jc.desc, com |-> jd.com]
    BY <1>t DEF Records, AreaType, WritebackJournal
  <2>2. jd.hdr \in HeaderType /\ jc.desc \in BlockType /\ jd.com \in BlockType
    BY <1>t, <1>0, Blanks DEF Blocks, Lengths, HeaderType, BlockType
  <2>. QED  BY <2>1, <2>2 DEF AreaType
<1>1. TypeOK'
  BY <1>t, <1>0, <1>jd DEF TypeOK, Records
<1>2. Places'
  BY <1>t, <1>0, <1>jd DEF IInv, Places, Records
<1>. SUFFICES ASSUME ~ghost.stale' PROVE Inv'
  BY <1>1, <1>2 DEF IInv
<1>3. Inv /\ Places /\ ~ghost.stale
  BY <1>t, <1>0 DEF IInv, Numbers
<1>4. Current'
  BY <1>t, <1>3, <1>0 DEF Inv, Places, Values, Current
<1>5. Order'
  BY <1>t, <1>3, <1>0 DEF Inv, Places, Numbers, Order
<1>6. Recording'
  BY <1>t, <1>3, <1>0 DEF Inv, Places, Values, Lengths, Recording, Good
<1>7. HeaderLog'
  BY <1>t, <1>3, <1>0, <1>jd DEF Inv, Places, Values, Lengths, HeaderLog,
     Logged, Good
<1>8. Sequences'
  BY <1>t, <1>3, <1>0, <1>jd DEF Inv, Places, Numbers, Lengths, Sequences,
     Pair, Zero
<1>9. CompleteLog'
  <2>1. version = 2 => jd'.desc = Zero
    BY <1>3, <1>0, <1>jd DEF Inv, Sequences
  <2>. QED  BY <1>0, <2>1 DEF CompleteLog, Pair, Zero
<1>10. RunningLog'
  BY <1>t, <1>3, <1>0, <1>jd DEF Inv, Places, Values, Lengths, RunningLog,
     Good, NextEntries, Block
<1>11. CommitBlock'
  <2>1. version # 3
    BY <1>3, <1>0 DEF Inv, Fixed
  <2>. QED  BY <1>0, <2>1 DEF CommitBlock
<1>12. Fixed'
  BY <1>t, <1>3, <1>0, <1>jd DEF Inv, Places, Numbers, Lengths, Fixed
<1>13. Writing'
  <2>1. pc \notin WritePC
    BY <1>t, <1>3, <1>0 DEF Inv, Places, Fixed, Records
  <2>. QED  BY <1>0, <2>1 DEF Writing
<1>. QED  BY <1>4, <1>5, <1>6, <1>7, <1>8, <1>9, <1>10, <1>11, <1>12, <1>13
       DEF Inv

LEMMA WritebackCommitI ==
  ASSUME IInv, WritebackJournal("com") PROVE IInv'
<1>t. TypeOK /\ Records /\ Numbers /\ Values /\ Blocks /\ Lengths
  BY Fields DEF IInv
<1>0. /\ pc \notin {"off", "refused"}
      /\ jd.com # jc.com
      /\ UNCHANGED <<version, cache, dirty, disk, sbc, sbd, jc, pay, j, op, ghost, pc>>
  BY DEF WritebackJournal
<1>jd. /\ jd' = [hdr |-> jd.hdr, desc |-> jd.desc, com |-> jc.com]
       /\ jd' \in AreaType
  <2>1. jd' = [hdr |-> jd.hdr, desc |-> jd.desc, com |-> jc.com]
    BY <1>t DEF Records, AreaType, WritebackJournal
  <2>2. jd.hdr \in HeaderType /\ jd.desc \in BlockType /\ jc.com \in BlockType
    BY <1>t, <1>0, Blanks DEF Blocks, Lengths, HeaderType, BlockType
  <2>. QED  BY <2>1, <2>2 DEF AreaType
<1>1. TypeOK'
  BY <1>t, <1>0, <1>jd DEF TypeOK, Records
<1>2. Places'
  BY <1>t, <1>0, <1>jd DEF IInv, Places, Records
<1>. SUFFICES ASSUME ~ghost.stale' PROVE Inv'
  BY <1>1, <1>2 DEF IInv
<1>3. Inv /\ Places /\ ~ghost.stale
  BY <1>t, <1>0 DEF IInv, Numbers
<1>4. Current'
  BY <1>t, <1>3, <1>0 DEF Inv, Places, Values, Current
<1>5. Order'
  BY <1>t, <1>3, <1>0 DEF Inv, Places, Numbers, Order
<1>6. Recording'
  BY <1>t, <1>3, <1>0 DEF Inv, Places, Values, Lengths, Recording, Good
<1>7. HeaderLog'
  BY <1>t, <1>3, <1>0, <1>jd DEF Inv, Places, Values, Lengths, HeaderLog,
     Logged, Good
<1>8. Sequences'
  BY <1>t, <1>3, <1>0, <1>jd DEF Inv, Places, Numbers, Lengths, Sequences,
     Pair, Zero
<1>9. CompleteLog'
  <2>1. version = 2 => jd'.com = Zero
    BY <1>3, <1>0, <1>jd DEF Inv, Sequences
  <2>. QED  BY <1>0, <2>1 DEF CompleteLog, Pair, Zero
<1>10. RunningLog'
  BY <1>t, <1>3, <1>0, <1>jd DEF Inv, Places, Values, Lengths, RunningLog,
     Good, NextEntries, Block
<1>11. CommitBlock'
  <2>1. version # 3
    BY <1>3, <1>0 DEF Inv, Fixed
  <2>. QED  BY <1>0, <2>1 DEF CommitBlock
<1>12. Fixed'
  BY <1>t, <1>3, <1>0, <1>jd DEF Inv, Places, Numbers, Lengths, Fixed
<1>13. Writing'
  <2>1. pc \notin WritePC
    BY <1>t, <1>3, <1>0 DEF Inv, Places, Fixed, Records
  <2>. QED  BY <1>0, <2>1 DEF Writing
<1>. QED  BY <1>4, <1>5, <1>6, <1>7, <1>8, <1>9, <1>10, <1>11, <1>12, <1>13
       DEF Inv

-----------------------------------------------------------------------------
(* Mounting: the cases of mount and of replay in each version.              *)
LEMMA MountCleanI ==
  ASSUME IInv, pc = "off", UNCHANGED version, Reread, version \in {1, 2}, ~sbd.rec,
           Clean(sbd.seq) PROVE IInv'
<1>t. TypeOK /\ Records /\ Numbers /\ Values /\ Blocks /\ Lengths
  BY Fields DEF IInv
<1>0. /\ pc = "off"
      /\ pc' = "free"
      /\ sbc' = sbd
      /\ dirty' = {}
      /\ jc' = jd
      /\ cache' = disk
      /\ UNCHANGED <<version, disk, sbd, jd, pay, op, ghost>>
  BY DEF Reread, Clean
<1>n. version \in {1, 2}
  BY <1>t, <1>0 DEF IInv, Places, Records
<1>j. /\ j' = [seq |-> sbd.seq, active |-> 0, entries |-> <<>>, err |-> FALSE]
      /\ j' \in RuntimeType
  <2>1. j' = [seq |-> sbd.seq, active |-> 0, entries |-> <<>>, err |-> FALSE]
    BY <1>t DEF Records, RuntimeType, Clean, Runtime
  <2>2. sbd.seq \in Nat
    BY <1>t, <1>0 DEF Numbers
  <2>3. <<>> \in Seq(Target)
    BY Blanks
  <2>. QED  BY <2>1, <2>2, <2>3 DEF RuntimeType
<1>1. TypeOK'
  BY <1>t, <1>0, <1>j DEF TypeOK, Records
<1>2. Places'
  BY <1>t, <1>0, <1>j DEF IInv, Places, Records
<1>. SUFFICES ASSUME ~ghost.stale' PROVE Inv'
  BY <1>1, <1>2 DEF IInv
<1>3. Inv /\ Places /\ ~ghost.stale
  BY <1>t, <1>0 DEF IInv, Numbers
<1>4. Current'
  BY <1>t, <1>3, <1>0 DEF Inv, Places, Values, Current
<1>5. Order'
  BY <1>t, <1>3, <1>0 DEF Inv, Places, Numbers, Order
<1>6. Recording'
  BY <1>t, <1>3, <1>0, <1>j DEF Inv, Places, Values, Lengths, Recording, Good
<1>7. HeaderLog'
  BY <1>t, <1>3, <1>0, <1>j DEF Inv, Places, Values, Lengths, HeaderLog,
     Logged, Good
<1>8. Sequences'
  BY <1>t, <1>3, <1>0, <1>j DEF Inv, Places, Numbers, Lengths, Sequences,
     Pair, Zero
<1>9. CompleteLog'
  BY <1>t, <1>3, <1>0 DEF Inv, Places, Values, Lengths, CompleteLog, Pair,
     OneTxn, Good
<1>10. RunningLog'
  BY <1>t, <1>3, <1>0, <1>j DEF Inv, Places, Values, Lengths, RunningLog,
     Good, NextEntries, Block
<1>. QED  BY <1>0, <1>n, <1>1, <1>2, Elsewhere, <1>4, <1>5, <1>6, <1>7, <1>8,
       <1>9, <1>10 DEF Inv

LEMMA MountClean3I ==
  ASSUME IInv, pc = "off", UNCHANGED version, Reread, version = 3, V3CleanArea,
           Clean(jd.hdr.last) PROVE IInv'
<1>t. TypeOK /\ Records /\ Numbers /\ Values /\ Blocks /\ Lengths
  BY Fields DEF IInv
<1>0. /\ pc = "off"
      /\ pc' = "free"
      /\ sbc' = sbd
      /\ jd.com.kind = "empty"
      /\ dirty' = {}
      /\ jc' = jd
      /\ cache' = disk
      /\ UNCHANGED <<version, disk, sbd, jd, pay, op, ghost>>
  BY DEF Reread, Clean, V3CleanArea
<1>f0. jd.hdr.last \in Nat /\ jd.hdr.active \in Nat
  BY <1>t DEF Lengths
<1>j. /\ j' = [seq |-> jd.hdr.last, active |-> 0, entries |-> <<>>, err |-> FALSE]
      /\ j' \in RuntimeType
  <2>1. j' = [seq |-> jd.hdr.last, active |-> 0, entries |-> <<>>, err |-> FALSE]
    BY <1>t DEF Records, RuntimeType, Clean, Runtime
  <2>2. jd.hdr.last \in Nat
    BY <1>t, <1>0, <1>f0 DEF Numbers
  <2>3. <<>> \in Seq(Target)
    BY Blanks
  <2>. QED  BY <2>1, <2>2, <2>3 DEF RuntimeType
<1>1. TypeOK'
  BY <1>t, <1>0, <1>f0, <1>j DEF TypeOK, Records
<1>2. Places'
  BY <1>t, <1>0, <1>f0, <1>j DEF IInv, Places, Records
<1>. SUFFICES ASSUME ~ghost.stale' PROVE Inv'
  BY <1>1, <1>2 DEF IInv
<1>3. Inv /\ Places /\ ~ghost.stale
  BY <1>t, <1>0, <1>f0 DEF IInv, Numbers
<1>4. Current'
  BY <1>t, <1>3, <1>0, <1>f0 DEF Inv, Places, Values, Current
<1>5. Order'
  BY <1>t, <1>3, <1>0 DEF Inv, Places, Numbers, Order
<1>6. CommitBlock'
  BY <1>t, <1>3, <1>0, <1>f0 DEF Inv, Places, Values, Lengths, CommitBlock,
     OneTxn, Good
<1>7. Fixed'
  BY <1>t, <1>3, <1>0, <1>f0, <1>j DEF Inv, Places, Numbers, Lengths, Fixed
<1>8. Writing'
  BY <1>t, <1>3, <1>0, <1>f0, <1>j DEF Inv, Places, Values, Lengths, Writing,
     Sums
<1>. QED  BY <1>0, <1>1, <1>2, Elsewhere, <1>4, <1>5, <1>6, <1>7, <1>8 DEF
       Inv

LEMMA MountRefusedI ==
  ASSUME IInv, pc = "off", UNCHANGED version, Reread, Refuse PROVE IInv'
<1>t. TypeOK /\ Records /\ Numbers /\ Values /\ Blocks /\ Lengths
  BY Fields DEF IInv
<1>0. /\ pc = "off"
      /\ pc' = "refused"
      /\ sbc' = sbd
      /\ dirty' = {}
      /\ jc' = jd
      /\ cache' = disk
      /\ UNCHANGED <<version, disk, sbd, jd, pay, j, op, ghost>>
  BY DEF Reread, Refuse
<1>1. TypeOK'
  BY <1>t, <1>0 DEF TypeOK, Records
<1>2. Places'
  BY <1>t, <1>0 DEF IInv, Places, Records
<1>. SUFFICES ASSUME ~ghost.stale' PROVE Inv'
  BY <1>1, <1>2 DEF IInv
<1>3. Inv /\ Places /\ ~ghost.stale
  BY <1>t, <1>0 DEF IInv, Numbers
<1>4. Current'
  BY <1>t, <1>3, <1>0 DEF Inv, Places, Values, Current
<1>5. Order'
  BY <1>t, <1>3, <1>0 DEF Inv, Places, Numbers, Order
<1>6. Recording'
  BY <1>t, <1>3, <1>0 DEF Inv, Places, Values, Lengths, Recording, Good
<1>7. HeaderLog'
  BY <1>t, <1>3, <1>0 DEF Inv, Places, Values, Lengths, HeaderLog, Logged,
     Good
<1>8. Sequences'
  BY <1>t, <1>3, <1>0 DEF Inv, Places, Numbers, Lengths, Sequences, Pair,
     Zero
<1>9. CompleteLog'
  BY <1>t, <1>3, <1>0 DEF Inv, Places, Values, Lengths, CompleteLog, Pair,
     OneTxn, Good
<1>10. RunningLog'
  BY <1>t, <1>3, <1>0 DEF Inv, Places, Values, Lengths, RunningLog, Good,
     NextEntries, Block
<1>11. CommitBlock'
  BY <1>t, <1>3, <1>0 DEF Inv, Places, Values, Lengths, CommitBlock, OneTxn,
     Good
<1>12. Fixed'
  BY <1>t, <1>3, <1>0 DEF Inv, Places, Numbers, Lengths, Fixed
<1>13. Writing'
  BY <1>t, <1>3, <1>0 DEF Inv, Places, Values, Lengths, Writing, Sums
<1>. QED  BY <1>4, <1>5, <1>6, <1>7, <1>8, <1>9, <1>10, <1>11, <1>12, <1>13
       DEF Inv

LEMMA MountEmptyI ==
  ASSUME IInv, pc = "off", UNCHANGED version, version = 1, jd.hdr.n = 0,
           sbc' = [sbd EXCEPT !.rec = FALSE],
         Reread, cache' = disk, j' = Runtime(sbd.seq), pc' = "free", UNCHANGED <<op, ghost>>
           PROVE IInv'
<1>t. TypeOK /\ Records /\ Numbers /\ Values /\ Blocks /\ Lengths
  BY Fields DEF IInv
<1>0. /\ pc' = "free"
      /\ dirty' = {}
      /\ jc' = jd
      /\ cache' = disk
      /\ UNCHANGED <<version, disk, sbd, jd, pay, op, ghost>>
  BY DEF Reread
<1>j. /\ j' = [seq |-> sbd.seq, active |-> 0, entries |-> <<>>, err |-> FALSE]
      /\ j' \in RuntimeType
  <2>1. j' = [seq |-> sbd.seq, active |-> 0, entries |-> <<>>, err |-> FALSE]
    BY <1>t DEF Records, RuntimeType, Runtime
  <2>2. sbd.seq \in Nat
    BY <1>t, <1>0 DEF Numbers
  <2>3. <<>> \in Seq(Target)
    BY Blanks
  <2>. QED  BY <2>1, <2>2, <2>3 DEF RuntimeType
<1>sbc. /\ sbc' = [rec |-> FALSE, seq |-> sbd.seq]
        /\ sbc' \in SuperType
  <2>1. sbc' = [rec |-> FALSE, seq |-> sbd.seq]
    BY <1>t DEF Records, SuperType, Reread
  <2>2. sbd.seq \in Nat
    BY <1>t, <1>0, <1>j DEF Numbers
  <2>. QED  BY <2>1, <2>2 DEF SuperType
<1>1. TypeOK'
  BY <1>t, <1>0, <1>j, <1>sbc DEF TypeOK, Records
<1>2. Places'
  BY <1>t, <1>0, <1>j DEF IInv, Places, Records
<1>. SUFFICES ASSUME ~ghost.stale' PROVE Inv'
  BY <1>1, <1>2 DEF IInv
<1>3. Inv /\ Places /\ ~ghost.stale
  BY <1>t, <1>0 DEF IInv, Numbers
<1>4. Current'
  BY <1>t, <1>3, <1>0 DEF Inv, Places, Values, Current
<1>5. Order'
  BY <1>t, <1>3, <1>0 DEF Inv, Places, Numbers, Order
<1>6. Recording'
  BY <1>t, <1>3, <1>0, <1>j DEF Inv, Places, Values, Lengths, Recording, Good
<1>7. HeaderLog'
  BY <1>t, <1>3, <1>0, <1>j DEF Inv, Places, Values, Lengths, HeaderLog,
     Logged, Good
<1>. QED  BY <1>0, <1>1, <1>2, Elsewhere, <1>4, <1>5, <1>6, <1>7 DEF Inv

LEMMA MountIdle2I ==
  ASSUME IInv, pc = "off", UNCHANGED version, version = 2, sbd.rec, jd.hdr.active = 0,
         sbc' = [rec |-> FALSE, seq |-> jd.hdr.last], Reread, cache' = disk,
         j' = Runtime(jd.hdr.last), pc' = "final_sync", op' = [Locals EXCEPT !.what = "replay"],
           UNCHANGED ghost PROVE IInv'
<1>t. TypeOK /\ Records /\ Numbers /\ Values /\ Blocks /\ Lengths
  BY Fields DEF IInv
<1>0. /\ pc' = "final_sync"
      /\ dirty' = {}
      /\ jc' = jd
      /\ cache' = disk
      /\ UNCHANGED <<version, disk, sbd, jd, pay, ghost>>
  BY DEF Reread
<1>f0. jd.hdr.last \in Nat /\ jd.hdr.active \in Nat
  BY <1>t DEF Lengths
<1>j. /\ j' = [seq |-> jd.hdr.last, active |-> 0, entries |-> <<>>, err |-> FALSE]
      /\ j' \in RuntimeType
  <2>1. j' = [seq |-> jd.hdr.last, active |-> 0, entries |-> <<>>, err |-> FALSE]
    BY <1>t DEF Records, RuntimeType, Runtime
  <2>2. jd.hdr.last \in Nat
    BY <1>t, <1>0, <1>f0 DEF Numbers
  <2>3. <<>> \in Seq(Target)
    BY Blanks
  <2>. QED  BY <2>1, <2>2, <2>3 DEF RuntimeType
<1>sbc. /\ sbc' = [rec |-> FALSE, seq |-> jd.hdr.last]
        /\ sbc' \in SuperType
  <2>1. sbc' = [rec |-> FALSE, seq |-> jd.hdr.last]
    BY <1>t DEF Records, SuperType, Reread
  <2>2. jd.hdr.last \in Nat
    BY <1>t, <1>0, <1>f0, <1>j DEF Numbers
  <2>. QED  BY <2>1, <2>2 DEF SuperType
<1>op. /\ op' = [block |-> NoBlock, k |-> 1, last |-> 0, what |-> "replay"]
       /\ op' \in LocalsType
  <2>1. op' = [block |-> NoBlock, k |-> 1, last |-> 0, what |-> "replay"]
    BY <1>t DEF Records, LocalsType, Locals
  <2>2. /\ NoBlock \in (Home \cup {NoBlock})
        /\ "replay" \in {"none", "commit", "abort", "replay"}
    BY <1>t, <1>0, <1>f0, <1>j, <1>sbc DEF Numbers
  <2>. QED  BY ONLY <2>1, <2>2 DEF LocalsType
<1>1. TypeOK'
  BY <1>t, <1>0, <1>f0, <1>j, <1>sbc, <1>op DEF TypeOK, Records
<1>2. Places'
  BY <1>t, <1>0, <1>f0, <1>j, <1>op DEF IInv, Places, Records
<1>. SUFFICES ASSUME ~ghost.stale' PROVE Inv'
  BY <1>1, <1>2 DEF IInv
<1>3. Inv /\ Places /\ ~ghost.stale
  BY <1>t, <1>0, <1>f0 DEF IInv, Numbers
<1>4. Current'
  BY <1>t, <1>3, <1>0, <1>f0 DEF Inv, Places, Values, Current
<1>5. Order'
  BY <1>t, <1>3, <1>0, <1>op DEF Inv, Places, Numbers, Order
<1>6. Recording'
  BY <1>t, <1>3, <1>0, <1>f0, <1>j, <1>op DEF Inv, Places, Values, Lengths,
     Recording, Good
<1>7. Sequences'
  <2>1. /\ \A m \in Nat : Pair(m) => m <= jd.hdr.last
        /\ jd.hdr.active # 0 => jd.hdr.active = jd.hdr.last + 1
    BY <1>3 DEF Inv, Sequences
  <2>2. jd' = jd /\ jc' = jd' /\ sbc'.seq = jd.hdr.last /\ j'.seq = jd.hdr.last /\ sbd' = sbd
    BY <1>0, <1>j, <1>sbc
  <2>. QED  BY <1>0, <2>1, <2>2 DEF Sequences, Pair
<1>8. CompleteLog'
  BY <1>t, <1>3, <1>0, <1>f0 DEF Inv, Places, Values, Lengths, CompleteLog,
     Pair, OneTxn, Good
<1>9. RunningLog'
  BY <1>t, <1>3, <1>0, <1>f0, <1>j DEF Inv, Places, Values, Lengths,
     RunningLog, Good, NextEntries, Block
<1>. QED  BY <1>0, <1>1, <1>2, Elsewhere, <1>4, <1>5, <1>6, <1>7, <1>8, <1>9
       DEF Inv

LEMMA MountIncomplete2I ==
  ASSUME IInv, pc = "off", UNCHANGED version, version = 2, sbd.rec, jd.hdr.active # 0,
           ~V2Complete,
         sbc' = [sbd EXCEPT !.seq = jd.hdr.last], Reread, cache' = disk,
           j' = Runtime(jd.hdr.last),
         pc' = "reset_control", op' = [Locals EXCEPT !.what = "replay", !.last = jd.hdr.last],
           UNCHANGED ghost PROVE IInv'
<1>t. TypeOK /\ Records /\ Numbers /\ Values /\ Blocks /\ Lengths
  BY Fields DEF IInv
<1>0. /\ pc' = "reset_control"
      /\ dirty' = {}
      /\ jc' = jd
      /\ cache' = disk
      /\ UNCHANGED <<version, disk, sbd, jd, pay, ghost>>
  BY DEF Reread
<1>f0. jd.hdr.last \in Nat /\ jd.hdr.active \in Nat
  BY <1>t DEF Lengths
<1>j. /\ j' = [seq |-> jd.hdr.last, active |-> 0, entries |-> <<>>, err |-> FALSE]
      /\ j' \in RuntimeType
  <2>1. j' = [seq |-> jd.hdr.last, active |-> 0, entries |-> <<>>, err |-> FALSE]
    BY <1>t DEF Records, RuntimeType, Runtime
  <2>2. jd.hdr.last \in Nat
    BY <1>t, <1>0, <1>f0 DEF Numbers
  <2>3. <<>> \in Seq(Target)
    BY Blanks
  <2>. QED  BY <2>1, <2>2, <2>3 DEF RuntimeType
<1>sbc. /\ sbc' = [rec |-> sbd.rec, seq |-> jd.hdr.last]
        /\ sbc' \in SuperType
  <2>1. sbc' = [rec |-> sbd.rec, seq |-> jd.hdr.last]
    BY <1>t DEF Records, SuperType, Reread
  <2>2. sbd.rec \in BOOLEAN /\ jd.hdr.last \in Nat
    BY <1>t, <1>0, <1>f0, <1>j DEF Numbers
  <2>. QED  BY <2>1, <2>2 DEF SuperType
<1>op. /\ op' = [block |-> NoBlock, k |-> 1, last |-> jd.hdr.last, what |-> "replay"]
       /\ op' \in LocalsType
  <2>1. op' = [block |-> NoBlock, k |-> 1, last |-> jd.hdr.last, what |-> "replay"]
    BY <1>t DEF Records, LocalsType, Locals
  <2>2. /\ NoBlock \in (Home \cup {NoBlock}) /\ jd.hdr.last \in Nat
        /\ "replay" \in {"none", "commit", "abort", "replay"}
    BY <1>t, <1>0, <1>f0, <1>j, <1>sbc DEF Numbers
  <2>. QED  BY ONLY <2>1, <2>2 DEF LocalsType
<1>1. TypeOK'
  BY <1>t, <1>0, <1>f0, <1>j, <1>sbc, <1>op DEF TypeOK, Records
<1>2. Places'
  BY <1>t, <1>0, <1>f0, <1>j, <1>op DEF IInv, Places, Records
<1>. SUFFICES ASSUME ~ghost.stale' PROVE Inv'
  BY <1>1, <1>2 DEF IInv
<1>3. Inv /\ Places /\ ~ghost.stale
  BY <1>t, <1>0, <1>f0 DEF IInv, Numbers
<1>4. Current'
  BY <1>t, <1>3, <1>0, <1>f0 DEF Inv, Places, Values, Current
<1>5. Order'
  BY <1>t, <1>3, <1>0, <1>op DEF Inv, Places, Numbers, Order
<1>6. Recording'
  BY <1>t, <1>3, <1>0, <1>f0, <1>j, <1>op DEF Inv, Places, Values, Lengths,
     Recording, Good
<1>7. Sequences'
  <2>1. /\ \A m \in Nat : Pair(m) => m <= jd.hdr.active
        /\ jd.hdr.active = jd.hdr.last + 1
    BY <1>3 DEF Inv, Sequences
  <2>2. ~Pair(jd.hdr.active)
    BY <1>3 DEF Inv, CompleteLog, Pair, V2Complete
  <2>3. \A m \in Nat : Pair(m) => m <= jd.hdr.last
    <3>. SUFFICES ASSUME NEW m \in Nat, Pair(m) PROVE m <= jd.hdr.last
      OBVIOUS
    <3>1. m <= jd.hdr.active /\ m # jd.hdr.active
      BY <2>1, <2>2
    <3>. QED  BY <3>1, <2>1, <1>f0
  <2>4. /\ jd' = jd /\ jc' = jd' /\ sbc'.seq = jd.hdr.last /\ j'.seq = jd.hdr.last
        /\ sbd' = sbd /\ sbc'.rec /\ op'.last = jd.hdr.last
    BY <1>0, <1>j, <1>sbc, <1>op
  <2>. QED  BY <1>0, <2>1, <2>3, <2>4 DEF Sequences, Pair
<1>8. CompleteLog'
  BY <1>t, <1>3, <1>0, <1>f0 DEF Inv, Places, Values, Lengths, CompleteLog,
     Pair, OneTxn, Good
<1>9. RunningLog'
  BY <1>t, <1>3, <1>0, <1>f0, <1>j DEF Inv, Places, Values, Lengths,
     RunningLog, Good, NextEntries, Block
<1>. QED  BY <1>0, <1>1, <1>2, Elsewhere, <1>4, <1>5, <1>6, <1>7, <1>8, <1>9
       DEF Inv

LEMMA MountDiscardI ==
  ASSUME IInv, pc = "off", UNCHANGED version, Reread, version = 3, Discard(jd.hdr.last)
           PROVE IInv'
<1>t. TypeOK /\ Records /\ Numbers /\ Values /\ Blocks /\ Lengths
  BY Fields DEF IInv
<1>0. /\ pc' = "v3_super"
      /\ sbc' = sbd
      /\ dirty' = {}
      /\ jc' = jd
      /\ cache' = disk
      /\ UNCHANGED <<version, disk, sbd, jd, pay, ghost>>
  BY DEF Reread, Discard
<1>f0. jd.hdr.last \in Nat /\ jd.hdr.active \in Nat
  BY <1>t DEF Lengths
<1>j. /\ j' = [seq |-> jd.hdr.last, active |-> 0, entries |-> <<>>, err |-> FALSE]
      /\ j' \in RuntimeType
  <2>1. j' = [seq |-> jd.hdr.last, active |-> 0, entries |-> <<>>, err |-> FALSE]
    BY <1>t DEF Records, RuntimeType, Discard, Runtime
  <2>2. jd.hdr.last \in Nat
    BY <1>t, <1>0, <1>f0 DEF Numbers
  <2>3. <<>> \in Seq(Target)
    BY Blanks
  <2>. QED  BY <2>1, <2>2, <2>3 DEF RuntimeType
<1>op. /\ op' = [block |-> NoBlock, k |-> 1, last |-> jd.hdr.last, what |-> "replay"]
       /\ op' \in LocalsType
  <2>1. op' = [block |-> NoBlock, k |-> 1, last |-> jd.hdr.last, what |-> "replay"]
    BY <1>t DEF Records, LocalsType, Discard, Locals
  <2>2. /\ NoBlock \in (Home \cup {NoBlock}) /\ jd.hdr.last \in Nat
        /\ "replay" \in {"none", "commit", "abort", "replay"}
    BY <1>t, <1>0, <1>f0, <1>j DEF Numbers
  <2>. QED  BY <2>1, <2>2 DEF LocalsType
<1>1. TypeOK'
  BY <1>t, <1>0, <1>f0, <1>j, <1>op DEF TypeOK, Records
<1>2. Places'
  BY <1>t, <1>0, <1>f0, <1>j, <1>op DEF IInv, Places, Records
<1>. SUFFICES ASSUME ~ghost.stale' PROVE Inv'
  BY <1>1, <1>2 DEF IInv
<1>3. Inv /\ Places /\ ~ghost.stale
  BY <1>t, <1>0, <1>f0 DEF IInv, Numbers
<1>4. Current'
  BY <1>t, <1>3, <1>0, <1>f0 DEF Inv, Places, Values, Current
<1>5. Order'
  BY <1>t, <1>3, <1>0, <1>op DEF Inv, Places, Numbers, Order
<1>6. CommitBlock'
  BY <1>t, <1>3, <1>0, <1>f0 DEF Inv, Places, Values, Lengths, CommitBlock,
     OneTxn, Good
<1>7. Fixed'
  BY <1>t, <1>3, <1>0, <1>f0, <1>j, <1>op DEF Inv, Places, Numbers, Lengths,
     Fixed
<1>8. Writing'
  BY <1>t, <1>3, <1>0, <1>f0, <1>j, <1>op DEF Inv, Places, Values, Lengths,
     Writing, Sums
<1>. QED  BY <1>0, <1>1, <1>2, Elsewhere, <1>4, <1>5, <1>6, <1>7, <1>8 DEF
       Inv

LEMMA Replay1I ==
  ASSUME IInv, pc = "off", UNCHANGED version, version = 1, ReplayV1 PROVE IInv'
<1>t. TypeOK /\ Records /\ Numbers /\ Values /\ Blocks /\ Lengths
  BY Fields DEF IInv
<1>0. /\ pc = "off"
      /\ sbd.rec
      /\ pc' = "final_sync"
      /\ cache' = Image(jd.hdr.homes, jd.hdr.n)
      /\ dirty' = {b \in Home : cache'[b] # disk[b]}
      /\ UNCHANGED <<version, disk, sbd, jd, pay>>
  BY DEF ReplayV1
<1>f0. (jd.hdr.n) \in Nat /\ (jd.hdr.n) <= Area
  BY <1>t DEF Lengths, IInv, Places
<1>f1. cache' = Image(jd.hdr.homes, jd.hdr.n) /\ cache' \in [Home -> Nat]
  BY <1>t, <1>0, <1>f0, ImageValues
<1>f2. dirty' = {b \in Home : cache'[b] # disk[b]} /\ dirty' \in SUBSET Home
  BY <1>0
<1>f3. ghost'.replayed = {pay[i].txn : i \in 1 .. jd.hdr.n} /\ ghost'.replayed \in SUBSET Nat
  <2>1. ghost'.replayed = {pay[i].txn : i \in 1 .. jd.hdr.n}
    BY <1>t DEF Records, GhostType, ReplayV1
  <2>2. \A i \in 1 .. jd.hdr.n : pay[i].txn \in Nat
    BY <1>t, <1>f0, FixedAssumption DEF Values
  <2>. QED  BY <2>1, <2>2
<1>f4. [state |-> "v1", n |-> 0, homes |-> NoHomes, last |-> 0, active |-> 0] \in HeaderType
  BY Blanks DEF HeaderType
<1>j. /\ j' = [seq |-> sbd.seq, active |-> 0, entries |-> <<>>, err |-> FALSE]
      /\ j' \in RuntimeType
  <2>1. j' = [seq |-> sbd.seq, active |-> 0, entries |-> <<>>, err |-> FALSE]
    BY <1>t DEF Records, RuntimeType, ReplayV1, Runtime
  <2>2. sbd.seq \in Nat
    BY <1>t, <1>0, <1>f0, <1>f1, <1>f2, <1>f3, <1>f4 DEF Numbers
  <2>3. <<>> \in Seq(Target)
    BY Blanks
  <2>. QED  BY <2>1, <2>2, <2>3 DEF RuntimeType
<1>sbc. /\ sbc' = [rec |-> FALSE, seq |-> sbd.seq]
        /\ sbc' \in SuperType
  <2>1. sbc' = [rec |-> FALSE, seq |-> sbd.seq]
    BY <1>t DEF Records, SuperType, ReplayV1
  <2>2. sbd.seq \in Nat
    BY <1>t, <1>0, <1>f0, <1>f1, <1>f2, <1>f3, <1>f4, <1>j DEF Numbers
  <2>. QED  BY <2>1, <2>2 DEF SuperType
<1>op. /\ op' = [block |-> NoBlock, k |-> 1, last |-> 0, what |-> "replay"]
       /\ op' \in LocalsType
  <2>1. op' = [block |-> NoBlock, k |-> 1, last |-> 0, what |-> "replay"]
    BY <1>t DEF Records, LocalsType, ReplayV1, Locals
  <2>2. /\ NoBlock \in (Home \cup {NoBlock})
        /\ "replay" \in {"none", "commit", "abort", "replay"}
    BY <1>t, <1>0, <1>f0, <1>f1, <1>f2, <1>f3, <1>f4, <1>j, <1>sbc DEF
       Numbers
  <2>. QED  BY <2>1, <2>2 DEF LocalsType
<1>jc. /\ jc' = [hdr |-> [state |-> "v1", n |-> 0, homes |-> NoHomes, last |-> 0, active |-> 0],
                 desc |-> jd.desc, com |-> jd.com]
       /\ jc' \in AreaType
  <2>1. jc' = [hdr |-> [state |-> "v1", n |-> 0, homes |-> NoHomes, last |-> 0, active |-> 0],
               desc |-> jd.desc, com |-> jd.com]
    BY <1>t DEF Records, AreaType, ReplayV1, Header
  <2>2. /\ [state |-> "v1", n |-> 0, homes |-> NoHomes, last |-> 0, active |-> 0] \in HeaderType
        /\ jd.desc \in BlockType /\ jd.com \in BlockType
    BY <1>t, <1>0, <1>f0, <1>f1, <1>f2, <1>f3, <1>f4, <1>j, <1>sbc, <1>op,
       Blanks DEF Blocks, Lengths, HeaderType, BlockType
  <2>. QED  BY <2>1, <2>2 DEF AreaType
<1>ghost. /\ ghost' = [txn |-> ghost.txn, writes |-> ghost.writes, mods |-> ghost.mods,
                       committed |-> ghost.committed, replayed |-> ghost'.replayed,
                       last |-> ghost.last, stale |-> ghost.stale, crashes |-> ghost.crashes,
                       faults |-> ghost.faults]
          /\ ghost' \in GhostType
  <2>1. ghost' = [txn |-> ghost.txn, writes |-> ghost.writes, mods |-> ghost.mods,
                  committed |-> ghost.committed, replayed |-> ghost'.replayed,
                  last |-> ghost.last, stale |-> ghost.stale, crashes |-> ghost.crashes,
                  faults |-> ghost.faults]
    BY <1>t DEF Records, GhostType, ReplayV1
  <2>2. /\ ghost.txn \in Nat /\ ghost.writes \in Nat /\ ghost.mods \in SUBSET Home
        /\ ghost.committed \in [Home -> Nat] /\ ghost.last \in Nat
        /\ ghost.stale \in BOOLEAN /\ ghost.crashes \in Nat /\ ghost.faults \in Nat
    BY <1>t DEF Numbers, Values
  <2>3. ghost'.replayed \in SUBSET Nat
    BY <1>t, <1>0, <1>f0, <1>f1, <1>f2, <1>f3, <1>f4 DEF Numbers, Values
  <2>. QED  BY <2>1, <2>2, <2>3 DEF GhostType
<1>1. TypeOK'
  BY <1>t, <1>0, <1>f0, <1>f1, <1>f2, <1>f3, <1>f4, <1>j, <1>sbc, <1>op,
     <1>jc, <1>ghost DEF TypeOK, Records
<1>2. Places'
  BY <1>t, <1>0, <1>f0, <1>f1, <1>f2, <1>f3, <1>f4, <1>j, <1>op, <1>jc,
     <1>ghost DEF IInv, Places, Records
<1>. SUFFICES ASSUME ~ghost.stale' PROVE Inv'
  BY <1>1, <1>2 DEF IInv
<1>3. Inv /\ Places /\ ~ghost.stale
  BY <1>t, <1>0, <1>f0, <1>f1, <1>f2, <1>f3, <1>f4, <1>ghost DEF IInv,
     Numbers
<1>4. Current'
  <2>1. \A i \in 1 .. jd.hdr.n : Good(jd.hdr.homes[i], i)
    BY <1>3 DEF Inv, HeaderLog, Logged
  <2>2. \A b \in Home : ghost.committed[b] <= cache'[b] /\ cache'[b] <= ghost.writes
    BY <1>t, <1>3, <1>f0, <1>f1, <2>1, ImageCurrent DEF Inv
  <2>3. \A b \in Home \ dirty' : cache'[b] = disk[b]
    BY <1>f2
  <2>. QED  BY <1>3, <1>0, <1>ghost, <2>2, <2>3 DEF Inv, Current
<1>5. Order'
  <2>1. \E t \in Nat : t >= ghost.last /\ \A i \in 1 .. jd.hdr.n : pay[i].txn = t
    BY <1>t, <1>3 DEF Inv, HeaderLog, Logged, Order, Numbers
  <2>2. \E t \in Nat : t >= ghost.last /\ ghost'.replayed \subseteq {t}
    BY <1>f3, <2>1
  <2>3. ghost.last <= ghost.txn /\ op'.what = "replay"
    BY <1>3, <1>op DEF Inv, Order
  <2>. QED  BY <1>0, <1>ghost, <2>2, <2>3 DEF Order
<1>6. Recording'
  BY <1>t, <1>3, <1>0, <1>f0, <1>f1, <1>f2, <1>f3, <1>f4, <1>j, <1>op,
     <1>ghost DEF Inv, Places, Values, Lengths, Recording, Good
<1>7. HeaderLog'
  <2>1. Logged(jd.hdr) /\ pay' = pay /\ jd' = jd /\ jc'.hdr.n = 0
    BY <1>3, <1>0, <1>jc DEF Inv, HeaderLog
  <2>2. /\ ghost'.txn = ghost.txn /\ ghost'.writes = ghost.writes
        /\ ghost'.committed = ghost.committed
    BY <1>ghost
  <2>3. Logged(jc.hdr)' /\ Logged(jd.hdr)'
    BY <2>1, <2>2 DEF Logged, Good
  <2>. QED  BY <1>0, <2>1, <2>3 DEF HeaderLog
<1>. QED  BY <1>0, <1>1, <1>2, Elsewhere, <1>4, <1>5, <1>6, <1>7 DEF Inv

LEMMA Replay2I ==
  ASSUME IInv, pc = "off", UNCHANGED version, version = 2, ReplayV2 PROVE IInv'
<1>t. TypeOK /\ Records /\ Numbers /\ Values /\ Blocks /\ Lengths
  BY Fields DEF IInv
<1>v. /\ ~ghost.stale /\ Inv /\ version = 2
      /\ jd.hdr.active # 0 /\ Pair(jd.hdr.active)
  BY DEF IInv, Places, ReplayV2, V2Complete, Pair
<1>0. /\ pc = "off"
      /\ sbd.rec
      /\ pc' = "replay_sync"
      /\ jc' = jd
      /\ cache' = Image(jd.desc.entries, Len(jd.com.entries))
      /\ dirty' = {b \in Home : cache'[b] # disk[b]}
      /\ UNCHANGED <<version, disk, sbd, jd, pay>>
  BY <1>v DEF ReplayV2
<1>f0. (Len(jd.com.entries)) \in Nat /\ (Len(jd.com.entries)) <= Area
  BY <1>t, <1>v DEF Lengths, Inv, CompleteLog
<1>f1. cache' = Image(jd.desc.entries, Len(jd.com.entries)) /\ cache' \in [Home -> Nat]
  BY <1>t, <1>0, <1>f0, ImageValues
<1>f2. dirty' = {b \in Home : cache'[b] # disk[b]} /\ dirty' \in SUBSET Home
  BY <1>0
<1>f3. ghost'.replayed = {pay[i].txn : i \in 1 .. Len(jd.com.entries)}
         /\ ghost'.replayed \in SUBSET Nat
  <2>1. ghost'.replayed = {pay[i].txn : i \in 1 .. Len(jd.com.entries)}
    BY <1>t DEF Records, GhostType, ReplayV2
  <2>2. \A i \in 1 .. Len(jd.com.entries) : pay[i].txn \in Nat
    BY <1>t, <1>f0, FixedAssumption DEF Values
  <2>. QED  BY <2>1, <2>2
<1>f4. jd.hdr.last \in Nat /\ jd.hdr.active \in Nat
  BY <1>t DEF Lengths
<1>j. /\ j' = [seq |-> jd.hdr.active, active |-> 0, entries |-> <<>>, err |-> FALSE]
      /\ j' \in RuntimeType
  <2>1. j' = [seq |-> jd.hdr.active, active |-> 0, entries |-> <<>>, err |-> FALSE]
    BY <1>t DEF Records, RuntimeType, ReplayV2, Runtime
  <2>2. jd.hdr.active \in Nat
    BY <1>t, <1>0, <1>f0, <1>f1, <1>f2, <1>f3, <1>f4 DEF Numbers
  <2>3. <<>> \in Seq(Target)
    BY Blanks
  <2>. QED  BY <2>1, <2>2, <2>3 DEF RuntimeType
<1>sbc. /\ sbc' = [rec |-> sbd.rec, seq |-> jd.hdr.active]
        /\ sbc' \in SuperType
  <2>1. sbc' = [rec |-> sbd.rec, seq |-> jd.hdr.active]
    BY <1>t DEF Records, SuperType, ReplayV2
  <2>2. sbd.rec \in BOOLEAN /\ jd.hdr.active \in Nat
    BY <1>t, <1>0, <1>f0, <1>f1, <1>f2, <1>f3, <1>f4, <1>j DEF Numbers
  <2>. QED  BY <2>1, <2>2 DEF SuperType
<1>op. /\ op' = [block |-> NoBlock, k |-> 1, last |-> jd.hdr.active, what |-> "replay"]
       /\ op' \in LocalsType
  <2>1. op' = [block |-> NoBlock, k |-> 1, last |-> jd.hdr.active, what |-> "replay"]
    BY <1>t DEF Records, LocalsType, ReplayV2, Locals
  <2>2. /\ NoBlock \in (Home \cup {NoBlock}) /\ jd.hdr.active \in Nat
        /\ "replay" \in {"none", "commit", "abort", "replay"}
    BY <1>t, <1>0, <1>f0, <1>f1, <1>f2, <1>f3, <1>f4, <1>j, <1>sbc DEF
       Numbers
  <2>. QED  BY <2>1, <2>2 DEF LocalsType
<1>ghost. /\ ghost' = [txn |-> ghost.txn, writes |-> ghost.writes, mods |-> ghost.mods,
                       committed |-> ghost.committed, replayed |-> ghost'.replayed,
                       last |-> ghost.last, stale |-> ghost.stale, crashes |-> ghost.crashes,
                       faults |-> ghost.faults]
          /\ ghost' \in GhostType
  <2>1. ghost' = [txn |-> ghost.txn, writes |-> ghost.writes, mods |-> ghost.mods,
                  committed |-> ghost.committed, replayed |-> ghost'.replayed,
                  last |-> ghost.last, stale |-> ghost.stale, crashes |-> ghost.crashes,
                  faults |-> ghost.faults]
    BY <1>t DEF Records, GhostType, ReplayV2
  <2>2. /\ ghost.txn \in Nat /\ ghost.writes \in Nat /\ ghost.mods \in SUBSET Home
        /\ ghost.committed \in [Home -> Nat] /\ ghost.last \in Nat
        /\ ghost.stale \in BOOLEAN /\ ghost.crashes \in Nat /\ ghost.faults \in Nat
    BY <1>t DEF Numbers, Values
  <2>3. ghost'.replayed \in SUBSET Nat
    BY <1>t, <1>0, <1>f0, <1>f1, <1>f2, <1>f3, <1>f4 DEF Numbers, Values
  <2>. QED  BY <2>1, <2>2, <2>3 DEF GhostType
<1>1. TypeOK'
  BY <1>t, <1>0, <1>f0, <1>f1, <1>f2, <1>f3, <1>f4, <1>j, <1>sbc, <1>op,
     <1>ghost DEF TypeOK, Records
<1>2. Places'
  BY <1>t, <1>0, <1>f0, <1>f1, <1>f2, <1>f3, <1>f4, <1>j, <1>op, <1>ghost DEF
     IInv, Places, Records
<1>. SUFFICES ASSUME ~ghost.stale' PROVE Inv'
  BY <1>1, <1>2 DEF IInv
<1>3. Inv /\ Places /\ ~ghost.stale
  BY <1>t, <1>0, <1>f0, <1>f1, <1>f2, <1>f3, <1>f4, <1>ghost DEF IInv,
     Numbers
<1>4. Current'
  <2>1. \A i \in 1 .. Len(jd.com.entries) : Good(jd.desc.entries[i], i)
    BY <1>v DEF Inv, CompleteLog
  <2>2. \A b \in Home : ghost.committed[b] <= cache'[b] /\ cache'[b] <= ghost.writes
    BY <1>t, <1>3, <1>f0, <1>f1, <2>1, ImageCurrent DEF Inv
  <2>3. \A b \in Home \ dirty' : cache'[b] = disk[b]
    BY <1>f2
  <2>. QED  BY <1>3, <1>0, <1>ghost, <2>2, <2>3 DEF Inv, Current
<1>5. Order'
  <2>1. \E t \in Nat : t >= ghost.last /\ \A i \in 1 .. Len(jd.com.entries) : pay[i].txn = t
    BY <1>v DEF Inv, CompleteLog, OneTxn
  <2>2. \E t \in Nat : t >= ghost.last /\ ghost'.replayed \subseteq {t}
    BY <1>f3, <2>1
  <2>3. ghost.last <= ghost.txn /\ op'.what = "replay"
    BY <1>3, <1>op DEF Inv, Order
  <2>. QED  BY <1>0, <1>ghost, <2>2, <2>3 DEF Order
<1>6. Recording'
  BY <1>t, <1>3, <1>0, <1>f0, <1>f1, <1>f2, <1>f3, <1>f4, <1>j, <1>op,
     <1>ghost DEF Inv, Places, Values, Lengths, Recording, Good
<1>7. Sequences'
  <2>1. \A m \in Nat : Pair(m) => m <= jd.hdr.active
    BY <1>v DEF Inv, Sequences
  <2>2. jd' = jd /\ jc' = jd' /\ sbc'.seq = j'.seq /\ j'.seq = jd.hdr.active
          /\ op'.last = j'.seq /\ sbc'.rec /\ sbd' = sbd
    BY <1>0, <1>j, <1>sbc, <1>op
  <2>. QED  BY <1>v, <1>3, <1>0, <2>1, <2>2 DEF Inv, Sequences, Pair
<1>8. CompleteLog'
  <2>1. Keeps
    BY <1>t, <1>0, <1>ghost DEF Values, Keeps
  <2>2. /\ \A b, i : i \in 1 .. Area /\ Good(b, i) => Good(b, i)'
        /\ \A n : OneTxn(n) => OneTxn(n)'
    BY <1>t, <2>1, KeepsGood
  <2>3. jd' = jd /\ version' = version
    BY <1>0
  <2>. QED  BY <1>t, <1>3, <2>2, <2>3 DEF Inv, CompleteLog, Pair, Lengths
<1>9. RunningLog'
  BY <1>t, <1>3, <1>0, <1>f0, <1>f1, <1>f2, <1>f3, <1>f4, <1>j, <1>ghost DEF
     Inv, Places, Values, Lengths, RunningLog, Good, NextEntries, Block
<1>. QED  BY <1>0, <1>1, <1>2, Elsewhere, <1>4, <1>5, <1>6, <1>7, <1>8, <1>9
       DEF Inv

LEMMA Replay3I ==
  ASSUME IInv, pc = "off", UNCHANGED version, version = 3, jd.com.kind = "commit",
           V3CommitValid, Reread,
         cache' = disk, sbc' = sbd, j' = [Runtime(jd.hdr.last) EXCEPT !.active = jd.hdr.active],
         op' = [Locals EXCEPT !.what = "replay", !.last = jd.hdr.active],
           pc' = "replay_control",
         ghost' = [ghost EXCEPT !.replayed = {pay[i].txn : i \in 1 .. Len(jd.desc.entries)}]
           PROVE IInv'
<1>t. TypeOK /\ Records /\ Numbers /\ Values /\ Blocks /\ Lengths
  BY Fields DEF IInv
<1>v. /\ ~ghost.stale /\ Inv /\ version = 3 /\ jd.com.entries = jd.desc.entries
      /\ Len(jd.com.entries) \in 1 .. Area /\ OneTxn(Len(jd.com.entries))
  BY DEF IInv, Places, V3CommitValid, Inv, CommitBlock
<1>0. /\ pc' = "replay_control"
      /\ dirty' = {}
      /\ jc' = jd
      /\ cache' = disk
      /\ sbc' = sbd
      /\ UNCHANGED <<version, disk, sbd, jd, pay>>
  BY <1>v DEF Reread
<1>f0. Len(jd.desc.entries) \in Nat /\ Len(jd.desc.entries) <= Area
  BY <1>v, FixedAssumption
<1>f1. jd.hdr.last \in Nat /\ jd.hdr.active \in Nat
  BY <1>t DEF Lengths
<1>f2. ghost'.replayed = {pay[i].txn : i \in 1 .. Len(jd.desc.entries)}
         /\ ghost'.replayed \in SUBSET Nat
  <2>1. ghost'.replayed = {pay[i].txn : i \in 1 .. Len(jd.desc.entries)}
    BY <1>t DEF Records, GhostType
  <2>2. \A i \in 1 .. Len(jd.desc.entries) : pay[i].txn \in Nat
    BY <1>t, <1>v DEF Values
  <2>. QED  BY <2>1, <2>2
<1>j. /\ j' = [seq |-> jd.hdr.last, active |-> jd.hdr.active, entries |-> <<>>, err |-> FALSE]
      /\ j' \in RuntimeType
  <2>1. j' = [seq |-> jd.hdr.last, active |-> jd.hdr.active, entries |-> <<>>, err |-> FALSE]
    BY <1>t DEF Records, RuntimeType, Runtime
  <2>2. jd.hdr.last \in Nat /\ jd.hdr.active \in Nat
    BY <1>t, <1>0, <1>f0, <1>f1, <1>f2 DEF Numbers
  <2>3. <<>> \in Seq(Target)
    BY Blanks
  <2>. QED  BY ONLY <2>1, <2>2, <2>3 DEF RuntimeType
<1>op. /\ op' = [block |-> NoBlock, k |-> 1, last |-> jd.hdr.active, what |-> "replay"]
       /\ op' \in LocalsType
  <2>1. op' = [block |-> NoBlock, k |-> 1, last |-> jd.hdr.active, what |-> "replay"]
    BY <1>t DEF Records, LocalsType, Locals
  <2>2. /\ NoBlock \in (Home \cup {NoBlock}) /\ jd.hdr.active \in Nat
        /\ "replay" \in {"none", "commit", "abort", "replay"}
    BY <1>t, <1>0, <1>f0, <1>f1, <1>f2, <1>j DEF Numbers
  <2>. QED  BY ONLY <2>1, <2>2 DEF LocalsType
<1>ghost. /\ ghost' = [txn |-> ghost.txn, writes |-> ghost.writes, mods |-> ghost.mods,
                       committed |-> ghost.committed, replayed |-> ghost'.replayed,
                       last |-> ghost.last, stale |-> ghost.stale, crashes |-> ghost.crashes,
                       faults |-> ghost.faults]
          /\ ghost' \in GhostType
  <2>1. ghost' = [txn |-> ghost.txn, writes |-> ghost.writes, mods |-> ghost.mods,
                  committed |-> ghost.committed, replayed |-> ghost'.replayed,
                  last |-> ghost.last, stale |-> ghost.stale, crashes |-> ghost.crashes,
                  faults |-> ghost.faults]
    BY <1>t DEF Records, GhostType, Reread
  <2>2. /\ ghost.txn \in Nat /\ ghost.writes \in Nat /\ ghost.mods \in SUBSET Home
        /\ ghost.committed \in [Home -> Nat] /\ ghost.last \in Nat
        /\ ghost.stale \in BOOLEAN /\ ghost.crashes \in Nat /\ ghost.faults \in Nat
    BY <1>t DEF Numbers, Values
  <2>3. ghost'.replayed \in SUBSET Nat
    BY <1>t, <1>0, <1>f0, <1>f1, <1>f2 DEF Numbers, Values
  <2>. QED  BY ONLY <2>1, <2>2, <2>3 DEF GhostType
<1>1. TypeOK'
  BY <1>t, <1>0, <1>f0, <1>f1, <1>f2, <1>j, <1>op, <1>ghost DEF TypeOK,
     Records
<1>2. Places'
  BY <1>t, <1>0, <1>f0, <1>f1, <1>f2, <1>j, <1>op, <1>ghost DEF IInv, Places,
     Records
<1>. SUFFICES ASSUME ~ghost.stale' PROVE Inv'
  BY <1>1, <1>2 DEF IInv
<1>3. Inv /\ Places /\ ~ghost.stale
  BY <1>t, <1>0, <1>f0, <1>f1, <1>f2, <1>ghost DEF IInv, Numbers
<1>4. Current'
  BY <1>t, <1>3, <1>0, <1>f0, <1>f1, <1>f2, <1>ghost DEF Inv, Places, Values,
     Current
<1>5. Order'
  <2>1. \E t \in Nat : t >= ghost.last /\ \A i \in 1 .. Len(jd.desc.entries) : pay[i].txn = t
    BY <1>v DEF OneTxn
  <2>2. \E t \in Nat : t >= ghost.last /\ ghost'.replayed \subseteq {t}
    BY <1>f2, <2>1
  <2>3. ghost.last <= ghost.txn /\ op'.what = "replay"
    BY <1>3, <1>op DEF Inv, Order
  <2>. QED  BY <1>0, <1>ghost, <2>2, <2>3 DEF Order
<1>6. CommitBlock'
  <2>1. Keeps
    BY <1>t, <1>0, <1>ghost DEF Values, Keeps
  <2>2. /\ \A b, i : i \in 1 .. Area /\ Good(b, i) => Good(b, i)'
        /\ \A n : OneTxn(n) => OneTxn(n)'
    BY <1>t, <2>1, KeepsGood
  <2>3. jd'.com = jd.com /\ version' = version
    BY <1>0, <1>f0, <1>f1, <1>f2, <1>j, <1>op, <1>ghost
  <2>. QED  BY <1>t, <1>3, <2>2, <2>3 DEF Inv, CommitBlock, Lengths
<1>7. Fixed'
  <2>1. jd' = jd /\ jc' = jd
    BY <1>0
  <2>2. op'.k = 1 /\ op'.what = "replay"
    BY ONLY <1>op
  <2>3. 1 \in 1 .. Len(jd.com.entries)
    BY <1>v
  <2>. QED  BY <1>0, <1>v, <2>1, <2>2, <2>3 DEF Fixed
<1>8. Writing'
  BY <1>t, <1>3, <1>0, <1>f0, <1>f1, <1>f2, <1>j, <1>op, <1>ghost DEF Inv,
     Places, Values, Lengths, Writing, Sums
<1>. QED  BY <1>0, <1>1, <1>2, Elsewhere, <1>4, <1>5, <1>6, <1>7, <1>8 DEF
       Inv

-----------------------------------------------------------------------------
(* Initial states, mounting, stuttering, and the next-state relation. *)
-----------------------------------------------------------------------------
LEMMA InitI == Init => IInv
<1>. SUFFICES ASSUME Init PROVE IInv
  OBVIOUS
<1>0. /\ version \in Versions /\ cache = [b \in Home |-> 0] /\ dirty = {} /\ disk = cache
      /\ sbc = [rec |-> FALSE, seq |-> 0] /\ sbd = sbc /\ jd = jc /\ pc = "free"
      /\ pay = [i \in 1 .. Area |-> [val |-> 0, txn |-> 0]]
      /\ j = [seq |-> 0, active |-> 0, entries |-> <<>>, err |-> FALSE]
      /\ op = [block |-> NoBlock, k |-> 1, last |-> 0, what |-> "none"]
      /\ ghost = [txn |-> 0, writes |-> 0, mods |-> {}, committed |-> [b \in Home |-> 0],
                  replayed |-> {}, last |-> 0, stale |-> FALSE, crashes |-> 0, faults |-> 0]
  BY DEF Init, Runtime, Locals
<1>1. version \in 1 .. 3
  BY <1>0, FixedAssumption
<1>2. jc.hdr \in HeaderType /\ jc.hdr.n \in {0, Area} /\ (version = 1 => jc.hdr.n = 0)
        /\ jc.hdr.active = 0
  <2>0. jc.hdr = CASE version = 1 -> Header(0, NoHomes)
                   [] version = 2 -> Control("v2", 0, 0, Area)
                   [] version = 3 -> Control("IDLE", 0, 0, Area)
    BY DEF Init
  <2>1. CASE version = 1
    BY <2>0, <2>1, Blanks DEF Header, HeaderType
  <2>2. CASE version = 2
    BY <2>0, <2>2, Blanks, FixedAssumption DEF Control, HeaderType
  <2>3. CASE version = 3
    BY <2>0, <2>3, Blanks, FixedAssumption DEF Control, HeaderType
  <2>. QED  BY <1>1, <2>1, <2>2, <2>3
<1>3. /\ jc = [hdr |-> jc.hdr, desc |-> [kind |-> "desc", seq |-> 0, entries |-> <<>>],
               com |-> [kind |-> "empty", seq |-> 0, entries |-> <<>>]]
      /\ jc.desc \in BlockType /\ jc.com \in BlockType /\ jc.com.kind = "empty"
  <2>1. jc = [hdr |-> jc.hdr, desc |-> [kind |-> "desc", seq |-> 0, entries |-> <<>>],
              com |-> [kind |-> "empty", seq |-> 0, entries |-> <<>>]]
    BY DEF Init, Block
  <2>2. /\ [kind |-> "desc", seq |-> 0, entries |-> <<>>] \in BlockType
        /\ [kind |-> "empty", seq |-> 0, entries |-> <<>>] \in BlockType
    BY Blanks, BlockTyped
  <2>. QED  BY <2>1, <2>2
<1>4. jc \in AreaType /\ jd \in AreaType
  BY <1>0, <1>2, <1>3 DEF AreaType
<1>5. j \in RuntimeType /\ op \in LocalsType /\ sbc \in SuperType /\ sbd \in SuperType
  BY <1>0, Blanks DEF RuntimeType, LocalsType, SuperType
<1>6. ghost \in GhostType
  <2>1. [b \in Home |-> 0] \in [Home -> Nat] /\ {} \in SUBSET Home /\ {} \in SUBSET Nat
    OBVIOUS
  <2>. QED  BY <1>0, <2>1 DEF GhostType
<1>7. TypeOK
  BY <1>0, <1>1, <1>4, <1>5, <1>6 DEF TypeOK, Payloads
<1>8. Places /\ ~ghost.stale
  BY <1>0, <1>1, <1>2, FixedAssumption DEF Places
<1>9. Current /\ Order
  <2>1. /\ ghost.committed = [b \in Home |-> 0] /\ ghost.writes = 0 /\ ghost.last = 0
             /\ ghost.txn = 0
        /\ ghost.replayed = {}
    BY <1>0
  <2>. QED  BY <1>0, <2>1 DEF Current, Order
<1>10. Recording /\ Writing
  BY <1>0 DEF Recording, Writing
<1>11. HeaderLog
  BY <1>0, <1>2 DEF HeaderLog, Logged
<1>12. Sequences /\ CompleteLog /\ RunningLog
  <2>1. ~\E m : Pair(m)
    BY <1>0, <1>3 DEF Pair
  <2>2. jd.hdr.active = 0 /\ jc = jd /\ sbc.seq = 0 /\ j.seq = 0
    BY <1>0, <1>2
  <2>. QED  BY <1>0, <2>1, <2>2 DEF Sequences, CompleteLog, RunningLog
<1>13. CommitBlock /\ Fixed
  BY <1>0, <1>3 DEF CommitBlock, Fixed
<1>. QED  BY <1>7, <1>8, <1>9, <1>10, <1>11, <1>12, <1>13 DEF IInv, Inv

LEMMA MountI ==
  ASSUME IInv, Mount PROVE IInv'
<1>0. pc = "off" /\ UNCHANGED version
  BY DEF Mount
<1>1. CASE version = 1 /\ MountV1 /\ Reread
  <2>1. CASE ~sbd.rec /\ Clean(sbd.seq)
    BY <1>0, <1>1, <2>1, MountCleanI
  <2>2. CASE Refuse
    BY <1>0, <1>1, <2>2, MountRefusedI
  <2>3. CASE /\ jd.hdr.n = 0 /\ cache' = disk /\ sbc' = [sbd EXCEPT !.rec = FALSE]
             /\ j' = Runtime(sbd.seq) /\ pc' = "free" /\ UNCHANGED <<op, ghost>>
    BY <1>0, <1>1, <2>3, MountEmptyI
  <2>. QED  BY <1>1, <2>1, <2>2, <2>3 DEF MountV1
<1>2. CASE version = 1 /\ ReplayV1
  BY <1>0, <1>2, Replay1I
<1>3. CASE version = 2 /\ MountV2 /\ Reread
  <2>1. CASE ~sbd.rec /\ Clean(sbd.seq)
    BY <1>0, <1>3, <2>1, MountCleanI
  <2>2. CASE /\ sbd.rec /\ jd.hdr.active = 0
             /\ cache' = disk /\ sbc' = [rec |-> FALSE, seq |-> jd.hdr.last]
             /\ j' = Runtime(jd.hdr.last) /\ pc' = "final_sync"
             /\ op' = [Locals EXCEPT !.what = "replay"] /\ UNCHANGED ghost
    BY <1>0, <1>3, <2>2, MountIdle2I
  <2>3. CASE /\ sbd.rec /\ jd.hdr.active # 0 /\ ~V2Complete
             /\ cache' = disk /\ sbc' = [sbd EXCEPT !.seq = jd.hdr.last]
             /\ j' = Runtime(jd.hdr.last) /\ pc' = "reset_control"
             /\ op' = [Locals EXCEPT !.what = "replay", !.last = jd.hdr.last]
             /\ UNCHANGED ghost
    BY <1>0, <1>3, <2>3, MountIncomplete2I
  <2>. QED  BY <1>3, <2>1, <2>2, <2>3 DEF MountV2
<1>4. CASE version = 2 /\ ReplayV2
  BY <1>0, <1>4, Replay2I
<1>5. CASE version = 3 /\ MountV3 /\ Reread
  <2>1. CASE Refuse
    BY <1>0, <1>5, <2>1, MountRefusedI
  <2>2. CASE V3CleanArea /\ Clean(jd.hdr.last)
    BY <1>0, <1>5, <2>2, MountClean3I
  <2>3. CASE Discard(jd.hdr.last)
    BY <1>0, <1>5, <2>3, MountDiscardI
  <2>4. CASE /\ jd.com.kind = "commit" /\ V3CommitValid /\ cache' = disk /\ sbc' = sbd
             /\ j' = [Runtime(jd.hdr.last) EXCEPT !.active = jd.hdr.active]
             /\ op' = [Locals EXCEPT !.what = "replay", !.last = jd.hdr.active]
             /\ pc' = "replay_control"
             /\ ghost' = [ghost EXCEPT !.replayed =
                  {pay[i].txn : i \in 1 .. Len(jd.desc.entries)}]
    BY <1>0, <1>5, <2>4, Replay3I
  <2>. QED  BY <1>5, <2>1, <2>2, <2>3, <2>4 DEF MountV3
<1>. QED  BY <1>1, <1>2, <1>3, <1>4, <1>5 DEF Mount

LEMMA StutterI ==
  ASSUME IInv, UNCHANGED vars PROVE IInv'
<1>. USE DEF vars
<1>1. TypeOK' /\ Places' /\ (ghost.stale' <=> ghost.stale)
  BY DEF IInv, TypeOK, Places
<1>2. Inv => Current' /\ Order' /\ Recording' /\ HeaderLog'
  BY DEF Inv, Current, Order, Recording, HeaderLog, Logged, Good
<1>3. Inv => Sequences' /\ CompleteLog' /\ RunningLog'
  BY DEF Inv, Sequences, CompleteLog, RunningLog, Pair, OneTxn, Good, NextEntries
<1>4. Inv => CommitBlock' /\ Fixed' /\ Writing'
  BY DEF Inv, CommitBlock, Fixed, Writing, OneTxn, Good, Sums
<1>. QED  BY <1>1, <1>2, <1>3, <1>4 DEF IInv, Inv

LEMMA NextI ==
  ASSUME IInv, [Next]_vars PROVE IInv'
<1>1. CASE Begin
  BY <1>1, Begin1I, Begin2I, Begin3I DEF Begin
<1>2. CASE BeginControl \/ BeginSync \/ BeginFails
  BY <1>2, BeginControlI, BeginSyncI, BeginFails1I, BeginFails2I
<1>3. CASE \E b \in Home : Modify(b)
  BY <1>3, Modify3I, ModifyOldI, ModifyNewI
<1>4. CASE RecordPayload \/ RecordCommit
  BY <1>4, RecordPayloadI, RecordCommitI
<1>5. CASE RecordHeader
  <2>1. version \in {1, 2}
    BY <1>5 DEF RecordHeader, IInv, Places, TypeOK
  <2>. QED  BY <1>5, <2>1, RecordHeaderI, RecordDescI
<1>6. CASE RecordFails
  BY <1>6, RecordFailsI, RecordHeaderFailsI
<1>7. CASE Abort
  BY <1>7, Abort1I, Abort2I, Abort3I DEF Abort
<1>8. CASE StartCommit \/ FinalSync \/ CommitFails
  BY <1>8, StartCommitI, FinalCommitI, FinalReplayI, CommitFailsI
<1>9. CASE Barrier
  <2>1. version \in 1 .. 3
    BY DEF IInv, TypeOK
  <2>. QED  BY <1>9, <2>1, Barrier1I, Barrier2I, Barrier3ErrorI, Barrier3FullI, Barrier3I
<1>10. CASE Reset
  <2>1. pc \in ResetPC
    BY <1>10 DEF Reset
  <2>. QED  BY <1>10, <2>1, ResetControlI, ResetDescI, ResetCommitI, ResetAbortI
<1>11. CASE V3Write
  <2>1. pc \in WritePC \cup {"v3_checkpoint"}
    BY <1>11 DEF V3Write
  <2>. QED  BY <1>11, <2>1, V3PayloadI, V3DescI, V3PreparedI, V3CommitI, V3CheckpointI
<1>12. CASE V3Home \/ V3Super
  BY <1>12, V3HomeSuperI, V3HomeBlockI, V3SuperI
<1>13. CASE V3Empty
  <2>1. pc \in {"v3_empty_desc", "v3_empty_commit", "v3_idle"}
    BY <1>13 DEF V3Empty
  <2>. QED  BY <1>13, <2>1, V3EmptyDescI, V3EmptyCommitI, V3IdleI
<1>14. CASE V3Fails
  BY <1>14, V3FailsEarlyI, V3FailsLateI
<1>15. CASE Crash
  <2>1. jd' = jd \/ jd' = [jd EXCEPT !.desc.kind = "torn"]
    BY <1>15 DEF Crash
  <2>. QED  BY <1>15, <2>1, CrashWholeI, CrashTornI
<1>16. CASE Unmount \/ Mount \/ ReplaySync \/ ReplayControl
  BY <1>16, UnmountI, MountI, ReplaySyncI, ReplayControlI
<1>17. CASE (\E b \in Home : WritebackHome(b)) \/ WritebackSuper
  BY <1>17, WritebackHomeI, WritebackSuperI
<1>18. CASE \E f \in {"hdr", "desc", "com"} : WritebackJournal(f)
  BY <1>18, WritebackHeaderI, WritebackDescI, WritebackCommitI
<1>19. CASE UNCHANGED vars
  BY <1>19, StutterI
<1>. QED
  BY <1>1, <1>2, <1>3, <1>4, <1>5, <1>6, <1>7, <1>8, <1>9, <1>10, <1>11, <1>12, <1>13,
     <1>14, <1>15, <1>16, <1>17, <1>18, <1>19 DEF Next

-----------------------------------------------------------------------------
(* IInv holds in every reachable state of the three versions: the order in *)
(* which begin, record, commit, abort, checkpoint and replay write the     *)
(* control block, the log and the home blocks, with a crash, a torn        *)
(* descriptor or a failed write anywhere between, keeps the log of a       *)
(* complete transaction good to replay.                                    *)
THEOREM FixedInductive == Spec => []IInv
<1>1. Init => IInv
  BY InitI
<1>2. IInv /\ [Next]_vars => IInv'
  BY NextI
<1>. QED  BY <1>1, <1>2, PTL DEF Spec

(* What a commit made durable is in the cache whenever the volume is idle, *)
(* through every abort, failed commit, crash and replay; a version 1       *)
(* volume whose header was left valid is excepted, as in the property.     *)
THEOREM FixedCommittedVisible == Spec => []CommittedVisible
<1>1. IInv => CommittedVisible
  BY DEF IInv, Inv, Current, CommittedVisible, TypeOK, GhostType
<1>. QED  BY <1>1, FixedInductive, PTL

(* Replay restores the payloads of one transaction, never of one older     *)
(* than the last that was reported as committed, although record rewrites  *)
(* the payload area while an older header or descriptor is on the device.  *)
THEOREM FixedReplayAtomic == Spec => []ReplayAtomic
<1>1. ASSUME IInv PROVE ReplayAtomic
  <2>. SUFFICES ASSUME ~ghost.stale
                PROVE  /\ Cardinality(ghost.replayed) <= 1
                       /\ \A t \in ghost.replayed : t >= ghost.last
    BY DEF ReplayAtomic
  <2>1. PICK t \in Nat : t >= ghost.last /\ ghost.replayed \subseteq {t}
    BY <1>1 DEF IInv, Inv, Order
  <2>2. IsFiniteSet({t}) /\ Cardinality({t}) = 1
    BY FS_Singleton
  <2>3. Cardinality(ghost.replayed) <= 1
    BY <2>1, <2>2, FS_Subset
  <2>. QED  BY <2>1, <2>3
<1>. QED  BY <1>1, FixedInductive, PTL
=============================================================================
