---------------------------- MODULE Fsck_proofs ----------------------------
(***************************************************************************)
(* Proofs about Fsck, for every layout of groups, every damage and every   *)
(* number of runs, failed calls and kills.  The inductive invariant says   *)
(* what a run that has reported nothing knows of the image at each point   *)
(* of main, and what a repair that reported nothing has left behind.       *)
(***************************************************************************)
EXTENDS Fsck, Integers, FiniteSetTheorems, TLAPS

SuperType == [good : BOOLEAN, sum : BOOLEAN, state : BOOLEAN, incompat : BOOLEAN, head : Nat,
              free : [inodes : Int, blocks : Int]]
InodeType == [kind : {"free", "dir", "extents", "blocks"}, refs : SUBSET Block,
              names : SUBSET Inode, links : Nat, layout : BOOLEAN]
HeaderType == [magic : BOOLEAN, sum : BOOLEAN, valid : BOOLEAN, entries : BOOLEAN]
ImageType == [super : SuperType, boot : BOOLEAN, policy : BOOLEAN, inode : [Inode -> InodeType],
              bbits : [Group -> SUBSET Block], ibits : [Group -> SUBSET Inode],
              header : HeaderType]
What == {"super", "orphans", "journal", "reserved", "policy", "inode", "dir", "counts", "bitmaps"}
RunType == [repair : BOOLEAN, errors : SUBSET What, failed : BOOLEAN]

(* The places of main, and what lies behind each of its checks. *)
AfterScan == {"bbitmap", "ibitmap", "recovery", "header", "out"}
AfterPolicy == {"inodes"} \cup AfterScan
AfterJournal == {"reserved", "policy"} \cup AfterPolicy
AfterOrphans == {"journal"} \cup AfterJournal
AfterSuper == {"orphans"} \cup AfterOrphans
Pcs == {"off", "super"} \cup AfterSuper

TypeOK ==
  /\ disk \in ImageType /\ start \in ImageType
  /\ pc \in Pcs /\ repair \in BOOLEAN /\ iseen \in SUBSET Inode /\ bseen \in SUBSET Block
  /\ at \in Nat /\ errors \in SUBSET What /\ failed \in BOOLEAN
  /\ last \in RunType \X RunType
  /\ budget \in [damage : Nat, fault : Nat, run : Nat]

(* Only directories have entries. *)
Shape == \A i \in Inode : disk.inode[i].kind # "dir" => disk.inode[i].names = {}

(* What the loops start from, and where only --repair comes. *)
Places ==
  /\ pc \notin AfterPolicy => iseen = {}
  /\ pc = "off" => errors = {} /\ ~failed /\ ~repair
  /\ pc = "inodes" => at \in 1 .. Inodes + 1
  /\ pc = "ibitmap" => at \in Group
  /\ pc \in {"ibitmap", "recovery", "header"} => repair
  /\ pc = "header" => ~disk.header.magic \/ ~disk.header.valid

(* The inodes of d below n are sound and own their blocks alone. *)
Sound(d, n) ==
  \A i \in Live(d) : i < n =>
    /\ d.inode[i].layout /\ PolicyBlock \notin d.inode[i].refs
    /\ d.inode[i].refs \cap Meta = {} /\ d.inode[i].names \subseteq Live(d)
    /\ \A j \in Live(d) : j < i => d.inode[i].refs \cap d.inode[j].refs = {}

(* The scan has marked the inodes below n and their blocks, no others. *)
Below(d, n) == {i \in Live(d) : i < n}
BlocksBelow(d, n) == {b \in Block : b = PolicyBlock \/ \E i \in Below(d, n) : b \in d.inode[i].refs}
Scanned(n) ==
  /\ Sound(disk, n) /\ (Root < n => Root \in Live(disk))
  /\ iseen = Below(disk, n) /\ bseen = BlocksBelow(disk, n)

(* What a run that has reported nothing and met no failure knows. *)
Known ==
  /\ pc \in AfterSuper =>
       disk.super.good /\ (~repair => (Csum => disk.super.sum) /\ disk.super.state = disk.super.incompat)
  /\ pc \in AfterOrphans => disk.super.head = 0
  /\ pc \in AfterJournal => repair \/ ~HeaderBad(disk)
  /\ pc \in AfterPolicy => disk.policy
  /\ pc = "inodes" => Scanned(at)
  /\ pc \in AfterScan => Scanned(Inodes + 1) /\ (repair \/ disk.super.free = Counts(iseen, bseen))
Bitmaps ==
  /\ pc \in {"bbitmap", "ibitmap"} => \A g \in Group : g < at => ~Dirty(g)
  /\ pc = "ibitmap" => NewBBits(at) = disk.bbits[at]
  /\ pc \in {"recovery", "header", "out"} => \A g \in Group : ~Dirty(g)
Recovery ==
  /\ pc = "header" => ~disk.super.state
  /\ pc = "out" /\ repair => ~SetSuper(disk) /\ ~SetHeader(disk)
Stage == ~failed /\ errors = {} => Known /\ Bitmaps /\ Recovery

(* What a repair that reported nothing leaves to the next runs. *)
Clean(r) == r.repair /\ r.errors = {} /\ ~r.failed
Settled == ~SetSuper(disk) /\ ~SetHeader(disk) /\ pc # "header"
AllSet ==
  \A g \in Group :
    /\ Reserved(g) \subseteq disk.bbits[g]
    /\ BlocksBelow(disk, Inodes + 1) \cap GroupBlocks[g] \subseteq disk.bbits[g]
    /\ Below(disk, Inodes + 1) \cap GroupInodes[g] \subseteq disk.ibits[g]
Repaired ==
  /\ disk.super.good /\ disk.super.head = 0 /\ disk.policy
  /\ Sound(disk, Inodes + 1) /\ Root \in Live(disk) /\ AllSet

(* The recovery state needs no repair. *)
Agrees == disk.super.state = disk.super.incompat /\ ~disk.header.valid /\ ~disk.header.entries

Follows ==
  /\ Clean(last[1]) \/ Clean(last[2]) => Settled
  /\ Clean(last[2]) => Repaired
  /\ ~Csum /\ Clean(last[2]) /\ ~repair /\ ~failed /\ Agrees =>
       errors \subseteq {"counts"} /\ (pc # "out" => errors = {})
Converges ==
  ~Csum /\ Clean(last[1]) /\ ~last[2].repair /\ ~last[2].failed /\ Agrees =>
    last[2].errors \subseteq {"counts"}

(* What a run may not undo, wherever it is killed. *)
Keeps ==
  /\ ~Csum /\ Mountable(start) => Mountable(disk)
  /\ Replayable(start) => Replayable(disk)
  /\ \A g \in Group : start.bbits[g] \subseteq disk.bbits[g] /\ start.ibits[g] \subseteq disk.ibits[g]

IInv == /\ TypeOK /\ Shape /\ Places /\ Stage /\ Follows /\ Converges /\ Keeps
        /\ CleanMeansConsistent

-----------------------------------------------------------------------------
LEMMA GroupsInNat == Group \subseteq Nat /\ Group = 0 .. Cardinality(DOMAIN GroupBlocks) - 1
                     /\ Cardinality(DOMAIN GroupBlocks) \in Nat
  BY FsckAssumption, FS_CardinalityType DEF Group

LEMMA BlocksOfGroups ==
  /\ \A g \in Group : GroupBlocks[g] \subseteq Block /\ GroupInodes[g] \subseteq Inode
  /\ \A b \in Block : \E g \in Group : b \in GroupBlocks[g]
  /\ \A i \in Inode : \E g \in Group : i \in GroupInodes[g]
  BY FsckAssumption DEF Block

(* Past the last group the loop over the bitmaps has seen them all. *)
LEMMA AllGroups ==
  ASSUME NEW n \in Nat, n \notin Group
  PROVE  \A g \in Group : g < n
  BY GroupsInNat

(* A step that leaves the image alone and does not end the run. *)
LEMMA Frozen ==
  ASSUME IInv, UNCHANGED <<disk, start, last>>, pc' # "off"
  PROVE  Shape' /\ Keeps' /\ Converges' /\ CleanMeansConsistent'
<1>1. Shape' /\ CleanMeansConsistent'
  BY DEF IInv, Shape, CleanMeansConsistent
<1>2. Keeps'
  BY DEF IInv, Keeps
<1>3. Converges'
  BY DEF IInv, Converges, Agrees
<1>. QED  BY <1>1, <1>2, <1>3

LEMMA RunStep == ASSUME IInv, Run PROVE IInv'
<1>1. /\ pc = "off" /\ budget.run > 0 /\ repair' \in BOOLEAN /\ pc' = "super"
      /\ budget' = [budget EXCEPT !.run = @ - 1]
      /\ UNCHANGED <<disk, iseen, bseen, at, errors, failed, start, last>>
  BY DEF Run, Goto
<1>2. TypeOK /\ budget' \in [damage : Nat, fault : Nat, run : Nat]
  BY <1>1 DEF IInv, TypeOK
<1>3. TypeOK'
  BY <1>1, <1>2 DEF IInv, TypeOK, Pcs, What, AfterScan, AfterPolicy, AfterJournal,
     AfterOrphans, AfterSuper
<1>4. Places'
  BY <1>1, <1>2 DEF IInv, Places, AfterScan, AfterPolicy, AfterJournal, AfterOrphans, AfterSuper
<1>5. Stage'
  BY <1>1, <1>2 DEF IInv, Stage, Known, Bitmaps, Recovery, Scanned, Dirty, NewBBits, NewIBits,
     AfterScan, AfterPolicy, AfterJournal, AfterOrphans, AfterSuper
<1>6. Follows'
  BY <1>1, <1>2 DEF IInv, Places, Follows, Settled, Repaired, AllSet, Agrees
<1>7. Shape' /\ Keeps' /\ Converges' /\ CleanMeansConsistent'
  BY <1>1, <1>2, Frozen
<1>. QED
  BY <1>3, <1>4, <1>5, <1>6, <1>7 DEF IInv

LEMMA ValidateSuperStep == ASSUME IInv, ValidateSuper PROVE IInv'
<1>1. /\ pc = "super" /\ UNCHANGED <<disk, failed, iseen, bseen, at, repair, start, last, budget>>
      /\ \/ SuperBad(disk.super) /\ errors' = errors \cup {"super"} /\ pc' = "out"
         \/ ~SuperBad(disk.super) /\ errors' = errors /\ pc' = "orphans"
  BY DEF ValidateSuper, Goto, Report, Quiet, Reading, Loops, Same
<1>2. TypeOK'
  BY <1>1 DEF IInv, TypeOK, Pcs, What, AfterScan, AfterPolicy, AfterJournal, AfterOrphans,
     AfterSuper
<1>3. Places'
  BY <1>1 DEF IInv, Places, AfterScan, AfterPolicy, AfterJournal, AfterOrphans, AfterSuper
<1>4. Stage'
  BY <1>1 DEF IInv, Stage, Known, Bitmaps, Recovery, SuperBad, AfterScan, AfterPolicy,
     AfterJournal, AfterOrphans, AfterSuper
<1>5. Follows'
  BY <1>1 DEF IInv, Follows, Settled, Repaired, AllSet, Agrees, SuperBad
<1>6. Shape' /\ Keeps' /\ Converges' /\ CleanMeansConsistent'
  BY <1>1, Frozen
<1>. QED
  BY <1>2, <1>3, <1>4, <1>5, <1>6 DEF IInv

LEMMA ValidateOrphansStep == ASSUME IInv, ValidateOrphans PROVE IInv'
<1>1. /\ pc = "orphans" /\ UNCHANGED <<disk, failed, iseen, bseen, at, repair, start, last, budget>>
      /\ \/ disk.super.head # 0 /\ errors' = errors \cup {"orphans"} /\ pc' = "out"
         \/ disk.super.head = 0 /\ errors' = errors /\ pc' = "journal"
  BY DEF ValidateOrphans, Goto, Report, Quiet, Reading, Loops, Same
<1>2. TypeOK'
  BY <1>1 DEF IInv, TypeOK, Pcs, What, AfterScan, AfterPolicy, AfterJournal, AfterOrphans,
     AfterSuper
<1>3. Places'
  BY <1>1 DEF IInv, Places, AfterScan, AfterPolicy, AfterJournal, AfterOrphans, AfterSuper
<1>4. Stage'
  BY <1>1 DEF IInv, Stage, Known, Bitmaps, Recovery, Scanned, Dirty, NewBBits, NewIBits,
     AfterScan, AfterPolicy, AfterJournal, AfterOrphans, AfterSuper
<1>5. Follows'
  BY <1>1 DEF IInv, Follows, Settled, Repaired, AllSet, Agrees, AfterScan, AfterPolicy,
     AfterJournal, AfterOrphans, AfterSuper
<1>6. Shape' /\ Keeps' /\ Converges' /\ CleanMeansConsistent'
  BY <1>1, Frozen
<1>. QED
  BY <1>2, <1>3, <1>4, <1>5, <1>6 DEF IInv

LEMMA ValidateJournalStep == ASSUME IInv, ValidateJournal PROVE IInv'
<1>1. /\ pc = "journal" /\ UNCHANGED <<disk, failed, iseen, bseen, at, repair, start, last, budget>>
      /\ \/ HeaderBad(disk) /\ ~repair /\ errors' = errors \cup {"journal"} /\ pc' = "out"
         \/ ~(HeaderBad(disk) /\ ~repair) /\ errors' = errors /\ pc' = "reserved"
  BY DEF ValidateJournal, Goto, Report, Quiet, Reading, Loops, Same
<1>2. TypeOK'
  BY <1>1 DEF IInv, TypeOK, Pcs, What, AfterScan, AfterPolicy, AfterJournal, AfterOrphans,
     AfterSuper
<1>3. Places'
  BY <1>1 DEF IInv, Places, AfterScan, AfterPolicy, AfterJournal, AfterOrphans, AfterSuper
<1>4. Stage'
  BY <1>1 DEF IInv, Stage, Known, Bitmaps, Recovery, Scanned, Dirty, NewBBits, NewIBits,
     AfterScan, AfterPolicy, AfterJournal, AfterOrphans, AfterSuper
<1>5. Follows'
  <2>1. Settled /\ Agrees => ~HeaderBad(disk)
    <3>1. disk.header.valid \in BOOLEAN /\ disk.header.entries \in BOOLEAN
      BY DEF IInv, TypeOK, ImageType, HeaderType
    <3>. QED  BY <3>1 DEF Settled, Agrees, HeaderBad, SetSuper, SetHeader
  <2>. QED  BY <1>1, <2>1 DEF IInv, Follows, Settled, Repaired, AllSet, Agrees
<1>6. Shape' /\ Keeps' /\ Converges' /\ CleanMeansConsistent'
  BY <1>1, Frozen
<1>. QED
  BY <1>2, <1>3, <1>4, <1>5, <1>6 DEF IInv

LEMMA ValidateReservedStep == ASSUME IInv, ValidateReserved PROVE IInv'
<1>1. /\ pc = "reserved" /\ UNCHANGED <<disk, failed, iseen, bseen, at, repair, start, last, budget>>
      /\ \/ ReservedBad(disk) /\ ~repair /\ errors' = errors \cup {"reserved"} /\ pc' = "out"
         \/ ~(ReservedBad(disk) /\ ~repair) /\ errors' = errors /\ pc' = "policy"
  BY DEF ValidateReserved, Goto, Report, Quiet, Reading, Loops, Same
<1>2. TypeOK'
  BY <1>1 DEF IInv, TypeOK, Pcs, What, AfterScan, AfterPolicy, AfterJournal, AfterOrphans,
     AfterSuper
<1>3. Places'
  BY <1>1 DEF IInv, Places, AfterScan, AfterPolicy, AfterJournal, AfterOrphans, AfterSuper
<1>4. Stage'
  BY <1>1 DEF IInv, Stage, Known, Bitmaps, Recovery, Scanned, Dirty, NewBBits, NewIBits,
     AfterScan, AfterPolicy, AfterJournal, AfterOrphans, AfterSuper
<1>5. Follows'
  <2>1. Repaired => ~ReservedBad(disk)
    <3> SUFFICES ASSUME Repaired PROVE ~ReservedBad(disk)
      OBVIOUS
    <3>1. AllReserved \subseteq BBits(disk)
      BY DEF Repaired, AllSet, AllReserved, BBits
    <3>2. PICK g \in Group : Root \in GroupInodes[g]
      BY BlocksOfGroups, FsckAssumption DEF Inode, Root
    <3>3. Root \in Below(disk, Inodes + 1)
      BY FsckAssumption DEF Below, Repaired, Root
    <3>. QED  BY <3>1, <3>2, <3>3 DEF ReservedBad, Repaired, AllSet, IBits
  <2>. QED  BY <1>1, <2>1 DEF IInv, Follows, Settled, Repaired, AllSet, Agrees
<1>6. Shape' /\ Keeps' /\ Converges' /\ CleanMeansConsistent'
  BY <1>1, Frozen
<1>. QED
  BY <1>2, <1>3, <1>4, <1>5, <1>6 DEF IInv

LEMMA ValidatePolicyStep == ASSUME IInv, ValidatePolicy PROVE IInv'
<1>1. /\ pc = "policy" /\ UNCHANGED <<disk, failed, iseen, repair, start, last, budget>>
      /\ \/ ~disk.policy /\ errors' = errors \cup {"policy"} /\ pc' = "out" /\ at' = at /\ bseen' = bseen
         \/ disk.policy /\ errors' = errors /\ pc' = "inodes" /\ at' = Root /\ bseen' = {PolicyBlock}
  BY DEF ValidatePolicy, Goto, Report, Quiet, Reading, Loops, Same
<1>2. Root \in Nat /\ Root \in 1 .. Inodes + 1 /\ PolicyBlock \in Block
  BY FsckAssumption DEF Root
<1>3. Sound(disk, Root) /\ Below(disk, Root) = {} /\ BlocksBelow(disk, Root) = {PolicyBlock}
  BY <1>2 DEF Sound, Below, BlocksBelow, Live, Inode, Root
<1>4. TypeOK'
  BY <1>1, <1>2, <1>3 DEF IInv, TypeOK, Pcs, What, AfterScan, AfterPolicy, AfterJournal,
     AfterOrphans, AfterSuper
<1>5. Places'
  BY <1>1, <1>2, <1>3 DEF IInv, Places, AfterScan, AfterPolicy, AfterJournal, AfterOrphans,
     AfterSuper
<1>6. Stage'
  BY <1>1, <1>2, <1>3 DEF IInv, Places, Stage, Known, Bitmaps, Recovery, Scanned, AfterScan,
     AfterPolicy, AfterJournal, AfterOrphans, AfterSuper
<1>7. Follows'
  BY <1>1, <1>2, <1>3 DEF IInv, Follows, Settled, Repaired, AllSet, Agrees, AfterScan,
     AfterPolicy, AfterJournal, AfterOrphans, AfterSuper
<1>8. Shape' /\ Keeps' /\ Converges' /\ CleanMeansConsistent'
  BY <1>1, <1>2, <1>3, Frozen
<1>. QED
  BY <1>4, <1>5, <1>6, <1>7, <1>8 DEF IInv

(* What the checks of an inode find out about it, and when they find       *)
(* nothing.                                                                *)
LEMMA InodeSound ==
  ASSUME TypeOK, Shape, at \in Live(disk), Scanned(at),
         ~InodeBad(disk.inode[at]), ~(disk.inode[at].kind = "dir" /\ DirBad(disk.inode[at]))
  PROVE  Sound(disk, at + 1)
<1> DEFINE n == disk.inode[at]
<1>1. at \in Inode /\ disk.inode \in [Inode -> InodeType] /\ n \in InodeType
  BY DEF TypeOK, ImageType, Live
<1>2. n.layout /\ n.refs \cap bseen = {} /\ n.refs \cap Meta = {} /\ PolicyBlock \in bseen
  BY FsckAssumption DEF InodeBad, data_block_valid, Scanned, BlocksBelow
<1>3. n.names \subseteq Live(disk)
  BY <1>1 DEF DirBad, Shape
<1>4. \A j \in Live(disk) : j < at => n.refs \cap disk.inode[j].refs = {}
  <2> SUFFICES ASSUME NEW j \in Live(disk), j < at, NEW b \in n.refs PROVE b \notin disk.inode[j].refs
    OBVIOUS
  <2>1. b \in Block
    BY <1>1 DEF InodeType
  <2>. QED  BY <1>2, <2>1 DEF Scanned, BlocksBelow, Below
<1>5. SUFFICES ASSUME NEW i \in Live(disk), i < at + 1, i # at PROVE i < at
  BY <1>1, <1>2, <1>3, <1>4 DEF Sound, Scanned
<1>. QED  BY <1>1, <1>5 DEF Live, Inode

LEMMA InodeQuiet ==
  ASSUME TypeOK, at \in Live(disk), Scanned(at), Sound(disk, Inodes + 1)
  PROVE  ~InodeBad(disk.inode[at]) /\ ~DirBad(disk.inode[at])
<1> DEFINE n == disk.inode[at]
<1>1. at \in Inode /\ at < Inodes + 1 /\ n \in InodeType /\ n.refs \subseteq Block
  <2>1. at \in Inode /\ n \in InodeType
    BY DEF TypeOK, ImageType, Live
  <2>. QED  BY <2>1, FsckAssumption DEF Inode, InodeType
<1>2. n.refs \cap bseen = {}
  BY <1>1 DEF Sound, Scanned, BlocksBelow, Below
<1>3. n.layout /\ n.refs \cap Meta = {} /\ n.names \subseteq Live(disk)
  BY <1>1 DEF Sound
<1>. QED  BY <1>1, <1>2, <1>3 DEF InodeBad, DirBad, data_block_valid

LEMMA ValidateInodeStep == ASSUME IInv, ValidateInode PROVE IInv'
<1> DEFINE n == disk.inode[at]
<1>1. /\ pc = "inodes" /\ pc' = pc /\ at' = at + 1 /\ at \in Inode /\ at \in Nat /\ at + 1 \in 1 .. Inodes + 1
      /\ UNCHANGED <<disk, failed, repair, start, last, budget>> /\ TypeOK /\ n \in InodeType
  <2>1. pc = "inodes" /\ at \in Inode
    BY FsckAssumption DEF ValidateInode, IInv, Places, Inode
  <2>. QED  BY <2>1, FsckAssumption DEF ValidateInode, Reading, Same, IInv, TypeOK, ImageType,
       Inode
<1>2. CASE n.kind = "free"
  <2>1. /\ iseen' = iseen /\ bseen' = bseen
        /\ \/ at = Root /\ errors' = errors \cup {"inode"}
           \/ at # Root /\ errors' = errors
    BY <1>2 DEF ValidateInode, Report, Quiet
  <2>2. at \notin Live(disk)
    BY <1>2 DEF Live
  <2>3. Below(disk, at + 1) = Below(disk, at) /\ BlocksBelow(disk, at + 1) = BlocksBelow(disk, at)
    <3>1. Below(disk, at + 1) = Below(disk, at)
      BY <1>1, <2>2 DEF Below, Live, Inode
    <3>. QED  BY <3>1 DEF BlocksBelow
  <2>4. Sound(disk, at) => Sound(disk, at + 1)
    BY <1>1, <2>2 DEF Sound, Live, Inode
  <2>5. TypeOK' /\ Places'
    <3>1. errors' \subseteq What
      BY <1>1, <2>1 DEF TypeOK, What
    <3>2. TypeOK'
      BY <1>1, <2>1, <3>1 DEF TypeOK
    <3>3. Places'
      BY <1>1, <2>1 DEF IInv, Places, AfterPolicy
    <3>. QED  BY <3>2, <3>3
  <2>6. Stage'
    BY <1>1, <2>1, <2>3, <2>4 DEF IInv, Stage, Known, Bitmaps, Recovery, Scanned, Root, Inode,
       AfterScan, AfterPolicy, AfterJournal, AfterOrphans, AfterSuper
  <2>7. Follows'
    BY <1>1, <2>1, <2>2 DEF IInv, Follows, Settled, Repaired, AllSet, Agrees
  <2>. QED  BY <1>1, <2>5, <2>6, <2>7, Frozen DEF IInv
<1>3. CASE n.kind # "free"
  <2>1. PICK m \in Marks(n) : iseen' = iseen \cup {at} /\ bseen' = bseen \cup m
    BY <1>3 DEF ValidateInode
  <2>2. \/ InodeBad(n) /\ errors' = errors \cup {"inode"}
        \/ ~InodeBad(n) /\ n.kind = "dir" /\ DirBad(n) /\ errors' = errors \cup {"dir"}
        \/ ~InodeBad(n) /\ ~(n.kind = "dir" /\ DirBad(n)) /\ errors' = errors
    BY <1>3 DEF ValidateInode, Report, Quiet
  <2>3. at \in Live(disk) /\ m \subseteq n.refs /\ n.refs \subseteq Block
    BY <1>1, <1>3, <2>1 DEF Live, Marks, InodeType
  <2>4. TypeOK' /\ Places'
    <3>1. iseen' \subseteq Inode /\ bseen' \subseteq Block /\ errors' \subseteq What
      BY <1>1, <2>1, <2>2, <2>3 DEF TypeOK, What
    <3>2. TypeOK'
      BY <1>1, <3>1 DEF TypeOK
    <3>3. Places'
      BY <1>1 DEF IInv, Places, AfterPolicy
    <3>. QED  BY <3>2, <3>3
  <2>5. ASSUME ~failed', errors' = {} PROVE Scanned(at)'
    <3>1. Scanned(at) /\ ~InodeBad(n) /\ ~(n.kind = "dir" /\ DirBad(n))
      BY <1>1, <2>2, <2>5 DEF IInv, Stage, Known
    <3>2. Sound(disk, at + 1)
      BY <1>1, <2>3, <3>1, InodeSound DEF IInv
    <3>3. m = n.refs
      BY <1>1, <2>1, <3>1 DEF Marks, InodeBad, InodeType
    <3>4. Below(disk, at + 1) = Below(disk, at) \cup {at}
      BY <1>1, <2>3 DEF Below, Live, Inode
    <3>5. BlocksBelow(disk, at + 1) = BlocksBelow(disk, at) \cup n.refs
      BY <2>3, <3>4 DEF BlocksBelow
    <3>6. Root < at + 1 => Root \in Live(disk)
      BY <1>1, <2>3, <3>1 DEF Scanned, Root, Inode
    <3>. QED  BY <1>1, <2>1, <3>1, <3>2, <3>3, <3>4, <3>5, <3>6 DEF Scanned
  <2>6. Stage'
    BY <1>1, <2>2, <2>5 DEF IInv, Stage, Known, Bitmaps, Recovery, Scanned, AfterScan,
       AfterPolicy, AfterJournal, AfterOrphans, AfterSuper
  <2>7. ASSUME Repaired, ~failed, errors = {} PROVE errors' = {}
    <3>1. Scanned(at) /\ Sound(disk, Inodes + 1)
      BY <1>1, <2>7 DEF IInv, Stage, Known, Repaired
    <3>. QED  BY <1>1, <2>2, <2>3, <2>7, <3>1, InodeQuiet
  <2>8. Follows'
    BY <1>1, <2>7 DEF IInv, Follows, Settled, Repaired, AllSet, Agrees
  <2>. QED  BY <1>1, <2>4, <2>6, <2>8, Frozen DEF IInv
<1>. QED  BY <1>2, <1>3

LEMMA RepairCountsStep == ASSUME IInv, RepairCounts PROVE IInv'
<1>1. /\ pc = "inodes" /\ at > Inodes /\ at' = 0 /\ UNCHANGED <<iseen, bseen, failed, repair, start, last, budget>>
      /\ \/ disk.super.free = Counts(iseen, bseen) /\ disk' = disk /\ errors' = errors /\ pc' = "bbitmap"
         \/ repair /\ disk' = [disk EXCEPT !.boot = TRUE] /\ errors' = errors /\ pc' = "bbitmap"
         \/ disk.super.free # Counts(iseen, bseen) /\ ~repair /\ disk' = disk
              /\ errors' = errors \cup {"counts"} /\ pc' = "out"
  BY DEF RepairCounts, Goto, Report, Quiet, Same
<1>2. /\ disk' \in ImageType /\ disk'.super = disk.super /\ disk'.policy = disk.policy
      /\ disk'.inode = disk.inode /\ disk'.bbits = disk.bbits /\ disk'.ibits = disk.ibits
      /\ disk'.header = disk.header
  BY <1>1 DEF IInv, TypeOK, ImageType
<1>3. /\ Live(disk') = Live(disk) /\ Below(disk', Inodes + 1) = Below(disk, Inodes + 1)
      /\ BlocksBelow(disk', Inodes + 1) = BlocksBelow(disk, Inodes + 1)
      /\ Sound(disk', Inodes + 1) <=> Sound(disk, Inodes + 1)
  BY <1>2 DEF Live, Below, BlocksBelow, Sound
<1>4. at = Inodes + 1 /\ \A g \in Group : ~(g < 0)
  BY <1>1, GroupsInNat, FsckAssumption DEF IInv, Places
<1>5. TypeOK'
  BY <1>1, <1>2, <1>3, <1>4 DEF IInv, TypeOK, Pcs, What, AfterScan, AfterPolicy, AfterJournal,
     AfterOrphans, AfterSuper
<1>6. Places'
  BY <1>1, <1>2, <1>3, <1>4 DEF IInv, Places, AfterScan, AfterPolicy, AfterJournal,
     AfterOrphans, AfterSuper
<1>7. Stage'
  BY <1>1, <1>2, <1>3, <1>4 DEF IInv, Stage, Known, Bitmaps, Recovery, Scanned, HeaderBad,
     AfterScan, AfterPolicy, AfterJournal, AfterOrphans, AfterSuper
<1>8. Follows'
  BY <1>1, <1>2, <1>3, <1>4 DEF IInv, Follows, Settled, Repaired, AllSet, Agrees, SetSuper,
     SetHeader
<1>9. Shape'
  BY <1>1, <1>2, <1>3, <1>4 DEF IInv, Shape
<1>10. Keeps'
  BY <1>1, <1>2, <1>3, <1>4 DEF IInv, Keeps, Mountable, Replayable
<1>11. Converges'
  BY <1>1, <1>2, <1>3, <1>4 DEF IInv, Converges, Agrees
<1>12. CleanMeansConsistent'
  BY <1>1, <1>2, <1>3, <1>4 DEF IInv, CleanMeansConsistent
<1>. QED
  BY <1>5, <1>6, <1>7, <1>8, <1>9, <1>10, <1>11, <1>12 DEF IInv

LEMMA RepairBlockBitmapStep == ASSUME IInv, RepairBlockBitmap PROVE IInv'
<1>1. /\ pc = "bbitmap" /\ at \in Group /\ Dirty(at) /\ UNCHANGED <<iseen, bseen, failed, repair, start, last, budget>>
      /\ \/ /\ repair /\ disk' = [disk EXCEPT !.bbits[at] = NewBBits(at)] /\ errors' = errors
            /\ pc' = "ibitmap" /\ at' = at
         \/ ~repair /\ errors' = errors \cup {"bitmaps"} /\ at' = at + 1 /\ disk' = disk /\ pc' = pc
  BY DEF RepairBlockBitmap, Goto, Report, Quiet, Same
<1>2. NewBBits(at) \subseteq Block /\ disk.bbits[at] \subseteq NewBBits(at) /\ TypeOK
  BY <1>1, BlocksOfGroups, FsckAssumption DEF NewBBits, IInv, TypeOK, ImageType, Reserved
<1>3. /\ disk' \in ImageType /\ disk'.super = disk.super /\ disk'.policy = disk.policy
      /\ disk'.inode = disk.inode /\ disk'.ibits = disk.ibits /\ disk'.header = disk.header
      /\ \A g \in Group : disk.bbits[g] \subseteq disk'.bbits[g] /\ (g # at => disk'.bbits[g] = disk.bbits[g])
      /\ pc' = "ibitmap" => disk'.bbits[at] = NewBBits(at)
  BY <1>1, <1>2 DEF TypeOK, ImageType
<1>4. /\ Live(disk') = Live(disk) /\ Below(disk', Inodes + 1) = Below(disk, Inodes + 1)
      /\ BlocksBelow(disk', Inodes + 1) = BlocksBelow(disk, Inodes + 1)
      /\ Sound(disk', Inodes + 1) <=> Sound(disk, Inodes + 1)
  BY <1>3 DEF Live, Below, BlocksBelow, Sound
<1>5. at \in Nat /\ at + 1 \in Nat /\ \A g \in Group : g \in Nat
  BY <1>1, GroupsInNat
<1>6. ASSUME Repaired, Scanned(Inodes + 1) PROVE ~Dirty(at)
  BY <1>1, <1>6 DEF Repaired, AllSet, Scanned, Dirty, NewBBits, NewIBits
<1>7. ~failed /\ errors = {} => Scanned(Inodes + 1)
  BY <1>1 DEF IInv, Stage, Known, AfterScan
<1>8. TypeOK'
  BY <1>1, <1>2, <1>3, <1>4, <1>5, <1>6, <1>7 DEF IInv, TypeOK, Pcs, What, AfterScan,
     AfterPolicy, AfterJournal, AfterOrphans, AfterSuper
<1>9. Places'
  BY <1>1, <1>2, <1>3, <1>4, <1>5, <1>6, <1>7 DEF IInv, Places, AfterScan, AfterPolicy,
     AfterJournal, AfterOrphans, AfterSuper
<1>10. Stage'
  <2>1. (~failed /\ errors = {} => Known)'
    BY <1>1, <1>3, <1>4 DEF IInv, Stage, Known, Scanned, HeaderBad, AfterScan, AfterPolicy,
       AfterJournal, AfterOrphans, AfterSuper
  <2>2. (~failed /\ errors = {} => Bitmaps /\ Recovery)'
    BY <1>1, <1>3, <1>5 DEF IInv, Stage, Bitmaps, Recovery, Dirty, NewBBits, NewIBits
  <2>. QED  BY <2>1, <2>2 DEF Stage
<1>11. Follows'
  <2>1. (Clean(last[1]) \/ Clean(last[2]) => Settled)' /\ (Clean(last[2]) => Repaired)'
    BY <1>1, <1>2, <1>3, <1>4, <1>5, <1>6, <1>7 DEF IInv, Follows, Settled, Repaired, AllSet,
       SetSuper, SetHeader
  <2>2. (~Csum /\ Clean(last[2]) /\ ~repair /\ ~failed /\ Agrees =>
           errors \subseteq {"counts"} /\ (pc # "out" => errors = {}))'
    BY <1>1, <1>3, <1>6, <1>7 DEF IInv, Follows, Agrees
  <2>. QED  BY <2>1, <2>2 DEF Follows
<1>12. Shape'
  BY <1>1, <1>2, <1>3, <1>4, <1>5, <1>6, <1>7 DEF IInv, Shape
<1>13. Keeps'
  BY <1>1, <1>2, <1>3, <1>4, <1>5, <1>6, <1>7 DEF IInv, Keeps, Mountable, Replayable
<1>14. Converges'
  BY <1>1, <1>2, <1>3, <1>4, <1>5, <1>6, <1>7 DEF IInv, Converges, Agrees
<1>15. CleanMeansConsistent'
  BY <1>1, <1>2, <1>3, <1>4, <1>5, <1>6, <1>7 DEF IInv, CleanMeansConsistent
<1>. QED
  BY <1>8, <1>9, <1>10, <1>11, <1>12, <1>13, <1>14, <1>15 DEF IInv

LEMMA RepairInodeBitmapStep == ASSUME IInv, RepairInodeBitmap PROVE IInv'
<1>1. /\ pc = "ibitmap" /\ at \in Group /\ repair /\ disk' = [disk EXCEPT !.ibits[at] = NewIBits(at)]
      /\ pc' = "bbitmap" /\ at' = at + 1
      /\ UNCHANGED <<iseen, bseen, failed, errors, repair, start, last, budget>>
  BY DEF RepairInodeBitmap, Goto, Quiet, Same, IInv, Places
<1>2. NewIBits(at) \subseteq Inode /\ disk.ibits[at] \subseteq NewIBits(at) /\ TypeOK
  BY <1>1, BlocksOfGroups DEF NewIBits, IInv, TypeOK, ImageType
<1>3. /\ disk' \in ImageType /\ disk'.super = disk.super /\ disk'.policy = disk.policy
      /\ disk'.inode = disk.inode /\ disk'.bbits = disk.bbits /\ disk'.header = disk.header
      /\ \A g \in Group : disk.ibits[g] \subseteq disk'.ibits[g] /\ (g # at => disk'.ibits[g] = disk.ibits[g])
      /\ disk'.ibits[at] = NewIBits(at)
  BY <1>1, <1>2 DEF TypeOK, ImageType
<1>4. /\ Live(disk') = Live(disk) /\ Below(disk', Inodes + 1) = Below(disk, Inodes + 1)
      /\ BlocksBelow(disk', Inodes + 1) = BlocksBelow(disk, Inodes + 1)
      /\ Sound(disk', Inodes + 1) <=> Sound(disk, Inodes + 1)
  BY <1>3 DEF Live, Below, BlocksBelow, Sound
<1>5. at \in Nat /\ at + 1 \in Nat /\ \A g \in Group : g \in Nat
  BY <1>1, GroupsInNat
<1>6. TypeOK'
  BY <1>1, <1>2, <1>3, <1>4, <1>5 DEF IInv, TypeOK, Pcs, What, AfterScan, AfterPolicy,
     AfterJournal, AfterOrphans, AfterSuper
<1>7. Places'
  BY <1>1, <1>2, <1>3, <1>4, <1>5 DEF IInv, Places, AfterScan, AfterPolicy, AfterJournal,
     AfterOrphans, AfterSuper
<1>8. Stage'
  <2>1. (~failed /\ errors = {} => Known)'
    BY <1>1, <1>3, <1>4 DEF IInv, Stage, Known, Scanned, HeaderBad, AfterScan, AfterPolicy,
       AfterJournal, AfterOrphans, AfterSuper
  <2>2. (~failed /\ errors = {} => Bitmaps /\ Recovery)'
    <3> SUFFICES ASSUME ~failed, errors = {}, NEW g \in Group, g < at + 1 PROVE ~Dirty(g)'
      BY <1>1 DEF Bitmaps, Recovery
    <3>1. CASE g = at
      BY <1>1, <1>3, <3>1 DEF IInv, Stage, Bitmaps, Dirty, NewBBits, NewIBits
    <3>2. CASE g # at
      BY <1>1, <1>3, <1>5, <3>2 DEF IInv, Stage, Bitmaps, Dirty, NewBBits, NewIBits
    <3>. QED  BY <3>1, <3>2
  <2>. QED  BY <2>1, <2>2 DEF Stage
<1>9. Follows'
  BY <1>1, <1>2, <1>3, <1>4, <1>5 DEF IInv, Follows, Settled, Repaired, AllSet, Agrees,
     SetSuper, SetHeader
<1>10. Shape'
  BY <1>1, <1>2, <1>3, <1>4, <1>5 DEF IInv, Shape
<1>11. Keeps'
  BY <1>1, <1>2, <1>3, <1>4, <1>5 DEF IInv, Keeps, Mountable, Replayable
<1>12. Converges'
  BY <1>1, <1>2, <1>3, <1>4, <1>5 DEF IInv, Converges, Agrees
<1>13. CleanMeansConsistent'
  BY <1>1, <1>2, <1>3, <1>4, <1>5 DEF IInv, CleanMeansConsistent
<1>. QED
  BY <1>6, <1>7, <1>8, <1>9, <1>10, <1>11, <1>12, <1>13 DEF IInv

LEMMA CleanBitmapStep == ASSUME IInv, CleanBitmap PROVE IInv'
<1>1. /\ pc = "bbitmap" /\ at \in Group /\ ~Dirty(at) /\ at' = at + 1
      /\ UNCHANGED <<disk, pc, iseen, bseen, failed, errors, repair, start, last, budget>>
  BY DEF CleanBitmap, Reading, Quiet, Same
<1>2. at \in Nat /\ at + 1 \in Nat /\ \A g \in Group : g \in Nat
  BY <1>1, GroupsInNat
<1>3. TypeOK'
  BY <1>1, <1>2 DEF IInv, TypeOK, Pcs, What, AfterScan, AfterPolicy, AfterJournal,
     AfterOrphans, AfterSuper
<1>4. Places'
  BY <1>1, <1>2 DEF IInv, Places, AfterScan, AfterPolicy, AfterJournal, AfterOrphans, AfterSuper
<1>5. Stage'
  BY <1>1, <1>2 DEF IInv, Stage, Known, Bitmaps, Recovery, Scanned, Dirty, NewBBits, NewIBits,
     AfterScan, AfterPolicy, AfterJournal, AfterOrphans, AfterSuper
<1>6. Follows'
  BY <1>1, <1>2 DEF IInv, Follows, Settled, Repaired, AllSet, Agrees, AfterScan, AfterPolicy,
     AfterJournal, AfterOrphans, AfterSuper
<1>7. Shape' /\ Keeps' /\ Converges' /\ CleanMeansConsistent'
  BY <1>1, <1>2, Frozen
<1>. QED
  BY <1>3, <1>4, <1>5, <1>6, <1>7 DEF IInv

LEMMA BitmapsDoneStep == ASSUME IInv, BitmapsDone PROVE IInv'
<1>1. /\ pc = "bbitmap" /\ at \notin Group /\ pc' = (IF repair THEN "recovery" ELSE "out")
      /\ UNCHANGED <<disk, iseen, bseen, at, failed, errors, repair, start, last, budget>>
  BY DEF BitmapsDone, Reading, Loops, Quiet, Same, Goto
<1>2. \A g \in Group : g < at
  BY <1>1, AllGroups DEF IInv, TypeOK
<1>3. TypeOK'
  BY <1>1, <1>2 DEF IInv, TypeOK, Pcs, What, AfterScan, AfterPolicy, AfterJournal,
     AfterOrphans, AfterSuper
<1>4. Places'
  BY <1>1, <1>2 DEF IInv, Places, AfterScan, AfterPolicy, AfterJournal, AfterOrphans, AfterSuper
<1>5. Stage'
  BY <1>1, <1>2 DEF IInv, Stage, Known, Bitmaps, Recovery, Scanned, Dirty, NewBBits, NewIBits,
     AfterScan, AfterPolicy, AfterJournal, AfterOrphans, AfterSuper
<1>6. Follows'
  BY <1>1, <1>2 DEF IInv, Follows, Settled, Repaired, AllSet, Agrees, AfterScan, AfterPolicy,
     AfterJournal, AfterOrphans, AfterSuper
<1>7. Shape' /\ Keeps' /\ Converges' /\ CleanMeansConsistent'
  BY <1>1, <1>2, Frozen
<1>. QED
  BY <1>3, <1>4, <1>5, <1>6, <1>7 DEF IInv

LEMMA RepairRecoveryStep == ASSUME IInv, RepairRecovery PROVE IInv'
<1>1. /\ pc = "recovery" /\ repair /\ UNCHANGED <<iseen, bseen, at, failed, errors, repair, start, last, budget>>
      /\ disk' = (IF SetSuper(disk) THEN [disk EXCEPT !.super = Recovered(@)] ELSE disk)
      /\ pc' = (IF SetHeader(disk) THEN "header" ELSE "out")
  BY DEF RepairRecovery, Goto, Loops, Quiet, Same, IInv, Places
<1>2. TypeOK /\ disk.super \in SuperType /\ disk.header \in HeaderType
  BY DEF IInv, TypeOK, ImageType
<1>3. Recovered(disk.super) \in SuperType
  BY <1>2 DEF Recovered, SuperType
<1>4. /\ Recovered(disk.super).good = disk.super.good /\ ~Recovered(disk.super).state
      /\ ~Recovered(disk.super).incompat /\ Recovered(disk.super).head = disk.super.head
      /\ Recovered(disk.super).state = Recovered(disk.super).incompat
  BY <1>2 DEF Recovered, SuperType
<1>5. /\ disk' \in ImageType /\ disk'.policy = disk.policy /\ disk'.inode = disk.inode
      /\ disk'.bbits = disk.bbits /\ disk'.ibits = disk.ibits /\ disk'.header = disk.header
      /\ disk'.super = (IF SetSuper(disk) THEN Recovered(disk.super) ELSE disk.super)
  BY <1>1, <1>2, <1>3 DEF TypeOK, ImageType
<1>6. /\ disk'.super.good = disk.super.good /\ disk'.super.head = disk.super.head
      /\ ~SetSuper(disk') /\ (~SetHeader(disk) => ~SetHeader(disk'))
      /\ SetHeader(disk) => ~disk'.super.state
      /\ (~SetSuper(disk) => disk' = disk)
      /\ SetHeader(disk) => ~disk'.header.magic \/ ~disk'.header.valid
  BY <1>1, <1>4, <1>5 DEF SetSuper, SetHeader
<1>7. /\ Live(disk') = Live(disk) /\ Below(disk', Inodes + 1) = Below(disk, Inodes + 1)
      /\ BlocksBelow(disk', Inodes + 1) = BlocksBelow(disk, Inodes + 1)
      /\ Sound(disk', Inodes + 1) <=> Sound(disk, Inodes + 1)
  BY <1>5 DEF Live, Below, BlocksBelow, Sound
<1>8. ~Csum /\ Mountable(disk) => Mountable(disk')
  BY <1>4, <1>5 DEF Mountable
<1>9. Replayable(disk) => disk' = disk
  BY <1>6 DEF Replayable, SetSuper, Pending
<1>10. TypeOK'
  BY <1>1, <1>2, <1>3, <1>4, <1>5, <1>6, <1>7, <1>8, <1>9 DEF IInv, TypeOK, Pcs, What,
     AfterScan, AfterPolicy, AfterJournal, AfterOrphans, AfterSuper
<1>11. Places'
  BY <1>1, <1>2, <1>3, <1>4, <1>5, <1>6, <1>7, <1>8, <1>9 DEF IInv, Places, AfterScan,
     AfterPolicy, AfterJournal, AfterOrphans, AfterSuper
<1>12. Stage'
  BY <1>1, <1>2, <1>3, <1>4, <1>5, <1>6, <1>7, <1>8, <1>9 DEF IInv, Stage, Known, Bitmaps,
     Recovery, Scanned, Dirty, NewBBits, NewIBits, AfterScan, AfterPolicy, AfterJournal,
     AfterOrphans, AfterSuper
<1>13. Follows'
  <2>1. Settled => disk' = disk /\ pc' = "out"
    BY <1>1, <1>6 DEF Settled
  <2>2. Repaired => Repaired'
    BY <1>5, <1>6, <1>7 DEF Repaired, AllSet
  <2>. QED  BY <1>1, <2>1, <2>2 DEF IInv, Follows, Settled
<1>14. Shape'
  BY <1>1, <1>2, <1>3, <1>4, <1>5, <1>6, <1>7, <1>8, <1>9 DEF IInv, Shape
<1>15. Keeps'
  BY <1>1, <1>5, <1>8, <1>9 DEF IInv, Keeps
<1>16. Converges'
  <2>1. Clean(last[1]) => disk' = disk
    BY <1>6 DEF IInv, Follows, Settled
  <2>. QED  BY <1>1, <2>1 DEF IInv, Converges, Agrees
<1>17. CleanMeansConsistent'
  BY <1>1, <1>2, <1>3, <1>4, <1>5, <1>6, <1>7, <1>8, <1>9 DEF IInv, CleanMeansConsistent
<1>. QED
  BY <1>10, <1>11, <1>12, <1>13, <1>14, <1>15, <1>16, <1>17 DEF IInv

LEMMA RepairHeaderStep == ASSUME IInv, RepairHeader PROVE IInv'
<1>1. /\ pc = "header" /\ repair /\ UNCHANGED <<iseen, bseen, at, failed, errors, repair, start, last, budget>>
      /\ disk' = [disk EXCEPT !.header = Empty] /\ pc' = "out"
  BY DEF RepairHeader, Goto, Loops, Quiet, Same, IInv, Places
<1>2. /\ disk' \in ImageType /\ disk'.policy = disk.policy /\ disk'.inode = disk.inode
      /\ disk'.bbits = disk.bbits /\ disk'.ibits = disk.ibits /\ disk'.super = disk.super
      /\ disk'.header = Empty
  <2>1. Empty \in HeaderType /\ TypeOK
    BY DEF Empty, HeaderType, IInv
  <2>. QED  BY <1>1, <2>1 DEF TypeOK, ImageType
<1>3. /\ Live(disk') = Live(disk) /\ Below(disk', Inodes + 1) = Below(disk, Inodes + 1)
      /\ BlocksBelow(disk', Inodes + 1) = BlocksBelow(disk, Inodes + 1)
      /\ Sound(disk', Inodes + 1) <=> Sound(disk, Inodes + 1)
  BY <1>2 DEF Live, Below, BlocksBelow, Sound
<1>4. ~disk.super.state => ~SetSuper(disk') /\ ~SetHeader(disk')
  BY <1>2 DEF SetSuper, SetHeader, Empty
<1>5. Mountable(disk) => Mountable(disk')
  BY <1>2 DEF Mountable, Empty
<1>6. ~Replayable(disk)
  BY <1>1 DEF IInv, Places, Replayable, Pending
<1>7. ~Clean(last[1]) /\ ~Clean(last[2])
  BY <1>1 DEF IInv, Follows, Settled
<1>8. TypeOK'
  BY <1>1, <1>2, <1>3, <1>4, <1>5, <1>6, <1>7 DEF IInv, TypeOK, Pcs, What, AfterScan,
     AfterPolicy, AfterJournal, AfterOrphans, AfterSuper
<1>9. Places'
  BY <1>1, <1>2, <1>3, <1>4, <1>5, <1>6, <1>7 DEF IInv, Places, AfterScan, AfterPolicy,
     AfterJournal, AfterOrphans, AfterSuper
<1>10. Stage'
  BY <1>1, <1>2, <1>3, <1>4, <1>5, <1>6, <1>7 DEF IInv, Stage, Known, Bitmaps, Recovery,
     Scanned, Dirty, NewBBits, NewIBits, AfterScan, AfterPolicy, AfterJournal, AfterOrphans,
     AfterSuper
<1>11. Follows'
  BY <1>1, <1>7 DEF Follows
<1>12. Shape'
  BY <1>1, <1>2, <1>3, <1>4, <1>5, <1>6, <1>7 DEF IInv, Shape
<1>13. Keeps'
  BY <1>1, <1>2, <1>5, <1>6 DEF IInv, Keeps
<1>14. Converges'
  BY <1>1, <1>7 DEF Converges
<1>15. CleanMeansConsistent'
  BY <1>1, <1>2, <1>3, <1>4, <1>5, <1>6, <1>7 DEF IInv, CleanMeansConsistent
<1>. QED
  BY <1>8, <1>9, <1>10, <1>11, <1>12, <1>13, <1>14, <1>15 DEF IInv

(* A clean check has seen a consistent image. *)
LEMMA CheckSaw ==
  ASSUME IInv, pc = "out", ~failed, errors = {}, ~repair
  PROVE  Consistent(disk)
<1>1. Known /\ (\A g \in Group : ~Dirty(g)) /\ Scanned(Inodes + 1) /\ TypeOK
  BY DEF IInv, Stage, Known, Bitmaps, AfterScan
<1>2. disk.super.good /\ (Csum => disk.super.sum) /\ disk.super.state = disk.super.incompat
      /\ disk.super.head = 0 /\ ~HeaderBad(disk) /\ disk.super.free = Counts(iseen, bseen)
  BY <1>1 DEF Known, AfterScan, AfterPolicy, AfterJournal, AfterOrphans, AfterSuper
<1>3. Mountable(disk)
  BY <1>2 DEF Mountable, HeaderBad
<1>4. Live(disk) \subseteq Inode /\ (\A i \in Live(disk) : i < Inodes + 1 /\ disk.inode[i].refs \subseteq Block)
  <2>1. disk.inode \in [Inode -> InodeType] /\ Live(disk) \subseteq Inode
    BY <1>1 DEF TypeOK, ImageType, Live
  <2>2. \A i \in Inode : i < Inodes + 1
    BY FsckAssumption DEF Inode
  <2>. QED  BY <2>1, <2>2 DEF InodeType
<1>5. iseen = Live(disk) /\ bseen = Refs(disk) \cup {PolicyBlock}
  BY <1>1, <1>4, FsckAssumption DEF Scanned, Below, BlocksBelow, Refs
<1>6. disk.super.free = TrueCounts(disk)
  BY <1>2, <1>5 DEF TrueCounts
<1>7. Shared(disk) = {} /\ Refs(disk) \cap Meta = {}
  <2>1. ASSUME NEW i \in Live(disk), NEW j \in Live(disk), i # j
        PROVE  disk.inode[i].refs \cap disk.inode[j].refs = {}
    <3>1. i \in Nat /\ j \in Nat
      BY <1>4 DEF Inode
    <3>2. i < j \/ j < i
      BY <2>1, <3>1
    <3>. QED  BY <1>1, <1>4, <3>2 DEF Scanned, Sound
  <2>2. PolicyBlock \notin Refs(disk) /\ Refs(disk) \cap Meta = {}
    BY <1>1, <1>4 DEF Scanned, Sound, Refs
  <2>. QED  BY <2>1, <2>2 DEF Shared
<1>8. Refs(disk) \cup AllReserved \subseteq BBits(disk) /\ Live(disk) \subseteq IBits(disk)
  <2>1. AllReserved \subseteq BBits(disk)
    BY <1>1 DEF Dirty, NewBBits, AllReserved, BBits
  <2>2. \A b \in Refs(disk) : b \in Block /\ b \in bseen
    BY <1>4, <1>5 DEF Refs
  <2>3. Refs(disk) \subseteq BBits(disk)
    BY <1>1, <2>2, BlocksOfGroups DEF Dirty, NewBBits, BBits
  <2>4. Live(disk) \subseteq IBits(disk)
    BY <1>1, <1>4, <1>5, BlocksOfGroups DEF Dirty, NewIBits, IBits
  <2>. QED  BY <2>1, <2>3, <2>4
<1>9. \A i \in Live(disk) : disk.inode[i].names \subseteq Live(disk)
  BY <1>1, <1>4 DEF Scanned, Sound
<1>. QED  BY <1>2, <1>3, <1>6, <1>7, <1>8, <1>9 DEF Consistent

(* A repair that reported nothing leaves an image that needs no repair.    *)
LEMMA RepairLeft ==
  ASSUME IInv, pc = "out", ~failed, errors = {}, repair
  PROVE  Repaired /\ ~SetSuper(disk) /\ ~SetHeader(disk)
<1>1. /\ Known /\ Recovery /\ (\A g \in Group : ~Dirty(g)) /\ Scanned(Inodes + 1)
  BY DEF IInv, Stage, Known, Bitmaps, AfterScan
<1>2. disk.super.good /\ disk.super.head = 0 /\ disk.policy
  BY <1>1 DEF Known, AfterScan, AfterPolicy, AfterJournal, AfterOrphans, AfterSuper
<1>3. AllSet
  BY <1>1 DEF AllSet, Scanned, Dirty, NewBBits, NewIBits
<1>4. Root \in Live(disk)
  BY <1>1, FsckAssumption DEF Scanned, Root
<1>. QED  BY <1>1, <1>2, <1>3, <1>4 DEF Repaired, Scanned, Recovery

LEMMA OutStep == ASSUME IInv, Out PROVE IInv'
<1> DEFINE r == [repair |-> repair, errors |-> errors, failed |-> failed]
<1>1. /\ pc = "out" /\ UNCHANGED <<disk, budget>> /\ start' = disk /\ last' = <<last[2], r>>
      /\ pc' = "off" /\ repair' = FALSE /\ iseen' = {} /\ bseen' = {} /\ at' = 0
      /\ errors' = {} /\ failed' = FALSE
  BY DEF Out, Idle
<1>2. r \in RunType /\ last[2] \in RunType /\ TypeOK
  BY DEF IInv, TypeOK, RunType
<1>3. last' \in RunType \X RunType /\ last'[1] = last[2] /\ last'[2] = r
  BY <1>1, <1>2
<1>4. r.repair = repair /\ r.errors = errors /\ r.failed = failed
  OBVIOUS
<1>5. Clean(r) <=> repair /\ errors = {} /\ ~failed
  BY <1>4 DEF Clean
<1> HIDE DEF r
<1>6. TypeOK'
  BY <1>1, <1>2, <1>3, <1>4, <1>5 DEF IInv, TypeOK, Pcs, What, AfterScan, AfterPolicy,
     AfterJournal, AfterOrphans, AfterSuper
<1>7. Places'
  BY <1>1, <1>2, <1>3, <1>4, <1>5 DEF IInv, Places, AfterScan, AfterPolicy, AfterJournal,
     AfterOrphans, AfterSuper
<1>8. Stage'
  BY <1>1, <1>2, <1>3, <1>4, <1>5 DEF IInv, Stage, Known, Bitmaps, Recovery, Scanned, Dirty,
     NewBBits, NewIBits, AfterScan, AfterPolicy, AfterJournal, AfterOrphans, AfterSuper
<1>9. Follows'
  <2>1. Clean(r) => Repaired /\ Settled
    BY <1>1, <1>5, RepairLeft DEF Settled
  <2>2. Clean(last[2]) => Settled
    BY DEF IInv, Follows
  <2>. QED  BY <1>1, <1>3, <2>1, <2>2 DEF Follows, Settled, Repaired, AllSet, Agrees
<1>10. Shape'
  BY <1>1, <1>2, <1>3, <1>4, <1>5 DEF IInv, Shape
<1>11. Keeps'
  BY <1>1 DEF Keeps
<1>12. Converges'
  BY <1>1, <1>3, <1>4 DEF IInv, Converges, Follows, Agrees
<1>13. CleanMeansConsistent'
  <2>1. r = [repair |-> FALSE, errors |-> {}, failed |-> FALSE] => ~failed /\ errors = {} /\ ~repair
    <3>1. r = [repair |-> FALSE, errors |-> {}, failed |-> FALSE]
            => r.failed = FALSE /\ r.errors = {} /\ r.repair = FALSE
      OBVIOUS
    <3>. QED  BY <1>2, <1>4, <3>1 DEF TypeOK
  <2>2. r = [repair |-> FALSE, errors |-> {}, failed |-> FALSE] => Consistent(disk)
    BY <1>1, <2>1, CheckSaw
  <2>. QED  BY <1>1, <1>3, <2>2 DEF CleanMeansConsistent
<1>. QED
  BY <1>6, <1>7, <1>8, <1>9, <1>10, <1>11, <1>12, <1>13 DEF IInv

LEMMA KillStep == ASSUME IInv, Kill PROVE IInv'
<1>1. /\ UNCHANGED <<disk, budget>> /\ start' = disk /\ last' = <<NotRun, NotRun>>
      /\ pc' = "off" /\ repair' = FALSE /\ iseen' = {} /\ bseen' = {} /\ at' = 0
      /\ errors' = {} /\ failed' = FALSE
  BY DEF Kill, Idle
<1>2. TypeOK
  BY DEF IInv
<1>3. NotRun \in RunType /\ NotRun.failed
  BY DEF NotRun, RunType
<1>4. last' \in RunType \X RunType /\ last'[1].failed /\ last'[2].failed /\ ~Clean(last'[1]) /\ ~Clean(last'[2])
  BY <1>1, <1>3 DEF Clean
<1>5. TypeOK'
  BY <1>1, <1>2, <1>3, <1>4 DEF IInv, TypeOK, Pcs, What, AfterScan, AfterPolicy, AfterJournal,
     AfterOrphans, AfterSuper
<1>6. Places'
  BY <1>1, <1>2, <1>3, <1>4 DEF IInv, Places, AfterScan, AfterPolicy, AfterJournal,
     AfterOrphans, AfterSuper
<1>7. Stage'
  BY <1>1, <1>2, <1>3, <1>4 DEF IInv, Stage, Known, Bitmaps, Recovery, Scanned, Dirty,
     NewBBits, NewIBits, AfterScan, AfterPolicy, AfterJournal, AfterOrphans, AfterSuper
<1>8. Follows'
  BY <1>1, <1>4 DEF Follows
<1>9. Shape'
  BY <1>1, <1>2, <1>3, <1>4 DEF IInv, Shape
<1>10. Keeps'
  BY <1>1 DEF Keeps
<1>11. Converges'
  BY <1>4 DEF Converges
<1>12. CleanMeansConsistent'
  BY <1>4 DEF CleanMeansConsistent
<1>. QED
  BY <1>5, <1>6, <1>7, <1>8, <1>9, <1>10, <1>11, <1>12 DEF IInv

(* The kinds of damage. *)
DamagedFields(d) == {[d EXCEPT !.super.good = FALSE], [d EXCEPT !.policy = FALSE],
               [d EXCEPT !.super.state = ~@], [d EXCEPT !.super.incompat = ~@],
               [d EXCEPT !.super.state = ~@, !.super.incompat = ~@],
               [d EXCEPT !.super.free.blocks = @ + 1], [d EXCEPT !.super.free.inodes = @ + 1]}
DamagedHeaders(d) == {[d EXCEPT !.header = h] : h \in Header}
DamagedBlockBits(d) == UNION {{[d EXCEPT !.bbits[g] = @ \ {b}] : b \in GroupBlocks[g]} : g \in Group}
DamagedInodeBits(d) == UNION {{[d EXCEPT !.ibits[g] = @ \ {i}] : i \in GroupInodes[g]} : g \in Group}
DamagedCleared(d) == {[d EXCEPT !.inode[i] = NoInode] : i \in Inode}
DamagedLayouts(d) == {[d EXCEPT !.inode[i].layout = FALSE] : i \in Live(d)}
DamagedBlocks(d) == {[d EXCEPT !.inode[i].refs = @ \cup {b}] : i \in Live(d), b \in Block}
DamagedHeads(d) == {[d EXCEPT !.super.head = i, !.inode[i].links = 0] : i \in Inode \ {Root}}

LEMMA DamagedParts ==
  ASSUME NEW d
  PROVE  Damaged(d) = DamagedFields(d) \cup DamagedHeaders(d) \cup DamagedBlockBits(d)
                        \cup DamagedInodeBits(d) \cup DamagedCleared(d) \cup DamagedLayouts(d)
                        \cup DamagedBlocks(d) \cup DamagedHeads(d)
  BY DEF Damaged, DamagedFields, DamagedHeaders, DamagedBlockBits, DamagedInodeBits,
     DamagedCleared, DamagedLayouts, DamagedBlocks, DamagedHeads

(* What can be damaged stays an image, and no file becomes a directory.    *)
LEMMA DamagedType ==
  ASSUME NEW d \in ImageType, NEW e \in Damaged(d),
         \A i \in Inode : d.inode[i].kind # "dir" => d.inode[i].names = {}
  PROVE  e \in ImageType /\ \A i \in Inode : e.inode[i].kind # "dir" => e.inode[i].names = {}
<1>1. d.super \in SuperType /\ d.inode \in [Inode -> InodeType]
  BY DEF ImageType
<1>2. ASSUME NEW s \in SuperType, e = [d EXCEPT !.super = s]
      PROVE  e \in ImageType /\ e.inode = d.inode
  BY <1>2 DEF ImageType
<1>3. ASSUME NEW i \in Inode, NEW n \in InodeType, NEW s \in SuperType,
             n.names = d.inode[i].names /\ n.kind = d.inode[i].kind,
             e = [d EXCEPT !.super = s, !.inode[i] = n]
      PROVE  e \in ImageType /\ \A j \in Inode : e.inode[j].kind # "dir" => e.inode[j].names = {}
  <2>1. e \in ImageType /\ e.inode = [d.inode EXCEPT ![i] = n]
    BY <1>1, <1>3 DEF ImageType
  <2>. QED  BY <1>1, <1>3, <2>1
<1>4. CASE e = [d EXCEPT !.super.good = FALSE]
  <2>1. [d.super EXCEPT !.good = FALSE] \in SuperType
    BY <1>1 DEF SuperType
  <2>. QED  BY <1>2, <1>4, <2>1
<1>5. CASE e = [d EXCEPT !.super.state = ~@]
  <2>1. [d.super EXCEPT !.state = ~d.super.state] \in SuperType
    BY <1>1 DEF SuperType
  <2>. QED  BY <1>2, <1>5, <2>1
<1>6. CASE e = [d EXCEPT !.super.incompat = ~@]
  <2>1. [d.super EXCEPT !.incompat = ~d.super.incompat] \in SuperType
    BY <1>1 DEF SuperType
  <2>. QED  BY <1>2, <1>6, <2>1
<1>7. CASE e = [d EXCEPT !.super.state = ~@, !.super.incompat = ~@]
  <2> DEFINE f == [d EXCEPT !.super.state = ~@]
  <2>1. f.super \in SuperType /\ f \in ImageType /\ f.inode = d.inode
    <3>1. [d.super EXCEPT !.state = ~d.super.state] \in SuperType
      BY <1>1 DEF SuperType
    <3>. QED  BY <3>1 DEF ImageType
  <2>2. e = [f EXCEPT !.super.incompat = ~@]
    BY <1>7
  <2> HIDE DEF f
  <2>3. [f.super EXCEPT !.incompat = ~f.super.incompat] \in SuperType
    BY <2>1 DEF SuperType
  <2>. QED  BY <2>1, <2>2, <2>3 DEF ImageType
<1>8. CASE e = [d EXCEPT !.policy = FALSE]
  BY <1>8 DEF ImageType
<1>9. CASE e \in {[d EXCEPT !.super.free.blocks = @ + 1], [d EXCEPT !.super.free.inodes = @ + 1]}
  BY <1>1, <1>9 DEF ImageType, SuperType
<1>10. CASE e \in DamagedHeaders(d)
  <2>1. Header \subseteq HeaderType
    <3>1. [magic |-> FALSE, sum |-> FALSE, valid |-> FALSE, entries |-> FALSE] \in HeaderType
      BY DEF HeaderType
    <3>2. [magic : {TRUE}, sum : BOOLEAN, valid : BOOLEAN, entries : BOOLEAN] \subseteq HeaderType
      BY Zenon DEF HeaderType
    <3>. QED  BY <3>1, <3>2 DEF Header
  <2>. QED  BY <1>10, <2>1 DEF DamagedHeaders, ImageType
<1>11. CASE e \in DamagedBlockBits(d)
  BY <1>11 DEF DamagedBlockBits, ImageType
<1>12. CASE e \in DamagedInodeBits(d)
  BY <1>12 DEF DamagedInodeBits, ImageType
<1>13. CASE e \in DamagedCleared(d)
  <2>1. NoInode \in InodeType /\ NoInode.names = {}
    BY DEF NoInode, InodeType
  <2>. QED  BY <1>1, <1>13, <2>1 DEF DamagedCleared, ImageType
<1>14. CASE e \in DamagedLayouts(d)
  <2>1. PICK i \in Inode : e = [d EXCEPT !.inode[i] = [d.inode[i] EXCEPT !.layout = FALSE]]
    BY <1>14 DEF DamagedLayouts, Live
  <2>2. d.inode[i] \in InodeType
    BY <1>1
  <2>3. /\ [d.inode[i] EXCEPT !.layout = FALSE] \in InodeType
        /\ [d.inode[i] EXCEPT !.layout = FALSE].names = d.inode[i].names
        /\ [d.inode[i] EXCEPT !.layout = FALSE].kind = d.inode[i].kind
    BY <2>2 DEF InodeType
  <2>. QED  BY <1>1, <2>1, <2>3 DEF ImageType
<1>15. CASE e \in DamagedBlocks(d)
  BY <1>1, <1>15 DEF DamagedBlocks, ImageType, InodeType, Live
<1>16. CASE e \in DamagedHeads(d)
  <2>1. PICK i \in Inode : e = [d EXCEPT !.super.head = i, !.inode[i].links = 0]
    BY <1>16 DEF DamagedHeads
  <2>2. d.inode[i] \in InodeType /\ i \in Nat
    <3>1. d.inode[i] \in InodeType
      BY <1>1
    <3>. QED  BY <3>1 DEF Inode
  <2>3. /\ [d.inode[i] EXCEPT !.links = 0] \in InodeType
        /\ [d.inode[i] EXCEPT !.links = 0].names = d.inode[i].names
        /\ [d.inode[i] EXCEPT !.links = 0].kind = d.inode[i].kind
    BY <2>2 DEF InodeType
  <2>4. [d.super EXCEPT !.head = i] \in SuperType
    BY <1>1, <2>2 DEF SuperType
  <2>5. e = [d EXCEPT !.super = [d.super EXCEPT !.head = i], !.inode[i] = [d.inode[i] EXCEPT !.links = 0]]
    BY <2>1 DEF ImageType
  <2>. QED  BY <1>3, <2>3, <2>4, <2>5
<1>17. CASE e \in DamagedFields(d)
  BY <1>4, <1>5, <1>8, <1>9, <1>6, <1>7, <1>17 DEF DamagedFields
<1>. QED
  BY <1>10, <1>11, <1>12, <1>13, <1>14, <1>15, <1>16, <1>17, DamagedParts

LEMMA DamageStep == ASSUME IInv, Damage PROVE IInv'
<1>1. /\ pc = "off" /\ disk' \in Damaged(disk) /\ start' = disk' /\ last' = <<NotRun, NotRun>>
      /\ budget.damage > 0 /\ budget' = [budget EXCEPT !.damage = @ - 1]
      /\ UNCHANGED <<pc, repair, iseen, bseen, at, errors, failed>>
  BY DEF Damage
<1>2. TypeOK /\ disk' \in ImageType /\ budget' \in [damage : Nat, fault : Nat, run : Nat] /\ Shape'
  BY <1>1, DamagedType DEF IInv, TypeOK, Shape
<1>3. NotRun \in RunType /\ NotRun.failed
  BY DEF NotRun, RunType
<1>4. last' \in RunType \X RunType /\ last'[1].failed /\ last'[2].failed /\ ~Clean(last'[1]) /\ ~Clean(last'[2])
  BY <1>1, <1>3 DEF Clean
<1>5. TypeOK'
  BY <1>1, <1>2, <1>3, <1>4 DEF IInv, TypeOK, Pcs, What, AfterScan, AfterPolicy, AfterJournal,
     AfterOrphans, AfterSuper
<1>6. Places'
  BY <1>1, <1>2, <1>3, <1>4 DEF IInv, Places, AfterScan, AfterPolicy, AfterJournal,
     AfterOrphans, AfterSuper
<1>7. Stage'
  BY <1>1, <1>2, <1>3, <1>4 DEF IInv, Stage, Known, Bitmaps, Recovery, Scanned, Dirty,
     NewBBits, NewIBits, AfterScan, AfterPolicy, AfterJournal, AfterOrphans, AfterSuper
<1>8. Follows'
  BY <1>1, <1>4 DEF Follows
<1>9. Shape'
  BY <1>1, <1>2, <1>3, <1>4 DEF IInv, Shape
<1>10. Keeps'
  BY <1>1 DEF Keeps
<1>11. Converges'
  BY <1>4 DEF Converges
<1>12. CleanMeansConsistent'
  BY <1>4 DEF CleanMeansConsistent
<1>. QED
  BY <1>5, <1>6, <1>7, <1>8, <1>9, <1>10, <1>11, <1>12 DEF IInv

LEMMA FaultStep == ASSUME IInv, Fault PROVE IInv'
<1>1. /\ failed' = TRUE /\ pc' # "off" /\ pc # "off" /\ UNCHANGED <<disk, repair, start, last>>
      /\ budget.fault > 0 /\ budget' = [budget EXCEPT !.fault = @ - 1]
  BY DEF Fault, Goto
<1>2. /\ pc' # "header" /\ pc' \in Pcs /\ errors' \in SUBSET What
      /\ iseen' \in SUBSET Inode /\ bseen' \in SUBSET Block /\ at' \in Nat
      /\ (pc' \notin AfterPolicy => iseen' = {})
      /\ (pc' = "inodes" => at' \in 1 .. Inodes + 1)
      /\ pc' \notin {"ibitmap", "recovery"}
  <2> USE DEF Goto, Report, Quiet, Loops, What, Pcs, AfterScan, AfterPolicy, AfterJournal, AfterOrphans, AfterSuper
  <2>0. IInv /\ TypeOK /\ Places /\ Inodes + 1 \in 1 .. Inodes + 1
    BY FsckAssumption DEF IInv
  <2>1. CASE pc = "super" /\ Report("super") /\ Goto("out") /\ Loops
    BY <2>0, <2>1, FsckAssumption DEF TypeOK, Places
  <2>2. CASE pc = "orphans" /\ disk.super.head # 0 /\ Quiet /\ Goto("journal") /\ Loops
    BY <2>0, <2>2, FsckAssumption DEF TypeOK, Places
  <2>3. CASE pc = "journal" /\ Report("journal") /\ Goto("out") /\ Loops
    BY <2>0, <2>3, FsckAssumption DEF TypeOK, Places
  <2>4. CASE pc = "reserved" /\ Quiet /\ Goto("policy") /\ Loops
    BY <2>0, <2>4, FsckAssumption DEF TypeOK, Places
  <2>5. CASE pc = "inodes" /\ at <= Inodes /\ Report("inode") /\ at' = Inodes + 1 /\ UNCHANGED <<pc, iseen, bseen>>
    BY <2>0, <2>5, FsckAssumption DEF TypeOK, Places
  <2>6. CASE /\ pc = "inodes" /\ at <= Inodes /\ Quiet /\ iseen' = iseen \cup {at} /\ at' = at + 1 /\ UNCHANGED pc
             /\ \E m \in SUBSET disk.inode[at].refs : bseen' = bseen \cup m
    <3>1. at \in Inode /\ at + 1 \in 1 .. Inodes + 1
      BY <2>0, <2>6, FsckAssumption DEF Places, Inode
    <3>2. disk.inode[at].refs \subseteq Block
      BY <2>0, <3>1 DEF TypeOK, ImageType, InodeType
    <3>. QED  BY <2>0, <2>6, <3>1, <3>2 DEF TypeOK
  <2>7. CASE Quiet /\ Goto("out") /\ Loops
    BY <2>0, <2>7, FsckAssumption DEF TypeOK, Places
  <2>. QED  BY <2>1, <2>2, <2>3, <2>4, <2>5, <2>6, <2>7 DEF Fault
<1>3. TypeOK /\ budget' \in [damage : Nat, fault : Nat, run : Nat]
  BY <1>1 DEF IInv, TypeOK
<1>4. TypeOK'
  BY <1>1, <1>2, <1>3 DEF TypeOK
<1>5. Places'
  BY <1>1, <1>2, <1>3 DEF IInv, Places, AfterScan, AfterPolicy, AfterJournal, AfterOrphans,
     AfterSuper
<1>6. Stage'
  BY <1>1 DEF Stage
<1>7. Follows'
  BY <1>1, <1>2, <1>3 DEF IInv, Follows, Settled, Repaired, AllSet, Agrees, AfterScan,
     AfterPolicy, AfterJournal, AfterOrphans, AfterSuper
<1>8. Shape' /\ Keeps' /\ Converges' /\ CleanMeansConsistent'
  BY <1>1, <1>2, <1>3, Frozen
<1>. QED
  BY <1>4, <1>5, <1>6, <1>7, <1>8 DEF IInv


-----------------------------------------------------------------------------
LEMMA FormattedType ==
  ASSUME NEW F \in Files, NEW p \in BOOLEAN
  PROVE  /\ Formatted(F, p) \in ImageType
         /\ \A i \in Inode : Formatted(F, p).inode[i].kind # "dir" => Formatted(F, p).inode[i].names = {}
<1> DEFINE live == {i \in DOMAIN F : F[i].kind # "free"}
           inode == [i \in Inode |-> IF i = Root THEN RootDir(live) ELSE F[i]]
           refs == UNION {inode[i].refs : i \in Inode}
           used == AllReserved \cup {PolicyBlock} \cup refs
<1>1. /\ Root \in Inode /\ DOMAIN F = Inode \ {Root}
      /\ \A i \in Inode \ {Root} : F[i] = NoInode \/ F[i] = File(Kind[i], Owns[i])
  BY FsckAssumption DEF Root, Inode, Files
<1>2. inode \in [Inode -> InodeType] /\ \A i \in Inode : inode[i].kind # "dir" => inode[i].names = {}
  <2>1. RootDir(live) \in InodeType /\ RootDir(live).kind = "dir"
    BY <1>1, FsckAssumption DEF RootDir, InodeType
  <2>2. NoInode \in InodeType /\ NoInode.names = {}
    BY DEF NoInode, InodeType
  <2>3. \A i \in Inode \ {Root} : File(Kind[i], Owns[i]) \in InodeType /\ File(Kind[i], Owns[i]).names = {}
    BY FsckAssumption DEF File, InodeType
  <2>. QED  BY <1>1, <2>1, <2>2, <2>3
<1>3. refs \subseteq Block /\ {Root} \cup live \subseteq Inode
  <2>1. \A i \in Inode : inode[i].refs \subseteq Block
    BY <1>2 DEF InodeType
  <2> HIDE DEF inode
  <2>. QED  BY <1>1, <2>1
<1>4. \A bs \in SUBSET Block, is \in SUBSET Inode : Counts(is, bs) \in [inodes : Int, blocks : Int]
  <2> SUFFICES ASSUME NEW bs \in SUBSET Block, NEW is \in SUBSET Inode
               PROVE  Counts(is, bs) \in [inodes : Int, blocks : Int]
    OBVIOUS
  <2>1. IsFiniteSet(Inode) /\ IsFiniteSet(Block)
    BY FsckAssumption, FS_Interval DEF Inode
  <2>2. IsFiniteSet(is) /\ IsFiniteSet(bs) /\ IsFiniteSet(Meta) /\ IsFiniteSet(Journal)
    BY <2>1, FS_Subset, FsckAssumption
  <2>3. /\ Cardinality(is) \in Nat /\ Cardinality(bs) \in Nat /\ Cardinality(Block) \in Nat
        /\ Cardinality(Meta) \in Nat /\ Cardinality(Journal) \in Nat
    BY <2>1, <2>2, FS_CardinalityType
  <2>. QED  BY <2>3, FsckAssumption DEF Counts, reserved_metadata_blocks
<1> DEFINE free == Counts({Root} \cup live, {PolicyBlock} \cup refs)
           super == [good |-> TRUE, sum |-> TRUE, state |-> p, incompat |-> p, head |-> 0,
           free |-> free]
           bb == [g \in Group |-> used \cap GroupBlocks[g]]
           ib == [g \in Group |-> ({Root} \cup live) \cap GroupInodes[g]]
           hd == IF p THEN Pending ELSE Empty
<1>5. super \in SuperType
  <2>1. free \in [inodes : Int, blocks : Int]
    <3>1. {PolicyBlock} \cup refs \subseteq Block
      BY <1>3, FsckAssumption
    <3>. QED  BY <1>3, <1>4, <3>1
  <2> HIDE DEF free
  <2>. QED  BY <2>1 DEF SuperType
<1>6. bb \in [Group -> SUBSET Block] /\ ib \in [Group -> SUBSET Inode]
  BY BlocksOfGroups
<1>7. hd \in HeaderType
  BY DEF Pending, Empty, HeaderType
<1>8. Formatted(F, p) = [super |-> super, boot |-> FALSE, policy |-> TRUE, inode |-> inode,
                         bbits |-> bb, ibits |-> ib, header |-> hd]
  BY Zenon DEF Formatted
<1> HIDE DEF super, inode, bb, ib, hd
<1>. QED  BY <1>2, <1>5, <1>6, <1>7, <1>8 DEF ImageType

LEMMA InitIInv == Init => IInv
<1> SUFFICES ASSUME Init PROVE IInv
  OBVIOUS
<1>1. /\ pc = "off" /\ repair = FALSE /\ iseen = {} /\ bseen = {} /\ at = 0
      /\ errors = {} /\ failed = FALSE /\ start = disk /\ last = <<NotRun, NotRun>>
      /\ budget = [damage |-> MaxDamage, fault |-> MaxFaults, run |-> MaxRuns]
  BY DEF Init
<1>2. disk \in ImageType /\ Shape
  BY FormattedType DEF Init, Shape
<1>3. NotRun \in RunType /\ NotRun.failed /\ ~Clean(NotRun)
  BY DEF NotRun, RunType, Clean
<1>4. TypeOK
  BY <1>1, <1>2, <1>3, FsckAssumption DEF TypeOK, Pcs
<1>5. Places /\ Stage
  BY <1>1 DEF Places, Stage, Known, Bitmaps, Recovery, AfterScan, AfterPolicy, AfterJournal,
     AfterOrphans, AfterSuper
<1>6. Follows /\ Converges /\ Keeps /\ CleanMeansConsistent
  BY <1>1, <1>3 DEF Follows, Converges, Keeps, CleanMeansConsistent
<1>. QED
  BY <1>2, <1>4, <1>5, <1>6 DEF IInv

LEMMA StutterStep == ASSUME IInv, UNCHANGED vars PROVE IInv'
<1>1. UNCHANGED <<disk, pc, repair, iseen, bseen, at, errors, failed, start, last, budget>>
  BY DEF vars
<1>2. TypeOK' /\ Shape' /\ Places'
  BY <1>1 DEF IInv, TypeOK, Shape, Places
<1>3. Stage'
  BY <1>1 DEF IInv, Stage, Known, Bitmaps, Recovery, Scanned, Dirty, NewBBits, NewIBits
<1>4. Follows' /\ Converges' /\ Keeps' /\ CleanMeansConsistent'
  BY <1>1 DEF IInv, Follows, Settled, Repaired, AllSet, Agrees, Converges, Keeps,
     CleanMeansConsistent
<1>. QED  BY <1>2, <1>3, <1>4 DEF IInv

LEMMA NextIInv == IInv /\ [Next]_vars => IInv'
<1> SUFFICES ASSUME IInv, [Next]_vars PROVE IInv'
  OBVIOUS
<1>1. CASE Damage \/ Run \/ Out \/ Fault \/ Kill
  BY <1>1, DamageStep, RunStep, OutStep, FaultStep, KillStep
<1>2. CASE ValidateSuper \/ ValidateOrphans \/ ValidateJournal \/ ValidateReserved \/ ValidatePolicy
  BY <1>2, ValidateSuperStep, ValidateOrphansStep, ValidateJournalStep, ValidateReservedStep,
     ValidatePolicyStep
<1>3. CASE ValidateInode \/ RepairCounts
  BY <1>3, ValidateInodeStep, RepairCountsStep
<1>4. CASE RepairBlockBitmap \/ RepairInodeBitmap \/ CleanBitmap \/ BitmapsDone
  BY <1>4, RepairBlockBitmapStep, RepairInodeBitmapStep, CleanBitmapStep, BitmapsDoneStep
<1>5. CASE RepairRecovery \/ RepairHeader
  BY <1>5, RepairRecoveryStep, RepairHeaderStep
<1>6. CASE Done \/ UNCHANGED vars
  BY <1>6, StutterStep DEF Done
<1>. QED
  BY <1>1, <1>2, <1>3, <1>4, <1>5, <1>6 DEF Next

LEMMA Inductive == Spec => []IInv
  BY InitIInv, NextIInv, PTL DEF Spec

(* What a check that exits with 0 promises, whatever was damaged before.   *)
THEOREM CleanCheckMeansConsistent == Spec => []CleanMeansConsistent
<1>1. IInv => CleanMeansConsistent
  BY DEF IInv
<1>. QED  BY <1>1, Inductive, PTL

(* A repair that reported nothing has left nothing but free counts for the *)
(* next check to report.  With checksums it may also leave a super block   *)
(* without a valid one.                                                    *)
THEOREM RepairAlwaysConverges == ASSUME ~Csum PROVE Spec => []RepairConverges
<1>1. ASSUME IInv PROVE RepairConverges
  <2> SUFFICES ASSUME last[1] = [repair |-> TRUE, errors |-> {}, failed |-> FALSE],
                      ~last[2].repair, ~last[2].failed, Agrees
               PROVE  last[2].errors \subseteq {"counts"}
    BY DEF RepairConverges, Agrees
  <2>1. last[1].repair = TRUE /\ last[1].errors = {} /\ last[1].failed = FALSE
    OBVIOUS
  <2>. QED  BY <1>1, <2>1 DEF IInv, Converges, Clean
<1>. QED  BY <1>1, Inductive, PTL

(* Wherever --repair is killed or fails, an image that mounts still does,  *)
(* a transaction to be replayed stays replayable, and no bit is cleared.   *)
THEOREM RepairAlwaysSafe == ASSUME ~Csum PROVE Spec => []RepairSafe
<1>1. ASSUME IInv PROVE RepairSafe
  BY <1>1 DEF IInv, Keeps, RepairSafe, BBits, IBits
<1>. QED  BY <1>1, Inductive, PTL
=============================================================================
