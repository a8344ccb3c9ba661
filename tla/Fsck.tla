-------------------------------- MODULE Fsck --------------------------------
(***************************************************************************)
(* tools/cryextsck.c on an image with block groups and the v1 journal:     *)
(* check and --repair in the order of main, over images that something     *)
(* damaged.  The image is not mounted meanwhile.  A run may be killed      *)
(* between two writes, a read or a write may fail, and the next run starts *)
(* from what is on the disk.                                               *)
(***************************************************************************)
EXTENDS Naturals, FiniteSets

CONSTANTS Inodes,      \* inodes_count; 1 is the root
          GroupBlocks, \* blocks of each group
          GroupInodes, \* inode numbers of each group
          Kind, Owns,  \* of each file, if there is one: "extents" or "blocks"; its blocks
          Meta,        \* metadata blocks in front of the data of each group
          Journal,     \* blocks of the journal
          RootBlock, PolicyBlock, \* used by mkfs
          Csum,        \* metadata checksums
          MaxDamage, MaxFaults, MaxRuns \* bounds: damages, failed calls, runs

Group == 0 .. Cardinality(DOMAIN GroupBlocks) - 1
Block == UNION {GroupBlocks[g] : g \in Group}
Inode == 1 .. Inodes
Root == 1

ASSUME FsckAssumption ==
  /\ Inodes \in Nat \ {0} /\ DOMAIN GroupBlocks = Group /\ DOMAIN GroupInodes = Group
  /\ IsFiniteSet(DOMAIN GroupBlocks) /\ IsFiniteSet(Block)
  /\ UNION {GroupInodes[g] : g \in Group} = Inode
  /\ \A i \in Inode \ {Root} : Kind[i] \in {"extents", "blocks"} /\ Owns[i] \subseteq Block
  /\ \A i, j \in Inode \ {Root} : i # j => Owns[i] \cap Owns[j] = {}
  /\ Meta \cup Journal \cup {RootBlock, PolicyBlock} \subseteq Block
  /\ Meta \cap Journal = {} /\ {RootBlock, PolicyBlock} \cap (Meta \cup Journal) = {}
  /\ Csum \in BOOLEAN /\ {MaxDamage, MaxFaults, MaxRuns} \subseteq Nat

VARIABLES
  disk,    \* the image
  pc,      \* where main is: "off" before and after a run
  repair,  \* repair_mode
  iseen, bseen,  \* inode_seen, block_seen
  at,      \* the inode or the group the loop is at
  errors,  \* what report() was called for
  failed,  \* ghost: a read or a write of this run failed
  start,   \* ghost: the image when the run started
  last,    \* ghost: how the last two runs ended, if nothing changed the image since
  budget   \* damages, faults and runs left

vars == <<disk, pc, repair, iseen, bseen, at, errors, failed, start, last, budget>>

(* data_block_valid: the journal lies in the data area, and so does the    *)
(* block of the root.                                                      *)
data_block_valid(b) == b \in Block \ Meta

(* group_data_start, and the journal: the bits that are always set *)
Reserved(g) == (Meta \cup Journal \cup {RootBlock}) \cap GroupBlocks[g]
AllReserved == UNION {Reserved(g) : g \in Group}

(* reserved_metadata_blocks: without the root's block *)
reserved_metadata_blocks == Cardinality(Meta) + Cardinality(Journal)

(* What the image says of itself *)
Live(d) == {i \in Inode : d.inode[i].kind # "free"}
Refs(d) == UNION {d.inode[i].refs : i \in Live(d)}
BBits(d) == UNION {d.bbits[g] : g \in Group}
IBits(d) == UNION {d.ibits[g] : g \in Group}
Shared(d) == {b \in Block : \/ b = PolicyBlock /\ b \in Refs(d)
                            \/ \E i, j \in Live(d) : i # j /\ b \in d.inode[i].refs \cap d.inode[j].refs}
Counts(is, bs) == [inodes |-> Inodes - Cardinality(is),
                   blocks |-> Cardinality(Block) - reserved_metadata_blocks - Cardinality(bs)]
TrueCounts(d) == Counts(Live(d), Refs(d) \cup {PolicyBlock})
-----------------------------------------------------------------------------
(* The images of an unmounted file system, with the header empty or, after *)
(* a crash, with a transaction to be replayed.                             *)
NoInode == [kind |-> "free", refs |-> {}, names |-> {}, links |-> 0, layout |-> TRUE]
File(k, R) == [kind |-> k, refs |-> R, names |-> {}, links |-> 1, layout |-> TRUE]
RootDir(N) == [kind |-> "dir", refs |-> {RootBlock}, names |-> N, links |-> 2, layout |-> TRUE]
Empty == [magic |-> TRUE, sum |-> TRUE, valid |-> FALSE, entries |-> FALSE]
Pending == [magic |-> TRUE, sum |-> TRUE, valid |-> TRUE, entries |-> TRUE]
Header == [magic : {TRUE}, sum : BOOLEAN, valid : BOOLEAN, entries : BOOLEAN]
            \cup {[magic |-> FALSE, sum |-> FALSE, valid |-> FALSE, entries |-> FALSE]}

Files == {F \in [Inode \ {Root} -> {NoInode} \cup {File(Kind[i], Owns[i]) : i \in Inode \ {Root}}] :
            \A i \in DOMAIN F : F[i] \in {NoInode, File(Kind[i], Owns[i])}}

Formatted(F, pending) ==
  LET live == {i \in DOMAIN F : F[i].kind # "free"}
      inode == [i \in Inode |-> IF i = Root THEN RootDir(live) ELSE F[i]]
      used == AllReserved \cup {PolicyBlock} \cup UNION {inode[i].refs : i \in Inode}
  IN  [super |-> [good |-> TRUE, sum |-> TRUE, state |-> pending, incompat |-> pending, head |-> 0,
                  free |-> Counts({Root} \cup live, {PolicyBlock} \cup UNION {inode[i].refs : i \in Inode})],
       boot |-> FALSE, policy |-> TRUE, inode |-> inode,
       bbits |-> [g \in Group |-> used \cap GroupBlocks[g]],
       ibits |-> [g \in Group |-> ({Root} \cup live) \cap GroupInodes[g]],
       header |-> IF pending THEN Pending ELSE Empty]

NotRun == [repair |-> FALSE, errors |-> {}, failed |-> TRUE]
Idle == /\ pc' = "off" /\ repair' = FALSE /\ iseen' = {} /\ bseen' = {} /\ at' = 0
        /\ errors' = {} /\ failed' = FALSE

Init ==
  /\ \E F \in Files, p \in BOOLEAN : disk = Formatted(F, p)
  /\ pc = "off" /\ repair = FALSE /\ iseen = {} /\ bseen = {} /\ at = 0
  /\ errors = {} /\ failed = FALSE /\ start = disk /\ last = <<NotRun, NotRun>>
  /\ budget = [damage |-> MaxDamage, fault |-> MaxFaults, run |-> MaxRuns]

(* What bit rot, a lost write or an earlier crash may do to one field,      *)
(* before the first run.                                                   *)
Damaged(d) ==
       {[d EXCEPT !.super.good = FALSE], [d EXCEPT !.policy = FALSE],
        [d EXCEPT !.super.state = ~@], [d EXCEPT !.super.incompat = ~@],
        [d EXCEPT !.super.state = ~@, !.super.incompat = ~@],
        [d EXCEPT !.super.free.blocks = @ + 1], [d EXCEPT !.super.free.inodes = @ + 1]}
  \cup {[d EXCEPT !.header = h] : h \in Header}
  \cup (UNION {{[d EXCEPT !.bbits[g] = @ \ {b}] : b \in GroupBlocks[g]} : g \in Group})
  \cup (UNION {{[d EXCEPT !.ibits[g] = @ \ {i}] : i \in GroupInodes[g]} : g \in Group})
  \cup {[d EXCEPT !.inode[i] = NoInode] : i \in Inode}
  \cup {[d EXCEPT !.inode[i].layout = FALSE] : i \in Live(d)}
  \cup {[d EXCEPT !.inode[i].refs = @ \cup {b}] : i \in Live(d), b \in Block}
  \cup {[d EXCEPT !.super.head = i, !.inode[i].links = 0] : i \in Inode \ {Root}}

Damage ==
  /\ pc = "off" /\ budget.damage > 0 /\ budget.run = MaxRuns
  /\ disk' \in Damaged(disk) \ {disk}
  /\ start' = disk' /\ last' = <<NotRun, NotRun>>
  /\ budget' = [budget EXCEPT !.damage = @ - 1]
  /\ UNCHANGED <<pc, repair, iseen, bseen, at, errors, failed>>
-----------------------------------------------------------------------------
(* main *)
Goto(p) == pc' = p
Report(what) == errors' = errors \cup {what}
Quiet == UNCHANGED errors
Same == UNCHANGED <<repair, start, last, budget>>
Reading == UNCHANGED <<disk, failed>>
Loops == UNCHANGED <<iseen, bseen, at>>

Run ==
  /\ pc = "off" /\ budget.run > 0
  /\ repair' \in BOOLEAN /\ Goto("super")
  /\ budget' = [budget EXCEPT !.run = @ - 1]
  /\ UNCHANGED <<disk, iseen, bseen, at, errors, failed, start, last>>

(* validate_super, validate_groups, validate_v5_layout_after_groups: a     *)
(* recovery flag that disagrees with the state only stops a check.         *)
SuperBad(s) == ~s.good \/ (Csum /\ ~s.sum) \/ (~repair /\ s.state # s.incompat)
ValidateSuper ==
  /\ pc = "super"
  /\ IF SuperBad(disk.super) THEN Report("super") /\ Goto("out") ELSE Quiet /\ Goto("orphans")
  /\ Reading /\ Loops /\ Same

(* validate_orphan_list: a list that could be cleaned up is an error too *)
ValidateOrphans ==
  /\ pc = "orphans"
  /\ IF disk.super.head # 0 THEN Report("orphans") /\ Goto("out") ELSE Quiet /\ Goto("journal")
  /\ Reading /\ Loops /\ Same

(* validate_journal_header for v1: --repair only warns, and a transaction  *)
(* that waits for its replay is no error.                                  *)
HeaderBad(d) ==
  LET h == d.header
  IN  IF ~h.magic THEN d.super.state
      ELSE ~h.sum \/ h.valid # h.entries \/ (h.valid /\ ~d.super.state)
ValidateJournal ==
  /\ pc = "journal"
  /\ IF HeaderBad(disk) /\ ~repair THEN Report("journal") /\ Goto("out") ELSE Quiet /\ Goto("reserved")
  /\ Reading /\ Loops /\ Same

ReservedBad(d) == ~(AllReserved \subseteq BBits(d)) \/ Root \notin IBits(d)
ValidateReserved ==
  /\ pc = "reserved"
  /\ IF ReservedBad(disk) /\ ~repair THEN Report("reserved") /\ Goto("out") ELSE Quiet /\ Goto("policy")
  /\ Reading /\ Loops /\ Same

ValidatePolicy ==
  /\ pc = "policy"
  /\ IF ~disk.policy THEN Report("policy") /\ Goto("out") /\ Loops
     ELSE /\ Quiet /\ Goto("inodes")
          /\ bseen' = {PolicyBlock} /\ at' = Root /\ UNCHANGED iseen
  /\ Reading /\ Same

(* validate_inode: what is wrong with an inode, and the blocks it marks.   *)
(* A block somebody has ends an extent list; a bad layout may end anything. *)
InodeBad(n) == \/ ~n.layout
               \/ n.refs \cap bseen # {}
               \/ \E b \in n.refs : ~data_block_valid(b)
Marks(n) == IF InodeBad(n) /\ (n.kind = "extents" \/ ~n.layout) THEN SUBSET n.refs
            ELSE {{b \in n.refs : data_block_valid(b)}}

(* validate_dir_block: entries must name inodes in use *)
DirBad(n) == \E i \in n.names : i \notin Live(disk)

ValidateInode ==
  LET n == disk.inode[at]
      bad == IF n.kind = "free" THEN at = Root ELSE InodeBad(n)
  IN  /\ pc = "inodes" /\ at <= Inodes
      /\ IF bad THEN Report("inode")
         ELSE IF n.kind = "dir" /\ DirBad(n) THEN Report("dir") ELSE Quiet
      /\ IF n.kind = "free" THEN UNCHANGED <<iseen, bseen>>
         ELSE /\ iseen' = iseen \cup {at}
              /\ \E m \in Marks(n) : bseen' = bseen \cup m
      /\ at' = at + 1 /\ UNCHANGED pc
      /\ Reading /\ Same

(* repair_super_counts writes the counts to the start of the block, which  *)
(* is the boot area: the super block lies behind it.                       *)
RepairCounts ==
  /\ pc = "inodes" /\ at > Inodes
  /\ IF disk.super.free = Counts(iseen, bseen) THEN Quiet /\ Goto("bbitmap") /\ UNCHANGED disk
     ELSE IF repair THEN Quiet /\ Goto("bbitmap") /\ disk' = [disk EXCEPT !.boot = TRUE]
     ELSE Report("counts") /\ Goto("out") /\ UNCHANGED disk
  /\ at' = 0 /\ UNCHANGED <<iseen, bseen, failed>> /\ Same

(* repair_bitmaps: only bits that are missing; a group's two blocks are    *)
(* written one after the other.                                            *)
Mut_NewBBits(g) == disk.bbits[g] \cup (bseen \cap GroupBlocks[g])
NewBBits(g) == disk.bbits[g] \cup Reserved(g) \cup (bseen \cap GroupBlocks[g])
NewIBits(g) == disk.ibits[g] \cup (iseen \cap GroupInodes[g])
Mut_Dirty(g) == NewBBits(g) # disk.bbits[g]
Dirty(g) == NewBBits(g) # disk.bbits[g] \/ NewIBits(g) # disk.ibits[g]
RepairBlockBitmap ==
  /\ pc = "bbitmap" /\ at \in Group /\ Dirty(at)
  /\ IF repair THEN /\ disk' = [disk EXCEPT !.bbits[at] = NewBBits(at)]
                    /\ Quiet /\ Goto("ibitmap") /\ UNCHANGED at
     ELSE Report("bitmaps") /\ at' = at + 1 /\ UNCHANGED <<disk, pc>>
  /\ UNCHANGED <<iseen, bseen, failed>> /\ Same
RepairInodeBitmap ==
  /\ pc = "ibitmap"
  /\ disk' = [disk EXCEPT !.ibits[at] = NewIBits(at)]
  /\ Goto("bbitmap") /\ at' = at + 1
  /\ UNCHANGED <<iseen, bseen, failed>> /\ Quiet /\ Same
CleanBitmap ==
  /\ pc = "bbitmap" /\ at \in Group /\ ~Dirty(at)
  /\ at' = at + 1 /\ UNCHANGED <<pc, iseen, bseen>> /\ Reading /\ Quiet /\ Same
BitmapsDone ==
  /\ pc = "bbitmap" /\ at \notin Group
  /\ Goto(IF repair THEN "recovery" ELSE "out")
  /\ Reading /\ Loops /\ Quiet /\ Same

(* repair_recovery_state: which of super block and header it rewrites *)
SetSuper(d) == \/ d.super.state /\ ~d.header.magic
               \/ d.super.state /\ d.header.magic /\ ~d.header.valid /\ (~d.header.entries \/ ~d.header.sum)
SetHeader(d) == \/ d.super.state /\ ~d.header.magic
                \/ d.header.magic /\ ~d.header.sum /\ ~d.header.valid

Mut_Recovered(s) == [s EXCEPT !.state = FALSE, !.sum = FALSE]
Recovered(s) == [s EXCEPT !.state = FALSE, !.incompat = FALSE, !.sum = FALSE]

RepairRecovery ==
  /\ pc = "recovery"
  /\ disk' = IF SetSuper(disk) THEN [disk EXCEPT !.super = Recovered(@)] ELSE disk
  /\ Goto(IF SetHeader(disk) THEN "header" ELSE "out")
  /\ UNCHANGED failed /\ Loops /\ Quiet /\ Same
RepairHeader ==
  /\ pc = "header"
  /\ disk' = [disk EXCEPT !.header = Empty]
  /\ Goto("out")
  /\ UNCHANGED failed /\ Loops /\ Quiet /\ Same

(* The exit status is 1 if anything was reported, else 0 *)
Out ==
  /\ pc = "out"
  /\ Idle /\ start' = disk
  /\ last' = <<last[2], [repair |-> repair, errors |-> errors, failed |-> failed]>>
  /\ UNCHANGED <<disk, budget>>

(* A call that fails.  A bitmap, directory or orphan that cannot be read   *)
(* is passed over; an inode ends the scan with an error; every other       *)
(* failure ends the run, and only those of the first part are reported.    *)
Fault ==
  /\ budget.fault > 0 /\ budget' = [budget EXCEPT !.fault = @ - 1]
  /\ failed' = TRUE
  /\ \/ pc = "super" /\ Report("super") /\ Goto("out") /\ Loops
     \/ pc = "orphans" /\ disk.super.head # 0 /\ Quiet /\ Goto("journal") /\ Loops
     \/ pc = "journal" /\ Report("journal") /\ Goto("out") /\ Loops
     \/ pc = "reserved" /\ Quiet /\ Goto("policy") /\ Loops
     \/ pc = "inodes" /\ at <= Inodes /\ Report("inode") /\ at' = Inodes + 1 /\ UNCHANGED <<pc, iseen, bseen>>
     \/ pc = "inodes" /\ at <= Inodes /\ disk.inode[at].kind = "dir" /\ ~InodeBad(disk.inode[at])
        /\ Quiet /\ iseen' = iseen \cup {at} /\ bseen' = bseen \cup disk.inode[at].refs
        /\ at' = at + 1 /\ UNCHANGED pc
     \/ pc = "inodes" /\ at <= Inodes /\ disk.inode[at].kind \in {"extents", "blocks"}
        /\ Quiet /\ iseen' = iseen \cup {at} /\ at' = at + 1 /\ UNCHANGED pc
        /\ \E m \in SUBSET disk.inode[at].refs : bseen' = bseen \cup m
     \/ pc \in {"policy", "ibitmap", "header"} /\ Quiet /\ Goto("out") /\ Loops
     \/ pc = "bbitmap" /\ at \in Group /\ Quiet /\ Goto("out") /\ Loops
     \/ pc = "recovery" /\ SetSuper(disk) /\ Quiet /\ Goto("out") /\ Loops
     \/ pc = "inodes" /\ at > Inodes /\ repair /\ disk.super.free # Counts(iseen, bseen)
        /\ Quiet /\ Goto("out") /\ Loops
  /\ UNCHANGED <<disk, repair, start, last>>

(* The tool is killed *)
Kill ==
  /\ pc # "off"
  /\ Idle /\ start' = disk /\ last' = <<NotRun, NotRun>>
  /\ UNCHANGED <<disk, budget>>

Done == pc = "off" /\ budget.run = 0 /\ UNCHANGED vars

Next ==
  \/ Damage \/ Run \/ ValidateSuper \/ ValidateOrphans \/ ValidateJournal \/ ValidateReserved
  \/ ValidatePolicy \/ ValidateInode \/ RepairCounts \/ RepairBlockBitmap \/ RepairInodeBitmap
  \/ CleanBitmap \/ BitmapsDone \/ RepairRecovery \/ RepairHeader \/ Out \/ Fault \/ Kill \/ Done

Spec == Init /\ [][Next]_vars
-----------------------------------------------------------------------------
(* What cryexts_validate_super and cryexts_journal_replay ask of the image, *)
(* and when replay would write a transaction home.                         *)
Mountable(d) == /\ d.super.good /\ (Csum => d.super.sum) /\ d.super.state = d.super.incompat
                /\ d.super.state /\ d.header.magic => d.header.sum
Replayable(d) == d.super.state /\ d.header = Pending

Consistent(d) ==
  /\ Mountable(d) /\ d.super.head = 0 /\ d.super.free = TrueCounts(d)
  /\ Shared(d) = {} /\ Refs(d) \cap Meta = {}
  /\ Refs(d) \cup AllReserved \subseteq BBits(d) /\ Live(d) \subseteq IBits(d)
  /\ \A i \in Live(d) : d.inode[i].names \subseteq Live(d)

(* A check that exits with 0, and whose reads all succeeded, has seen an   *)
(* image that mounts, whose entries name inodes in use, whose inodes and   *)
(* blocks are all marked and owned once, and whose counts are right.  It   *)
(* does not look for marked blocks nobody owns, wrong link counts, or      *)
(* files in the journal's area.                                            *)
CleanMeansConsistent ==
  pc = "off" /\ last[2] = [repair |-> FALSE, errors |-> {}, failed |-> FALSE] => Consistent(disk)

(* When --repair says clean, a check right after it finds nothing but free *)
(* counts, unless it could not repair the recovery state: flags that       *)
(* disagree, or a header with entries or marked valid.                     *)
RepairConverges ==
  /\ last[1] = [repair |-> TRUE, errors |-> {}, failed |-> FALSE]
  /\ ~last[2].repair /\ ~last[2].failed
  /\ disk.super.state = disk.super.incompat /\ ~disk.header.valid /\ ~disk.header.entries
  => last[2].errors \subseteq {"counts"}

(* Wherever --repair is killed, what could be mounted still can (without   *)
(* checksums), a transaction that waits for replay still does, and no bit  *)
(* of a block or inode in use is lost.                                     *)
RepairSafe ==
  /\ Mountable(start) => Mountable(disk)
  /\ Replayable(start) => Replayable(disk)
  /\ BBits(start) \subseteq BBits(disk) /\ IBits(start) \subseteq IBits(disk)
=============================================================================
