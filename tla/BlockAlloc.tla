----------------------------- MODULE BlockAlloc -----------------------------
(***************************************************************************)
(* The data block allocator of balloc.c: block bitmaps, the free counts of *)
(* the group descriptors and of the super block, and the search order with *)
(* goal block, goal group and next_data_block.                             *)
(*                                                                         *)
(* Every operation runs under sbi->alloc_lock from its first read of this  *)
(* state to its last write, so an operation is one step.  The bitmaps are  *)
(* the set of the blocks whose bit is set.                                 *)
(***************************************************************************)
EXTENDS Search, FiniteSets

CONSTANTS
  HasGroups,        \* FEATURE_INCOMPAT_BLOCK_GROUPS
  Prealloc,         \* FEATURE_COMPAT_PREALLOC
  BlocksCount, BlocksPerGroup, GroupCount,
  FirstDataBlock,   \* first_data_block of the super block
  DataStart,        \* first block after the inode table of each group
  Reserved          \* data-area blocks mkfs takes: root directory, policy
                    \* table, journal

Block == 0 .. BlocksCount - 1
Group == 0 .. GroupCount - 1

(* What mkfs.cryexts makes and validate_super accepts: every group but the *)
(* last is full, and the root group holds its own metadata.               *)
ASSUME LayoutAssumption ==
  /\ HasGroups \in BOOLEAN /\ Prealloc \in BOOLEAN
  /\ BlocksCount \in Nat \ {0} /\ BlocksPerGroup \in Nat \ {0} /\ GroupCount \in Nat \ {0}
  /\ (GroupCount - 1) * BlocksPerGroup < BlocksCount
  /\ BlocksCount <= GroupCount * BlocksPerGroup
  /\ FirstDataBlock \in Block \ {0}
  /\ HasGroups => FirstDataBlock < BlocksPerGroup
  /\ DataStart \in [Group -> Nat]
  /\ Reserved \subseteq Block

VARIABLES
  used,     \* blocks whose bit is set
  gfree,    \* free_blocks_count of every group descriptor
  sfree,    \* free_blocks_count of the super block
  nextData, \* sbi->next_data_block
  got       \* answer of the last allocation, NoBlock for -ENOSPC

vars == <<used, gfree, sfree, nextData, got>>

NoBlock == 0
NoGoal == 0          \* goal_block of cryexts_alloc_block
NoGroup == GroupCount  \* any goal_group that is no group (U64_MAX in the code)
-----------------------------------------------------------------------------
GroupOf(b) == b \div BlocksPerGroup

(* Mutant: the scan runs one bit past the last group. *)
InGroupOneMore(g) == {b \in 0 .. BlocksCount : GroupOf(b) = g}

InGroup(g) == {b \in Block : GroupOf(b) = g}

(* cryexts_data_block_valid *)
DataValid(b) ==
  /\ b \in Block \ {0}
  /\ IF HasGroups /\ GroupOf(b) # 0
     THEN b >= DataStart[GroupOf(b)]
     ELSE b >= FirstDataBlock

DataBlock == {b \in Block : DataValid(b)}

(* cryexts_first_data_group *)
FirstDataGroup == IF HasGroups THEN GroupOf(FirstDataBlock) ELSE 0

(* What mkfs.cryexts sets in the bitmaps. *)
Pinned == (Block \ DataBlock) \cup Reserved

Init ==
  /\ used = Pinned
  /\ gfree = [g \in Group |-> Cardinality(InGroup(g) \ used)]
  /\ sfree = Cardinality(Block \ used)
  /\ nextData = FirstDataBlock + 1
  /\ got = NoBlock
-----------------------------------------------------------------------------
(* The clear bits cryexts_alloc_block_in_group may take in group g. *)
FreeIn(g) == {b \in InGroup(g) : b >= FirstDataBlock /\ b \notin used}

(* Mutant: the second half of the scan, below the hint, is missing. *)
FirstFitNoWrap(g, hint) ==
  LET above == {b \in FreeIn(g) : b >= hint}
  IN IF hint \notin InGroup(g) THEN Least(FreeIn(g))
     ELSE IF above # {} THEN Least(above) ELSE NoBlock

(* Mutant: the scan starts after the hint. *)
FirstFitAfterHint(g, hint) ==
  LET above == {b \in FreeIn(g) : b > hint}
  IN IF hint \in InGroup(g) /\ above # {} THEN Least(above) ELSE Least(FreeIn(g))

(* cryexts_alloc_block_in_group: the first clear bit from the hint on, then *)
(* from the start of the group; a hint outside the group counts as none.   *)
FirstFit(g, hint) ==
  LET above == {b \in FreeIn(g) : b >= hint}
  IN IF hint \in InGroup(g) /\ above # {} THEN Least(above) ELSE Least(FreeIn(g))

HaveGoal(goal) == goal # NoGoal /\ DataValid(goal)

(* The group the scan of cryexts_alloc_block_goal begins with. *)
StartGroup(goal, goalGroup) ==
  IF Prealloc /\ goalGroup \in Group THEN goalGroup
  ELSE IF Prealloc /\ HaveGoal(goal) THEN GroupOf(goal)
  ELSE FirstDataGroup

Scanned(goal, goalGroup, i) ==
  RoundGroup(StartGroup(goal, goalGroup), i, GroupCount)

(* The tests of the scan; a group whose bitmap turns out full is passed.   *)
Eligible(g) == g >= FirstDataGroup /\ gfree[g] # 0 /\ FreeIn(g) # {}

StartHint(goal, goalGroup, g, i) ==
  IF Prealloc
  THEN IF HaveGoal(goal) /\ GroupOf(goal) = g THEN goal
       ELSE IF g = goalGroup /\ nextData \in InGroup(g) THEN nextData
       ELSE NoGoal
  ELSE IF i = 0 THEN nextData ELSE NoGoal

(* The positions of the scan at which a block is found.  The second scan,  *)
(* made when the first fails, applies the same tests to the same groups.   *)
Hits(goal, goalGroup) ==
  {i \in 0 .. GroupCount - 1 : Eligible(Scanned(goal, goalGroup, i))}

Found(goal, goalGroup) ==
  LET i == Least(Hits(goal, goalGroup))
      g == Scanned(goal, goalGroup, i)
  IN FirstFit(g, StartHint(goal, goalGroup, g, i))

(* The clear bits cryexts_alloc_block_legacy may take. *)
LegacyFree == {b \in Block : b >= FirstDataBlock /\ b \notin used}

(* The block an allocation finds, NoBlock when it returns -ENOSPC. *)
Choice(goal, goalGroup) ==
  IF ~HasGroups THEN IF LegacyFree = {} THEN NoBlock ELSE Least(LegacyFree)
  ELSE IF Hits(goal, goalGroup) = {} THEN NoBlock
  ELSE Found(goal, goalGroup)

(* cryexts_alloc_block_goal *)
AllocBlock(goal, goalGroup) ==
  LET b == Choice(goal, goalGroup)
  IN IF b = NoBlock
     THEN got' = NoBlock /\ UNCHANGED <<used, gfree, sfree, nextData>>
     ELSE /\ used' = used \cup {b}
          /\ gfree' = IF HasGroups THEN [gfree EXCEPT ![GroupOf(b)] = @ - 1] ELSE gfree
          /\ sfree' = sfree - 1
          /\ nextData' = b + 1
          /\ got' = b

(* Mutant: a bit that is already clear is counted again. *)
FreeBlockTwice(b) ==
  /\ DataValid(b)
  /\ used' = used \ {b}
  /\ gfree' = IF HasGroups THEN [gfree EXCEPT ![GroupOf(b)] = @ + 1] ELSE gfree
  /\ sfree' = sfree + 1
  /\ UNCHANGED <<nextData, got>>

(* Mutant: the data_block_valid test is missing. *)
FreeBlockUnchecked(b) ==
  /\ b \in used
  /\ used' = used \ {b}
  /\ gfree' = IF HasGroups THEN [gfree EXCEPT ![GroupOf(b)] = @ + 1] ELSE gfree
  /\ sfree' = sfree + 1
  /\ UNCHANGED <<nextData, got>>

(* cryexts_free_block; a block outside the data area (-EINVAL) and a block *)
(* already free (0) change nothing.                                        *)
FreeBlock(b) ==
  /\ DataValid(b) /\ b \in used
  /\ used' = used \ {b}
  /\ gfree' = IF HasGroups THEN [gfree EXCEPT ![GroupOf(b)] = @ + 1] ELSE gfree
  /\ sfree' = sfree + 1
  /\ UNCHANGED <<nextData, got>>

(* A caller may name any goal; it frees any block number it read from an   *)
(* inode, which is never one of the blocks mkfs took for itself.           *)
Next ==
  \/ \E goal \in Block, goalGroup \in Group \cup {NoGroup} : AllocBlock(goal, goalGroup)
  \/ \E b \in Block \ Reserved : FreeBlock(b)

Spec == Init /\ [][Next]_vars
-----------------------------------------------------------------------------
(* Types. *)
TypeOK ==
  /\ used \subseteq Block
  /\ gfree \in [Group -> Int]
  /\ sfree \in Int
  /\ nextData \in Nat
  /\ got \in Block

(* The free counts of the super block and of every group descriptor are    *)
(* the numbers of clear bits: alloc and free move bitmap and counts        *)
(* together, so the scan never skips a group that has room and statfs never*)
(* reports space that is not there.                                        *)
CountsExact ==
  /\ sfree = Cardinality(Block \ used)
  /\ HasGroups => \A g \in Group : gfree[g] = Cardinality(InGroup(g) \ used)

(* Bitmaps, inode tables, the root directory, the policy table and the     *)
(* journal are never handed to a file: the search looks at nothing but the *)
(* bitmap, so every bit mkfs set has to stay set whatever is freed.        *)
MetadataPinned == Pinned \subseteq used

(* The allocator implements a pool of the blocks mkfs left free: it hands  *)
(* out a free data block, and answers -ENOSPC only when none is left.      *)
Pool == INSTANCE FreePool WITH
          Resource <- DataBlock \ Reserved, Nothing <- NoBlock,
          free <- Block \ used, got <- got

BlocksArePooled == Pool!Spec

(* With PREALLOC a free goal block is the block allocated, unless the goal *)
(* group sends the search to another group first; if the goal block is     *)
(* taken, the search stays in its group while that has a free block.       *)
GoalHonoured ==
  [][\A goal \in Block, goalGroup \in Group \cup {NoGroup} :
       (/\ HasGroups /\ Prealloc /\ HaveGoal(goal)
        /\ goalGroup \in {GroupOf(goal), NoGroup}
        /\ AllocBlock(goal, goalGroup))
       => /\ goal \notin used => got' = goal
          /\ InGroup(GroupOf(goal)) \ used # {} => GroupOf(got') = GroupOf(goal)]_vars
=============================================================================
