-------------------------- MODULE BlockAlloc_proofs --------------------------
(***************************************************************************)
(* Proofs about BlockAlloc, for every layout LayoutAssumption allows: the  *)
(* free counts are exact, metadata stays allocated, and the allocator      *)
(* implements FreePool.                                                    *)
(***************************************************************************)
EXTENDS BlockAlloc, FiniteSetTheorems, WellFoundedInduction, TLAPS

(* Every nonempty set of naturals has the element Least chooses. *)
LEMMA LeastInSet ==
  ASSUME NEW S \in SUBSET Nat, S # {}
  PROVE  Least(S) \in S /\ \A y \in S : Least(S) <= y
<1> DEFINE R == {ss \in Nat \X Nat : ss[1] < ss[2]}
<1>1. IsWellFoundedOn(R, Nat)
  BY NatLessThanWellFounded DEF OpToRel
<1>2. PICK x \in S : \A y \in S : ~(<<y, x>> \in R)
  <2> HIDE DEF R
  <2>. QED  BY <1>1, WFMin
<1>3. \A y \in S : x <= y
  <2>1. SUFFICES ASSUME NEW y \in S, y < x PROVE FALSE
    OBVIOUS
  <2>2. <<y, x>> \in R
    BY <2>1
  <2>. QED  BY <2>2, <1>2
<1>. QED
  BY <1>3 DEF Least

(* Arithmetic of groups. *)
LEMMA DivRange ==
  ASSUME NEW b \in Nat, NEW B \in Nat \ {0}, NEW G \in Nat, b < G * B
  PROVE  b \div B \in 0 .. G - 1
<1> DEFINE q == b \div B
           r == b % B
<1>1. q \in Int /\ r \in 0 .. B - 1 /\ b = B * q + r
  OBVIOUS
<1>2. q >= 0
  <2>1. SUFFICES ASSUME q <= -1 PROVE FALSE
    BY <1>1
  <2>2. B * q <= -B
    BY <2>1, <1>1
  <2>. QED
    BY <2>2, <1>1
<1>3. q < G
  <2>1. SUFFICES ASSUME q >= G PROVE FALSE
    BY <1>1
  <2>2. B * q >= B * G
    BY <2>1, <1>1
  <2>. QED
    BY <2>2, <1>1
<1>. QED
  BY <1>1, <1>2, <1>3

LEMMA ModWrap ==
  ASSUME NEW G \in Nat \ {0}, NEW a \in 0 .. G - 1
  PROVE  a % G = a /\ (a + G) % G = a
OBVIOUS

(* The round meets every group. *)
LEMMA ScanComplete ==
  ASSUME NEW n \in Nat \ {0}, NEW start \in 0 .. n - 1, NEW g \in 0 .. n - 1
  PROVE  \E k \in 0 .. n - 1 : RoundGroup(start, k, n) = g
<1>1. CASE g >= start
  <2>1. g - start \in 0 .. n - 1 /\ start + (g - start) = g
    BY <1>1
  <2>2. g % n = g
    BY ModWrap
  <2>. QED  BY <2>1, <2>2 DEF RoundGroup
<1>2. CASE g < start
  <2>1. g + n - start \in 0 .. n - 1 /\ start + (g + n - start) = g + n
    BY <1>2
  <2>2. (g + n) % n = g
    BY ModWrap
  <2>. QED  BY <2>1, <2>2 DEF RoundGroup
<1>. QED
  BY <1>1, <1>2
-----------------------------------------------------------------------------
LEMMA BlocksFinite ==
  ASSUME NEW T
  PROVE  /\ IsFiniteSet(Block \ T)
         /\ \A g : IsFiniteSet(InGroup(g) \ T)
         /\ Cardinality(Block \ T) \in Nat
         /\ \A g : Cardinality(InGroup(g) \ T) \in Nat
<1>1. IsFiniteSet(Block)
  BY FS_Interval, LayoutAssumption DEF Block
<1>2. IsFiniteSet(Block \ T)
  BY <1>1, FS_Subset
<1>3. ASSUME NEW g PROVE IsFiniteSet(InGroup(g) \ T)
  <2>1. InGroup(g) \ T \in SUBSET Block
    BY DEF InGroup
  <2>. QED  BY <1>1, <2>1, FS_Subset
<1>. QED
  BY <1>2, <1>3, FS_CardinalityType

LEMMA GroupOfBlock ==
  ASSUME NEW b \in Block
  PROVE  GroupOf(b) \in Group /\ b \in InGroup(GroupOf(b))
<1>1. b \in Nat /\ b < GroupCount * BlocksPerGroup
  BY LayoutAssumption DEF Block
<1>2. GroupOf(b) \in Group
  BY <1>1, DivRange, LayoutAssumption DEF GroupOf, Group
<1>. QED
  BY <1>2 DEF InGroup

(* With the root group's metadata in the root group, a data block is never *)
(* below first_data_block, and group 0 is the first data group.            *)
LEMMA DataAboveFirst ==
  ASSUME NEW b \in DataBlock
  PROVE  b >= FirstDataBlock /\ FirstDataGroup = 0
<1>1. FirstDataBlock \in Nat /\ b \in Nat /\ BlocksPerGroup \in Nat \ {0}
  BY LayoutAssumption DEF DataBlock, Block
<1>2. HasGroups => GroupOf(FirstDataBlock) = 0
  <2>1. SUFFICES ASSUME HasGroups PROVE GroupOf(FirstDataBlock) = 0
    OBVIOUS
  <2>2. FirstDataBlock < 1 * BlocksPerGroup
    BY <2>1, <1>1, LayoutAssumption
  <2>3. FirstDataBlock \div BlocksPerGroup \in 0 .. 1 - 1
    BY <1>1, <2>2, DivRange
  <2>. QED  BY <2>3 DEF GroupOf
<1>3. CASE HasGroups /\ GroupOf(b) # 0
  <2>1. ~(b < 1 * BlocksPerGroup)
    <3>1. SUFFICES ASSUME b < 1 * BlocksPerGroup PROVE FALSE
      OBVIOUS
    <3>2. b \div BlocksPerGroup \in 0 .. 1 - 1
      BY <3>1, <1>1, DivRange
    <3>. QED  BY <3>2, <1>3 DEF GroupOf
  <2>. QED  BY <2>1, <1>1, <1>2, <1>3, LayoutAssumption DEF FirstDataGroup
<1>4. CASE ~(HasGroups /\ GroupOf(b) # 0)
  BY <1>2, <1>4 DEF DataBlock, DataValid, FirstDataGroup
<1>. QED
  BY <1>3, <1>4
-----------------------------------------------------------------------------
(* The inductive invariant.  CountsExact alone is not inductive: a search  *)
(* that found a block below first_data_block, or missed one, would need    *)
(* the bits of the metadata; MetadataPinned supplies them.                 *)
IInv == TypeOK /\ CountsExact /\ MetadataPinned

(* What is clear in the bitmaps is what the search may take. *)
LEMMA ClearIsFree ==
  ASSUME IInv
  PROVE  /\ \A b \in Block \ used : b \in DataBlock \ Reserved /\ b # NoBlock
         /\ \A g : FreeIn(g) = InGroup(g) \ used
         /\ LegacyFree = Block \ used
<1>1. \A b \in Block \ used : b \in DataBlock \ Reserved
  BY DEF IInv, MetadataPinned, Pinned
<1>2. \A b \in Block \ used : b # NoBlock /\ b >= FirstDataBlock
  BY <1>1, DataAboveFirst DEF DataBlock, DataValid, NoBlock
<1>3. \A g : FreeIn(g) = InGroup(g) \ used
  BY <1>2 DEF FreeIn, InGroup
<1>. QED
  BY <1>1, <1>2, <1>3 DEF LegacyFree

(* A group has a clear bit exactly when its descriptor counts one. *)
LEMMA EligibleGroups ==
  ASSUME IInv, HasGroups, NEW g \in Group
  PROVE  Eligible(g) <=> InGroup(g) \ used # {}
<1>1. gfree[g] = Cardinality(InGroup(g) \ used)
  BY DEF IInv, CountsExact
<1>2. gfree[g] # 0 <=> InGroup(g) \ used # {}
  BY <1>1, BlocksFinite, FS_EmptySet
<1>3. g >= FirstDataGroup \/ InGroup(g) \ used = {}
  <2>1. SUFFICES ASSUME NEW b \in InGroup(g) \ used PROVE g >= FirstDataGroup
    OBVIOUS
  <2>2. b \in DataBlock
    BY ClearIsFree DEF InGroup
  <2>. QED  BY <2>2, DataAboveFirst, LayoutAssumption DEF Group
<1>. QED
  BY <1>2, <1>3, ClearIsFree DEF Eligible

LEMMA FirstFitFree ==
  ASSUME IInv, NEW g, FreeIn(g) # {}, NEW hint
  PROVE  FirstFit(g, hint) \in InGroup(g) \ used
<1>1. FreeIn(g) \in SUBSET Nat /\ FreeIn(g) \subseteq InGroup(g) \ used
  BY LayoutAssumption DEF FreeIn, InGroup, Block
<1> DEFINE above == {b \in FreeIn(g) : b >= hint}
<1>2. above \in SUBSET Nat /\ above \subseteq FreeIn(g)
  BY <1>1
<1>3. above # {} => Least(above) \in above
  BY <1>2, LeastInSet
<1>4. Least(FreeIn(g)) \in FreeIn(g)
  BY <1>1, LeastInSet
<1>. QED
  BY <1>1, <1>2, <1>3, <1>4 DEF FirstFit

LEMMA StartInGroup ==
  ASSUME NEW goal \in Block, NEW goalGroup
  PROVE  StartGroup(goal, goalGroup) \in Group
<1>1. FirstDataGroup \in Group
  BY GroupOfBlock, LayoutAssumption DEF FirstDataGroup, Group
<1>. QED
  BY <1>1, GroupOfBlock DEF StartGroup

(* An allocation finds a clear bit, or there is none. *)
LEMMA ChoiceFree ==
  ASSUME IInv, NEW goal \in Block, NEW goalGroup
  PROVE  LET b == Choice(goal, goalGroup)
         IN  IF b = NoBlock THEN Block \ used = {} ELSE b \in Block \ used
<1>1. CASE ~HasGroups
  <2>1. LegacyFree \in SUBSET Nat
    BY LayoutAssumption DEF LegacyFree, Block
  <2>2. LegacyFree # {} => Least(LegacyFree) \in LegacyFree
    BY <2>1, LeastInSet
  <2>. QED  BY <1>1, <2>2, ClearIsFree DEF Choice
<1>2. CASE HasGroups
  <2> DEFINE hits == Hits(goal, goalGroup)
             i == Least(hits)
             g == Scanned(goal, goalGroup, i)
  <2>0. StartGroup(goal, goalGroup) \in Group
    BY StartInGroup
  <2>1. CASE hits = {}
    <3>1. SUFFICES ASSUME NEW b \in Block \ used PROVE FALSE
      BY <1>2, <2>1 DEF Choice
    <3>2. GroupOf(b) \in Group /\ InGroup(GroupOf(b)) \ used # {}
      BY GroupOfBlock
    <3>3. Eligible(GroupOf(b))
      BY <1>2, <3>2, EligibleGroups
    <3>4. PICK k \in 0 .. GroupCount - 1 :
            RoundGroup(StartGroup(goal, goalGroup), k, GroupCount) = GroupOf(b)
      BY <2>0, <3>2, ScanComplete, LayoutAssumption DEF Group
    <3>5. k \in hits
      BY <3>3, <3>4 DEF Hits, Scanned
    <3>. QED  BY <3>5, <2>1
  <2>2. CASE hits # {}
    <3>1. hits \in SUBSET Nat
      BY LayoutAssumption DEF Hits
    <3>2. i \in hits
      BY <2>2, <3>1, LeastInSet
    <3>3. FreeIn(g) # {}
      BY <3>2 DEF Hits, Eligible
    <3>4. Found(goal, goalGroup) \in InGroup(g) \ used
      BY <3>3, FirstFitFree DEF Found
    <3>5. Found(goal, goalGroup) \in Block \ used
      BY <3>4 DEF InGroup
    <3>6. Choice(goal, goalGroup) = Found(goal, goalGroup)
      BY <1>2, <2>2 DEF Choice
    <3>. QED  BY <3>5, <3>6, ClearIsFree
  <2>. QED  BY <2>1, <2>2
<1>. QED
  BY <1>1, <1>2
-----------------------------------------------------------------------------
(* Clearing or setting one bit moves exactly two counts by one. *)
LEMMA BitSet ==
  ASSUME NEW T, NEW b \in Block, b \notin T
  PROVE  /\ Cardinality(Block \ (T \cup {b})) = Cardinality(Block \ T) - 1
         /\ \A g : Cardinality(InGroup(g) \ (T \cup {b})) =
                     IF g = GroupOf(b) THEN Cardinality(InGroup(g) \ T) - 1
                     ELSE Cardinality(InGroup(g) \ T)
<1>1. Block \ (T \cup {b}) = (Block \ T) \ {b}
  OBVIOUS
<1>2. ASSUME NEW g
      PROVE  Cardinality(InGroup(g) \ (T \cup {b})) =
                     IF g = GroupOf(b) THEN Cardinality(InGroup(g) \ T) - 1
                     ELSE Cardinality(InGroup(g) \ T)
  <2>1. InGroup(g) \ (T \cup {b}) = (InGroup(g) \ T) \ {b}
    OBVIOUS
  <2>2. b \in InGroup(g) \ T <=> g = GroupOf(b)
    BY DEF InGroup
  <2>. QED  BY <2>1, <2>2, BlocksFinite, FS_RemoveElement
<1>3. Cardinality((Block \ T) \ {b}) = Cardinality(Block \ T) - 1
  BY BlocksFinite, FS_RemoveElement
<1>. QED
  BY <1>1, <1>2, <1>3

LEMMA BitClear ==
  ASSUME NEW T, NEW b \in Block, b \in T
  PROVE  /\ Cardinality(Block \ (T \ {b})) = Cardinality(Block \ T) + 1
         /\ \A g : Cardinality(InGroup(g) \ (T \ {b})) =
                     IF g = GroupOf(b) THEN Cardinality(InGroup(g) \ T) + 1
                     ELSE Cardinality(InGroup(g) \ T)
<1>1. Block \ (T \ {b}) = (Block \ T) \cup {b}
  OBVIOUS
<1>2. ASSUME NEW g
      PROVE  Cardinality(InGroup(g) \ (T \ {b})) =
                     IF g = GroupOf(b) THEN Cardinality(InGroup(g) \ T) + 1
                     ELSE Cardinality(InGroup(g) \ T)
  <2>1. CASE g = GroupOf(b)
    <3>1. InGroup(g) \ (T \ {b}) = (InGroup(g) \ T) \cup {b}
      BY <2>1 DEF InGroup
    <3>. QED  BY <2>1, <3>1, BlocksFinite, FS_AddElement
  <2>2. CASE g # GroupOf(b)
    <3>1. InGroup(g) \ (T \ {b}) = InGroup(g) \ T
      BY <2>2 DEF InGroup
    <3>. QED  BY <2>2, <3>1
  <2>. QED  BY <2>1, <2>2
<1>3. Cardinality((Block \ T) \cup {b}) = Cardinality(Block \ T) + 1
  BY BlocksFinite, FS_AddElement
<1>. QED
  BY <1>1, <1>2, <1>3

LEMMA InitIInv == Init => IInv
<1> SUFFICES ASSUME Init PROVE IInv
  OBVIOUS
<1>1. CountsExact
  BY DEF Init, CountsExact
<1>2. MetadataPinned
  BY DEF Init, MetadataPinned
<1>3. TypeOK
  <2>1. used \subseteq Block
    BY LayoutAssumption DEF Init, Pinned
  <2>2. gfree \in [Group -> Int] /\ sfree \in Int
    <3>1. /\ Cardinality(Block \ used) \in Nat
          /\ \A g : Cardinality(InGroup(g) \ used) \in Nat
      BY BlocksFinite, Zenon
    <3>. QED  BY <3>1 DEF Init
  <2>3. nextData \in Nat /\ got \in Block
    BY LayoutAssumption DEF Init, NoBlock, Block
  <2>. QED  BY <2>1, <2>2, <2>3 DEF TypeOK
<1>. QED
  BY <1>1, <1>2, <1>3 DEF IInv

LEMMA AllocBlockStep ==
  ASSUME IInv, NEW goal \in Block, NEW goalGroup, AllocBlock(goal, goalGroup)
  PROVE  IInv' /\ (Pool!Take \/ Pool!Full)
<1> DEFINE b == Choice(goal, goalGroup)
<1> IF b = NoBlock THEN Block \ used = {} ELSE b \in Block \ used
  BY ChoiceFree
<1> HIDE DEF b
<1>1. CASE b = NoBlock
  <2>1. got' = NoBlock /\ UNCHANGED <<used, gfree, sfree, nextData>>
    BY <1>1 DEF AllocBlock, b
  <2>2. NoBlock \in Block
    BY LayoutAssumption DEF NoBlock, Block
  <2>3. IInv'
    BY <2>1, <2>2 DEF IInv, TypeOK, CountsExact, MetadataPinned
  <2>4. Pool!Full
    BY <1>1, <2>1 DEF Pool!Full
  <2>. QED  BY <2>3, <2>4
<1>2. CASE b # NoBlock
  <2>1. /\ used' = used \cup {b}
        /\ gfree' = IF HasGroups THEN [gfree EXCEPT ![GroupOf(b)] = @ - 1] ELSE gfree
        /\ sfree' = sfree - 1
        /\ nextData' = b + 1
        /\ got' = b
    BY <1>2 DEF AllocBlock, b
  <2>2. b \in Block /\ b \notin used /\ GroupOf(b) \in Group
    BY <1>2, GroupOfBlock
  <2>3. TypeOK'
    <3>1. used' \subseteq Block /\ got' \in Block
      BY <2>1, <2>2 DEF IInv, TypeOK
    <3>2. gfree' \in [Group -> Int]
      BY <2>1, <2>2 DEF IInv, TypeOK
    <3>3. sfree' \in Int /\ nextData' \in Nat
      BY <2>1, <2>2, LayoutAssumption DEF IInv, TypeOK, Block
    <3>. QED  BY <3>1, <3>2, <3>3 DEF TypeOK
  <2>4. CountsExact'
    <3>1. sfree' = Cardinality(Block \ used')
      BY <2>1, <2>2, BitSet DEF IInv, CountsExact
    <3>2. ASSUME HasGroups, NEW g \in Group
          PROVE  gfree'[g] = Cardinality(InGroup(g) \ used')
      <4>1. gfree'[g] = IF g = GroupOf(b) THEN gfree[g] - 1 ELSE gfree[g]
        BY <2>1, <2>2, <3>2 DEF IInv, TypeOK
      <4>2. gfree[g] = Cardinality(InGroup(g) \ used)
        BY <3>2 DEF IInv, CountsExact
      <4>3. Cardinality(InGroup(g) \ (used \cup {b})) =
              IF g = GroupOf(b) THEN Cardinality(InGroup(g) \ used) - 1
              ELSE Cardinality(InGroup(g) \ used)
        BY <2>2, BitSet
      <4>. QED  BY <4>1, <4>2, <4>3, <2>1
    <3>. QED  BY <3>1, <3>2 DEF CountsExact, InGroup
  <2>5. MetadataPinned'
    BY <2>1 DEF IInv, MetadataPinned
  <2>6. Pool!Take
    BY <2>1, <2>2 DEF Pool!Take
  <2>. QED  BY <2>3, <2>4, <2>5, <2>6 DEF IInv
<1>. QED
  BY <1>1, <1>2

LEMMA FreeBlockStep ==
  ASSUME IInv, NEW b \in Block \ Reserved, FreeBlock(b)
  PROVE  IInv' /\ Pool!Give
<1>1. /\ DataValid(b) /\ b \in used
      /\ used' = used \ {b}
      /\ gfree' = IF HasGroups THEN [gfree EXCEPT ![GroupOf(b)] = @ + 1] ELSE gfree
      /\ sfree' = sfree + 1
      /\ nextData' = nextData /\ got' = got
  BY DEF FreeBlock
<1>2. GroupOf(b) \in Group /\ b \in DataBlock \ Reserved
  BY <1>1, GroupOfBlock DEF DataBlock
<1>3. TypeOK'
  <2>1. gfree' \in [Group -> Int]
    BY <1>1, <1>2 DEF IInv, TypeOK
  <2>. QED  BY <1>1, <2>1 DEF IInv, TypeOK
<1>4. CountsExact'
  <2>1. sfree' = Cardinality(Block \ used')
    BY <1>1, BitClear DEF IInv, CountsExact
  <2>2. ASSUME HasGroups, NEW g \in Group
        PROVE  gfree'[g] = Cardinality(InGroup(g) \ used')
    <3>1. gfree'[g] = IF g = GroupOf(b) THEN gfree[g] + 1 ELSE gfree[g]
      BY <1>1, <1>2, <2>2 DEF IInv, TypeOK
    <3>2. gfree[g] = Cardinality(InGroup(g) \ used)
      BY <2>2 DEF IInv, CountsExact
    <3>3. Cardinality(InGroup(g) \ (used \ {b})) =
            IF g = GroupOf(b) THEN Cardinality(InGroup(g) \ used) + 1
            ELSE Cardinality(InGroup(g) \ used)
      BY <1>1, BitClear
    <3>. QED  BY <3>1, <3>2, <3>3, <1>1
  <2>. QED  BY <2>1, <2>2 DEF CountsExact, InGroup
<1>5. MetadataPinned'
  BY <1>1, <1>2 DEF IInv, MetadataPinned, Pinned
<1>6. Pool!Give
  <2>1. b \in (DataBlock \ Reserved) \ (Block \ used)
    BY <1>1, <1>2
  <2>2. Block \ used' = (Block \ used) \cup {b}
    BY <1>1
  <2>. QED  BY <1>1, <2>1, <2>2 DEF Pool!Give
<1>. QED
  BY <1>3, <1>4, <1>5, <1>6 DEF IInv

LEMMA StepIInv == IInv /\ [Next]_vars => IInv' /\ [Pool!Next]_<<Block \ used, got>>
<1> SUFFICES ASSUME IInv, [Next]_vars
             PROVE  IInv' /\ [Pool!Next]_<<Block \ used, got>>
  OBVIOUS
<1>1. CASE UNCHANGED vars
  BY <1>1 DEF vars, IInv, TypeOK, CountsExact, MetadataPinned
<1>2. ASSUME NEW goal \in Block, NEW goalGroup \in Group \cup {NoGroup},
             AllocBlock(goal, goalGroup)
      PROVE  IInv' /\ Pool!Next
  BY <1>2, AllocBlockStep DEF Pool!Next
<1>3. ASSUME NEW b \in Block \ Reserved, FreeBlock(b)
      PROVE  IInv' /\ Pool!Next
  BY <1>3, FreeBlockStep DEF Pool!Next
<1>. QED
  BY <1>1, <1>2, <1>3 DEF Next

LEMMA Inductive == Spec => []IInv
<1>. QED
  BY InitIInv, StepIInv, PTL DEF Spec

(* The free counts of the super block and of all group descriptors equal   *)
(* the clear bits after any number of alloc_block_goal and free_block      *)
(* calls, for every layout, goal and order of calls.                       *)
THEOREM CountsAlwaysExact == Spec => []CountsExact
<1>1. IInv => CountsExact
  BY DEF IInv
<1>. QED
  BY Inductive, <1>1, PTL

(* No sequence of calls makes a metadata, root directory, policy table or  *)
(* journal block available to the search of alloc_block_in_group.          *)
THEOREM MetadataAlwaysPinned == Spec => []MetadataPinned
<1>1. IInv => MetadataPinned
  BY DEF IInv
<1>. QED
  BY Inductive, <1>1, PTL

(* alloc_block_goal and free_block implement FreePool: group order, hints, *)
(* wrap-around and the free counts never hand out a block in use and never *)
(* answer -ENOSPC while a block is free.                                   *)
THEOREM AllocatorIsPool == Spec => BlocksArePooled
<1>1. Init => Pool!Init
  <2> SUFFICES ASSUME Init PROVE Pool!Init
    OBVIOUS
  <2>1. Block \ used \subseteq DataBlock \ Reserved
    BY InitIInv, ClearIsFree
  <2>. QED  BY <2>1 DEF Pool!Init, Init
<1>2. IInv /\ [Next]_vars => [Pool!Next]_<<Block \ used, got>>
  BY StepIInv
<1>. QED
  BY <1>1, <1>2, Inductive, PTL DEF Spec, BlocksArePooled, Pool!Spec
=============================================================================

