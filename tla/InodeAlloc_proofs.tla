-------------------------- MODULE InodeAlloc_proofs --------------------------
(***************************************************************************)
(* Proofs about InodeAlloc, for every number of groups, inodes and tasks,  *)
(* with and without block groups: the free counts are exact, the unlocked  *)
(* wipe of free_inode never hits a live inode, and the allocator implements*)
(* FreePool.                                                               *)
(***************************************************************************)
EXTENDS InodeAlloc, FiniteSetTheorems, WellFoundedInduction, TLAPS

(* Every nonempty set of naturals has the element Least chooses. *)
LEMMA LeastInSet ==
  ASSUME NEW S \in SUBSET Nat, S # {}
  PROVE  Least(S) \in S /\ \A y \in S : Least(S) <= y
<1> DEFINE R == {ss \in Nat \X Nat : ss[1] < ss[2]}
<1>1. IsWellFoundedOn(R, Nat)
  BY NatLessThanWellFounded DEF OpToRel
<1>2. PICK x \in S : \A y \in S : ~(<<y, x>> \in R)
  <2> HIDE DEF R
  <2>. QED  BY <1>1, WFMin
<1>3. \A y \in S : x <= y
  <2>1. SUFFICES ASSUME NEW y \in S, y < x PROVE FALSE
    OBVIOUS
  <2>2. <<y, x>> \in R
    BY <2>1
  <2>. QED  BY <2>2, <1>2
<1>. QED
  BY <1>3 DEF Least

(* Arithmetic of groups. *)
LEMMA DivRange ==
  ASSUME NEW b \in Nat, NEW B \in Nat \ {0}, NEW G \in Nat, b < G * B
  PROVE  b \div B \in 0 .. G - 1
<1> DEFINE q == b \div B
           r == b % B
<1>1. q \in Int /\ r \in 0 .. B - 1 /\ b = B * q + r
  OBVIOUS
<1>2. q >= 0
  <2>1. SUFFICES ASSUME q <= -1 PROVE FALSE
    BY <1>1
  <2>2. B * q <= -B
    BY <2>1, <1>1
  <2>. QED
    BY <2>2, <1>1
<1>3. q < G
  <2>1. SUFFICES ASSUME q >= G PROVE FALSE
    BY <1>1
  <2>2. B * q >= B * G
    BY <2>1, <1>1
  <2>. QED
    BY <2>2, <1>1
<1>. QED
  BY <1>1, <1>2, <1>3

LEMMA ModWrap ==
  ASSUME NEW G \in Nat \ {0}, NEW a \in 0 .. G - 1
  PROVE  a % G = a /\ (a + G) % G = a
OBVIOUS

(* The round meets every group. *)
LEMMA ScanComplete ==
  ASSUME NEW n \in Nat \ {0}, NEW start \in 0 .. n - 1, NEW g \in 0 .. n - 1
  PROVE  \E k \in 0 .. n - 1 : RoundGroup(start, k, n) = g
<1>1. CASE g >= start
  <2>1. g - start \in 0 .. n - 1 /\ start + (g - start) = g
    BY <1>1
  <2>2. g % n = g
    BY ModWrap
  <2>. QED  BY <2>1, <2>2 DEF RoundGroup
<1>2. CASE g < start
  <2>1. g + n - start \in 0 .. n - 1 /\ start + (g + n - start) = g + n
    BY <1>2
  <2>2. (g + n) % n = g
    BY ModWrap
  <2>. QED  BY <2>1, <2>2 DEF RoundGroup
<1>. QED
  BY <1>1, <1>2
-----------------------------------------------------------------------------
LEMMA InodesFinite ==
  ASSUME NEW T
  PROVE  /\ IsFiniteSet(Ino \ T)
         /\ \A g : IsFiniteSet(InGroup(g) \ T)
         /\ Cardinality(Ino \ T) \in Nat
         /\ \A g : Cardinality(InGroup(g) \ T) \in Nat
<1>1. IsFiniteSet(Ino)
  BY FS_Interval, InodeAssumption DEF Ino, RootIno
<1>2. IsFiniteSet(Ino \ T)
  BY <1>1, FS_Subset
<1>3. ASSUME NEW g PROVE IsFiniteSet(InGroup(g) \ T)
  <2>1. InGroup(g) \ T \in SUBSET Ino
    BY DEF InGroup
  <2>. QED  BY <1>1, <2>1, FS_Subset
<1>. QED
  BY <1>2, <1>3, FS_CardinalityType

LEMMA InodesInNat ==
  /\ InodesCount \in Nat \ {0}
  /\ RootIno \in Ino /\ NoIno \notin Ino
  /\ Ino \subseteq Nat
<1>1. InodesCount \in Nat /\ InodesCount >= 1
  <2>1. GroupCount >= 1 /\ InodesPerGroup >= 1 /\ GroupCount \in Nat /\ InodesPerGroup \in Nat
    BY InodeAssumption
  <2>2. GroupCount * InodesPerGroup \in Nat /\ GroupCount * InodesPerGroup >= 1
    BY <2>1
  <2>. QED  BY <2>2, InodeAssumption
<1>. QED
  BY <1>1 DEF Ino, RootIno, NoIno

LEMMA GroupOfIno ==
  ASSUME NEW i \in Ino
  PROVE  GroupOf(i) \in Group /\ i \in InGroup(GroupOf(i))
<1>1. i - 1 \in Nat /\ i - 1 < GroupCount * InodesPerGroup
  BY InodesInNat, InodeAssumption DEF Ino, RootIno
<1>2. GroupOf(i) \in Group
  BY <1>1, DivRange, InodeAssumption DEF GroupOf, Group
<1>. QED
  BY <1>2 DEF InGroup

(* Setting or clearing one bit moves exactly two counts by one. *)
LEMMA BitSet ==
  ASSUME NEW T, NEW i \in Ino, i \notin T
  PROVE  /\ Cardinality(Ino \ (T \cup {i})) = Cardinality(Ino \ T) - 1
         /\ \A g : Cardinality(InGroup(g) \ (T \cup {i})) =
                     IF g = GroupOf(i) THEN Cardinality(InGroup(g) \ T) - 1
                     ELSE Cardinality(InGroup(g) \ T)
<1>1. Ino \ (T \cup {i}) = (Ino \ T) \ {i}
  OBVIOUS
<1>2. ASSUME NEW g
      PROVE  Cardinality(InGroup(g) \ (T \cup {i})) =
                     IF g = GroupOf(i) THEN Cardinality(InGroup(g) \ T) - 1
                     ELSE Cardinality(InGroup(g) \ T)
  <2>1. InGroup(g) \ (T \cup {i}) = (InGroup(g) \ T) \ {i}
    OBVIOUS
  <2>2. i \in InGroup(g) \ T <=> g = GroupOf(i)
    BY DEF InGroup
  <2>. QED  BY <2>1, <2>2, InodesFinite, FS_RemoveElement
<1>3. Cardinality((Ino \ T) \ {i}) = Cardinality(Ino \ T) - 1
  BY InodesFinite, FS_RemoveElement
<1>. QED
  BY <1>1, <1>2, <1>3

LEMMA BitClear ==
  ASSUME NEW T, NEW i \in Ino, i \in T
  PROVE  /\ Cardinality(Ino \ (T \ {i})) = Cardinality(Ino \ T) + 1
         /\ \A g : Cardinality(InGroup(g) \ (T \ {i})) =
                     IF g = GroupOf(i) THEN Cardinality(InGroup(g) \ T) + 1
                     ELSE Cardinality(InGroup(g) \ T)
<1>1. Ino \ (T \ {i}) = (Ino \ T) \cup {i}
  OBVIOUS
<1>2. ASSUME NEW g
      PROVE  Cardinality(InGroup(g) \ (T \ {i})) =
                     IF g = GroupOf(i) THEN Cardinality(InGroup(g) \ T) + 1
                     ELSE Cardinality(InGroup(g) \ T)
  <2>1. CASE g = GroupOf(i)
    <3>1. InGroup(g) \ (T \ {i}) = (InGroup(g) \ T) \cup {i}
      BY <2>1 DEF InGroup
    <3>. QED  BY <2>1, <3>1, InodesFinite, FS_AddElement
  <2>2. CASE g # GroupOf(i)
    <3>1. InGroup(g) \ (T \ {i}) = InGroup(g) \ T
      BY <2>2 DEF InGroup
    <3>. QED  BY <2>2, <3>1
  <2>. QED  BY <2>1, <2>2
<1>3. Cardinality((Ino \ T) \cup {i}) = Cardinality(Ino \ T) + 1
  BY InodesFinite, FS_AddElement
<1>. QED
  BY <1>1, <1>2, <1>3
-----------------------------------------------------------------------------
Busy(t) == task[t].at # "idle"

(* Who holds which number: a task in new_inode or free_inode holds one that *)
(* is allocated, that no other task holds and that belongs to no live file; *)
(* in free_inode, once the slot is wiped it stays wiped.                    *)
Ownership ==
  /\ RootIno \in live
  /\ \A t \in Task : Busy(t) => task[t].ino \in used \ live
  /\ \A t, u \in Task : t # u /\ Busy(t) /\ Busy(u) => task[t].ino # task[u].ino
  /\ \A t \in Task : task[t].at = "free" =>
        /\ task[t].step \in 1 .. 2
        /\ task[t].step = 2 => task[t].ino \notin itable

(* The inductive invariant: InodeNotLost and FreeInodesZeroed speak of the *)
(* slots only, Ownership says why the step that comes next spares them.    *)
IInv == TypeOK /\ CountsExact /\ InodeNotLost /\ FreeInodesZeroed /\ Ownership

LEMMA ClearIsFree ==
  ASSUME IInv
  PROVE  /\ \A i \in Ino \ used : i > RootIno /\ i # NoIno /\ i \in Nat
         /\ \A g : FreeIn(g) = InGroup(g) \ used
         /\ LegacyFree = Ino \ used
<1>1. RootIno \in used
  BY DEF IInv, Ownership, InodeNotLost
<1>2. \A i \in Ino \ used : i > RootIno /\ i # NoIno /\ i \in Nat
  BY <1>1, InodesInNat DEF Ino, RootIno, NoIno
<1>3. \A g : FreeIn(g) = InGroup(g) \ used
  BY <1>2 DEF FreeIn, InGroup
<1>. QED
  BY <1>2, <1>3 DEF LegacyFree

(* An allocation finds a clear bit, or there is none. *)
LEMMA ChoiceFree ==
  ASSUME IInv, NEW goalGroup
  PROVE  LET i == Choice(goalGroup)
         IN  IF i = NoIno THEN Ino \ used = {} ELSE i \in Ino \ used
<1>1. CASE ~HasGroups
  <2>1. LegacyFree \in SUBSET Nat
    BY InodesInNat DEF LegacyFree
  <2>2. LegacyFree # {} => Least(LegacyFree) \in LegacyFree
    BY <2>1, LeastInSet
  <2>. QED  BY <1>1, <2>2, ClearIsFree DEF Choice
<1>2. CASE HasGroups
  <2> DEFINE hits == Hits(goalGroup)
             k == Least(hits)
             g == Scanned(goalGroup, k)
  <2>1. StartGroup(goalGroup) \in Group
    BY InodeAssumption DEF StartGroup, Group
  <2>2. CASE hits = {}
    <3>1. SUFFICES ASSUME NEW i \in Ino \ used PROVE FALSE
      BY <1>2, <2>2 DEF Choice
    <3>2. GroupOf(i) \in Group /\ InGroup(GroupOf(i)) \ used # {}
      BY GroupOfIno
    <3>3. gfree[GroupOf(i)] # 0
      <4>1. gfree[GroupOf(i)] = Cardinality(InGroup(GroupOf(i)) \ used)
        BY <1>2, <3>2 DEF IInv, CountsExact
      <4>. QED  BY <4>1, <3>2, InodesFinite, FS_EmptySet
    <3>4. PICK n \in 0 .. GroupCount - 1 :
            RoundGroup(StartGroup(goalGroup), n, GroupCount) = GroupOf(i)
      BY <2>1, <3>2, ScanComplete, InodeAssumption DEF Group
    <3>5. FreeIn(GroupOf(i)) # {}
      BY <3>2, ClearIsFree
    <3>6. n \in hits
      BY <3>3, <3>4, <3>5 DEF Hits, Scanned
    <3>. QED  BY <3>6, <2>2
  <2>3. CASE hits # {}
    <3>1. hits \in SUBSET Nat
      BY InodeAssumption DEF Hits
    <3>2. k \in hits
      BY <2>3, <3>1, LeastInSet
    <3>3. FreeIn(g) # {} /\ FreeIn(g) \in SUBSET Nat
      BY <3>2, InodesInNat DEF Hits, FreeIn, InGroup
    <3>4. Least(FreeIn(g)) \in FreeIn(g)
      BY <3>3, LeastInSet
    <3>5. Least(FreeIn(g)) \in Ino \ used
      BY <3>4 DEF FreeIn, InGroup
    <3>6. Choice(goalGroup) = Least(FreeIn(g))
      BY <1>2, <2>3 DEF Choice
    <3>. QED  BY <3>5, <3>6, ClearIsFree
  <2>. QED  BY <2>2, <2>3
<1>. QED
  BY <1>1, <1>2
-----------------------------------------------------------------------------
TaskType == [at : {"idle", "create", "free"}, ino : Ino \cup {NoIno}, step : 0 .. 2]

LEMMA InitIInv == Init => IInv
<1> SUFFICES ASSUME Init PROVE IInv
  OBVIOUS
<1>1. TypeOK
  <2>1. used \subseteq Ino /\ itable \subseteq Ino /\ live \subseteq Ino
    BY InodesInNat DEF Init
  <2>2. gfree \in [Group -> Int] /\ sfree \in Int
    <3>1. \A g : Cardinality(InGroup(g) \ used) \in Nat
      BY InodesFinite, Zenon
    <3>. QED  BY <3>1, InodesInNat DEF Init
  <2>3. nextIno \in RootIno + 1 .. InodesCount + 1 /\ got \in Ino \cup {NoIno}
    BY InodesInNat DEF Init, RootIno
  <2>4. task \in [Task -> TaskType]
    BY DEF Init, Idle, TaskType
  <2>. QED  BY <2>1, <2>2, <2>3, <2>4 DEF TypeOK, TaskType
<1>2. CountsExact
  <2>1. sfree = Cardinality(Ino \ used)
    <3>1. Cardinality(Ino) = InodesCount
      <4>1. Cardinality(1 .. InodesCount) = InodesCount - 1 + 1
        BY FS_Interval, InodesInNat
      <4>. QED  BY <4>1, InodesInNat DEF Ino, RootIno
    <3>2. Cardinality(Ino \ ({} \cup {RootIno})) = Cardinality(Ino \ {}) - 1
      BY BitSet, InodesInNat
    <3>3. Ino \ {} = Ino /\ Ino \ ({} \cup {RootIno}) = Ino \ used
      BY DEF Init
    <3>. QED  BY <3>1, <3>2, <3>3 DEF Init
  <2>. QED  BY <2>1 DEF Init, CountsExact
<1>3. InodeNotLost /\ FreeInodesZeroed
  BY DEF Init, InodeNotLost, FreeInodesZeroed
<1>4. Ownership
  BY DEF Init, Ownership, Busy, Idle
<1>. QED
  BY <1>1, <1>2, <1>3, <1>4 DEF IInv

LEMMA CreateStep ==
  ASSUME IInv, NEW t \in Task, NEW goalGroup, Create(t, goalGroup)
  PROVE  IInv' /\ (Pool!Take \/ Pool!Full)
<1> DEFINE i == Choice(goalGroup)
<1> IF i = NoIno THEN Ino \ used = {} ELSE i \in Ino \ used
  BY ChoiceFree
<1>0. task[t].at = "idle" /\ itable' = itable /\ live' = live /\ task \in [Task -> TaskType]
  BY DEF Create, IInv, TypeOK, TaskType
<1> HIDE DEF i
<1>1. CASE i = NoIno
  <2>1. got' = NoIno /\ UNCHANGED <<used, gfree, sfree, nextIno>>
    BY <1>1 DEF Create, AllocInode, i, counts
  <2>2. task' = [task EXCEPT ![t] = Idle]
    BY <2>1 DEF Create, Goto
  <2>3. TypeOK'
    <3>1. task' \in [Task -> TaskType]
      BY <1>0, <2>2 DEF TaskType, Idle
    <3>. QED  BY <1>0, <2>1, <3>1 DEF IInv, TypeOK, TaskType
  <2>4. CountsExact' /\ InodeNotLost' /\ FreeInodesZeroed'
    BY <1>0, <2>1 DEF IInv, CountsExact, InodeNotLost, FreeInodesZeroed
  <2>5. \A u \in Task : task'[u] = IF u = t THEN Idle ELSE task[u]
    BY <1>0, <2>2
  <2>6. Ownership'
    BY <1>0, <2>1, <2>5 DEF IInv, Ownership, Busy, Idle
  <2>7. Pool!Full
    BY <1>1, <2>1 DEF Pool!Full
  <2>. QED  BY <2>3, <2>4, <2>6, <2>7 DEF IInv
<1>2. CASE i # NoIno
  <2>1. /\ got' = i
        /\ used' = used \cup {i}
        /\ gfree' = IF HasGroups THEN [gfree EXCEPT ![GroupOf(i)] = @ - 1] ELSE gfree
        /\ sfree' = sfree - 1
        /\ nextIno' = IF nextIno < i + 1 THEN i + 1 ELSE nextIno
    BY <1>2 DEF Create, AllocInode, i
  <2>2. task' = [task EXCEPT ![t] = [at |-> "create", ino |-> i, step |-> 0]]
    BY <1>2, <2>1 DEF Create, Goto
  <2>3. i \in Ino /\ i \notin used /\ GroupOf(i) \in Group
    BY <1>2, GroupOfIno
  <2>4. TypeOK'
    <3>1. task' \in [Task -> TaskType]
      BY <1>0, <2>2, <2>3 DEF TaskType
    <3>2. gfree' \in [Group -> Int] /\ sfree' \in Int
      BY <2>1, <2>3 DEF IInv, TypeOK
    <3>3. nextIno' \in RootIno + 1 .. InodesCount + 1
      BY <2>1, <2>3, InodesInNat DEF IInv, TypeOK, Ino, RootIno
    <3>4. used' \subseteq Ino /\ got' \in Ino \cup {NoIno}
      BY <2>1, <2>3 DEF IInv, TypeOK
    <3>. QED  BY <1>0, <3>1, <3>2, <3>3, <3>4 DEF IInv, TypeOK, TaskType
  <2>5. CountsExact'
    <3>1. sfree' = Cardinality(Ino \ used')
      BY <2>1, <2>3, BitSet DEF IInv, CountsExact
    <3>2. ASSUME HasGroups, NEW g \in Group
          PROVE  gfree'[g] = Cardinality(InGroup(g) \ used')
      <4>1. gfree'[g] = IF g = GroupOf(i) THEN gfree[g] - 1 ELSE gfree[g]
        BY <2>1, <2>3, <3>2 DEF IInv, TypeOK
      <4>2. gfree[g] = Cardinality(InGroup(g) \ used)
        BY <3>2 DEF IInv, CountsExact
      <4>3. Cardinality(InGroup(g) \ (used \cup {i})) =
              IF g = GroupOf(i) THEN Cardinality(InGroup(g) \ used) - 1
              ELSE Cardinality(InGroup(g) \ used)
        BY <2>3, BitSet
      <4>. QED  BY <4>1, <4>2, <4>3, <2>1
    <3>. QED  BY <3>1, <3>2 DEF CountsExact, InGroup
  <2>6. InodeNotLost' /\ FreeInodesZeroed'
    BY <1>0, <2>1 DEF IInv, InodeNotLost, FreeInodesZeroed
  <2>7. \A u \in Task :
          task'[u] = IF u = t THEN [at |-> "create", ino |-> i, step |-> 0] ELSE task[u]
    BY <1>0, <2>2
  <2>8. Ownership'
    <3>1. i \notin live /\ \A u \in Task : Busy(u) => task[u].ino # i
      BY <2>3 DEF IInv, InodeNotLost, Ownership
    <3>2. \A u \in Task : Busy(u)' => task'[u].ino \in used' \ live'
      BY <1>0, <2>1, <2>7, <3>1 DEF IInv, Ownership, Busy
    <3>3. \A u, v \in Task : u # v /\ Busy(u)' /\ Busy(v)' => task'[u].ino # task'[v].ino
      BY <1>0, <2>7, <3>1 DEF IInv, Ownership, Busy
    <3>4. \A u \in Task : task'[u].at = "free" =>
            task'[u].step \in 1 .. 2 /\ (task'[u].step = 2 => task'[u].ino \notin itable')
      BY <1>0, <2>7 DEF IInv, Ownership
    <3>. QED  BY <1>0, <3>2, <3>3, <3>4 DEF IInv, Ownership
  <2>9. Pool!Take
    BY <2>1, <2>3 DEF Pool!Take
  <2>. QED  BY <2>4, <2>5, <2>6, <2>8, <2>9 DEF IInv
<1>. QED
  BY <1>1, <1>2

(* The steps that touch neither bitmap nor counts. *)
LEMMA OtherStep ==
  ASSUME IInv, NEW t \in Task,
         CreateDone(t) \/ CreateFails(t) \/ (\E i \in Ino : Remove(t, i)) \/ Wipe(t)
  PROVE  IInv' /\ UNCHANGED <<Ino \ used, got>>
<1>0. UNCHANGED <<used, gfree, sfree, nextIno, got>> /\ task \in [Task -> TaskType]
  BY DEF CreateDone, CreateFails, Remove, Wipe, counts, IInv, TypeOK, TaskType
<1>1. CountsExact'
  BY <1>0 DEF IInv, CountsExact
<1>2. Idle \in TaskType
  BY DEF TaskType, Idle
<1>3. CASE CreateDone(t)
  <2>1. /\ task[t].at = "create" /\ itable' = itable \cup {task[t].ino}
        /\ live' = live \cup {task[t].ino} /\ task' = [task EXCEPT ![t] = Idle]
    BY <1>3 DEF CreateDone, Goto
  <2>2. task[t].ino \in used /\ task[t].ino \in Ino
    BY <2>1 DEF IInv, Ownership, Busy, TypeOK
  <2>3. \A u \in Task : task'[u] = IF u = t THEN Idle ELSE task[u]
    BY <1>0, <2>1
  <2>4. TypeOK'
    BY <1>0, <1>2, <2>1, <2>2 DEF IInv, TypeOK, TaskType
  <2>5. InodeNotLost' /\ FreeInodesZeroed'
    BY <1>0, <2>1, <2>2 DEF IInv, InodeNotLost, FreeInodesZeroed
  <2>6. Ownership'
    BY <1>0, <2>1, <2>3 DEF IInv, Ownership, Busy, Idle
  <2>. QED  BY <1>0, <1>1, <2>4, <2>5, <2>6 DEF IInv
<1>4. CASE CreateFails(t)
  <2>1. /\ task[t].at = "create" /\ UNCHANGED <<itable, live>>
        /\ task' = [task EXCEPT ![t] = [at |-> "free", ino |-> task[t].ino, step |-> 1]]
    BY <1>4 DEF CreateFails, Goto
  <2>3. \A u \in Task : task'[u] =
          IF u = t THEN [at |-> "free", ino |-> task[t].ino, step |-> 1] ELSE task[u]
    BY <1>0, <2>1
  <2>4. TypeOK'
    <3>1. [at |-> "free", ino |-> task[t].ino, step |-> 1] \in TaskType
      BY <1>0 DEF TaskType
    <3>. QED  BY <1>0, <2>1, <3>1 DEF IInv, TypeOK, TaskType
  <2>5. InodeNotLost' /\ FreeInodesZeroed'
    BY <1>0, <2>1 DEF IInv, InodeNotLost, FreeInodesZeroed
  <2>6. Ownership'
    BY <1>0, <2>1, <2>3 DEF IInv, Ownership, Busy
  <2>. QED  BY <1>0, <1>1, <2>4, <2>5, <2>6 DEF IInv
<1>5. ASSUME NEW i \in Ino, Remove(t, i) PROVE IInv'
  <2>1. /\ task[t].at = "idle" /\ i \in live \ {RootIno} /\ live' = live \ {i}
        /\ itable' = itable
        /\ task' = [task EXCEPT ![t] = [at |-> "free", ino |-> i, step |-> 1]]
    BY <1>5 DEF Remove, Goto
  <2>3. \A u \in Task : task'[u] =
          IF u = t THEN [at |-> "free", ino |-> i, step |-> 1] ELSE task[u]
    BY <1>0, <2>1
  <2>4. TypeOK'
    <3>1. [at |-> "free", ino |-> i, step |-> 1] \in TaskType
      BY DEF TaskType
    <3>. QED  BY <1>0, <2>1, <3>1 DEF IInv, TypeOK, TaskType
  <2>5. InodeNotLost' /\ FreeInodesZeroed'
    BY <1>0, <2>1 DEF IInv, InodeNotLost, FreeInodesZeroed
  <2>6. Ownership'
    <3>1. i \in used /\ \A u \in Task : Busy(u) => task[u].ino # i
      BY <2>1 DEF IInv, InodeNotLost, Ownership
    <3>. QED  BY <1>0, <2>1, <2>3, <3>1 DEF IInv, Ownership, Busy
  <2>. QED  BY <1>1, <2>4, <2>5, <2>6 DEF IInv
<1>6. CASE Wipe(t)
  <2>1. /\ task[t].at = "free" /\ task[t].step = 1
        /\ itable' = itable \ {task[t].ino} /\ live' = live
        /\ task' = [task EXCEPT ![t] = [task[t] EXCEPT !.step = 2]]
    <3>1. task[t].at = "free" /\ task[t].step \in 1 .. 2 /\ task[t].step = 1
      BY <1>6 DEF Wipe, Freeing, FreeInodeOrder, IInv, Ownership
    <3>. QED  BY <1>6, <3>1 DEF Wipe, FreeStepDone, FreeInodeOrder, Goto
  <2>2. [task[t] EXCEPT !.step = 2] = [at |-> "free", ino |-> task[t].ino, step |-> 2]
    BY <1>0, <2>1 DEF TaskType
  <2>3. \A u \in Task : task'[u] =
          IF u = t THEN [at |-> "free", ino |-> task[t].ino, step |-> 2] ELSE task[u]
    BY <1>0, <2>1, <2>2
  <2>4. TypeOK'
    <3>1. [at |-> "free", ino |-> task[t].ino, step |-> 2] \in TaskType
      BY <1>0 DEF TaskType
    <3>. QED  BY <1>0, <2>1, <2>2, <3>1 DEF IInv, TypeOK, TaskType
  <2>5. InodeNotLost' /\ FreeInodesZeroed'
    <3>1. task[t].ino \notin live
      BY <2>1 DEF IInv, Ownership, Busy
    <3>. QED  BY <1>0, <2>1, <3>1 DEF IInv, InodeNotLost, FreeInodesZeroed
  <2>6. Ownership'
    BY <1>0, <2>1, <2>3 DEF IInv, Ownership, Busy
  <2>. QED  BY <1>0, <1>1, <2>4, <2>5, <2>6 DEF IInv
<1>. QED
  BY <1>0, <1>3, <1>4, <1>5, <1>6

LEMMA ClearBitStep ==
  ASSUME IInv, NEW t \in Task, ClearBit(t)
  PROVE  IInv' /\ Pool!Give
<1> DEFINE i == task[t].ino
<1>1. /\ task[t].at = "free" /\ task[t].step = 2 /\ i \in used \ live /\ i \notin itable
      /\ i \in Ino /\ task \in [Task -> TaskType]
  <2>1. task[t].at = "free" /\ task[t].step = 2
    BY DEF ClearBit, Freeing, FreeInodeOrder, IInv, Ownership
  <2>. QED  BY <2>1 DEF IInv, Ownership, Busy, TypeOK, TaskType
<1>2. /\ used' = used \ {i}
      /\ gfree' = IF HasGroups THEN [gfree EXCEPT ![GroupOf(i)] = @ + 1] ELSE gfree
      /\ sfree' = sfree + 1 /\ nextIno' = nextIno
      /\ UNCHANGED <<got, itable, live>>
  BY <1>1 DEF ClearBit
<1>3. task' = [task EXCEPT ![t] = Idle]
  BY <1>1 DEF ClearBit, FreeStepDone, FreeInodeOrder, Goto
<1>4. GroupOf(i) \in Group
  BY <1>1, GroupOfIno
<1>5. \A u \in Task : task'[u] = IF u = t THEN Idle ELSE task[u]
  BY <1>1, <1>3
<1> HIDE DEF i
<1>6. TypeOK'
  <2>1. task' \in [Task -> TaskType]
    BY <1>1, <1>3 DEF TaskType, Idle
  <2>2. gfree' \in [Group -> Int] /\ sfree' \in Int
    BY <1>2, <1>4 DEF IInv, TypeOK
  <2>. QED  BY <1>2, <2>1, <2>2 DEF IInv, TypeOK, TaskType
<1>7. CountsExact'
  <2>1. sfree' = Cardinality(Ino \ used')
    BY <1>1, <1>2, BitClear DEF IInv, CountsExact
  <2>2. ASSUME HasGroups, NEW g \in Group
        PROVE  gfree'[g] = Cardinality(InGroup(g) \ used')
    <3>1. gfree'[g] = IF g = GroupOf(i) THEN gfree[g] + 1 ELSE gfree[g]
      BY <1>2, <1>4, <2>2 DEF IInv, TypeOK
    <3>2. gfree[g] = Cardinality(InGroup(g) \ used)
      BY <2>2 DEF IInv, CountsExact
    <3>3. Cardinality(InGroup(g) \ (used \ {i})) =
            IF g = GroupOf(i) THEN Cardinality(InGroup(g) \ used) + 1
            ELSE Cardinality(InGroup(g) \ used)
      BY <1>1, BitClear
    <3>. QED  BY <3>1, <3>2, <3>3, <1>2
  <2>. QED  BY <2>1, <2>2 DEF CountsExact, InGroup
<1>8. InodeNotLost' /\ FreeInodesZeroed'
  BY <1>1, <1>2 DEF IInv, InodeNotLost, FreeInodesZeroed
<1>9. Ownership'
  <2>1. \A u \in Task : u # t /\ Busy(u) => task[u].ino # i
    BY <1>1 DEF IInv, Ownership, Busy, i
  <2>. QED  BY <1>1, <1>2, <1>5, <2>1 DEF IInv, Ownership, Busy, Idle
<1>10. Pool!Give
  <2>1. i \in (Ino \ {RootIno}) \ (Ino \ used)
    BY <1>1 DEF IInv, Ownership
  <2>2. Ino \ used' = (Ino \ used) \cup {i}
    BY <1>1, <1>2
  <2>. QED  BY <1>2, <2>1, <2>2 DEF Pool!Give
<1>. QED
  BY <1>6, <1>7, <1>8, <1>9, <1>10 DEF IInv

LEMMA StepIInv == IInv /\ [Next]_vars => IInv' /\ [Pool!Next]_<<Ino \ used, got>>
<1> SUFFICES ASSUME IInv, [Next]_vars
             PROVE  IInv' /\ [Pool!Next]_<<Ino \ used, got>>
  OBVIOUS
<1>1. CASE UNCHANGED vars
  BY <1>1 DEF vars, IInv, TypeOK, CountsExact, InodeNotLost, FreeInodesZeroed, Ownership, Busy
<1>2. ASSUME NEW t \in Task, NEW goalGroup \in Group \cup {NoGroup}, Create(t, goalGroup)
      PROVE  IInv' /\ Pool!Next
  BY <1>2, CreateStep DEF Pool!Next
<1>3. ASSUME NEW t \in Task,
             CreateDone(t) \/ CreateFails(t) \/ (\E i \in Ino : Remove(t, i)) \/ Wipe(t)
      PROVE  IInv' /\ UNCHANGED <<Ino \ used, got>>
  BY <1>3, OtherStep
<1>4. ASSUME NEW t \in Task, ClearBit(t)
      PROVE  IInv' /\ Pool!Next
  BY <1>4, ClearBitStep DEF Pool!Next
<1>. QED
  BY <1>1, <1>2, <1>3, <1>4 DEF Next

LEMMA Inductive == Spec => []IInv
<1>. QED
  BY InitIInv, StepIInv, PTL DEF Spec

(* The free inode counts of the super block and the groups equal the clear *)
(* bits between any two steps of any tasks, for every layout.              *)
THEOREM InodeCountsAlwaysExact == Spec => []CountsExact
<1>1. IInv => CountsExact
  BY DEF IInv
<1>. QED
  BY Inductive, <1>1, PTL

(* However many tasks create and remove files, the memset free_inode makes *)
(* before it takes alloc_lock never erases the inode of a live file.       *)
THEOREM InodeNeverLost == Spec => []InodeNotLost
<1>1. IInv => InodeNotLost
  BY DEF IInv
<1>. QED
  BY Inductive, <1>1, PTL

(* A number alloc_inode_goal can hand out always has a zeroed disk inode.  *)
THEOREM FreeInodesAlwaysZeroed == Spec => []FreeInodesZeroed
<1>1. IInv => FreeInodesZeroed
  BY DEF IInv
<1>. QED
  BY Inductive, <1>1, PTL

(* alloc_inode_goal and free_inode implement FreePool, with and without    *)
(* block groups: no number is given twice, and -ENOSPC means none is left. *)
THEOREM InodeAllocatorIsPool == Spec => InodesArePooled
<1>1. Init => Pool!Init
  <2> SUFFICES ASSUME Init PROVE Pool!Init
    OBVIOUS
  <2>1. Ino \ used \subseteq Ino \ {RootIno}
    BY DEF Init
  <2>. QED  BY <2>1 DEF Pool!Init, Init
<1>2. IInv /\ [Next]_vars => [Pool!Next]_<<Ino \ used, got>>
  BY StepIInv
<1>. QED
  BY <1>1, <1>2, Inductive, PTL DEF Spec, InodesArePooled, Pool!Spec
=============================================================================
