----------------------------- MODULE InodeAlloc -----------------------------
(***************************************************************************)
(* The inode allocator of balloc.c and its two users: cryexts_new_inode,   *)
(* which allocates a number and later writes the disk inode, and the       *)
(* removals, which call cryexts_free_inode.  free_inode wipes the disk     *)
(* inode before it takes alloc_lock, so it is two steps; on a volume       *)
(* without a journal nothing else orders tasks in different directories.   *)
(***************************************************************************)
EXTENDS Search, Sequences, FiniteSets

CONSTANTS
  HasGroups, Prealloc,
  InodesCount, InodesPerGroup, GroupCount,
  Task              \* kernel tasks that create and remove files

RootIno == 1
Ino == RootIno .. InodesCount
Group == 0 .. GroupCount - 1

(* mkfs gives every group inodes_per_group inodes. *)
ASSUME InodeAssumption ==
  /\ HasGroups \in BOOLEAN /\ Prealloc \in BOOLEAN
  /\ InodesPerGroup \in Nat \ {0} /\ GroupCount \in Nat \ {0}
  /\ InodesCount = GroupCount * InodesPerGroup

VARIABLES
  used,     \* inode numbers whose bit is set
  gfree,    \* free_inodes_count of every group descriptor
  sfree,    \* free_inodes_count of the super block
  nextIno,  \* sbi->next_ino
  got,      \* answer of the last allocation, NoIno for -ENOSPC
  itable,   \* inode numbers whose disk inode is not zero
  task,     \* where each task is
  live      \* ghost: created and not being removed

counts == <<gfree, sfree, nextIno>>
vars == <<used, gfree, sfree, nextIno, got, itable, task, live>>

NoIno == 0
NoGroup == GroupCount   \* any goal_group that is no group (U64_MAX)
Idle == [at |-> "idle", ino |-> NoIno, step |-> 0]

GroupOf(i) == (i - 1) \div InodesPerGroup
InGroup(g) == {i \in Ino : GroupOf(i) = g}

Init ==
  /\ used = {RootIno}
  /\ gfree = [g \in Group |-> Cardinality(InGroup(g) \ used)]
  /\ sfree = InodesCount - 1
  /\ nextIno = RootIno + 1
  /\ got = NoIno
  /\ itable = {RootIno} /\ live = {RootIno}
  /\ task = [t \in Task |-> Idle]
-----------------------------------------------------------------------------
(* cryexts_alloc_inode_in_group: the clear bits above the root inode. *)
FreeIn(g) == {i \in InGroup(g) : i > RootIno /\ i \notin used}

StartGroup(goalGroup) == IF Prealloc /\ goalGroup \in Group THEN goalGroup ELSE 0

Scanned(goalGroup, k) == RoundGroup(StartGroup(goalGroup), k, GroupCount)

(* Mutant: the scan stops at the last group instead of wrapping. *)
HitsNoWrap(goalGroup) ==
  {k \in 0 .. GroupCount - 1 :
     LET g == StartGroup(goalGroup) + k
     IN g < GroupCount /\ gfree[g] # 0 /\ FreeIn(g) # {}}

Hits(goalGroup) ==
  {k \in 0 .. GroupCount - 1 :
     LET g == Scanned(goalGroup, k) IN gfree[g] # 0 /\ FreeIn(g) # {}}

(* The clear bits cryexts_alloc_inode_legacy may take. *)
LegacyFree == {i \in Ino : i > RootIno /\ i \notin used}

Choice(goalGroup) ==
  IF ~HasGroups THEN IF LegacyFree = {} THEN NoIno ELSE Least(LegacyFree)
  ELSE IF Hits(goalGroup) = {} THEN NoIno
  ELSE Least(FreeIn(Scanned(goalGroup, Least(Hits(goalGroup)))))

(* Mutant: the group descriptor is left alone. *)
AllocInodeGroupCountKept(goalGroup) ==
  LET i == Choice(goalGroup)
  IN /\ got' = i
     /\ IF i = NoIno THEN UNCHANGED <<used, counts>>
        ELSE /\ used' = used \cup {i}
             /\ sfree' = sfree - 1
             /\ nextIno' = IF nextIno < i + 1 THEN i + 1 ELSE nextIno
             /\ gfree' = gfree

(* Mutant: next_ino counts allocations instead of following the highest number. *)
AllocInodeNextCounts(goalGroup) ==
  LET i == Choice(goalGroup)
  IN /\ got' = i
     /\ IF i = NoIno THEN UNCHANGED <<used, counts>>
        ELSE /\ used' = used \cup {i}
             /\ gfree' = IF HasGroups THEN [gfree EXCEPT ![GroupOf(i)] = @ - 1] ELSE gfree
             /\ sfree' = sfree - 1
             /\ nextIno' = nextIno + 1

(* cryexts_alloc_inode_goal *)
AllocInode(goalGroup) ==
  LET i == Choice(goalGroup)
  IN /\ got' = i
     /\ IF i = NoIno THEN UNCHANGED <<used, counts>>
        ELSE /\ used' = used \cup {i}
             /\ gfree' = IF HasGroups THEN [gfree EXCEPT ![GroupOf(i)] = @ - 1] ELSE gfree
             /\ sfree' = sfree - 1
             /\ nextIno' = IF nextIno < i + 1 THEN i + 1 ELSE nextIno

Goto(t, s) == task' = [task EXCEPT ![t] = s]

(* cryexts_new_inode up to the allocation. *)
Create(t, goalGroup) ==
  /\ task[t].at = "idle"
  /\ AllocInode(goalGroup)
  /\ Goto(t, IF got' = NoIno THEN Idle ELSE [at |-> "create", ino |-> got', step |-> 0])
  /\ UNCHANGED <<itable, live>>

(* cryexts_new_inode: insert_inode_locked and write_inode_to_disk. *)
CreateDone(t) ==
  /\ task[t].at = "create"
  /\ itable' = itable \cup {task[t].ino}
  /\ live' = live \cup {task[t].ino}
  /\ Goto(t, Idle)
  /\ UNCHANGED <<used, counts, got>>

(* fail_free_ino: no memory, or insert_inode_locked finds the number of a  *)
(* removed but still open file in the inode cache (-EBUSY).                *)
CreateFails(t) ==
  /\ task[t].at = "create"
  /\ Goto(t, [at |-> "free", ino |-> task[t].ino, step |-> 1])
  /\ UNCHANGED <<used, counts, got, itable, live>>

(* unlink, rmdir or rename of the last name calls cryexts_free_inode. *)
Remove(t, i) ==
  /\ task[t].at = "idle" /\ i \in live \ {RootIno}
  /\ live' = live \ {i}
  /\ Goto(t, [at |-> "free", ino |-> i, step |-> 1])
  /\ UNCHANGED <<used, counts, got, itable>>

(* Mutant: free_inode wipes the disk inode after it gave up the number. *)
FreeInodeOrderSwapped == <<"clear", "wipe">>

(* The order of cryexts_free_inode. *)
FreeInodeOrder == <<"wipe", "clear">>

Freeing(t, what) == task[t].at = "free" /\ FreeInodeOrder[task[t].step] = what

FreeStepDone(t) ==
  Goto(t, IF task[t].step = Len(FreeInodeOrder) THEN Idle
          ELSE [task[t] EXCEPT !.step = @ + 1])

(* Mutant: the disk inode keeps its contents. *)
WipeForgotten(t) ==
  /\ Freeing(t, "wipe")
  /\ FreeStepDone(t)
  /\ UNCHANGED <<used, counts, got, itable, live>>

(* cryexts_free_inode: memset of the disk inode, outside alloc_lock. *)
Wipe(t) ==
  /\ Freeing(t, "wipe")
  /\ itable' = itable \ {task[t].ino}
  /\ FreeStepDone(t)
  /\ UNCHANGED <<used, counts, got, live>>

(* cryexts_free_inode under alloc_lock; a clear bit changes nothing. *)
ClearBit(t) ==
  /\ Freeing(t, "clear")
  /\ LET i == task[t].ino
     IN IF i \notin used THEN UNCHANGED <<used, counts>>
        ELSE /\ used' = used \ {i}
             /\ gfree' = IF HasGroups THEN [gfree EXCEPT ![GroupOf(i)] = @ + 1] ELSE gfree
             /\ sfree' = sfree + 1
             /\ nextIno' = nextIno
  /\ FreeStepDone(t)
  /\ UNCHANGED <<got, itable, live>>

Next ==
  \E t \in Task :
    \/ \E goalGroup \in Group \cup {NoGroup} : Create(t, goalGroup)
    \/ CreateDone(t)
    \/ CreateFails(t)
    \/ \E i \in Ino : Remove(t, i)
    \/ Wipe(t)
    \/ ClearBit(t)

Spec == Init /\ [][Next]_vars
-----------------------------------------------------------------------------
(* Types. *)
TypeOK ==
  /\ used \subseteq Ino /\ itable \subseteq Ino /\ live \subseteq Ino
  /\ gfree \in [Group -> Int] /\ sfree \in Int
  /\ nextIno \in RootIno + 1 .. InodesCount + 1 /\ got \in Ino \cup {NoIno}
  /\ task \in [Task -> [at : {"idle", "create", "free"}, ino : Ino \cup {NoIno}, step : 0 .. 2]]

(* The free counts are the numbers of clear bits between any two steps of  *)
(* any tasks, so a group with a free inode is never skipped.               *)
CountsExact ==
  /\ sfree = Cardinality(Ino \ used)
  /\ HasGroups => \A g \in Group : gfree[g] = Cardinality(InGroup(g) \ used)

(* A file that was created and not removed keeps its disk inode and its    *)
(* number: the wipe that free_inode makes without alloc_lock never hits a  *)
(* number that another task was given in between.                          *)
InodeNotLost == live \subseteq itable \cap used

(* A number that can be handed out has a zeroed disk inode, so a creation  *)
(* that fails before it writes its inode leaves no stale one behind.       *)
FreeInodesZeroed == itable \subseteq used

(* alloc_inode_goal and free_inode implement a pool of the inode numbers   *)
(* above the root: -ENOSPC only when all are in use.                       *)
Pool == INSTANCE FreePool WITH
          Resource <- Ino \ {RootIno}, Nothing <- NoIno,
          free <- Ino \ used, got <- got

InodesArePooled == Pool!Spec
=============================================================================
