----------------------------- MODULE Namespace ------------------------------
(***************************************************************************)
(* The directory operations of dir.c and the orphan list of journal.c.     *)
(* Every operation is one transaction under journal_lock and is a list of  *)
(* calls; a call may fail before it did anything or, where the code        *)
(* changes a block before the call that fails, half way.  An abort leaves  *)
(* what was changed in the cache.                                          *)
(*                                                                         *)
(* mem is the metadata in the buffer cache, disk what is on the device     *)
(* once the journal is replayed: a commit puts the blocks recorded by the  *)
(* transaction there at once (JournalV3Ring says when that holds), blocks  *)
(* changed by an aborted transaction get there one by one or not at all.   *)
(* The VFS is external: it calls an operation only with the entries and    *)
(* inodes it found, one caller at a time here because of journal_lock.     *)
(***************************************************************************)
EXTENDS Search, Sequences, FiniteSets

CONSTANTS Name,           \* names an entry may have
          InodesCount, Blocks,
          MaxOps,         \* bound: operations started
          MaxFaults,      \* bound: calls that fail
          MaxCrashes      \* bound: power failures

ASSUME NamespaceAssumption ==
  /\ IsFiniteSet(Name) /\ InodesCount \in Nat \ {0} /\ Blocks \in Nat \ {0}
  /\ MaxOps \in Nat /\ MaxFaults \in Nat /\ MaxCrashes \in Nat

VARIABLES
  mem,     \* buffer cache: directory blocks, inode table, super block and bitmaps
  disk,    \* the same after replay
  nl,      \* i_nlink of the inodes in memory
  open,    \* inodes that are in use through an open file
  job,     \* the operation that holds journal_lock, and the calls it has left
  rec,     \* blocks it recorded
  dirty,   \* blocks aborted transactions changed, perhaps not written
  status,  \* "up", "down"
  hurt,    \* ghost: calls that failed
  lost,    \* ghost: numbers create and mkdir did not give back
  ops,     \* ghost: operations so far
  crashes  \* ghost: power failures so far

vars == <<mem, disk, nl, open, job, rec, dirty, status, hurt, lost, ops, crashes>>

RootIno == 1
Ino == RootIno .. InodesCount
None == 0
Sup == <<"sup", None>>
InoBuf(i) == <<"ino", i>>
DirBuf(i) == <<"dir", i>>
Buf == {Sup} \cup {InoBuf(i) : i \in Ino} \cup {DirBuf(i) : i \in Ino}

Wiped == [kind |-> "none", nlink |-> 0, next |-> None, blk |-> None]
NoEntries == [n \in Name |-> None]
Idle == [op |-> "idle", dir |-> None, name |-> None, ino |-> None, to |-> None,
         toName |-> None, victim |-> None, todo |-> <<>>]

(* The image mkfs makes: the root directory and nothing else. *)
Fresh ==
  [dir |-> [i \in Ino |-> [up |-> IF i = RootIno THEN RootIno ELSE None, of |-> NoEntries]],
   ino |-> [i \in Ino |-> IF i = RootIno
                          THEN [kind |-> "dir", nlink |-> 2, next |-> None, blk |-> 1]
                          ELSE Wiped],
   sup |-> [used |-> {RootIno}, blocks |-> {1}, head |-> None]]

Init ==
  /\ mem = Fresh /\ disk = Fresh
  /\ nl = [i \in Ino |-> Fresh.ino[i].nlink]
  /\ open = {} /\ job = Idle /\ rec = {} /\ dirty = {}
  /\ status = "up" /\ hurt = {} /\ lost = {} /\ ops = 0 /\ crashes = 0
-----------------------------------------------------------------------------
(* The state the blocks B of new would bring to old. *)
Over(old, new, B) ==
  [dir |-> [i \in Ino |-> IF DirBuf(i) \in B THEN new.dir[i] ELSE old.dir[i]],
   ino |-> [i \in Ino |-> IF InoBuf(i) \in B THEN new.ino[i] ELSE old.ino[i]],
   sup |-> IF Sup \in B THEN new.sup ELSE old.sup]

Entry(m, d, n) == m.dir[d].of[n]
Put(m, d, n, i) == [m EXCEPT !.dir[d].of[n] = i]
(* cryexts_write_inode_to_disk: the link count in memory goes to the inode table. *)
Write(m, links, i) == [m EXCEPT !.ino[i].nlink = links[i]]
IsDir(m, i) == m.ino[i].kind = "dir"
Empty(m, d) == \A n \in Name : Entry(m, d, n) = None

(* What is left to do is todo; every step of an operation ends here. *)
Go(m, links, bufs, todo) ==
  /\ mem' = m /\ nl' = links /\ rec' = rec \cup bufs
  /\ job' = [job EXCEPT !.todo = todo]
  /\ UNCHANGED <<disk, open, dirty, status, hurt, lost, ops, crashes>>

At(step) == job.todo # <<>> /\ Head(job.todo) = step
Rest == Tail(job.todo)
Quiet == status = "up" /\ job = Idle
-----------------------------------------------------------------------------
(* The orphan list *)

(* The numbers on the list, at most inodes_count of them, in order: the    *)
(* walks of orphan_set, orphan_clear and orphan_cleanup.                   *)
Walk(m) ==
  LET w[k \in 0 .. InodesCount] ==
        IF k = 0 THEN <<>>
        ELSE LET s == w[k - 1]
                 at == IF s = <<>> THEN m.sup.head ELSE m.ino[s[Len(s)]].next
             IN IF Len(s) < k - 1 \/ at = None THEN s ELSE Append(s, at)
  IN w[InodesCount]

Members(s) == {s[k] : k \in 1 .. Len(s)}
OnList(m) == Members(Walk(m))

(* Mutant: the inode goes behind the last one. *)
Mut_OrphanSet(m, i) ==
  LET s == Walk(m)
  IN IF i \in OnList(m) THEN m
     ELSE IF s = <<>> THEN [m EXCEPT !.sup.head = i]
     ELSE [m EXCEPT !.ino[s[Len(s)]].next = i]

(* cryexts_orphan_set *)
OrphanSet(m, i) ==
  IF i \in OnList(m) THEN m
  ELSE [m EXCEPT !.ino[i].next = m.sup.head, !.sup.head = i]

Before(m, i) ==
  LET s == Walk(m)
      k == Least({j \in 1 .. Len(s) : s[j] = i})
  IN IF k = 1 THEN None ELSE s[k - 1]

(* cryexts_orphan_clear up to the read of the entry before. *)
Unhook(m, i) == IF i \in OnList(m) THEN [m EXCEPT !.ino[i].next = None] ELSE m

(* Mutant: the head of the list stays. *)
Mut_OrphanClear(m, i) == Unhook(m, i)

(* cryexts_orphan_clear *)
OrphanClear(m, i) ==
  IF i \notin OnList(m) THEN m
  ELSE LET next == m.ino[i].next
           u == Unhook(m, i)
       IN IF Before(m, i) = None THEN [u EXCEPT !.sup.head = next]
          ELSE [u EXCEPT !.ino[Before(m, i)].next = next]

OrphanBufs(m, i) ==
  IF i \notin OnList(m) THEN {}
  ELSE {Sup, InoBuf(i)} \cup (IF Before(m, i) = None THEN {} ELSE {InoBuf(Before(m, i))})
-----------------------------------------------------------------------------
(* Inodes and their storage *)

FreeInos == Ino \ mem.sup.used
FreeBlocks == (1 .. Blocks) \ mem.sup.blocks

Blank == [up |-> None, of |-> NoEntries]

(* Mutant: the bitmap keeps the block. *)
Mut_Release(m, links, i) == Write([m EXCEPT !.ino[i].blk = None, !.dir[i] = Blank], links, i)

(* cryexts_release_inode_storage; nobody reads the entries of a freed block. *)
Release(m, links, i) ==
  Write([m EXCEPT !.sup.blocks = @ \ {m.ino[i].blk}, !.ino[i].blk = None, !.dir[i] = Blank],
        links, i)

(* cryexts_free_inode *)
FreeInode(m, i) == [m EXCEPT !.ino[i] = Wiped, !.sup.used = @ \ {i}]

(* cryexts_new_inode: the lowest free number; insert_inode_locked refuses  *)
(* it while the inode that had it is in memory.                            *)
NumberBusy(i) == i \in open
-----------------------------------------------------------------------------
(* The calls of every operation, in order, and those that follow when one  *)
(* fails.                                                                  *)
Calls(op) ==
  CASE op = "create"  -> <<"new", "add", "commit">>
    [] op = "mkdir"   -> <<"block", "new", "init", "add", "inc", "commit">>
    [] op = "symlink" -> <<"new", "write", "add", "commit">>
    [] op = "link"    -> <<"add", "inclink", "commit">>
    [] op = "unlink"  -> <<"delete", "drop", "orphan", "release", "clear", "free", "commit">>
    [] op = "rmdir"   -> <<"delete", "dropdir", "orphan", "release", "clear", "free", "commit">>
    [] op = "rename"  -> <<"delvictim", "addnew", "parent", "delold", "dropvictim",
                           "orphan", "release", "clear", "free", "moved", "commit">>

AfterFailure(op, step) ==
  CASE op = "mkdir" /\ step # "block" /\ step # "commit" -> <<"freeblock", "abort">>
    [] op = "symlink" /\ step \in {"write", "add"} -> <<"release", "free", "abort">>
    [] op = "link" /\ step = "inclink" -> <<"unadd", "abort">>
    [] op = "rename" /\ step = "addnew" -> <<"restore", "abort">>
    [] op = "rename" /\ step = "parent" -> <<"unaddnew", "restore", "abort">>
    [] op = "rename" /\ step = "delold" -> <<"parentback", "unaddnew", "restore", "abort">>
    [] op = "rename" /\ step \in {"orphan", "release", "clear"} -> <<"free", "moved", "commit">>
    [] step = "free" -> Rest
    [] OTHER -> <<"abort">>

Start(op, d, n, i, to, toName, victim) ==
  /\ Quiet /\ ops < MaxOps /\ ops' = ops + 1
  /\ job' = [op |-> op, dir |-> d, name |-> n, ino |-> i, to |-> to, toName |-> toName,
             victim |-> victim, todo |-> Calls(op)]
  /\ UNCHANGED <<mem, disk, nl, open, rec, dirty, status, hurt, lost, crashes>>

(* Directories the VFS can reach; it marks removed ones dead. *)
Named(i) == i = RootIno \/ \E e \in Ino, x \in Name : Entry(mem, e, x) = i
LiveDirs == {d \in Ino : Named(d) /\ nl[d] > 0 /\ IsDir(mem, d)}
Absent(d, n) == Entry(mem, d, n) = None
Present(d, n) == Entry(mem, d, n) # None

Create == \E d \in LiveDirs, n \in Name :
  Absent(d, n) /\ Start("create", d, n, None, None, None, None)
Mkdir == \E d \in LiveDirs, n \in Name :
  Absent(d, n) /\ Start("mkdir", d, n, None, None, None, None)
Symlink == \E d \in LiveDirs, n \in Name :
  Absent(d, n) /\ Start("symlink", d, n, None, None, None, None)
Link == \E d \in LiveDirs, n \in Name, i \in Ino :
  /\ Absent(d, n) /\ Named(i) /\ nl[i] > 0 /\ mem.ino[i].kind = "file"
  /\ Start("link", d, n, i, None, None, None)
Unlink == \E d \in LiveDirs, n \in Name :
  /\ Present(d, n) /\ ~IsDir(mem, Entry(mem, d, n))
  /\ Start("unlink", d, n, Entry(mem, d, n), None, None, Entry(mem, d, n))
Rmdir == \E d \in LiveDirs, n \in Name :
  /\ Present(d, n) /\ IsDir(mem, Entry(mem, d, n)) /\ Empty(mem, Entry(mem, d, n))
  /\ Start("rmdir", d, n, Entry(mem, d, n), None, None, Entry(mem, d, n))

(* cryexts_dir_has_ancestor: the chain of .. entries from d. *)
Chain(m, d) ==
  LET up[k \in 0 .. InodesCount] == IF k = 0 THEN d ELSE
        LET c == up[k - 1] IN IF c = None \/ m.dir[c].up = None THEN c ELSE m.dir[c].up
  IN {up[k] : k \in 0 .. InodesCount}

(* Mutant: only the target directory itself is compared. *)
Mut_HasAncestor(m, d, i) == d = i
HasAncestor(m, d, i) == i \in Chain(m, d)

(* cryexts_rename: the checks before the first change. *)
Rename == \E d \in LiveDirs, n \in Name, to \in LiveDirs, toName \in Name :
  /\ Present(d, n) /\ <<d, n>> # <<to, toName>>
  /\ LET i == Entry(mem, d, n)
         v == Entry(mem, to, toName)
     IN /\ IsDir(mem, i) => ~HasAncestor(mem, to, i)
        /\ v # None => /\ v # i /\ IsDir(mem, v) = IsDir(mem, i)
                       /\ IsDir(mem, v) => Empty(mem, v)
        /\ Start("rename", d, n, i, to, toName, v)
-----------------------------------------------------------------------------
(* The calls *)

NewInode ==
  /\ At("new") /\ FreeInos # {} /\ ~NumberBusy(Least(FreeInos))
  /\ LET i == Least(FreeInos)
         kind == CASE job.op = "mkdir" -> "dir" [] job.op = "symlink" -> "link" [] OTHER -> "file"
         links == [nl EXCEPT ![i] = IF kind = "dir" THEN 2 ELSE 1]
     IN /\ mem' = [mem EXCEPT !.sup.used = @ \cup {i},
                              !.ino[i] = [kind |-> kind, nlink |-> links[i], next |-> None,
                                          blk |-> job.victim]]
        /\ nl' = links /\ rec' = rec \cup {Sup, InoBuf(i)}
        /\ job' = [job EXCEPT !.ino = i, !.todo = Rest]
        /\ lost' = lost \ {i}
  /\ UNCHANGED <<disk, open, dirty, status, hurt, ops, crashes>>

(* -ENOSPC of the allocators, -EBUSY of insert_inode_locked. *)
NoNumber ==
  /\ At("new")
  /\ FreeInos # {} => NumberBusy(Least(FreeInos))
  /\ Go(IF FreeInos = {} THEN mem ELSE [mem EXCEPT !.ino[Least(FreeInos)] = Wiped], nl,
        IF FreeInos = {} THEN {} ELSE {Sup, InoBuf(Least(FreeInos))},
        AfterFailure(job.op, "new"))

(* The block of a directory, kept in job.victim until the inode has it. *)
AllocBlock ==
  /\ At("block") /\ FreeBlocks # {}
  /\ mem' = [mem EXCEPT !.sup.blocks = @ \cup {Least(FreeBlocks)}]
  /\ job' = [job EXCEPT !.victim = Least(FreeBlocks), !.todo = Rest]
  /\ rec' = rec \cup {Sup}
  /\ UNCHANGED <<disk, nl, open, dirty, status, hurt, lost, ops, crashes>>

NoBlock ==
  /\ At("block") \/ At("write")
  /\ FreeBlocks = {}
  /\ Go(mem, nl, {}, AfterFailure(job.op, Head(job.todo)))

InitDir ==
  /\ At("init")
  /\ Go([mem EXCEPT !.dir[job.ino] = [up |-> job.dir, of |-> NoEntries]], nl,
        {DirBuf(job.ino), InoBuf(job.ino)}, Rest)

(* cryexts_write_from_kernel: the target of a symbolic link. *)
WriteTarget ==
  /\ At("write") /\ FreeBlocks # {}
  /\ Go([mem EXCEPT !.sup.blocks = @ \cup {Least(FreeBlocks)},
                    !.ino[job.ino].blk = Least(FreeBlocks)], nl, {Sup, InoBuf(job.ino)}, Rest)

(* cryexts_add_entry and cryexts_delete_entry write the directory inode too. *)
AddTo(m, d, n, i) == Write(Put(m, d, n, i), nl, d)
DirBufs(d) == {DirBuf(d), InoBuf(d)}

AddEntry ==
  /\ At("add")
  /\ Go(AddTo(mem, job.dir, job.name, job.ino), nl, DirBufs(job.dir), Rest)

DeleteEntry ==
  /\ At("delete") \/ At("unadd")
  /\ Go(AddTo(mem, job.dir, job.name, None),
        IF At("unadd") THEN [nl EXCEPT ![job.ino] = @ - 1] ELSE nl, DirBufs(job.dir), Rest)

IncParent ==
  /\ At("inc")
  /\ LET links == [nl EXCEPT ![job.dir] = @ + 1]
     IN Go(Write(mem, links, job.dir), links, {InoBuf(job.dir)}, Rest)

IncLink ==
  /\ At("inclink")
  /\ LET links == [nl EXCEPT ![job.ino] = @ + 1]
     IN Go(Write(mem, links, job.ino), links, {InoBuf(job.ino)}, Rest)

(* Mutant: the inode is freed with links left. *)
Mut_Drop ==
  /\ At("drop")
  /\ LET links == [nl EXCEPT ![job.ino] = @ - 1]
     IN Go(Write(mem, links, job.ino), links, {InoBuf(job.ino)}, Rest)

(* drop_nlink of the file; what follows is done only for the last link. *)
Drop ==
  /\ At("drop")
  /\ LET links == [nl EXCEPT ![job.ino] = @ - 1]
     IN Go(Write(mem, links, job.ino), links, {InoBuf(job.ino)},
           IF links[job.ino] = 0 THEN Rest ELSE <<"commit">>)

(* Mutant: the parent keeps its count. *)
Mut_DropDir ==
  /\ At("dropdir")
  /\ LET links == [nl EXCEPT ![job.ino] = 0]
     IN Go(Write(mem, links, job.ino), links, {InoBuf(job.ino)}, Rest)

(* rmdir: clear_nlink of the directory, drop_nlink of its parent. *)
DropDir ==
  /\ At("dropdir")
  /\ LET links == [nl EXCEPT ![job.ino] = 0, ![job.dir] = @ - 1]
     IN Go(Write(Write(mem, links, job.ino), links, job.dir), links,
           {InoBuf(job.ino), InoBuf(job.dir)}, Rest)

(* Mutant: nothing is put on the list. *)
Mut_SetOrphan == At("orphan") /\ Go(mem, nl, {}, Rest)

SetOrphan ==
  /\ At("orphan")
  /\ Go(OrphanSet(mem, job.victim), nl, {Sup, InoBuf(job.victim)}, Rest)

Target == IF job.op = "symlink" THEN job.ino ELSE job.victim

ReleaseStorage ==
  /\ At("release")
  /\ Go(Release(mem, nl, Target), nl, {Sup, InoBuf(Target), DirBuf(Target)}, Rest)

ClearOrphan ==
  /\ At("clear")
  /\ Go(OrphanClear(mem, job.victim), nl, OrphanBufs(mem, job.victim), Rest)

(* The wipe of the disk inode is not recorded, but its block was. *)
Free ==
  /\ At("free")
  /\ Go(FreeInode(mem, Target),
        IF job.op = "symlink" THEN [nl EXCEPT ![Target] = 0] ELSE nl, {Sup}, Rest)
-----------------------------------------------------------------------------
(* The calls of rename *)

Moved == IsDir(mem, job.ino) /\ job.dir # job.to
VictimIsDir == job.victim # None /\ IsDir(mem, job.victim)

DeleteVictim ==
  /\ At("delvictim")
  /\ IF job.victim = None THEN Go(mem, nl, {}, Rest)
     ELSE Go(AddTo(mem, job.to, job.toName, None),
             IF VictimIsDir THEN [nl EXCEPT ![job.to] = @ - 1] ELSE nl, DirBufs(job.to), Rest)

AddNew ==
  /\ At("addnew")
  /\ Go(AddTo(mem, job.to, job.toName, job.ino), nl, DirBufs(job.to), Rest)

UndoNew ==
  /\ At("unaddnew")
  /\ Go(AddTo(mem, job.to, job.toName, None), nl, DirBufs(job.to), Rest)

(* cryexts_update_dir_parent, to the new parent and back. *)
UpdateParent ==
  /\ At("parent") \/ At("parentback")
  /\ IF Moved
     THEN Go([mem EXCEPT !.dir[job.ino].up = IF At("parent") THEN job.to ELSE job.dir], nl,
             DirBufs(job.ino), Rest)
     ELSE Go(mem, nl, {}, Rest)

(* The entry goes, then the inodes of the moved file and of both           *)
(* directories are written.                                                *)
DeleteOld ==
  /\ At("delold")
  /\ Go(Write(AddTo(mem, job.dir, job.name, None), nl, job.to), nl,
        DirBufs(job.dir) \cup {InoBuf(job.ino), InoBuf(job.to)}, Rest)

DropVictim ==
  /\ At("dropvictim")
  /\ IF job.victim = None THEN Go(mem, nl, {}, <<"moved", "commit">>)
     ELSE LET links == [nl EXCEPT ![job.victim] = @ - 1]
          IN Go(Write(mem, links, job.victim), links, {InoBuf(job.victim)},
                IF links[job.victim] = 0 THEN Rest ELSE <<"moved", "commit">>)

MovedDir ==
  /\ At("moved")
  /\ IF Moved
     THEN LET links == [nl EXCEPT ![job.dir] = @ - 1, ![job.to] = @ + 1]
          IN Go(Write(Write(mem, links, job.dir), links, job.to), links,
                {InoBuf(job.dir), InoBuf(job.to)}, Rest)
     ELSE Go(mem, nl, {}, Rest)

(* The label restore_target. *)
Restore ==
  /\ At("restore")
  /\ IF job.victim = None THEN Go(mem, nl, {}, Rest)
     ELSE LET links == IF VictimIsDir THEN [nl EXCEPT ![job.to] = @ + 1] ELSE nl
          IN Go(Write(IF Absent(job.to, job.toName)
                      THEN Put(mem, job.to, job.toName, job.victim) ELSE mem, links, job.to),
                links, DirBufs(job.to), Rest)
-----------------------------------------------------------------------------
(* mkdir's failure frees the block it took and not the number. *)
FreeBlock ==
  /\ At("freeblock")
  /\ Go([mem EXCEPT !.sup.blocks = @ \ {job.victim}], nl, {Sup}, Rest)

Commit ==
  /\ At("commit")
  /\ disk' = Over(disk, mem, rec)
  /\ dirty' = dirty \ rec /\ rec' = {} /\ job' = Idle
  /\ UNCHANGED <<mem, nl, open, status, hurt, lost, ops, crashes>>

(* cryexts_journal_abort drops the list of blocks and restores nothing;    *)
(* clear_nlink and discard_new_inode take the new inode out of memory.     *)
Abort ==
  /\ At("abort")
  /\ dirty' = dirty \cup rec /\ rec' = {} /\ job' = Idle
  /\ lost' = IF job.op \in {"create", "mkdir"} /\ job.ino # None THEN lost \cup {job.ino} ELSE lost
  /\ nl' = IF job.op \in {"create", "mkdir"} /\ job.ino # None
           THEN [nl EXCEPT ![job.ino] = 0] ELSE nl
  /\ UNCHANGED <<mem, disk, open, status, hurt, ops, crashes>>

(* A call that fails: what it changed before it noticed. *)
Halfway(step) ==
  CASE step = "add" -> AddTo(mem, job.dir, job.name, job.ino)
    [] step \in {"delete", "unadd"} -> AddTo(mem, job.dir, job.name, None)
    [] step = "delvictim" -> AddTo(mem, job.to, job.toName, None)
    [] step = "addnew" -> AddTo(mem, job.to, job.toName, job.ino)
    [] step = "delold" -> AddTo(mem, job.dir, job.name, None)
    [] step = "release" -> [mem EXCEPT !.sup.blocks = @ \ {mem.ino[Target].blk}]
    [] step = "clear" -> Unhook(mem, job.victim)
    [] OTHER -> mem

MayFail == {"add", "delete", "delvictim", "addnew", "parent", "delold", "init", "inc", "inclink",
            "drop", "orphan", "release", "clear", "free", "commit"}

Halves == {"add", "delete", "delvictim", "addnew", "delold", "release", "clear",
           "inc", "inclink", "drop"}

HalfBufs(step) ==
  CASE step \in {"add", "delete", "delold"} -> {DirBuf(job.dir)}
    [] step \in {"delvictim", "addnew"} -> {DirBuf(job.to)}
    [] step = "release" -> {Sup}
    [] step = "clear" -> {InoBuf(job.victim)}
    [] OTHER -> {}

(* The link count changed in memory before the write of the inode fails. *)
HalfLinks(step) ==
  CASE step = "inc" -> [nl EXCEPT ![job.dir] = @ + 1]
    [] step = "drop" -> [nl EXCEPT ![job.ino] = @ - 1]
    [] step = "inclink" -> [nl EXCEPT ![job.ino] = @ + 1]
    [] OTHER -> nl

Fail ==
  /\ job.todo # <<>> /\ Cardinality(hurt) < MaxFaults
  /\ LET step == Head(job.todo)
     IN /\ step \in MayFail
        /\ step \in {"parent", "delvictim"} => job.victim # None \/ Moved
        /\ \E half \in BOOLEAN :
             /\ half => step \in Halves
             /\ half \/ step \notin {"inc", "inclink", "drop"}
             /\ mem' = IF half THEN Halfway(step) ELSE mem
             /\ nl' = IF half THEN HalfLinks(step) ELSE nl
             /\ rec' = rec \cup (IF half THEN HalfBufs(step) ELSE {})
             /\ hurt' = hurt \cup {<<job.op, step, half>>}
        /\ job' = [job EXCEPT !.todo = AfterFailure(job.op, step)]
  /\ UNCHANGED <<disk, open, dirty, status, lost, ops, crashes>>
-----------------------------------------------------------------------------
(* Open files: a deleted file stays in memory until it is closed. *)
Open(i) ==
  /\ Quiet /\ i \notin open /\ nl[i] > 0 /\ ~IsDir(mem, i) /\ i \in mem.sup.used
  /\ open' = open \cup {i}
  /\ UNCHANGED <<mem, disk, nl, job, rec, dirty, status, hurt, lost, ops, crashes>>

Close(i) ==
  /\ Quiet /\ i \in open
  /\ open' = open \ {i}
  /\ UNCHANGED <<mem, disk, nl, job, rec, dirty, status, hurt, lost, ops, crashes>>

(* A power failure.  It is not taken while blocks of an aborted transaction *)
(* are around: any of them may have been written, and nothing is promised. *)
Crash ==
  /\ status = "up" /\ dirty = {} /\ crashes < MaxCrashes
  /\ mem' = disk
  /\ status' = "down" /\ open' = {} /\ job' = Idle /\ rec' = {}
  /\ crashes' = crashes + 1
  /\ UNCHANGED <<disk, nl, dirty, hurt, lost, ops>>

(* put_super writes everything. *)
Unmount ==
  /\ Quiet /\ open = {} /\ dirty # {}
  /\ disk' = Over(disk, mem, dirty)
  /\ status' = "down" /\ dirty' = {}
  /\ UNCHANGED <<mem, nl, open, job, rec, hurt, lost, ops, crashes>>

(* cryexts_orphan_cleanup, one transaction in fill_super: every inode on   *)
(* the list is read, released, cleared and freed; a wiped inode cannot be  *)
(* read and the mount fails.                                               *)
Cleaned(m) ==
  LET s == Walk(m)
      c[k \in 0 .. Len(s)] ==
        IF k = 0 THEN m
        ELSE LET i == s[k]
                 links == [j \in Ino |-> c[k - 1].ino[j].nlink]
             IN FreeInode(OrphanClear(Release(c[k - 1], links, i), i), i)
  IN [c[Len(s)] EXCEPT !.sup.head = None]

Readable(m) == \A i \in OnList(m) : m.ino[i].kind # "none"

Mount ==
  /\ status = "down" /\ Readable(disk)
  /\ disk' = Cleaned(disk) /\ mem' = Cleaned(disk)
  /\ nl' = [i \in Ino |-> Cleaned(disk).ino[i].nlink]
  /\ status' = "up"
  /\ UNCHANGED <<open, job, rec, dirty, hurt, lost, ops, crashes>>

Step == \/ NewInode \/ NoNumber \/ AllocBlock \/ NoBlock \/ InitDir \/ WriteTarget
        \/ AddEntry \/ DeleteEntry \/ IncParent \/ IncLink \/ Drop \/ DropDir
        \/ SetOrphan \/ ReleaseStorage \/ ClearOrphan \/ Free
        \/ DeleteVictim \/ AddNew \/ UndoNew \/ UpdateParent \/ DeleteOld \/ DropVictim
        \/ MovedDir \/ Restore \/ FreeBlock \/ Commit \/ Abort

Next ==
  \/ Create \/ Mkdir \/ Symlink \/ Link \/ Unlink \/ Rmdir \/ Rename
  \/ Step \/ Fail
  \/ (\E i \in Ino : Open(i) \/ Close(i))
  \/ Crash \/ Unmount \/ Mount

Spec == Init /\ [][Next]_vars
-----------------------------------------------------------------------------
(* The names of i in image m. *)
NamesOf(m, i) ==
  {e \in m.sup.used \X Name : IsDir(m, e[1]) /\ Entry(m, e[1], e[2]) = i}
Subdirs(m, d) == {n \in Name : Entry(m, d, n) # None /\ IsDir(m, Entry(m, d, n))}

(* The properties are about the cache between operations and about the     *)
(* device while the volume is not mounted.                                 *)
Settled == {m \in {mem} : Quiet} \cup {m \in {disk} : status = "down"}

Failed(op, steps) == \E f \in hurt : f[1] = op /\ f[2] \in steps
Half(op, steps) == \E f \in hurt : f[1] = op /\ f[2] \in steps /\ f[3]

(* add_entry failed after it wrote the entry and nobody takes it out. *)
EntryKept == Half("symlink", {"add"}) \/ Half("link", {"add"}) \/ Half("rename", {"addnew"})

(* delete_entry failed after it took the entry out and nobody puts it back. *)
EntryGone ==
  Half("unlink", {"delete"}) \/ Half("rmdir", {"delete"}) \/ Half("rename", {"delvictim", "delold"})

(* rename freed its victim's number although the victim is on the orphan   *)
(* list: the next mount releases whoever has the number then.              *)
FreedOnList == Failed("rename", {"release", "clear"})

(* Every directory entry names an allocated inode that is not wiped:       *)
(* unlink, rmdir, rename and the orphan cleanup at mount free nothing that *)
(* still has a name, whichever call fails and whenever power fails, except *)
(* after the two failures named.                                           *)
NoDangling ==
  \/ EntryKept \/ FreedOnList
  \/ \A m \in Settled : \A d \in m.sup.used, n \in Name :
       IsDir(m, d) /\ Entry(m, d, n) # None =>
         Entry(m, d, n) \in m.sup.used /\ m.ino[Entry(m, d, n)].kind # "none"

(* The link count in the inode table is the number of names of a file, and *)
(* of a directory two and one for every subdirectory: mkdir, rmdir and a   *)
(* rename that moves or replaces a directory keep both parents right.      *)
LinkCounts ==
  \/ EntryKept \/ EntryGone \/ FreedOnList
  \/ Half("mkdir", {"add", "inc"}) \/ Half("unlink", {"drop"})
  \/ \A m \in Settled : \A i \in m.sup.used :
       NamesOf(m, i) # {} \/ i = RootIno =>
         m.ino[i].nlink = IF IsDir(m, i) THEN 2 + Cardinality(Subdirs(m, i))
                          ELSE Cardinality(NamesOf(m, i))

(* rename drops one of the two links of an empty directory it replaces. *)
LeftByRename(m, i) == IsDir(m, i) /\ m.ino[i].nlink = 1

(* No inode is lost: an allocated one has a name or is on the orphan list, *)
(* so that the next mount frees it.  Exceptions are the directory replaced *)
(* by a rename, the numbers a failed create or mkdir keeps, and inodes     *)
(* whose entry went before a call that failed.                             *)
NoLost ==
  \/ EntryGone \/ Half("rename", {"addnew"}) \/ Half("unlink", {"drop"})
  \/ Failed("unlink", {"orphan", "free"}) \/ Failed("rmdir", {"orphan", "free"})
  \/ Failed("rename", {"free"})
  \/ \A m \in Settled : \A i \in m.sup.used \ {RootIno} :
       NamesOf(m, i) # {} \/ i \in OnList(m) \/ i \in lost \/ LeftByRename(m, i)

(* What the orphan list holds is allocated and has no name, so the cleanup *)
(* at mount never releases a file in use; the exception is the rename that *)
(* frees its victim although the victim is still on the list.              *)
OrphansDead ==
  \/ FreedOnList
  \/ \A m \in Settled : \A i \in OnList(m) : NamesOf(m, i) = {} /\ i \in m.sup.used

(* orphan_clear always meets its inode at the head of the list: with one   *)
(* transaction at a time the branch that changes the entry before it, in   *)
(* two steps, is never taken.                                              *)
ClearsHead == At("clear") => mem.sup.head = job.victim

(* No two inodes share a block, every block an inode points to is          *)
(* allocated, and every allocated block has an owner.                      *)
BlocksOwned ==
  \/ Failed("mkdir", {"init", "add", "inc"}) \/ Failed("rename", {"orphan", "release"})
  \/ Half("unlink", {"release"}) \/ Half("rmdir", {"release"})
  \/ \A m \in Settled :
       /\ m.sup.blocks = {m.ino[i].blk : i \in m.sup.used} \ {None}
       /\ \A i, k \in m.sup.used : i # k /\ m.ino[i].blk = m.ino[k].blk => m.ino[i].blk = None

(* The directories are a tree: one name each, the .. entry names the       *)
(* directory that holds it and leads to the root, so no rename cuts off a  *)
(* cycle.                                                                  *)
Tree ==
  \/ EntryKept
  \/ \A m \in Settled : \A d \in m.sup.used \ {RootIno} :
       IsDir(m, d) /\ NamesOf(m, d) # {} =>
         /\ RootIno \in Chain(m, d)
         /\ \E n \in Name : NamesOf(m, d) = {<<m.dir[d].up, n>>}
=============================================================================
