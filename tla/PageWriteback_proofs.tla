------------------------ MODULE PageWriteback_proofs ------------------------
(***************************************************************************)
(* Proofs about PageWriteback, for every number of pages, writes, setattr  *)
(* calls and failures.  The inductive invariant has six parts: the types,  *)
(* who holds which lock, how far each version of a page has come, and for  *)
(* each of the theorems what its argument adds.                            *)
(***************************************************************************)
EXTENDS PageWriteback, Integers, WellFoundedInduction, TLAPS

(* Where a task holds journal_lock, and where writeback is at a page. *)
Txn == {"pages", "map", "data", "inode_block", "barrier", "commit", "home", "advance"}
OnPage == {"map", "data", "inode_block"}
Cleaner == Batch \cup {Kswapd}

Pcs == {"idle", "begin", "grab", "copy", "wait", "inode", "sync"} \cup Txn
ImageType == [map : SUBSET Page, attr : Nat]
Versions == [Page -> Nat]
TaskType == [pc : Pcs, page : Page \cup {NoPage}, todo : SUBSET Page,
             wrote : BOOLEAN, err : BOOLEAN]
GhostType == [writes : Nat, want : [data : Versions, attr : Nat],
              synced : [data : Versions, attr : Nat], told : Versions,
              failed : BOOLEAN, dropped : BOOLEAN]

TypeOK ==
  /\ ver \in Versions /\ dirty \in SUBSET Page /\ lock \in [Page -> Task \cup {Nobody}]
  /\ ilock \in Task \cup {Nobody} /\ jlock \in Task \cup {Nobody} /\ joined \in BOOLEAN
  /\ map \in SUBSET Page /\ attr \in Nat
  /\ dbuf \in Versions /\ ibuf \in ImageType /\ bdirty \in SUBSET (Page \cup {InodeBlock})
  /\ ddisk \in Versions /\ idisk \in ImageType /\ log \in Seq(ImageType)
  /\ merr \in BOOLEAN
  /\ st \in [Task -> TaskType] /\ ghost \in GhostType
  /\ faults \in Nat

(* Where each task can be. *)
Places ==
  /\ st[Writer].pc \in {"idle", "grab", "copy"}
  /\ st[Writer].pc # "idle" => st[Writer].page \in Page
  /\ st[Flusher].pc \in {"idle", "begin", "pages", "barrier", "commit"} \cup OnPage
  /\ st[Syncer].pc \in {"idle", "begin", "pages", "barrier", "commit", "wait", "inode", "sync"} \cup OnPage
  /\ \A t \in Batch : st[t].page \in Page <=> st[t].pc \in OnPage
  /\ \A t \in Batch : st[t].todo # {} => st[t].pc \in {"pages"} \cup OnPage
  /\ \A t \in Cleaner : st[t].wrote \/ st[t].err => st[t].pc \in Txn
  /\ st[Kswapd].pc \in {"idle", "begin", "barrier", "commit"} \cup OnPage
  /\ st[Kswapd].page \in Page <=> st[Kswapd].pc # "idle"
  /\ st[Worker].pc \in {"idle", "home", "advance"}
  /\ st[Worker].page = NoPage

(* A lock belongs to the one task whose place says so.  A page of a batch  *)
(* that is clean by now was taken by kswapd, which waits for journal_lock. *)
Locks ==
  /\ \A t \in Task : jlock = t <=> st[t].pc \in Txn
  /\ \A p \in Page : lock[p] = Writer <=> st[Writer].pc = "copy" /\ st[Writer].page = p
  /\ \A p \in Page, t \in Task \ {Writer} : lock[p] = t <=> st[t].page = p
  /\ \A t \in Batch : \A q \in st[t].todo : q \in dirty \/ lock[q] = Kswapd

(* The versions of a page grow from device to buffer to page.  A page that *)
(* is clean and not under writeback is in its buffer; so is one whose      *)
(* writeback is past the data.                                             *)
Values ==
  /\ \A p \in Page : /\ ddisk[p] <= dbuf[p] /\ dbuf[p] <= ver[p] /\ ver[p] <= ghost.writes
                     /\ p \in dirty \/ lock[p] \in Cleaner => ver[p] # 0
                     /\ dbuf[p] # 0 => p \in map
                     /\ p \notin dirty /\ lock[p] \in {Nobody, Writer} => dbuf[p] = ver[p]
  /\ \A t \in Cleaner :
       st[t].page \in Page =>
         /\ st[t].pc \in {"inode_block", "barrier", "commit"} => dbuf[st[t].page] = ver[st[t].page]
         /\ st[t].pc \in {"data", "inode_block", "barrier", "commit"} => st[t].page \in map
  /\ \A t \in Cleaner : st[t].pc = "commit" => bdirty \cap Page = {}
  /\ ibuf.map \subseteq map /\ idisk.map \subseteq map
  /\ \A k \in 1 .. Len(log) : log[k].map \subseteq map

(* Until the first failure a clean buffer is on the device, and a page has *)
(* a block only once its buffer has the data, but for the moment between   *)
(* resolve_block and the data write.                                       *)
Ordered ==
  ~ghost.failed =>
    /\ \A k \in 1 .. Len(log) : \A p \in log[k].map : ddisk[p] # 0
    /\ \A p \in Page : p \notin bdirty => ddisk[p] = dbuf[p]
    /\ \A p \in map : dbuf[p] # 0 \/ \E t \in Cleaner : st[t].pc = "data" /\ st[t].page = p

(* A page in use that is clean and unlocked. *)
Settled(p) == p \notin dirty /\ lock[p] = Nobody /\ ver[p] # 0

(* Until the first failure an inode block that is recorded or dirty has    *)
(* every block of the file but the one being written, and every settled    *)
(* page is recoverable unless a batch that wrote pages is still running.   *)
Committed ==
  /\ joined => jlock \in Cleaner
  /\ \A t \in Cleaner : st[t].pc \in {"barrier", "commit"} \/ st[t].wrote => joined
  /\ st[Worker].pc \in {"home", "advance"} => log # <<>>
  /\ st[Syncer].err => ghost.failed
  /\ ~ghost.failed =>
       /\ joined \/ InodeBlock \in bdirty =>
            \A q \in map : \/ q \in ibuf.map
                           \/ \E t \in Cleaner : st[t].pc \in {"data", "inode_block"} /\ st[t].page = q
       /\ st[Worker].pc = "advance" => log[1].map \subseteq idisk.map
       /\ \A p \in Page : Settled(p) => \/ p \in Recovered.map /\ ddisk[p] = ver[p]
                                        \/ \E t \in Batch : st[t].wrote

(* What fsync may take for granted of contents v of a page: they are on    *)
(* the device, or an earlier fsync has returned the error.                 *)
Landed(p, v) == v <= ghost.told[p] \/ v <= ddisk[p]

(* The transaction of task t has put what fsync wants of p into its buffer. *)
InBuffer(t, p) == p \in bdirty /\ ghost.want.data[p] <= dbuf[p] /\ st[t].wrote

(* The flusher's transaction has p, or will write it, and can take no more *)
(* pages before fsync has waited for it.                                   *)
Flushing(p) ==
  /\ jlock = Flusher
  /\ \A q \in st[Flusher].todo : lock[q] = Kswapd
  /\ st[Flusher].page = p \/ InBuffer(Flusher, p)

(* Where the data an fsync covers can be while no error waits for it. *)
Awaited(p) ==
  \/ Landed(p, ghost.want.data[p])
  \/ lock[p] = Kswapd
  \/ st[Syncer].pc \in Txn /\ (p \in st[Syncer].todo \/ st[Syncer].page = p \/ InBuffer(Syncer, p))
  \/ st[Syncer].pc = "wait" /\ Flushing(p)

(* Contents that fsync has returned an error for have reached the buffer,  *)
(* and an error of its own transaction is also kept in the mapping.        *)
Told ==
  /\ \A p \in Page : ghost.told[p] <= dbuf[p] /\ ghost.want.data[p] <= ver[p]
  /\ st[Syncer].err => merr
  /\ ~st[Flusher].err

(* What is in a buffer and has not landed is dirty and belongs to a        *)
(* running batch, unless an error waits for the next fsync.                *)
Outstanding ==
  ~ghost.dropped /\ ~merr => \A p \in Page :
    \/ Landed(p, dbuf[p])
    \/ p \in bdirty /\ \E t \in Batch : st[t].wrote \/ (st[t].pc = "inode_block" /\ st[t].page = p)

Covered ==
  ~ghost.dropped /\ ~merr /\ st[Syncer].pc \in Txn \cup {"wait"} => \A p \in Page : Awaited(p)

(* Past the wait only the barrier of the flusher's transaction is left. *)
Passed ==
  ~ghost.dropped /\ st[Syncer].pc \in {"inode", "sync"} => \A p \in Page :
    \/ Landed(p, ghost.want.data[p])
    \/ /\ InBuffer(Flusher, p) /\ st[Flusher].todo = {}
       /\ st[Flusher].pc \in {"pages", "barrier", "commit"}

Synced == Told /\ SyncedDataOnDevice /\ Outstanding /\ Covered /\ Passed

IInv == TypeOK /\ Places /\ Locks /\ Values /\ Ordered /\ Committed /\ Synced

-----------------------------------------------------------------------------
(* Field by field, what an assignment to the place of one task does. *)
LEMMA MoveTo ==
  ASSUME TypeOK, NEW t \in Task, NEW r \in TaskType, st' = [st EXCEPT ![t] = r]
  PROVE  st' \in [Task -> TaskType] /\ st'[t] = r /\ \A u \in Task : u # t => st'[u] = st[u]
  BY DEF TypeOK

LEMMA MoveOn ==
  ASSUME TypeOK, NEW t \in Task, NEW l \in Pcs, Goto(t, l)
  PROVE  /\ st' \in [Task -> TaskType]
         /\ st'[t].pc = l /\ st'[t].page = st[t].page /\ st'[t].todo = st[t].todo
         /\ st'[t].wrote = st[t].wrote /\ st'[t].err = st[t].err
         /\ \A u \in Task : u # t => st'[u] = st[u]
  BY DEF TypeOK, Goto, TaskType

LEMMA AfterMove ==
  ASSUME TypeOK, NEW t \in Task, After(t)
  PROVE  /\ st' \in [Task -> TaskType] /\ \A u \in Task : u # t => st'[u] = st[u]
         /\ st'[t].pc = (IF t = Syncer THEN "wait" ELSE "idle") /\ st'[t].page = NoPage
         /\ st'[t].todo = {} /\ st'[t].wrote = FALSE /\ st'[t].err = FALSE
<1>1. [Idle EXCEPT !.pc = "wait"] \in TaskType /\ Idle \in TaskType
  BY DEF Idle, TaskType, Pcs
<1>2. CASE t = Syncer
  BY <1>1, <1>2, MoveTo DEF After, Idle
<1>3. CASE t # Syncer
  BY <1>1, <1>3, MoveTo DEF After, Idle
<1>. QED
  BY <1>2, <1>3

LEMMA IdleType == Idle \in TaskType
  BY DEF Idle, TaskType, Pcs

LEMMA Distinct == InodeBlock \notin Page /\ NoPage \notin Page
  BY PageAssumption

LEMMA Numbers ==
  ASSUME TypeOK
  PROVE  /\ ghost.writes \in Nat
         /\ \A p \in Page : /\ ver[p] \in Nat /\ dbuf[p] \in Nat /\ ddisk[p] \in Nat
                            /\ ghost.told[p] \in Nat /\ ghost.want.data[p] \in Nat
                            /\ ghost.synced.data[p] \in Nat
  BY DEF TypeOK, GhostType, Versions

LEMMA NextPageIn ==
  ASSUME NEW S \in SUBSET Page, S # {}
  PROVE  NextPage(S) \in S
<1> DEFINE R == {ss \in Nat \X Nat : ss[1] < ss[2]}
<1>1. S \in SUBSET Nat
  BY PageAssumption
<1>2. IsWellFoundedOn(R, Nat)
  BY NatLessThanWellFounded DEF OpToRel
<1>3. PICK x \in S : \A y \in S : ~(<<y, x>> \in R)
  <2> HIDE DEF R
  <2>. QED  BY <1>1, <1>2, WFMin
<1>4. \A y \in S : x <= y
  <2>1. SUFFICES ASSUME NEW y \in S, y < x PROVE FALSE
    BY <1>1
  <2>2. <<y, x>> \in R
    BY <1>1, <2>1
  <2>. QED  BY <2>2, <1>3
<1>. QED
  BY <1>4 DEF NextPage

LEMMA WriteStartStep == ASSUME IInv, WriteStart PROVE IInv'
<1> USE DEF Task, Batch, Flusher, Syncer, Kswapd, Writer, Worker, Nobody, Cleaner
<1>1. PICK p \in Page :
        st' = [st EXCEPT ![Writer] = [Idle EXCEPT !.pc = "grab", !.page = p]]
  BY DEF WriteStart
<1>2. TypeOK /\ st[Writer].pc = "idle"
  BY DEF WriteStart, IInv
<1>3. /\ ilock' = Writer
      /\ UNCHANGED <<ver, dirty, lock, jlock, joined, map, attr, dbuf, ibuf, bdirty,
                     ddisk, idisk, log, merr, ghost, faults>>
  BY DEF WriteStart, pages, inode, buffers, device
<1>4. /\ st' \in [Task -> TaskType] /\ \A u \in Task : u # Writer => st'[u] = st[u]
      /\ st'[Writer].pc = "grab" /\ st'[Writer].page = p
  <2>1. [Idle EXCEPT !.pc = "grab", !.page = p] \in TaskType
    BY DEF Idle, TaskType, Pcs
  <2>. QED  BY <1>1, <1>2, <2>1, MoveTo DEF Idle
<1>5. TypeOK'
  BY <1>1, <1>2, <1>3, <1>4 DEF IInv, TypeOK, Idle
<1>6. Places'
  BY <1>1, <1>2, <1>3, <1>4 DEF IInv, Places, Txn, OnPage, Idle
<1>7. Locks'
  BY <1>1, <1>2, <1>3, <1>4 DEF IInv, Places, Locks, Txn, OnPage, Idle
<1>8. Values'
  BY <1>1, <1>2, <1>3, <1>4, Numbers DEF IInv, Places, Values, Locks, OnPage, Idle
<1>9. Ordered'
  BY <1>1, <1>2, <1>3, <1>4, Numbers DEF IInv, Ordered, Values, Idle
<1>10. Committed'
  BY <1>1, <1>2, <1>3, <1>4 DEF IInv, Committed, Settled, Recovered, Values, Places, Locks, Txn, OnPage, Idle
<1>11. Told'
  BY <1>1, <1>2, <1>3, <1>4, Numbers DEF IInv, Synced, Told, Values, Idle
<1>12. SyncedDataOnDevice'
  BY <1>1, <1>2, <1>3, <1>4, Numbers DEF IInv, Synced, SyncedDataOnDevice, ErrorReachesFsync, Idle
<1>13. Outstanding'
  BY <1>1, <1>2, <1>3, <1>4, Numbers DEF IInv, Synced, Outstanding, Landed, Idle
<1>14. Covered'
  BY <1>1, <1>2, <1>3, <1>4, Numbers DEF IInv, Synced, Covered, Awaited, Landed, InBuffer, Flushing, Txn, Idle
<1>15. Passed'
  BY <1>1, <1>2, <1>3, <1>4, Numbers DEF IInv, Synced, Passed, Landed, InBuffer, Idle
<1>. QED
  BY <1>5, <1>6, <1>7, <1>8, <1>9, <1>10, <1>11, <1>12, <1>13, <1>14, <1>15 DEF IInv, Synced

LEMMA WriteBeginStep == ASSUME IInv, WriteBegin PROVE IInv'
<1> USE DEF Task, Batch, Flusher, Syncer, Kswapd, Writer, Worker, Nobody, Cleaner
<1> DEFINE p == st[Writer].page
<1>1. p \in Page /\ st[Writer].pc = "grab" /\ lock[p] = Nobody /\ TypeOK
  BY DEF WriteBegin, IInv, Places
<1>2. /\ lock' = [lock EXCEPT ![p] = Writer] /\ Goto(Writer, "copy")
      /\ UNCHANGED <<ver, dirty, ilock, jlock, joined, map, attr, dbuf, ibuf, bdirty,
                     ddisk, idisk, log, merr, ghost, faults>>
  BY DEF WriteBegin, inode, buffers, device
<1>3. /\ st' \in [Task -> TaskType] /\ \A u \in Task : u # Writer => st'[u] = st[u]
      /\ st'[Writer].pc = "copy" /\ st'[Writer].page = p
  BY <1>1, <1>2, MoveOn DEF Pcs
<1> HIDE DEF p
<1>4. /\ lock' \in [Page -> Task \cup {Nobody}] /\ lock'[p] = Writer
      /\ \A q \in Page : q # p => lock'[q] = lock[q]
  BY <1>1, <1>2 DEF TypeOK
<1>5. TypeOK'
  BY <1>1, <1>2, <1>3, <1>4 DEF IInv, TypeOK, Idle
<1>6. Places'
  BY <1>1, <1>2, <1>3, <1>4 DEF IInv, Places, Txn, OnPage, Idle
<1>7. Locks'
  BY <1>1, <1>2, <1>3, <1>4 DEF IInv, Places, Locks, Txn, OnPage, Idle
<1>8. Values'
  BY <1>1, <1>2, <1>3, <1>4, Numbers DEF IInv, Places, Values, Locks, OnPage, Idle
<1>9. Ordered'
  BY <1>1, <1>2, <1>3, <1>4, Numbers DEF IInv, Ordered, Values, Idle
<1>10. Committed'
  BY <1>1, <1>2, <1>3, <1>4 DEF IInv, Committed, Settled, Recovered, Values, Places, Locks, Txn, OnPage, Idle
<1>11. Told'
  BY <1>1, <1>2, <1>3, <1>4, Numbers DEF IInv, Synced, Told, Values, Idle
<1>12. SyncedDataOnDevice'
  BY <1>1, <1>2, <1>3, <1>4, Numbers DEF IInv, Synced, SyncedDataOnDevice, ErrorReachesFsync, Idle
<1>13. Outstanding'
  BY <1>1, <1>2, <1>3, <1>4, Numbers DEF IInv, Synced, Outstanding, Landed, Idle
<1>14. Covered'
  BY <1>1, <1>2, <1>3, <1>4, Numbers DEF IInv, Synced, Covered, Awaited, Landed, InBuffer, Flushing, Txn, Idle
<1>15. Passed'
  BY <1>1, <1>2, <1>3, <1>4, Numbers DEF IInv, Synced, Passed, Landed, InBuffer, Idle
<1>. QED
  BY <1>5, <1>6, <1>7, <1>8, <1>9, <1>10, <1>11, <1>12, <1>13, <1>14, <1>15 DEF IInv, Synced

LEMMA WriteEndStep == ASSUME IInv, WriteEnd PROVE IInv'
<1> USE DEF Task, Batch, Flusher, Syncer, Kswapd, Writer, Worker, Nobody, Cleaner
<1> DEFINE p == st[Writer].page
<1>1. /\ p \in Page /\ st[Writer].pc = "copy" /\ lock[p] = Writer
      /\ TypeOK /\ ghost.writes \in Nat /\ ghost.writes + 1 \in Nat
  BY DEF WriteEnd, IInv, Places, Locks, TypeOK, GhostType
<1>2. /\ ver' = [ver EXCEPT ![p] = ghost.writes + 1]
      /\ dirty' = dirty \cup {p} /\ lock' = [lock EXCEPT ![p] = Nobody]
      /\ ghost' = [ghost EXCEPT !.writes = @ + 1] /\ ilock' = Nobody
      /\ st' = [st EXCEPT ![Writer] = Idle]
      /\ UNCHANGED <<jlock, joined, map, attr, dbuf, ibuf, bdirty, ddisk, idisk, log, merr, faults>>
  BY DEF WriteEnd, inode, buffers, device
<1>3. st' \in [Task -> TaskType] /\ st'[Writer] = Idle /\ \A u \in Task : u # Writer => st'[u] = st[u]
  BY <1>1, <1>2, IdleType, MoveTo
<1> HIDE DEF p
<1>4. /\ ver' \in Versions /\ lock' \in [Page -> Task \cup {Nobody}]
      /\ ver'[p] = ghost.writes + 1 /\ lock'[p] = Nobody
      /\ \A q \in Page : q # p => ver'[q] = ver[q] /\ lock'[q] = lock[q]
  BY <1>1, <1>2 DEF TypeOK, Versions
<1>5. /\ ghost' \in GhostType /\ ghost'.writes = ghost.writes + 1 /\ ghost'.want = ghost.want
      /\ ghost'.told = ghost.told /\ ghost'.synced = ghost.synced
      /\ ghost'.failed = ghost.failed /\ ghost'.dropped = ghost.dropped
  BY <1>1, <1>2 DEF TypeOK, GhostType
<1>6. TypeOK'
  BY <1>1, <1>2, <1>3, <1>4, <1>5 DEF IInv, TypeOK, Idle
<1>7. Places'
  BY <1>1, <1>2, <1>3, <1>4, <1>5 DEF IInv, Places, Txn, OnPage, Idle
<1>8. Locks'
  BY <1>1, <1>2, <1>3, <1>4, <1>5 DEF IInv, Places, Locks, Txn, OnPage, Idle
<1>9. Values'
  BY <1>1, <1>2, <1>3, <1>4, <1>5, Numbers DEF IInv, Places, Values, Locks, OnPage, Idle
<1>10. Ordered'
  BY <1>1, <1>2, <1>3, <1>4, <1>5, Numbers DEF IInv, Ordered, Values, Idle
<1>11. Committed'
  BY <1>1, <1>2, <1>3, <1>4, <1>5 DEF IInv, Committed, Settled, Recovered, Values, Places, Locks, Txn, OnPage, Idle
<1>12. Told'
  BY <1>1, <1>2, <1>3, <1>4, <1>5, Numbers DEF IInv, Synced, Told, Values, Idle
<1>13. SyncedDataOnDevice'
  BY <1>1, <1>2, <1>3, <1>4, <1>5, Numbers DEF IInv, Synced, SyncedDataOnDevice, ErrorReachesFsync, Idle
<1>14. Outstanding'
  BY <1>1, <1>2, <1>3, <1>4, <1>5, Numbers DEF IInv, Synced, Outstanding, Landed, Idle
<1>15. Covered'
  BY <1>1, <1>2, <1>3, <1>4, <1>5, Numbers DEF IInv, Synced, Covered, Awaited, Landed, InBuffer, Flushing, Txn, Idle
<1>16. Passed'
  BY <1>1, <1>2, <1>3, <1>4, <1>5, Numbers DEF IInv, Synced, Passed, Landed, InBuffer, Idle
<1>. QED
  BY <1>6, <1>7, <1>8, <1>9, <1>10, <1>11, <1>12, <1>13, <1>14, <1>15, <1>16 DEF IInv, Synced

LEMMA SetAttrStep == ASSUME IInv, SetAttr PROVE IInv'
<1> USE DEF Task, Batch, Flusher, Syncer, Kswapd, Writer, Worker, Nobody, Cleaner
<1>1. TypeOK /\ st[Writer].pc = "idle"
  BY DEF SetAttr, IInv
<1>2. /\ attr' = attr + 1 /\ ibuf' = [map |-> map, attr |-> attr + 1]
      /\ bdirty' = bdirty \cup {InodeBlock}
      /\ joined' = (joined \/ jlock \notin {Nobody, Worker})
      /\ UNCHANGED <<ver, dirty, lock, ilock, jlock, map, dbuf, ddisk, idisk, log, merr, st, ghost, faults>>
  BY DEF SetAttr, pages, device
<1>3. ibuf' \in ImageType /\ ibuf'.map = map /\ attr' \in Nat /\ joined' \in BOOLEAN
  BY <1>1, <1>2 DEF TypeOK, ImageType
<1>4. (joined => joined') /\ (joined' => joined \/ jlock \in Cleaner)
  BY <1>1, <1>2 DEF IInv, TypeOK, Places, Locks, Txn
<1>5. InodeBlock \notin Page
  BY Distinct
<1>6. TypeOK'
  BY <1>1, <1>2, <1>3, <1>4, <1>5 DEF IInv, TypeOK
<1>7. Places'
  BY <1>1, <1>2, <1>3, <1>4, <1>5 DEF IInv, Places, Txn, OnPage
<1>8. Locks'
  BY <1>1, <1>2, <1>3, <1>4, <1>5 DEF IInv, Places, Locks, Txn, OnPage
<1>9. Values'
  BY <1>1, <1>2, <1>3, <1>4, <1>5, Numbers DEF IInv, Places, Values, Locks, OnPage
<1>10. Ordered'
  BY <1>1, <1>2, <1>3, <1>4, <1>5, Numbers DEF IInv, Ordered, Values
<1>11. Committed'
  BY <1>1, <1>2, <1>3, <1>4, <1>5 DEF IInv, Committed, Settled, Recovered, Values, Places, Locks, Txn, OnPage
<1>12. Told'
  BY <1>1, <1>2, <1>3, <1>4, <1>5, Numbers DEF IInv, Synced, Told, Values
<1>13. SyncedDataOnDevice'
  BY <1>1, <1>2, <1>3, <1>4, <1>5, Numbers DEF IInv, Synced, SyncedDataOnDevice, ErrorReachesFsync
<1>14. Outstanding'
  BY <1>1, <1>2, <1>3, <1>4, <1>5, Numbers DEF IInv, Synced, Outstanding, Landed
<1>15. Covered'
  BY <1>1, <1>2, <1>3, <1>4, <1>5, Numbers DEF IInv, Synced, Covered, Awaited, Landed, InBuffer, Flushing, Txn
<1>16. Passed'
  BY <1>1, <1>2, <1>3, <1>4, <1>5, Numbers DEF IInv, Synced, Passed, Landed, InBuffer
<1>. QED
  BY <1>6, <1>7, <1>8, <1>9, <1>10, <1>11, <1>12, <1>13, <1>14, <1>15, <1>16 DEF IInv, Synced

LEMMA FlushStartStep == ASSUME IInv, FlushStart PROVE IInv'
<1> USE DEF Task, Batch, Flusher, Syncer, Kswapd, Writer, Worker, Nobody, Cleaner
<1>1. TypeOK /\ st[Flusher].pc = "idle" /\ Goto(Flusher, "begin")
  BY DEF FlushStart, IInv
<1>2. UNCHANGED <<ver, dirty, lock, ilock, jlock, joined, map, attr, dbuf, ibuf, bdirty,
                  ddisk, idisk, log, merr, ghost, faults>>
  BY DEF FlushStart, pages, inode, buffers, device
<1>3. /\ st' \in [Task -> TaskType] /\ \A u \in Task : u # Flusher => st'[u] = st[u]
      /\ st'[Flusher].pc = "begin" /\ st'[Flusher].page = st[Flusher].page
      /\ st'[Flusher].todo = st[Flusher].todo
      /\ st'[Flusher].wrote = st[Flusher].wrote /\ st'[Flusher].err = st[Flusher].err
  BY <1>1, MoveOn DEF Pcs
<1>4. TypeOK'
  BY <1>1, <1>2, <1>3 DEF IInv, TypeOK
<1>5. Places'
  BY <1>1, <1>2, <1>3 DEF IInv, Places, Txn, OnPage
<1>6. Locks'
  BY <1>1, <1>2, <1>3 DEF IInv, Places, Locks, Txn, OnPage
<1>7. Values'
  BY <1>1, <1>2, <1>3, Numbers DEF IInv, Places, Values, Locks, OnPage
<1>8. Ordered'
  BY <1>1, <1>2, <1>3, Numbers DEF IInv, Ordered, Values
<1>9. Committed'
  BY <1>1, <1>2, <1>3 DEF IInv, Committed, Settled, Recovered, Values, Places, Locks, Txn, OnPage
<1>10. Told'
  BY <1>1, <1>2, <1>3, Numbers DEF IInv, Synced, Told, Values
<1>11. SyncedDataOnDevice'
  BY <1>1, <1>2, <1>3, Numbers DEF IInv, Synced, SyncedDataOnDevice, ErrorReachesFsync
<1>12. Outstanding'
  BY <1>1, <1>2, <1>3, Numbers DEF IInv, Synced, Outstanding, Landed
<1>13. Covered'
  BY <1>1, <1>2, <1>3, Numbers DEF IInv, Synced, Covered, Awaited, Landed, InBuffer, Flushing, Txn
<1>14. Passed'
  BY <1>1, <1>2, <1>3, Numbers DEF IInv, Synced, Passed, Landed, InBuffer
<1>. QED
  BY <1>4, <1>5, <1>6, <1>7, <1>8, <1>9, <1>10, <1>11, <1>12, <1>13, <1>14 DEF IInv, Synced

LEMMA FsyncStartStep == ASSUME IInv, FsyncStart PROVE IInv'
<1> USE DEF Task, Batch, Flusher, Syncer, Kswapd, Writer, Worker, Nobody, Cleaner
<1> DEFINE l == IF dirty = {} THEN "wait" ELSE "begin"
<1>1. TypeOK /\ st[Syncer].pc = "idle" /\ Goto(Syncer, l)
  BY DEF FsyncStart, IInv
<1>2. /\ ghost' = [ghost EXCEPT !.want = [data |-> ver, attr |-> attr]]
      /\ UNCHANGED <<ver, dirty, lock, ilock, jlock, joined, map, attr, dbuf, ibuf, bdirty,
                  ddisk, idisk, log, merr, faults>>
  BY DEF FsyncStart, pages, inode, buffers, device
<1>3. /\ st' \in [Task -> TaskType] /\ \A u \in Task : u # Syncer => st'[u] = st[u]
      /\ st'[Syncer].pc = l /\ st'[Syncer].page = st[Syncer].page
      /\ st'[Syncer].todo = st[Syncer].todo
      /\ st'[Syncer].wrote = st[Syncer].wrote /\ st'[Syncer].err = st[Syncer].err
  BY <1>1, MoveOn DEF Pcs
<1>4. /\ ghost' \in GhostType /\ ghost'.writes = ghost.writes /\ ghost'.want.data = ver
      /\ ghost'.told = ghost.told /\ ghost'.synced = ghost.synced
      /\ ghost'.failed = ghost.failed /\ ghost'.dropped = ghost.dropped
  BY <1>1, <1>2 DEF TypeOK, GhostType
<1>5. TypeOK'
  BY <1>1, <1>2, <1>3, <1>4 DEF IInv, TypeOK
<1>6. Places'
  BY <1>1, <1>2, <1>3, <1>4 DEF IInv, Places, Txn, OnPage
<1>7. Locks'
  BY <1>1, <1>2, <1>3, <1>4 DEF IInv, Places, Locks, Txn, OnPage
<1>8. Values'
  BY <1>1, <1>2, <1>3, <1>4, Numbers DEF IInv, Places, Values, Locks, OnPage
<1>9. Ordered'
  BY <1>1, <1>2, <1>3, <1>4, Numbers DEF IInv, Ordered, Values
<1>10. Committed'
  BY <1>1, <1>2, <1>3, <1>4 DEF IInv, Committed, Settled, Recovered, Values, Places, Locks, Txn, OnPage
<1>11. Told'
  BY <1>1, <1>2, <1>3, <1>4, Numbers DEF IInv, Synced, Told, Values
<1>12. SyncedDataOnDevice'
  BY <1>1, <1>2, <1>3, <1>4, Numbers DEF IInv, Synced, SyncedDataOnDevice, ErrorReachesFsync
<1>13. Outstanding'
  BY <1>1, <1>2, <1>3, <1>4, Numbers DEF IInv, Synced, Outstanding, Landed
<1>14. Covered'
  <2> SUFFICES ASSUME ~ghost.dropped, ~merr, dirty = {}, NEW p \in Page PROVE Awaited(p)'
    BY <1>1, <1>2, <1>3, <1>4 DEF Covered, Txn
  <2>1. \A q \in st[Flusher].todo : lock[q] = Kswapd
    BY DEF IInv, Locks
  <2>2. CASE lock[p] = Kswapd
    BY <1>1, <1>2, <1>3, <1>4, <2>2 DEF Awaited
  <2>3. CASE lock[p] = Flusher
    <3>1. jlock = Flusher /\ st[Flusher].page = p
      BY <2>3 DEF IInv, Locks, Places, Txn, OnPage
    <3>. QED  BY <1>1, <1>2, <1>3, <1>4, <2>1, <3>1 DEF Awaited, Flushing
  <2>4. CASE lock[p] \in {Nobody, Writer}
    <3>1. dbuf[p] = ver[p]
      BY <2>4 DEF IInv, Values
    <3>2. CASE Landed(p, dbuf[p])
      BY <1>1, <1>2, <1>3, <1>4, <3>1, <3>2 DEF Awaited, Landed
    <3>3. CASE p \in bdirty /\ st[Flusher].wrote
      <4>1. jlock = Flusher
        BY <3>3 DEF IInv, Locks, Places
      <4>. QED  BY <1>1, <1>2, <1>3, <1>4, <2>1, <3>1, <3>3, <4>1, Numbers DEF Awaited, Flushing, InBuffer
    <3>. QED
      BY <1>1, <2>4, <3>2, <3>3 DEF IInv, Synced, Outstanding, Places, Locks, Txn, OnPage
  <2>5. lock[p] \in {Nobody, Writer, Flusher, Kswapd}
    BY <1>1, Distinct DEF IInv, TypeOK, Places, Locks, OnPage
  <2>. QED  BY <2>2, <2>3, <2>4, <2>5
<1>15. Passed'
  BY <1>1, <1>2, <1>3, <1>4, Numbers DEF IInv, Synced, Passed, Landed, InBuffer
<1>. QED
  BY <1>5, <1>6, <1>7, <1>8, <1>9, <1>10, <1>11, <1>12, <1>13, <1>14, <1>15 DEF IInv, Synced

LEMMA FsyncWaitStep == ASSUME IInv, FsyncWait PROVE IInv'
<1> USE DEF Task, Batch, Flusher, Syncer, Kswapd, Writer, Worker, Nobody, Cleaner
<1> DEFINE l == IF merr THEN "idle" ELSE "inode"
<1>1. TypeOK /\ st[Syncer].pc = "wait" /\ Goto(Syncer, l) /\ \A p \in Page : lock[p] \notin Cleaner
  BY DEF FsyncWait, IInv, UnderWriteback
<1>2. /\ merr' = FALSE
      /\ ghost' = [ghost EXCEPT !.told = IF merr THEN dbuf ELSE @]
      /\ UNCHANGED <<ver, dirty, lock, ilock, jlock, joined, map, attr, dbuf, ibuf, bdirty,
                  ddisk, idisk, log, faults>>
  BY DEF FsyncWait, pages, inode, buffers, device
<1>3. /\ st' \in [Task -> TaskType] /\ \A u \in Task : u # Syncer => st'[u] = st[u]
      /\ st'[Syncer].pc = l /\ st'[Syncer].page = st[Syncer].page
      /\ st'[Syncer].todo = st[Syncer].todo
      /\ st'[Syncer].wrote = st[Syncer].wrote /\ st'[Syncer].err = st[Syncer].err
  BY <1>1, MoveOn DEF Pcs
<1>4. /\ ghost' \in GhostType /\ ghost'.writes = ghost.writes /\ ghost'.want = ghost.want
      /\ ghost'.told = IF merr THEN dbuf ELSE ghost.told
      /\ ghost'.synced = ghost.synced
      /\ ghost'.failed = ghost.failed /\ ghost'.dropped = ghost.dropped
  BY <1>1, <1>2 DEF TypeOK, GhostType
<1>5. TypeOK'
  BY <1>1, <1>2, <1>3, <1>4 DEF IInv, TypeOK
<1>6. Places'
  BY <1>1, <1>2, <1>3, <1>4 DEF IInv, Places, Txn, OnPage
<1>7. Locks'
  BY <1>1, <1>2, <1>3, <1>4 DEF IInv, Places, Locks, Txn, OnPage
<1>8. Values'
  BY <1>1, <1>2, <1>3, <1>4, Numbers DEF IInv, Places, Values, Locks, OnPage
<1>9. Ordered'
  BY <1>1, <1>2, <1>3, <1>4, Numbers DEF IInv, Ordered, Values
<1>10. Committed'
  BY <1>1, <1>2, <1>3, <1>4 DEF IInv, Committed, Settled, Recovered, Values, Places, Locks, Txn, OnPage
<1>11. Told'
  BY <1>1, <1>2, <1>3, <1>4, Numbers DEF IInv, Synced, Told, Places, Txn
<1>12. SyncedDataOnDevice'
  BY <1>1, <1>2, <1>3, <1>4, Numbers DEF IInv, Synced, SyncedDataOnDevice, ErrorReachesFsync, Told
<1>13. Outstanding'
  BY <1>1, <1>2, <1>3, <1>4, Numbers DEF IInv, Synced, Outstanding, Landed
<1>14. Covered'
  BY <1>1, <1>2, <1>3, <1>4, Numbers DEF IInv, Synced, Covered, Awaited, Landed, InBuffer, Flushing, Txn
<1>15. Passed'
  <2> SUFFICES ASSUME ~ghost.dropped, ~merr PROVE Passed'
    BY <1>1, <1>2, <1>3, <1>4 DEF Passed
  <2>1. \A p \in Page : Landed(p, ghost.want.data[p]) \/ Flushing(p)
    BY <1>1 DEF IInv, Synced, Covered, Awaited, Txn
  <2>2. st[Flusher].pc \notin OnPage /\ \A p \in Page : st[Flusher].page # p
    BY <1>1 DEF IInv, Locks, Places
  <2>3. jlock = Flusher => st[Flusher].pc \in {"pages", "barrier", "commit"}
    BY <2>2 DEF IInv, Locks, Places, Txn, OnPage
  <2>4. (\A q \in st[Flusher].todo : lock[q] = Kswapd) => st[Flusher].todo = {}
    BY <1>1 DEF TypeOK, TaskType
  <2>. QED  BY <1>1, <1>2, <1>3, <1>4, <2>1, <2>2, <2>3, <2>4 DEF Passed, Landed, InBuffer, Flushing
<1>. QED
  BY <1>5, <1>6, <1>7, <1>8, <1>9, <1>10, <1>11, <1>12, <1>13, <1>14, <1>15 DEF IInv, Synced

LEMMA FsyncInodeStep == ASSUME IInv, FsyncInode PROVE IInv'
<1> USE DEF Task, Batch, Flusher, Syncer, Kswapd, Writer, Worker, Nobody, Cleaner
<1>1. TypeOK /\ st[Syncer].pc = "inode" /\ Goto(Syncer, "sync")
  BY DEF FsyncInode, IInv
<1>2. /\ ibuf' = [map |-> map, attr |-> attr] /\ bdirty' = bdirty \cup {InodeBlock}
      /\ joined' = (joined \/ jlock \notin {Nobody, Worker})
      /\ UNCHANGED <<ver, dirty, lock, ilock, jlock, map, attr, dbuf, ddisk, idisk, log,
                     merr, ghost, faults>>
  BY DEF FsyncInode, WriteInode, Image, pages, inode, device
<1>3. /\ st' \in [Task -> TaskType] /\ \A u \in Task : u # Syncer => st'[u] = st[u]
      /\ st'[Syncer].pc = "sync" /\ st'[Syncer].page = st[Syncer].page
      /\ st'[Syncer].todo = st[Syncer].todo
      /\ st'[Syncer].wrote = st[Syncer].wrote /\ st'[Syncer].err = st[Syncer].err
  BY <1>1, MoveOn DEF Pcs
<1>4. ibuf' \in ImageType /\ ibuf'.map = map /\ joined' \in BOOLEAN
  BY <1>1, <1>2 DEF TypeOK, ImageType
<1>5. (joined => joined') /\ (joined' => joined \/ jlock \in Cleaner)
  BY <1>1, <1>2 DEF IInv, TypeOK, Places, Locks, Txn
<1>6. InodeBlock \notin Page
  BY Distinct
<1>7. TypeOK'
  BY <1>1, <1>2, <1>3, <1>4, <1>5, <1>6 DEF IInv, TypeOK
<1>8. Places'
  BY <1>1, <1>2, <1>3, <1>4, <1>5, <1>6 DEF IInv, Places, Txn, OnPage
<1>9. Locks'
  BY <1>1, <1>2, <1>3, <1>4, <1>5, <1>6 DEF IInv, Places, Locks, Txn, OnPage
<1>10. Values'
  BY <1>1, <1>2, <1>3, <1>4, <1>5, <1>6, Numbers DEF IInv, Places, Values, Locks, OnPage
<1>11. Ordered'
  BY <1>1, <1>2, <1>3, <1>4, <1>5, <1>6, Numbers DEF IInv, Ordered, Values
<1>12. Committed'
  BY <1>1, <1>2, <1>3, <1>4, <1>5, <1>6 DEF IInv, Committed, Settled, Recovered, Values, Places, Locks, Txn, OnPage
<1>13. Told'
  BY <1>1, <1>2, <1>3, <1>4, <1>5, <1>6, Numbers DEF IInv, Synced, Told, Values
<1>14. SyncedDataOnDevice'
  BY <1>1, <1>2, <1>3, <1>4, <1>5, <1>6, Numbers DEF IInv, Synced, SyncedDataOnDevice, ErrorReachesFsync
<1>15. Outstanding'
  BY <1>1, <1>2, <1>3, <1>4, <1>5, <1>6, Numbers DEF IInv, Synced, Outstanding, Landed
<1>16. Covered'
  BY <1>1, <1>2, <1>3, <1>4, <1>5, <1>6, Numbers DEF IInv, Synced, Covered, Awaited, Landed, InBuffer, Flushing, Txn
<1>17. Passed'
  BY <1>1, <1>2, <1>3, <1>4, <1>5, <1>6, Numbers DEF IInv, Synced, Passed, Landed, InBuffer
<1>. QED
  BY <1>7, <1>8, <1>9, <1>10, <1>11, <1>12, <1>13, <1>14, <1>15, <1>16, <1>17 DEF IInv, Synced

LEMMA FsyncDoneStep == ASSUME IInv, FsyncDone PROVE IInv'
<1> USE DEF Task, Batch, Flusher, Syncer, Kswapd, Writer, Worker, Nobody, Cleaner
<1>1. TypeOK /\ st[Syncer].pc = "sync" /\ Goto(Syncer, "idle") /\ bdirty = {}
  BY DEF FsyncDone, IInv
<1>2. /\ ghost' = [ghost EXCEPT !.synced = ghost.want]
      /\ UNCHANGED <<ver, dirty, lock, ilock, jlock, joined, map, attr, dbuf, ibuf, bdirty,
                  ddisk, idisk, log, merr, faults>>
  BY DEF FsyncDone, pages, inode, buffers, device
<1>3. /\ st' \in [Task -> TaskType] /\ \A u \in Task : u # Syncer => st'[u] = st[u]
      /\ st'[Syncer].pc = "idle" /\ st'[Syncer].page = st[Syncer].page
      /\ st'[Syncer].todo = st[Syncer].todo
      /\ st'[Syncer].wrote = st[Syncer].wrote /\ st'[Syncer].err = st[Syncer].err
  BY <1>1, MoveOn DEF Pcs
<1>4. /\ ghost' \in GhostType /\ ghost'.writes = ghost.writes /\ ghost'.want = ghost.want
      /\ ghost'.told = ghost.told /\ ghost'.synced = ghost.want
      /\ ghost'.failed = ghost.failed /\ ghost'.dropped = ghost.dropped
  BY <1>1, <1>2 DEF TypeOK, GhostType
<1>5. TypeOK'
  BY <1>1, <1>2, <1>3, <1>4 DEF IInv, TypeOK
<1>6. Places'
  BY <1>1, <1>2, <1>3, <1>4 DEF IInv, Places, Txn, OnPage
<1>7. Locks'
  BY <1>1, <1>2, <1>3, <1>4 DEF IInv, Places, Locks, Txn, OnPage
<1>8. Values'
  BY <1>1, <1>2, <1>3, <1>4, Numbers DEF IInv, Places, Values, Locks, OnPage
<1>9. Ordered'
  BY <1>1, <1>2, <1>3, <1>4, Numbers DEF IInv, Ordered, Values
<1>10. Committed'
  BY <1>1, <1>2, <1>3, <1>4 DEF IInv, Committed, Settled, Recovered, Values, Places, Locks, Txn, OnPage
<1>11. Told'
  BY <1>1, <1>2, <1>3, <1>4, Numbers DEF IInv, Synced, Told, Values
<1>12. SyncedDataOnDevice'
  BY <1>1, <1>2, <1>3, <1>4 DEF IInv, Synced, SyncedDataOnDevice, ErrorReachesFsync, Passed, Landed, InBuffer,
             TypeOK, Versions, GhostType
<1>13. Outstanding'
  BY <1>1, <1>2, <1>3, <1>4, Numbers DEF IInv, Synced, Outstanding, Landed
<1>14. Covered'
  BY <1>1, <1>2, <1>3, <1>4, Numbers DEF IInv, Synced, Covered, Awaited, Landed, InBuffer, Flushing, Txn
<1>15. Passed'
  BY <1>1, <1>2, <1>3, <1>4, Numbers DEF IInv, Synced, Passed, Landed, InBuffer
<1>. QED
  BY <1>5, <1>6, <1>7, <1>8, <1>9, <1>10, <1>11, <1>12, <1>13, <1>14, <1>15 DEF IInv, Synced

LEMMA WritepagesBeginStep == ASSUME IInv, NEW t \in Batch, WritepagesBegin(t) PROVE IInv'
<1> USE DEF Task, Batch, Flusher, Syncer, Kswapd, Writer, Worker, Nobody, Cleaner
<1>1. TypeOK /\ st[t].pc = "begin" /\ jlock = Nobody
  BY DEF WritepagesBegin, IInv
<1>2. /\ jlock' = t /\ joined' = FALSE
      /\ st' = [st EXCEPT ![t] = [Idle EXCEPT !.pc = "pages", !.todo = dirty]]
      /\ UNCHANGED <<ver, dirty, lock, ilock, map, attr, dbuf, ibuf, bdirty, ddisk, idisk, log,
                     merr, ghost, faults>>
  BY DEF WritepagesBegin, pages, inode, buffers, device
<1>3. /\ st' \in [Task -> TaskType] /\ \A u \in Task : u # t => st'[u] = st[u]
      /\ st'[t].pc = "pages" /\ st'[t].page = NoPage /\ st'[t].todo = dirty
      /\ st'[t].wrote = FALSE /\ st'[t].err = FALSE
  <2>1. [Idle EXCEPT !.pc = "pages", !.todo = dirty] \in TaskType
    BY <1>1 DEF Idle, TaskType, Pcs, Txn, TypeOK
  <2>. QED  BY <1>1, <1>2, <2>1, MoveTo DEF Idle
<1>4. NoPage \notin Page /\ \A u \in Task : st[u].pc \notin Txn
  BY <1>1, Distinct DEF IInv, Locks
<1>5. TypeOK'
  BY <1>1, <1>2, <1>3, <1>4 DEF IInv, TypeOK
<1>6. Places'
  BY <1>1, <1>2, <1>3, <1>4 DEF IInv, Places, Txn, OnPage
<1>7. Locks'
  BY <1>1, <1>2, <1>3, <1>4 DEF IInv, Places, Locks, Txn, OnPage
<1>8. Values'
  BY <1>1, <1>2, <1>3, <1>4, Numbers DEF IInv, Places, Values, Locks, OnPage
<1>9. Ordered'
  BY <1>1, <1>2, <1>3, <1>4, Numbers DEF IInv, Ordered, Values
<1>10. Committed'
  BY <1>1, <1>2, <1>3, <1>4 DEF IInv, Committed, Settled, Recovered, Values, Places, Locks, Txn, OnPage
<1>11. Told'
  BY <1>1, <1>2, <1>3, <1>4, Numbers DEF IInv, Synced, Told, Values
<1>12. SyncedDataOnDevice'
  BY <1>1, <1>2, <1>3, <1>4, Numbers DEF IInv, Synced, SyncedDataOnDevice, ErrorReachesFsync
<1>13. Outstanding'
  BY <1>1, <1>2, <1>3, <1>4 DEF IInv, Synced, Outstanding, Landed, Places, Txn
<1>14. Covered'
  <2> SUFFICES ASSUME ~ghost.dropped, ~merr, t = Syncer, NEW p \in Page PROVE Awaited(p)'
    BY <1>1, <1>2, <1>3, <1>4 DEF IInv, Synced, Covered, Awaited, Landed, InBuffer, Flushing, Txn, Places, OnPage
  <2>1. CASE lock[p] = Kswapd
    BY <1>1, <1>2, <1>3, <1>4, <2>1 DEF Awaited
  <2>2. CASE p \in dirty
    BY <1>1, <1>2, <1>3, <1>4, <2>2 DEF Awaited, Txn
  <2>3. CASE p \notin dirty /\ lock[p] \in {Nobody, Writer}
    <3>1. dbuf[p] = ver[p] /\ ghost.want.data[p] <= ver[p]
      BY <2>3 DEF IInv, Values, Synced, Told
    <3>2. Landed(p, dbuf[p])
      BY <1>4 DEF IInv, Synced, Outstanding, Places, Txn
    <3>. QED  BY <1>1, <1>2, <1>3, <1>4, <3>1, <3>2, Numbers DEF Awaited, Landed
  <2>4. lock[p] \in {Nobody, Writer, Kswapd}
    BY <1>1, <1>4 DEF IInv, TypeOK, Places, Locks, OnPage, Txn
  <2>. QED  BY <2>1, <2>2, <2>3, <2>4
<1>15. Passed'
  BY <1>1, <1>2, <1>3, <1>4, Numbers DEF IInv, Synced, Passed, Landed, InBuffer
<1>. QED
  BY <1>5, <1>6, <1>7, <1>8, <1>9, <1>10, <1>11, <1>12, <1>13, <1>14, <1>15 DEF IInv, Synced

LEMMA WritepagesLockStep == ASSUME IInv, NEW t \in Batch, WritepagesLock(t) PROVE IInv'
<1> USE DEF Task, Batch, Flusher, Syncer, Kswapd, Writer, Worker, Nobody, Cleaner
<1> DEFINE p == NextPage(st[t].todo)
<1>1. TypeOK /\ st[t].pc = "pages" /\ p \in Page /\ p \in st[t].todo /\ lock[p] = Nobody /\ p \in dirty
  <2>1. st[t].todo # {} /\ st[t].todo \subseteq Page
    BY DEF WritepagesLock, IInv, TypeOK, TaskType
  <2>2. p \in st[t].todo
    BY <2>1, NextPageIn
  <2>. QED  BY <2>1, <2>2 DEF WritepagesLock, IInv, Locks
<1>2. /\ lock' = [lock EXCEPT ![p] = t] /\ dirty' = dirty \ {p}
      /\ st' = [st EXCEPT ![t].pc = "map", ![t].page = p, ![t].todo = @ \ {p}]
      /\ UNCHANGED <<ver, ilock, jlock, joined, map, attr, dbuf, ibuf, bdirty,
                     ddisk, idisk, log, merr, ghost, faults>>
  BY <1>1 DEF WritepagesLock, inode, buffers, device
<1> HIDE DEF p
<1>3. /\ st' \in [Task -> TaskType] /\ \A u \in Task : u # t => st'[u] = st[u]
      /\ st'[t].pc = "map" /\ st'[t].page = p /\ st'[t].todo = st[t].todo \ {p}
      /\ st'[t].wrote = st[t].wrote /\ st'[t].err = st[t].err
  BY <1>1, <1>2 DEF TypeOK, TaskType, Pcs, Txn
<1>4. /\ lock' \in [Page -> Task \cup {Nobody}] /\ lock'[p] = t
      /\ \A q \in Page : q # p => lock'[q] = lock[q]
  BY <1>1, <1>2 DEF TypeOK
<1>5. \A u \in Task : u # t => st[u].pc \notin Txn
  BY <1>1 DEF IInv, Locks, Txn
<1>6. TypeOK'
  BY <1>1, <1>2, <1>3, <1>4, <1>5 DEF IInv, TypeOK
<1>7. Places'
  BY <1>1, <1>2, <1>3, <1>4, <1>5 DEF IInv, Places, Txn, OnPage
<1>8. Locks'
  BY <1>1, <1>2, <1>3, <1>4, <1>5 DEF IInv, Places, Locks, Txn, OnPage
<1>9. Values'
  BY <1>1, <1>2, <1>3, <1>4, <1>5, Numbers DEF IInv, Places, Values, Locks, OnPage
<1>10. Ordered'
  BY <1>1, <1>2, <1>3, <1>4, <1>5, Numbers DEF IInv, Ordered, Values
<1>11. Committed'
  BY <1>1, <1>2, <1>3, <1>4, <1>5 DEF IInv, Committed, Settled, Recovered, Values, Places, Locks, Txn, OnPage
<1>12. Told'
  BY <1>1, <1>2, <1>3, <1>4, <1>5, Numbers DEF IInv, Synced, Told, Values
<1>13. SyncedDataOnDevice'
  BY <1>1, <1>2, <1>3, <1>4, <1>5, Numbers DEF IInv, Synced, SyncedDataOnDevice, ErrorReachesFsync
<1>14. Outstanding'
  BY <1>1, <1>2, <1>3, <1>4, <1>5, Numbers DEF IInv, Synced, Outstanding, Landed
<1>15. Covered'
  <2> SUFFICES ASSUME ~ghost.dropped, ~merr, st[Syncer].pc \in Txn \cup {"wait"}, NEW q \in Page
               PROVE  Awaited(q)'
    BY <1>1, <1>2, <1>3, <1>4, <1>5 DEF Covered, Txn
  <2>1. Awaited(q)
    BY DEF IInv, Synced, Covered
  <2>2. CASE t = Syncer
    <3>1. st[Syncer].pc # "wait" /\ st'[Syncer].pc \in Txn /\ st[Syncer].page # q
      BY <1>1, <1>3, <2>2 DEF Txn, IInv, Places, OnPage
    <3>. QED  BY <1>1, <1>2, <1>3, <1>4, <1>5, <2>1, <2>2, <3>1 DEF Awaited, Landed, InBuffer
  <2>3. CASE t = Flusher
    BY <1>1, <1>2, <1>3, <1>4, <1>5, <2>1, <2>3, Numbers DEF Awaited, Landed, Flushing
  <2>. QED  BY <2>2, <2>3
<1>16. Passed'
  BY <1>1, <1>2, <1>3, <1>4, <1>5, Numbers DEF IInv, Synced, Passed, Landed, InBuffer
<1>. QED
  BY <1>6, <1>7, <1>8, <1>9, <1>10, <1>11, <1>12, <1>13, <1>14, <1>15, <1>16 DEF IInv, Synced

LEMMA WritepagesCommitStep == ASSUME IInv, NEW t \in Batch, WritepagesEnd(t), st[t].wrote, ~st[t].err PROVE IInv'
<1> USE DEF Task, Batch, Flusher, Syncer, Kswapd, Writer, Worker, Nobody, Cleaner
<1>1. TypeOK /\ st[t].pc = "pages" /\ st[t].todo = {} /\ Goto(t, "barrier")
  BY DEF WritepagesEnd, IInv
<1>2. UNCHANGED <<ver, dirty, lock, ilock, jlock, joined, map, attr, dbuf, ibuf, bdirty, ddisk, idisk, log,
                     merr, ghost, faults>>
  BY DEF WritepagesEnd, pages, inode, buffers, device
<1>3. /\ st' \in [Task -> TaskType] /\ \A u \in Task : u # t => st'[u] = st[u]
      /\ st'[t].pc = "barrier" /\ st'[t].page = st[t].page /\ st'[t].todo = {}
      /\ st'[t].wrote /\ ~st'[t].err
  <2>1. "barrier" \in Pcs
    BY DEF Pcs, Txn
  <2>. QED  BY <1>1, <2>1, MoveOn
<1>4. TypeOK'
  BY <1>1, <1>2, <1>3 DEF IInv, TypeOK
<1>5. Places'
  BY <1>1, <1>2, <1>3 DEF IInv, Places, Txn, OnPage
<1>6. Locks'
  BY <1>1, <1>2, <1>3 DEF IInv, Places, Locks, Txn, OnPage
<1>7. Values'
  BY <1>1, <1>2, <1>3, Numbers DEF IInv, Places, Values, Locks, OnPage
<1>8. Ordered'
  BY <1>1, <1>2, <1>3, Numbers DEF IInv, Ordered, Values
<1>9. Committed'
  BY <1>1, <1>2, <1>3 DEF IInv, Committed, Settled, Recovered, Values, Places, Locks, Txn, OnPage
<1>10. Told'
  BY <1>1, <1>2, <1>3, Numbers DEF IInv, Synced, Told, Values
<1>11. SyncedDataOnDevice'
  BY <1>1, <1>2, <1>3, Numbers DEF IInv, Synced, SyncedDataOnDevice, ErrorReachesFsync
<1>12. Outstanding'
  BY <1>1, <1>2, <1>3, Numbers DEF IInv, Synced, Outstanding, Landed
<1>13. Covered'
  BY <1>1, <1>2, <1>3, Numbers DEF IInv, Synced, Covered, Awaited, Landed, InBuffer, Flushing, Txn
<1>14. Passed'
  BY <1>1, <1>2, <1>3, Numbers DEF IInv, Synced, Passed, Landed, InBuffer
<1>. QED
  BY <1>4, <1>5, <1>6, <1>7, <1>8, <1>9, <1>10, <1>11, <1>12, <1>13, <1>14 DEF IInv, Synced

LEMMA WritepagesAbortStep == ASSUME IInv, NEW t \in Batch, WritepagesEnd(t), ~(st[t].wrote /\ ~st[t].err) PROVE IInv'
<1> USE DEF Task, Batch, Flusher, Syncer, Kswapd, Writer, Worker, Nobody, Cleaner
<1>1. TypeOK /\ st[t].pc = "pages" /\ st[t].todo = {} /\ NoPage \notin Page /\ jlock = t
  BY Distinct DEF WritepagesEnd, IInv, Locks, Txn
<1>2. /\ jlock' = Nobody /\ joined' = FALSE /\ After(t)
      /\ UNCHANGED <<ver, dirty, lock, ilock, map, attr, dbuf, ibuf, bdirty, ddisk, idisk, log,
                     merr, ghost, faults>>
  BY DEF WritepagesEnd, pages, inode, buffers, device
<1>3. /\ st' \in [Task -> TaskType] /\ \A u \in Task : u # t => st'[u] = st[u]
      /\ st'[t].pc = (IF t = Syncer THEN "wait" ELSE "idle") /\ st'[t].page = NoPage
      /\ st'[t].todo = {} /\ st'[t].wrote = FALSE /\ st'[t].err = FALSE
  BY <1>1, <1>2, AfterMove
<1>4. \A u \in Task : u # t => st[u].pc \notin Txn
  BY <1>1 DEF IInv, Locks
<1>5. (\A p \in Page : st[t].page # p) /\ (ghost.failed \/ ~st[t].wrote)
  BY <1>1 DEF IInv, Places, OnPage, Committed, Synced, Told
<1>6. TypeOK'
  BY <1>1, <1>2, <1>3, <1>4, <1>5 DEF IInv, TypeOK
<1>7. Places'
  BY <1>1, <1>2, <1>3, <1>4, <1>5 DEF IInv, Places, Txn, OnPage
<1>8. Locks'
  BY <1>1, <1>2, <1>3, <1>4, <1>5 DEF IInv, Places, Locks, Txn, OnPage
<1>9. Values'
  BY <1>1, <1>2, <1>3, <1>4, <1>5, Numbers DEF IInv, Places, Values, Locks, OnPage
<1>10. Ordered'
  BY <1>1, <1>2, <1>3, <1>4, <1>5, Numbers DEF IInv, Ordered, Values
<1>11. Committed'
  <2>1. /\ (joined => jlock \in Cleaner)' /\ ~st'[t].wrote /\ (st[Syncer].err => ghost.failed)'
        /\ (\A u \in Cleaner : st[u].pc \in {"barrier", "commit"} \/ st[u].wrote => joined)'
        /\ (st[Worker].pc \in {"home", "advance"} => log # <<>>)'
    BY <1>1, <1>2, <1>3, <1>4, <1>5 DEF IInv, Committed, Places, Txn
  <2>2. SUFFICES ASSUME ~ghost.failed PROVE Committed'
    BY <1>2, <2>1 DEF Committed
  <2>3. ~st[t].wrote /\ \A u \in Cleaner : u # t => ~st[u].wrote
    BY <1>4, <1>5, <2>2 DEF IInv, Places, Committed
  <2>. QED
    BY <1>1, <1>2, <1>3, <1>4, <1>5, <2>1, <2>2, <2>3 DEF IInv, Committed, Settled, Recovered, Places, OnPage
<1>12. Told'
  BY <1>1, <1>2, <1>3, <1>4, <1>5, Numbers DEF IInv, Synced, Told, Values
<1>13. SyncedDataOnDevice'
  BY <1>1, <1>2, <1>3, <1>4, <1>5, Numbers DEF IInv, Synced, SyncedDataOnDevice, ErrorReachesFsync
<1>14. Outstanding'
  BY <1>1, <1>2, <1>3, <1>4, <1>5, Numbers DEF IInv, Synced, Told, Outstanding, Landed, Places, Txn
<1>15. Covered'
  <2> SUFFICES ASSUME ~ghost.dropped, ~merr, st'[Syncer].pc \in Txn \cup {"wait"}, NEW q \in Page
               PROVE  Awaited(q)'
    BY <1>1, <1>2, <1>3, <1>4, <1>5 DEF Covered
  <2>1. CASE t = Syncer
    <3>1. Awaited(q) /\ ~st[Syncer].wrote
      BY <1>1, <2>1 DEF IInv, Synced, Covered, Told, Txn
    <3>. QED  BY <1>1, <1>2, <1>3, <1>4, <1>5, <2>1, <3>1 DEF Awaited, Landed, InBuffer
  <2>2. CASE t = Flusher
    <3>1. Awaited(q) /\ ~st[Flusher].wrote
      BY <1>3, <2>2 DEF IInv, Synced, Covered, Told
    <3>. QED  BY <1>1, <1>2, <1>3, <1>4, <1>5, <2>2, <3>1 DEF Awaited, Landed, Flushing, InBuffer, Txn
  <2>. QED  BY <2>1, <2>2
<1>16. Passed'
  BY <1>1, <1>2, <1>3, <1>4, <1>5 DEF IInv, Synced, Told, Passed, Landed, InBuffer
<1>. QED
  BY <1>6, <1>7, <1>8, <1>9, <1>10, <1>11, <1>12, <1>13, <1>14, <1>15, <1>16 DEF IInv, Synced

LEMMA ReclaimPageStep == ASSUME IInv, NEW p \in Page, ReclaimPage(p) PROVE IInv'
<1> USE DEF Task, Batch, Flusher, Syncer, Kswapd, Writer, Worker, Nobody, Cleaner
<1>1. TypeOK /\ st[Kswapd].pc = "idle" /\ p \in dirty /\ lock[p] = Nobody
  BY DEF ReclaimPage, IInv
<1>2. /\ lock' = [lock EXCEPT ![p] = Kswapd] /\ dirty' = dirty \ {p}
      /\ st' = [st EXCEPT ![Kswapd] = [Idle EXCEPT !.pc = "begin", !.page = p]]
      /\ UNCHANGED <<ver, ilock, jlock, joined, map, attr, dbuf, ibuf, bdirty,
                     ddisk, idisk, log, merr, ghost, faults>>
  BY DEF ReclaimPage, inode, buffers, device
<1>3. /\ st' \in [Task -> TaskType] /\ \A u \in Task : u # Kswapd => st'[u] = st[u]
      /\ st'[Kswapd].pc = "begin" /\ st'[Kswapd].page = p /\ ~st'[Kswapd].wrote /\ ~st'[Kswapd].err
  <2>1. [Idle EXCEPT !.pc = "begin", !.page = p] \in TaskType
    BY DEF Idle, TaskType, Pcs
  <2>. QED  BY <1>1, <1>2, <2>1, MoveTo DEF Idle
<1>4. /\ lock' \in [Page -> Task \cup {Nobody}] /\ lock'[p] = Kswapd
      /\ \A q \in Page : q # p => lock'[q] = lock[q]
  BY <1>1, <1>2 DEF TypeOK
<1>5. TypeOK'
  BY <1>1, <1>2, <1>3, <1>4 DEF IInv, TypeOK
<1>6. Places'
  BY <1>1, <1>2, <1>3, <1>4 DEF IInv, Places, Txn, OnPage
<1>7. Locks'
  BY <1>1, <1>2, <1>3, <1>4 DEF IInv, Places, Locks, Txn, OnPage
<1>8. Values'
  BY <1>1, <1>2, <1>3, <1>4, Numbers DEF IInv, Places, Values, Locks, OnPage
<1>9. Ordered'
  BY <1>1, <1>2, <1>3, <1>4, Numbers DEF IInv, Ordered, Values
<1>10. Committed'
  BY <1>1, <1>2, <1>3, <1>4 DEF IInv, Committed, Settled, Recovered, Values, Places, Locks, Txn, OnPage
<1>11. Told'
  BY <1>1, <1>2, <1>3, <1>4, Numbers DEF IInv, Synced, Told, Values
<1>12. SyncedDataOnDevice'
  BY <1>1, <1>2, <1>3, <1>4, Numbers DEF IInv, Synced, SyncedDataOnDevice, ErrorReachesFsync
<1>13. Outstanding'
  BY <1>1, <1>2, <1>3, <1>4, Numbers DEF IInv, Synced, Outstanding, Landed
<1>14. Covered'
  BY <1>1, <1>2, <1>3, <1>4, Numbers DEF IInv, Synced, Covered, Awaited, Landed, InBuffer, Flushing, Txn
<1>15. Passed'
  BY <1>1, <1>2, <1>3, <1>4, Numbers DEF IInv, Synced, Passed, Landed, InBuffer
<1>. QED
  BY <1>5, <1>6, <1>7, <1>8, <1>9, <1>10, <1>11, <1>12, <1>13, <1>14, <1>15 DEF IInv, Synced

LEMMA WritepageBeginStep == ASSUME IInv, WritepageBegin PROVE IInv'
<1> USE DEF Task, Batch, Flusher, Syncer, Kswapd, Writer, Worker, Nobody, Cleaner
<1>1. TypeOK /\ st[Kswapd].pc = "begin" /\ jlock = Nobody /\ Goto(Kswapd, "map")
  BY DEF WritepageBegin, IInv
<1>2. /\ jlock' = Kswapd /\ joined' = FALSE
      /\ UNCHANGED <<ver, dirty, lock, ilock, map, attr, dbuf, ibuf, bdirty,
                     ddisk, idisk, log, merr, ghost, faults>>
  BY DEF WritepageBegin, pages, inode, buffers, device
<1>3. /\ st' \in [Task -> TaskType] /\ \A u \in Task : u # Kswapd => st'[u] = st[u]
      /\ st'[Kswapd].pc = "map" /\ st'[Kswapd].page = st[Kswapd].page
      /\ st'[Kswapd].wrote = st[Kswapd].wrote /\ st'[Kswapd].err = st[Kswapd].err
  BY <1>1, MoveOn DEF Pcs, Txn
<1>4. \A u \in Task : st[u].pc \notin Txn
  BY <1>1 DEF IInv, Locks
<1>5. \A u \in Cleaner : ~st[u].wrote
  BY <1>4 DEF IInv, Places
<1>6. TypeOK'
  BY <1>1, <1>2, <1>3, <1>4, <1>5 DEF IInv, TypeOK
<1>7. Places'
  BY <1>1, <1>2, <1>3, <1>4, <1>5 DEF IInv, Places, Txn, OnPage
<1>8. Locks'
  BY <1>1, <1>2, <1>3, <1>4, <1>5 DEF IInv, Places, Locks, Txn, OnPage
<1>9. Values'
  BY <1>1, <1>2, <1>3, <1>4, <1>5, Numbers DEF IInv, Places, Values, Locks, OnPage
<1>10. Ordered'
  BY <1>1, <1>2, <1>3, <1>4, <1>5, Numbers DEF IInv, Ordered, Values
<1>11. Committed'
  BY <1>1, <1>2, <1>3, <1>4, <1>5 DEF IInv, Committed, Settled, Recovered, Values, Places, Locks, Txn, OnPage
<1>12. Told'
  BY <1>1, <1>2, <1>3, <1>4, <1>5, Numbers DEF IInv, Synced, Told, Values
<1>13. SyncedDataOnDevice'
  BY <1>1, <1>2, <1>3, <1>4, <1>5, Numbers DEF IInv, Synced, SyncedDataOnDevice, ErrorReachesFsync
<1>14. Outstanding'
  BY <1>1, <1>2, <1>3, <1>4, <1>5, Numbers DEF IInv, Synced, Outstanding, Landed
<1>15. Covered'
  BY <1>1, <1>2, <1>3, <1>4, <1>5, Numbers DEF IInv, Synced, Covered, Awaited, Landed, InBuffer, Flushing, Txn
<1>16. Passed'
  BY <1>1, <1>2, <1>3, <1>4, <1>5, Numbers DEF IInv, Synced, Passed, Landed, InBuffer
<1>. QED
  BY <1>6, <1>7, <1>8, <1>9, <1>10, <1>11, <1>12, <1>13, <1>14, <1>15, <1>16 DEF IInv, Synced

LEMMA PageMapStep == ASSUME IInv, NEW t \in Cleaner, PageMap(t) PROVE IInv'
<1> USE DEF Task, Batch, Flusher, Syncer, Kswapd, Writer, Worker, Nobody, Cleaner
<1> DEFINE p == st[t].page
<1>1. TypeOK /\ st[t].pc = "map" /\ Goto(t, "data") /\ p \in Page /\ lock[p] = t /\ st[t].page = p
  BY DEF PageMap, IInv, Places, Locks, OnPage
<1>2. /\ map' = map \cup {p}
      /\ UNCHANGED <<ver, dirty, lock, ilock, jlock, joined, attr, dbuf, ibuf, bdirty,
                     ddisk, idisk, log, merr, ghost, faults>>
  BY DEF PageMap, pages, buffers, device
<1>3. /\ st' \in [Task -> TaskType] /\ \A u \in Task : u # t => st'[u] = st[u]
      /\ st'[t].pc = "data" /\ st'[t].page = p /\ st'[t].todo = st[t].todo
      /\ st'[t].wrote = st[t].wrote /\ st'[t].err = st[t].err
  BY <1>1, MoveOn DEF Pcs, Txn
<1> HIDE DEF p
<1>4. \A u \in Task : u # t => st[u].pc \notin Txn
  BY <1>1 DEF IInv, Locks, Txn
<1>5. TypeOK'
  BY <1>1, <1>2, <1>3, <1>4 DEF IInv, TypeOK
<1>6. Places'
  BY <1>1, <1>2, <1>3, <1>4 DEF IInv, Places, Txn, OnPage
<1>7. Locks'
  BY <1>1, <1>2, <1>3, <1>4 DEF IInv, Places, Locks, Txn, OnPage
<1>8. Values'
  BY <1>1, <1>2, <1>3, <1>4, Numbers DEF IInv, Places, Values, Locks, OnPage
<1>9. Ordered'
  BY <1>1, <1>2, <1>3, <1>4, Numbers DEF IInv, Ordered, Values
<1>10. Committed'
  BY <1>1, <1>2, <1>3, <1>4 DEF IInv, Committed, Settled, Recovered, Values, Places, Locks, Txn, OnPage
<1>11. Told'
  BY <1>1, <1>2, <1>3, <1>4, Numbers DEF IInv, Synced, Told, Values
<1>12. SyncedDataOnDevice'
  BY <1>1, <1>2, <1>3, <1>4, Numbers DEF IInv, Synced, SyncedDataOnDevice, ErrorReachesFsync
<1>13. Outstanding'
  BY <1>1, <1>2, <1>3, <1>4, Numbers DEF IInv, Synced, Outstanding, Landed
<1>14. Covered'
  <2> SUFFICES ASSUME ~ghost.dropped, ~merr, st[Syncer].pc \in Txn \cup {"wait"}, NEW q \in Page
               PROVE  Awaited(q)'
    BY <1>1, <1>2, <1>3, <1>4 DEF Covered, Txn
  <2>1. Awaited(q)
    BY DEF IInv, Synced, Covered
  <2>2. CASE t = Syncer
    <3>1. st[Syncer].pc # "wait" /\ st'[Syncer].pc \in Txn
      BY <1>1, <1>3, <2>2 DEF Txn
    <3>. QED  BY <1>1, <1>2, <1>3, <1>4, <2>1, <2>2, <3>1 DEF Awaited, Landed, InBuffer
  <2>3. CASE t # Syncer
    BY <1>1, <1>2, <1>3, <1>4, <2>1, <2>3 DEF Awaited, Landed, Flushing, InBuffer
  <2>. QED  BY <2>2, <2>3
<1>15. Passed'
  BY <1>1, <1>2, <1>3, <1>4, Numbers DEF IInv, Synced, Passed, Landed, InBuffer
<1>. QED
  BY <1>5, <1>6, <1>7, <1>8, <1>9, <1>10, <1>11, <1>12, <1>13, <1>14, <1>15 DEF IInv, Synced

LEMMA BarrierStep == ASSUME IInv, NEW t \in Cleaner, Barrier(t) PROVE IInv'
<1> USE DEF Task, Batch, Flusher, Syncer, Kswapd, Writer, Worker, Nobody, Cleaner
<1>1. TypeOK /\ st[t].pc = "barrier" /\ Goto(t, "commit") /\ bdirty = {}
  BY DEF Barrier, IInv
<1>2. UNCHANGED <<ver, dirty, lock, ilock, jlock, joined, map, attr, dbuf, ibuf, bdirty,
                     ddisk, idisk, log, merr, ghost, faults>>
  BY DEF Barrier, pages, inode, buffers, device
<1>3. /\ st' \in [Task -> TaskType] /\ \A u \in Task : u # t => st'[u] = st[u]
      /\ st'[t].pc = "commit" /\ st'[t].page = st[t].page /\ st'[t].todo = st[t].todo
      /\ st'[t].wrote = st[t].wrote /\ st'[t].err = st[t].err
  BY <1>1, MoveOn DEF Pcs, Txn
<1>4. \A u \in Task : u # t => st[u].pc \notin Txn
  BY <1>1 DEF IInv, Locks, Txn
<1>5. TypeOK'
  BY <1>1, <1>2, <1>3, <1>4 DEF IInv, TypeOK
<1>6. Places'
  BY <1>1, <1>2, <1>3, <1>4 DEF IInv, Places, Txn, OnPage
<1>7. Locks'
  BY <1>1, <1>2, <1>3, <1>4 DEF IInv, Places, Locks, Txn, OnPage
<1>8. Values'
  BY <1>1, <1>2, <1>3, <1>4, Numbers DEF IInv, Places, Values, Locks, OnPage
<1>9. Ordered'
  BY <1>1, <1>2, <1>3, <1>4, Numbers DEF IInv, Ordered, Values
<1>10. Committed'
  BY <1>1, <1>2, <1>3, <1>4 DEF IInv, Committed, Settled, Recovered, Values, Places, Locks, Txn, OnPage
<1>11. Told'
  BY <1>1, <1>2, <1>3, <1>4, Numbers DEF IInv, Synced, Told, Values
<1>12. SyncedDataOnDevice'
  BY <1>1, <1>2, <1>3, <1>4, Numbers DEF IInv, Synced, SyncedDataOnDevice, ErrorReachesFsync
<1>13. Outstanding'
  BY <1>1, <1>2, <1>3, <1>4, Numbers DEF IInv, Synced, Outstanding, Landed
<1>14. Covered'
  BY <1>1, <1>2, <1>3, <1>4, Numbers DEF IInv, Synced, Covered, Awaited, Landed, InBuffer, Flushing, Txn
<1>15. Passed'
  BY <1>1, <1>2, <1>3, <1>4, Numbers DEF IInv, Synced, Passed, Landed, InBuffer
<1>. QED
  BY <1>5, <1>6, <1>7, <1>8, <1>9, <1>10, <1>11, <1>12, <1>13, <1>14, <1>15 DEF IInv, Synced

LEMMA WorkerBeginStep == ASSUME IInv, WorkerBegin PROVE IInv'
<1> USE DEF Task, Batch, Flusher, Syncer, Kswapd, Writer, Worker, Nobody, Cleaner
<1>1. TypeOK /\ st[Worker].pc = "idle" /\ Goto(Worker, "home") /\ log # <<>> /\ jlock = Nobody
  BY DEF WorkerBegin, IInv
<1>2. /\ jlock' = Worker
      /\ UNCHANGED <<ver, dirty, lock, ilock, joined, map, attr, dbuf, ibuf, bdirty,
                     ddisk, idisk, log, merr, ghost, faults>>
  BY DEF WorkerBegin, pages, inode, buffers, device
<1>3. /\ st' \in [Task -> TaskType] /\ \A u \in Task : u # Worker => st'[u] = st[u]
      /\ st'[Worker].pc = "home" /\ st'[Worker].page = st[Worker].page
  BY <1>1, MoveOn DEF Pcs, Txn
<1>4. TypeOK'
  BY <1>1, <1>2, <1>3 DEF IInv, TypeOK
<1>5. Places'
  BY <1>1, <1>2, <1>3 DEF IInv, Places, Txn, OnPage
<1>6. Locks'
  BY <1>1, <1>2, <1>3 DEF IInv, Places, Locks, Txn, OnPage
<1>7. Values'
  BY <1>1, <1>2, <1>3, Numbers DEF IInv, Places, Values, Locks, OnPage
<1>8. Ordered'
  BY <1>1, <1>2, <1>3, Numbers DEF IInv, Ordered, Values
<1>9. Committed'
  BY <1>1, <1>2, <1>3 DEF IInv, Committed, Settled, Recovered, Values, Places, Locks, Txn, OnPage
<1>10. Told'
  BY <1>1, <1>2, <1>3, Numbers DEF IInv, Synced, Told, Values
<1>11. SyncedDataOnDevice'
  BY <1>1, <1>2, <1>3, Numbers DEF IInv, Synced, SyncedDataOnDevice, ErrorReachesFsync
<1>12. Outstanding'
  BY <1>1, <1>2, <1>3, Numbers DEF IInv, Synced, Outstanding, Landed
<1>13. Covered'
  BY <1>1, <1>2, <1>3, Numbers DEF IInv, Synced, Covered, Awaited, Landed, InBuffer, Flushing, Txn
<1>14. Passed'
  BY <1>1, <1>2, <1>3, Numbers DEF IInv, Synced, Passed, Landed, InBuffer
<1>. QED
  BY <1>4, <1>5, <1>6, <1>7, <1>8, <1>9, <1>10, <1>11, <1>12, <1>13, <1>14 DEF IInv, Synced

LEMMA WorkerHomeStep == ASSUME IInv, WorkerHome PROVE IInv'
<1> USE DEF Task, Batch, Flusher, Syncer, Kswapd, Writer, Worker, Nobody, Cleaner
<1>1. TypeOK /\ st[Worker].pc = "home" /\ Goto(Worker, "advance") /\ jlock = Worker /\ log # <<>>
  BY DEF WorkerHome, IInv, Locks, Txn, Committed
<1>2. /\ ibuf' = log[1] /\ idisk' = log[1] /\ bdirty' = bdirty \ {InodeBlock}
      /\ UNCHANGED <<ver, dirty, lock, ilock, jlock, joined, map, attr, dbuf, ddisk, log, merr, ghost, faults>>
  BY DEF WorkerHome, pages, inode
<1>3. /\ st' \in [Task -> TaskType] /\ \A u \in Task : u # Worker => st'[u] = st[u]
      /\ st'[Worker].pc = "advance" /\ st'[Worker].page = st[Worker].page
  BY <1>1, MoveOn DEF Pcs, Txn
<1>4. log[1] \in ImageType /\ 1 \in 1 .. Len(log)
  BY <1>1 DEF TypeOK
<1>5. ~joined /\ InodeBlock \notin Page
  BY <1>1, Distinct DEF IInv, Committed
<1>6. TypeOK'
  BY <1>1, <1>2, <1>3, <1>4, <1>5 DEF IInv, TypeOK
<1>7. Places'
  BY <1>1, <1>2, <1>3, <1>4, <1>5 DEF IInv, Places, Txn, OnPage
<1>8. Locks'
  BY <1>1, <1>2, <1>3, <1>4, <1>5 DEF IInv, Places, Locks, Txn, OnPage
<1>9. Values'
  BY <1>1, <1>2, <1>3, <1>4, <1>5, Numbers DEF IInv, Places, Values, Locks, OnPage
<1>10. Ordered'
  BY <1>1, <1>2, <1>3, <1>4, <1>5, Numbers DEF IInv, Ordered, Values
<1>11. Committed'
  BY <1>1, <1>2, <1>3, <1>4, <1>5 DEF IInv, Committed, Settled, Recovered, Values, Places, Locks, Txn, OnPage
<1>12. Told'
  BY <1>1, <1>2, <1>3, <1>4, <1>5, Numbers DEF IInv, Synced, Told, Values
<1>13. SyncedDataOnDevice'
  BY <1>1, <1>2, <1>3, <1>4, <1>5, Numbers DEF IInv, Synced, SyncedDataOnDevice, ErrorReachesFsync
<1>14. Outstanding'
  BY <1>1, <1>2, <1>3, <1>4, <1>5, Numbers DEF IInv, Synced, Outstanding, Landed
<1>15. Covered'
  BY <1>1, <1>2, <1>3, <1>4, <1>5, Numbers DEF IInv, Synced, Covered, Awaited, Landed, InBuffer, Flushing, Txn
<1>16. Passed'
  BY <1>1, <1>2, <1>3, <1>4, <1>5, Numbers DEF IInv, Synced, Passed, Landed, InBuffer
<1>. QED
  BY <1>6, <1>7, <1>8, <1>9, <1>10, <1>11, <1>12, <1>13, <1>14, <1>15, <1>16 DEF IInv, Synced

LEMMA WorkerAdvanceStep == ASSUME IInv, WorkerAdvance PROVE IInv'
<1> USE DEF Task, Batch, Flusher, Syncer, Kswapd, Writer, Worker, Nobody, Cleaner
<1> DEFINE l == IF Tail(log) = <<>> THEN "idle" ELSE "home"
<1>1. TypeOK /\ st[Worker].pc = "advance" /\ Goto(Worker, l) /\ log # <<>> /\ jlock = Worker
  BY DEF WorkerAdvance, IInv, Committed, Locks, Txn
<1>2. /\ log' = Tail(log) /\ jlock' = (IF Tail(log) = <<>> THEN Nobody ELSE jlock)
      /\ UNCHANGED <<ver, dirty, lock, ilock, joined, map, attr, dbuf, ibuf, bdirty,
                     ddisk, idisk, merr, ghost, faults>>
  BY DEF WorkerAdvance, pages, inode, buffers
<1>3. /\ st' \in [Task -> TaskType] /\ \A u \in Task : u # Worker => st'[u] = st[u]
      /\ st'[Worker].pc = l /\ st'[Worker].page = st[Worker].page
  BY <1>1, MoveOn DEF Pcs, Txn
<1>4. /\ log' \in Seq(ImageType) /\ Len(log') = Len(log) - 1 /\ Len(log) \in Nat \ {0}
      /\ \A k \in 1 .. Len(log') : k + 1 \in 1 .. Len(log) /\ log'[k] = log[k + 1]
  BY <1>1, <1>2 DEF TypeOK
<1>5. ~joined /\ (log' = <<>> => l = "idle" /\ jlock' = Nobody) /\ (log' # <<>> => l = "home" /\ jlock' = Worker)
  BY <1>1, <1>2 DEF IInv, Committed
<1> HIDE DEF l
<1>6. /\ log' # <<>> => log'[Len(log')] = log[Len(log)] /\ 1 \in 1 .. Len(log')
      /\ log' = <<>> => Len(log) = 1
  BY <1>4
<1>7. TypeOK'
  BY <1>1, <1>2, <1>3, <1>4, <1>5, <1>6 DEF IInv, TypeOK
<1>8. Places'
  BY <1>1, <1>2, <1>3, <1>4, <1>5, <1>6 DEF IInv, Places, Txn, OnPage
<1>9. Locks'
  BY <1>1, <1>2, <1>3, <1>4, <1>5, <1>6 DEF IInv, Places, Locks, Txn, OnPage
<1>10. Values'
  BY <1>1, <1>2, <1>3, <1>4, <1>5, <1>6, Numbers DEF IInv, Places, Values, Locks, OnPage
<1>11. Ordered'
  BY <1>1, <1>2, <1>3, <1>4, <1>5, <1>6, Numbers DEF IInv, Ordered, Values
<1>12. Committed'
  BY <1>1, <1>2, <1>3, <1>4, <1>5, <1>6 DEF IInv, Committed, Settled, Recovered, Values, Places, Locks, Txn, OnPage
<1>13. Told'
  BY <1>1, <1>2, <1>3, <1>4, <1>5, <1>6, Numbers DEF IInv, Synced, Told, Values
<1>14. SyncedDataOnDevice'
  BY <1>1, <1>2, <1>3, <1>4, <1>5, <1>6, Numbers DEF IInv, Synced, SyncedDataOnDevice, ErrorReachesFsync
<1>15. Outstanding'
  BY <1>1, <1>2, <1>3, <1>4, <1>5, <1>6, Numbers DEF IInv, Synced, Outstanding, Landed
<1>16. Covered'
  BY <1>1, <1>2, <1>3, <1>4, <1>5, <1>6, Numbers DEF IInv, Synced, Covered, Awaited, Landed, InBuffer, Flushing, Txn
<1>17. Passed'
  BY <1>1, <1>2, <1>3, <1>4, <1>5, <1>6, Numbers DEF IInv, Synced, Passed, Landed, InBuffer
<1>. QED
  BY <1>7, <1>8, <1>9, <1>10, <1>11, <1>12, <1>13, <1>14, <1>15, <1>16, <1>17 DEF IInv, Synced

LEMMA WritebackStep == ASSUME IInv, NEW b \in Page \cup {InodeBlock}, Writeback(b) PROVE IInv'
<1> USE DEF Task, Batch, Flusher, Syncer, Kswapd, Writer, Worker, Nobody, Cleaner
<1>1. TypeOK /\ b \in bdirty /\ InodeBlock \notin Page
  BY Distinct DEF Writeback, IInv
<1>2. /\ bdirty' = bdirty \ {b}
      /\ UNCHANGED <<ver, dirty, lock, ilock, jlock, joined, map, attr, dbuf, ibuf, log, merr, st, ghost, faults>>
  BY DEF Writeback, pages, inode
<1>3. /\ ddisk' \in Versions /\ idisk' \in ImageType
      /\ \A q \in Page : IF q = b THEN ddisk'[q] = dbuf[q] ELSE ddisk'[q] = ddisk[q]
      /\ IF b = InodeBlock THEN idisk' = ibuf ELSE idisk' = idisk
  <2>1. CASE b = InodeBlock
    BY <1>1, <2>1 DEF Writeback, TypeOK
  <2>2. CASE b # InodeBlock
    <3>1. ddisk' = [ddisk EXCEPT ![b] = dbuf[b]] /\ idisk' = idisk /\ b \in Page
      BY <2>2 DEF Writeback
    <3>. QED  BY <1>1, <2>2, <3>1 DEF TypeOK, Versions
  <2>. QED  BY <2>1, <2>2
<1>4. /\ \A q \in Page : ddisk'[q] \in Nat /\ ddisk[q] <= ddisk'[q] /\ ddisk'[q] <= dbuf[q]
      /\ \A k \in 1 .. Len(log) : log[k].map \subseteq Page
  <2>1. map \subseteq Page /\ \A q \in Page : ddisk[q] <= dbuf[q]
    BY <1>1 DEF IInv, Values, TypeOK
  <2>2. \A k \in 1 .. Len(log) : log[k].map \subseteq Page
    BY <2>1 DEF IInv, Values
  <2>. QED  BY <1>1, <1>3, <2>1, <2>2, Numbers
<1>5. TypeOK'
  BY <1>1, <1>2, <1>3, <1>4 DEF IInv, TypeOK
<1>6. Places'
  BY <1>1, <1>2, <1>3, <1>4 DEF IInv, Places, Txn, OnPage
<1>7. Locks'
  BY <1>1, <1>2, <1>3, <1>4 DEF IInv, Places, Locks, Txn, OnPage
<1>8. Values'
  BY <1>1, <1>2, <1>3, <1>4, Numbers DEF IInv, Places, Values, Locks, OnPage
<1>9. Ordered'
  BY <1>1, <1>2, <1>3, <1>4, Numbers DEF IInv, Ordered, Values
<1>10. Committed'
  BY <1>1, <1>2, <1>3, <1>4 DEF IInv, Committed, Settled, Recovered, Values, Places, Locks, Txn, OnPage
<1>11. Told'
  BY <1>1, <1>2, <1>3, <1>4, Numbers DEF IInv, Synced, Told, Values
<1>12. SyncedDataOnDevice'
  BY <1>1, <1>2, <1>3, <1>4, Numbers DEF IInv, Synced, SyncedDataOnDevice, ErrorReachesFsync
<1>13. Outstanding'
  BY <1>1, <1>2, <1>3, <1>4, Numbers DEF IInv, Synced, Outstanding, Landed
<1>14. Covered'
  <2> SUFFICES ASSUME ~ghost.dropped, ~merr, st[Syncer].pc \in Txn \cup {"wait"}, NEW q \in Page
               PROVE  Awaited(q)'
    BY <1>1, <1>2, <1>3, <1>4 DEF Covered
  <2>1. Awaited(q)
    BY DEF IInv, Synced, Covered
  <2>2. CASE q = b
    BY <1>1, <1>2, <1>3, <1>4, <2>1, <2>2, Numbers DEF Awaited, Landed, Flushing, InBuffer
  <2>3. CASE q # b
    BY <1>1, <1>2, <1>3, <1>4, <2>1, <2>3 DEF Awaited, Landed, Flushing, InBuffer
  <2>. QED  BY <2>2, <2>3
<1>15. Passed'
  BY <1>1, <1>2, <1>3, <1>4, Numbers DEF IInv, Synced, Passed, Landed, InBuffer
<1>. QED
  BY <1>5, <1>6, <1>7, <1>8, <1>9, <1>10, <1>11, <1>12, <1>13, <1>14, <1>15 DEF IInv, Synced

LEMMA PageDataReclaimStep == ASSUME IInv, PageData(Kswapd) PROVE IInv'
<1> USE DEF Task, Batch, Flusher, Syncer, Kswapd, Writer, Worker, Nobody, Cleaner
<1> DEFINE p == st[Kswapd].page
<1>1. /\ TypeOK /\ st[Kswapd].pc = "data" /\ Goto(Kswapd, "inode_block")
      /\ p \in Page /\ lock[p] = Kswapd /\ st[Kswapd].page = p
  BY DEF PageData, IInv, Places, Locks, OnPage
<1>2. /\ dbuf' = [dbuf EXCEPT ![p] = ver[p]] /\ ddisk' = [ddisk EXCEPT ![p] = ver[p]]
      /\ bdirty' = bdirty \ {p}
      /\ UNCHANGED <<ver, dirty, lock, ilock, jlock, joined, map, attr, ibuf, idisk, log,
                     merr, ghost, faults>>
  BY DEF PageData, pages, inode
<1>3. /\ st' \in [Task -> TaskType] /\ \A u \in Task : u # Kswapd => st'[u] = st[u]
      /\ st'[Kswapd].pc = "inode_block" /\ st'[Kswapd].page = p /\ st'[Kswapd].todo = st[Kswapd].todo
      /\ st'[Kswapd].wrote = st[Kswapd].wrote /\ st'[Kswapd].err = st[Kswapd].err
  BY <1>1, MoveOn DEF Pcs, Txn
<1> HIDE DEF p
<1>4. \A u \in Task : u # Kswapd => st[u].pc \notin Txn
  BY <1>1 DEF IInv, Locks, Txn
<1>5. /\ dbuf' \in Versions /\ dbuf'[p] = ver[p] /\ ddisk' \in Versions /\ ddisk'[p] = ver[p]
      /\ \A q \in Page : q # p => dbuf'[q] = dbuf[q] /\ ddisk'[q] = ddisk[q]
  BY <1>1, <1>2 DEF TypeOK, Versions
<1>6. /\ ddisk[p] <= ver[p] /\ dbuf[p] <= ver[p] /\ p \in map /\ ver[p] # 0
      /\ InodeBlock \notin Page /\ \A k \in 1 .. Len(log) : log[k].map \subseteq Page
  <2>1. ddisk[p] <= dbuf[p] /\ dbuf[p] <= ver[p] /\ p \in map /\ ver[p] # 0 /\ map \subseteq Page
    BY <1>1 DEF IInv, Values, TypeOK
  <2>2. \A k \in 1 .. Len(log) : log[k].map \subseteq Page
    BY <2>1 DEF IInv, Values
  <2>. QED  BY <1>1, <2>1, <2>2, Numbers, Distinct
<1>7. TypeOK'
  BY <1>1, <1>2, <1>3, <1>4, <1>5, <1>6 DEF IInv, TypeOK
<1>8. Places'
  BY <1>1, <1>2, <1>3, <1>4, <1>5, <1>6 DEF IInv, Places, Txn, OnPage
<1>9. Locks'
  BY <1>1, <1>2, <1>3, <1>4, <1>5, <1>6 DEF IInv, Places, Locks, Txn, OnPage
<1>10. Values'
  BY <1>1, <1>2, <1>3, <1>4, <1>5, <1>6, Numbers DEF IInv, Places, Values, Locks, OnPage, Txn
<1>11. Ordered'
  BY <1>1, <1>2, <1>3, <1>4, <1>5, <1>6, Numbers DEF IInv, Ordered, Values, Txn
<1>12. Committed'
  BY <1>1, <1>2, <1>3, <1>4, <1>5, <1>6 DEF IInv, Committed, Settled, Recovered, Values, Places, Locks, Txn, OnPage
<1>13. Told'
  BY <1>1, <1>2, <1>3, <1>4, <1>5, <1>6, Numbers DEF IInv, Synced, Told, Values
<1>14. SyncedDataOnDevice'
  BY <1>1, <1>2, <1>3, <1>4, <1>5, <1>6, Numbers DEF IInv, Synced, SyncedDataOnDevice, ErrorReachesFsync, Values
<1>15. Outstanding'
  BY <1>1, <1>2, <1>3, <1>4, <1>5, <1>6, Numbers DEF IInv, Synced, Outstanding, Landed
<1>16. Covered'
  BY <1>1, <1>2, <1>3, <1>4, <1>5, <1>6, Numbers DEF IInv, Synced, Covered, Awaited, Landed, InBuffer, Flushing, Txn
<1>17. Passed'
  BY <1>1, <1>2, <1>3, <1>4, <1>5, <1>6, Numbers DEF IInv, Synced, Passed, Landed, InBuffer
<1>. QED
  BY <1>7, <1>8, <1>9, <1>10, <1>11, <1>12, <1>13, <1>14, <1>15, <1>16, <1>17 DEF IInv, Synced

LEMMA PageDataBatchStep == ASSUME IInv, NEW t \in Batch, PageData(t) PROVE IInv'
<1> USE DEF Task, Batch, Flusher, Syncer, Kswapd, Writer, Worker, Nobody, Cleaner
<1> DEFINE p == st[t].page
<1>1. /\ TypeOK /\ st[t].pc = "data" /\ Goto(t, "inode_block")
      /\ p \in Page /\ lock[p] = t /\ st[t].page = p
  BY DEF PageData, IInv, Places, Locks, OnPage
<1>2. /\ dbuf' = [dbuf EXCEPT ![p] = ver[p]] /\ bdirty' = bdirty \cup {p}
      /\ UNCHANGED <<ver, dirty, lock, ilock, jlock, joined, map, attr, ibuf, ddisk, idisk, log,
                     merr, ghost, faults>>
  BY DEF PageData, pages, inode
<1>3. /\ st' \in [Task -> TaskType] /\ \A u \in Task : u # t => st'[u] = st[u]
      /\ st'[t].pc = "inode_block" /\ st'[t].page = p /\ st'[t].todo = st[t].todo
      /\ st'[t].wrote = st[t].wrote /\ st'[t].err = st[t].err
  BY <1>1, MoveOn DEF Pcs, Txn
<1> HIDE DEF p
<1>4. \A u \in Task : u # t => st[u].pc \notin Txn
  BY <1>1 DEF IInv, Locks, Txn
<1>5. /\ dbuf' \in Versions /\ dbuf'[p] = ver[p]
      /\ \A q \in Page : q # p => dbuf'[q] = dbuf[q]
  BY <1>1, <1>2 DEF TypeOK, Versions
<1>6. ddisk[p] <= ver[p] /\ dbuf[p] <= ver[p] /\ p \in map /\ ver[p] # 0 /\ InodeBlock \notin Page
  <2>1. ddisk[p] <= dbuf[p] /\ dbuf[p] <= ver[p] /\ p \in map /\ ver[p] # 0
    BY <1>1 DEF IInv, Values
  <2>. QED  BY <1>1, <2>1, Numbers, Distinct
<1>7. TypeOK'
  BY <1>1, <1>2, <1>3, <1>4, <1>5, <1>6 DEF IInv, TypeOK
<1>8. Places'
  BY <1>1, <1>2, <1>3, <1>4, <1>5, <1>6 DEF IInv, Places, Txn, OnPage
<1>9. Locks'
  BY <1>1, <1>2, <1>3, <1>4, <1>5, <1>6 DEF IInv, Places, Locks, Txn, OnPage
<1>10. Values'
  BY <1>1, <1>2, <1>3, <1>4, <1>5, <1>6, Numbers DEF IInv, Places, Values, Locks, OnPage, Txn
<1>11. Ordered'
  BY <1>1, <1>2, <1>3, <1>4, <1>5, <1>6, Numbers DEF IInv, Ordered, Values, Txn
<1>12. Committed'
  BY <1>1, <1>2, <1>3, <1>4, <1>5, <1>6 DEF IInv, Committed, Settled, Recovered, Values, Places, Locks, Txn, OnPage
<1>13. Told'
  BY <1>1, <1>2, <1>3, <1>4, <1>5, <1>6, Numbers DEF IInv, Synced, Told, Values
<1>14. SyncedDataOnDevice'
  BY <1>1, <1>2, <1>3, <1>4, <1>5, <1>6, Numbers DEF IInv, Synced, SyncedDataOnDevice, ErrorReachesFsync
<1>15. Outstanding'
  BY <1>1, <1>2, <1>3, <1>4, <1>5, <1>6, Numbers DEF IInv, Synced, Outstanding, Landed
<1>16. Covered'
  <2> SUFFICES ASSUME ~ghost.dropped, ~merr, st[Syncer].pc \in Txn \cup {"wait"}, NEW q \in Page
               PROVE  Awaited(q)'
    BY <1>1, <1>2, <1>3, <1>4, <1>5, <1>6 DEF Covered, Txn
  <2>1. Awaited(q)
    BY DEF IInv, Synced, Covered
  <2>2. CASE t = Syncer
    <3>1. st[Syncer].pc # "wait" /\ st'[Syncer].pc \in Txn
      BY <1>1, <1>3, <2>2 DEF Txn
    <3>. QED  BY <1>1, <1>2, <1>3, <1>4, <1>5, <1>6, <2>1, <2>2, <3>1 DEF Awaited, Landed, InBuffer
  <2>3. CASE t # Syncer
    BY <1>1, <1>2, <1>3, <1>4, <1>5, <1>6, <2>1, <2>3 DEF Awaited, Landed, Flushing, InBuffer
  <2>. QED  BY <2>2, <2>3
<1>17. Passed'
  BY <1>1, <1>2, <1>3, <1>4, <1>5, <1>6, Numbers DEF IInv, Synced, Passed, Landed, InBuffer
<1>. QED
  BY <1>7, <1>8, <1>9, <1>10, <1>11, <1>12, <1>13, <1>14, <1>15, <1>16, <1>17 DEF IInv, Synced

LEMMA PageInodeReclaimStep == ASSUME IInv, PageInode(Kswapd) PROVE IInv'
<1> USE DEF Task, Batch, Flusher, Syncer, Kswapd, Writer, Worker, Nobody, Cleaner
<1> DEFINE p == st[Kswapd].page
<1>1. /\ TypeOK /\ st[Kswapd].pc = "inode_block" /\ Goto(Kswapd, "barrier")
      /\ p \in Page /\ lock[p] = Kswapd /\ st[Kswapd].page = p /\ jlock = Kswapd
  BY DEF PageInode, IInv, Places, Locks, OnPage, Txn
<1>2. /\ ibuf' = [map |-> map, attr |-> attr] /\ bdirty' = bdirty \cup {InodeBlock} /\ joined' = TRUE
      /\ UNCHANGED <<ver, dirty, lock, ilock, jlock, map, attr, dbuf, ddisk, idisk, log,
                     merr, ghost, faults>>
  BY <1>1 DEF PageInode, WriteInode, Image, inode, device
<1>3. /\ st' \in [Task -> TaskType] /\ \A u \in Task : u # Kswapd => st'[u] = st[u]
      /\ st'[Kswapd].pc = "barrier" /\ st'[Kswapd].page = p /\ st'[Kswapd].todo = st[Kswapd].todo
      /\ st'[Kswapd].wrote = st[Kswapd].wrote /\ st'[Kswapd].err = st[Kswapd].err
  BY <1>1, MoveOn DEF Pcs, Txn
<1> HIDE DEF p
<1>4. \A u \in Task : u # Kswapd => st[u].pc \notin Txn
  BY <1>1 DEF IInv, Locks, Txn
<1>5. ibuf' \in ImageType /\ ibuf'.map = map /\ InodeBlock \notin Page
  BY <1>1, <1>2, Distinct DEF TypeOK, ImageType
<1>6. TypeOK'
  BY <1>1, <1>2, <1>3, <1>4, <1>5 DEF IInv, TypeOK
<1>7. Places'
  BY <1>1, <1>2, <1>3, <1>4, <1>5 DEF IInv, Places, Txn, OnPage
<1>8. Locks'
  BY <1>1, <1>2, <1>3, <1>4, <1>5 DEF IInv, Places, Locks, Txn, OnPage
<1>9. Values'
  BY <1>1, <1>2, <1>3, <1>4, <1>5, Numbers DEF IInv, Places, Values, Locks, OnPage
<1>10. Ordered'
  BY <1>1, <1>2, <1>3, <1>4, <1>5, Numbers DEF IInv, Ordered, Values
<1>11. Committed'
  BY <1>1, <1>2, <1>3, <1>4, <1>5 DEF IInv, Committed, Settled, Recovered, Values, Places, Locks, Txn, OnPage
<1>12. Told'
  BY <1>1, <1>2, <1>3, <1>4, <1>5, Numbers DEF IInv, Synced, Told, Values
<1>13. SyncedDataOnDevice'
  BY <1>1, <1>2, <1>3, <1>4, <1>5, Numbers DEF IInv, Synced, SyncedDataOnDevice, ErrorReachesFsync
<1>14. Outstanding'
  BY <1>1, <1>2, <1>3, <1>4, <1>5, Numbers DEF IInv, Synced, Outstanding, Landed
<1>15. Covered'
  BY <1>1, <1>2, <1>3, <1>4, <1>5, Numbers DEF IInv, Synced, Covered, Awaited, Landed, InBuffer, Flushing, Txn
<1>16. Passed'
  BY <1>1, <1>2, <1>3, <1>4, <1>5, Numbers DEF IInv, Synced, Passed, Landed, InBuffer
<1>. QED
  BY <1>6, <1>7, <1>8, <1>9, <1>10, <1>11, <1>12, <1>13, <1>14, <1>15, <1>16 DEF IInv, Synced

LEMMA PageInodeBatchStep == ASSUME IInv, NEW t \in Batch, PageInode(t) PROVE IInv'
<1> USE DEF Task, Batch, Flusher, Syncer, Kswapd, Writer, Worker, Nobody, Cleaner
<1> DEFINE p == st[t].page
<1>1. /\ TypeOK /\ st[t].pc = "inode_block" /\ p \in Page /\ lock[p] = t /\ st[t].page = p /\ jlock = t
  BY DEF PageInode, IInv, Places, Locks, OnPage, Txn
<1>2. /\ ibuf' = [map |-> map, attr |-> attr] /\ bdirty' = bdirty \cup {InodeBlock} /\ joined' = TRUE
      /\ lock' = [lock EXCEPT ![p] = Nobody]
      /\ st' = [st EXCEPT ![t].pc = "pages", ![t].page = NoPage, ![t].wrote = TRUE]
      /\ UNCHANGED <<ver, dirty, ilock, jlock, map, attr, dbuf, ddisk, idisk, log, merr, ghost, faults>>
  BY <1>1 DEF PageInode, WriteInode, Image, inode, device
<1> HIDE DEF p
<1>3. /\ st' \in [Task -> TaskType] /\ \A u \in Task : u # t => st'[u] = st[u]
      /\ st'[t].pc = "pages" /\ st'[t].page = NoPage /\ st'[t].todo = st[t].todo
      /\ st'[t].wrote /\ st'[t].err = st[t].err
  <2> DEFINE r == [st[t] EXCEPT !.pc = "pages", !.page = NoPage, !.wrote = TRUE]
  <2>1. st[t] \in TaskType /\ st' = [st EXCEPT ![t] = r]
    BY <1>1, <1>2, Zenon DEF TypeOK
  <2>2. r \in TaskType
    BY <2>1 DEF TaskType, Pcs, Txn
  <2>3. r.pc = "pages" /\ r.page = NoPage /\ r.todo = st[t].todo /\ r.wrote /\ r.err = st[t].err
    BY <2>1 DEF TaskType
  <2> HIDE DEF r
  <2>. QED  BY <1>1, <2>1, <2>2, <2>3, MoveTo
<1>4. \A u \in Task : u # t => st[u].pc \notin Txn
  BY <1>1 DEF IInv, Locks, Txn
<1>5. ibuf' \in ImageType /\ ibuf'.map = map /\ InodeBlock \notin Page /\ NoPage \notin Page
  BY <1>1, <1>2, Distinct DEF TypeOK, ImageType
<1>6. /\ lock' \in [Page -> Task \cup {Nobody}] /\ lock'[p] = Nobody
      /\ \A q \in Page : q # p => lock'[q] = lock[q]
  BY <1>1, <1>2 DEF TypeOK
<1>7. dbuf[p] = ver[p] /\ p \in map
  BY <1>1 DEF IInv, Values
<1>8. TypeOK'
  BY <1>1, <1>2, <1>3, <1>4, <1>5, <1>6, <1>7 DEF IInv, TypeOK
<1>9. Places'
  BY <1>1, <1>2, <1>3, <1>4, <1>5, <1>6, <1>7 DEF IInv, Places, Txn, OnPage
<1>10. Locks'
  BY <1>1, <1>2, <1>3, <1>4, <1>5, <1>6, <1>7 DEF IInv, Places, Locks, Txn, OnPage
<1>11. Values'
  BY <1>1, <1>2, <1>3, <1>4, <1>5, <1>6, <1>7, Numbers DEF IInv, Places, Values, Locks, OnPage
<1>12. Ordered'
  BY <1>1, <1>2, <1>3, <1>4, <1>5, <1>6, <1>7, Numbers DEF IInv, Ordered, Values
<1>13. Committed'
  BY <1>1, <1>2, <1>3, <1>4, <1>5, <1>6, <1>7 DEF IInv, Committed, Settled, Recovered, Values, Places, Locks, Txn, OnPage
<1>14. Told'
  BY <1>1, <1>2, <1>3, <1>4, <1>5, <1>6, <1>7, Numbers DEF IInv, Synced, Told, Values
<1>15. SyncedDataOnDevice'
  BY <1>1, <1>2, <1>3, <1>4, <1>5, <1>6, <1>7, Numbers DEF IInv, Synced, SyncedDataOnDevice, ErrorReachesFsync
<1>16. Outstanding'
  BY <1>1, <1>2, <1>3, <1>4, <1>5, <1>6, <1>7, Numbers DEF IInv, Synced, Outstanding, Landed
<1>17. Covered'
  <2> SUFFICES ASSUME ~ghost.dropped, ~merr, st[Syncer].pc \in Txn \cup {"wait"}, NEW q \in Page
               PROVE  Awaited(q)'
    BY <1>1, <1>2, <1>3, <1>4, <1>5, <1>6, <1>7 DEF Covered, Txn
  <2>1. Awaited(q)
    BY DEF IInv, Synced, Covered
  <2>2. Landed(p, ghost.want.data[p]) \/ (p \in bdirty' /\ ghost.want.data[p] <= dbuf'[p])
    <3>1. Landed(p, dbuf[p]) \/ p \in bdirty
      BY <1>1 DEF IInv, Synced, Outstanding
    <3>2. ghost.want.data[p] <= dbuf[p]
      BY <1>1, <1>7 DEF IInv, Synced, Told
    <3>. QED  BY <1>1, <1>2, <3>1, <3>2, Numbers DEF Landed
  <2>3. CASE t = Syncer
    <3>1. st[Syncer].pc # "wait" /\ st'[Syncer].pc \in Txn
      BY <1>1, <1>3, <2>3 DEF Txn
    <3>. QED  BY <1>1, <1>2, <1>3, <1>4, <1>5, <1>6, <1>7, <2>1, <2>2, <2>3, <3>1 DEF Awaited, Landed, InBuffer
  <2>4. CASE t = Flusher
    <3>1. CASE st[Syncer].pc = "wait" /\ Flushing(q)
      <4>1. \A x \in st'[Flusher].todo : lock'[x] = Kswapd
        BY <1>1, <1>3, <1>6, <2>4, <3>1 DEF Flushing, TypeOK, TaskType
      <4>2. Landed(q, ghost.want.data[q]) \/ (q \in bdirty' /\ ghost.want.data[q] <= dbuf'[q])
        BY <1>1, <1>2, <2>2, <2>4, <3>1 DEF Flushing, InBuffer
      <4>. QED  BY <1>1, <1>2, <1>3, <1>4, <1>5, <1>6, <1>7, <2>4, <3>1, <4>1, <4>2 DEF Awaited, Landed, Flushing, InBuffer
    <3>2. CASE ~(st[Syncer].pc = "wait" /\ Flushing(q))
      BY <1>1, <1>2, <1>3, <1>4, <1>5, <1>6, <1>7, <2>1, <2>4, <3>2 DEF Awaited, Landed, InBuffer
    <3>. QED  BY <3>1, <3>2
  <2>. QED  BY <2>3, <2>4
<1>18. Passed'
  BY <1>1, <1>2, <1>3, <1>4, <1>5, <1>6, <1>7, Numbers DEF IInv, Synced, Passed, Landed, InBuffer
<1>. QED
  BY <1>8, <1>9, <1>10, <1>11, <1>12, <1>13, <1>14, <1>15, <1>16, <1>17, <1>18 DEF IInv, Synced

LEMMA PageFailsAbortedStep == ASSUME IInv, NEW t \in {Flusher, Kswapd}, PageFails(t) PROVE IInv'
<1> USE DEF Task, Batch, Flusher, Syncer, Kswapd, Writer, Worker, Nobody, Cleaner
<1> DEFINE p == st[t].page
<1>1. /\ TypeOK /\ st[t].pc \in OnPage /\ p \in Page /\ lock[p] = t /\ st[t].page = p /\ jlock = t
  BY DEF PageFails, IInv, Places, Locks, OnPage, Txn
<1>2. /\ lock' = [lock EXCEPT ![p] = Nobody] /\ dirty' = dirty \cup {p} /\ merr' = TRUE
      /\ st' = [st EXCEPT ![t] = Idle] /\ jlock' = Nobody /\ joined' = FALSE
      /\ ghost' = [ghost EXCEPT !.failed = TRUE] /\ faults' = faults + 1
      /\ UNCHANGED <<ver, ilock, map, attr, dbuf, ibuf, bdirty, ddisk, idisk, log>>
  BY <1>1 DEF PageFails, GiveUpPage, inode, buffers, device
<1>3. st' \in [Task -> TaskType] /\ st'[t] = Idle /\ \A u \in Task : u # t => st'[u] = st[u]
  BY <1>1, <1>2, IdleType, MoveTo
<1> HIDE DEF p
<1>4. (\A u \in Task : u # t => st[u].pc \notin Txn) /\ faults' \in Nat
  BY <1>1, <1>2 DEF IInv, Locks, Txn, TypeOK
<1>5. /\ lock' \in [Page -> Task \cup {Nobody}] /\ lock'[p] = Nobody
      /\ \A q \in Page : q # p => lock'[q] = lock[q]
  BY <1>1, <1>2 DEF TypeOK
<1>6. /\ ghost' \in GhostType /\ ghost'.writes = ghost.writes /\ ghost'.want = ghost.want
      /\ ghost'.told = ghost.told /\ ghost'.synced = ghost.synced
      /\ ghost'.failed /\ ghost'.dropped = ghost.dropped
  BY <1>1, <1>2 DEF TypeOK, GhostType
<1>7. ver[p] # 0 /\ NoPage \notin Page
  BY <1>1, Distinct DEF IInv, Values
<1>8. TypeOK'
  BY <1>1, <1>2, <1>3, <1>4, <1>5, <1>6, <1>7 DEF IInv, TypeOK, Idle
<1>9. Places'
  BY <1>1, <1>2, <1>3, <1>4, <1>5, <1>6, <1>7 DEF IInv, Places, Txn, OnPage, Idle
<1>10. Locks'
  BY <1>1, <1>2, <1>3, <1>4, <1>5, <1>6, <1>7 DEF IInv, Places, Locks, Txn, OnPage, Idle
<1>11. Values'
  BY <1>1, <1>2, <1>3, <1>4, <1>5, <1>6, <1>7, Numbers DEF IInv, Places, Values, Locks, OnPage, Idle
<1>12. Ordered'
  BY <1>1, <1>2, <1>3, <1>4, <1>5, <1>6, <1>7, Numbers DEF IInv, Ordered, Values, Idle
<1>13. Committed'
  BY <1>1, <1>2, <1>3, <1>4, <1>5, <1>6, <1>7 DEF IInv, Committed, Settled, Recovered, Values, Places, Locks, Txn, OnPage, Idle
<1>14. Told'
  BY <1>1, <1>2, <1>3, <1>4, <1>5, <1>6, <1>7, Numbers DEF IInv, Synced, Told, Values, Idle
<1>15. SyncedDataOnDevice'
  BY <1>1, <1>2, <1>3, <1>4, <1>5, <1>6, <1>7, Numbers DEF IInv, Synced, SyncedDataOnDevice, ErrorReachesFsync, Idle
<1>16. Outstanding'
  BY <1>1, <1>2, <1>3, <1>4, <1>5, <1>6, <1>7, Numbers DEF IInv, Synced, Outstanding, Landed, Idle
<1>17. Covered'
  BY <1>1, <1>2, <1>3, <1>4, <1>5, <1>6, <1>7, Numbers DEF IInv, Synced, Covered, Awaited, Landed, InBuffer, Flushing, Txn, Idle
<1>18. Passed'
  BY <1>1, <1>2, <1>3, <1>4, <1>5, <1>6, <1>7 DEF IInv, Synced, Passed, Landed, InBuffer, OnPage, Txn, Idle
<1>. QED
  BY <1>8, <1>9, <1>10, <1>11, <1>12, <1>13, <1>14, <1>15, <1>16, <1>17, <1>18 DEF IInv, Synced

LEMMA PageFailsSyncerStep == ASSUME IInv, PageFails(Syncer) PROVE IInv'
<1> USE DEF Task, Batch, Flusher, Syncer, Kswapd, Writer, Worker, Nobody, Cleaner
<1> DEFINE p == st[Syncer].page
<1>1. /\ TypeOK /\ st[Syncer].pc \in OnPage /\ p \in Page /\ lock[p] = Syncer /\ st[Syncer].page = p
      /\ jlock = Syncer
  BY DEF PageFails, IInv, Places, Locks, OnPage, Txn
<1>2. /\ lock' = [lock EXCEPT ![p] = Nobody] /\ dirty' = dirty \cup {p} /\ merr' = TRUE
      /\ st' = [st EXCEPT ![Syncer].pc = "pages", ![Syncer].page = NoPage, ![Syncer].err = TRUE]
      /\ ghost' = [ghost EXCEPT !.failed = TRUE] /\ faults' = faults + 1
      /\ UNCHANGED <<ver, ilock, jlock, joined, map, attr, dbuf, ibuf, bdirty, ddisk, idisk, log>>
  BY <1>1 DEF PageFails, GiveUpPage, inode, buffers, device
<1>3. /\ st' \in [Task -> TaskType] /\ \A u \in Task : u # Syncer => st'[u] = st[u]
      /\ st'[Syncer].pc = "pages" /\ st'[Syncer].page = NoPage /\ st'[Syncer].todo = st[Syncer].todo
      /\ st'[Syncer].wrote = st[Syncer].wrote /\ st'[Syncer].err
  <2> DEFINE r == [st[Syncer] EXCEPT !.pc = "pages", !.page = NoPage, !.err = TRUE]
  <2>1. st[Syncer] \in TaskType /\ st' = [st EXCEPT ![Syncer] = r]
    BY <1>1, <1>2, Zenon DEF TypeOK
  <2>2. r \in TaskType
    BY <2>1 DEF TaskType, Pcs, Txn
  <2>3. r.pc = "pages" /\ r.page = NoPage /\ r.todo = st[Syncer].todo /\ r.wrote = st[Syncer].wrote /\ r.err
    BY <2>1 DEF TaskType
  <2> HIDE DEF r
  <2>. QED  BY <1>1, <2>1, <2>2, <2>3, MoveTo
<1> HIDE DEF p
<1>4. (\A u \in Task : u # Syncer => st[u].pc \notin Txn) /\ faults' \in Nat
  BY <1>1, <1>2 DEF IInv, Locks, Txn, TypeOK
<1>5. /\ lock' \in [Page -> Task \cup {Nobody}] /\ lock'[p] = Nobody
      /\ \A q \in Page : q # p => lock'[q] = lock[q]
  BY <1>1, <1>2 DEF TypeOK
<1>6. /\ ghost' \in GhostType /\ ghost'.writes = ghost.writes /\ ghost'.want = ghost.want
      /\ ghost'.told = ghost.told /\ ghost'.synced = ghost.synced
      /\ ghost'.failed /\ ghost'.dropped = ghost.dropped
  BY <1>1, <1>2 DEF TypeOK, GhostType
<1>7. ver[p] # 0 /\ NoPage \notin Page
  BY <1>1, Distinct DEF IInv, Values
<1>8. TypeOK'
  BY <1>1, <1>2, <1>3, <1>4, <1>5, <1>6, <1>7 DEF IInv, TypeOK
<1>9. Places'
  BY <1>1, <1>2, <1>3, <1>4, <1>5, <1>6, <1>7 DEF IInv, Places, Txn, OnPage
<1>10. Locks'
  BY <1>1, <1>2, <1>3, <1>4, <1>5, <1>6, <1>7 DEF IInv, Places, Locks, Txn, OnPage
<1>11. Values'
  BY <1>1, <1>2, <1>3, <1>4, <1>5, <1>6, <1>7, Numbers DEF IInv, Places, Values, Locks, OnPage
<1>12. Ordered'
  BY <1>1, <1>2, <1>3, <1>4, <1>5, <1>6, <1>7, Numbers DEF IInv, Ordered, Values
<1>13. Committed'
  BY <1>1, <1>2, <1>3, <1>4, <1>5, <1>6, <1>7 DEF IInv, Committed, Settled, Recovered, Values, Places, Locks, Txn, OnPage
<1>14. Told'
  BY <1>1, <1>2, <1>3, <1>4, <1>5, <1>6, <1>7, Numbers DEF IInv, Synced, Told, Values
<1>15. SyncedDataOnDevice'
  BY <1>1, <1>2, <1>3, <1>4, <1>5, <1>6, <1>7, Numbers DEF IInv, Synced, SyncedDataOnDevice, ErrorReachesFsync
<1>16. Outstanding'
  BY <1>1, <1>2, <1>3, <1>4, <1>5, <1>6, <1>7, Numbers DEF IInv, Synced, Outstanding, Landed
<1>17. Covered'
  BY <1>1, <1>2, <1>3, <1>4, <1>5, <1>6, <1>7, Numbers DEF IInv, Synced, Covered, Awaited, Landed, InBuffer, Flushing, Txn
<1>18. Passed'
  BY <1>1, <1>2, <1>3, <1>4, <1>5, <1>6, <1>7, Numbers DEF IInv, Synced, Passed, Landed, InBuffer
<1>. QED
  BY <1>8, <1>9, <1>10, <1>11, <1>12, <1>13, <1>14, <1>15, <1>16, <1>17, <1>18 DEF IInv, Synced

LEMMA LostReclaimStep == ASSUME IInv, TransactionLost(Kswapd), st[Kswapd].pc \in {"barrier", "commit"},
         bdirty' \in SUBSET bdirty, faults' = faults + 1 PROVE IInv'
<1> USE DEF Task, Batch, Flusher, Syncer, Kswapd, Writer, Worker, Nobody, Cleaner
<1> DEFINE p == st[Kswapd].page
<1>1. /\ TypeOK /\ st[Kswapd].pc \in {"barrier", "commit"} /\ p \in Page /\ lock[p] = Kswapd
      /\ st[Kswapd].page = p /\ jlock = Kswapd /\ bdirty' \subseteq bdirty
  BY DEF IInv, Places, Locks, OnPage, Txn
<1>2. /\ lock' = [lock EXCEPT ![p] = Nobody] /\ dirty' = dirty \cup {p} /\ merr' = TRUE
      /\ st' = [st EXCEPT ![Kswapd] = Idle] /\ jlock' = Nobody /\ joined' = FALSE
      /\ ghost' = [ghost EXCEPT !.failed = TRUE, !.dropped = @ \/ Kswapd = Flusher,
                                !.told = IF Kswapd = Syncer THEN dbuf ELSE @]
      /\ UNCHANGED <<ver, ilock, map, attr, dbuf, ibuf, ddisk, idisk, log>>
  BY <1>1 DEF TransactionLost, GiveUpPage, inode, device
<1>3. st' \in [Task -> TaskType] /\ st'[Kswapd] = Idle /\ \A u \in Task : u # Kswapd => st'[u] = st[u]
  BY <1>1, <1>2, IdleType, MoveTo
<1> HIDE DEF p
<1>4. (\A u \in Task : u # Kswapd => st[u].pc \notin Txn) /\ faults' \in Nat
  BY <1>1, <1>2 DEF IInv, Locks, Txn, TypeOK
<1>5. /\ lock' \in [Page -> Task \cup {Nobody}] /\ lock'[p] = Nobody
      /\ \A q \in Page : q # p => lock'[q] = lock[q]
  BY <1>1, <1>2 DEF TypeOK
<1>6. /\ ghost' \in GhostType /\ ghost'.writes = ghost.writes /\ ghost'.want = ghost.want
      /\ ghost'.told = ghost.told /\ ghost'.synced = ghost.synced
      /\ ghost'.failed /\ ghost'.dropped = ghost.dropped
  BY <1>1, <1>2 DEF TypeOK, GhostType
<1>7. ver[p] # 0 /\ NoPage \notin Page
  BY <1>1, Distinct DEF IInv, Values
<1>8. TypeOK'
  BY <1>1, <1>2, <1>3, <1>4, <1>5, <1>6, <1>7 DEF IInv, TypeOK, Idle
<1>9. Places'
  BY <1>1, <1>2, <1>3, <1>4, <1>5, <1>6, <1>7 DEF IInv, Places, Txn, OnPage, Idle
<1>10. Locks'
  BY <1>1, <1>2, <1>3, <1>4, <1>5, <1>6, <1>7 DEF IInv, Places, Locks, Txn, OnPage, Idle
<1>11. Values'
  BY <1>1, <1>2, <1>3, <1>4, <1>5, <1>6, <1>7, Numbers DEF IInv, Places, Values, Locks, OnPage, Idle
<1>12. Ordered'
  BY <1>1, <1>2, <1>3, <1>4, <1>5, <1>6, <1>7, Numbers DEF IInv, Ordered, Values, Idle
<1>13. Committed'
  BY <1>1, <1>2, <1>3, <1>4, <1>5, <1>6, <1>7 DEF IInv, Committed, Settled, Recovered, Values, Places, Locks, Txn, OnPage, Idle
<1>14. Told'
  BY <1>1, <1>2, <1>3, <1>4, <1>5, <1>6, <1>7, Numbers DEF IInv, Synced, Told, Values, Idle
<1>15. SyncedDataOnDevice'
  BY <1>1, <1>2, <1>3, <1>4, <1>5, <1>6, <1>7, Numbers DEF IInv, Synced, SyncedDataOnDevice, ErrorReachesFsync, Idle
<1>16. Outstanding'
  BY <1>1, <1>2, <1>3, <1>4, <1>5, <1>6, <1>7, Numbers DEF IInv, Synced, Outstanding, Landed, Idle
<1>17. Covered'
  BY <1>1, <1>2, <1>3, <1>4, <1>5, <1>6, <1>7, Numbers DEF IInv, Synced, Covered, Awaited, Landed, InBuffer, Flushing, Txn, Idle
<1>18. Passed'
  BY <1>1, <1>2, <1>3, <1>4, <1>5, <1>6, <1>7 DEF IInv, Synced, Passed, Landed, InBuffer, OnPage, Txn, Idle
<1>. QED
  BY <1>8, <1>9, <1>10, <1>11, <1>12, <1>13, <1>14, <1>15, <1>16, <1>17, <1>18 DEF IInv, Synced

LEMMA LostBatchStep == ASSUME IInv, NEW t \in Batch, TransactionLost(t), st[t].pc \in {"barrier", "commit"},
         bdirty' \in SUBSET bdirty, faults' = faults + 1 PROVE IInv'
<1> USE DEF Task, Batch, Flusher, Syncer, Kswapd, Writer, Worker, Nobody, Cleaner
<1>1. /\ TypeOK /\ st[t].pc \in {"barrier", "commit"} /\ jlock = t /\ bdirty' \subseteq bdirty
      /\ (\A q \in Page : st[t].page # q)
  BY DEF IInv, Places, Locks, OnPage, Txn
<1>2. /\ merr' = (merr /\ t # Syncer)
      /\ st' = [st EXCEPT ![t] = Idle] /\ jlock' = Nobody /\ joined' = FALSE
      /\ ghost' = [ghost EXCEPT !.failed = TRUE, !.dropped = @ \/ t = Flusher,
                                !.told = IF t = Syncer THEN dbuf ELSE @]
      /\ UNCHANGED <<ver, dirty, lock, ilock, map, attr, dbuf, ibuf, ddisk, idisk, log>>
  BY <1>1 DEF TransactionLost, inode, device
<1>3. st' \in [Task -> TaskType] /\ st'[t] = Idle /\ \A u \in Task : u # t => st'[u] = st[u]
  BY <1>1, <1>2, IdleType, MoveTo
<1>4. (\A u \in Task : u # t => st[u].pc \notin Txn) /\ faults' \in Nat /\ merr' \in BOOLEAN
  BY <1>1, <1>2 DEF IInv, Locks, Txn, TypeOK
<1>5. ghost' \in GhostType
  BY <1>1, <1>2 DEF TypeOK, GhostType
<1>6. /\ ghost'.writes = ghost.writes /\ ghost'.want = ghost.want
      /\ ghost'.told = (IF t = Syncer THEN dbuf ELSE ghost.told) /\ ghost'.synced = ghost.synced
      /\ ghost'.failed /\ (t = Flusher => ghost'.dropped) /\ (ghost.dropped => ghost'.dropped)
  BY <1>1, <1>2 DEF TypeOK, GhostType
<1>7. NoPage \notin Page
  BY Distinct
<1>8. TypeOK'
  BY <1>1, <1>2, <1>3, <1>4, <1>5, <1>6, <1>7 DEF IInv, TypeOK, Idle
<1>9. Places'
  BY <1>1, <1>2, <1>3, <1>4, <1>5, <1>6, <1>7 DEF IInv, Places, Txn, OnPage, Idle
<1>10. Locks'
  BY <1>1, <1>2, <1>3, <1>4, <1>5, <1>6, <1>7 DEF IInv, Places, Locks, Txn, OnPage, Idle
<1>11. Values'
  BY <1>1, <1>2, <1>3, <1>4, <1>5, <1>6, <1>7, Numbers DEF IInv, Places, Values, Locks, OnPage, Idle
<1>12. Ordered'
  BY <1>1, <1>2, <1>3, <1>4, <1>5, <1>6, <1>7, Numbers DEF IInv, Ordered, Values, Idle
<1>13. Committed'
  BY <1>1, <1>2, <1>3, <1>4, <1>5, <1>6, <1>7 DEF IInv, Committed, Settled, Recovered, Values, Places, Locks, Txn, OnPage, Idle
<1>14. Told'
  BY <1>1, <1>2, <1>3, <1>4, <1>5, <1>6, <1>7, Numbers DEF IInv, Synced, Told, Places, Txn, Idle
<1>15. SyncedDataOnDevice'
  BY <1>1, <1>2, <1>3, <1>4, <1>5, <1>6, <1>7, Numbers DEF IInv, Synced, SyncedDataOnDevice, ErrorReachesFsync, Told
<1>16. Outstanding'
  BY <1>1, <1>2, <1>3, <1>4, <1>5, <1>6, <1>7, Numbers DEF IInv, Synced, Outstanding, Landed, Idle
<1>17. Covered'
  BY <1>1, <1>2, <1>3, <1>4, <1>5, <1>6, <1>7, Numbers DEF IInv, Synced, Covered, Awaited, Landed, InBuffer, Flushing, Txn, Idle
<1>18. Passed'
  BY <1>1, <1>2, <1>3, <1>4, <1>5, <1>6, <1>7, Numbers DEF IInv, Synced, Passed, Landed, InBuffer, Idle
<1>. QED
  BY <1>8, <1>9, <1>10, <1>11, <1>12, <1>13, <1>14, <1>15, <1>16, <1>17, <1>18 DEF IInv, Synced

LEMMA CommitReclaimStep == ASSUME IInv, Commit(Kswapd) PROVE IInv'
<1> USE DEF Task, Batch, Flusher, Syncer, Kswapd, Writer, Worker, Nobody, Cleaner
<1> DEFINE p == st[Kswapd].page
<1>1. /\ TypeOK /\ st[Kswapd].pc = "commit" /\ p \in Page /\ lock[p] = Kswapd
      /\ st[Kswapd].page = p /\ jlock = Kswapd /\ joined
  BY DEF Commit, IInv, Places, Locks, OnPage, Txn, Committed
<1>2. /\ lock' = [lock EXCEPT ![p] = Nobody] /\ log' = Append(log, ibuf) /\ After(Kswapd)
      /\ jlock' = Nobody /\ joined' = FALSE
      /\ UNCHANGED <<ver, dirty, ilock, map, attr, dbuf, ibuf, bdirty, ddisk, idisk, merr, ghost, faults>>
  BY <1>1 DEF Commit, inode, buffers
<1>3. /\ st' \in [Task -> TaskType] /\ \A u \in Task : u # Kswapd => st'[u] = st[u]
      /\ st'[Kswapd].pc = "idle" /\ st'[Kswapd].page = NoPage
      /\ st'[Kswapd].todo = {} /\ st'[Kswapd].wrote = FALSE /\ st'[Kswapd].err = FALSE
  BY <1>1, <1>2, AfterMove
<1> HIDE DEF p
<1>4. (\A u \in Task : u # Kswapd => st[u].pc \notin Txn) /\ NoPage \notin Page
  BY <1>1, Distinct DEF IInv, Locks, Txn
<1>5. /\ lock' \in [Page -> Task \cup {Nobody}] /\ lock'[p] = Nobody
      /\ \A q \in Page : q # p => lock'[q] = lock[q]
  BY <1>1, <1>2 DEF TypeOK
<1>6. /\ log' \in Seq(ImageType) /\ Len(log') = Len(log) + 1 /\ log' # <<>> /\ log'[Len(log')] = ibuf
      /\ \A k \in 1 .. Len(log') : (k \in 1 .. Len(log) /\ log'[k] = log[k]) \/ log'[k] = ibuf
  BY <1>1, <1>2 DEF TypeOK
<1>7. dbuf[p] = ver[p] /\ ibuf.map \subseteq map /\ map \subseteq Page /\ \A q \in Page : q \notin bdirty
  BY <1>1 DEF IInv, Values, TypeOK
<1>8. \A u \in Cleaner : st[u].pc \notin OnPage
  BY <1>1, <1>4 DEF OnPage, Txn
<1>9. ~ghost.failed => /\ \A q \in map : q \in ibuf.map /\ ddisk[q] # 0
                       /\ \A q \in Page : ddisk[q] = dbuf[q]
  BY <1>1, <1>7, <1>8 DEF IInv, Ordered, Committed, OnPage
<1>10. TypeOK'
  BY <1>1, <1>2, <1>3, <1>4, <1>5, <1>6, <1>7, <1>8, <1>9 DEF IInv, TypeOK
<1>11. Places'
  BY <1>1, <1>2, <1>3, <1>4, <1>5, <1>6, <1>7, <1>8, <1>9 DEF IInv, Places, Txn, OnPage
<1>12. Locks'
  BY <1>1, <1>2, <1>3, <1>4, <1>5, <1>6, <1>7, <1>8, <1>9 DEF IInv, Places, Locks, Txn, OnPage
<1>13. Values'
  BY <1>1, <1>2, <1>3, <1>4, <1>5, <1>6, <1>7, <1>8, <1>9, Numbers DEF IInv, Places, Values, Locks, OnPage
<1>14. Ordered'
  BY <1>1, <1>2, <1>3, <1>4, <1>5, <1>6, <1>7, <1>8, <1>9, Numbers DEF IInv, Ordered, Values
<1>15. Committed'
  <2>1. \A q \in Page : Settled(q)' => dbuf[q] = ver[q] /\ q \in map
    BY <1>1, <1>2, <1>3, <1>4, <1>5, <1>6, <1>7, <1>8, <1>9 DEF IInv, Values, Settled
  <2>2. Recovered' = ibuf
    BY <1>6 DEF Recovered
  <2>. QED  BY <1>1, <1>2, <1>3, <1>4, <1>5, <1>6, <1>7, <1>8, <1>9, <2>1, <2>2 DEF IInv, Committed, Places, Txn
<1>16. Told'
  BY <1>1, <1>2, <1>3, <1>4, <1>5, <1>6, <1>7, <1>8, <1>9, Numbers DEF IInv, Synced, Told, Values
<1>17. SyncedDataOnDevice'
  BY <1>1, <1>2, <1>3, <1>4, <1>5, <1>6, <1>7, <1>8, <1>9, Numbers DEF IInv, Synced, SyncedDataOnDevice, ErrorReachesFsync
<1>18. Outstanding'
  BY <1>1, <1>2, <1>3, <1>4, <1>5, <1>6, <1>7, <1>8, <1>9, Numbers DEF IInv, Synced, Outstanding, Landed
<1>19. Covered'
  <2> SUFFICES ASSUME ~ghost.dropped, ~merr, st[Syncer].pc \in Txn \cup {"wait"}, NEW q \in Page
               PROVE  Awaited(q)'
    BY <1>1, <1>2, <1>3, <1>4, <1>5, <1>6, <1>7, <1>8, <1>9 DEF Covered
  <2>1. Awaited(q)
    BY DEF IInv, Synced, Covered
  <2>2. Landed(p, ghost.want.data[p])
    <3>1. Landed(p, dbuf[p]) /\ ghost.want.data[p] <= dbuf[p]
      BY <1>1, <1>7 DEF IInv, Synced, Outstanding, Told
    <3>. QED  BY <1>1, <3>1, Numbers DEF Landed
  <2>. QED  BY <1>1, <1>2, <1>3, <1>4, <1>5, <1>6, <1>7, <1>8, <1>9, <2>1, <2>2 DEF Awaited, Landed, InBuffer, Flushing
<1>20. Passed'
  BY <1>1, <1>2, <1>3, <1>4, <1>5, <1>6, <1>7, <1>8, <1>9, Numbers DEF IInv, Synced, Passed, Landed, InBuffer
<1>. QED
  BY <1>10, <1>11, <1>12, <1>13, <1>14, <1>15, <1>16, <1>17, <1>18, <1>19, <1>20 DEF IInv, Synced

LEMMA CommitBatchStep == ASSUME IInv, NEW t \in Batch, Commit(t) PROVE IInv'
<1> USE DEF Task, Batch, Flusher, Syncer, Kswapd, Writer, Worker, Nobody, Cleaner
<1>1. /\ TypeOK /\ st[t].pc = "commit" /\ st[t].todo = {} /\ (\A q \in Page : st[t].page # q)
      /\ jlock = t /\ joined
  BY DEF Commit, IInv, Places, Locks, OnPage, Txn, Committed
<1>2. /\ log' = Append(log, ibuf) /\ After(t) /\ jlock' = Nobody /\ joined' = FALSE
      /\ UNCHANGED <<ver, dirty, lock, ilock, map, attr, dbuf, ibuf, bdirty, ddisk, idisk, merr, ghost, faults>>
  BY <1>1 DEF Commit, inode, buffers
<1>3. /\ st' \in [Task -> TaskType] /\ \A u \in Task : u # t => st'[u] = st[u]
      /\ st'[t].pc = (IF t = Syncer THEN "wait" ELSE "idle") /\ st'[t].page = NoPage
      /\ st'[t].todo = {} /\ st'[t].wrote = FALSE /\ st'[t].err = FALSE
  BY <1>1, <1>2, AfterMove
<1>4. (\A u \in Task : u # t => st[u].pc \notin Txn) /\ NoPage \notin Page
  BY <1>1, Distinct DEF IInv, Locks, Txn
<1>5. /\ log' \in Seq(ImageType) /\ Len(log') = Len(log) + 1 /\ log' # <<>> /\ log'[Len(log')] = ibuf
      /\ \A k \in 1 .. Len(log') : (k \in 1 .. Len(log) /\ log'[k] = log[k]) \/ log'[k] = ibuf
  BY <1>1, <1>2 DEF TypeOK
<1>6. ibuf.map \subseteq map /\ map \subseteq Page /\ \A q \in Page : q \notin bdirty
  BY <1>1 DEF IInv, Values, TypeOK
<1>7. \A u \in Cleaner : st[u].pc \notin OnPage
  BY <1>1, <1>4 DEF OnPage, Txn
<1>8. ~ghost.failed => /\ \A q \in map : q \in ibuf.map /\ ddisk[q] # 0
                       /\ \A q \in Page : ddisk[q] = dbuf[q]
  BY <1>1, <1>6, <1>7 DEF IInv, Ordered, Committed, OnPage
<1>9. TypeOK'
  BY <1>1, <1>2, <1>3, <1>4, <1>5, <1>6, <1>7, <1>8 DEF IInv, TypeOK
<1>10. Places'
  BY <1>1, <1>2, <1>3, <1>4, <1>5, <1>6, <1>7, <1>8 DEF IInv, Places, Txn, OnPage
<1>11. Locks'
  BY <1>1, <1>2, <1>3, <1>4, <1>5, <1>6, <1>7, <1>8 DEF IInv, Places, Locks, Txn, OnPage
<1>12. Values'
  BY <1>1, <1>2, <1>3, <1>4, <1>5, <1>6, <1>7, <1>8, Numbers DEF IInv, Places, Values, Locks, OnPage
<1>13. Ordered'
  BY <1>1, <1>2, <1>3, <1>4, <1>5, <1>6, <1>7, <1>8, Numbers DEF IInv, Ordered, Values
<1>14. Committed'
  <2>1. \A q \in Page : Settled(q)' => dbuf[q] = ver[q] /\ q \in map
    BY <1>1, <1>2, <1>3, <1>4, <1>5, <1>6, <1>7, <1>8 DEF IInv, Values, Settled
  <2>2. Recovered' = ibuf
    BY <1>5 DEF Recovered
  <2>. QED  BY <1>1, <1>2, <1>3, <1>4, <1>5, <1>6, <1>7, <1>8, <2>1, <2>2 DEF IInv, Committed, Places, Txn
<1>15. Told'
  BY <1>1, <1>2, <1>3, <1>4, <1>5, <1>6, <1>7, <1>8, Numbers DEF IInv, Synced, Told, Values
<1>16. SyncedDataOnDevice'
  BY <1>1, <1>2, <1>3, <1>4, <1>5, <1>6, <1>7, <1>8, Numbers DEF IInv, Synced, SyncedDataOnDevice, ErrorReachesFsync
<1>17. Outstanding'
  BY <1>1, <1>2, <1>3, <1>4, <1>5, <1>6, <1>7, <1>8, Numbers DEF IInv, Synced, Outstanding, Landed
<1>18. Covered'
  <2> SUFFICES ASSUME ~ghost.dropped, ~merr, st'[Syncer].pc \in Txn \cup {"wait"}, NEW q \in Page
               PROVE  Awaited(q)'
    BY <1>1, <1>2, <1>3, <1>4, <1>5, <1>6, <1>7, <1>8 DEF Covered
  <2>1. Awaited(q) /\ ~InBuffer(Syncer, q) /\ ~InBuffer(Flusher, q)
    BY <1>1, <1>2, <1>3, <1>4, <1>5, <1>6, <1>7, <1>8 DEF IInv, Synced, Covered, InBuffer, Txn
  <2>2. CASE t = Syncer
    BY <1>1, <1>2, <1>3, <1>4, <1>5, <1>6, <1>7, <1>8, <2>1, <2>2 DEF Awaited, Landed
  <2>3. CASE t = Flusher
    BY <1>1, <1>2, <1>3, <1>4, <1>5, <1>6, <1>7, <1>8, <2>1, <2>3 DEF Awaited, Landed, InBuffer, Flushing, Txn
  <2>. QED  BY <2>2, <2>3
<1>19. Passed'
  BY <1>1, <1>2, <1>3, <1>4, <1>5, <1>6, <1>7, <1>8, Numbers DEF IInv, Synced, Passed, Landed, InBuffer
<1>. QED
  BY <1>9, <1>10, <1>11, <1>12, <1>13, <1>14, <1>15, <1>16, <1>17, <1>18, <1>19 DEF IInv, Synced


-----------------------------------------------------------------------------
LEMMA InitIInv == Init => IInv
<1> SUFFICES ASSUME Init PROVE IInv
  OBVIOUS
<1> USE DEF Task, Batch, Flusher, Syncer, Kswapd, Writer, Worker, Nobody, Cleaner
<1>1. /\ \A p \in Page : ver[p] = 0 /\ dbuf[p] = 0 /\ ddisk[p] = 0 /\ lock[p] = Nobody
      /\ dirty = {} /\ bdirty = {} /\ map = {} /\ attr = 0 /\ log = <<>> /\ faults = 0
      /\ ibuf.map = {} /\ idisk.map = {} /\ joined = FALSE /\ merr = FALSE
      /\ ilock = Nobody /\ jlock = Nobody
  BY DEF Init, Image
<1>2. st \in [Task -> TaskType] /\ \A t \in Task : st[t] = Idle
  BY IdleType DEF Init
<1>3. /\ ver \in Versions /\ dbuf \in Versions /\ ddisk \in Versions
      /\ lock \in [Page -> Task \cup {Nobody}]
      /\ ibuf \in ImageType /\ idisk \in ImageType /\ log \in Seq(ImageType)
  BY DEF Init, Image, Versions, ImageType
<1>4. /\ ghost \in GhostType /\ ghost.writes = 0 /\ ~ghost.failed /\ ~ghost.dropped
      /\ \A p \in Page : ghost.told[p] = 0 /\ ghost.want.data[p] = 0 /\ ghost.synced.data[p] = 0
  BY DEF Init, GhostType, Versions
<1>5. NoPage \notin Page /\ Len(log) = 0
  BY <1>1, Distinct
<1>6. TypeOK
  BY <1>1, <1>2, <1>3, <1>4 DEF TypeOK
<1>7. Places /\ Locks /\ Values
  BY <1>1, <1>2, <1>4, <1>5 DEF Places, Locks, Values, Idle, Txn, OnPage
<1>8. Ordered /\ Committed
  BY <1>1, <1>2, <1>5 DEF Ordered, Committed, Idle, Settled
<1>9. Told /\ SyncedDataOnDevice /\ Outstanding /\ Covered /\ Passed
  BY <1>1, <1>2, <1>4
     DEF Told, SyncedDataOnDevice, ErrorReachesFsync, Outstanding, Landed, Covered, Passed, Idle, Txn
<1>. QED
  BY <1>6, <1>7, <1>8, <1>9 DEF IInv, Synced

(* A failed barrier or a failed log write. *)
LEMMA LostStep ==
  ASSUME IInv, NEW t \in Cleaner, BarrierFails(t) \/ CommitFails(t)
  PROVE  IInv'
<1>1. /\ TransactionLost(t) /\ st[t].pc \in {"barrier", "commit"}
      /\ bdirty' \in SUBSET bdirty /\ faults' = faults + 1
  BY DEF BarrierFails, CommitFails
<1>. QED
  BY <1>1, LostReclaimStep, LostBatchStep DEF Cleaner

(* The actions of a task whose transaction runs. *)
LEMMA CleanerStep ==
  ASSUME IInv, NEW t \in Cleaner,
         PageMap(t) \/ PageData(t) \/ PageInode(t) \/ PageFails(t)
           \/ Barrier(t) \/ Commit(t) \/ BarrierFails(t) \/ CommitFails(t)
  PROVE  IInv'
<1>1. CASE PageMap(t)
  BY <1>1, PageMapStep
<1>2. CASE PageData(t)
  BY <1>2, PageDataReclaimStep, PageDataBatchStep DEF Cleaner
<1>3. CASE PageInode(t)
  BY <1>3, PageInodeReclaimStep, PageInodeBatchStep DEF Cleaner
<1>4. CASE PageFails(t)
  BY <1>4, PageFailsAbortedStep, PageFailsSyncerStep DEF Cleaner, Batch
<1>5. CASE Barrier(t)
  BY <1>5, BarrierStep
<1>6. CASE Commit(t)
  BY <1>6, CommitReclaimStep, CommitBatchStep DEF Cleaner
<1>7. CASE BarrierFails(t) \/ CommitFails(t)
  BY <1>7, LostStep
<1>. QED
  BY <1>1, <1>2, <1>3, <1>4, <1>5, <1>6, <1>7

LEMMA BatchStep ==
  ASSUME IInv, NEW t \in Batch, WritepagesBegin(t) \/ WritepagesLock(t) \/ WritepagesEnd(t)
  PROVE  IInv'
<1>1. CASE WritepagesEnd(t)
  <2>1. CASE st[t].wrote /\ ~st[t].err
    BY <1>1, <2>1, WritepagesCommitStep
  <2>2. CASE ~(st[t].wrote /\ ~st[t].err)
    BY <1>1, <2>2, WritepagesAbortStep
  <2>. QED  BY <2>1, <2>2
<1>. QED
  BY <1>1, WritepagesBeginStep, WritepagesLockStep

LEMMA StutterStep == ASSUME IInv, UNCHANGED vars PROVE IInv'
  BY DEF vars, IInv, TypeOK, Places, Locks, Values, Ordered, Committed, Settled, Recovered,
     Synced, Told, SyncedDataOnDevice, ErrorReachesFsync, Outstanding, Landed, Covered, Awaited,
     InBuffer, Flushing, Passed

LEMMA NextIInv == IInv /\ [Next]_vars => IInv'
<1> SUFFICES ASSUME IInv, [Next]_vars PROVE IInv'
  OBVIOUS
<1>1. CASE WriteStart \/ WriteBegin \/ WriteEnd \/ SetAttr
  BY <1>1, WriteStartStep, WriteBeginStep, WriteEndStep, SetAttrStep
<1>2. CASE FlushStart \/ FsyncStart \/ FsyncWait \/ FsyncInode \/ FsyncDone
  BY <1>2, FlushStartStep, FsyncStartStep, FsyncWaitStep, FsyncInodeStep, FsyncDoneStep
<1>3. CASE \E t \in Batch : WritepagesBegin(t) \/ WritepagesLock(t) \/ WritepagesEnd(t)
  BY <1>3, BatchStep
<1>4. CASE WritepageBegin \/ \E p \in Page : ReclaimPage(p)
  BY <1>4, WritepageBeginStep, ReclaimPageStep
<1>5. CASE \E t \in Batch \cup {Kswapd} :
             PageMap(t) \/ PageData(t) \/ PageInode(t) \/ PageFails(t)
             \/ Barrier(t) \/ Commit(t) \/ BarrierFails(t) \/ CommitFails(t)
  BY <1>5, CleanerStep DEF Cleaner
<1>6. CASE WorkerBegin \/ WorkerHome \/ WorkerAdvance
  BY <1>6, WorkerBeginStep, WorkerHomeStep, WorkerAdvanceStep
<1>7. CASE \E b \in Page \cup {InodeBlock} : Writeback(b)
  BY <1>7, WritebackStep
<1>8. CASE UNCHANGED vars
  BY <1>8, StutterStep
<1>. QED
  BY <1>1, <1>2, <1>3, <1>4, <1>5, <1>6, <1>7, <1>8 DEF Next

(* Every reachable state satisfies the invariant, its type part included. *)
THEOREM Inductive == Spec => []IInv
  BY InitIInv, NextIInv, PTL DEF Spec

(* A page that is clean and not being written has its contents in the      *)
(* buffer, whatever fails in writepage and writepages.                     *)
THEOREM NoLostWriteHolds == Spec => []NoLostWrite
<1>1. IInv => NoLostWrite
  BY DEF IInv, Values, NoLostWrite
<1>. QED
  BY <1>1, Inductive, PTL

(* data=ordered: until a writeback fails, no image of the inode in the     *)
(* journal refers to a block whose data is not on the device.              *)
THEOREM OrderedCommitHolds == Spec => []OrderedCommit
<1>1. IInv => OrderedCommit
  BY DEF IInv, Ordered, OrderedCommit
<1>. QED
  BY <1>1, Inductive, PTL

(* Until something fails, once no transaction runs every clean page would  *)
(* survive a crash, its data and its block pointer.                        *)
THEOREM CleanIsCommittedHolds == Spec => []CleanIsCommitted
<1>1. ASSUME IInv PROVE CleanIsCommitted
  <2> SUFFICES ASSUME ~ghost.failed, jlock = Nobody PROVE
        \A p \in Page : p \notin dirty /\ lock[p] = Nobody /\ ver[p] # 0 =>
          p \in Recovered.map /\ ddisk[p] = ver[p]
    BY DEF CleanIsCommitted
  <2>1. \A t \in Batch : ~st[t].wrote
    BY <1>1 DEF IInv, Places, Locks, Batch, Cleaner, Task, Flusher, Syncer, Kswapd, Writer, Worker, Nobody
  <2>. QED  BY <1>1, <2>1 DEF IInv, Committed, Settled
<1>. QED
  BY <1>1, Inductive, PTL

(* What an fsync that returned 0 covered is on the device, unless an       *)
(* earlier fsync returned the error or the flusher's own commit failed.    *)
THEOREM SyncedDataOnDeviceHolds == Spec => []SyncedDataOnDevice
<1>1. IInv => SyncedDataOnDevice
  BY DEF IInv, Synced
<1>. QED
  BY <1>1, Inductive, PTL
=============================================================================
