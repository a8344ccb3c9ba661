--------------------------- MODULE PageWriteback ---------------------------
(***************************************************************************)
(* The write path of one regular file (file.c): buffered writes, writeback *)
(* by the flusher and by fsync (writepages, one transaction for all pages),*)
(* by memory reclaim (writepage, one transaction per page), setattr, fsync,*)
(* and the checkpoint worker of the journal.                               *)
(*                                                                         *)
(* The journal is abstracted to what JournalV3Ring shows of it: a queue of *)
(* committed images of the inode block, written home in order.  The data   *)
(* block of a page is one block; its contents are the number of the write. *)
(* 0 is whatever the block held before it was allocated.                   *)
(***************************************************************************)
EXTENDS Naturals, Sequences, FiniteSets

CONSTANTS Page,       \* page indices of the file
          InodeBlock, \* the block that holds the disk inode
          NoPage,
          MaxWrites,  \* bound: buffered writes
          MaxAttrs,   \* bound: setattr calls
          MaxFaults   \* bound: failed I/O or allocations

ASSUME PageAssumption ==
  /\ Page \subseteq Nat /\ IsFiniteSet(Page)
  /\ InodeBlock \notin Page /\ NoPage \notin Page
  /\ MaxWrites \in Nat /\ MaxAttrs \in Nat /\ MaxFaults \in Nat

(* The flusher and fsync call writepages, kswapd calls writepage. *)
Flusher == "flusher"
Syncer == "syncer"
Kswapd == "kswapd"
Writer == "writer"
Worker == "worker"
Nobody == "nobody"
Batch == {Flusher, Syncer}
Task == {Flusher, Syncer, Kswapd, Writer, Worker}

VARIABLES
  ver,      \* contents of every page in the page cache
  dirty,    \* PG_dirty
  lock,     \* holder of each page lock
  ilock,    \* holder of the inode lock
  jlock,    \* holder of journal_lock
  joined,   \* the running transaction has recorded the inode block
  map,      \* in-memory inode: pages that have a block
  attr,     \* in-memory inode: attributes
  dbuf,     \* data buffers in the buffer cache
  ibuf,     \* the inode block in the buffer cache
  bdirty,   \* dirty buffers: a page stands for its data block
  ddisk,    \* data blocks on the device
  idisk,    \* the inode block on the device
  log,      \* committed images of the inode block, not checkpointed
  merr,     \* AS_EIO of the mapping
  st,       \* where each task is
  ghost,    \* history for the properties
  faults    \* used part of MaxFaults

pages == <<ver, dirty, lock>>
inode == <<map, attr>>
buffers == <<dbuf, ibuf, bdirty>>
device == <<ddisk, idisk, log>>
vars == <<ver, dirty, lock, ilock, jlock, joined, map, attr, dbuf, ibuf, bdirty,
          ddisk, idisk, log, merr, st, ghost, faults>>

Idle == [pc |-> "idle", page |-> NoPage, todo |-> {}, wrote |-> FALSE, err |-> FALSE]
Goto(t, l) == st' = [st EXCEPT ![t].pc = l]
Image == [map |-> map, attr |-> attr]
NextPage(S) == CHOOSE p \in S : \A q \in S : p <= q

Init ==
  /\ ver = [p \in Page |-> 0] /\ dirty = {} /\ lock = [p \in Page |-> Nobody]
  /\ ilock = Nobody /\ jlock = Nobody /\ joined = FALSE
  /\ map = {} /\ attr = 0
  /\ dbuf = ver /\ ibuf = Image /\ bdirty = {}
  /\ ddisk = ver /\ idisk = Image /\ log = <<>>
  /\ merr = FALSE
  /\ st = [t \in Task |-> Idle]
  /\ ghost = [writes |-> 0, want |-> [data |-> ver, attr |-> 0],
              synced |-> [data |-> ver, attr |-> 0], told |-> ver,
              failed |-> FALSE, dropped |-> FALSE]
  /\ faults = 0
-----------------------------------------------------------------------------
(* cryexts_write_inode_to_disk: the in-memory inode goes to the buffer, and *)
(* record_block adds the block to whatever transaction is running; without  *)
(* one its -EINVAL is ignored.                                              *)
WriteInode ==
  /\ ibuf' = Image
  /\ bdirty' = bdirty \cup {InodeBlock}
  /\ joined' = (joined \/ jlock \notin {Nobody, Worker})

(* generic_file_write_iter takes the inode lock, cryexts_write_begin locks  *)
(* the page.                                                                *)
WriteStart ==
  /\ st[Writer].pc = "idle" /\ ghost.writes < MaxWrites /\ ilock = Nobody
  /\ ilock' = Writer
  /\ \E p \in Page : st' = [st EXCEPT ![Writer] = [Idle EXCEPT !.pc = "grab", !.page = p]]
  /\ UNCHANGED <<pages, jlock, joined, inode, buffers, device, merr, ghost, faults>>

WriteBegin ==
  /\ st[Writer].pc = "grab" /\ lock[st[Writer].page] = Nobody
  /\ lock' = [lock EXCEPT ![st[Writer].page] = Writer]
  /\ Goto(Writer, "copy")
  /\ UNCHANGED <<ver, dirty, ilock, jlock, joined, inode, buffers, device, merr, ghost, faults>>

(* cryexts_write_end *)
WriteEnd ==
  /\ st[Writer].pc = "copy"
  /\ LET p == st[Writer].page
     IN /\ ver' = [ver EXCEPT ![p] = ghost.writes + 1]
        /\ dirty' = dirty \cup {p}
        /\ lock' = [lock EXCEPT ![p] = Nobody]
  /\ ghost' = [ghost EXCEPT !.writes = @ + 1]
  /\ ilock' = Nobody
  /\ st' = [st EXCEPT ![Writer] = Idle]
  /\ UNCHANGED <<jlock, joined, inode, buffers, device, merr, faults>>

(* cryexts_setattr without ATTR_SIZE: no transaction. *)
SetAttr ==
  /\ st[Writer].pc = "idle" /\ ilock = Nobody /\ attr < MaxAttrs
  /\ attr' = attr + 1
  /\ ibuf' = [map |-> map, attr |-> attr + 1]
  /\ bdirty' = bdirty \cup {InodeBlock}
  /\ joined' = (joined \/ jlock \notin {Nobody, Worker})
  /\ UNCHANGED <<pages, ilock, jlock, map, dbuf, device, merr, st, ghost, faults>>
-----------------------------------------------------------------------------
(* cryexts_writepages. *)

(* do_writepages is called when the mapping has dirty pages: by the flusher, *)
(* and by file_write_and_wait_range at the start of an fsync.               *)
FlushStart ==
  /\ st[Flusher].pc = "idle" /\ dirty # {}
  /\ Goto(Flusher, "begin")
  /\ UNCHANGED <<pages, ilock, jlock, joined, inode, buffers, device, merr, ghost, faults>>

FsyncStart ==
  /\ st[Syncer].pc = "idle"
  /\ ver # ghost.synced.data \/ attr # ghost.synced.attr
  /\ ghost' = [ghost EXCEPT !.want = [data |-> ver, attr |-> attr]]
  /\ Goto(Syncer, IF dirty = {} THEN "wait" ELSE "begin")
  /\ UNCHANGED <<pages, ilock, jlock, joined, inode, buffers, device, merr, faults>>

(* journal_begin, then write_cache_pages looks up a batch of dirty pages. *)
WritepagesBegin(t) ==
  /\ t \in Batch /\ st[t].pc = "begin" /\ jlock = Nobody
  /\ jlock' = t
  /\ joined' = FALSE
  /\ st' = [st EXCEPT ![t] = [Idle EXCEPT !.pc = "pages", !.todo = dirty]]
  /\ UNCHANGED <<pages, ilock, inode, buffers, device, merr, ghost, faults>>

(* write_cache_pages locks the next page of the batch; one that is clean by *)
(* now is passed over, else clear_page_dirty_for_io and the callback, which *)
(* sets PG_writeback.                                                       *)
WritepagesLock(t) ==
  /\ t \in Batch /\ st[t].pc = "pages" /\ st[t].todo # {}
  /\ LET p == NextPage(st[t].todo)
     IN /\ lock[p] = Nobody
        /\ IF p \in dirty
           THEN /\ lock' = [lock EXCEPT ![p] = t]
                /\ dirty' = dirty \ {p}
                /\ st' = [st EXCEPT ![t].pc = "map", ![t].page = p, ![t].todo = @ \ {p}]
           ELSE /\ st' = [st EXCEPT ![t].todo = @ \ {p}]
                /\ UNCHANGED <<lock, dirty>>
  /\ UNCHANGED <<ver, ilock, jlock, joined, inode, buffers, device, merr, ghost, faults>>

(* Where a task goes when its transaction is over. *)
After(t) ==
  st' = [st EXCEPT ![t] = IF t = Syncer THEN [Idle EXCEPT !.pc = "wait"] ELSE Idle]

(* All pages of the batch done: commit, or abort if one failed or none was  *)
(* written.                                                                 *)
WritepagesEnd(t) ==
  /\ t \in Batch /\ st[t].pc = "pages" /\ st[t].todo = {}
  /\ IF st[t].wrote /\ ~st[t].err
     THEN Goto(t, "barrier") /\ UNCHANGED <<jlock, joined>>
     ELSE After(t) /\ jlock' = Nobody /\ joined' = FALSE
  /\ UNCHANGED <<pages, ilock, inode, buffers, device, merr, ghost, faults>>

(* pageout of kswapd: trylock_page, clear_page_dirty_for_io, then writepage *)
(* sets PG_writeback and calls journal_begin.                               *)
ReclaimPage(p) ==
  /\ st[Kswapd].pc = "idle" /\ p \in dirty /\ lock[p] = Nobody
  /\ lock' = [lock EXCEPT ![p] = Kswapd]
  /\ dirty' = dirty \ {p}
  /\ st' = [st EXCEPT ![Kswapd] = [Idle EXCEPT !.pc = "begin", !.page = p]]
  /\ UNCHANGED <<ver, ilock, jlock, joined, inode, buffers, device, merr, ghost, faults>>

WritepageBegin ==
  /\ st[Kswapd].pc = "begin" /\ jlock = Nobody
  /\ jlock' = Kswapd
  /\ joined' = FALSE
  /\ Goto(Kswapd, "map")
  /\ UNCHANGED <<pages, ilock, inode, buffers, device, merr, ghost, faults>>
-----------------------------------------------------------------------------
(* cryexts_writepage_locked, after the transaction began. *)

(* cryexts_resolve_block gives the page a block. *)
PageMap(t) ==
  /\ st[t].pc = "map"
  /\ map' = map \cup {st[t].page}
  /\ Goto(t, "data")
  /\ UNCHANGED <<pages, ilock, jlock, joined, attr, buffers, device, merr, ghost, faults>>

(* cryexts_write_inode_block; writepage also syncs the data buffer. *)
PageData(t) ==
  /\ st[t].pc = "data"
  /\ LET p == st[t].page
     IN /\ dbuf' = [dbuf EXCEPT ![p] = ver[p]]
        /\ IF t = Kswapd
           THEN ddisk' = [ddisk EXCEPT ![p] = ver[p]] /\ bdirty' = bdirty \ {p}
           ELSE bdirty' = bdirty \cup {p} /\ UNCHANGED ddisk
  /\ Goto(t, "inode_block")
  /\ UNCHANGED <<pages, ilock, jlock, joined, inode, ibuf, idisk, log, merr, ghost, faults>>

(* write_inode_to_disk; writepages then gives up the page before its        *)
(* transaction is committed.                                                *)
PageInode(t) ==
  /\ st[t].pc = "inode_block"
  /\ WriteInode
  /\ IF t = Kswapd THEN Goto(t, "barrier") /\ UNCHANGED lock
     ELSE /\ lock' = [lock EXCEPT ![st[t].page] = Nobody]
          /\ st' = [st EXCEPT ![t].pc = "pages", ![t].page = NoPage, ![t].wrote = TRUE]
  /\ UNCHANGED <<ver, dirty, ilock, jlock, inode, dbuf, device, merr, ghost, faults>>

(* Mutant: the page is not set dirty again. *)
GiveUpPageClean(t) ==
  /\ lock' = [lock EXCEPT ![st[t].page] = Nobody]
  /\ dirty' = dirty
  /\ merr' = TRUE

(* Mutant: mapping_set_error is missing. *)
GiveUpPageSilent(t) ==
  /\ lock' = [lock EXCEPT ![st[t].page] = Nobody]
  /\ dirty' = dirty \cup {st[t].page}
  /\ merr' = merr

(* out_end_writeback *)
GiveUpPage(t) ==
  /\ lock' = [lock EXCEPT ![st[t].page] = Nobody]
  /\ dirty' = dirty \cup {st[t].page}
  /\ merr' = TRUE

(* resolve_block, the data write or the inode write fails: the page is set  *)
(* dirty again and the transaction aborted, with whatever it put into the   *)
(* buffers.  write_cache_pages goes on with the batch when it runs for an   *)
(* fsync (WB_SYNC_ALL) and stops when it runs for the flusher.              *)
PageFails(t) ==
  /\ faults < MaxFaults /\ st[t].pc \in {"map", "data", "inode_block"}
  /\ faults' = faults + 1
  /\ GiveUpPage(t)
  /\ IF t = Syncer
     THEN /\ st' = [st EXCEPT ![t].pc = "pages", ![t].page = NoPage, ![t].err = TRUE]
          /\ UNCHANGED <<jlock, joined>>
     ELSE /\ st' = [st EXCEPT ![t] = Idle]
          /\ jlock' = Nobody /\ joined' = FALSE
  /\ ghost' = [ghost EXCEPT !.failed = TRUE]
  /\ UNCHANGED <<ver, ilock, inode, buffers, device>>
-----------------------------------------------------------------------------
(* cryexts_journal_commit. *)

(* The flusher of the block device, or sync_blockdev, writes a buffer. *)
Writeback(b) ==
  /\ b \in bdirty
  /\ bdirty' = bdirty \ {b}
  /\ IF b = InodeBlock THEN idisk' = ibuf /\ UNCHANGED ddisk
     ELSE ddisk' = [ddisk EXCEPT ![b] = dbuf[b]] /\ UNCHANGED idisk
  /\ UNCHANGED <<pages, ilock, jlock, joined, inode, dbuf, ibuf, log, merr, st, ghost, faults>>

(* Mutant: the commit does not wait for the data. *)
BarrierNotWaited(t) ==
  /\ st[t].pc = "barrier"
  /\ Goto(t, "commit")
  /\ UNCHANGED <<pages, ilock, jlock, joined, inode, buffers, device, merr, ghost, faults>>

(* cryexts_journal_ordered_barrier *)
Barrier(t) ==
  /\ st[t].pc = "barrier" /\ bdirty = {}
  /\ Goto(t, "commit")
  /\ UNCHANGED <<pages, ilock, jlock, joined, inode, buffers, device, merr, ghost, faults>>

(* The inode block, if recorded, is copied from its buffer into the log.    *)
(* writepage unlocks its page.                                              *)
Commit(t) ==
  /\ st[t].pc = "commit"
  /\ log' = IF joined THEN Append(log, ibuf) ELSE log
  /\ jlock' = Nobody /\ joined' = FALSE
  /\ lock' = IF t = Kswapd THEN [lock EXCEPT ![st[t].page] = Nobody] ELSE lock
  /\ After(t)
  /\ UNCHANGED <<ver, dirty, ilock, inode, buffers, ddisk, idisk, merr, ghost, faults>>

(* The transaction is gone: writepage gives its page up; writepages returns *)
(* the error, to fsync or to the flusher, which has nobody to tell.         *)
TransactionLost(t) ==
  /\ IF t = Kswapd THEN GiveUpPage(t)
     ELSE /\ merr' = (merr /\ t # Syncer)
          /\ UNCHANGED <<lock, dirty>>
  /\ jlock' = Nobody /\ joined' = FALSE
  /\ st' = [st EXCEPT ![t] = Idle]
  /\ ghost' = [ghost EXCEPT !.failed = TRUE, !.dropped = @ \/ t = Flusher,
                            !.told = IF t = Syncer THEN dbuf ELSE @]
  /\ UNCHANGED <<ver, ilock, inode, dbuf, ibuf, device>>

(* A block that the barrier writes fails: its buffer is clean all the same, *)
(* and sync_blockdev clears the error of the device as it returns it.       *)
BarrierFails(t) ==
  /\ faults < MaxFaults /\ st[t].pc = "barrier"
  /\ faults' = faults + 1
  /\ \E b \in bdirty : bdirty' = bdirty \ {b}
  /\ TransactionLost(t)

(* The log cannot be written, or its ring has no space. *)
CommitFails(t) ==
  /\ faults < MaxFaults /\ st[t].pc = "commit"
  /\ faults' = faults + 1
  /\ TransactionLost(t)
  /\ UNCHANGED bdirty
-----------------------------------------------------------------------------
(* cryexts_fsync, after its writeback. *)

UnderWriteback(p) == lock[p] \in Batch \cup {Kswapd}

(* filemap_fdatawait_range and file_check_and_advance_wb_err. *)
FsyncWait ==
  /\ st[Syncer].pc = "wait" /\ \A p \in Page : ~UnderWriteback(p)
  /\ merr' = FALSE
  /\ Goto(Syncer, IF merr THEN "idle" ELSE "inode")
  /\ ghost' = [ghost EXCEPT !.told = IF merr THEN dbuf ELSE @]
  /\ UNCHANGED <<pages, ilock, jlock, joined, inode, buffers, device, faults>>

(* write_inode_to_disk under the inode lock, outside any transaction. *)
FsyncInode ==
  /\ st[Syncer].pc = "inode" /\ ilock = Nobody
  /\ WriteInode
  /\ Goto(Syncer, "sync")
  /\ UNCHANGED <<pages, ilock, jlock, inode, dbuf, device, merr, ghost, faults>>

(* cryexts_sync_metadata ends in sync_blockdev; fsync returns 0. *)
FsyncDone ==
  /\ st[Syncer].pc = "sync" /\ bdirty = {}
  /\ Goto(Syncer, "idle")
  /\ ghost' = [ghost EXCEPT !.synced = ghost.want]
  /\ UNCHANGED <<pages, ilock, jlock, joined, inode, buffers, device, merr, faults>>
-----------------------------------------------------------------------------
(* cryexts_journal_checkpoint_sync *)

WorkerBegin ==
  /\ st[Worker].pc = "idle" /\ log # <<>> /\ jlock = Nobody
  /\ jlock' = Worker
  /\ Goto(Worker, "home")
  /\ UNCHANGED <<pages, ilock, joined, inode, buffers, device, merr, ghost, faults>>

(* write_sync of the oldest image to the inode block. *)
WorkerHome ==
  /\ st[Worker].pc = "home"
  /\ ibuf' = Head(log) /\ idisk' = Head(log)
  /\ bdirty' = bdirty \ {InodeBlock}
  /\ Goto(Worker, "advance")
  /\ UNCHANGED <<pages, ilock, jlock, joined, inode, dbuf, ddisk, log, merr, ghost, faults>>

(* Mutant: the tail jumps over the segments not yet written home. *)
WorkerAdvanceAll ==
  /\ st[Worker].pc = "advance"
  /\ log' = <<>>
  /\ Goto(Worker, "idle") /\ jlock' = Nobody
  /\ UNCHANGED <<pages, ilock, joined, inode, buffers, ddisk, idisk, merr, ghost, faults>>

(* The control block moves the tail; the loop goes on while there is more. *)
WorkerAdvance ==
  /\ st[Worker].pc = "advance"
  /\ log' = Tail(log)
  /\ IF Tail(log) = <<>> THEN Goto(Worker, "idle") /\ jlock' = Nobody
     ELSE Goto(Worker, "home") /\ UNCHANGED jlock
  /\ UNCHANGED <<pages, ilock, joined, inode, buffers, ddisk, idisk, merr, ghost, faults>>
-----------------------------------------------------------------------------
Next ==
  \/ WriteStart \/ WriteBegin \/ WriteEnd \/ SetAttr
  \/ FlushStart \/ FsyncStart \/ FsyncWait \/ FsyncInode \/ FsyncDone
  \/ \E t \in Batch : WritepagesBegin(t) \/ WritepagesLock(t) \/ WritepagesEnd(t)
  \/ WritepageBegin \/ (\E p \in Page : ReclaimPage(p))
  \/ \E t \in Batch \cup {Kswapd} :
       PageMap(t) \/ PageData(t) \/ PageInode(t) \/ PageFails(t)
       \/ Barrier(t) \/ Commit(t) \/ BarrierFails(t) \/ CommitFails(t)
  \/ WorkerBegin \/ WorkerHome \/ WorkerAdvance
  \/ \E b \in Page \cup {InodeBlock} : Writeback(b)

Spec == Init /\ [][Next]_vars
-----------------------------------------------------------------------------
(* The inode a crash now would recover: replay writes the images in order. *)
Recovered == IF log = <<>> THEN idisk ELSE log[Len(log)]

(* data=ordered: a committed image of the inode refers only to blocks whose *)
(* data has reached the device, however transactions of writepages and      *)
(* writepage, fsync and setattr interleave.  Once a writeback failed this   *)
(* is not so: the page keeps its block in the in-memory inode, and the next *)
(* transaction commits it.                                                  *)
OrderedCommit ==
  ~ghost.failed => \A k \in 1 .. Len(log) : \A p \in log[k].map : ddisk[p] # 0

(* A page that is clean and not being written has its contents in the       *)
(* buffer cache: no failure of allocation, I/O or commit drops a write.     *)
NoLostWrite ==
  \A p \in Page : p \notin dirty /\ lock[p] = Nobody => dbuf[p] = ver[p]

(* Once fsync returned 0, what it covered is on the device, unless an       *)
(* earlier fsync of the file has returned an error for it.                  *)
ErrorReachesFsync ==
  \A p \in Page : ghost.synced.data[p] > ghost.told[p] =>
    ddisk[p] >= ghost.synced.data[p]

(* Every failure reaches fsync that way, those of kswapd's writepage and of *)
(* pages of the flusher's batches included, except a failed commit of the   *)
(* flusher's own transaction.                                               *)
SyncedDataOnDevice == ~ghost.dropped => ErrorReachesFsync

(* As long as nothing failed, once no transaction runs every clean page is  *)
(* recoverable after a crash, data and block pointer.                       *)
CleanIsCommitted ==
  ~ghost.failed /\ jlock = Nobody =>
    \A p \in Page : p \notin dirty /\ lock[p] = Nobody /\ ver[p] # 0 =>
      p \in Recovered.map /\ ddisk[p] = ver[p]

(* A crash after fsync returned 0 recovers the data and the attributes it   *)
(* covered.                                                                 *)
FsyncDurable ==
  /\ \A p \in Page : ghost.synced.data[p] # 0 =>
        p \in Recovered.map /\ ddisk[p] >= ghost.synced.data[p]
  /\ Recovered.attr >= ghost.synced.attr

(* Who waits for whom. *)
WaitsFor(t) ==
  CASE st[t].pc = "begin" -> {jlock}
    [] t \in Batch /\ st[t].pc = "pages" /\ st[t].todo # {} -> {lock[NextPage(st[t].todo)]}
    [] t = Writer /\ st[t].pc = "grab" -> {lock[st[t].page]}
    [] t = Syncer /\ st[t].pc = "wait" -> {lock[p] : p \in {q \in Page : UnderWriteback(q)}}
    [] t = Syncer /\ st[t].pc = "inode" -> {ilock}
    [] OTHER -> {}

(* No set of tasks in which each waits for a lock another one holds: page   *)
(* locks, journal_lock and the inode lock are taken in an order.            *)
NoWaitCycle ==
  \A S \in SUBSET Task : S # {} => \E t \in S : WaitsFor(t) \cap S = {}
=============================================================================
