----------------------------- MODULE Directory ------------------------------
(***************************************************************************)
(* One directory of dir.c: the records in its blocks, the index block that *)
(* says for every hash bucket which blocks hold a name of it, and a        *)
(* readdir that goes on between changes.  Changes hold i_rwsem, so each is *)
(* one step; readdir gives it up between two calls.  Lengths are in units  *)
(* of the record header.                                                   *)
(***************************************************************************)
EXTENDS Search, Sequences, FiniteSets

CONSTANTS Name,        \* names files may have
          Need,        \* cryexts_dir_rec_len of each
          Hash,        \* bucket of each name and of "." and ".."
          BlockLen, MaxBlocks,   \* block size; CRYEXTS_DIRECT_BLOCKS
          Space,       \* free blocks of the volume
          HasIndex,    \* CRYEXTS_FEATURE_INCOMPAT_DIR_INDEX
          Csum,        \* metadata checksums
          MaxFaults    \* bound: failed calls

Dots == {"dot", "dotdot"}
Free == "free"
Bucket == {Hash[n] : n \in Name \cup Dots}
NameLen(n) == IF n \in Name THEN Need[n] ELSE 1

ASSUME DirectoryAssumption ==
  /\ Need \in [Name -> 1 .. BlockLen] /\ Name \cap (Dots \cup {Free}) = {}
  /\ Name \cup Dots \subseteq DOMAIN Hash
  /\ BlockLen \in Nat /\ BlockLen >= 2 /\ MaxBlocks \in Nat \ {0} /\ Space \in Nat
  /\ HasIndex \in BOOLEAN /\ Csum \in BOOLEAN /\ MaxFaults \in Nat

VARIABLES
  blocks,  \* records of every block: a name or Free, and rec_len
  index,   \* the index block, NoIndex while there is none
  space,   \* free blocks
  scan,    \* a readdir: position, names emitted; NoScan
  hurt     \* ghost: calls that failed

vars == <<blocks, index, space, scan, hurt>>

NoIndex == [masks |-> [b \in {} |-> {}], blocks |-> 0, entries |-> 0]
NoScan == [pos |-> 0, seen |-> [n \in Name |-> 0], stable |-> {}, on |-> FALSE]
Record(n, len) == [name |-> n, len |-> len]

(* mkfs makes the root without an index, init_dir_block any other directory *)
(* with one.                                                               *)
NewDir == <<<<Record("dot", 1), Record("dotdot", BlockLen - 1)>>>>
-----------------------------------------------------------------------------
Recs(bl) == {r \in (1 .. Len(bl)) \X (1 .. BlockLen) : r[2] <= Len(bl[r[1]])}
NameAt(bl, r) == bl[r[1]][r[2]].name
Live(bl) == {r \in Recs(bl) : NameAt(bl, r) # Free}
First(R) == CHOOSE r \in R : \A q \in R : r[1] < q[1] \/ (r[1] = q[1] /\ r[2] <= q[2])

(* cryexts_dir_index_rebuild *)
Rebuilt(bl) ==
  [masks |-> [h \in Bucket |-> {r[1] : r \in {x \in Live(bl) : Hash[NameAt(bl, x)] = h}}],
   blocks |-> Len(bl), entries |-> Cardinality(Live(bl))]

(* cryexts_find_entry: a bucket without blocks, like an index that cannot  *)
(* be read, means all blocks.                                              *)
Candidates(bl, ix, n) ==
  IF ix = NoIndex \/ ix.masks[Hash[n]] = {} THEN 1 .. Len(bl) ELSE ix.masks[Hash[n]]

Matches(bl, n) == {r \in Recs(bl) : NameAt(bl, r) = n}
Find(bl, ix, n) == {r \in Matches(bl, n) : r[1] \in Candidates(bl, ix, n)}

(* The first record with room for n: a free one, or one with enough behind *)
(* its name.                                                               *)
Room(bl, n) ==
  {r \in Recs(bl) :
     LET x == bl[r[1]][r[2]]
     IN \/ x.name = Free /\ x.len >= NameLen(n)
        \/ x.name # Free /\ x.len >= NameLen(x.name) + NameLen(n)}

Replace(s, k, t) == SubSeq(s, 1, k - 1) \o t \o SubSeq(s, k + 1, Len(s))

(* Mutant: the record that is split keeps its length. *)
Mut_Inserted(bl, r, n) ==
  LET x == bl[r[1]][r[2]]
      t == IF x.name = Free THEN <<Record(n, x.len)>>
           ELSE <<x, Record(n, x.len - NameLen(x.name))>>
  IN [bl EXCEPT ![r[1]] = Replace(@, r[2], t)]

(* Write n into record r, or behind its name. *)
Inserted(bl, r, n) ==
  LET x == bl[r[1]][r[2]]
      t == IF x.name = Free THEN <<Record(n, x.len)>>
           ELSE <<Record(x.name, NameLen(x.name)), Record(n, x.len - NameLen(x.name))>>
  IN [bl EXCEPT ![r[1]] = Replace(@, r[2], t)]

(* Mutant: a directory that grew keeps its old block count in the index. *)
Mut_Counted(ix, bl, n, b) ==
  [ix EXCEPT !.masks[Hash[n]] = @ \cup {b}, !.entries = @ + 1]

(* cryexts_dir_index_add_name for a name in block b of bl, the index read. *)
Counted(ix, bl, n, b) ==
  [masks |-> [ix.masks EXCEPT ![Hash[n]] = @ \cup {b}],
   blocks |-> Len(bl), entries |-> ix.entries + 1]

(* cryexts_dir_index_remove_name, n gone from bl. *)
Uncounted(ix, bl, n, b) ==
  LET still == \E r \in Live(bl) : r[1] = b /\ Hash[NameAt(bl, r)] = Hash[n]
  IN [masks |-> [ix.masks EXCEPT ![Hash[n]] = IF still THEN @ ELSE @ \ {b}],
      blocks |-> Len(bl), entries |-> IF ix.entries = 0 THEN 0 ELSE ix.entries - 1]
-----------------------------------------------------------------------------
Init ==
  /\ blocks = NewDir
  /\ index \in IF HasIndex THEN {NoIndex, Rebuilt(NewDir)} ELSE {NoIndex}
  /\ space = Space /\ scan = NoScan /\ hurt = {}

(* What a block that is new to the directory may hold: nothing of sense,   *)
(* or the index of an earlier file system on this device.                  *)
Old == {NoIndex} \cup {[masks |-> [h \in Bucket |-> {2}], blocks |-> 2, entries |-> 3]}

(* Mutant: the checksum is not looked at. *)
Mut_Loads(ix) == ix # NoIndex

(* cryexts_dir_index_load of such a block. *)
Loads(ix) == ix # NoIndex /\ ~Csum

(* The answers of cryexts_dir_index_add_name, ensure and load included:    *)
(* index and blocks taken.                                                 *)
AddedIndex(bl, n, b) ==
  IF ~HasIndex THEN {<<index, 0>>}
  ELSE IF index # NoIndex THEN {<<Counted(index, bl, n, b), 0>>}
  ELSE {<<IF Loads(raw) THEN Counted(raw, bl, n, b) ELSE Rebuilt(bl), 1>> : raw \in Old}

(* Where add_entry puts n: the blocks, the block of n, and the blocks taken. *)
Placed(n) ==
  IF Room(blocks, n) # {}
  THEN LET r == First(Room(blocks, n)) IN {<<Inserted(blocks, r, n), r[1], 0>>}
  ELSE IF Len(blocks) < MaxBlocks /\ space > 0
  THEN {<<Append(blocks, <<Record(n, BlockLen)>>), Len(blocks) + 1, 1>>}
  ELSE {}

(* cryexts_add_entry *)
Add(n) ==
  /\ Find(blocks, index, n) = {}
  /\ \E p \in Placed(n) : \E a \in AddedIndex(p[1], n, p[2]) :
       /\ p[3] + a[2] <= space
       /\ blocks' = p[1] /\ index' = a[1] /\ space' = space - p[3] - a[2]
  /\ UNCHANGED <<scan, hurt>>

Fault(f) == Cardinality(hurt) < MaxFaults /\ hurt' = hurt \cup {f}

(* The entry is in when the write of the inode fails, or no block is left  *)
(* for the index.                                                          *)
AddFails(n) ==
  /\ Find(blocks, index, n) = {}
  /\ \E p \in Placed(n) :
       /\ blocks' = p[1] /\ space' = space - p[3]
       /\ \/ Fault("inode")
          \/ HasIndex /\ index = NoIndex /\ space = p[3] /\ UNCHANGED hurt
  /\ UNCHANGED <<index, scan>>

(* The index cannot be read or written: it is built anew. *)
AddRebuilds(n) ==
  /\ HasIndex /\ index # NoIndex /\ Find(blocks, NoIndex, n) = {}
  /\ Fault("index")
  /\ \E p \in Placed(n) : blocks' = p[1] /\ space' = space - p[3] /\ index' = Rebuilt(p[1])
  /\ UNCHANGED scan

(* Mutant: the free record is joined to the one before it. *)
Mut_Emptied(bl, r) ==
  IF r[2] = 1 THEN [bl EXCEPT ![r[1]][r[2]].name = Free]
  ELSE LET s == bl[r[1]]
           joined == Record(s[r[2] - 1].name, s[r[2] - 1].len + s[r[2]].len)
       IN [bl EXCEPT ![r[1]] = SubSeq(s, 1, r[2] - 2) \o <<joined>>
                                 \o SubSeq(s, r[2] + 1, Len(s))]

Emptied(bl, r) == [bl EXCEPT ![r[1]][r[2]].name = Free]

Forget(n) == scan' = [scan EXCEPT !.stable = @ \ {n}]

(* cryexts_delete_entry; a directory without index gets one by a rebuild.  *)
Delete(n) ==
  /\ Find(blocks, index, n) # {}
  /\ LET r == First(Find(blocks, index, n))
     IN /\ blocks' = Emptied(blocks, r)
        /\ IF HasIndex /\ index = NoIndex
           THEN space > 0 /\ space' = space - 1 /\ index' = Rebuilt(blocks')
           ELSE /\ index' = IF HasIndex THEN Uncounted(index, blocks', n, r[1]) ELSE index
                /\ UNCHANGED space
  /\ Forget(n) /\ UNCHANGED hurt

DeleteRebuilds(n) ==
  /\ HasIndex /\ index # NoIndex /\ Matches(blocks, n) # {}
  /\ Fault("index")
  /\ blocks' = Emptied(blocks, First(Matches(blocks, n))) /\ index' = Rebuilt(blocks')
  /\ Forget(n) /\ UNCHANGED space

DeleteFails(n) ==
  /\ Find(blocks, index, n) # {}
  /\ blocks' = Emptied(blocks, First(Find(blocks, index, n)))
  /\ \/ Fault("inode")
     \/ HasIndex /\ index = NoIndex /\ space = 0 /\ UNCHANGED hurt
  /\ Forget(n) /\ UNCHANGED <<index, space>>
-----------------------------------------------------------------------------
(* cryexts_iterate: one record at a time, as many calls as there are       *)
(* records when the reader's buffer holds one.                             *)
Offset(s, k) == LET f[i \in 0 .. k - 1] == IF i = 0 THEN 0 ELSE f[i - 1] + s[i].len IN f[k - 1]
Start(bl, b, k) == (b - 1) * BlockLen + Offset(bl[b], k)
At(bl, pos) == {r \in Recs(bl) : Start(bl, r[1], r[2]) = pos}
Present(n) == Matches(blocks, n) # {}

ReadStart ==
  /\ ~scan.on
  /\ scan' = [pos |-> 0, seen |-> [n \in Name |-> 0], on |-> TRUE,
              stable |-> {n \in Name : Present(n)}]
  /\ UNCHANGED <<blocks, index, space, hurt>>

ReadNext ==
  /\ scan.on
  /\ \E r \in At(blocks, scan.pos) :
       LET x == blocks[r[1]][r[2]]
       IN scan' = [scan EXCEPT !.pos = @ + x.len,
                               !.seen = [n \in Name |-> IF n = x.name THEN @[n] + 1 ELSE @[n]]]
  /\ UNCHANGED <<blocks, index, space, hurt>>

AtEnd == scan.on /\ scan.pos >= Len(blocks) * BlockLen

ReadEnd == AtEnd /\ scan' = NoScan /\ UNCHANGED <<blocks, index, space, hurt>>

(* cryexts_validate_dir_block, when the directory is read from disk again. *)
Validate(bl, ix) ==
  /\ Len(bl) \in 1 .. MaxBlocks
  /\ ix # NoIndex => /\ ix.blocks = Len(bl)
                     /\ \A r \in Live(bl) : r[1] \in ix.masks[Hash[NameAt(bl, r)]]
  /\ \A d \in Dots : Matches(bl, d) # {}

Next ==
  \/ \E n \in Name :
       \/ Add(n) \/ AddFails(n) \/ AddRebuilds(n)
       \/ Delete(n) \/ DeleteFails(n) \/ DeleteRebuilds(n)
  \/ ReadStart \/ ReadNext \/ ReadEnd

Spec == Init /\ [][Next]_vars
-----------------------------------------------------------------------------
(* Entry and index disagree after a failed write of the directory's inode. *)
Untold == "inode" \in hurt

(* A lookup through the index finds a name exactly when some block holds   *)
(* it, and no name is there twice: after any creations and removals, an    *)
(* index built anew, a directory that grew, names that share a bucket, and *)
(* an old index found in the block the directory takes for its own.        *)
FindsAll ==
  Untold \/ \A n \in Name \cup Dots : /\ Find(blocks, index, n) = Matches(blocks, n)
                                     /\ Cardinality(Matches(blocks, n)) <= 1

(* The records of every block fill it exactly and hold their names, so     *)
(* every later walk meets only valid rec_len values.                       *)
RecordsFit ==
  \A b \in 1 .. Len(blocks) :
    /\ Offset(blocks[b], Len(blocks[b]) + 1) = BlockLen
    /\ \A k \in 1 .. Len(blocks[b]) :
         LET x == blocks[b][k] IN x.len >= IF x.name = Free THEN 1 ELSE NameLen(x.name)

(* The index kept up entry by entry is the one a rebuild would make, with  *)
(* no stale bit and the right counts: cryextsck compares the counts, and   *)
(* validate_dir_block refuses the directory for a wrong block count.       *)
IndexExact == Untold \/ index = NoIndex \/ (index = Rebuilt(blocks) /\ Validate(blocks, index))

(* A readdir that is interrupted by creations and removals goes on at the  *)
(* start of a record and, at its end, has emitted every name that was      *)
(* there all the time exactly once.                                        *)
ReaddirComplete ==
  /\ scan.on => AtEnd \/ At(blocks, scan.pos) # {}
  /\ AtEnd /\ ~Untold => \A n \in scan.stable : scan.seen[n] = 1
=============================================================================
