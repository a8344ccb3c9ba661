----------------------------- MODULE ExtentMap ------------------------------
(***************************************************************************)
(* How inode.c maps the blocks of one file: twelve direct blocks and an    *)
(* indirect block ("indirect"), extents in the inode ("inline"), extents   *)
(* in the inode and one overflow block ("root"), and the root references   *)
(* and leaf blocks of EXTENT_TREE_V2 ("tree").  The operations of a file   *)
(* run under its inode lock, and cryexts_free_block cannot fail for a      *)
(* valid block, so each of them is one step.  Sizes are in blocks.         *)
(***************************************************************************)
EXTENDS Naturals, Sequences, FiniteSets, SequencesExt

CONSTANTS NBlocks,    \* data blocks 1 .. NBlocks of the volume
          Formats,    \* of "indirect", "inline", "root", "tree"
          Direct, Indirect,      \* entries of the inode and of an indirect block
          MaxInline, RootInline, \* extents in an inode without and with overflow
          PerBlock, RootRefs,    \* extents of a leaf, references of the root
          MaxLen,     \* blocks of an extent
          Starts,     \* bound: where the allocator may begin its search
          MaxSize,    \* bound: blocks of the file
          MinFree     \* bound: at least so many blocks are free at the start

ASSUME ExtentAssumption ==
  /\ NBlocks \in Nat /\ Formats \subseteq {"indirect", "inline", "root", "tree"}
  /\ {Direct, Indirect, MaxInline, RootInline, PerBlock, RootRefs, MaxLen} \subseteq Nat \ {0}
  /\ Starts \subseteq Nat /\ Starts # {} /\ MaxSize \in Nat /\ MinFree \in 0 .. NBlocks

VARIABLES
  fmt,   \* inode_flags
  m,     \* cryexts_inode_info
  size,  \* i_size
  free,  \* clear bits of the block bitmap
  mine   \* history: the blocks that were free before the file was made

vars == <<fmt, m, size, free, mine>>

Blocks == 1 .. NBlocks
Logical == 0 .. MaxSize - 1
Extent(l, p, n) == [l |-> l, p |-> p, n |-> n]

Empty == [inl |-> <<>>, ovf |-> <<>>, ovb |-> 0, leaves |-> <<>>, lblk |-> <<>>,
          direct |-> [i \in 0 .. Direct - 1 |-> 0],
          ind |-> 0, ents |-> [i \in 0 .. Indirect - 1 |-> 0]]

Init ==
  /\ fmt \in Formats /\ m = Empty /\ size = 0
  /\ free \in {S \in SUBSET Blocks : Cardinality(S) >= MinFree} /\ mine = free

(* cryexts_extent_entry and cryexts_extent_total_entries: the lists of      *)
(* extents one after the other.                                             *)
Lists(x) == IF fmt = "tree" THEN x.leaves ELSE <<x.inl, x.ovf>>
Entries(x) == FlattenSeq(Lists(x))

Covers(e, l) == e.l <= l /\ l < e.l + e.n
First(S) == CHOOSE s \in S : \A o \in S : s[1] < o[1] \/ (s[1] = o[1] /\ s[2] <= o[2])

(* cryexts_inode_block_at: the first extent that covers the block. *)
Lookup(x, l) ==
  IF fmt = "indirect"
  THEN IF l < Direct THEN x.direct[l]
       ELSE IF x.ind = 0 \/ l >= Direct + Indirect THEN 0 ELSE x.ents[l - Direct]
  ELSE LET ls == Lists(x)
           hit == UNION {{<<i, k>> : k \in {k \in 1 .. Len(ls[i]) : Covers(ls[i][k], l)}} :
                         i \in 1 .. Len(ls)}
       IN IF hit = {} THEN 0
          ELSE LET e == ls[First(hit)[1]][First(hit)[2]] IN e.p + (l - e.l)

(* cryexts_extent_file_blocks_max_for_blocks, CRYEXTS_FILE_BLOCKS_MAX. *)
Limit ==
  CASE fmt = "indirect" -> Direct + Indirect
    [] fmt = "inline" -> MaxInline * MaxLen
    [] fmt = "root" -> (RootInline + PerBlock) * MaxLen
    [] fmt = "tree" -> RootRefs * PerBlock * MaxLen

InlineMax == IF fmt = "root" THEN RootInline ELSE MaxInline
-----------------------------------------------------------------------------
(* cryexts_append_extent_entry_v2: the place of the first extent behind the *)
(* block, or the end of the last leaf, or a new leaf in block lb.           *)
Slots(x, l) == {s \in (1 .. Len(x.leaves)) \X (1 .. PerBlock) :
                  s[2] <= Len(x.leaves[s[1]]) /\ l < x.leaves[s[1]][s[2]].l}
LastLeafFull(x) == IF x.leaves = <<>> THEN TRUE ELSE Len(Last(x.leaves)) >= PerBlock
NeedsLeaf(x, l) == Slots(x, l) = {} /\ LastLeafFull(x)

(* The search for the slot is left out: the extent goes to the end. *)
Mut_AppendTree(x, l, p, lb) ==
  IF LastLeafFull(x)
  THEN [x EXCEPT !.leaves = Append(@, <<Extent(l, p, 1)>>), !.lblk = Append(@, lb)]
  ELSE [x EXCEPT !.leaves[Len(x.leaves)] = Append(@, Extent(l, p, 1))]

AppendTree(x, l, p, lb) ==
  IF NeedsLeaf(x, l)
  THEN [x EXCEPT !.leaves = Append(@, <<Extent(l, p, 1)>>), !.lblk = Append(@, lb)]
  ELSE LET n == Len(x.leaves)
           s == IF Slots(x, l) # {} THEN First(Slots(x, l))
                ELSE <<n, Len(x.leaves[n]) + 1>>
       IN [x EXCEPT !.leaves[s[1]] = InsertAt(@, s[2], Extent(l, p, 1))]

(* A block that belongs into a full leaf is refused. *)
TreeFull(x, l) ==
  IF Slots(x, l) # {} THEN Len(x.leaves[First(Slots(x, l))[1]]) >= PerBlock
  ELSE LastLeafFull(x) /\ Len(x.leaves) >= RootRefs

(* cryexts_append_extent_entry: inode first, then the overflow block. *)
NeedsOverflow(x) == Len(x.inl) >= InlineMax /\ x.ovb = 0
AppendList(x, l, p, ob) ==
  IF Len(x.inl) < InlineMax THEN [x EXCEPT !.inl = Append(@, Extent(l, p, 1))]
  ELSE [x EXCEPT !.ovf = Append(@, Extent(l, p, 1)), !.ovb = IF @ = 0 THEN ob ELSE @]
(* An inode without the overflow feature may still get an overflow block:   *)
(* append only looks at the number of extents.                              *)
ListFull(x) == Len(x.inl) >= InlineMax /\ Len(x.ovf) >= PerBlock

(* cryexts_try_merge_last_extent: the block behind the last extent. *)
LastEntry(x) == Last(Entries(x))
Mergeable(x, l) ==
  /\ Entries(x) # <<>>
  /\ l = LastEntry(x).l + LastEntry(x).n /\ LastEntry(x).n < MaxLen
Wanted(x) == LastEntry(x).p + LastEntry(x).n
Merge(x) ==
  IF fmt = "tree"
  THEN [x EXCEPT !.leaves[Len(x.leaves)][Len(Last(x.leaves))].n = @ + 1]
  ELSE IF x.ovf # <<>> THEN [x EXCEPT !.ovf[Len(x.ovf)].n = @ + 1]
  ELSE [x EXCEPT !.inl[Len(x.inl)].n = @ + 1]

(* cryexts_alloc_block_goal: the first free block from the goal (PREALLOC)  *)
(* or from next_data_block, which the other files move about.               *)
NextFit(s, pool) ==
  LET above == {b \in pool : b >= s}
      from == IF above = {} THEN pool ELSE above
  IN CHOOSE b \in from : \A o \in from : b <= o
Allocs(goals, pool) == IF pool = {} THEN {} ELSE {NextFit(s, pool) : s \in Starts \cup goals}

(* An operation that returns an error and leaves mapping and bitmap alone. *)
Fails == UNCHANGED <<m, free>>

(* cryexts_resolve_block with create, for a block without a mapping.  The   *)
(* block got for a merge is given back if it is not the one wanted.         *)
MayMerge(l) == Mergeable(m, l) /\ Wanted(m) \in Allocs({Wanted(m)}, free)
MustMerge(l) == Mergeable(m, l) /\ Allocs({Wanted(m)}, free) = {Wanted(m)}

Place(l, p, b) ==
  /\ m' = IF fmt = "tree" THEN AppendTree(m, l, p, b) ELSE AppendList(m, l, p, b)
  /\ free' = free \ {p, b}

ResolveExtent(l) ==
  LET meta == IF fmt = "tree" THEN NeedsLeaf(m, l) ELSE NeedsOverflow(m)
      full == IF fmt = "tree" THEN TreeFull(m, l) ELSE ListFull(m)
  IN \/ free = {} /\ Fails
     \/ /\ MayMerge(l)
        /\ m' = Merge(m) /\ free' = free \ {Wanted(m)}
     \/ /\ free # {} /\ ~MustMerge(l)
        /\ full \/ (meta /\ Cardinality(free) = 1)
        /\ Fails
     \/ /\ ~MustMerge(l) /\ ~full
        /\ \E p \in Allocs({}, free) :
             IF meta THEN \E b \in Allocs({}, free \ {p}) : Place(l, p, b) ELSE Place(l, p, 0)

(* The indirect block is kept although the block it was made for fails. *)
ResolveIndirect(l) ==
  \/ free = {} /\ Fails
  \/ /\ l < Direct
     /\ \E p \in Allocs({}, free) :
          m' = [m EXCEPT !.direct[l] = p] /\ free' = free \ {p}
  \/ /\ l >= Direct /\ m.ind = 0 /\ Cardinality(free) = 1
     /\ \E b \in free : m' = [m EXCEPT !.ind = b] /\ free' = {}
  \/ /\ l >= Direct /\ m.ind = 0
     /\ \E b \in Allocs({}, free) : \E p \in Allocs({}, free \ {b}) :
          /\ m' = [m EXCEPT !.ind = b, !.ents[l - Direct] = p]
          /\ free' = free \ {b, p}
  \/ /\ l >= Direct /\ m.ind # 0
     /\ \E p \in Allocs({}, free) :
          m' = [m EXCEPT !.ents[l - Direct] = p] /\ free' = free \ {p}

(* writepage of a page inside i_size. *)
Resolve(l) ==
  /\ l < size /\ l < Limit /\ Lookup(m, l) = 0
  /\ IF fmt = "indirect" THEN ResolveIndirect(l) ELSE ResolveExtent(l)
  /\ UNCHANGED <<fmt, size, mine>>
-----------------------------------------------------------------------------
(* cryexts_free_blocks_from *)
BlocksOf(e) == e.p .. e.p + e.n - 1

(* The extent that the new size cuts keeps its length. *)
Mut_Cut(e, keep) == IF keep <= e.l THEN <<>> ELSE <<e>>

Cut(e, keep) ==
  IF keep >= e.l + e.n THEN <<e>>
  ELSE IF keep <= e.l THEN <<>> ELSE <<Extent(e.l, e.p, keep - e.l)>>
CutAll(es, keep) == FlattenSeq([i \in 1 .. Len(es) |-> Cut(es[i], keep)])
CutOff(e, keep) == {b \in BlocksOf(e) : b - e.p >= keep - e.l}
AllCutOff(x, keep) == UNION {CutOff(Entries(x)[i], keep) : i \in 1 .. Len(Entries(x))}

(* cryexts_drop_extent_leaf: the leaves that are empty now. *)
Emptied(ls) == {i \in 1 .. Len(ls) : ls[i] = <<>>}
Ascending(S) ==
  CHOOSE s \in [1 .. Cardinality(S) -> S] :
    \A i, j \in 1 .. Cardinality(S) : i < j => s[i] < s[j]
DropLeaves(x, ls) ==
  LET live == Ascending(DOMAIN ls \ Emptied(ls))
  IN [x EXCEPT !.leaves = [i \in 1 .. Len(live) |-> ls[live[i]]],
               !.lblk = [i \in 1 .. Len(live) |-> x.lblk[live[i]]]]
LeafBlocks(x, ls) == {x.lblk[i] : i \in Emptied(ls)}

FreeTree(keep) ==
  LET ls == [i \in 1 .. Len(m.leaves) |-> CutAll(m.leaves[i], keep)]
  IN /\ m' = DropLeaves(m, ls)
     /\ free' = free \cup AllCutOff(m, keep) \cup LeafBlocks(m, ls)

(* An extent of the overflow block takes the place of one freed in front of *)
(* it, and the overflow block goes with its last extent.                    *)
FreeList(keep) ==
  LET es == CutAll(Entries(m), keep)
      n == IF Len(es) < Len(m.inl) THEN Len(es) ELSE Len(m.inl)
  IN /\ m' = [m EXCEPT !.inl = SubSeq(es, 1, n), !.ovf = SubSeq(es, n + 1, Len(es)),
                       !.ovb = IF Len(es) = n THEN 0 ELSE @]
     /\ free' = free \cup AllCutOff(m, keep) \cup (IF Len(es) = n THEN {m.ovb} \ {0} ELSE {})

FreeIndirect(keep) ==
  LET ents == [i \in DOMAIN m.ents |-> IF Direct + i >= keep THEN 0 ELSE m.ents[i]]
      empty == \A i \in DOMAIN ents : ents[i] = 0
      gone == {m.direct[i] : i \in {i \in DOMAIN m.direct : i >= keep}}
                \cup {m.ents[i] : i \in {i \in DOMAIN ents : Direct + i >= keep}}
  IN /\ m' = [m EXCEPT !.direct = [i \in DOMAIN @ |-> IF i >= keep THEN 0 ELSE @[i]],
                       !.ents = ents, !.ind = IF empty THEN 0 ELSE @]
     /\ free' = free \cup ((gone \cup (IF empty THEN {m.ind} ELSE {})) \ {0})

FreeFrom(keep) ==
  CASE fmt = "tree" -> FreeTree(keep)
    [] fmt = "indirect" -> FreeIndirect(keep)
    [] OTHER -> FreeList(keep)

(* cryexts_setattr: a smaller size frees blocks, a larger one does not; a   *)
(* write extends i_size before its page is written back.                    *)
SetSize(n) ==
  /\ n # size /\ n <= Limit /\ n <= size + 1   \* more is growth repeated
  /\ size' = n
  /\ IF n < size THEN FreeFrom(n) ELSE UNCHANGED <<m, free>>
  /\ UNCHANGED <<fmt, mine>>
-----------------------------------------------------------------------------
(* The second half of a split keeps the physical start of the first. *)
Mut_Hole(e, a, b) ==
  IF b <= e.l \/ a >= e.l + e.n THEN <<e>>
  ELSE (IF a > e.l THEN <<Extent(e.l, e.p, a - e.l)>> ELSE <<>>)
       \o (IF b < e.l + e.n THEN <<Extent(b, e.p, e.l + e.n - b)>> ELSE <<>>)

(* cryexts_punch_hole_blocks of blocks a .. b - 1: an extent is dropped,    *)
(* shortened at either end, or split in two.                                *)
Hole(e, a, b) ==
  IF b <= e.l \/ a >= e.l + e.n THEN <<e>>
  ELSE (IF a > e.l THEN <<Extent(e.l, e.p, a - e.l)>> ELSE <<>>)
       \o (IF b < e.l + e.n THEN <<Extent(b, e.p + (b - e.l), e.l + e.n - b)>> ELSE <<>>)
HoleAll(es, a, b) == FlattenSeq([i \in 1 .. Len(es) |-> Hole(es[i], a, b)])
Punched(e, a, b) == {x \in BlocksOf(e) : LET l == e.l + (x - e.p) IN a <= l /\ l < b}
PunchTree(a, b) ==
  LET ls == [i \in 1 .. Len(m.leaves) |-> HoleAll(m.leaves[i], a, b)]
      es == Entries(m)
  IN /\ m' = DropLeaves(m, ls)
     /\ free' = free \cup LeafBlocks(m, ls) \cup UNION {Punched(es[i], a, b) : i \in 1 .. Len(es)}

(* A split needs room in its leaf.  A hole that splits an extent lies in    *)
(* it, so nothing has been changed when the split is refused.               *)
SplitsFullLeaf(x, a, b) ==
  \E i \in 1 .. Len(x.leaves) :
    /\ Len(x.leaves[i]) >= PerBlock
    /\ \E k \in 1 .. Len(x.leaves[i]) :
         LET e == x.leaves[i][k] IN e.l < a /\ b < e.l + e.n

(* fallocate: the hole ends at i_size; other formats are not supported. *)
Punch(a, b) ==
  /\ fmt = "tree" /\ a < b /\ b <= size
  /\ IF SplitsFullLeaf(m, a, b) THEN Fails
     ELSE PunchTree(a, b)
  /\ UNCHANGED <<fmt, size, mine>>
-----------------------------------------------------------------------------
(* cryexts_write_inode_to_disk: the references of the root repeat block,    *)
(* number and first logical block of the leaves.                            *)
Refs(x) == [i \in 1 .. Len(x.leaves) |->
              [blk |-> x.lblk[i], n |-> Len(x.leaves[i]),
               l |-> IF x.leaves[i] = <<>> THEN 0 ELSE x.leaves[i][1].l]]

(* Data blocks of the map, and the blocks that hold the map. *)
DataBlocks(x) ==
  IF fmt = "indirect"
  THEN ({x.direct[i] : i \in DOMAIN x.direct} \cup {x.ents[i] : i \in DOMAIN x.ents}) \ {0}
  ELSE UNION {BlocksOf(Entries(x)[i]) : i \in 1 .. Len(Entries(x))}
MetaBlocks(x) == ({x.ind, x.ovb} \cup {x.lblk[i] : i \in 1 .. Len(x.lblk)}) \ {0}

(* cryexts_inode_block_count *)
TotalLen(es) ==
  LET f[i \in 0 .. Len(es)] == IF i = 0 THEN 0 ELSE f[i - 1] + es[i].n IN f[Len(es)]
BlockCount(x) ==
  TotalLen(Entries(x))
    + Cardinality(MetaBlocks(x))
    + (IF fmt = "indirect" THEN Cardinality(DataBlocks(x)) ELSE 0)
DiskInode(x) ==
  [fmt |-> fmt, size |-> size, blocks |-> BlockCount(x), refs |-> Refs(x),
   leaves |-> x.leaves, inl |-> x.inl, ovb |-> IF fmt = "root" THEN x.ovb ELSE 0,
   ovf |-> IF fmt = "root" THEN x.ovf ELSE <<>>,
   direct |-> x.direct, ind |-> x.ind, ents |-> x.ents]

(* cryexts_validate_inode.  Extents are in order, do not overlap, are not   *)
(* longer than MaxLen and their blocks are marked used.                     *)
Used(b) == b \in Blocks \ free
InOrder(es) ==
  /\ \A i \in 1 .. Len(es) : es[i].n \in 1 .. MaxLen /\ \A b \in BlocksOf(es[i]) : Used(b)
  /\ \A i \in 1 .. Len(es) - 1 : es[i].l + es[i].n <= es[i + 1].l
ValidLeaf(d, i) ==
  /\ d.refs[i].n \in 1 .. PerBlock /\ Used(d.refs[i].blk)
  /\ Len(d.leaves[i]) = d.refs[i].n /\ d.leaves[i][1].l = d.refs[i].l
ValidTree(d) == Len(d.refs) <= RootRefs /\ \A i \in 1 .. Len(d.refs) : ValidLeaf(d, i)
ValidOverflow(d) ==
  /\ (d.ovb # 0) = (d.ovf # <<>>) /\ Len(d.ovf) <= PerBlock
  /\ d.ovb # 0 => Used(d.ovb)
DiskEntries(d) ==
  IF d.fmt = "tree" THEN FlattenSeq(d.leaves)
  ELSE d.inl \o d.ovf
ValidExtents(d) ==
  LET es == DiskEntries(d)
      n == TotalLen(es)
  IN /\ IF d.fmt = "tree" THEN ValidTree(d) ELSE Len(d.inl) <= InlineMax
     /\ d.fmt = "root" => ValidOverflow(d)
     /\ InOrder(es)
     /\ es # <<>> => Last(es).l + Last(es).n <= d.size
     /\ d.size = 0 => n = 0 /\ d.ovb = 0 /\ d.refs = <<>>
     /\ d.blocks = n + Len(d.refs) + (IF d.ovb # 0 THEN 1 ELSE 0)
ValidIndirect(d) ==
  LET data == ({d.direct[i] : i \in DOMAIN d.direct} \cup {d.ents[i] : i \in DOMAIN d.ents}) \ {0}
  IN /\ \A b \in data \cup ({d.ind} \ {0}) : Used(b)
     /\ d.size = 0 => data = {} /\ d.ind = 0
     /\ d.blocks = Cardinality(data) + (IF d.ind # 0 THEN 1 ELSE 0)
ValidateInode(d) ==
  /\ d.size <= Limit
  /\ IF d.fmt = "indirect" THEN ValidIndirect(d) ELSE ValidExtents(d)

(* cryexts_init_inode_blocks *)
Load(d) ==
  [Empty EXCEPT !.inl = d.inl, !.ovf = d.ovf, !.ovb = d.ovb, !.leaves = d.leaves,
                !.lblk = [i \in 1 .. Len(d.refs) |-> d.refs[i].blk],
                !.direct = d.direct, !.ind = d.ind, !.ents = d.ents]

(* The inode is evicted and read again. *)
Reload ==
  /\ LET d == DiskInode(m)
     IN ValidateInode(d) /\ m' = Load(d)
  /\ UNCHANGED <<fmt, size, free, mine>>
-----------------------------------------------------------------------------
Next ==
  \/ \E l \in Logical : Resolve(l)
  \/ \E n \in 0 .. MaxSize : SetSize(n)
  \/ \E a \in Logical, b \in 1 .. MaxSize : Punch(a, b)
  \/ Reload

Spec == Init /\ [][Next]_vars
-----------------------------------------------------------------------------
(* Whatever the format, the file is a map whose blocks come from the free   *)
(* ones and return to them exactly when they leave the map: no operation    *)
(* moves, loses or exposes a block of another place in the file.            *)
Abstract == INSTANCE BlockMap
  WITH Logical <- Logical, Blocks <- Blocks, map <- [l \in Logical |-> Lookup(m, l)], free <- free
IsBlockMap == Abstract!Spec

(* Every block taken from the bitmap is data or metadata of the file, each  *)
(* in one role only: truncate, punch and the errors of resolve_block leak   *)
(* nothing, and nothing of the file is free.                                *)
NoLeak ==
  /\ DataBlocks(m) \cup MetaBlocks(m) = mine \ free
  /\ DataBlocks(m) \cap MetaBlocks(m) = {}
  /\ free \subseteq mine

(* What write_inode_to_disk stores passes validate_inode and gives the same *)
(* mapping back.  Excepted are the extent lists without a tree once a block *)
(* was written in front of an earlier one (append does not sort them), and  *)
(* a list without the overflow feature that grew past the inode.            *)
Reloads ==
  \/ fmt \in {"inline", "root"} /\ ~InOrder(Entries(m))
  \/ fmt = "inline" /\ m.ovf # <<>>
  \/ ValidateInode(DiskInode(m)) /\ Load(DiskInode(m)) = m
=============================================================================
