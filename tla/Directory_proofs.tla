-------------------------- MODULE Directory_proofs ---------------------------
(***************************************************************************)
(* Directory for every set of names, length of them and hash, block size,  *)
(* number of blocks and of failed calls.                                   *)
(*                                                                         *)
(* Offsets are sums, given by a recursive function: the lemmas about them  *)
(* come first.  A record that is filled, split or emptied changes the      *)
(* names of its block by one and leaves every other record at its offset.  *)
(* So every call changes the names of the directory by one (Grown, Shrunk),*)
(* and the bit it sets or clears in the index is the one a rebuild would.  *)
(* Sound and Kept are the inductive invariant.                             *)
(***************************************************************************)
EXTENDS Directory, FiniteSetTheorems, SequenceTheorems, WellFoundedInduction, TLAPS

(* Every nonempty set of naturals has the element Least chooses. *)
LEMMA LeastInSet ==
  ASSUME NEW S \in SUBSET Nat, S # {}
  PROVE  Least(S) \in S /\ \A y \in S : Least(S) <= y
<1> DEFINE R == {ss \in Nat \X Nat : ss[1] < ss[2]}
<1>1. IsWellFoundedOn(R, Nat)
  BY NatLessThanWellFounded DEF OpToRel
<1>2. PICK x \in S : \A y \in S : ~(<<y, x>> \in R)
  <2> HIDE DEF R
  <2>. QED  BY <1>1, WFMin
<1>3. \A y \in S : x <= y
  <2>1. SUFFICES ASSUME NEW y \in S, y < x PROVE FALSE
    OBVIOUS
  <2>2. <<y, x>> \in R
    BY <2>1
  <2>. QED  BY <2>2, <1>2
<1>. QED
  BY <1>3 DEF Least

-----------------------------------------------------------------------------
Sums(s, m, g) == \A i \in 0 .. m : g[i] = IF i = 0 THEN 0 ELSE g[i - 1] + s[i].len

SameLens(s, t, m) == \A i \in 1 .. m : s[i].len = t[i].len

(* Record k of s is split into records k and k + 1 of t. *)
SplitAt(s, t, k, m) ==
  /\ SameLens(s, t, k - 1)
  /\ t[k].len + t[k + 1].len = s[k].len
  /\ \A i \in k + 1 .. m : t[i + 1].len = s[i].len

(* Offset as cryexts_iterate advances. *)
LEMMA SumsExist ==
  ASSUME NEW s, NEW m \in Nat, \A i \in 1 .. m : s[i].len \in Nat
  PROVE  \E g \in [0 .. m -> Nat] : Sums(s, m, g)
<1> DEFINE Bad == {k \in 0 .. m : ~ \E g \in [0 .. k -> Nat] : Sums(s, k, g)}
<1>1. SUFFICES ASSUME Bad # {} PROVE FALSE
  <2>1. m \in 0 .. m
    OBVIOUS
  <2>. QED  BY <2>1, Zenon
<1> DEFINE k == Least(Bad)
<1>2. k \in Bad /\ \A j \in Bad : k <= j
  <2>1. Bad \in SUBSET Nat
    OBVIOUS
  <2> HIDE DEF Bad
  <2>. QED  BY <1>1, <2>1, LeastInSet
<1>3. k # 0
  <2>1. [i \in 0 .. 0 |-> 0] \in [0 .. 0 -> Nat] /\ Sums(s, 0, [i \in 0 .. 0 |-> 0])
    BY DEF Sums
  <2>. QED  BY <1>2, <2>1
<1>4. k \in 1 .. m /\ k - 1 \in 0 .. m /\ k - 1 \notin Bad
  <2>1. k \in 0 .. m
    BY <1>2
  <2> HIDE DEF k, Bad
  <2>. QED  BY <1>2, <1>3, <2>1
<1>5. PICK g \in [0 .. k - 1 -> Nat] : Sums(s, k - 1, g)
  BY <1>4
<1> DEFINE h == [i \in 0 .. k |-> IF i = k THEN g[k - 1] + s[k].len ELSE g[i]]
<1>6. h \in [0 .. k -> Nat] /\ Sums(s, k, h)
  <2> HIDE DEF k, Bad
  <2>1. g[k - 1] \in Nat /\ s[k].len \in Nat
    BY <1>4
  <2>2. h \in [0 .. k -> Nat]
    BY <2>1, <1>4
  <2>3. ASSUME NEW i \in 0 .. k PROVE h[i] = IF i = 0 THEN 0 ELSE h[i - 1] + s[i].len
    <3>1. CASE i = k
      BY <3>1, <1>4
    <3>2. CASE i # k
      <4>1. i \in 0 .. k - 1
        BY <3>2, <1>4
      <4>. QED  BY <4>1, <1>4, <1>5 DEF Sums
    <3>. QED  BY <3>1, <3>2
  <2>. QED  BY <2>2, <2>3 DEF Sums
<1>. QED
  BY <1>2, <1>6

(* Equal lengths give equal sums. *)
LEMMA SumsAgree ==
  ASSUME NEW s, NEW t, NEW m \in Nat, NEW g, NEW h,
         Sums(s, m, g), Sums(t, m, h), SameLens(s, t, m)
  PROVE  \A i \in 0 .. m : g[i] = h[i]
<1> DEFINE Bad == {i \in 0 .. m : g[i] # h[i]}
<1>1. SUFFICES ASSUME Bad # {} PROVE FALSE
  OBVIOUS
<1> DEFINE k == Least(Bad)
<1>2. k \in Bad /\ \A j \in Bad : k <= j
  <2>1. Bad \in SUBSET Nat
    OBVIOUS
  <2> HIDE DEF Bad
  <2>. QED  BY <1>1, <2>1, LeastInSet
<1>3. k \in 0 .. m /\ g[k] # h[k] /\ k - 1 \notin Bad
  <2>1. k \in 0 .. m /\ g[k] # h[k]
    BY <1>2
  <2>2. k \in Int
    BY <2>1
  <2> HIDE DEF k, Bad
  <2>. QED  BY <1>2, <2>1, <2>2
<1>4. CASE k = 0
  BY <1>3, <1>4 DEF Sums
<1>5. CASE k # 0
  <2>1. k - 1 \in 0 .. m /\ k \in 1 .. m
    BY <1>3, <1>5
  <2>2. g[k - 1] = h[k - 1]
    BY <1>3, <2>1
  <2>3. g[k] = g[k - 1] + s[k].len /\ h[k] = h[k - 1] + t[k].len
    <3> HIDE DEF k, Bad
    <3>. QED  BY <1>3, <1>5 DEF Sums
  <2>4. s[k].len = t[k].len
    BY <2>1 DEF SameLens
  <2>. QED  BY <1>3, <2>2, <2>3, <2>4
<1>. QED
  BY <1>4, <1>5

(* Offset is such a sum: its defining function exists. *)
LEMMA OffsetSums ==
  ASSUME NEW s, NEW m \in Nat, \A i \in 1 .. m : s[i].len \in Nat
  PROVE  \E g \in [0 .. m -> Nat] :
           Sums(s, m, g) /\ \A k \in 1 .. m + 1 : Offset(s, k) = g[k - 1]
<1>1. PICK g \in [0 .. m -> Nat] : Sums(s, m, g)
  BY SumsExist
<1>2. ASSUME NEW k \in 1 .. m + 1 PROVE Offset(s, k) = g[k - 1]
  <2> DEFINE B(f) == [i \in 0 .. k - 1 |-> IF i = 0 THEN 0 ELSE f[i - 1] + s[i].len]
             F == CHOOSE f : f = B(f)
             G == [i \in 0 .. k - 1 |-> g[i]]
  <2>1. Offset(s, k) = F[k - 1]
    BY DEF Offset
  <2>2. G = B(G)
    BY <1>1 DEF Sums
  <2>3. F = B(F)
    <3> HIDE DEF B
    <3>. QED  BY <2>2
  <2>4. Sums(s, k - 1, F) /\ Sums(s, k - 1, G)
    <3>1. Sums(s, k - 1, F)
      <4> HIDE DEF F
      <4>. QED  BY <2>3 DEF Sums
    <3>. QED  BY <3>1, <1>1 DEF Sums
  <2>5. \A i \in 0 .. k - 1 : F[i] = G[i]
    <3>1. k - 1 \in Nat /\ SameLens(s, s, k - 1)
      BY DEF SameLens
    <3> HIDE DEF F, G
    <3>. QED  BY <2>4, <3>1, SumsAgree
  <2>. QED  BY <2>1, <2>5
<1>. QED
  BY <1>1, <1>2

(* A record starts where the one before it ends. *)
LEMMA OffsetStep ==
  ASSUME NEW s, NEW m \in Nat, \A i \in 1 .. m : s[i].len \in Nat
  PROVE  /\ Offset(s, 1) = 0
         /\ \A k \in 1 .. m : Offset(s, k + 1) = Offset(s, k) + s[k].len
         /\ \A k \in 1 .. m + 1 : Offset(s, k) \in Nat
<1>1. PICK g \in [0 .. m -> Nat] :
        Sums(s, m, g) /\ \A k \in 1 .. m + 1 : Offset(s, k) = g[k - 1]
  BY OffsetSums
<1>2. Offset(s, 1) = 0
  <2>1. 1 \in 1 .. m + 1 /\ 0 \in 0 .. m /\ 1 - 1 = 0
    OBVIOUS
  <2>2. g[0] = 0
    BY <1>1, <2>1 DEF Sums
  <2>. QED  BY <1>1, <2>1, <2>2
<1>3. ASSUME NEW k \in 1 .. m PROVE Offset(s, k + 1) = Offset(s, k) + s[k].len
  <2>1. k \in 0 .. m /\ k # 0 /\ k + 1 \in 1 .. m + 1 /\ k \in 1 .. m + 1 /\ (k + 1) - 1 = k
    OBVIOUS
  <2>2. g[k] = g[k - 1] + s[k].len
    BY <1>1, <2>1 DEF Sums
  <2>. QED  BY <1>1, <2>1, <2>2
<1>4. ASSUME NEW k \in 1 .. m + 1 PROVE Offset(s, k) \in Nat
  <2>1. k - 1 \in 0 .. m
    OBVIOUS
  <2>2. g[k - 1] \in Nat
    BY <2>1
  <2>. QED  BY <1>1, <2>2
<1>. QED
  BY <1>2, <1>3, <1>4

(* Blocks with the same lengths have the same offsets. *)
LEMMA OffsetSame ==
  ASSUME NEW s, NEW t, NEW m \in Nat, \A i \in 1 .. m : s[i].len \in Nat, SameLens(s, t, m)
  PROVE  \A k \in 1 .. m + 1 : Offset(t, k) = Offset(s, k)
<1>1. PICK g \in [0 .. m -> Nat] :
        Sums(s, m, g) /\ \A k \in 1 .. m + 1 : Offset(s, k) = g[k - 1]
  BY OffsetSums
<1>2. PICK h \in [0 .. m -> Nat] :
        Sums(t, m, h) /\ \A k \in 1 .. m + 1 : Offset(t, k) = h[k - 1]
  <2>1. \A i \in 1 .. m : t[i].len \in Nat
    BY DEF SameLens
  <2>. QED  BY <2>1, OffsetSums
<1>3. \A i \in 0 .. m : g[i] = h[i]
  <2>1. Sums(s, m, g) /\ Sums(t, m, h)
    BY <1>1, <1>2
  <2>. QED  BY <2>1, SumsAgree
<1>4. ASSUME NEW k \in 1 .. m + 1 PROVE Offset(t, k) = Offset(s, k)
  <2>1. k - 1 \in 0 .. m
    OBVIOUS
  <2>2. g[k - 1] = h[k - 1]
    BY <1>3, <2>1
  <2>. QED  BY <1>1, <1>2, <2>2
<1>. QED
  BY <1>4

(* Records do not overlap within a block. *)
LEMMA OffsetGrows ==
  ASSUME NEW s, NEW m \in Nat, \A i \in 1 .. m : s[i].len \in Nat \ {0}
  PROVE  /\ \A i \in 1 .. m, j \in 1 .. m + 1 :
              i < j => Offset(s, i) + s[i].len <= Offset(s, j)
         /\ \A j \in 1 .. m + 1 : j - 1 <= Offset(s, j)
<1>1. /\ Offset(s, 1) = 0
      /\ \A k \in 1 .. m : Offset(s, k + 1) = Offset(s, k) + s[k].len
      /\ \A k \in 1 .. m + 1 : Offset(s, k) \in Nat
  BY OffsetStep
<1> DEFINE Bad == {j \in 1 .. m + 1 :
                     \/ \E i \in 1 .. j - 1 : Offset(s, j) < Offset(s, i) + s[i].len
                     \/ Offset(s, j) < j - 1}
<1>2. SUFFICES ASSUME Bad # {} PROVE FALSE
  <2>1. ASSUME NEW i \in 1 .. m, NEW j \in 1 .. m + 1, i < j
        PROVE  Offset(s, i) + s[i].len <= Offset(s, j)
    <3>1. i \in 1 .. j - 1 /\ j \notin Bad /\ i \in 1 .. m + 1
      BY <2>1
    <3>2. ~(Offset(s, j) < Offset(s, i) + s[i].len)
      BY <3>1
    <3>. QED  BY <3>1, <3>2, <1>1
  <2>2. ASSUME NEW j \in 1 .. m + 1 PROVE j - 1 <= Offset(s, j)
    BY <1>1
  <2>. QED  BY <2>1, <2>2
<1> DEFINE j == Least(Bad)
<1>3. j \in Bad /\ \A i \in Bad : j <= i
  <2>1. Bad \in SUBSET Nat
    OBVIOUS
  <2> HIDE DEF Bad
  <2>. QED  BY <1>2, <2>1, LeastInSet
<1>4. j \in 1 .. m + 1 /\ j - 1 \notin Bad
  <2>1. j \in 1 .. m + 1
    BY <1>3
  <2> HIDE DEF j, Bad
  <2>. QED  BY <1>3, <2>1
<1>5. j # 1
  BY <1>1, <1>3
<1> HIDE DEF j
<1>6. j - 1 \in 1 .. m /\ (j - 1) + 1 = j
  BY <1>4, <1>5
<1>7. Offset(s, j) = Offset(s, j - 1) + s[j - 1].len
  BY <1>1, <1>6
<1>8. Offset(s, j - 1) \in Nat /\ s[j - 1].len \in Nat \ {0} /\ Offset(s, j) \in Nat
  BY <1>1, <1>6
<1>9. ~(Offset(s, j) < j - 1)
  <2>1. ~(Offset(s, j - 1) < (j - 1) - 1)
    BY <1>4, <1>6
  <2>. QED  BY <2>1, <1>6, <1>7, <1>8
<1>10. ASSUME NEW i \in 1 .. j - 1 PROVE ~(Offset(s, j) < Offset(s, i) + s[i].len)
  <2>1. CASE i = j - 1
    BY <2>1, <1>7, <1>8
  <2>2. CASE i # j - 1
    <3>1. i \in 1 .. (j - 1) - 1 /\ i \in 1 .. m /\ i \in 1 .. m + 1
      BY <2>2, <1>6
    <3>2. ~(Offset(s, j - 1) < Offset(s, i) + s[i].len)
      BY <3>1, <1>4, <1>6
    <3>. QED  BY <3>1, <3>2, <1>1, <1>7, <1>8
  <2>. QED  BY <2>1, <2>2
<1>. QED
  BY <1>3, <1>9, <1>10

(* Splitting a record moves no other. *)
LEMMA OffsetShift ==
  ASSUME NEW s, NEW t, NEW m \in Nat, NEW k \in 1 .. m,
         \A i \in 1 .. m : s[i].len \in Nat, \A i \in 1 .. m + 1 : t[i].len \in Nat,
         SplitAt(s, t, k, m)
  PROVE  /\ \A i \in 1 .. k : Offset(t, i) = Offset(s, i)
         /\ \A i \in k + 1 .. m + 1 : Offset(t, i + 1) = Offset(s, i)
<1>1. /\ \A i \in 1 .. m : Offset(s, i + 1) = Offset(s, i) + s[i].len
      /\ \A i \in 1 .. m + 1 : Offset(s, i) \in Nat
  BY OffsetStep
<1>2. /\ \A i \in 1 .. m + 1 : Offset(t, i + 1) = Offset(t, i) + t[i].len
      /\ \A i \in 1 .. (m + 1) + 1 : Offset(t, i) \in Nat
  <2> DEFINE n == m + 1
  <2>1. n \in Nat /\ \A i \in 1 .. n : t[i].len \in Nat
    OBVIOUS
  <2> HIDE DEF n
  <2>2. /\ \A i \in 1 .. n : Offset(t, i + 1) = Offset(t, i) + t[i].len
        /\ \A i \in 1 .. n + 1 : Offset(t, i) \in Nat
    BY <2>1, OffsetStep
  <2>. QED  BY <2>2 DEF n
<1>3. \A i \in 1 .. k : Offset(t, i) = Offset(s, i)
  <2>1. k - 1 \in Nat /\ (k - 1) + 1 = k /\ \A i \in 1 .. k - 1 : i \in 1 .. m
    OBVIOUS
  <2>2. \A i \in 1 .. k - 1 : s[i].len \in Nat
    BY <2>1
  <2>3. SameLens(s, t, k - 1)
    BY DEF SplitAt
  <2>4. \A i \in 1 .. (k - 1) + 1 : Offset(t, i) = Offset(s, i)
    BY <2>1, <2>2, <2>3, OffsetSame
  <2>. QED  BY <2>1, <2>4
<1> DEFINE Bad == {i \in k + 1 .. m + 1 : Offset(t, i + 1) # Offset(s, i)}
<1>4. SUFFICES ASSUME Bad # {} PROVE FALSE
  BY <1>3
<1> DEFINE j == Least(Bad)
<1>5. j \in Bad /\ \A i \in Bad : j <= i
  <2>1. Bad \in SUBSET Nat
    OBVIOUS
  <2> HIDE DEF Bad
  <2>. QED  BY <1>4, <2>1, LeastInSet
<1>6. j \in k + 1 .. m + 1 /\ Offset(t, j + 1) # Offset(s, j) /\ j - 1 \notin Bad
  <2>1. j \in k + 1 .. m + 1 /\ Offset(t, j + 1) # Offset(s, j)
    BY <1>5
  <2>2. j \in Int
    BY <2>1
  <2> HIDE DEF j, Bad
  <2>. QED  BY <1>5, <2>1, <2>2
<1> HIDE DEF j
<1>7. CASE j = k + 1
  <2>1. k \in 1 .. m + 1 /\ k + 1 \in 1 .. m + 1 /\ (k + 1) + 1 = j + 1
    BY <1>7
  <2>2. /\ Offset(t, j + 1) = Offset(t, k + 1) + t[k + 1].len
        /\ Offset(t, k + 1) = Offset(t, k) + t[k].len
    BY <1>2, <2>1
  <2>3. Offset(s, j) = Offset(s, k) + s[k].len /\ Offset(s, k) = Offset(t, k)
    BY <1>1, <1>3, <1>7
  <2>4. Offset(s, k) \in Nat /\ t[k].len \in Nat /\ t[k + 1].len \in Nat
    BY <1>1, <2>1
  <2>5. t[k].len + t[k + 1].len = s[k].len
    BY DEF SplitAt
  <2>. QED  BY <1>6, <2>2, <2>3, <2>4, <2>5
<1>8. CASE j # k + 1
  <2>1. j - 1 \in k + 1 .. m /\ j - 1 \in 1 .. m /\ j \in 1 .. m + 1 /\ (j - 1) + 1 = j
    BY <1>6, <1>8
  <2>2. Offset(t, j) = Offset(s, j - 1)
    BY <1>6, <2>1
  <2>3. Offset(s, j) = Offset(s, j - 1) + s[j - 1].len
    BY <1>1, <2>1
  <2>4. Offset(t, j + 1) = Offset(t, j) + t[j].len
    BY <1>2, <2>1
  <2>5. t[j].len = s[j - 1].len
    BY <2>1 DEF SplitAt
  <2>. QED  BY <1>6, <2>2, <2>3, <2>4, <2>5
<1>. QED
  BY <1>7, <1>8
-----------------------------------------------------------------------------
Named == Name \cup Dots \cup {Free}
Rec == [name : Named, len : Nat \ {0}]
Holds(x) == x.len >= IF x.name = Free THEN 1 ELSE NameLen(x.name)
Block ==
  {s \in Seq(Rec) :
     Offset(s, Len(s) + 1) = BlockLen /\ \A k \in 1 .. Len(s) : Holds(s[k])}
WellFormed(bl) == bl \in Seq(Block) /\ Len(bl) \in 1 .. MaxBlocks

(* Every name fits in a block. *)
LEMMA NameLenType ==
  ASSUME NEW n
  PROVE  NameLen(n) \in 1 .. BlockLen
BY DirectoryAssumption DEF NameLen

(* Records by their fields. *)
LEMMA RecType ==
  ASSUME NEW x \in Rec
  PROVE  x.name \in Named /\ x.len \in Nat \ {0} /\ x = Record(x.name, x.len)
BY DEF Rec, Record

(* A record with a name and a length. *)
LEMMA RecordIn ==
  ASSUME NEW n \in Named, NEW l \in Nat \ {0}
  PROVE  Record(n, l) \in Rec /\ Record(n, l).name = n /\ Record(n, l).len = l
BY DEF Rec, Record

(* The offsets of a sequence of records. *)
LEMMA RecordsOffsets ==
  ASSUME NEW s \in Seq(Rec)
  PROVE  /\ Len(s) \in Nat
         /\ \A k \in 1 .. Len(s) : s[k] \in Rec /\ s[k].name \in Named /\ s[k].len \in Nat \ {0}
         /\ Offset(s, 1) = 0
         /\ \A k \in 1 .. Len(s) : Offset(s, k + 1) = Offset(s, k) + s[k].len
         /\ \A k \in 1 .. Len(s) + 1 : Offset(s, k) \in Nat
         /\ \A i \in 1 .. Len(s), j \in 1 .. Len(s) + 1 :
              i < j => Offset(s, i) + s[i].len <= Offset(s, j)
         /\ \A j \in 1 .. Len(s) + 1 : j - 1 <= Offset(s, j)
<1>1. Len(s) \in Nat
  BY LenProperties
<1>2. \A k \in 1 .. Len(s) : s[k] \in Rec /\ s[k].name \in Named /\ s[k].len \in Nat \ {0}
  BY ElementOfSeq, RecType
<1>3. \A k \in 1 .. Len(s) : s[k].len \in Nat
  BY <1>2
<1>4. /\ Offset(s, 1) = 0
      /\ \A k \in 1 .. Len(s) : Offset(s, k + 1) = Offset(s, k) + s[k].len
      /\ \A k \in 1 .. Len(s) + 1 : Offset(s, k) \in Nat
  BY <1>1, <1>3, OffsetStep
<1>5. /\ \A i \in 1 .. Len(s), j \in 1 .. Len(s) + 1 :
           i < j => Offset(s, i) + s[i].len <= Offset(s, j)
      /\ \A j \in 1 .. Len(s) + 1 : j - 1 <= Offset(s, j)
  <2>1. \A k \in 1 .. Len(s) : s[k].len \in Nat \ {0}
    BY <1>2
  <2>. QED  BY <1>1, <2>1, OffsetGrows
<1>. QED
  BY <1>1, <1>2, <1>4, <1>5

(* A block is a sequence of records that fill it. *)
LEMMA BlockShape ==
  ASSUME NEW s \in Block
  PROVE  /\ s \in Seq(Rec)
         /\ Len(s) \in 1 .. BlockLen
         /\ Offset(s, Len(s) + 1) = BlockLen
         /\ \A k \in 1 .. Len(s) :
              /\ Holds(s[k])
              /\ Offset(s, k) \in 0 .. BlockLen - 1
              /\ Offset(s, k) + s[k].len <= BlockLen
<1>1. s \in Seq(Rec) /\ Offset(s, Len(s) + 1) = BlockLen /\ \A k \in 1 .. Len(s) : Holds(s[k])
  BY DEF Block
<1>2. /\ Len(s) \in Nat
      /\ \A k \in 1 .. Len(s) : s[k] \in Rec /\ s[k].name \in Named /\ s[k].len \in Nat \ {0}
      /\ Offset(s, 1) = 0
      /\ \A k \in 1 .. Len(s) + 1 : Offset(s, k) \in Nat
      /\ \A i \in 1 .. Len(s), j \in 1 .. Len(s) + 1 :
           i < j => Offset(s, i) + s[i].len <= Offset(s, j)
      /\ \A j \in 1 .. Len(s) + 1 : j - 1 <= Offset(s, j)
  BY <1>1, RecordsOffsets
<1>3. BlockLen \in Nat /\ BlockLen >= 2
  BY DirectoryAssumption
<1>4. Len(s) \in 1 .. BlockLen
  <2>1. (Len(s) + 1) - 1 <= Offset(s, Len(s) + 1)
    BY <1>2
  <2>2. Len(s) # 0
    <3>1. SUFFICES ASSUME Len(s) = 0 PROVE FALSE
      OBVIOUS
    <3>2. Offset(s, 1) = BlockLen
      BY <1>1, <3>1
    <3>. QED  BY <1>2, <1>3, <3>2
  <2>. QED  BY <1>1, <1>2, <1>3, <2>1, <2>2
<1>5. ASSUME NEW k \in 1 .. Len(s)
      PROVE  Offset(s, k) \in 0 .. BlockLen - 1 /\ Offset(s, k) + s[k].len <= BlockLen
  <2>1. k \in 1 .. Len(s) + 1 /\ Len(s) + 1 \in 1 .. Len(s) + 1 /\ k < Len(s) + 1
    BY <1>2
  <2>2. Offset(s, k) + s[k].len <= BlockLen
    BY <1>1, <1>2, <2>1
  <2>3. Offset(s, k) \in Nat /\ s[k].len \in Nat \ {0}
    BY <1>2, <2>1
  <2>. QED  BY <1>3, <2>2, <2>3
<1>. QED
  BY <1>1, <1>4, <1>5

(* A record gets another name: the starts of all records are the same. *)
LEMMA Renamed ==
  ASSUME NEW s \in Block, NEW k \in 1 .. Len(s), NEW n \in Named,
         Holds(Record(n, s[k].len))
  PROVE  LET t == [s EXCEPT ![k] = Record(n, s[k].len)]
         IN  /\ t \in Block /\ Len(t) = Len(s)
             /\ \A i \in 1 .. Len(s) : t[i] = IF i = k THEN Record(n, s[k].len) ELSE s[i]
             /\ \A i \in 1 .. Len(s) : Offset(t, i) = Offset(s, i)
<1> DEFINE x == Record(n, s[k].len)
           t == [s EXCEPT ![k] = x]
<1>1. s \in Seq(Rec) /\ Offset(s, Len(s) + 1) = BlockLen /\ \A i \in 1 .. Len(s) : Holds(s[i])
  BY DEF Block
<1>2. /\ Len(s) \in Nat
      /\ \A i \in 1 .. Len(s) : s[i].len \in Nat \ {0}
  BY <1>1, RecordsOffsets
<1>a. x \in Rec /\ x.len = s[k].len /\ Holds(x)
  BY <1>2, RecordIn
<1> HIDE DEF x
<1>3. /\ t \in Seq(Rec) /\ Len(t) = Len(s)
      /\ \A i \in 1 .. Len(s) : t[i] = IF i = k THEN x ELSE s[i]
  BY <1>1, <1>a, ExceptSeq
<1> HIDE DEF t
<1>4. SameLens(s, t, Len(s))
  BY <1>3, <1>a DEF SameLens
<1>5. \A i \in 1 .. Len(s) + 1 : Offset(t, i) = Offset(s, i)
  BY <1>2, <1>4, OffsetSame
<1>6. Offset(t, Len(t) + 1) = BlockLen
  <2>1. Len(s) + 1 \in 1 .. Len(s) + 1
    BY <1>2
  <2>2. Offset(t, Len(s) + 1) = Offset(s, Len(s) + 1)
    BY <2>1, <1>5
  <2>. QED  BY <2>2, <1>1, <1>3
<1>7. \A i \in 1 .. Len(t) : Holds(t[i])
  BY <1>1, <1>3, <1>a
<1>8. t \in Block
  BY <1>3, <1>6, <1>7 DEF Block
<1>9. ASSUME NEW i \in 1 .. Len(s) PROVE Offset(t, i) = Offset(s, i)
  <2>1. i \in 1 .. Len(s) + 1
    BY <1>2
  <2>. QED  BY <2>1, <1>5
<1>. QED
  BY <1>3, <1>8, <1>9 DEF t, x

(* Record k of s is replaced by the records w. *)
LEMMA ReplaceProperties ==
  ASSUME NEW s \in Seq(Rec), NEW k \in 1 .. Len(s), NEW w \in Seq(Rec)
  PROVE  /\ Replace(s, k, w) \in Seq(Rec)
         /\ Len(Replace(s, k, w)) = Len(s) + Len(w) - 1
         /\ \A i \in 1 .. k - 1 : Replace(s, k, w)[i] = s[i]
         /\ \A i \in 1 .. Len(w) : Replace(s, k, w)[k + i - 1] = w[i]
         /\ \A i \in k + 1 .. Len(s) : Replace(s, k, w)[i + Len(w) - 1] = s[i]
<1> DEFINE a == SubSeq(s, 1, k - 1)
           c == SubSeq(s, k + 1, Len(s))
           b == a \o w
           u == b \o c
<1>1. Len(s) \in Nat /\ Len(w) \in Nat /\ \A i \in 1 .. Len(s) : s[i] \in Rec
  BY RecordsOffsets
<1>2. a \in Seq(Rec) /\ Len(a) = k - 1 /\ \A i \in 1 .. k - 1 : a[i] = s[i]
  <2>1. 1 \in Int /\ k - 1 \in Int /\ \A i \in 1 .. k - 1 : s[i] \in Rec
    BY <1>1
  <2>2. /\ a \in Seq(Rec)
        /\ Len(a) = IF 1 <= k - 1 THEN (k - 1) - 1 + 1 ELSE 0
        /\ \A i \in 1 .. (k - 1) - 1 + 1 : a[i] = s[1 + i - 1]
    BY <2>1, SubSeqProperties
  <2>. QED  BY <2>2, <1>1
<1>3. /\ c \in Seq(Rec) /\ Len(c) = Len(s) - k
      /\ \A i \in 1 .. Len(s) - k : c[i] = s[k + i]
  <2>1. k + 1 \in Int /\ Len(s) \in Int /\ \A i \in k + 1 .. Len(s) : s[i] \in Rec
    BY <1>1
  <2>2. /\ c \in Seq(Rec)
        /\ Len(c) = IF k + 1 <= Len(s) THEN Len(s) - (k + 1) + 1 ELSE 0
        /\ \A i \in 1 .. Len(s) - (k + 1) + 1 : c[i] = s[k + 1 + i - 1]
    BY <2>1, SubSeqProperties
  <2>. QED  BY <2>2, <1>1
<1> HIDE DEF a, c
<1>4. /\ b \in Seq(Rec)
      /\ Len(b) = Len(a) + Len(w)
      /\ \A i \in 1 .. Len(a) + Len(w) : b[i] = IF i <= Len(a) THEN a[i] ELSE w[i - Len(a)]
  BY <1>2, ConcatProperties
<1> HIDE DEF b
<1>5. /\ u \in Seq(Rec)
      /\ Len(u) = Len(b) + Len(c)
      /\ \A i \in 1 .. Len(b) + Len(c) : u[i] = IF i <= Len(b) THEN b[i] ELSE c[i - Len(b)]
  <2>1. b \in Seq(Rec) /\ c \in Seq(Rec)
    BY <1>3, <1>4
  <2>. QED  BY <2>1, ConcatProperties
<1> HIDE DEF u
<1>6. Len(b) = k - 1 + Len(w) /\ Len(u) = Len(s) + Len(w) - 1 /\ k \in Nat
  BY <1>1, <1>2, <1>3, <1>4, <1>5
<1>7. ASSUME NEW i \in 1 .. k - 1 PROVE u[i] = s[i]
  <2>1. i \in 1 .. Len(b) + Len(c) /\ i <= Len(b) /\ i \in 1 .. Len(a) + Len(w) /\ i <= Len(a)
    BY <1>1, <1>2, <1>3, <1>6
  <2>. QED  BY <2>1, <1>2, <1>4, <1>5
<1>8. ASSUME NEW i \in 1 .. Len(w) PROVE u[k + i - 1] = w[i]
  <2> DEFINE j == k + i - 1
  <2>1. /\ j \in 1 .. Len(b) + Len(c) /\ j <= Len(b) /\ j \in 1 .. Len(a) + Len(w)
        /\ ~(j <= Len(a)) /\ j - Len(a) = i
    BY <1>1, <1>2, <1>3, <1>6
  <2> HIDE DEF j
  <2>2. u[j] = b[j] /\ b[j] = w[j - Len(a)]
    BY <2>1, <1>4, <1>5
  <2>. QED  BY <2>1, <2>2 DEF j
<1>9. ASSUME NEW i \in k + 1 .. Len(s) PROVE u[i + Len(w) - 1] = s[i]
  <2> DEFINE j == i + Len(w) - 1
  <2>1. /\ j \in 1 .. Len(b) + Len(c) /\ ~(j <= Len(b)) /\ j - Len(b) = i - k
        /\ i - k \in 1 .. Len(s) - k /\ k + (i - k) = i
    BY <1>1, <1>2, <1>3, <1>6
  <2> HIDE DEF j
  <2>2. u[j] = c[i - k]
    BY <2>1, <1>5
  <2>3. c[i - k] = s[i]
    BY <2>1, <1>3
  <2>. QED  BY <2>2, <2>3 DEF j
<1>. QED
  BY <1>5, <1>6, <1>7, <1>8, <1>9 DEF Replace, u, b, a, c

(* One record in the place of one. *)
LEMMA ReplaceOne ==
  ASSUME NEW s \in Seq(Rec), NEW k \in 1 .. Len(s), NEW x \in Rec
  PROVE  Replace(s, k, <<x>>) = [s EXCEPT ![k] = x]
<1> DEFINE t == [s EXCEPT ![k] = x]
           u == Replace(s, k, <<x>>)
<1>1. Len(s) \in Nat
  BY RecordsOffsets
<1>2. <<x>> \in Seq(Rec) /\ Len(<<x>>) = 1 /\ <<x>>[1] = x
  OBVIOUS
<1>3. /\ u \in Seq(Rec) /\ Len(u) = Len(s) + Len(<<x>>) - 1
      /\ \A i \in 1 .. k - 1 : u[i] = s[i]
      /\ \A i \in 1 .. Len(<<x>>) : u[k + i - 1] = <<x>>[i]
      /\ \A i \in k + 1 .. Len(s) : u[i + Len(<<x>>) - 1] = s[i]
  BY <1>2, ReplaceProperties
<1>4. t \in Seq(Rec) /\ Len(t) = Len(s) /\ \A i \in 1 .. Len(s) : t[i] = IF i = k THEN x ELSE s[i]
  BY ExceptSeq
<1> HIDE DEF t, u
<1>5. Len(u) = Len(s)
  BY <1>1, <1>2, <1>3
<1>6. u[k] = x
  <2>1. 1 \in 1 .. Len(<<x>>) /\ k + 1 - 1 = k
    BY <1>2
  <2>. QED  BY <1>2, <1>3, <2>1
<1>7. ASSUME NEW i \in 1 .. Len(s) PROVE u[i] = t[i]
  <2>1. CASE i < k
    <3>1. i \in 1 .. k - 1 /\ i # k
      BY <2>1, <1>1
    <3>. QED  BY <3>1, <1>3, <1>4
  <2>2. CASE i = k
    BY <2>2, <1>4, <1>6
  <2>3. CASE i > k
    <3>1. i \in k + 1 .. Len(s) /\ i # k /\ i + Len(<<x>>) - 1 = i
      BY <2>3, <1>1, <1>2
    <3>. QED  BY <3>1, <1>3, <1>4
  <2>. QED  BY <2>1, <2>2, <2>3, <1>1
<1>8. u = t
  BY <1>3, <1>4, <1>5, <1>7, SeqEqual
<1>. QED
  BY <1>8 DEF u, t

(* Two records in the place of one. *)
LEMMA ReplaceTwo ==
  ASSUME NEW s \in Seq(Rec), NEW k \in 1 .. Len(s), NEW x \in Rec, NEW y \in Rec
  PROVE  LET u == Replace(s, k, <<x, y>>)
         IN  /\ u \in Seq(Rec) /\ Len(u) = Len(s) + 1
             /\ \A i \in 1 .. k - 1 : u[i] = s[i]
             /\ u[k] = x /\ u[k + 1] = y
             /\ \A i \in k + 1 .. Len(s) : u[i + 1] = s[i]
<1> DEFINE u == Replace(s, k, <<x, y>>)
<1>1. Len(s) \in Nat
  BY RecordsOffsets
<1> DEFINE w == <<x, y>>
<1>2. w \in Seq(Rec) /\ Len(w) = 2 /\ w[1] = x /\ w[2] = y
  OBVIOUS
<1> HIDE DEF w
<1>3. /\ u \in Seq(Rec) /\ Len(u) = Len(s) + Len(w) - 1
      /\ \A i \in 1 .. k - 1 : u[i] = s[i]
      /\ \A i \in 1 .. Len(w) : u[k + i - 1] = w[i]
      /\ \A i \in k + 1 .. Len(s) : u[i + Len(w) - 1] = s[i]
  <2> DEFINE v == Replace(s, k, w)
  <2>1. w \in Seq(Rec)
    BY <1>2
  <2>2. /\ v \in Seq(Rec) /\ Len(v) = Len(s) + Len(w) - 1
        /\ \A i \in 1 .. k - 1 : v[i] = s[i]
        /\ \A i \in 1 .. Len(w) : v[k + i - 1] = w[i]
        /\ \A i \in k + 1 .. Len(s) : v[i + Len(w) - 1] = s[i]
    BY <2>1, ReplaceProperties
  <2>3. u = v
    BY DEF w
  <2> HIDE DEF u, v
  <2>. QED  BY <2>2, <2>3
<1> HIDE DEF u
<1>4. 1 \in 1 .. Len(w) /\ 2 \in 1 .. Len(w) /\ k + 1 - 1 = k /\ k + 2 - 1 = k + 1
  BY <1>2
<1>5. u[k] = x /\ u[k + 1] = y
  BY <1>2, <1>3, <1>4
<1>6. ASSUME NEW i \in k + 1 .. Len(s) PROVE u[i + 1] = s[i]
  <2>1. i + Len(w) - 1 = i + 1
    BY <1>1, <1>2
  <2>. QED  BY <2>1, <1>3
<1>7. Len(u) = Len(s) + 1
  BY <1>1, <1>2, <1>3
<1>. QED
  BY <1>3, <1>5, <1>6, <1>7 DEF u

(* A record is split behind its name. *)
LEMMA SplitBlock ==
  ASSUME NEW s \in Block, NEW k \in 1 .. Len(s), NEW n \in Name, s[k].name # Free,
         s[k].len >= NameLen(s[k].name) + NameLen(n), NEW u,
         u = Replace(s, k, <<Record(s[k].name, NameLen(s[k].name)),
                             Record(n, s[k].len - NameLen(s[k].name))>>)
  PROVE  /\ u \in Block /\ Len(u) = Len(s) + 1
         /\ \A i \in 1 .. k : u[i].name = s[i].name /\ Offset(u, i) = Offset(s, i)
         /\ u[k + 1].name = n /\ Offset(u, k + 1) = Offset(s, k) + NameLen(s[k].name)
         /\ \A i \in k + 1 .. Len(s) : u[i + 1] = s[i] /\ Offset(u, i + 1) = Offset(s, i)
<1> DEFINE a == NameLen(s[k].name)
           x == Record(s[k].name, a)
           y == Record(n, s[k].len - a)
<1>1. /\ s \in Seq(Rec) /\ Offset(s, Len(s) + 1) = BlockLen
      /\ \A i \in 1 .. Len(s) : Holds(s[i])
  BY DEF Block
<1>2. /\ Len(s) \in Nat
      /\ \A i \in 1 .. Len(s) : s[i] \in Rec /\ s[i].name \in Named /\ s[i].len \in Nat \ {0}
  BY <1>1, RecordsOffsets
<1>3. a \in 1 .. BlockLen /\ NameLen(n) \in 1 .. BlockLen /\ BlockLen \in Nat
  BY NameLenType, DirectoryAssumption
<1>4. s[k].len - a \in Nat \ {0} /\ a \in Nat \ {0} /\ s[k].len - a >= NameLen(n)
  BY <1>2, <1>3
<1>5. n \in Named /\ n # Free
  BY DirectoryAssumption DEF Named
<1>6. /\ x \in Rec /\ x.name = s[k].name /\ x.len = a
      /\ y \in Rec /\ y.name = n /\ y.len = s[k].len - a
  BY <1>2, <1>4, <1>5, RecordIn
<1>7. Holds(x) /\ Holds(y)
  BY <1>3, <1>4, <1>5, <1>6 DEF Holds
<1>8. u = Replace(s, k, <<x, y>>)
  OBVIOUS
<1> HIDE DEF x, y
<1>9. /\ u \in Seq(Rec) /\ Len(u) = Len(s) + 1
      /\ \A i \in 1 .. k - 1 : u[i] = s[i]
      /\ u[k] = x /\ u[k + 1] = y
      /\ \A i \in k + 1 .. Len(s) : u[i + 1] = s[i]
  <2>1. s \in Seq(Rec) /\ x \in Rec /\ y \in Rec
    BY <1>1, <1>6
  <2> DEFINE v == Replace(s, k, <<x, y>>)
  <2>2. /\ v \in Seq(Rec) /\ Len(v) = Len(s) + 1
        /\ \A i \in 1 .. k - 1 : v[i] = s[i]
        /\ v[k] = x /\ v[k + 1] = y
        /\ \A i \in k + 1 .. Len(s) : v[i + 1] = s[i]
    BY <2>1, ReplaceTwo
  <2> HIDE DEF v
  <2>3. u = v
    BY <1>8 DEF v
  <2>. QED  BY <2>2, <2>3
<1>10. SplitAt(s, u, k, Len(s))
  <2>1. SameLens(s, u, k - 1)
    BY <1>9 DEF SameLens
  <2>2. u[k].len + u[k + 1].len = s[k].len
    BY <1>2, <1>4, <1>6, <1>9
  <2>. QED  BY <1>9, <2>1, <2>2 DEF SplitAt
<1>11. /\ \A i \in 1 .. k : Offset(u, i) = Offset(s, i)
       /\ \A i \in k + 1 .. Len(s) + 1 : Offset(u, i + 1) = Offset(s, i)
  <2>1. \A i \in 1 .. Len(s) : s[i].len \in Nat
    BY <1>2
  <2>2. \A i \in 1 .. Len(s) + 1 : u[i].len \in Nat
    BY <1>9, RecordsOffsets
  <2>3. Len(s) \in Nat
    BY <1>2
  <2>. QED  BY <1>10, <2>1, <2>2, <2>3, OffsetShift
<1>12. Offset(u, k + 1) = Offset(s, k) + a
  <2>1. k \in 1 .. Len(u) /\ k \in 1 .. k
    BY <1>2, <1>9
  <2>2. Offset(u, k + 1) = Offset(u, k) + u[k].len
    BY <2>1, <1>9, RecordsOffsets
  <2>. QED  BY <2>1, <2>2, <1>6, <1>9, <1>11
<1>13. u \in Block
  <2>1. Len(s) + 1 \in k + 1 .. Len(s) + 1
    BY <1>2
  <2>2. Offset(u, Len(u) + 1) = BlockLen
    BY <2>1, <1>1, <1>9, <1>11
  <2>3. ASSUME NEW i \in 1 .. Len(u) PROVE Holds(u[i])
    <3>1. CASE i \in 1 .. k - 1
      <4>1. i \in 1 .. Len(s)
        BY <3>1, <1>2
      <4>. QED  BY <3>1, <4>1, <1>1, <1>9
    <3>2. CASE i = k \/ i = k + 1
      BY <3>2, <1>7, <1>9
    <3>3. CASE i > k + 1
      <4>1. i - 1 \in k + 1 .. Len(s) /\ (i - 1) + 1 = i /\ i - 1 \in 1 .. Len(s)
        BY <3>3, <1>2, <1>9
      <4>2. u[i] = s[i - 1]
        BY <4>1, <1>9
      <4>. QED  BY <4>1, <4>2, <1>1
    <3>4. i \in 1 .. k - 1 \/ i = k \/ i = k + 1 \/ i > k + 1
      BY <1>2, <1>9
    <3>. QED  BY <3>1, <3>2, <3>3, <3>4
  <2>. QED  BY <1>9, <2>2, <2>3 DEF Block
<1>14. ASSUME NEW i \in 1 .. k PROVE u[i].name = s[i].name
  <2>1. CASE i = k
    BY <2>1, <1>6, <1>9
  <2>2. CASE i # k
    <3>1. i \in 1 .. k - 1
      BY <2>2, <1>2
    <3>. QED  BY <3>1, <1>9
  <2>. QED  BY <2>1, <2>2
<1>15. ASSUME NEW i \in k + 1 .. Len(s) PROVE Offset(u, i + 1) = Offset(s, i)
  <2>1. i \in k + 1 .. Len(s) + 1
    BY <1>2
  <2>. QED  BY <2>1, <1>11
<1>. QED
  BY <1>6, <1>9, <1>11, <1>12, <1>13, <1>14, <1>15
-----------------------------------------------------------------------------
(* Where the names of a block are, and where its records start. *)
LiveIn(s) == {<<Offset(s, k), s[k].name>> : k \in {j \in 1 .. Len(s) : s[j].name # Free}}
StartsIn(s) == {Offset(s, k) : k \in 1 .. Len(s)}

(* A name of a block and the record that holds it. *)
LEMMA LiveInElements ==
  ASSUME NEW s, NEW l
  PROVE  l \in LiveIn(s) <=>
           \E k \in 1 .. Len(s) : s[k].name # Free /\ l = <<Offset(s, k), s[k].name>>
BY DEF LiveIn

(* No two records start at the same place. *)
LEMMA OffsetsDiffer ==
  ASSUME NEW s \in Block, NEW i \in 1 .. Len(s), NEW j \in 1 .. Len(s), i # j
  PROVE  /\ Offset(s, i) # Offset(s, j)
         /\ i < j => Offset(s, i) + s[i].len <= Offset(s, j)
<1>1. s \in Seq(Rec)
  BY DEF Block
<1>2. /\ Len(s) \in Nat
      /\ \A k \in 1 .. Len(s) : s[k].len \in Nat \ {0}
      /\ \A k \in 1 .. Len(s) + 1 : Offset(s, k) \in Nat
      /\ \A a \in 1 .. Len(s), b \in 1 .. Len(s) + 1 :
           a < b => Offset(s, a) + s[a].len <= Offset(s, b)
  BY <1>1, RecordsOffsets
<1>3. i \in 1 .. Len(s) + 1 /\ j \in 1 .. Len(s) + 1
  BY <1>2
<1>4. i < j => Offset(s, i) + s[i].len <= Offset(s, j)
  BY <1>2, <1>3
<1>5. j < i => Offset(s, j) + s[j].len <= Offset(s, i)
  BY <1>2, <1>3
<1>. QED
  BY <1>2, <1>3, <1>4, <1>5

(* A name written into a free record. *)
LEMMA FilledBlock ==
  ASSUME NEW s \in Block, NEW k \in 1 .. Len(s), s[k].name \in {Free}, NEW n \in Name,
         s[k].len >= NameLen(n)
  PROVE  LET u == Replace(s, k, <<Record(n, s[k].len)>>)
         IN  /\ u \in Block /\ StartsIn(s) \subseteq StartsIn(u)
             /\ LiveIn(u) = LiveIn(s) \cup {<<Offset(s, k), n>>}
             /\ \A l \in LiveIn(s) : l[1] # Offset(s, k)
<1> DEFINE x == Record(n, s[k].len)
           u == Replace(s, k, <<x>>)
<1>1. /\ s \in Seq(Rec) /\ Len(s) \in Nat
      /\ \A i \in 1 .. Len(s) : s[i].len \in Nat \ {0}
  <2>1. s \in Seq(Rec)
    BY DEF Block
  <2>. QED  BY <2>1, RecordsOffsets
<1>2. n \in Named /\ n # Free
  BY DirectoryAssumption DEF Named
<1>3. x \in Rec /\ x.name = n /\ x.len = s[k].len
  BY <1>1, <1>2, RecordIn
<1>4. Holds(x)
  BY <1>2, <1>3 DEF Holds
<1>5. u = [s EXCEPT ![k] = x]
  BY <1>1, <1>3, ReplaceOne
<1>6. /\ u \in Block /\ Len(u) = Len(s)
      /\ \A i \in 1 .. Len(s) : u[i] = IF i = k THEN x ELSE s[i]
      /\ \A i \in 1 .. Len(s) : Offset(u, i) = Offset(s, i)
  <2> DEFINE v == [s EXCEPT ![k] = Record(n, s[k].len)]
  <2>1. /\ v \in Block /\ Len(v) = Len(s)
        /\ \A i \in 1 .. Len(s) : v[i] = IF i = k THEN Record(n, s[k].len) ELSE s[i]
        /\ \A i \in 1 .. Len(s) : Offset(v, i) = Offset(s, i)
    BY <1>2, <1>4, Renamed
  <2> HIDE DEF u, v
  <2>2. u = v
    BY <1>5 DEF v
  <2>. QED  BY <2>1, <2>2
<1> HIDE DEF u, x
<1>7. StartsIn(s) \subseteq StartsIn(u)
  BY <1>6 DEF StartsIn
<1>8. ASSUME NEW l \in LiveIn(s) PROVE l[1] # Offset(s, k)
  <2>1. PICK i \in 1 .. Len(s) : s[i].name # Free /\ l = <<Offset(s, i), s[i].name>>
    BY LiveInElements
  <2>2. i # k
    BY <2>1
  <2>. QED  BY <2>1, <2>2, OffsetsDiffer
<1>9. ASSUME NEW l \in LiveIn(u) PROVE l \in LiveIn(s) \cup {<<Offset(s, k), n>>}
  <2>1. PICK i \in 1 .. Len(u) : u[i].name # Free /\ l = <<Offset(u, i), u[i].name>>
    BY LiveInElements
  <2>2. CASE i = k
    BY <2>1, <2>2, <1>3, <1>6
  <2>3. CASE i # k
    <3>1. i \in 1 .. Len(s) /\ s[i].name # Free /\ l = <<Offset(s, i), s[i].name>>
      BY <2>1, <2>3, <1>6
    <3>. QED  BY <3>1, LiveInElements
  <2>. QED  BY <2>2, <2>3
<1>10. ASSUME NEW l \in LiveIn(s) PROVE l \in LiveIn(u)
  <2>1. PICK i \in 1 .. Len(s) : s[i].name # Free /\ l = <<Offset(s, i), s[i].name>>
    BY LiveInElements
  <2>2. i # k
    BY <2>1
  <2>3. i \in 1 .. Len(u) /\ u[i].name # Free /\ l = <<Offset(u, i), u[i].name>>
    BY <2>1, <2>2, <1>6
  <2>. QED  BY <2>3, LiveInElements
<1>11. <<Offset(s, k), n>> \in LiveIn(u)
  <2>1. k \in 1 .. Len(u) /\ u[k].name # Free /\ <<Offset(s, k), n>> = <<Offset(u, k), u[k].name>>
    BY <1>2, <1>3, <1>6
  <2>. QED  BY <2>1, LiveInElements
<1>. QED
  BY <1>6, <1>7, <1>8, <1>9, <1>10, <1>11 DEF u, x

(* A name written behind another. *)
LEMMA ShortenedBlock ==
  ASSUME NEW s \in Block, NEW k \in 1 .. Len(s), NEW n \in Name, s[k].name # Free,
         s[k].len >= NameLen(s[k].name) + NameLen(n)
  PROVE  LET a == NameLen(s[k].name)
             u == Replace(s, k, <<Record(s[k].name, a), Record(n, s[k].len - a)>>)
         IN  /\ u \in Block /\ StartsIn(s) \subseteq StartsIn(u)
             /\ LiveIn(u) = LiveIn(s) \cup {<<Offset(s, k) + a, n>>}
             /\ \A l \in LiveIn(s) : l[1] # Offset(s, k) + a
<1> DEFINE a == NameLen(s[k].name)
           u == Replace(s, k, <<Record(s[k].name, a), Record(n, s[k].len - a)>>)
<1>1. /\ u \in Block /\ Len(u) = Len(s) + 1
      /\ \A i \in 1 .. k : u[i].name = s[i].name /\ Offset(u, i) = Offset(s, i)
      /\ u[k + 1].name = n /\ Offset(u, k + 1) = Offset(s, k) + a
      /\ \A i \in k + 1 .. Len(s) : u[i + 1] = s[i] /\ Offset(u, i + 1) = Offset(s, i)
  BY SplitBlock
<1>2. Len(s) \in Nat /\ Len(u) \in Nat
  BY <1>1, BlockShape
<1>3. n # Free
  BY DirectoryAssumption
<1> DEFINE o == Offset(s, k) + a
<1>. HIDE DEF u, o, a
<1>4. k + 1 \in 1 .. Len(u) /\ Offset(u, k + 1) = o
  BY <1>1, <1>2 DEF o
(* Every record of s is one of u that starts where it did. *)
<1>5. ASSUME NEW i \in 1 .. Len(s)
      PROVE  \E j \in 1 .. Len(u) : /\ j # k + 1 /\ u[j].name = s[i].name
                                    /\ Offset(u, j) = Offset(s, i)
  <2>1. CASE i <= k
    <3>1. i \in 1 .. k /\ i \in 1 .. Len(u) /\ i # k + 1
      BY <2>1, <1>1, <1>2
    <3>. QED  BY <3>1, <1>1
  <2>2. CASE i > k
    <3>1. i \in k + 1 .. Len(s) /\ i + 1 \in 1 .. Len(u) /\ i + 1 # k + 1
      BY <2>2, <1>1, <1>2
    <3>. QED  BY <3>1, <1>1
  <2>. QED  BY <2>1, <2>2, <1>2
<1>6. ASSUME NEW j \in 1 .. Len(u), j # k + 1
      PROVE  \E i \in 1 .. Len(s) : u[j].name = s[i].name /\ Offset(u, j) = Offset(s, i)
  <2>1. CASE j <= k
    <3>1. j \in 1 .. k /\ j \in 1 .. Len(s)
      BY <2>1, <1>2
    <3>. QED  BY <3>1, <1>1
  <2>2. CASE j > k
    <3>1. j - 1 \in k + 1 .. Len(s) /\ j - 1 \in 1 .. Len(s) /\ (j - 1) + 1 = j
      BY <2>2, <1>1, <1>2, <1>6
    <3>2. u[j] = s[j - 1] /\ Offset(u, j) = Offset(s, j - 1)
      BY <3>1, <1>1
    <3>. QED  BY <3>1, <3>2
  <2>. QED  BY <2>1, <2>2, <1>2
<1>7. StartsIn(s) \subseteq StartsIn(u)
  <2>1. SUFFICES ASSUME NEW i \in 1 .. Len(s) PROVE Offset(s, i) \in StartsIn(u)
    BY DEF StartsIn
  <2>2. PICK j \in 1 .. Len(u) : Offset(u, j) = Offset(s, i)
    BY <1>5
  <2>. QED  BY <2>2 DEF StartsIn
<1>8. ASSUME NEW l \in LiveIn(s) PROVE l \in LiveIn(u) /\ l[1] # o
  <2>1. PICK i \in 1 .. Len(s) : s[i].name # Free /\ l = <<Offset(s, i), s[i].name>>
    BY LiveInElements
  <2>2. PICK j \in 1 .. Len(u) : /\ j # k + 1 /\ u[j].name = s[i].name
                                 /\ Offset(u, j) = Offset(s, i)
    BY <1>5
  <2>3. l = <<Offset(u, j), u[j].name>> /\ u[j].name # Free
    BY <2>1, <2>2
  <2>4. Offset(u, j) # o
    BY <2>2, <1>1, <1>4, OffsetsDiffer
  <2>. QED  BY <2>3, <2>4, LiveInElements
<1>9. ASSUME NEW l \in LiveIn(u) PROVE l \in LiveIn(s) \cup {<<o, n>>}
  <2>1. PICK j \in 1 .. Len(u) : u[j].name # Free /\ l = <<Offset(u, j), u[j].name>>
    BY LiveInElements
  <2>2. CASE j = k + 1
    BY <2>1, <2>2, <1>1, <1>4
  <2>3. CASE j # k + 1
    <3>1. PICK i \in 1 .. Len(s) : u[j].name = s[i].name /\ Offset(u, j) = Offset(s, i)
      BY <2>3, <1>6
    <3>2. s[i].name # Free /\ l = <<Offset(s, i), s[i].name>>
      BY <2>1, <3>1
    <3>. QED  BY <3>2, LiveInElements
  <2>. QED  BY <2>2, <2>3
<1>10. <<o, n>> \in LiveIn(u)
  <2>1. u[k + 1].name # Free /\ <<o, n>> = <<Offset(u, k + 1), u[k + 1].name>>
    BY <1>1, <1>3, <1>4
  <2>. QED  BY <2>1, <1>4, LiveInElements
<1>11. LiveIn(u) = LiveIn(s) \cup {<<o, n>>}
  BY <1>8, <1>9, <1>10
<1>. QED
  BY <1>1, <1>7, <1>8, <1>11 DEF u, o, a

(* A name taken out: its record is free, of the same length. *)
LEMMA ClearedBlock ==
  ASSUME NEW s \in Block, NEW k \in 1 .. Len(s), s[k].name # Free
  PROVE  LET u == [s EXCEPT ![k].name = Free]
         IN  /\ u \in Block /\ StartsIn(u) = StartsIn(s)
             /\ LiveIn(u) = LiveIn(s) \ {<<Offset(s, k), s[k].name>>}
<1> DEFINE x == Record(Free, s[k].len)
           u == [s EXCEPT ![k].name = Free]
<1>1. /\ s \in Seq(Rec) /\ Len(s) \in Nat
      /\ \A i \in 1 .. Len(s) : s[i] \in Rec /\ s[i].len \in Nat \ {0}
  <2>1. s \in Seq(Rec)
    BY DEF Block
  <2>. QED  BY <2>1, RecordsOffsets
<1>2. Free \in Named
  BY DEF Named
<1>3. x \in Rec /\ x.name = Free /\ x.len = s[k].len
  BY <1>1, <1>2, RecordIn
<1>4. Holds(x)
  BY <1>1, <1>3 DEF Holds
<1>5. u = [s EXCEPT ![k] = x]
  <2>1. [s[k] EXCEPT !.name = Free] = x
    <3>1. s[k] \in [name : Named, len : Nat \ {0}]
      BY <1>1 DEF Rec
    <3>. QED  BY <3>1 DEF Record
  <2>. QED  BY <2>1
<1>6. /\ u \in Block /\ Len(u) = Len(s)
      /\ \A i \in 1 .. Len(s) : u[i] = IF i = k THEN x ELSE s[i]
      /\ \A i \in 1 .. Len(s) : Offset(u, i) = Offset(s, i)
  <2> DEFINE v == [s EXCEPT ![k] = Record(Free, s[k].len)]
  <2>1. /\ v \in Block /\ Len(v) = Len(s)
        /\ \A i \in 1 .. Len(s) : v[i] = IF i = k THEN Record(Free, s[k].len) ELSE s[i]
        /\ \A i \in 1 .. Len(s) : Offset(v, i) = Offset(s, i)
    BY <1>2, <1>4, Renamed
  <2>2. u = v
    BY <1>5
  <2> HIDE DEF u, v
  <2>. QED  BY <2>1, <2>2
<1> HIDE DEF u, x
<1>7. StartsIn(u) = StartsIn(s)
  BY <1>6 DEF StartsIn
<1>8. ASSUME NEW l \in LiveIn(u) PROVE l \in LiveIn(s) /\ l # <<Offset(s, k), s[k].name>>
  <2>1. PICK i \in 1 .. Len(u) : u[i].name # Free /\ l = <<Offset(u, i), u[i].name>>
    BY LiveInElements
  <2>2. i # k
    BY <2>1, <1>3, <1>6
  <2>3. i \in 1 .. Len(s) /\ s[i].name # Free /\ l = <<Offset(s, i), s[i].name>>
    BY <2>1, <2>2, <1>6
  <2>4. Offset(s, i) # Offset(s, k)
    BY <2>2, <2>3, OffsetsDiffer
  <2>. QED  BY <2>3, <2>4, LiveInElements
<1>9. ASSUME NEW l \in LiveIn(s), l # <<Offset(s, k), s[k].name>> PROVE l \in LiveIn(u)
  <2>1. PICK i \in 1 .. Len(s) : s[i].name # Free /\ l = <<Offset(s, i), s[i].name>>
    BY LiveInElements
  <2>2. i # k
    BY <2>1, <1>9
  <2>3. i \in 1 .. Len(u) /\ u[i].name # Free /\ l = <<Offset(u, i), u[i].name>>
    BY <2>1, <2>2, <1>6
  <2>. QED  BY <2>3, LiveInElements
<1>. QED
  BY <1>6, <1>7, <1>8, <1>9 DEF u
-----------------------------------------------------------------------------
(* The names of a directory: block, offset, name. *)
Spot(bl, r) == <<r[1], Offset(bl[r[1]], r[2]), NameAt(bl, r)>>
Spots(bl) == {Spot(bl, r) : r \in Live(bl)}

(* The scan of cryexts_find_entry finds something where there is something. *)
LEMMA FirstIn ==
  ASSUME NEW R \in SUBSET (Nat \X Nat), R # {}
  PROVE  First(R) \in R
<1> DEFINE A == {r[1] : r \in R}
           a == Least(A)
           B == {r[2] : r \in {q \in R : q[1] = a}}
           b == Least(B)
<1>1. a \in A /\ \A y \in A : a <= y
  <2>1. A \in SUBSET Nat /\ A # {}
    OBVIOUS
  <2> HIDE DEF A
  <2>. QED  BY <2>1, LeastInSet
<1>2. PICK q \in R : q[1] = a
  BY <1>1
<1>3. b \in B /\ \A y \in B : b <= y
  <2>1. B \in SUBSET Nat
    OBVIOUS
  <2>2. B # {}
    BY <1>2
  <2> HIDE DEF B, a
  <2>. QED  BY <2>1, <2>2, LeastInSet
<1>4. PICK r \in R : r[1] = a /\ r[2] = b
  BY <1>3
<1>5. ASSUME NEW s \in R PROVE r[1] < s[1] \/ (r[1] = s[1] /\ r[2] <= s[2])
  <2>1. a <= s[1]
    BY <1>1
  <2>2. s[1] = a => b <= s[2]
    BY <1>3
  <2>3. s[1] \in Nat /\ s[2] \in Nat /\ r[1] \in Nat /\ r[2] \in Nat
    OBVIOUS
  <2> HIDE DEF a, b
  <2>. QED  BY <1>4, <2>1, <2>2, <2>3
<1>. QED
  BY <1>5 DEF First

(* The blocks of a directory. *)
LEMMA BlocksOf ==
  ASSUME NEW bl, WellFormed(bl)
  PROVE  /\ bl \in Seq(Block) /\ Len(bl) \in Nat \ {0}
         /\ \A b \in 1 .. Len(bl) : bl[b] \in Block
BY ElementOfSeq DEF WellFormed

(* Its records, by block and number. *)
LEMMA RecsOf ==
  ASSUME NEW bl, WellFormed(bl), NEW r
  PROVE  r \in Recs(bl) <=> \E b \in 1 .. Len(bl) : \E k \in 1 .. Len(bl[b]) : r = <<b, k>>
<1>1. ASSUME r \in Recs(bl)
      PROVE  \E b \in 1 .. Len(bl) : \E k \in 1 .. Len(bl[b]) : r = <<b, k>>
  <2>1. r \in (1 .. Len(bl)) \X (1 .. BlockLen) /\ r[2] <= Len(bl[r[1]])
    BY <1>1 DEF Recs
  <2>2. r = <<r[1], r[2]>> /\ r[1] \in 1 .. Len(bl) /\ r[2] \in 1 .. BlockLen
    BY <2>1
  <2>3. Len(bl[r[1]]) \in Nat
    BY <2>2, BlocksOf, BlockShape
  <2>. QED  BY <2>1, <2>2, <2>3
<1>2. ASSUME NEW b \in 1 .. Len(bl), NEW k \in 1 .. Len(bl[b])
      PROVE  <<b, k>> \in Recs(bl)
  <2>1. Len(bl[b]) \in 1 .. BlockLen
    BY BlocksOf, BlockShape
  <2>2. k \in 1 .. BlockLen /\ k <= Len(bl[b])
    BY <2>1, DirectoryAssumption
  <2>. QED  BY <2>2 DEF Recs
<1>. QED
  BY <1>1, <1>2

(* What a record of a directory is. *)
LEMMA RecAt ==
  ASSUME NEW bl, WellFormed(bl), NEW r \in Recs(bl)
  PROVE  /\ r[1] \in 1 .. Len(bl) /\ r[2] \in 1 .. Len(bl[r[1]]) /\ r = <<r[1], r[2]>>
         /\ r \in Nat \X Nat /\ bl[r[1]] \in Block
         /\ bl[r[1]][r[2]] \in Rec /\ NameAt(bl, r) = bl[r[1]][r[2]].name
<1>1. PICK b \in 1 .. Len(bl) : \E k \in 1 .. Len(bl[b]) : r = <<b, k>>
  BY RecsOf
<1>2. PICK k \in 1 .. Len(bl[b]) : r = <<b, k>>
  BY <1>1
<1>3. r[1] = b /\ r[2] = k
  BY <1>2
<1>4. bl[b] \in Block
  BY BlocksOf
<1>5. bl[b] \in Seq(Rec)
  BY <1>4, BlockShape
<1>6. bl[b][k] \in Rec
  BY <1>5, RecordsOffsets
<1>. QED
  BY <1>2, <1>3, <1>4, <1>6 DEF NameAt

(* The names of a directory are those of its blocks. *)
LEMMA SpotElements ==
  ASSUME NEW bl, WellFormed(bl), NEW x
  PROVE  x \in Spots(bl) <=>
           \E b \in 1 .. Len(bl) : \E e \in LiveIn(bl[b]) : x = <<b, e[1], e[2]>>
<1>1. ASSUME x \in Spots(bl)
      PROVE  \E b \in 1 .. Len(bl) : \E e \in LiveIn(bl[b]) : x = <<b, e[1], e[2]>>
  <2>1. PICK r \in Live(bl) : x = Spot(bl, r)
    BY <1>1 DEF Spots
  <2>2. r \in Recs(bl) /\ NameAt(bl, r) # Free
    BY DEF Live
  <2>3. /\ r[1] \in 1 .. Len(bl) /\ r[2] \in 1 .. Len(bl[r[1]])
        /\ NameAt(bl, r) = bl[r[1]][r[2]].name
    BY <2>2, RecAt
  <2> DEFINE e == <<Offset(bl[r[1]], r[2]), bl[r[1]][r[2]].name>>
  <2>4. e \in LiveIn(bl[r[1]])
    BY <2>2, <2>3, LiveInElements
  <2>5. x = <<r[1], e[1], e[2]>>
    BY <2>1, <2>3 DEF Spot
  <2>. QED  BY <2>3, <2>4, <2>5
<1>2. ASSUME NEW b \in 1 .. Len(bl), NEW e \in LiveIn(bl[b]), x = <<b, e[1], e[2]>>
      PROVE  x \in Spots(bl)
  <2>1. PICK k \in 1 .. Len(bl[b]) :
          bl[b][k].name # Free /\ e = <<Offset(bl[b], k), bl[b][k].name>>
    BY LiveInElements
  <2>2. <<b, k>> \in Recs(bl)
    BY RecsOf
  <2>3. NameAt(bl, <<b, k>>) = bl[b][k].name
    BY DEF NameAt
  <2>4. <<b, k>> \in Live(bl)
    BY <2>1, <2>2, <2>3 DEF Live
  <2>5. x = Spot(bl, <<b, k>>)
    BY <1>2, <2>1, <2>3 DEF Spot
  <2>. QED  BY <2>4, <2>5 DEF Spots
<1>. QED
  BY <1>1, <1>2

(* Block c is changed to u. *)
LEMMA BlockChanged ==
  ASSUME NEW bl, WellFormed(bl), NEW c \in 1 .. Len(bl), NEW u \in Block
  PROVE  LET bm == [bl EXCEPT ![c] = u]
         IN  /\ WellFormed(bm) /\ Len(bm) = Len(bl) /\ bm[c] = u
             /\ \A b \in 1 .. Len(bl) : b # c => bm[b] = bl[b]
             /\ Spots(bm) = {x \in Spots(bl) : x[1] # c} \cup {<<c, e[1], e[2]>> : e \in LiveIn(u)}
<1> DEFINE bm == [bl EXCEPT ![c] = u]
<1>1. bl \in Seq(Block) /\ Len(bl) \in 1 .. MaxBlocks
  BY DEF WellFormed
<1>2. /\ bm \in Seq(Block) /\ Len(bm) = Len(bl)
      /\ \A b \in 1 .. Len(bl) : bm[b] = IF b = c THEN u ELSE bl[b]
  BY <1>1, ExceptSeq
<1> HIDE DEF bm
<1>3. WellFormed(bm)
  BY <1>1, <1>2 DEF WellFormed
<1>4. bm[c] = u
  BY <1>2
<1>5. ASSUME NEW x, x \in Spots(bm)
      PROVE  (x \in Spots(bl) /\ x[1] # c) \/ \E e \in LiveIn(u) : x = <<c, e[1], e[2]>>
  <2>1. PICK b \in 1 .. Len(bm) : \E e \in LiveIn(bm[b]) : x = <<b, e[1], e[2]>>
    BY <1>3, <1>5, SpotElements
  <2>2. CASE b = c
    BY <2>1, <2>2, <1>4
  <2>3. CASE b # c
    <3>1. b \in 1 .. Len(bl) /\ bm[b] = bl[b]
      BY <2>3, <1>2
    <3>2. PICK e \in LiveIn(bl[b]) : x = <<b, e[1], e[2]>>
      BY <2>1, <3>1
    <3>3. x \in Spots(bl)
      BY <3>1, <3>2, SpotElements
    <3>. QED  BY <2>3, <3>2, <3>3
  <2>. QED  BY <2>2, <2>3
<1>6. ASSUME NEW x, x \in Spots(bl), x[1] # c PROVE x \in Spots(bm)
  <2>1. PICK b \in 1 .. Len(bl) : \E e \in LiveIn(bl[b]) : x = <<b, e[1], e[2]>>
    BY <1>6, SpotElements
  <2>2. PICK e \in LiveIn(bl[b]) : x = <<b, e[1], e[2]>>
    BY <2>1
  <2>3. b # c
    BY <1>6, <2>2
  <2>4. b \in 1 .. Len(bm) /\ e \in LiveIn(bm[b])
    BY <2>3, <1>2
  <2>. QED  BY <1>3, <2>2, <2>4, SpotElements
<1>7. ASSUME NEW x, NEW e \in LiveIn(u), x = <<c, e[1], e[2]>> PROVE x \in Spots(bm)
  <2>1. c \in 1 .. Len(bm) /\ e \in LiveIn(bm[c])
    BY <1>2, <1>4
  <2>. QED  BY <1>3, <1>7, <2>1, SpotElements
<1>8. \A b \in 1 .. Len(bl) : b # c => bm[b] = bl[b]
  BY <1>2
<1>9. Spots(bm) = {x \in Spots(bl) : x[1] # c} \cup {<<c, e[1], e[2]>> : e \in LiveIn(u)}
  BY <1>5, <1>6, <1>7
<1>. QED
  BY <1>2, <1>3, <1>4, <1>8, <1>9 DEF bm

(* bm has one more name than bl, n in block b, and every record of bl still *)
(* starts where it did.                                                    *)
Grown(bl, bm, n, b) ==
  /\ WellFormed(bm) /\ Len(bm) \in Len(bl) .. Len(bl) + 1 /\ b \in 1 .. Len(bm)
  /\ \A c \in 1 .. Len(bl) : StartsIn(bl[c]) \subseteq StartsIn(bm[c])
  /\ \E o : Spots(bm) = Spots(bl) \cup {<<b, o, n>>} /\ <<b, o, n>> \notin Spots(bl)

(* A block that gains a name. *)
LEMMA ChangedGrows ==
  ASSUME NEW bl, WellFormed(bl), NEW b \in 1 .. Len(bl), NEW u \in Block, NEW o, NEW n,
         /\ StartsIn(bl[b]) \subseteq StartsIn(u)
         /\ LiveIn(u) = LiveIn(bl[b]) \cup {<<o, n>>}
         /\ \A l \in LiveIn(bl[b]) : l[1] # o
  PROVE  Grown(bl, [bl EXCEPT ![b] = u], n, b)
<1> DEFINE bm == [bl EXCEPT ![b] = u]
<1>1. /\ WellFormed(bm) /\ Len(bm) = Len(bl) /\ bm[b] = u
      /\ \A c \in 1 .. Len(bl) : c # b => bm[c] = bl[c]
      /\ Spots(bm) = {x \in Spots(bl) : x[1] # b} \cup {<<b, e[1], e[2]>> : e \in LiveIn(u)}
  <2>1. WellFormed(bm) /\ Len(bm) = Len(bl)
    BY BlockChanged
  <2>2. bm[b] = u
    BY BlockChanged
  <2>3. \A c \in 1 .. Len(bl) : c # b => bm[c] = bl[c]
    BY BlockChanged
  <2>4. Spots(bm) = {x \in Spots(bl) : x[1] # b} \cup {<<b, e[1], e[2]>> : e \in LiveIn(u)}
    BY BlockChanged
  <2>. QED  BY <2>1, <2>2, <2>3, <2>4
<1>2. Len(bl) \in Nat
  BY BlocksOf
<1> HIDE DEF bm
<1>3. \A c \in 1 .. Len(bl) : StartsIn(bl[c]) \subseteq StartsIn(bm[c])
  BY <1>1
<1>4. ASSUME NEW x \in Spots(bm) PROVE x \in Spots(bl) \cup {<<b, o, n>>}
  <2>1. CASE x \in Spots(bl)
    BY <2>1
  <2>2. CASE \E e \in LiveIn(u) : x = <<b, e[1], e[2]>>
    <3>1. PICK e \in LiveIn(u) : x = <<b, e[1], e[2]>>
      BY <2>2
    <3>2. CASE e = <<o, n>>
      BY <3>1, <3>2
    <3>3. CASE e # <<o, n>>
      <4>1. e \in LiveIn(bl[b])
        BY <3>3
      <4>. QED  BY <3>1, <4>1, SpotElements
    <3>. QED  BY <3>2, <3>3
  <2>. QED  BY <1>1, <2>1, <2>2
<1>5. ASSUME NEW x \in Spots(bl) PROVE x \in Spots(bm)
  <2>1. CASE x[1] # b
    BY <1>1, <2>1
  <2>2. CASE x[1] = b
    <3>1. PICK c \in 1 .. Len(bl) : \E e \in LiveIn(bl[c]) : x = <<c, e[1], e[2]>>
      BY SpotElements
    <3>2. PICK e \in LiveIn(bl[c]) : x = <<c, e[1], e[2]>>
      BY <3>1
    <3>3. c = b
      BY <2>2, <3>2
    <3>4. e \in LiveIn(u)
      BY <3>3
    <3>. QED  BY <1>1, <3>2, <3>3, <3>4
  <2>. QED  BY <2>1, <2>2
<1>6. <<b, o, n>> \in Spots(bm)
  <2> DEFINE e == <<o, n>>
  <2>1. e \in LiveIn(u) /\ <<b, o, n>> = <<b, e[1], e[2]>>
    OBVIOUS
  <2>. QED  BY <1>1, <2>1
<1>7. <<b, o, n>> \notin Spots(bl)
  <2>1. SUFFICES ASSUME <<b, o, n>> \in Spots(bl) PROVE FALSE
    OBVIOUS
  <2>2. PICK c \in 1 .. Len(bl) : \E e \in LiveIn(bl[c]) : <<b, o, n>> = <<c, e[1], e[2]>>
    BY <2>1, SpotElements
  <2>3. PICK e \in LiveIn(bl[c]) : <<b, o, n>> = <<c, e[1], e[2]>>
    BY <2>2
  <2>. QED  BY <2>3
<1>8. Spots(bm) = Spots(bl) \cup {<<b, o, n>>}
  BY <1>4, <1>5, <1>6
<1>9. Len(bm) \in Len(bl) .. Len(bl) + 1 /\ b \in 1 .. Len(bm)
  BY <1>1, <1>2
<1>10. \E a : Spots(bm) = Spots(bl) \cup {<<b, a, n>>} /\ <<b, a, n>> \notin Spots(bl)
  BY <1>7, <1>8
<1>11. Grown(bl, bm, n, b)
  BY <1>1, <1>3, <1>9, <1>10 DEF Grown
<1>. QED
  BY <1>11 DEF bm

(* A name written where there is room, in a free record or behind a name. *)
LEMMA InsertedGrows ==
  ASSUME NEW bl, WellFormed(bl), NEW n \in Name, NEW r \in Room(bl, n)
  PROVE  Grown(bl, Inserted(bl, r, n), n, r[1])
<1> DEFINE b == r[1]
           k == r[2]
           s == bl[b]
           x == s[k]
<1>1. r \in Recs(bl)
  BY DEF Room
<1>2. /\ b \in 1 .. Len(bl) /\ k \in 1 .. Len(s) /\ s \in Block /\ x \in Rec
  BY <1>1, RecAt
<1>3. \/ x.name = Free /\ x.len >= NameLen(n)
      \/ x.name # Free /\ x.len >= NameLen(x.name) + NameLen(n)
  BY DEF Room
<1>4. CASE x.name = Free
  <2> DEFINE u == Replace(s, k, <<Record(n, x.len)>>)
  <2>1. x.len >= NameLen(n) /\ x.name \in {Free}
    BY <1>3, <1>4
  <2> HIDE DEF b, k, s
  <2>2. /\ u \in Block /\ StartsIn(s) \subseteq StartsIn(u)
        /\ LiveIn(u) = LiveIn(s) \cup {<<Offset(s, k), n>>}
        /\ \A l \in LiveIn(s) : l[1] # Offset(s, k)
    BY <1>2, <2>1, FilledBlock
  <2> HIDE DEF u
  <2>3. Grown(bl, [bl EXCEPT ![b] = u], n, b)
    BY <1>2, <2>2, ChangedGrows DEF s
  <2>4. Inserted(bl, r, n) = [bl EXCEPT ![b] = u]
    BY <1>4 DEF Inserted, u, s, b, k
  <2>. QED  BY <2>3, <2>4 DEF b
<1>5. CASE x.name # Free
  <2> DEFINE a == NameLen(x.name)
             u == Replace(s, k, <<Record(x.name, a), Record(n, x.len - a)>>)
  <2>1. x.len >= a + NameLen(n) /\ x.name # Free
    BY <1>3, <1>5
  <2> HIDE DEF b, k, s
  <2>2. /\ u \in Block /\ StartsIn(s) \subseteq StartsIn(u)
        /\ LiveIn(u) = LiveIn(s) \cup {<<Offset(s, k) + a, n>>}
        /\ \A l \in LiveIn(s) : l[1] # Offset(s, k) + a
    BY <1>2, <2>1, ShortenedBlock
  <2> HIDE DEF u
  <2>3. Grown(bl, [bl EXCEPT ![b] = u], n, b)
    <3> DEFINE o == Offset(s, k) + a
    <3>1. /\ u \in Block /\ StartsIn(bl[b]) \subseteq StartsIn(u)
          /\ LiveIn(u) = LiveIn(bl[b]) \cup {<<o, n>>}
          /\ \A l \in LiveIn(bl[b]) : l[1] # o
      BY <2>2 DEF s
    <3> HIDE DEF o
    <3>. QED  BY <1>2, <3>1, ChangedGrows
  <2>4. Inserted(bl, r, n) = [bl EXCEPT ![b] = u]
    BY <1>5 DEF Inserted, u, s, b, k, a
  <2>. QED  BY <2>3, <2>4 DEF b
<1>. QED
  BY <1>4, <1>5

(* A new block with n alone in it. *)
LEMMA AppendedGrows ==
  ASSUME NEW bl, WellFormed(bl), Len(bl) < MaxBlocks, NEW n \in Name
  PROVE  Grown(bl, Append(bl, <<Record(n, BlockLen)>>), n, Len(bl) + 1)
<1> DEFINE x == Record(n, BlockLen)
           u == <<x>>
           bm == Append(bl, u)
           L == Len(bl) + 1
<1>1. n \in Named /\ n # Free /\ BlockLen \in Nat \ {0}
  BY DirectoryAssumption DEF Named
<1>2. x \in Rec /\ x.name = n /\ x.len = BlockLen
  BY <1>1, RecordIn
<1>3. Holds(x)
  BY <1>1, <1>2, NameLenType DEF Holds
<1> HIDE DEF x
<1>4. u \in Seq(Rec) /\ Len(u) = 1 /\ u[1] = x
  BY <1>2
<1> HIDE DEF u
<1>5. Offset(u, 1) = 0 /\ Offset(u, 2) = BlockLen
  <2>1. /\ Offset(u, 1) = 0
        /\ \A k \in 1 .. Len(u) : Offset(u, k + 1) = Offset(u, k) + u[k].len
    BY <1>4, RecordsOffsets
  <2>2. Offset(u, 1 + 1) = Offset(u, 1) + u[1].len
    BY <1>4, <2>1
  <2>. QED  BY <1>1, <1>2, <1>4, <2>1, <2>2
<1>6. u \in Block
  <2>1. Offset(u, Len(u) + 1) = BlockLen
    BY <1>4, <1>5
  <2>2. \A k \in 1 .. Len(u) : Holds(u[k])
    BY <1>3, <1>4
  <2>. QED  BY <1>4, <2>1, <2>2 DEF Block
<1>7. LiveIn(u) = {<<0, n>>}
  <2>1. ASSUME NEW l \in LiveIn(u) PROVE l = <<0, n>>
    <3>1. PICK k \in 1 .. Len(u) : u[k].name # Free /\ l = <<Offset(u, k), u[k].name>>
      BY LiveInElements
    <3>. QED  BY <3>1, <1>2, <1>4, <1>5
  <2>2. <<0, n>> \in LiveIn(u)
    <3>1. 1 \in 1 .. Len(u) /\ u[1].name # Free /\ <<0, n>> = <<Offset(u, 1), u[1].name>>
      BY <1>1, <1>2, <1>4, <1>5
    <3>. QED  BY <3>1, LiveInElements
  <2>. QED  BY <2>1, <2>2
<1>8. bl \in Seq(Block) /\ Len(bl) \in 1 .. MaxBlocks /\ Len(bl) \in Nat
  BY BlocksOf DEF WellFormed
<1>9. /\ bm \in Seq(Block) /\ Len(bm) = L
      /\ \A c \in 1 .. Len(bl) : bm[c] = bl[c]
      /\ bm[L] = u
  BY <1>6, <1>8, AppendProperties
<1> HIDE DEF bm
<1>10. L \in Nat /\ L \in 1 .. MaxBlocks /\ L \in 1 .. L /\ L \notin 1 .. Len(bl)
       /\ \A c \in 1 .. L : c # L => c \in 1 .. Len(bl)
  BY <1>8, DirectoryAssumption
<1> HIDE DEF L
<1>11. WellFormed(bm)
  BY <1>9, <1>10 DEF WellFormed
<1>12. ASSUME NEW y \in Spots(bm) PROVE y \in Spots(bl) \cup {<<L, 0, n>>}
  <2>1. PICK c \in 1 .. Len(bm) : \E e \in LiveIn(bm[c]) : y = <<c, e[1], e[2]>>
    BY <1>11, SpotElements
  <2>2. PICK e \in LiveIn(bm[c]) : y = <<c, e[1], e[2]>>
    BY <2>1
  <2>3. CASE c = L
    BY <2>2, <2>3, <1>7, <1>9
  <2>4. CASE c # L
    <3>1. c \in 1 .. Len(bl) /\ e \in LiveIn(bl[c])
      BY <2>4, <1>9, <1>10
    <3>. QED  BY <2>2, <3>1, SpotElements
  <2>. QED  BY <2>3, <2>4
<1>13. ASSUME NEW y \in Spots(bl) PROVE y \in Spots(bm) /\ y # <<L, 0, n>>
  <2>1. PICK c \in 1 .. Len(bl) : \E e \in LiveIn(bl[c]) : y = <<c, e[1], e[2]>>
    BY SpotElements
  <2>2. PICK e \in LiveIn(bl[c]) : y = <<c, e[1], e[2]>>
    BY <2>1
  <2>3. c \in 1 .. Len(bm) /\ e \in LiveIn(bm[c]) /\ c # L
    BY <1>8, <1>9, <1>10
  <2>. QED  BY <1>11, <2>2, <2>3, SpotElements
<1>14. <<L, 0, n>> \in Spots(bm)
  <2> DEFINE e == <<0, n>>
  <2>1. L \in 1 .. Len(bm) /\ e \in LiveIn(bm[L]) /\ <<L, 0, n>> = <<L, e[1], e[2]>>
    BY <1>7, <1>9, <1>10
  <2> HIDE DEF e
  <2>. QED  BY <1>11, <2>1, SpotElements
<1>15. Spots(bm) = Spots(bl) \cup {<<L, 0, n>>} /\ <<L, 0, n>> \notin Spots(bl)
  BY <1>12, <1>13, <1>14
<1>16. \A c \in 1 .. Len(bl) : StartsIn(bl[c]) \subseteq StartsIn(bm[c])
  BY <1>9
<1>17. Len(bm) \in Len(bl) .. Len(bl) + 1 /\ L \in 1 .. Len(bm)
  BY <1>8, <1>9, <1>10 DEF L
<1>18. Grown(bl, bm, n, L)
  BY <1>11, <1>15, <1>16, <1>17 DEF Grown
<1>. QED
  BY <1>18 DEF bm, u, x, L

(* Placed of the state as an operator. *)
LEMMA PlacedGrows ==
  ASSUME WellFormed(blocks), NEW n \in Name, NEW p \in Placed(n)
  PROVE  Grown(blocks, p[1], n, p[2])
<1>1. CASE Room(blocks, n) # {}
  <2> DEFINE r == First(Room(blocks, n))
  <2>1. \A q \in Room(blocks, n) : q \in Nat \X Nat
    BY RecAt DEF Room
  <2>2. r \in Room(blocks, n)
    BY <1>1, <2>1, FirstIn
  <2>3. p = <<Inserted(blocks, r, n), r[1], 0>>
    BY <1>1 DEF Placed
  <2> HIDE DEF r
  <2>. QED  BY <2>2, <2>3, InsertedGrows
<1>2. CASE Room(blocks, n) = {}
  <2>1. /\ Len(blocks) < MaxBlocks
        /\ p = <<Append(blocks, <<Record(n, BlockLen)>>), Len(blocks) + 1, 1>>
    BY <1>2 DEF Placed
  <2>. QED  BY <2>1, AppendedGrows
<1>. QED
  BY <1>1, <1>2

(* bm is bl without the name that record r held. *)
Shrunk(bl, bm, r) ==
  /\ WellFormed(bm) /\ Len(bm) = Len(bl)
  /\ \A c \in 1 .. Len(bl) : StartsIn(bm[c]) = StartsIn(bl[c])
  /\ Spots(bm) = Spots(bl) \ {Spot(bl, r)}

(* cryexts_delete_entry takes out one name and moves none. *)
LEMMA EmptiedShrinks ==
  ASSUME NEW bl, WellFormed(bl), NEW r \in Live(bl)
  PROVE  Shrunk(bl, Emptied(bl, r), r)
<1> DEFINE b == r[1]
           k == r[2]
           s == bl[b]
           u == [s EXCEPT ![k].name = Free]
           bm == [bl EXCEPT ![b] = u]
           z == <<b, Offset(s, k), s[k].name>>
<1>1. r \in Recs(bl) /\ NameAt(bl, r) # Free
  BY DEF Live
<1>2. b \in 1 .. Len(bl) /\ k \in 1 .. Len(s) /\ s \in Block /\ NameAt(bl, r) = s[k].name
  BY <1>1, RecAt
<1>3. Emptied(bl, r) = bm /\ Spot(bl, r) = z
  BY <1>2 DEF Emptied, Spot
<1> HIDE DEF b, k
<1>4. s[k].name # Free
  BY <1>1, <1>2
<1>5. /\ u \in Block /\ StartsIn(u) = StartsIn(s)
      /\ LiveIn(u) = LiveIn(s) \ {<<Offset(s, k), s[k].name>>}
  <2> HIDE DEF s
  <2>. QED  BY <1>2, <1>4, ClearedBlock
<1> HIDE DEF u
<1>6. /\ WellFormed(bm) /\ Len(bm) = Len(bl) /\ bm[b] = u
      /\ \A c \in 1 .. Len(bl) : c # b => bm[c] = bl[c]
      /\ Spots(bm) = {x \in Spots(bl) : x[1] # b} \cup {<<b, e[1], e[2]>> : e \in LiveIn(u)}
  <2>1. WellFormed(bm) /\ Len(bm) = Len(bl)
    BY <1>2, <1>5, BlockChanged
  <2>2. bm[b] = u
    BY <1>2, <1>5, BlockChanged
  <2>3. \A c \in 1 .. Len(bl) : c # b => bm[c] = bl[c]
    BY <1>2, <1>5, BlockChanged
  <2>4. Spots(bm) = {x \in Spots(bl) : x[1] # b} \cup {<<b, e[1], e[2]>> : e \in LiveIn(u)}
    BY <1>2, <1>5, BlockChanged
  <2>. QED  BY <2>1, <2>2, <2>3, <2>4
<1> HIDE DEF bm
<1>7. \A c \in 1 .. Len(bl) : StartsIn(bm[c]) = StartsIn(bl[c])
  BY <1>5, <1>6
<1>8. ASSUME NEW x \in Spots(bm) PROVE x \in Spots(bl) /\ x # z
  <2>1. CASE x \in Spots(bl) /\ x[1] # b
    BY <2>1
  <2>2. CASE \E e \in LiveIn(u) : x = <<b, e[1], e[2]>>
    <3>1. PICK e \in LiveIn(u) : x = <<b, e[1], e[2]>>
      BY <2>2
    <3>2. e \in LiveIn(s) /\ e # <<Offset(s, k), s[k].name>>
      BY <1>5
    <3>3. x \in Spots(bl)
      BY <1>2, <3>1, <3>2, SpotElements
    <3>4. PICK i \in 1 .. Len(s) : e = <<Offset(s, i), s[i].name>>
      BY <3>2, LiveInElements
    <3>5. x # z
      BY <3>1, <3>2, <3>4
    <3>. QED  BY <3>3, <3>5
  <2>. QED  BY <1>6, <2>1, <2>2
<1>9. ASSUME NEW x \in Spots(bl), x # z PROVE x \in Spots(bm)
  <2>1. CASE x[1] # b
    BY <1>6, <2>1
  <2>2. CASE x[1] = b
    <3>1. PICK c \in 1 .. Len(bl) : \E e \in LiveIn(bl[c]) : x = <<c, e[1], e[2]>>
      BY SpotElements
    <3>2. PICK e \in LiveIn(bl[c]) : x = <<c, e[1], e[2]>>
      BY <3>1
    <3>3. c = b /\ e # <<Offset(s, k), s[k].name>>
      BY <1>9, <2>2, <3>2
    <3>4. e \in LiveIn(u)
      BY <1>5, <3>3
    <3>. QED  BY <1>6, <3>2, <3>3, <3>4
  <2>. QED  BY <2>1, <2>2
<1>10. Spots(bm) = Spots(bl) \ {z}
  BY <1>8, <1>9
<1>11. Shrunk(bl, bm, r)
  BY <1>3, <1>6, <1>7, <1>10 DEF Shrunk
<1>. QED
  BY <1>3, <1>11
-----------------------------------------------------------------------------
(* The index a rebuild makes, from the names of the directory. *)
IndexOf(S, n) ==
  [masks |-> [h \in Bucket |-> {x[1] : x \in {y \in S : Hash[y[3]] = h}}],
   blocks |-> n, entries |-> Cardinality(S)]
Unique(bl) == \A x, y \in Spots(bl) : x[3] = y[3] => x = y

(* A record that holds a name, and no other record its place. *)
LEMMA SpotOf ==
  ASSUME NEW bl, WellFormed(bl), NEW r \in Live(bl)
  PROVE  /\ Spot(bl, r) \in Spots(bl)
         /\ Spot(bl, r)[1] = r[1] /\ Spot(bl, r)[3] = NameAt(bl, r)
         /\ \A q \in Live(bl) : Spot(bl, q) = Spot(bl, r) => q = r
<1>1. Spot(bl, r) \in Spots(bl)
  BY DEF Spots
<1>2. Spot(bl, r)[1] = r[1] /\ Spot(bl, r)[3] = NameAt(bl, r)
  BY DEF Spot
<1>3. ASSUME NEW q \in Live(bl), Spot(bl, q) = Spot(bl, r) PROVE q = r
  <2>1. q \in Recs(bl) /\ r \in Recs(bl)
    BY DEF Live
  <2>2. q[1] = r[1] /\ Offset(bl[q[1]], q[2]) = Offset(bl[r[1]], r[2])
    BY <1>3 DEF Spot
  <2>3. /\ r[2] \in 1 .. Len(bl[r[1]]) /\ r = <<r[1], r[2]>> /\ bl[r[1]] \in Block
        /\ q[2] \in 1 .. Len(bl[q[1]]) /\ q = <<q[1], q[2]>>
    BY <2>1, RecAt
  <2>4. q[2] = r[2]
    BY <2>2, <2>3, OffsetsDiffer
  <2>. QED  BY <2>2, <2>3, <2>4
<1>. QED
  BY <1>1, <1>2, <1>3

(* As many names as records that hold one. *)
LEMMA SpotsFinite ==
  ASSUME NEW bl, WellFormed(bl)
  PROVE  /\ IsFiniteSet(Spots(bl)) /\ Cardinality(Spots(bl)) = Cardinality(Live(bl))
         /\ Cardinality(Spots(bl)) \in Nat
<1>1. IsFiniteSet(Live(bl))
  <2>1. Len(bl) \in Nat /\ BlockLen \in Nat
    BY BlocksOf, DirectoryAssumption
  <2>2. IsFiniteSet(1 .. Len(bl)) /\ IsFiniteSet(1 .. BlockLen)
    BY <2>1, FS_Interval
  <2>3. IsFiniteSet((1 .. Len(bl)) \X (1 .. BlockLen))
    BY <2>2, FS_Product
  <2>4. Live(bl) \in SUBSET ((1 .. Len(bl)) \X (1 .. BlockLen))
    BY DEF Live, Recs
  <2>. QED  BY <2>3, <2>4, FS_Subset
<1> DEFINE f == [r \in Live(bl) |-> Spot(bl, r)]
<1>2. f \in Bijection(Live(bl), Spots(bl))
  <2>1. f \in [Live(bl) -> Spots(bl)]
    BY SpotOf
  <2>2. \A q, r \in Live(bl) : f[q] = f[r] => q = r
    BY SpotOf
  <2>3. \A x \in Spots(bl) : \E r \in Live(bl) : f[r] = x
    BY DEF Spots
  <2> HIDE DEF f
  <2>. QED  BY <2>1, <2>2, <2>3 DEF Bijection, Injection, Surjection, IsInjective
<1>3. ExistsBijection(Live(bl), Spots(bl))
  BY <1>2 DEF ExistsBijection
<1>. QED
  BY <1>1, <1>3, FS_Bijection, FS_CardinalityType

(* cryexts_dir_index_rebuild by names instead of records. *)
LEMMA RebuiltIs ==
  ASSUME NEW bl, WellFormed(bl)
  PROVE  Rebuilt(bl) = IndexOf(Spots(bl), Len(bl))
<1>1. ASSUME NEW h \in Bucket
      PROVE  {r[1] : r \in {x \in Live(bl) : Hash[NameAt(bl, x)] = h}}
               = {x[1] : x \in {y \in Spots(bl) : Hash[y[3]] = h}}
  <2>1. ASSUME NEW r \in Live(bl), Hash[NameAt(bl, r)] = h
        PROVE  \E y \in Spots(bl) : Hash[y[3]] = h /\ y[1] = r[1]
    BY <2>1, SpotOf
  <2>2. ASSUME NEW y \in Spots(bl), Hash[y[3]] = h
        PROVE  \E r \in Live(bl) : Hash[NameAt(bl, r)] = h /\ y[1] = r[1]
    <3>1. PICK r \in Live(bl) : y = Spot(bl, r)
      BY DEF Spots
    <3>. QED  BY <3>1, <2>2, SpotOf
  <2>. QED  BY <2>1, <2>2
<1>2. Cardinality(Live(bl)) = Cardinality(Spots(bl))
  BY SpotsFinite
<1>. QED
  BY <1>1, <1>2 DEF Rebuilt, IndexOf

(* Every name has a bucket. *)
LEMMA HashIn ==
  ASSUME NEW n \in Name \cup Dots
  PROVE  Hash[n] \in Bucket
BY DEF Bucket

(* cryexts_dir_index_add_name keeps the index the one a rebuild would make. *)
LEMMA CountedExact ==
  ASSUME NEW bl, WellFormed(bl), NEW bm, NEW n \in Name, NEW b, Grown(bl, bm, n, b)
  PROVE  Counted(Rebuilt(bl), bm, n, b) = Rebuilt(bm)
<1>1. PICK o : Spots(bm) = Spots(bl) \cup {<<b, o, n>>} /\ <<b, o, n>> \notin Spots(bl)
  BY DEF Grown
<1> DEFINE S == Spots(bl)
           T == Spots(bm)
           z == <<b, o, n>>
           M(X) == [h \in Bucket |-> {x[1] : x \in {y \in X : Hash[y[3]] = h}}]
<1>2. WellFormed(bm)
  BY DEF Grown
<1>3. Rebuilt(bl) = IndexOf(S, Len(bl)) /\ Rebuilt(bm) = IndexOf(T, Len(bm))
  BY <1>2, RebuiltIs
<1>4. Cardinality(T) = Cardinality(S) + 1
  <2>1. IsFiniteSet(S)
    BY SpotsFinite
  <2> HIDE DEF S, T
  <2>. QED  BY <1>1, <2>1, FS_AddElement DEF S, T
<1>5. z[1] = b /\ z[3] = n
  OBVIOUS
<1>6. T = S \cup {z}
  BY <1>1
<1>7. [M(S) EXCEPT ![Hash[n]] = @ \cup {b}] = M(T)
  <2> HIDE DEF S, T, z
  <2>1. ASSUME NEW h \in Bucket
        PROVE  M(T)[h] = IF h = Hash[n] THEN M(S)[h] \cup {b} ELSE M(S)[h]
    BY <1>5, <1>6
  <2>2. Hash[n] \in Bucket
    BY HashIn
  <2>. QED  BY <2>1, <2>2
<1> HIDE DEF M
<1>8. /\ Rebuilt(bl) = [masks |-> M(S), blocks |-> Len(bl), entries |-> Cardinality(S)]
      /\ Rebuilt(bm) = [masks |-> M(T), blocks |-> Len(bm), entries |-> Cardinality(T)]
  BY <1>3 DEF IndexOf, M
<1> DEFINE ix == Rebuilt(bl)
<1>9. /\ ix.masks = M(S) /\ ix.entries = Cardinality(S)
      /\ Rebuilt(bm) = [masks |-> M(T), blocks |-> Len(bm), entries |-> Cardinality(T)]
  BY <1>8
<1>10. Counted(ix, bm, n, b)
         = [masks |-> [ix.masks EXCEPT ![Hash[n]] = @ \cup {b}],
            blocks |-> Len(bm), entries |-> ix.entries + 1]
  BY DEF Counted
<1> HIDE DEF S, T, ix
<1>11. [ix.masks EXCEPT ![Hash[n]] = @ \cup {b}] = M(T)
  BY <1>7, <1>9
<1>12. ix.entries + 1 = Cardinality(T)
  BY <1>4, <1>9
<1>13. Counted(ix, bm, n, b) = Rebuilt(bm)
  BY <1>9, <1>10, <1>11, <1>12
<1>. QED
  BY <1>13 DEF ix

(* So does cryexts_dir_index_remove_name. *)
LEMMA UncountedExact ==
  ASSUME NEW bl, WellFormed(bl), NEW bm, NEW r \in Live(bl), NameAt(bl, r) \in Name,
         Shrunk(bl, bm, r)
  PROVE  Uncounted(Rebuilt(bl), bm, NameAt(bl, r), r[1]) = Rebuilt(bm)
<1> DEFINE S == Spots(bl)
           T == Spots(bm)
           z == Spot(bl, r)
           b == r[1]
           n == NameAt(bl, r)
           M(X) == [h \in Bucket |-> {x[1] : x \in {y \in X : Hash[y[3]] = h}}]
           ix == Rebuilt(bl)
           still == \E q \in Live(bm) : q[1] = b /\ Hash[NameAt(bm, q)] = Hash[n]
<1>1. WellFormed(bm) /\ T = S \ {z}
  BY DEF Shrunk
<1>2. z \in S /\ z[1] = b /\ z[3] = n
  BY SpotOf
<1>3. Rebuilt(bl) = IndexOf(S, Len(bl)) /\ Rebuilt(bm) = IndexOf(T, Len(bm))
  BY <1>1, RebuiltIs
<1>4. Cardinality(T) = Cardinality(S) - 1 /\ Cardinality(S) \in Nat /\ Cardinality(T) \in Nat
  <2>1. IsFiniteSet(S) /\ Cardinality(S) \in Nat /\ Cardinality(T) \in Nat
    BY <1>1, SpotsFinite
  <2> HIDE DEF S, T, z
  <2>. QED  BY <1>1, <1>2, <2>1, FS_RemoveElement
<1>5. still <=> \E y \in T : y[1] = b /\ Hash[y[3]] = Hash[n]
  <2>1. ASSUME NEW q \in Live(bm), q[1] = b, Hash[NameAt(bm, q)] = Hash[n]
        PROVE  \E y \in T : y[1] = b /\ Hash[y[3]] = Hash[n]
    <3>1. /\ Spot(bm, q) \in T /\ Spot(bm, q)[1] = q[1]
          /\ Spot(bm, q)[3] = NameAt(bm, q)
      BY <1>1, SpotOf
    <3>. QED  BY <2>1, <3>1
  <2>2. ASSUME NEW y \in T, y[1] = b, Hash[y[3]] = Hash[n] PROVE still
    <3>1. PICK q \in Live(bm) : y = Spot(bm, q)
      BY DEF Spots
    <3>2. Spot(bm, q)[1] = q[1] /\ Spot(bm, q)[3] = NameAt(bm, q)
      BY <1>1, SpotOf
    <3>. QED  BY <2>2, <3>1, <3>2
  <2>. QED  BY <2>1, <2>2
<1>6. Hash[n] \in Bucket
  BY HashIn
<1> HIDE DEF still
<1>7. [M(S) EXCEPT ![Hash[n]] = IF still THEN @ ELSE @ \ {b}] = M(T)
  <2> HIDE DEF S, T, z, b, n
  <2>1. ASSUME NEW h \in Bucket
        PROVE  M(T)[h] = IF h = Hash[n] THEN IF still THEN M(S)[h] ELSE M(S)[h] \ {b}
                         ELSE M(S)[h]
    <3>1. CASE h # Hash[n]
      BY <3>1, <1>1, <1>2
    <3>2. CASE h = Hash[n] /\ still
      <4>1. PICK y \in T : y[1] = b /\ Hash[y[3]] = Hash[n]
        BY <3>2, <1>5
      <4>. QED  BY <3>2, <4>1, <1>1, <1>2
    <3>3. CASE h = Hash[n] /\ ~still
      <4>1. \A y \in T : ~(y[1] = b /\ Hash[y[3]] = Hash[n])
        BY <3>3, <1>5
      <4>. QED  BY <3>3, <4>1, <1>1, <1>2
    <3>. QED  BY <3>1, <3>2, <3>3
  <2>. QED  BY <2>1, <1>6
<1> HIDE DEF M
<1>8. /\ ix.masks = M(S) /\ ix.entries = Cardinality(S)
      /\ Rebuilt(bm) = [masks |-> M(T), blocks |-> Len(bm), entries |-> Cardinality(T)]
  BY <1>3 DEF IndexOf, M
<1>9. Uncounted(ix, bm, n, b)
        = [masks |-> [ix.masks EXCEPT ![Hash[n]] = IF still THEN @ ELSE @ \ {b}],
           blocks |-> Len(bm), entries |-> IF ix.entries = 0 THEN 0 ELSE ix.entries - 1]
  BY DEF Uncounted, still
<1> HIDE DEF S, T, ix, n, b
<1>10. [ix.masks EXCEPT ![Hash[n]] = IF still THEN @ ELSE @ \ {b}] = M(T)
  BY <1>7, <1>8
<1>11. (IF ix.entries = 0 THEN 0 ELSE ix.entries - 1) = Cardinality(T)
  BY <1>4, <1>8
<1>12. Uncounted(ix, bm, n, b) = Rebuilt(bm)
  BY <1>8, <1>9, <1>10, <1>11
<1>. QED
  BY <1>12 DEF ix, n, b
-----------------------------------------------------------------------------
(* What cryexts_find_entry finds. *)
LEMMA MatchesAre ==
  ASSUME NEW bl, NEW n \in Name \cup Dots
  PROVE  Matches(bl, n) = {r \in Live(bl) : NameAt(bl, r) = n}
<1>1. n # Free
  BY DirectoryAssumption DEF Dots, Free
<1>. QED
  BY <1>1 DEF Matches, Live

(* A name is found in a block exactly when it is there. *)
LEMMA MatchesSpot ==
  ASSUME NEW bl, WellFormed(bl), NEW n \in Name \cup Dots
  PROVE  Matches(bl, n) # {} <=> \E x \in Spots(bl) : x[3] = n
<1>1. ASSUME NEW r \in Matches(bl, n) PROVE \E x \in Spots(bl) : x[3] = n
  BY MatchesAre, SpotOf
<1>2. ASSUME NEW x \in Spots(bl), x[3] = n PROVE Matches(bl, n) # {}
  <2>1. PICK r \in Live(bl) : x = Spot(bl, r)
    BY DEF Spots
  <2>. QED  BY <1>2, <2>1, MatchesAre, SpotOf
<1>. QED
  BY <1>1, <1>2

(* No name twice: at most one match. *)
LEMMA MatchesOne ==
  ASSUME NEW bl, WellFormed(bl), Unique(bl), NEW n \in Name \cup Dots
  PROVE  Cardinality(Matches(bl, n)) <= 1
<1>1. ASSUME NEW q \in Matches(bl, n), NEW r \in Matches(bl, n) PROVE q = r
  <2>1. /\ q \in Live(bl) /\ r \in Live(bl)
        /\ NameAt(bl, q) = n /\ NameAt(bl, r) = n
    BY MatchesAre
  <2>2. /\ Spot(bl, q) \in Spots(bl) /\ Spot(bl, q)[3] = n
        /\ Spot(bl, r) \in Spots(bl) /\ Spot(bl, r)[3] = n
    BY <2>1, SpotOf
  <2>3. Spot(bl, q) = Spot(bl, r)
    BY <2>2 DEF Unique
  <2>. QED  BY <2>1, <2>3, SpotOf
<1>2. CASE Matches(bl, n) = {}
  <2>1. Cardinality(Matches(bl, n)) = 0
    BY <1>2, FS_EmptySet
  <2>. QED  BY <2>1
<1>3. CASE Matches(bl, n) # {}
  <2>1. PICK q : q \in Matches(bl, n)
    BY <1>3
  <2>2. Matches(bl, n) = {q}
    BY <1>1, <2>1
  <2>3. Cardinality(Matches(bl, n)) = 1
    BY <2>2, FS_Singleton
  <2>. QED  BY <2>3
<1>. QED
  BY <1>2, <1>3

(* With no index, or the one a rebuild would make, a lookup misses nothing. *)
LEMMA FindMatches ==
  ASSUME NEW bl, WellFormed(bl), NEW ix \in {NoIndex, Rebuilt(bl)}, NEW n \in Name \cup Dots
  PROVE  Find(bl, ix, n) = Matches(bl, n)
<1>1. ASSUME NEW r \in Matches(bl, n) PROVE r[1] \in Candidates(bl, ix, n)
  <2>1. r \in Live(bl) /\ NameAt(bl, r) = n /\ r[1] \in 1 .. Len(bl)
    BY MatchesAre, RecAt DEF Live
  <2>2. CASE ix = NoIndex
    BY <2>1, <2>2 DEF Candidates
  <2>3. CASE ix = Rebuilt(bl)
    <3>1. Hash[n] \in Bucket
      BY HashIn
    <3>2. r[1] \in ix.masks[Hash[n]]
      BY <2>1, <2>3, <3>1 DEF Rebuilt
    <3>. QED  BY <2>1, <3>2 DEF Candidates
  <2>. QED  BY <2>2, <2>3
<1>. QED
  BY <1>1 DEF Find

(* The record taken holds the name looked for. *)
LEMMA FirstMatch ==
  ASSUME NEW bl, WellFormed(bl), NEW n \in Name \cup Dots, NEW R \in SUBSET Matches(bl, n),
         R # {}
  PROVE  First(R) \in Live(bl) /\ NameAt(bl, First(R)) = n
<1>1. \A r \in Matches(bl, n) : r \in Nat \X Nat
  BY MatchesAre, RecAt DEF Live
<1>2. R \in SUBSET (Nat \X Nat)
  BY <1>1
<1>3. First(R) \in R
  BY <1>2, FirstIn
<1>. QED
  BY <1>3, MatchesAre
-----------------------------------------------------------------------------
(* Positions of cryexts_iterate: a block's base, and the starts behind it. *)
Base(b) == (b - 1) * BlockLen
PosOf(x) == Base(x[1]) + x[2]
GoesOn(bl, p) ==
  \/ p = Len(bl) * BlockLen
  \/ \E c \in 1 .. Len(bl) : \E o \in StartsIn(bl[c]) : p = Base(c) + o

(* Where blocks begin. *)
LEMMA BaseIs ==
  ASSUME NEW b \in Nat \ {0}
  PROVE  /\ Base(b) \in Nat /\ Base(b + 1) = Base(b) + BlockLen
         /\ Base(b + 1) = b * BlockLen /\ Base(1) = 0
<1>1. BlockLen \in Nat /\ b - 1 \in Nat
  BY DirectoryAssumption
<1>2. (b - 1) * BlockLen \in Nat /\ b * BlockLen = (b - 1) * BlockLen + BlockLen
  BY <1>1
<1>3. (b + 1) - 1 = b /\ (1 - 1) * BlockLen = 0
  BY <1>1
<1>. QED
  BY <1>2, <1>3 DEF Base

(* A block ends before the next begins. *)
LEMMA BasesApart ==
  ASSUME NEW b \in Nat \ {0}, NEW c \in Nat \ {0}, b < c
  PROVE  Base(b) + BlockLen <= Base(c)
<1> DEFINE d == c - 1 - b
<1>1. BlockLen \in Nat /\ d \in Nat /\ c - 1 = b + d
  BY DirectoryAssumption
<1> HIDE DEF d
<1>2. (b + d) * BlockLen = b * BlockLen + d * BlockLen /\ d * BlockLen \in Nat
  BY <1>1
<1>3. b * BlockLen \in Nat
  BY <1>1
<1>4. Base(c) = b * BlockLen + d * BlockLen
  BY <1>1, <1>2 DEF Base
<1>5. b * BlockLen = Base(b) + BlockLen /\ Base(b) \in Nat
  BY BaseIs
<1>. QED
  BY <1>1, <1>2, <1>3, <1>4, <1>5

(* A record lies in its block; at its end another starts, or the block ends. *)
LEMMA StartsBelow ==
  ASSUME NEW s \in Block, NEW k \in 1 .. Len(s)
  PROVE  /\ Offset(s, k) \in Nat /\ Offset(s, k) + s[k].len <= BlockLen
         /\ Offset(s, k) < BlockLen /\ s[k].len \in Nat \ {0}
         /\ Offset(s, k) + s[k].len = BlockLen \/ Offset(s, k) + s[k].len \in StartsIn(s)
<1>1. s \in Seq(Rec) /\ Offset(s, Len(s) + 1) = BlockLen
  BY DEF Block
<1>2. Len(s) \in Nat
  BY <1>1, RecordsOffsets
<1>3. s[k].len \in Nat \ {0} /\ Offset(s, k + 1) = Offset(s, k) + s[k].len
  BY <1>1, RecordsOffsets
<1>4. k \in 1 .. Len(s) + 1 /\ Len(s) + 1 \in 1 .. Len(s) + 1 /\ k < Len(s) + 1
  BY <1>2
<1>5. Offset(s, k) \in Nat
  BY <1>1, <1>4, RecordsOffsets
<1> DEFINE j == Len(s) + 1
<1>6. Offset(s, k) + s[k].len <= Offset(s, j)
  <2> HIDE DEF j
  <2>1. j \in 1 .. Len(s) + 1 /\ k < j
    BY <1>4 DEF j
  <2>. QED  BY <1>1, <2>1, RecordsOffsets
<1>7. BlockLen \in Nat
  BY DirectoryAssumption
<1>8. Offset(s, k) + s[k].len = BlockLen \/ Offset(s, k) + s[k].len \in StartsIn(s)
  <2>1. CASE k = Len(s)
    BY <2>1, <1>1, <1>3
  <2>2. CASE k # Len(s)
    <3>1. k + 1 \in 1 .. Len(s)
      BY <2>2, <1>2
    <3>2. Offset(s, k + 1) \in StartsIn(s)
      BY <3>1 DEF StartsIn
    <3>. QED  BY <3>2, <1>3
  <2>. QED  BY <2>1, <2>2
<1>. QED
  BY <1>1, <1>3, <1>5, <1>6, <1>7, <1>8

(* Every block has a record at its beginning. *)
LEMMA BlockStarts ==
  ASSUME NEW s \in Block
  PROVE  0 \in StartsIn(s)
<1>1. s \in Seq(Rec) /\ Len(s) \in 1 .. BlockLen
  BY BlockShape
<1>2. 1 \in 1 .. Len(s) /\ Offset(s, 1) = 0
  BY <1>1, RecordsOffsets
<1>. QED
  BY <1>2 DEF StartsIn

(* The next record starts where one ends. *)
LEMMA NextStart ==
  ASSUME NEW bl, WellFormed(bl), NEW r \in Recs(bl)
  PROVE  LET p == Start(bl, r[1], r[2])
             l == bl[r[1]][r[2]].len
         IN  p \in Nat /\ l \in Nat \ {0} /\ GoesOn(bl, p + l)
<1> DEFINE b == r[1]
           k == r[2]
           s == bl[b]
           o == Offset(s, k)
           l == s[k].len
           p == Base(b) + o
<1>1. b \in 1 .. Len(bl) /\ k \in 1 .. Len(s) /\ s \in Block
  BY RecAt
<1>2. Start(bl, r[1], r[2]) = p
  BY DEF Start, Base
<1>3. Len(bl) \in Nat /\ BlockLen \in Nat
  BY BlocksOf, DirectoryAssumption
<1>4. o \in Nat /\ l \in Nat \ {0} /\ (o + l = BlockLen \/ o + l \in StartsIn(bl[b]))
  <2> HIDE DEF b, k, s
  <2>1. o \in Nat /\ l \in Nat \ {0}
    BY <1>1, StartsBelow
  <2>2. o + l = BlockLen \/ o + l \in StartsIn(s)
    BY <1>1, StartsBelow
  <2>. QED  BY <2>1, <2>2 DEF s
<1> DEFINE w == o + l
<1> HIDE DEF b, k, s, o, l
<1>5. b \in Nat \ {0}
  BY <1>1, <1>3
<1>6. Base(b) \in Nat /\ Base(b + 1) = Base(b) + BlockLen /\ Base(b + 1) = b * BlockLen
  BY <1>5, BaseIs
<1>7. w \in Nat /\ p + l = Base(b) + w /\ (w = BlockLen \/ w \in StartsIn(bl[b]))
  BY <1>4, <1>6
<1> HIDE DEF w
<1>8. GoesOn(bl, p + l)
  <2>1. CASE w \in StartsIn(bl[b])
    BY <1>1, <1>7, <2>1 DEF GoesOn
  <2>2. CASE w = BlockLen /\ b = Len(bl)
    <3>1. p + l = Len(bl) * BlockLen
      BY <1>6, <1>7, <2>2
    <3>. QED  BY <3>1 DEF GoesOn
  <2>3. CASE w = BlockLen /\ b # Len(bl)
    <3> DEFINE c == b + 1
    <3>1. c \in 1 .. Len(bl)
      BY <1>1, <1>3, <2>3
    <3>2. p + l = Base(c) + 0
      <4>1. Base(c) = Base(b) + BlockLen
        BY <1>6
      <4> HIDE DEF c
      <4>. QED  BY <1>3, <1>6, <1>7, <2>3, <4>1
    <3> HIDE DEF c
    <3>3. bl[c] \in Block
      BY <3>1, BlocksOf
    <3>4. 0 \in StartsIn(bl[c])
      BY <3>3, BlockStarts
    <3>. QED  BY <3>1, <3>2, <3>4 DEF GoesOn
  <2>. QED  BY <1>7, <2>1, <2>2, <2>3
<1>9. p \in Nat
  BY <1>4, <1>6
<1>. QED
  BY <1>2, <1>4, <1>8, <1>9 DEF l, s, b, k

(* Records do not overlap. *)
LEMMA RecsApart ==
  ASSUME NEW bl, WellFormed(bl), NEW q \in Recs(bl), NEW r \in Recs(bl), q # r
  PROVE  LET a == Start(bl, q[1], q[2])
             b == Start(bl, r[1], r[2])
         IN  a + bl[q[1]][q[2]].len <= b \/ b + bl[r[1]][r[2]].len <= a
<1>1. /\ q[1] \in 1 .. Len(bl) /\ q[2] \in 1 .. Len(bl[q[1]]) /\ bl[q[1]] \in Block
      /\ r[1] \in 1 .. Len(bl) /\ r[2] \in 1 .. Len(bl[r[1]]) /\ bl[r[1]] \in Block
      /\ q = <<q[1], q[2]>> /\ r = <<r[1], r[2]>>
  BY RecAt
<1>2. Len(bl) \in Nat /\ q[1] \in Nat \ {0} /\ r[1] \in Nat \ {0}
  BY <1>1, BlocksOf
<1> DEFINE f == Offset(bl[q[1]], q[2])
           g == Offset(bl[r[1]], r[2])
           x == bl[q[1]][q[2]].len
           y == bl[r[1]][r[2]].len
<1>3. f \in Nat /\ x \in Nat \ {0} /\ f + x <= BlockLen
  BY <1>1, StartsBelow
<1>4. g \in Nat /\ y \in Nat \ {0} /\ g + y <= BlockLen
  BY <1>1, StartsBelow
<1>5. Base(q[1]) \in Nat /\ Base(r[1]) \in Nat /\ BlockLen \in Nat
  BY <1>2, BaseIs, DirectoryAssumption
<1>6. CASE q[1] = r[1]
  <2>1. q[2] # r[2]
    BY <1>1, <1>6
  <2>2. q[2] < r[2] \/ r[2] < q[2]
    <3>1. Len(bl[q[1]]) \in Nat
      BY <1>1, BlockShape
    <3>. QED  BY <1>1, <1>6, <2>1, <3>1
  <2>3. q[2] < r[2] => f + x <= g
    BY <1>1, <1>6, <2>1, OffsetsDiffer
  <2>4. r[2] < q[2] => g + y <= f
    BY <1>1, <1>6, <2>1, OffsetsDiffer
  <2> HIDE DEF f, g, x, y
  <2>5. (Base(q[1]) + f) + x <= Base(r[1]) + g \/ (Base(r[1]) + g) + y <= Base(q[1]) + f
    BY <1>3, <1>4, <1>5, <1>6, <2>2, <2>3, <2>4
  <2>. QED  BY <2>5 DEF Start, Base, f, g, x, y
<1>7. CASE q[1] # r[1]
  <2>1. q[1] < r[1] => Base(q[1]) + BlockLen <= Base(r[1])
    BY <1>2, BasesApart
  <2>2. r[1] < q[1] => Base(r[1]) + BlockLen <= Base(q[1])
    BY <1>2, BasesApart
  <2> HIDE DEF f, g, x, y
  <2>3. (Base(q[1]) + f) + x <= Base(r[1]) + g \/ (Base(r[1]) + g) + y <= Base(q[1]) + f
    BY <1>2, <1>3, <1>4, <1>5, <1>7, <2>1, <2>2
  <2>. QED  BY <2>3 DEF Start, Base, f, g, x, y
<1>. QED
  BY <1>6, <1>7

(* Names lie before the end of the directory. *)
LEMMA SpotPos ==
  ASSUME NEW bl, WellFormed(bl), NEW r \in Live(bl)
  PROVE  LET p == PosOf(Spot(bl, r))
         IN  p = Start(bl, r[1], r[2]) /\ p \in Nat /\ p < Len(bl) * BlockLen
<1>1. r \in Recs(bl)
  BY DEF Live
<1>2. r[1] \in 1 .. Len(bl) /\ r[2] \in 1 .. Len(bl[r[1]]) /\ bl[r[1]] \in Block
  BY <1>1, RecAt
<1> DEFINE b == r[1]
           o == Offset(bl[r[1]], r[2])
           L == Len(bl)
<1>3. PosOf(Spot(bl, r)) = Base(b) + o /\ Start(bl, r[1], r[2]) = Base(b) + o
  BY DEF PosOf, Spot, Start, Base
<1>4. o \in Nat /\ o < BlockLen
  BY <1>2, StartsBelow
<1>5. L \in Nat \ {0} /\ b \in 1 .. L /\ BlockLen \in Nat
  BY <1>2, BlocksOf, DirectoryAssumption
<1> HIDE DEF b, o, L
<1>6. Base(b) \in Nat /\ Base(L) \in Nat /\ L * BlockLen = Base(L) + BlockLen
  BY <1>5, BaseIs
<1>7. b < L => Base(b) + BlockLen <= Base(L)
  BY <1>5, BasesApart
<1>8. Base(b) + o < L * BlockLen /\ Base(b) + o \in Nat
  BY <1>4, <1>5, <1>6, <1>7
<1>. QED
  BY <1>3, <1>8 DEF L

(* A position before the end is the start of a record. *)
LEMMA GoesOnAt ==
  ASSUME NEW bl, WellFormed(bl), NEW p, GoesOn(bl, p), p # Len(bl) * BlockLen
  PROVE  At(bl, p) # {}
<1>1. PICK c \in 1 .. Len(bl) : \E o \in StartsIn(bl[c]) : p = Base(c) + o
  BY DEF GoesOn
<1>2. PICK o \in StartsIn(bl[c]) : p = Base(c) + o
  BY <1>1
<1>3. PICK k \in 1 .. Len(bl[c]) : o = Offset(bl[c], k)
  BY DEF StartsIn
<1>4. <<c, k>> \in Recs(bl)
  BY RecsOf
<1>5. Start(bl, c, k) = p
  BY <1>2, <1>3 DEF Start, Base
<1> DEFINE r == <<c, k>>
<1>6. r[1] = c /\ r[2] = k
  OBVIOUS
<1>7. r \in At(bl, p)
  BY <1>4, <1>5, <1>6 DEF At
<1>. QED
  BY <1>7

(* Positions do not pass the end. *)
LEMMA GoesOnNat ==
  ASSUME NEW bl, WellFormed(bl), NEW p, GoesOn(bl, p)
  PROVE  p \in Nat /\ p <= Len(bl) * BlockLen
<1>1. Len(bl) \in Nat \ {0} /\ BlockLen \in Nat
  BY BlocksOf, DirectoryAssumption
<1>2. Len(bl) * BlockLen \in Nat
  BY <1>1
<1>3. CASE p = Len(bl) * BlockLen
  BY <1>2, <1>3
<1>4. CASE p # Len(bl) * BlockLen
  <2>1. PICK r : r \in At(bl, p)
    BY <1>4, GoesOnAt
  <2>2. r \in Recs(bl) /\ Start(bl, r[1], r[2]) = p
    BY <2>1 DEF At
  <2>3. r[1] \in 1 .. Len(bl) /\ r[2] \in 1 .. Len(bl[r[1]]) /\ bl[r[1]] \in Block
    BY <2>2, RecAt
  <2> DEFINE b == r[1]
             o == Offset(bl[r[1]], r[2])
             L == Len(bl)
  <2>4. p = Base(b) + o /\ o \in Nat /\ o < BlockLen
    BY <2>2, <2>3, StartsBelow DEF Start, Base
  <2>5. L \in Nat \ {0} /\ b \in 1 .. L
    BY <1>1, <2>3
  <2> HIDE DEF b, o, L
  <2>6. Base(b) \in Nat /\ Base(L) \in Nat /\ L * BlockLen = Base(L) + BlockLen
    BY <2>5, BaseIs
  <2>7. b < L => Base(b) + BlockLen <= Base(L)
    BY <2>5, BasesApart
  <2>8. p \in Nat /\ p <= L * BlockLen
    BY <1>1, <2>4, <2>5, <2>6, <2>7
  <2>. QED  BY <2>8 DEF L
<1>. QED
  BY <1>3, <1>4

(* A readdir can begin at 0. *)
LEMMA StartGoesOn ==
  ASSUME NEW bl, WellFormed(bl)
  PROVE  GoesOn(bl, 0)
<1>1. 1 \in 1 .. Len(bl) /\ bl[1] \in Block
  BY BlocksOf
<1>2. 0 \in StartsIn(bl[1])
  BY <1>1, BlockStarts
<1>3. Base(1) + 0 = 0
  <2>1. Base(1) = 0
    <3>1. 1 \in Nat \ {0}
      OBVIOUS
    <3>. QED  BY <3>1, BaseIs
  <2>. QED  BY <2>1
<1>. QED
  BY <1>1, <1>2, <1>3 DEF GoesOn

(* A position stays the start of a record, or the end, between changes. *)
LEMMA GrownGoesOn ==
  ASSUME NEW bl, WellFormed(bl), NEW bm, NEW n, NEW b, Grown(bl, bm, n, b),
         NEW p, GoesOn(bl, p)
  PROVE  GoesOn(bm, p)
<1>1. /\ WellFormed(bm) /\ Len(bm) \in Len(bl) .. Len(bl) + 1
      /\ \A c \in 1 .. Len(bl) : StartsIn(bl[c]) \subseteq StartsIn(bm[c])
  BY DEF Grown
<1>2. Len(bl) \in Nat \ {0} /\ \A c \in 1 .. Len(bl) : c \in 1 .. Len(bm)
  BY <1>1, BlocksOf
<1>3. CASE \E c \in 1 .. Len(bl) : \E o \in StartsIn(bl[c]) : p = Base(c) + o
  BY <1>1, <1>2, <1>3 DEF GoesOn
<1>4. CASE p = Len(bl) * BlockLen /\ Len(bm) = Len(bl)
  BY <1>4 DEF GoesOn
<1>5. CASE p = Len(bl) * BlockLen /\ Len(bm) # Len(bl)
  <2> DEFINE c == Len(bl) + 1
  <2>1. p = Base(c) + 0
    <3>1. Base(c) = Len(bl) * BlockLen /\ Len(bl) * BlockLen \in Nat
      BY <1>2, BaseIs, DirectoryAssumption
    <3> HIDE DEF c
    <3>. QED  BY <1>5, <3>1
  <2>2. c \in 1 .. Len(bm)
    BY <1>1, <1>2, <1>5
  <2> HIDE DEF c
  <2>3. bm[c] \in Block
    BY <1>1, <2>2, BlocksOf
  <2>4. 0 \in StartsIn(bm[c])
    BY <2>3, BlockStarts
  <2>. QED  BY <2>1, <2>2, <2>4 DEF GoesOn
<1>. QED
  BY <1>3, <1>4, <1>5 DEF GoesOn

(* An emptied record still starts where it did. *)
LEMMA ShrunkGoesOn ==
  ASSUME NEW bl, WellFormed(bl), NEW bm, NEW r, Shrunk(bl, bm, r), NEW p, GoesOn(bl, p)
  PROVE  GoesOn(bm, p)
BY DEF Shrunk, GoesOn
-----------------------------------------------------------------------------
(* The inductive invariant.  Sound holds whatever fails; Kept until a call *)
(* fails to write the directory's inode.                                   *)
HasDots(bl) == \A d \in Dots : \E x \in Spots(bl) : x[3] = d
Told(bl, sc) ==
  \A n \in sc.stable : \E x \in Spots(bl) :
    x[3] = n /\ sc.seen[n] = IF PosOf(x) < sc.pos THEN 1 ELSE 0
Scan == [pos : Nat, seen : [Name -> Nat], stable : SUBSET Name, on : BOOLEAN]

Sound ==
  /\ WellFormed(blocks) /\ HasDots(blocks)
  /\ scan \in Scan /\ (scan.on => GoesOn(blocks, scan.pos))

Kept ==
  /\ HasIndex \/ index = NoIndex
  /\ Untold \/ /\ Unique(blocks) /\ index \in {NoIndex, Rebuilt(blocks)}
               /\ scan.on => Told(blocks, scan)

(* An added name takes nothing from the others. *)
LEMMA GrownKeeps ==
  ASSUME NEW bl, WellFormed(bl), HasDots(bl), NEW bm, NEW n \in Name, NEW b,
         Grown(bl, bm, n, b)
  PROVE  /\ WellFormed(bm) /\ HasDots(bm)
         /\ Unique(bl) /\ Matches(bl, n) = {} => Unique(bm)
         /\ \A sc : Told(bl, sc) => Told(bm, sc)
<1>1. WellFormed(bm)
  BY DEF Grown
<1>2. PICK o : Spots(bm) = Spots(bl) \cup {<<b, o, n>>}
  BY DEF Grown
<1>3. Spots(bl) \subseteq Spots(bm)
  BY <1>2
<1>4. HasDots(bm)
  BY <1>3 DEF HasDots
<1>5. ASSUME Unique(bl), Matches(bl, n) = {} PROVE Unique(bm)
  <2>1. \A x \in Spots(bl) : x[3] # n
    BY <1>5, MatchesSpot
  <2>2. ASSUME NEW x \in Spots(bm), NEW y \in Spots(bm), x[3] = y[3] PROVE x = y
    <3> DEFINE z == <<b, o, n>>
    <3>1. (x \in Spots(bl) \/ x = z) /\ (y \in Spots(bl) \/ y = z) /\ z[3] = n
      BY <1>2
    <3>2. CASE x \in Spots(bl) /\ y \in Spots(bl)
      BY <1>5, <2>2, <3>2 DEF Unique
    <3>. QED  BY <2>1, <2>2, <3>1, <3>2
  <2>. QED  BY <2>2 DEF Unique
<1>6. \A sc : Told(bl, sc) => Told(bm, sc)
  BY <1>3 DEF Told
<1>. QED
  BY <1>1, <1>4, <1>5, <1>6

(* Nor does a removed one, once the readdir no longer counts on it. *)
LEMMA ShrunkKeeps ==
  ASSUME NEW bl, WellFormed(bl), HasDots(bl), NEW bm, NEW r \in Live(bl),
         NameAt(bl, r) \in Name, Shrunk(bl, bm, r)
  PROVE  /\ WellFormed(bm) /\ HasDots(bm)
         /\ Unique(bl) => Unique(bm)
         /\ \A sc \in Scan : LET sd == [sc EXCEPT !.stable = @ \ {NameAt(bl, r)}]
                             IN  sd \in Scan /\ (Told(bl, sc) => Told(bm, sd))
<1> DEFINE z == Spot(bl, r)
           n == NameAt(bl, r)
<1>1. WellFormed(bm) /\ Spots(bm) = Spots(bl) \ {z}
  BY DEF Shrunk
<1>2. z[3] = n
  BY SpotOf
<1>3. \A x \in Spots(bl) : x[3] # n => x \in Spots(bm)
  BY <1>1, <1>2
<1>4. HasDots(bm)
  <2>1. \A d \in Dots : d # n
    BY DirectoryAssumption
  <2>. QED  BY <1>3, <2>1 DEF HasDots
<1>5. Unique(bl) => Unique(bm)
  BY <1>1 DEF Unique
<1>6. ASSUME NEW sc \in Scan
      PROVE  LET sd == [sc EXCEPT !.stable = @ \ {n}]
             IN  sd \in Scan /\ (Told(bl, sc) => Told(bm, sd))
  <2> DEFINE sd == [sc EXCEPT !.stable = @ \ {n}]
  <2>1. /\ sd \in Scan /\ sd.stable = sc.stable \ {n}
        /\ sd.seen = sc.seen /\ sd.pos = sc.pos
    BY DEF Scan
  <2> HIDE DEF sd, n
  <2>2. ASSUME Told(bl, sc), NEW m \in sd.stable
        PROVE  \E x \in Spots(bm) :
                 x[3] = m /\ sd.seen[m] = IF PosOf(x) < sd.pos THEN 1 ELSE 0
    <3>1. m \in sc.stable /\ m # n
      BY <2>1
    <3>2. PICK x \in Spots(bl) :
            x[3] = m /\ sc.seen[m] = IF PosOf(x) < sc.pos THEN 1 ELSE 0
      BY <2>2, <3>1 DEF Told
    <3>3. x \in Spots(bm)
      BY <1>3, <3>1, <3>2
    <3>. QED  BY <2>1, <3>2, <3>3
  <2>3. Told(bl, sc) => Told(bm, sd)
    BY <2>2 DEF Told
  <2>. QED  BY <2>1, <2>3 DEF sd
<1>. QED
  BY <1>1, <1>4, <1>5, <1>6

(* What the ways of adding and of removing a name have in common. *)
LEMMA AddsGrow ==
  ASSUME WellFormed(blocks), NEW n \in Name, Add(n) \/ AddFails(n) \/ AddRebuilds(n)
  PROVE  \E p \in Placed(n) : blocks' = p[1] /\ Grown(blocks, blocks', n, p[2]) /\ scan' = scan
<1>1. PICK p \in Placed(n) : blocks' = p[1] /\ scan' = scan
  BY DEF Add, AddFails, AddRebuilds
<1>2. Grown(blocks, p[1], n, p[2])
  BY PlacedGrows
<1>. QED
  BY <1>1, <1>2

(* The record a removal picks. *)
LEMMA RemovedShrinks ==
  ASSUME WellFormed(blocks), NEW n \in Name, NEW R \in SUBSET Matches(blocks, n), R # {}
  PROVE  /\ First(R) \in Live(blocks) /\ NameAt(blocks, First(R)) = n
         /\ Shrunk(blocks, Emptied(blocks, First(R)), First(R))
<1>1. First(R) \in Live(blocks) /\ NameAt(blocks, First(R)) = n
  BY FirstMatch
<1>. QED
  BY <1>1, EmptiedShrinks

(* Every removal, failed ones included, takes out exactly the name. *)
LEMMA DeletesShrink ==
  ASSUME WellFormed(blocks), NEW n \in Name, Delete(n) \/ DeleteFails(n) \/ DeleteRebuilds(n)
  PROVE  /\ \E r \in Live(blocks) : NameAt(blocks, r) = n /\ Shrunk(blocks, blocks', r)
         /\ Forget(n)
<1> DEFINE R == Find(blocks, index, n)
           Q == Matches(blocks, n)
<1>1. R \in SUBSET Q /\ Q \in SUBSET Q
  BY DEF Find
<1>2. CASE Delete(n) \/ DeleteFails(n)
  <2>1. R # {} /\ blocks' = Emptied(blocks, First(R)) /\ Forget(n)
    BY <1>2 DEF Delete, DeleteFails
  <2> HIDE DEF R
  <2>2. First(R) \in Live(blocks) /\ NameAt(blocks, First(R)) = n
    BY <1>1, <2>1, RemovedShrinks
  <2>3. Shrunk(blocks, Emptied(blocks, First(R)), First(R))
    BY <1>1, <2>1, RemovedShrinks
  <2>. QED  BY <2>1, <2>2, <2>3
<1>3. CASE DeleteRebuilds(n)
  <2>1. Q # {} /\ blocks' = Emptied(blocks, First(Q)) /\ Forget(n)
    BY <1>3 DEF DeleteRebuilds
  <2>2. First(Q) \in Live(blocks) /\ NameAt(blocks, First(Q)) = n
    BY <1>1, <2>1, RemovedShrinks
  <2>3. Shrunk(blocks, Emptied(blocks, First(Q)), First(Q))
    BY <1>1, <2>1, RemovedShrinks
  <2> HIDE DEF Q
  <2>. QED  BY <2>1, <2>2, <2>3
<1>. QED
  BY <1>2, <1>3

(* A readdir that starts, emits one record, or ends. *)
LEMMA ReadSteps ==
  ASSUME Sound, ReadStart \/ ReadNext \/ ReadEnd
  PROVE  /\ UNCHANGED <<blocks, index, space, hurt>>
         /\ scan' \in Scan /\ (scan'.on => GoesOn(blocks, scan'.pos))
<1>1. UNCHANGED <<blocks, index, space, hurt>>
  BY DEF ReadStart, ReadNext, ReadEnd
<1>2. CASE ReadStart
  <2>1. GoesOn(blocks, 0)
    BY StartGoesOn DEF Sound
  <2>2. scan' \in Scan /\ scan'.pos = 0
    BY <1>2 DEF ReadStart, Scan
  <2>. QED  BY <1>1, <2>1, <2>2
<1>3. CASE ReadNext
  <2>1. PICK r \in At(blocks, scan.pos) :
          LET x == blocks[r[1]][r[2]]
          IN scan' = [scan EXCEPT !.pos = @ + x.len,
                        !.seen = [n \in Name |-> IF n = x.name THEN @[n] + 1 ELSE @[n]]]
    BY <1>3 DEF ReadNext
  <2> DEFINE l == blocks[r[1]][r[2]].len
  <2>2. r \in Recs(blocks) /\ Start(blocks, r[1], r[2]) = scan.pos
    BY <2>1 DEF At
  <2>3. l \in Nat \ {0} /\ GoesOn(blocks, scan.pos + l)
    <3>1. GoesOn(blocks, Start(blocks, r[1], r[2]) + l)
      BY <2>2, NextStart DEF Sound
    <3>2. l \in Nat \ {0}
      BY <2>2, NextStart DEF Sound
    <3>. QED  BY <2>2, <3>1, <3>2
  <2>4. scan \in Scan
    BY DEF Sound
  <2> HIDE DEF l
  <2>5. scan'.pos = scan.pos + l
    BY <2>1, <2>4 DEF l, Scan
  <2> DEFINE seen == [n \in Name |-> IF n = blocks[r[1]][r[2]].name THEN scan.seen[n] + 1
                                      ELSE scan.seen[n]]
             pos == scan.pos + l
  <2>6. scan' = [scan EXCEPT !.pos = pos, !.seen = seen]
    BY <2>1, <2>4 DEF l, Scan
  <2>7. pos \in Nat /\ seen \in [Name -> Nat]
    BY <2>3, <2>4 DEF Scan
  <2> HIDE DEF pos, seen
  <2>8. scan' \in Scan
    BY <2>4, <2>6, <2>7 DEF Scan
  <2>. QED  BY <1>1, <2>3, <2>5, <2>8
<1>4. CASE ReadEnd
  <2>1. scan' = NoScan
    BY <1>4 DEF ReadEnd
  <2>. QED  BY <1>1, <2>1 DEF NoScan, Scan
<1>. QED
  BY <1>1, <1>2, <1>3, <1>4

(* What a readdir has told of the names that were there all the time. *)
LEMMA ReadTells ==
  ASSUME Sound, Unique(blocks), scan.on => Told(blocks, scan),
         ReadStart \/ ReadNext \/ ReadEnd
  PROVE  scan'.on => Told(blocks, scan')
<1>1. WellFormed(blocks) /\ scan \in Scan
  BY DEF Sound
<1>2. CASE ReadStart
  <2>1. scan' = [pos |-> 0, seen |-> [n \in Name |-> 0], on |-> TRUE,
                 stable |-> {n \in Name : Present(n)}]
    BY <1>2 DEF ReadStart
  <2>2. ASSUME NEW n \in scan'.stable
        PROVE  \E x \in Spots(blocks) :
                 x[3] = n /\ scan'.seen[n] = IF PosOf(x) < scan'.pos THEN 1 ELSE 0
    <3>1. n \in Name /\ Matches(blocks, n) # {}
      BY <2>1 DEF Present
    <3>2. PICK x \in Spots(blocks) : x[3] = n
      BY <1>1, <3>1, MatchesSpot
    <3>3. PICK r \in Live(blocks) : x = Spot(blocks, r)
      BY DEF Spots
    <3>4. PosOf(x) \in Nat
      BY <1>1, <3>3, SpotPos
    <3>5. ~(PosOf(x) < 0)
      BY <3>4
    <3>. QED  BY <2>1, <3>1, <3>2, <3>5
  <2>. QED  BY <2>2 DEF Told
<1>3. CASE ReadNext
  <2>1. PICK r \in At(blocks, scan.pos) :
          LET x == blocks[r[1]][r[2]]
          IN scan' = [scan EXCEPT !.pos = @ + x.len,
                        !.seen = [n \in Name |-> IF n = x.name THEN @[n] + 1 ELSE @[n]]]
    BY <1>3 DEF ReadNext
  <2> DEFINE l == blocks[r[1]][r[2]].len
             m == blocks[r[1]][r[2]].name
             p == scan.pos
  <2>2. r \in Recs(blocks) /\ Start(blocks, r[1], r[2]) = p
    BY <2>1 DEF At
  <2>3. l \in Nat \ {0} /\ p \in Nat
    <3>1. l \in Nat \ {0}
      BY <1>1, <2>2, NextStart
    <3>. QED  BY <1>1, <3>1 DEF Scan
  <2>4. m = NameAt(blocks, r)
    BY DEF NameAt
  <2> HIDE DEF l, m
  <2>5. /\ scan'.pos = p + l /\ scan'.stable = scan.stable
        /\ \A n \in Name :
             scan'.seen[n] = IF n = m THEN scan.seen[n] + 1 ELSE scan.seen[n]
    BY <1>1, <2>1 DEF l, m, Scan
  <2>6. Told(blocks, scan)
    BY <1>3 DEF ReadNext
  <2>7. ASSUME NEW n \in scan'.stable
        PROVE  \E x \in Spots(blocks) :
                 x[3] = n /\ scan'.seen[n] = IF PosOf(x) < scan'.pos THEN 1 ELSE 0
    <3>1. n \in scan.stable /\ n \in Name
      BY <1>1, <2>5 DEF Scan
    <3>2. PICK x \in Spots(blocks) :
            x[3] = n /\ scan.seen[n] = IF PosOf(x) < scan.pos THEN 1 ELSE 0
      BY <2>6, <3>1 DEF Told
    <3>3. PICK q \in Live(blocks) : x = Spot(blocks, q)
      BY DEF Spots
    <3>4. q \in Recs(blocks) /\ NameAt(blocks, q) = n
      BY <1>1, <3>2, <3>3, SpotOf DEF Live
    <3>5. PosOf(x) \in Nat /\ PosOf(x) = Start(blocks, q[1], q[2])
      BY <1>1, <3>3, SpotPos
    <3>6. CASE q = r
      <4>1. PosOf(x) = p /\ n = m
        BY <2>2, <2>4, <3>4, <3>5, <3>6
      <4>2. ~(PosOf(x) < p) /\ PosOf(x) < p + l
        BY <2>3, <4>1
      <4>3. scan.seen[n] = 0
        BY <3>2, <4>2
      <4>4. scan'.seen[n] = 1
        BY <2>5, <3>1, <4>1, <4>3
      <4>. QED  BY <2>5, <3>2, <4>2, <4>4
    <3>7. CASE q # r
      <4>1. n # m
        <5>1. SUFFICES ASSUME n = m PROVE FALSE
          OBVIOUS
        <5>2. n # Free
          BY <3>1, DirectoryAssumption
        <5>3. r \in Live(blocks)
          BY <2>2, <2>4, <5>1, <5>2 DEF Live
        <5>4. Spot(blocks, r) \in Spots(blocks) /\ Spot(blocks, r)[3] = n
          BY <1>1, <2>4, <5>1, <5>3, SpotOf
        <5>5. Spot(blocks, r) = x
          BY <3>2, <5>4 DEF Unique
        <5>. QED  BY <1>1, <3>3, <3>7, <5>3, <5>5, SpotOf
      <4>2. scan'.seen[n] = scan.seen[n]
        BY <2>5, <3>1, <4>1
      <4> DEFINE a == Start(blocks, q[1], q[2])
                 z == blocks[q[1]][q[2]].len
      <4>3. a + z <= p \/ p + l <= a
        BY <1>1, <2>2, <3>4, <3>7, RecsApart DEF l
      <4>4. z \in Nat \ {0}
        BY <1>1, <3>4, NextStart
      <4> HIDE DEF a, z, p
      <4>5. a \in Nat /\ PosOf(x) = a
        BY <3>5 DEF a
      <4>6. a < p <=> a < p + l
        BY <2>3, <4>3, <4>4, <4>5
      <4>. QED  BY <2>5, <3>2, <4>2, <4>5, <4>6 DEF p
    <3>. QED  BY <3>6, <3>7
  <2>. QED  BY <2>7 DEF Told
<1>4. CASE ReadEnd
  <2>1. scan' = NoScan
    BY <1>4 DEF ReadEnd
  <2>. QED  BY <2>1 DEF NoScan
<1>. QED
  BY <1>2, <1>3, <1>4

(* A directory that was just made. *)
LEMMA NewDirIs ==
  /\ WellFormed(NewDir) /\ HasDots(NewDir) /\ Unique(NewDir)
<1> DEFINE x == Record("dot", 1)
           y == Record("dotdot", BlockLen - 1)
           s == <<x, y>>
<1>1. /\ "dot" \in Named /\ "dotdot" \in Named /\ "dot" # Free /\ "dotdot" # Free
      /\ "dot" \notin Name /\ "dotdot" \notin Name
      /\ BlockLen - 1 \in Nat \ {0} /\ BlockLen \in Nat
  BY DirectoryAssumption DEF Named, Dots, Free
<1>2. x \in Rec /\ x.name = "dot" /\ x.len = 1
  BY <1>1, RecordIn
<1>3. y \in Rec /\ y.name = "dotdot" /\ y.len = BlockLen - 1
  BY <1>1, RecordIn
<1>4. Holds(x) /\ Holds(y)
  BY <1>1, <1>2, <1>3 DEF Holds, NameLen
<1> HIDE DEF x, y
<1>5. s \in Seq(Rec) /\ Len(s) = 2 /\ s[1] = x /\ s[2] = y
  BY <1>2, <1>3
<1> HIDE DEF s
<1>6. Offset(s, 1) = 0 /\ Offset(s, 2) = 1 /\ Offset(s, 3) = BlockLen
  <2>1. /\ Offset(s, 1) = 0
        /\ \A k \in 1 .. Len(s) : Offset(s, k + 1) = Offset(s, k) + s[k].len
    BY <1>5, RecordsOffsets
  <2>2. 1 \in 1 .. Len(s) /\ 2 \in 1 .. Len(s)
    BY <1>5
  <2>3. Offset(s, 1 + 1) = Offset(s, 1) + s[1].len /\ Offset(s, 2 + 1) = Offset(s, 2) + s[2].len
    BY <2>1, <2>2
  <2>. QED  BY <1>1, <1>2, <1>3, <1>5, <2>1, <2>3
<1>7. s \in Block
  <2>1. Offset(s, Len(s) + 1) = BlockLen
    BY <1>5, <1>6
  <2>2. \A k \in 1 .. Len(s) : Holds(s[k])
    BY <1>4, <1>5
  <2>. QED  BY <1>5, <2>1, <2>2 DEF Block
<1>8. LiveIn(s) = {<<0, "dot">>, <<1, "dotdot">>}
  <2>1. ASSUME NEW l \in LiveIn(s) PROVE l \in {<<0, "dot">>, <<1, "dotdot">>}
    <3>1. PICK k \in 1 .. Len(s) : s[k].name # Free /\ l = <<Offset(s, k), s[k].name>>
      BY LiveInElements
    <3>2. k = 1 \/ k = 2
      BY <1>5
    <3>. QED  BY <3>1, <3>2, <1>2, <1>3, <1>5, <1>6
  <2>2. <<0, "dot">> \in LiveIn(s)
    <3>1. 1 \in 1 .. Len(s) /\ s[1].name # Free /\ <<0, "dot">> = <<Offset(s, 1), s[1].name>>
      BY <1>1, <1>2, <1>5, <1>6
    <3>. QED  BY <3>1, LiveInElements
  <2>3. <<1, "dotdot">> \in LiveIn(s)
    <3>1. 2 \in 1 .. Len(s) /\ s[2].name # Free
          /\ <<1, "dotdot">> = <<Offset(s, 2), s[2].name>>
      BY <1>1, <1>3, <1>5, <1>6
    <3>. QED  BY <3>1, LiveInElements
  <2>. QED  BY <2>1, <2>2, <2>3
<1> DEFINE bl == <<s>>
<1>9. NewDir = bl
  BY DEF NewDir, s, x, y
<1>10. bl \in Seq(Block) /\ Len(bl) = 1 /\ bl[1] = s
  BY <1>7
<1> HIDE DEF bl
<1>11. WellFormed(bl)
  BY <1>10, DirectoryAssumption DEF WellFormed
<1>12. ASSUME NEW z \in Spots(bl)
       PROVE  z = <<1, 0, "dot">> \/ z = <<1, 1, "dotdot">>
  <2>1. PICK b \in 1 .. Len(bl) : \E e \in LiveIn(bl[b]) : z = <<b, e[1], e[2]>>
    BY <1>11, SpotElements
  <2>2. PICK e \in LiveIn(bl[b]) : z = <<b, e[1], e[2]>>
    BY <2>1
  <2>3. b = 1 /\ e \in LiveIn(s)
    BY <1>10
  <2>. QED  BY <1>8, <2>2, <2>3
<1>13. <<1, 0, "dot">> \in Spots(bl) /\ <<1, 1, "dotdot">> \in Spots(bl)
  <2>1. 1 \in 1 .. Len(bl)
    BY <1>10
  <2> DEFINE d == <<0, "dot">>
             e == <<1, "dotdot">>
  <2>2. d \in LiveIn(bl[1]) /\ e \in LiveIn(bl[1])
    BY <1>8, <1>10
  <2>3. <<1, 0, "dot">> = <<1, d[1], d[2]>> /\ <<1, 1, "dotdot">> = <<1, e[1], e[2]>>
    OBVIOUS
  <2> HIDE DEF d, e
  <2>. QED  BY <1>11, <2>1, <2>2, <2>3, SpotElements
<1>14. HasDots(bl)
  BY <1>13 DEF HasDots, Dots
<1>15. Unique(bl)
  BY <1>12 DEF Unique
<1>. QED
  BY <1>9, <1>11, <1>14, <1>15

(* A new directory, with or without an index. *)
LEMMA InitSound ==
  ASSUME Init
  PROVE  Sound /\ Kept
<1>1. /\ blocks = NewDir /\ scan = NoScan
      /\ index \in IF HasIndex THEN {NoIndex, Rebuilt(NewDir)} ELSE {NoIndex}
  BY DEF Init
<1>2. WellFormed(blocks) /\ HasDots(blocks) /\ Unique(blocks)
  BY <1>1, NewDirIs
<1>3. scan \in Scan /\ ~scan.on
  BY <1>1 DEF Scan, NoScan
<1>4. (HasIndex \/ index = NoIndex) /\ index \in {NoIndex, Rebuilt(blocks)}
  BY <1>1
<1>. QED
  BY <1>2, <1>3, <1>4 DEF Sound, Kept

(* Additions keep the blocks sound, in whatever state the index is. *)
LEMMA AddsSound ==
  ASSUME Sound, NEW n \in Name, Add(n) \/ AddFails(n) \/ AddRebuilds(n)
  PROVE  Sound'
<1>1. WellFormed(blocks) /\ HasDots(blocks)
  BY DEF Sound
<1>2. PICK p \in Placed(n) : blocks' = p[1] /\ Grown(blocks, blocks', n, p[2]) /\ scan' = scan
  BY <1>1, AddsGrow
<1>3. WellFormed(blocks') /\ HasDots(blocks')
  BY <1>1, <1>2, GrownKeeps
<1>4. scan.on => GoesOn(blocks', scan.pos)
  BY <1>1, <1>2, GrownGoesOn DEF Sound
<1>. QED
  BY <1>2, <1>3, <1>4 DEF Sound

(* So do removals. *)
LEMMA DeletesSound ==
  ASSUME Sound, NEW n \in Name, Delete(n) \/ DeleteFails(n) \/ DeleteRebuilds(n)
  PROVE  Sound'
<1>1. WellFormed(blocks) /\ HasDots(blocks) /\ scan \in Scan
  BY DEF Sound
<1>2. PICK r \in Live(blocks) : NameAt(blocks, r) = n /\ Shrunk(blocks, blocks', r)
  BY <1>1, DeletesShrink
<1>3. scan' = [scan EXCEPT !.stable = @ \ {n}]
  BY <1>1, DeletesShrink DEF Forget
<1>4. WellFormed(blocks') /\ HasDots(blocks')
  BY <1>1, <1>2, ShrunkKeeps
<1>5. scan' \in Scan /\ scan'.on = scan.on /\ scan'.pos = scan.pos
  BY <1>1, <1>3 DEF Scan
<1>6. scan.on => GoesOn(blocks', scan.pos)
  BY <1>1, <1>2, ShrunkGoesOn DEF Sound
<1>. QED
  BY <1>4, <1>5, <1>6 DEF Sound

(* Every step of the directory keeps its blocks well formed. *)
LEMMA NextSound ==
  ASSUME Sound, [Next]_vars
  PROVE  Sound'
<1>1. ASSUME NEW n \in Name, Add(n) \/ AddFails(n) \/ AddRebuilds(n) PROVE Sound'
  BY <1>1, AddsSound
<1>2. ASSUME NEW n \in Name, Delete(n) \/ DeleteFails(n) \/ DeleteRebuilds(n) PROVE Sound'
  BY <1>2, DeletesSound
<1>3. CASE ReadStart \/ ReadNext \/ ReadEnd
  <2>1. blocks' = blocks /\ scan' \in Scan /\ (scan'.on => GoesOn(blocks, scan'.pos))
    BY <1>3, ReadSteps
  <2>. QED  BY <2>1 DEF Sound
<1>4. CASE UNCHANGED vars
  BY <1>4 DEF Sound, vars
<1>. QED
  BY <1>1, <1>2, <1>3, <1>4 DEF Next

(* Through any additions, removals and failures, of the index block or of  *)
(* the inode, every block stays a chain of records that fills it, "." and  *)
(* ".." stay, and an interrupted readdir stays on the start of a record.   *)
THEOREM BlocksSound == Spec => []Sound
<1>1. Init => Sound
  BY InitSound
<1>2. Sound /\ [Next]_vars => Sound'
  BY NextSound
<1>. QED
  BY <1>1, <1>2, PTL DEF Spec
-----------------------------------------------------------------------------
(* The index after a step.  Without checksums cryexts_dir_index_load may   *)
(* take an old index for the directory's own.                              *)
LEMMA AddsIndexed ==
  ASSUME Sound, Kept, Csum \/ ~HasIndex, NEW n \in Name,
         Add(n) \/ AddFails(n) \/ AddRebuilds(n)
  PROVE  /\ HasIndex \/ index' = NoIndex
         /\ Untold' \/ index' \in {NoIndex, Rebuilt(blocks')}
<1>1. WellFormed(blocks)
  BY DEF Sound
<1>2. CASE Add(n)
  <2>1. PICK p \in Placed(n) : \E a \in AddedIndex(p[1], n, p[2]) :
               blocks' = p[1] /\ index' = a[1]
    BY <1>2 DEF Add
  <2>2. PICK a \in AddedIndex(p[1], n, p[2]) : blocks' = p[1] /\ index' = a[1]
    BY <2>1
  <2>3. CASE ~HasIndex
    BY <2>2, <2>3 DEF AddedIndex, Kept
  <2>4. CASE HasIndex /\ index = NoIndex
    <3>1. \A raw \in Old : ~Loads(raw)
      BY <2>4 DEF Loads
    <3>2. a[1] = Rebuilt(p[1])
      BY <2>2, <2>4, <3>1 DEF AddedIndex
    <3>. QED  BY <2>2, <2>4, <3>2
  <2>5. CASE HasIndex /\ index # NoIndex
    <3>1. a[1] = Counted(index, p[1], n, p[2])
      BY <2>2, <2>5 DEF AddedIndex
    <3>2. hurt' = hurt
      BY <1>2 DEF Add
    <3>3. Untold \/ index = Rebuilt(blocks)
      BY <2>5 DEF Kept
    <3>4. Grown(blocks, p[1], n, p[2])
      BY <1>1, PlacedGrows
    <3>5. Counted(Rebuilt(blocks), p[1], n, p[2]) = Rebuilt(p[1])
      BY <1>1, <3>4, CountedExact
    <3>. QED  BY <2>2, <2>5, <3>1, <3>2, <3>3, <3>5 DEF Untold
  <2>. QED  BY <2>3, <2>4, <2>5
<1>3. CASE AddFails(n)
  <2>1. index' = index
    BY <1>3 DEF AddFails
  <2>2. "inode" \in hurt' \/ index = NoIndex
    BY <1>3 DEF AddFails, Fault
  <2>. QED  BY <2>1, <2>2 DEF Kept, Untold
<1>4. CASE AddRebuilds(n)
  <2>1. HasIndex /\ index' = Rebuilt(blocks')
    BY <1>4 DEF AddRebuilds
  <2>. QED  BY <2>1
<1>. QED
  BY <1>2, <1>3, <1>4

(* After a removal the index is the one a rebuild would make. *)
LEMMA DeletesIndexed ==
  ASSUME Sound, Kept, NEW n \in Name, Delete(n) \/ DeleteFails(n) \/ DeleteRebuilds(n)
  PROVE  /\ HasIndex \/ index' = NoIndex
         /\ Untold' \/ index' \in {NoIndex, Rebuilt(blocks')}
<1>1. WellFormed(blocks)
  BY DEF Sound
<1>2. CASE Delete(n)
  <2> DEFINE R == Find(blocks, index, n)
             r == First(R)
  <2>1. R # {} /\ blocks' = Emptied(blocks, r) /\ hurt' = hurt
        /\ IF HasIndex /\ index = NoIndex THEN index' = Rebuilt(blocks')
           ELSE index' = IF HasIndex THEN Uncounted(index, blocks', n, r[1]) ELSE index
    BY <1>2 DEF Delete
  <2>2. R \in SUBSET Matches(blocks, n)
    BY DEF Find
  <2> HIDE DEF R
  <2>3. r \in Live(blocks) /\ NameAt(blocks, r) = n
    BY <1>1, <2>1, <2>2, RemovedShrinks
  <2>4. Shrunk(blocks, Emptied(blocks, r), r)
    BY <1>1, <2>1, <2>2, RemovedShrinks
  <2> HIDE DEF r
  <2>5. Uncounted(Rebuilt(blocks), Emptied(blocks, r), NameAt(blocks, r), r[1])
          = Rebuilt(Emptied(blocks, r))
    <3>1. NameAt(blocks, r) \in Name
      BY <2>3
    <3>. QED  BY <1>1, <2>3, <2>4, <3>1, UncountedExact
  <2>6. CASE ~HasIndex
    BY <2>1, <2>6 DEF Kept
  <2>7. CASE HasIndex /\ index = NoIndex
    BY <2>1, <2>7
  <2>8. CASE HasIndex /\ index # NoIndex
    <3>1. Untold \/ index = Rebuilt(blocks)
      BY <2>8 DEF Kept
    <3>2. index' = Uncounted(index, Emptied(blocks, r), n, r[1])
      BY <2>1, <2>8
    <3>3. index = Rebuilt(blocks) => index' = Rebuilt(blocks')
      BY <2>1, <2>3, <2>5, <3>2
    <3>. QED  BY <2>1, <2>8, <3>1, <3>3 DEF Untold
  <2>. QED  BY <2>6, <2>7, <2>8
<1>3. CASE DeleteFails(n)
  <2>1. index' = index
    BY <1>3 DEF DeleteFails
  <2>2. "inode" \in hurt' \/ index = NoIndex
    BY <1>3 DEF DeleteFails, Fault
  <2>. QED  BY <2>1, <2>2 DEF Kept, Untold
<1>4. CASE DeleteRebuilds(n)
  <2>1. HasIndex /\ index' = Rebuilt(blocks')
    BY <1>4 DEF DeleteRebuilds
  <2>. QED  BY <2>1
<1>. QED
  BY <1>2, <1>3, <1>4

(* An addition that writes the inode. *)
LEMMA AddsKept ==
  ASSUME Sound, Kept, Csum \/ ~HasIndex, NEW n \in Name,
         Add(n) \/ AddFails(n) \/ AddRebuilds(n)
  PROVE  Kept'
<1>1. WellFormed(blocks) /\ HasDots(blocks)
  BY DEF Sound
<1>2. /\ HasIndex \/ index' = NoIndex
      /\ Untold' \/ index' \in {NoIndex, Rebuilt(blocks')}
  BY AddsIndexed
<1>3. Untold => Untold'
  BY DEF Untold, Add, AddFails, AddRebuilds, Fault
<1>4. ASSUME ~Untold PROVE Unique(blocks') /\ (scan'.on => Told(blocks', scan'))
  <2>1. /\ Unique(blocks) /\ index \in {NoIndex, Rebuilt(blocks)}
        /\ scan.on => Told(blocks, scan)
    BY <1>4 DEF Kept
  <2>2. PICK p \in Placed(n) : Grown(blocks, blocks', n, p[2]) /\ scan' = scan
    BY <1>1, AddsGrow
  <2>3. Find(blocks, index, n) = {} \/ Find(blocks, NoIndex, n) = {}
    BY DEF Add, AddFails, AddRebuilds
  <2>4. Find(blocks, index, n) = Matches(blocks, n)
    BY <1>1, <2>1, FindMatches
  <2>5. Find(blocks, NoIndex, n) = Matches(blocks, n)
    <3>1. NoIndex \in {NoIndex, Rebuilt(blocks)}
      OBVIOUS
    <3>. QED  BY <1>1, <3>1, FindMatches
  <2>6. Matches(blocks, n) = {}
    BY <2>3, <2>4, <2>5
  <2>7. Unique(blocks')
    BY <1>1, <2>1, <2>2, <2>6, GrownKeeps
  <2>8. scan.on => Told(blocks', scan)
    BY <1>1, <2>1, <2>2, GrownKeeps
  <2>. QED  BY <2>2, <2>7, <2>8
<1>. QED
  BY <1>2, <1>3, <1>4 DEF Kept

(* A removal that writes the inode. *)
LEMMA DeletesKept ==
  ASSUME Sound, Kept, NEW n \in Name, Delete(n) \/ DeleteFails(n) \/ DeleteRebuilds(n)
  PROVE  Kept'
<1>1. WellFormed(blocks) /\ HasDots(blocks) /\ scan \in Scan
  BY DEF Sound
<1>2. /\ HasIndex \/ index' = NoIndex
      /\ Untold' \/ index' \in {NoIndex, Rebuilt(blocks')}
  BY DeletesIndexed
<1>3. Untold => Untold'
  BY DEF Untold, Delete, DeleteFails, DeleteRebuilds, Fault
<1>4. ASSUME ~Untold PROVE Unique(blocks') /\ (scan'.on => Told(blocks', scan'))
  <2>1. Unique(blocks) /\ (scan.on => Told(blocks, scan))
    BY <1>4 DEF Kept
  <2>2. PICK r \in Live(blocks) : NameAt(blocks, r) = n /\ Shrunk(blocks, blocks', r)
    BY <1>1, DeletesShrink
  <2>3. scan' = [scan EXCEPT !.stable = @ \ {NameAt(blocks, r)}]
    BY <1>1, <2>2, DeletesShrink DEF Forget
  <2>4. scan'.on = scan.on
    BY <1>1, <2>3 DEF Scan
  <2>5. NameAt(blocks, r) \in Name
    BY <2>2
  <2>6. Unique(blocks')
    BY <1>1, <2>1, <2>2, <2>5, ShrunkKeeps
  <2>7. Told(blocks, scan) => Told(blocks', [scan EXCEPT !.stable = @ \ {NameAt(blocks, r)}])
    BY <1>1, <2>2, <2>5, ShrunkKeeps
  <2>. QED  BY <2>1, <2>3, <2>4, <2>6, <2>7
<1>. QED
  BY <1>2, <1>3, <1>4 DEF Kept

(* Every step keeps names unique, the index exact and the readdir right. *)
LEMMA NextKept ==
  ASSUME Sound, Kept, Csum \/ ~HasIndex, [Next]_vars
  PROVE  Kept'
<1>1. ASSUME NEW n \in Name, Add(n) \/ AddFails(n) \/ AddRebuilds(n) PROVE Kept'
  BY <1>1, AddsKept
<1>2. ASSUME NEW n \in Name, Delete(n) \/ DeleteFails(n) \/ DeleteRebuilds(n) PROVE Kept'
  BY <1>2, DeletesKept
<1>3. CASE ReadStart \/ ReadNext \/ ReadEnd
  <2>1. blocks' = blocks /\ index' = index /\ hurt' = hurt
    BY <1>3, ReadSteps
  <2>2. ~Untold => (scan'.on => Told(blocks, scan'))
    BY <1>3, ReadTells DEF Kept
  <2>. QED  BY <2>1, <2>2 DEF Kept, Untold
<1>4. CASE UNCHANGED vars
  BY <1>4 DEF Kept, Untold, vars
<1>. QED
  BY <1>1, <1>2, <1>3, <1>4 DEF Next

(* The state invariant of a directory whose index, if it has one, carries   *)
(* a checksum.                                                             *)
LEMMA AlwaysKept ==
  ASSUME Csum \/ ~HasIndex
  PROVE  Spec => [](Sound /\ Kept)
<1>1. Init => Sound /\ Kept
  BY InitSound
<1>2. Sound /\ Kept /\ [Next]_vars => (Sound /\ Kept)'
  BY NextSound, NextKept
<1>. QED
  BY <1>1, <1>2, PTL DEF Spec
-----------------------------------------------------------------------------
(* What the invariant says of the records, *)
LEMMA SoundFits ==
  ASSUME Sound
  PROVE  RecordsFit
<1>1. ASSUME NEW b \in 1 .. Len(blocks)
      PROVE  /\ Offset(blocks[b], Len(blocks[b]) + 1) = BlockLen
             /\ \A k \in 1 .. Len(blocks[b]) : Holds(blocks[b][k])
  <2>1. blocks[b] \in Block
    BY BlocksOf DEF Sound
  <2>. QED  BY <2>1 DEF Block
<1>. QED
  BY <1>1 DEF RecordsFit, Holds

(* of the place a readdir goes on at, *)
LEMMA SoundGoesOn ==
  ASSUME Sound, scan.on
  PROVE  AtEnd \/ At(blocks, scan.pos) # {}
<1>1. WellFormed(blocks) /\ GoesOn(blocks, scan.pos)
  BY DEF Sound
<1>2. CASE scan.pos = Len(blocks) * BlockLen
  <2>1. Len(blocks) * BlockLen \in Nat
    <3>1. Len(blocks) \in Nat /\ BlockLen \in Nat
      BY <1>1, BlocksOf, DirectoryAssumption
    <3>. QED  BY <3>1
  <2>. QED  BY <1>2, <2>1 DEF AtEnd
<1>3. CASE scan.pos # Len(blocks) * BlockLen
  BY <1>1, <1>3, GoesOnAt
<1>. QED
  BY <1>2, <1>3

(* of lookups, *)
LEMMA KeptFinds ==
  ASSUME Sound, Kept
  PROVE  FindsAll
<1>1. WellFormed(blocks)
  BY DEF Sound
<1>2. ASSUME ~Untold, NEW n \in Name \cup Dots
      PROVE  /\ Find(blocks, index, n) = Matches(blocks, n)
             /\ Cardinality(Matches(blocks, n)) <= 1
  <2>1. Unique(blocks) /\ index \in {NoIndex, Rebuilt(blocks)}
    BY <1>2 DEF Kept
  <2>2. Find(blocks, index, n) = Matches(blocks, n)
    BY <1>1, <2>1, FindMatches
  <2>3. Cardinality(Matches(blocks, n)) <= 1
    BY <1>1, <2>1, MatchesOne
  <2>. QED  BY <2>2, <2>3
<1>. QED
  BY <1>2 DEF FindsAll

(* of the index, *)
LEMMA KeptExact ==
  ASSUME Sound, Kept
  PROVE  IndexExact
<1>1. WellFormed(blocks) /\ HasDots(blocks) /\ Len(blocks) \in 1 .. MaxBlocks
  BY DEF Sound, WellFormed
<1>2. ASSUME ~Untold, index # NoIndex
      PROVE  index = Rebuilt(blocks) /\ Validate(blocks, index)
  <2>1. index = Rebuilt(blocks)
    BY <1>2 DEF Kept
  <2>2. index.blocks = Len(blocks)
    BY <2>1 DEF Rebuilt
  <2>3. ASSUME NEW r \in Live(blocks)
        PROVE  r[1] \in index.masks[Hash[NameAt(blocks, r)]]
    <3>1. r \in Recs(blocks) /\ NameAt(blocks, r) # Free
      BY DEF Live
    <3>2. NameAt(blocks, r) \in Name \cup Dots
      BY <1>1, <3>1, RecAt, RecType DEF Named
    <3>3. Hash[NameAt(blocks, r)] \in Bucket
      BY <3>2, HashIn
    <3>. QED  BY <2>1, <3>3 DEF Rebuilt
  <2>4. ASSUME NEW d \in Dots PROVE Matches(blocks, d) # {}
    <3>1. \E x \in Spots(blocks) : x[3] = d
      BY <1>1 DEF HasDots
    <3>. QED  BY <1>1, <3>1, MatchesSpot
  <2>. QED  BY <1>1, <2>1, <2>2, <2>3, <2>4 DEF Validate
<1>. QED
  BY <1>2 DEF IndexExact

(* and of a readdir at its end. *)
LEMMA KeptComplete ==
  ASSUME Sound, Kept
  PROVE  ReaddirComplete
<1>1. WellFormed(blocks) /\ scan \in Scan
  BY DEF Sound
<1>2. ASSUME AtEnd, ~Untold, NEW n \in scan.stable PROVE scan.seen[n] = 1
  <2>1. scan.on /\ scan.pos >= Len(blocks) * BlockLen
    BY <1>2 DEF AtEnd
  <2>2. Told(blocks, scan)
    BY <1>2, <2>1 DEF Kept
  <2>3. PICK x \in Spots(blocks) :
          x[3] = n /\ scan.seen[n] = IF PosOf(x) < scan.pos THEN 1 ELSE 0
    BY <2>2 DEF Told
  <2>4. PICK r \in Live(blocks) : x = Spot(blocks, r)
    BY DEF Spots
  <2> DEFINE end == Len(blocks) * BlockLen
  <2>5. PosOf(x) \in Nat /\ PosOf(x) < end
    BY <1>1, <2>4, SpotPos
  <2>6. end \in Nat /\ scan.pos \in Nat
    <3>1. Len(blocks) \in Nat /\ BlockLen \in Nat
      BY <1>1, BlocksOf, DirectoryAssumption
    <3>. QED  BY <1>1, <3>1 DEF Scan
  <2>7. PosOf(x) < scan.pos
    <3>1. scan.pos >= end
      BY <2>1
    <3> HIDE DEF end
    <3>. QED  BY <2>5, <2>6, <3>1
  <2>. QED  BY <2>3, <2>7
<1>. QED
  BY <1>2, SoundGoesOn DEF ReaddirComplete

(* The records cryexts_add_entry splits, fills and adds and those            *)
(* cryexts_delete_entry empties fill every block exactly and have room for *)
(* their names, whatever index an old block shows and whatever fails.      *)
THEOREM AlwaysRecordsFit == Spec => []RecordsFit
BY BlocksSound, SoundFits, PTL

(* cryexts_iterate always resumes at the start of a record or at the end,  *)
(* never inside a record that was split meanwhile.                         *)
THEOREM ReaddirGoesOn == Spec => [](scan.on => AtEnd \/ At(blocks, scan.pos) # {})
BY BlocksSound, SoundGoesOn, PTL

(* cryexts_find_entry misses no name and no name is there twice, until the *)
(* inode cannot be written.  With an index and no checksums it does not    *)
(* hold: an old index block passes for the directory's own.                *)
THEOREM AlwaysFindsAll ==
  ASSUME Csum \/ ~HasIndex
  PROVE  Spec => []FindsAll
BY AlwaysKept, KeptFinds, PTL

(* The index that add_name and remove_name keep up bit by bit is at every  *)
(* time the one cryexts_dir_index_rebuild would make, counts included.     *)
THEOREM AlwaysIndexExact ==
  ASSUME Csum \/ ~HasIndex
  PROVE  Spec => []IndexExact
BY AlwaysKept, KeptExact, PTL

(* A readdir that goes on between changes emits every name that was there  *)
(* all the time exactly once, for any number of calls, changes and blocks. *)
THEOREM AlwaysReaddirComplete ==
  ASSUME Csum \/ ~HasIndex
  PROVE  Spec => []ReaddirComplete
BY AlwaysKept, KeptComplete, PTL
=============================================================================
