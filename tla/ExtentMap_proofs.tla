-------------------------- MODULE ExtentMap_proofs ---------------------------
(***************************************************************************)
(* Proofs about ExtentMap, for every format, volume, number of entries and *)
(* size: nothing leaks, every format implements BlockMap, and an inode     *)
(* that was stored can be read again.                                      *)
(*                                                                         *)
(* A mapping is seen as the set of its pairs (block of the file, block of  *)
(* the volume), PairsIn.  The first half says what each operator on        *)
(* extents does to the pairs: a merge, an insertion, a cut and a hole.     *)
(* Then every step does one of three things (Takes, Holds, Gives), each of *)
(* which keeps the pairs one to one and the blocks accounted for (Sound).  *)
(* The last part adds what validate_inode asks for (RInv): the leaves are  *)
(* in order, within their bounds, and no block lies behind the file.       *)
(***************************************************************************)
EXTENDS ExtentMap, FiniteSetTheorems, SequenceTheorems, WellFoundedInduction, TLAPS

(* A nonempty set of naturals has a least element. *)
LEMMA Minimum ==
  ASSUME NEW S \in SUBSET Nat, S # {}
  PROVE  \E x \in S : \A y \in S : x <= y
<1> DEFINE R == OpToRel(<, Nat)
<1>1. IsWellFoundedOn(R, Nat)
  BY NatLessThanWellFounded
<1>2. PICK x \in S : \A y \in S : ~(<<y, x>> \in R)
  <2> HIDE DEF R
  <2>. QED  BY <1>1, WFMin
<1>3. ASSUME NEW y \in S PROVE x <= y
  <2>1. SUFFICES ASSUME y < x PROVE FALSE
    OBVIOUS
  <2>2. <<y, x>> \in R
    BY <2>1 DEF OpToRel
  <2>. QED  BY <2>2, <1>2
<1>. QED
  BY <1>3
-----------------------------------------------------------------------------
(* What an extent, a list of extents and a list of lists map. *)
Ext == [l : Nat, p : Nat \ {0}, n : Nat \ {0}]
Pairs(e) == {<<e.l + i, e.p + i>> : i \in 0 .. e.n - 1}
Rel(es) == UNION {Pairs(es[i]) : i \in 1 .. Len(es)}
Rels(ss) == UNION {Rel(ss[i]) : i \in 1 .. Len(ss)}

LEMMA ExtentIn ==
  ASSUME NEW l \in Nat, NEW p \in Nat \ {0}, NEW n \in Nat \ {0}
  PROVE  /\ Extent(l, p, n) \in Ext
         /\ Extent(l, p, n).l = l /\ Extent(l, p, n).p = p /\ Extent(l, p, n).n = n
BY DEF Extent, Ext

LEMMA PairsAre ==
  ASSUME NEW e \in Ext, NEW x
  PROVE  x \in Pairs(e) <=> /\ x = <<x[1], x[2]>> /\ x[1] \in Nat /\ x[2] \in Nat
                            /\ e.l <= x[1] /\ x[1] < e.l + e.n
                            /\ x[2] - e.p = x[1] - e.l
<1>1. e.l \in Nat /\ e.p \in Nat /\ e.n \in Nat
  BY DEF Ext
<1>2. ASSUME x \in Pairs(e)
      PROVE  /\ x = <<x[1], x[2]>> /\ x[1] \in Nat /\ x[2] \in Nat
             /\ e.l <= x[1] /\ x[1] < e.l + e.n /\ x[2] - e.p = x[1] - e.l
  <2>1. PICK i \in 0 .. e.n - 1 : x = <<e.l + i, e.p + i>>
    BY <1>2 DEF Pairs
  <2>2. x[1] = e.l + i /\ x[2] = e.p + i
    BY <2>1
  <2>. QED  BY <1>1, <2>1, <2>2
<1>3. ASSUME /\ x = <<x[1], x[2]>> /\ x[1] \in Nat /\ x[2] \in Nat
             /\ e.l <= x[1] /\ x[1] < e.l + e.n /\ x[2] - e.p = x[1] - e.l
      PROVE  x \in Pairs(e)
  <2> DEFINE i == x[1] - e.l
  <2>1. i \in 0 .. e.n - 1 /\ x[1] = e.l + i /\ x[2] = e.p + i
    BY <1>1, <1>3
  <2>. QED  BY <1>3, <2>1 DEF Pairs
<1>. QED
  BY <1>2, <1>3

LEMMA RelIn ==
  ASSUME NEW es, NEW x
  PROVE  x \in Rel(es) <=> \E i \in 1 .. Len(es) : x \in Pairs(es[i])
BY DEF Rel

LEMMA RelsIn ==
  ASSUME NEW ss, NEW x
  PROVE  x \in Rels(ss) <=> \E i \in 1 .. Len(ss) : x \in Rel(ss[i])
BY DEF Rels

LEMMA RelConcat ==
  ASSUME NEW a \in Seq(Ext), NEW b \in Seq(Ext)
  PROVE  a \o b \in Seq(Ext) /\ Rel(a \o b) = Rel(a) \cup Rel(b)
<1> DEFINE c == a \o b
<1>1. /\ c \in Seq(Ext) /\ Len(c) = Len(a) + Len(b)
      /\ \A i \in 1 .. Len(a) + Len(b) : c[i] = IF i <= Len(a) THEN a[i] ELSE b[i - Len(a)]
  BY ConcatProperties
<1>2. Len(a) \in Nat /\ Len(b) \in Nat
  BY LenProperties
<1> HIDE DEF c
<1>3. ASSUME NEW x \in Rel(c) PROVE x \in Rel(a) \cup Rel(b)
  <2>1. PICK i \in 1 .. Len(c) : x \in Pairs(c[i])
    BY RelIn
  <2>2. CASE i <= Len(a)
    <3>1. i \in 1 .. Len(a) /\ c[i] = a[i]
      BY <1>1, <1>2, <2>2
    <3>. QED  BY <2>1, <3>1, RelIn
  <2>3. CASE ~(i <= Len(a))
    <3> DEFINE k == i - Len(a)
    <3>1. k \in 1 .. Len(b) /\ c[i] = b[k]
      BY <1>1, <1>2, <2>3
    <3> HIDE DEF k
    <3>. QED  BY <2>1, <3>1, RelIn
  <2>. QED  BY <2>2, <2>3
<1>4. ASSUME NEW x \in Rel(a) PROVE x \in Rel(c)
  <2>1. PICK i \in 1 .. Len(a) : x \in Pairs(a[i])
    BY RelIn
  <2>2. i \in 1 .. Len(c) /\ c[i] = a[i]
    BY <1>1, <1>2
  <2>. QED  BY <2>1, <2>2, RelIn
<1>5. ASSUME NEW x \in Rel(b) PROVE x \in Rel(c)
  <2>1. PICK i \in 1 .. Len(b) : x \in Pairs(b[i])
    BY RelIn
  <2> DEFINE k == i + Len(a)
  <2>2. k \in 1 .. Len(c) /\ c[k] = b[i]
    <3>1. k \in 1 .. Len(a) + Len(b) /\ ~(k <= Len(a)) /\ k - Len(a) = i
      BY <1>2
    <3>. QED  BY <1>1, <3>1
  <2> HIDE DEF k
  <2>. QED  BY <2>1, <2>2, RelIn
<1>6. Rel(c) = Rel(a) \cup Rel(b)
  BY <1>3, <1>4, <1>5
<1>. QED
  BY <1>1, <1>6 DEF c

LEMMA RelSingle ==
  ASSUME NEW e \in Ext
  PROVE  <<e>> \in Seq(Ext) /\ Len(<<e>>) = 1 /\ Rel(<<e>>) = Pairs(e)
<1>1. <<e>> \in Seq(Ext) /\ Len(<<e>>) = 1 /\ <<e>>[1] = e
  OBVIOUS
<1>. QED
  BY <1>1 DEF Rel

LEMMA RelEmpty ==
  /\ <<>> \in Seq(Ext) /\ Len(<<>>) = 0 /\ Rel(<<>>) = {} /\ Rels(<<>>) = {}
<1>1. <<>> \in Seq(Ext) /\ Len(<<>>) = 0 /\ 1 .. 0 = {}
  OBVIOUS
<1>. QED
  BY <1>1 DEF Rel, Rels

LEMMA PairsOne ==
  ASSUME NEW l \in Nat, NEW p \in Nat \ {0}
  PROVE  Pairs(Extent(l, p, 1)) = {<<l, p>>}
<1> DEFINE e == Extent(l, p, 1)
<1>1. e.l = l /\ e.p = p /\ e.n = 1
  BY DEF Extent
<1>2. 0 .. 1 - 1 = {0} /\ l + 0 = l /\ p + 0 = p
  OBVIOUS
<1>. QED
  BY <1>1, <1>2 DEF Pairs

(* A list cut in two. *)
LEMMA RelSplit ==
  ASSUME NEW es \in Seq(Ext), NEW n \in 0 .. Len(es)
  PROVE  LET a == SubSeq(es, 1, n)
             b == SubSeq(es, n + 1, Len(es))
         IN  /\ a \in Seq(Ext) /\ b \in Seq(Ext) /\ Len(a) = n /\ Len(b) = Len(es) - n
             /\ Rel(a) \cup Rel(b) = Rel(es)
             /\ es = a \o b
<1> DEFINE a == SubSeq(es, 1, n)
           b == SubSeq(es, n + 1, Len(es))
<1>1. Len(es) \in Nat
  BY LenProperties
<1>2. a \in Seq(Ext) /\ Len(a) = n /\ \A i \in 1 .. n : a[i] = es[i]
  <2>1. 1 \in 1 .. Len(es) + 1 /\ n \in Nat
    BY <1>1
  <2>2. \A i \in 1 .. n : es[i] \in Ext
    BY <1>1, ElementOfSeq
  <2>. QED  BY <1>1, <2>1, <2>2
<1>3. b \in Seq(Ext) /\ Len(b) = Len(es) - n /\ \A i \in 1 .. Len(es) - n : b[i] = es[n + i]
  <2>1. \A i \in n + 1 .. Len(es) : es[i] \in Ext
    BY <1>1, ElementOfSeq
  <2>. QED  BY <1>1, <2>1
<1> HIDE DEF a, b
<1>4. es = a \o b
  <2> DEFINE c == a \o b
  <2>1. /\ c \in Seq(Ext) /\ Len(c) = Len(a) + Len(b)
        /\ \A i \in 1 .. Len(a) + Len(b) : c[i] = IF i <= Len(a) THEN a[i] ELSE b[i - Len(a)]
    BY <1>2, <1>3, ConcatProperties
  <2> HIDE DEF c
  <2>2. Len(c) = Len(es)
    BY <1>1, <1>2, <1>3, <2>1
  <2>3. ASSUME NEW i \in 1 .. Len(es) PROVE c[i] = es[i]
    <3>1. CASE i <= n
      BY <1>1, <1>2, <1>3, <2>1, <3>1
    <3>2. CASE ~(i <= n)
      <4>1. i - n \in 1 .. Len(es) - n /\ n + (i - n) = i
        BY <1>1, <3>2
      <4>2. c[i] = b[i - n]
        BY <1>1, <1>2, <1>3, <2>1, <3>2
      <4>. QED  BY <1>3, <4>1, <4>2
    <3>. QED  BY <3>1, <3>2
  <2>4. c = es
    BY <2>1, <2>2, <2>3, SeqEqual
  <2>. QED  BY <2>4 DEF c
<1>5. Rel(a) \cup Rel(b) = Rel(es)
  BY <1>2, <1>3, <1>4, RelConcat
<1>. QED
  BY <1>2, <1>3, <1>4, <1>5 DEF a, b

(* An extent behind the others, and one among them. *)
LEMMA RelAppend ==
  ASSUME NEW es \in Seq(Ext), NEW e \in Ext
  PROVE  /\ Append(es, e) \in Seq(Ext) \ {<<>>}
         /\ Rel(Append(es, e)) = Rel(es) \cup Pairs(e)
<1>1. Append(es, e) = es \o <<e>> /\ Append(es, e) # <<>>
  OBVIOUS
<1>2. <<e>> \in Seq(Ext) /\ Rel(<<e>>) = Pairs(e)
  BY RelSingle
<1>3. es \o <<e>> \in Seq(Ext) /\ Rel(es \o <<e>>) = Rel(es) \cup Pairs(e)
  BY <1>2, RelConcat
<1>. QED
  BY <1>1, <1>3

LEMMA RelInsert ==
  ASSUME NEW es \in Seq(Ext), NEW k \in 1 .. Len(es) + 1, NEW e \in Ext
  PROVE  /\ InsertAt(es, k, e) \in Seq(Ext) \ {<<>>}
         /\ Rel(InsertAt(es, k, e)) = Rel(es) \cup Pairs(e)
<1> DEFINE n == k - 1
           a == SubSeq(es, 1, n)
           b == SubSeq(es, n + 1, Len(es))
<1>1. Len(es) \in Nat
  BY LenProperties
<1>2. n \in 0 .. Len(es) /\ n + 1 = k
  BY <1>1
<1> HIDE DEF n
<1>3. a \in Seq(Ext) /\ b \in Seq(Ext)
  BY <1>2, RelSplit
<1>4. Rel(a) \cup Rel(b) = Rel(es)
  BY <1>2, RelSplit
<1>5. InsertAt(es, k, e) = a \o <<e>> \o b
  BY <1>2 DEF InsertAt, n
<1> HIDE DEF a, b
<1>6. a \o <<e>> \in Seq(Ext) /\ Rel(a \o <<e>>) = Rel(a) \cup Pairs(e)
  <2> DEFINE w == <<e>>
  <2>1. w \in Seq(Ext) /\ Rel(w) = Pairs(e)
    BY RelSingle
  <2> HIDE DEF w
  <2>2. a \o w \in Seq(Ext) /\ Rel(a \o w) = Rel(a) \cup Pairs(e)
    BY <1>3, <2>1, RelConcat
  <2>. QED  BY <2>2 DEF w
<1> DEFINE c == a \o <<e>>
<1> HIDE DEF c
<1>7. c \in Seq(Ext) /\ Rel(c) = Rel(a) \cup Pairs(e)
  BY <1>6 DEF c
<1>8. c \o b \in Seq(Ext) /\ Rel(c \o b) = Rel(c) \cup Rel(b)
  BY <1>3, <1>7, RelConcat
<1>9. Rel(c \o b) = Rel(es) \cup Pairs(e)
  BY <1>4, <1>7, <1>8
<1>10. c \o b # <<>>
  <2>1. <<e.l, e.p>> \in Pairs(e)
    <3>1. <<e.l, e.p>> = <<e.l + 0, e.p + 0>> /\ 0 \in 0 .. e.n - 1
      BY DEF Ext
    <3>. QED  BY <3>1 DEF Pairs
  <2> DEFINE d == c \o b
  <2>2. Rel(d) # {}
    BY <1>9, <2>1
  <2> HIDE DEF d
  <2>3. d # <<>>
    BY <2>2, RelEmpty
  <2>. QED  BY <2>3 DEF d
<1>. QED
  BY <1>5, <1>8, <1>9, <1>10 DEF c

(* The last extent grows by the block behind it. *)
LEMMA RelGrown ==
  ASSUME NEW es \in Seq(Ext), NEW k \in 1 .. Len(es)
  PROVE  LET u == [es EXCEPT ![k].n = @ + 1]
         IN  /\ u \in Seq(Ext) /\ Len(u) = Len(es) /\ u # <<>>
             /\ Rel(u) = Rel(es) \cup {<<es[k].l + es[k].n, es[k].p + es[k].n>>}
<1> DEFINE u == [es EXCEPT ![k].n = @ + 1]
           e == es[k]
           g == [e EXCEPT !.n = @ + 1]
           z == <<e.l + e.n, e.p + e.n>>
<1>1. Len(es) \in Nat /\ e \in Ext
  BY LenProperties, ElementOfSeq
<1>2. e.l \in Nat /\ e.p \in Nat \ {0} /\ e.n \in Nat \ {0}
  BY <1>1 DEF Ext
<1>3. g \in Ext /\ g.l = e.l /\ g.p = e.p /\ g.n = e.n + 1
  <2>1. ASSUME NEW x \in Ext, NEW n \in Nat \ {0}
        PROVE  LET y == [x EXCEPT !.n = n]
               IN  y \in Ext /\ y.l = x.l /\ y.p = x.p /\ y.n = n
    BY DEF Ext
  <2>2. e.n + 1 \in Nat \ {0}
    BY <1>2
  <2> HIDE DEF e
  <2>. QED  BY <1>1, <2>1, <2>2
<1>4. u = [es EXCEPT ![k] = g]
  OBVIOUS
<1> HIDE DEF g
<1>5. /\ u \in Seq(Ext) /\ Len(u) = Len(es) /\ u[k] = g
      /\ \A i \in 1 .. Len(es) : i # k => u[i] = es[i]
  <2> DEFINE w == [es EXCEPT ![k] = g]
  <2>1. /\ w \in Seq(Ext) /\ Len(w) = Len(es) /\ w[k] = g
        /\ \A i \in 1 .. Len(es) : i # k => w[i] = es[i]
    BY <1>1, <1>3, ExceptSeq
  <2> HIDE DEF w
  <2>. QED  BY <1>4, <2>1 DEF w
<1>6. Pairs(g) = Pairs(e) \cup {z}
  <2>1. 0 .. g.n - 1 = (0 .. e.n - 1) \cup {e.n}
    BY <1>2, <1>3
  <2>. QED  BY <1>3, <2>1 DEF Pairs
<1> HIDE DEF u, e, z
<1>7. ASSUME NEW x \in Rel(u) PROVE x \in Rel(es) \cup {z}
  <2>1. PICK i \in 1 .. Len(u) : x \in Pairs(u[i])
    BY RelIn
  <2>2. CASE i = k
    <3>1. x \in Pairs(es[k]) \/ x = z
      BY <1>5, <1>6, <2>1, <2>2 DEF e
    <3>. QED  BY <3>1, RelIn
  <2>3. CASE i # k
    BY <1>5, <2>1, <2>3, RelIn
  <2>. QED  BY <2>2, <2>3
<1>8. ASSUME NEW x \in Rel(es) PROVE x \in Rel(u)
  <2>1. PICK i \in 1 .. Len(es) : x \in Pairs(es[i])
    BY RelIn
  <2>2. i \in 1 .. Len(u)
    BY <1>5
  <2>3. CASE i = k
    <3>1. x \in Pairs(u[i])
      BY <1>5, <1>6, <2>1, <2>3 DEF e
    <3>. QED  BY <2>2, <3>1, RelIn
  <2>4. CASE i # k
    <3>1. x \in Pairs(u[i])
      BY <1>5, <2>1, <2>4
    <3>. QED  BY <2>2, <3>1, RelIn
  <2>. QED  BY <2>3, <2>4
<1>9. z \in Rel(u)
  <2>1. k \in 1 .. Len(u) /\ z \in Pairs(u[k])
    BY <1>5, <1>6
  <2>. QED  BY <2>1, RelIn
<1>10. Rel(u) = Rel(es) \cup {z}
  BY <1>7, <1>8, <1>9
<1>11. u # <<>>
  <2>1. Len(u) # 0
    BY <1>1, <1>5
  <2>. QED  BY <2>1, RelEmpty
<1>. QED
  BY <1>5, <1>10, <1>11 DEF u, e, z

(* Lists of extents: one more list, one list changed, two lists. *)
Leaves == Seq(Seq(Ext))

LEMMA RelsAppend ==
  ASSUME NEW ss, NEW T, ss \in Seq(T), NEW u \in T
  PROVE  Append(ss, u) \in Seq(T) /\ Rels(Append(ss, u)) = Rels(ss) \cup Rel(u)
<1> DEFINE v == Append(ss, u)
<1>1. /\ v \in Seq(T) /\ Len(v) = Len(ss) + 1 /\ Len(ss) \in Nat
      /\ v[Len(ss) + 1] = u /\ \A i \in 1 .. Len(ss) : v[i] = ss[i]
  BY AppendProperties, LenProperties
<1> HIDE DEF v
<1>2. ASSUME NEW x \in Rels(v) PROVE x \in Rels(ss) \cup Rel(u)
  <2>1. PICK i \in 1 .. Len(v) : x \in Rel(v[i])
    BY RelsIn
  <2>2. i \in 1 .. Len(ss) \/ i = Len(ss) + 1
    BY <1>1
  <2>. QED  BY <1>1, <2>1, <2>2, RelsIn
<1>3. ASSUME NEW x \in Rels(ss) PROVE x \in Rels(v)
  <2>1. PICK i \in 1 .. Len(ss) : x \in Rel(ss[i])
    BY RelsIn
  <2>2. i \in 1 .. Len(v) /\ x \in Rel(v[i])
    BY <1>1, <2>1
  <2>. QED  BY <2>2, RelsIn
<1>4. ASSUME NEW x \in Rel(u) PROVE x \in Rels(v)
  <2> DEFINE n == Len(ss) + 1
  <2>1. n \in 1 .. Len(v) /\ x \in Rel(v[n])
    BY <1>1
  <2> HIDE DEF n
  <2>. QED  BY <2>1, RelsIn
<1>5. Rels(v) = Rels(ss) \cup Rel(u)
  BY <1>2, <1>3, <1>4
<1>. QED
  BY <1>1, <1>5 DEF v

Replaced(ss, k, u) == [ss EXCEPT ![k] = u]
Grown(u, es, P) == Rel(u) = Rel(es) \cup P
Changed(v, ss, k, u, P) ==
  /\ v \in Seq(Seq(Ext)) /\ Len(v) = Len(ss)
  /\ v[k] = u /\ \A i \in 1 .. Len(ss) : i # k => v[i] = ss[i]
  /\ Rels(v) = Rels(ss) \cup P

LEMMA RelsChanged ==
  ASSUME NEW ss \in Seq(Seq(Ext)), NEW k \in 1 .. Len(ss), NEW u \in Seq(Ext), NEW P,
         Grown(u, ss[k], P)
  PROVE  Changed(Replaced(ss, k, u), ss, k, u, P)
<1> DEFINE v == [ss EXCEPT ![k] = u]
<1>1. /\ v \in Seq(Seq(Ext)) /\ Len(v) = Len(ss) /\ v[k] = u
      /\ \A i \in 1 .. Len(ss) : i # k => v[i] = ss[i]
  BY ExceptSeq
<1> HIDE DEF v
<1>2. ASSUME NEW x \in Rels(v) PROVE x \in Rels(ss) \cup P
  <2>1. PICK i \in 1 .. Len(v) : x \in Rel(v[i])
    BY RelsIn
  <2>2. i \in 1 .. Len(ss) /\ (x \in Rel(ss[i]) \/ x \in P)
    BY <1>1, <2>1 DEF Grown
  <2>. QED  BY <2>2, RelsIn
<1>3. ASSUME NEW x \in Rels(ss) PROVE x \in Rels(v)
  <2>1. PICK i \in 1 .. Len(ss) : x \in Rel(ss[i])
    BY RelsIn
  <2>2. i \in 1 .. Len(v) /\ x \in Rel(v[i])
    BY <1>1, <2>1 DEF Grown
  <2>. QED  BY <2>2, RelsIn
<1>4. ASSUME NEW x \in P PROVE x \in Rels(v)
  <2>1. k \in 1 .. Len(v) /\ x \in Rel(v[k])
    BY <1>1 DEF Grown
  <2>. QED  BY <2>1, RelsIn
<1>5. Rels(v) = Rels(ss) \cup P
  BY <1>2, <1>3, <1>4
<1>6. Changed(v, ss, k, u, P)
  BY <1>1, <1>5 DEF Changed
<1>. QED
  BY <1>6 DEF v, Replaced

LEMMA RelsPair ==
  ASSUME NEW a \in Seq(Ext), NEW b \in Seq(Ext)
  PROVE  <<a, b>> \in Leaves /\ Len(<<a, b>>) = 2 /\ Rels(<<a, b>>) = Rel(a) \cup Rel(b)
<1> DEFINE s == <<a, b>>
<1>1. s \in Leaves /\ Len(s) = 2 /\ s[1] = a /\ s[2] = b
  BY DEF Leaves
<1>2. 1 .. 2 = {1, 2}
  OBVIOUS
<1> HIDE DEF s
<1>3. Rels(s) = Rel(s[1]) \cup Rel(s[2])
  BY <1>1, <1>2 DEF Rels
<1>. QED
  BY <1>1, <1>3 DEF s
-----------------------------------------------------------------------------
(* FlattenSeq is a recursive function: the function exists, by a least       *)
(* length for which it would not, and so its equation can be used.           *)
Flat(ss, n, g) == g = [i \in 1 .. n |-> IF i = 1 THEN ss[i] ELSE g[i - 1] \o ss[i]]

LEMMA FlatExists ==
  ASSUME NEW ss, NEW n \in Nat
  PROVE  \E g : Flat(ss, n, g)
<1> DEFINE Bad == {k \in 0 .. n : ~ \E g : Flat(ss, k, g)}
<1>1. SUFFICES ASSUME Bad # {} PROVE FALSE
  <2>1. n \in 0 .. n
    OBVIOUS
  <2>. QED  BY <2>1, Zenon
<1>2. PICK k \in Bad : \A j \in Bad : k <= j
  <2>1. Bad \in SUBSET Nat
    OBVIOUS
  <2> HIDE DEF Bad
  <2>. QED  BY <1>1, <2>1, Minimum
<1>3. k # 0
  <2> DEFINE g0 == [i \in 1 .. 0 |-> 0]
  <2>1. Flat(ss, 0, g0)
    BY DEF Flat
  <2>. QED  BY <1>2, <2>1
<1>4. k \in 1 .. n /\ k - 1 \in 0 .. n /\ k - 1 \notin Bad
  <2>1. k \in 0 .. n
    BY <1>2
  <2> HIDE DEF Bad
  <2>. QED  BY <1>2, <1>3, <2>1
<1>5. PICK g : Flat(ss, k - 1, g)
  BY <1>4
<1> DEFINE h == [i \in 1 .. k |-> IF i = k THEN (IF k = 1 THEN ss[k] ELSE g[k - 1] \o ss[k])
                                  ELSE g[i]]
<1>6. ASSUME NEW i \in 1 .. k
      PROVE  h[i] = IF i = 1 THEN ss[i] ELSE h[i - 1] \o ss[i]
  <2>1. CASE i = k
    <3>1. i # 1 => i - 1 \in 1 .. k /\ i - 1 # k
      BY <1>4
    <3>. QED  BY <2>1, <3>1
  <2>2. CASE i # k
    <3>1. i \in 1 .. k - 1 /\ (i # 1 => i - 1 \in 1 .. k /\ i - 1 # k)
      BY <1>4, <2>2
    <3>2. g[i] = IF i = 1 THEN ss[i] ELSE g[i - 1] \o ss[i]
      BY <1>5, <3>1 DEF Flat
    <3>. QED  BY <2>2, <3>1, <3>2
  <2>. QED  BY <2>1, <2>2
<1>7. Flat(ss, k, h)
  <2>1. h = [i \in 1 .. k |-> h[i]]
    OBVIOUS
  <2> HIDE DEF h
  <2>. QED  BY <1>6, <2>1 DEF Flat
<1>. QED
  BY <1>2, <1>7

LEMMA FlattenIs ==
  ASSUME NEW ss \in Leaves, Len(ss) # 0
  PROVE  \E g : Flat(ss, Len(ss), g) /\ FlattenSeq(ss) = g[Len(ss)]
<1> DEFINE n == Len(ss)
           B(f) == [i \in 1 .. n |-> IF i = 1 THEN ss[i] ELSE f[i - 1] \o ss[i]]
           F == CHOOSE f : f = B(f)
<1>1. n \in Nat
  BY LenProperties DEF Leaves
<1>2. FlattenSeq(ss) = F[n]
  BY DEF FlattenSeq
<1>3. F = B(F)
  <2>1. PICK g : g = B(g)
    <3> HIDE DEF n
    <3>. QED  BY <1>1, FlatExists DEF Flat
  <2> HIDE DEF B
  <2>. QED  BY <2>1
<1>4. Flat(ss, n, F)
  <2> HIDE DEF F
  <2>. QED  BY <1>3 DEF Flat
<1>. QED
  BY <1>2, <1>4

LEMMA FlatRel ==
  ASSUME NEW ss \in Leaves, NEW g, Flat(ss, Len(ss), g), NEW n \in 1 .. Len(ss)
  PROVE  g[n] \in Seq(Ext) /\ Rel(g[n]) = UNION {Rel(ss[i]) : i \in 1 .. n}
<1> DEFINE Upto(k) == UNION {Rel(ss[i]) : i \in 1 .. k}
           Good(k) == g[k] \in Seq(Ext) /\ Rel(g[k]) = Upto(k)
           Bad == {k \in 1 .. Len(ss) : ~ Good(k)}
<1>1. Len(ss) \in Nat /\ \A i \in 1 .. Len(ss) : ss[i] \in Seq(Ext)
  BY LenProperties, ElementOfSeq DEF Leaves
<1>2. SUFFICES ASSUME Bad # {} PROVE FALSE
  BY <1>1
<1>3. PICK k \in Bad : \A j \in Bad : k <= j
  <2>1. Bad \in SUBSET Nat
    BY <1>1
  <2> HIDE DEF Bad
  <2>. QED  BY <1>2, <2>1, Minimum
<1>4. k \in 1 .. Len(ss) /\ ~ Good(k)
  BY <1>3
<1>5. g[k] = IF k = 1 THEN ss[k] ELSE g[k - 1] \o ss[k]
  BY <1>4 DEF Flat
<1>6. CASE k = 1
  <2>1. Upto(1) = Rel(ss[1])
    <3>1. 1 .. 1 = {1}
      OBVIOUS
    <3>. QED  BY <3>1
  <2>. QED  BY <1>1, <1>4, <1>5, <1>6, <2>1
<1>7. CASE k # 1
  <2> DEFINE j == k - 1
  <2>1. j \in 1 .. Len(ss) /\ j \notin Bad
    <3>1. j \in 1 .. Len(ss) /\ ~(k <= j)
      BY <1>1, <1>4, <1>7
    <3> HIDE DEF Bad
    <3>. QED  BY <1>3, <3>1
  <2>2. Good(j)
    BY <2>1
  <2>3. Upto(k) = Upto(j) \cup Rel(ss[k])
    <3>1. 1 .. k = (1 .. j) \cup {k}
      BY <1>1, <1>4, <1>7
    <3>. QED  BY <3>1
  <2>4. g[k] = g[j] \o ss[k]
    BY <1>5, <1>7
  <2> HIDE DEF j
  <2>5. g[j] \o ss[k] \in Seq(Ext) /\ Rel(g[j] \o ss[k]) = Rel(g[j]) \cup Rel(ss[k])
    <3>1. ss[k] \in Seq(Ext) /\ g[j] \in Seq(Ext)
      BY <1>1, <1>4, <2>2
    <3>. QED  BY <3>1, RelConcat
  <2>6. Good(k)
    BY <2>2, <2>3, <2>4, <2>5
  <2>. QED  BY <1>4, <2>6
<1>. QED
  BY <1>6, <1>7

(* The lists one after the other map what the lists map. *)
LEMMA FlattenRel ==
  ASSUME NEW ss \in Leaves
  PROVE  FlattenSeq(ss) \in Seq(Ext) /\ Rel(FlattenSeq(ss)) = Rels(ss)
<1>1. CASE Len(ss) = 0
  <2>1. ss = <<>>
    BY <1>1, EmptySeq DEF Leaves
  <2>2. FlattenSeq(ss) = <<>>
    BY <1>1, <2>1 DEF FlattenSeq
  <2>. QED  BY <2>1, <2>2, RelEmpty
<1>2. CASE Len(ss) # 0
  <2>1. PICK g : Flat(ss, Len(ss), g) /\ FlattenSeq(ss) = g[Len(ss)]
    BY <1>2, FlattenIs
  <2>2. Len(ss) \in 1 .. Len(ss)
    BY <1>2, LenProperties DEF Leaves
  <2>3. g[Len(ss)] \in Seq(Ext) /\ Rel(g[Len(ss)]) = UNION {Rel(ss[i]) : i \in 1 .. Len(ss)}
    BY <2>1, <2>2, FlatRel
  <2>. QED  BY <2>1, <2>3 DEF Rels
<1>. QED
  BY <1>1, <1>2

(* They end with the last list. *)
LEMMA FlattenLast ==
  ASSUME NEW ss \in Leaves, ss # <<>>
  PROVE  \E a \in Seq(Ext) : FlattenSeq(ss) = a \o Last(ss)
<1> DEFINE n == Len(ss)
<1>1. n \in Nat \ {0} /\ \A i \in 1 .. n : ss[i] \in Seq(Ext)
  BY EmptySeq, ElementOfSeq DEF Leaves
<1>2. PICK g : Flat(ss, n, g) /\ FlattenSeq(ss) = g[n]
  BY <1>1, FlattenIs
<1>3. \A i \in 1 .. n : g[i] \in Seq(Ext)
  BY <1>2, FlatRel
<1>4. Last(ss) = ss[n]
  BY DEF Last
<1> HIDE DEF n
<1>5. n \in 1 .. n
  BY <1>1
<1>6. g[n] = IF n = 1 THEN ss[n] ELSE g[n - 1] \o ss[n]
  BY <1>2, <1>5 DEF Flat
<1>7. CASE n = 1
  <2> DEFINE e == <<>>
  <2>1. FlattenSeq(ss) = ss[n] /\ ss[n] \in Seq(Ext)
    BY <1>1, <1>2, <1>5, <1>6, <1>7
  <2>2. e \in Seq(Ext) /\ e \o ss[n] = ss[n]
    BY <2>1, ConcatEmptySeq
  <2> HIDE DEF e
  <2>. QED  BY <1>4, <2>1, <2>2
<1>8. CASE n # 1
  <2>1. n - 1 \in 1 .. n
    BY <1>1, <1>8
  <2>2. FlattenSeq(ss) = g[n - 1] \o ss[n]
    BY <1>2, <1>6, <1>8
  <2>. QED  BY <1>3, <1>4, <2>1, <2>2
<1>. QED
  BY <1>7, <1>8

LEMMA FlattenPair ==
  ASSUME NEW a \in Seq(Ext), NEW b \in Seq(Ext)
  PROVE  FlattenSeq(<<a, b>>) = a \o b
<1> DEFINE s == <<a, b>>
<1>1. s \in Leaves /\ Len(s) = 2 /\ s[1] = a /\ s[2] = b
  BY RelsPair
<1> HIDE DEF s
<1>2. PICK g : Flat(s, 2, g) /\ FlattenSeq(s) = g[2]
  <2>1. s \in Leaves /\ Len(s) # 0
    BY <1>1
  <2>2. \E g : Flat(s, Len(s), g) /\ FlattenSeq(s) = g[Len(s)]
    BY <2>1, FlattenIs
  <2>. QED  BY <1>1, <2>2
<1>3. g[1] = s[1]
  <2>1. 1 \in 1 .. 2
    OBVIOUS
  <2>. QED  BY <1>2, <2>1 DEF Flat
<1>4. g[2] = g[1] \o s[2]
  <2>1. 2 \in 1 .. 2 /\ 2 # 1 /\ 2 - 1 = 1
    OBVIOUS
  <2>. QED  BY <1>2, <2>1 DEF Flat
<1>. QED
  BY <1>1, <1>2, <1>3, <1>4 DEF s
-----------------------------------------------------------------------------
(* What truncate and punch keep of a mapping, and the blocks they free.       *)
Keeps(R, K) == {x \in R : x[1] \in K}
Drops(R, K) == {x[2] : x \in {y \in R : y[1] \notin K}}
Below(keep) == {l \in Nat : l < keep}
Outside(a, b) == {l \in Nat : l < a \/ b <= l}

LEMMA CutOne ==
  ASSUME NEW e \in Ext, NEW keep \in Nat
  PROVE  /\ Cut(e, keep) \in Seq(Ext)
         /\ Rel(Cut(e, keep)) = Keeps(Pairs(e), Below(keep))
         /\ CutOff(e, keep) = Drops(Pairs(e), Below(keep))
<1>1. e.l \in Nat /\ e.p \in Nat \ {0} /\ e.n \in Nat \ {0}
  BY DEF Ext
<1>2. \A x \in Pairs(e) : x[1] \in Nat /\ e.l <= x[1] /\ x[1] < e.l + e.n
  BY PairsAre
<1>3. Cut(e, keep) \in Seq(Ext) /\ Rel(Cut(e, keep)) = Keeps(Pairs(e), Below(keep))
  <2>1. CASE keep >= e.l + e.n
    <3>1. Cut(e, keep) = <<e>>
      BY <2>1 DEF Cut
    <3>2. Keeps(Pairs(e), Below(keep)) = Pairs(e)
      BY <1>1, <1>2, <2>1 DEF Keeps, Below
    <3>. QED  BY <3>1, <3>2, RelSingle
  <2>2. CASE keep <= e.l
    <3>1. Cut(e, keep) = <<>>
      BY <1>1, <2>2 DEF Cut
    <3>2. Keeps(Pairs(e), Below(keep)) = {}
      BY <1>1, <1>2, <2>2 DEF Keeps, Below
    <3>. QED  BY <3>1, <3>2, RelEmpty
  <2>3. CASE e.l < keep /\ keep < e.l + e.n
    <3> DEFINE n == keep - e.l
               c == Extent(e.l, e.p, n)
    <3>1. n \in Nat \ {0} /\ n < e.n /\ e.l + n = keep
      BY <1>1, <2>3
    <3>2. Cut(e, keep) = <<c>>
      BY <1>1, <2>3 DEF Cut
    <3> HIDE DEF n
    <3>3. c \in Ext /\ c.l = e.l /\ c.p = e.p /\ c.n = n
      BY <1>1, <3>1, ExtentIn
    <3> HIDE DEF c
    <3>4. \A x : x \in Pairs(c) <=> x \in Pairs(e) /\ x[1] \in Below(keep)
      BY <1>1, <3>1, <3>3, PairsAre DEF Below
    <3>5. Pairs(c) = Keeps(Pairs(e), Below(keep))
      BY <3>4 DEF Keeps
    <3>. QED  BY <3>2, <3>3, <3>5, RelSingle
  <2>. QED  BY <1>1, <2>1, <2>2, <2>3
<1>4. ASSUME NEW b \in CutOff(e, keep) PROVE b \in Drops(Pairs(e), Below(keep))
  <2> DEFINE i == b - e.p
             x == <<e.l + i, e.p + i>>
  <2>1. i \in 0 .. e.n - 1 /\ i >= keep - e.l /\ e.p + i = b
    BY <1>1 DEF CutOff, BlocksOf
  <2> HIDE DEF i
  <2>2. x \in Pairs(e) /\ x[1] \notin Below(keep) /\ x[2] = b
    BY <1>1, <2>1 DEF Pairs, Below
  <2>. QED  BY <2>2 DEF Drops
<1>5. ASSUME NEW b \in Drops(Pairs(e), Below(keep)) PROVE b \in CutOff(e, keep)
  <2>1. PICK x \in Pairs(e) : x[1] \notin Below(keep) /\ x[2] = b
    BY DEF Drops
  <2>2. PICK i \in 0 .. e.n - 1 : x = <<e.l + i, e.p + i>>
    BY DEF Pairs
  <2>3. b = e.p + i /\ ~(e.l + i < keep)
    BY <1>1, <2>1, <2>2 DEF Below
  <2>. QED  BY <1>1, <2>3 DEF CutOff, BlocksOf
<1>6. CutOff(e, keep) = Drops(Pairs(e), Below(keep))
  BY <1>4, <1>5
<1>. QED
  BY <1>3, <1>6

LEMMA HoleOne ==
  ASSUME NEW e \in Ext, NEW a \in Nat, NEW b \in Nat, a < b
  PROVE  /\ Hole(e, a, b) \in Seq(Ext)
         /\ Rel(Hole(e, a, b)) = Keeps(Pairs(e), Outside(a, b))
         /\ Punched(e, a, b) = Drops(Pairs(e), Outside(a, b))
<1>1. e.l \in Nat /\ e.p \in Nat \ {0} /\ e.n \in Nat \ {0}
  BY DEF Ext
<1>2. \A x \in Pairs(e) : x[1] \in Nat /\ e.l <= x[1] /\ x[1] < e.l + e.n
  BY PairsAre
<1>3. Hole(e, a, b) \in Seq(Ext) /\ Rel(Hole(e, a, b)) = Keeps(Pairs(e), Outside(a, b))
  <2>1. CASE b <= e.l \/ a >= e.l + e.n
    <3>1. Hole(e, a, b) = <<e>>
      BY <2>1 DEF Hole
    <3>2. Keeps(Pairs(e), Outside(a, b)) = Pairs(e)
      BY <1>1, <1>2, <2>1 DEF Keeps, Outside
    <3>. QED  BY <3>1, <3>2, RelSingle
  <2>2. CASE ~(b <= e.l \/ a >= e.l + e.n)
    <3> DEFINE u == IF a > e.l THEN <<Extent(e.l, e.p, a - e.l)>> ELSE <<>>
               v == IF b < e.l + e.n
                    THEN <<Extent(b, e.p + (b - e.l), e.l + e.n - b)>> ELSE <<>>
               U == {x \in Pairs(e) : x[1] < a}
               V == {x \in Pairs(e) : b <= x[1]}
    <3>1. Hole(e, a, b) = u \o v
      BY <2>2 DEF Hole
    <3>2. u \in Seq(Ext) /\ Rel(u) = U
      <4>1. CASE a > e.l
        <5> DEFINE n == a - e.l
                   c == Extent(e.l, e.p, n)
        <5>1. n \in Nat \ {0} /\ n < e.n /\ e.l + n = a
          BY <1>1, <2>2, <4>1
        <5>2. u = <<c>>
          BY <4>1
        <5> HIDE DEF n, u
        <5>3. c \in Ext /\ c.l = e.l /\ c.p = e.p /\ c.n = n
          BY <1>1, <5>1, ExtentIn
        <5> HIDE DEF c
        <5>4. \A x : x \in Pairs(c) <=> x \in Pairs(e) /\ x[1] < a
          BY <1>1, <5>1, <5>3, PairsAre
        <5>5. Pairs(c) = U
          BY <5>4
        <5>. QED  BY <5>2, <5>3, <5>5, RelSingle
      <4>2. CASE ~(a > e.l)
        <5>1. u = <<>>
          BY <4>2
        <5>2. U = {}
          BY <1>1, <1>2, <4>2
        <5>. QED  BY <5>1, <5>2, RelEmpty
      <4>. QED  BY <4>1, <4>2
    <3>3. v \in Seq(Ext) /\ Rel(v) = V
      <4>1. CASE b < e.l + e.n
        <5> DEFINE q == e.p + (b - e.l)
                   n == e.l + e.n - b
                   c == Extent(b, q, n)
        <5>1. n \in Nat \ {0} /\ b + n = e.l + e.n
          BY <1>1, <2>2, <4>1
        <5>2. q \in Nat \ {0} /\ q - e.p = b - e.l /\ e.l < b
          BY <1>1, <2>2, <4>1
        <5>3. v = <<c>>
          BY <4>1
        <5> HIDE DEF n, q, v
        <5>4. c \in Ext /\ c.l = b /\ c.p = q /\ c.n = n
          BY <5>1, <5>2, ExtentIn
        <5> HIDE DEF c
        <5>5. \A x : x \in Pairs(c) <=> x \in Pairs(e) /\ b <= x[1]
          BY <1>1, <5>1, <5>2, <5>4, PairsAre
        <5>6. Pairs(c) = V
          BY <5>5
        <5>. QED  BY <5>3, <5>4, <5>6, RelSingle
      <4>2. CASE ~(b < e.l + e.n)
        <5>1. v = <<>>
          BY <4>2
        <5>2. V = {}
          BY <1>1, <1>2, <4>2
        <5>. QED  BY <5>1, <5>2, RelEmpty
      <4>. QED  BY <4>1, <4>2
    <3>4. Keeps(Pairs(e), Outside(a, b)) = U \cup V
      BY <1>2 DEF Keeps, Outside
    <3> HIDE DEF u, v, U, V
    <3>5. u \o v \in Seq(Ext) /\ Rel(u \o v) = Rel(u) \cup Rel(v)
      BY <3>2, <3>3, RelConcat
    <3>. QED  BY <3>1, <3>2, <3>3, <3>4, <3>5
  <2>. QED  BY <2>1, <2>2
<1>4. ASSUME NEW x \in Punched(e, a, b) PROVE x \in Drops(Pairs(e), Outside(a, b))
  <2> DEFINE i == x - e.p
             y == <<e.l + i, e.p + i>>
  <2>1. i \in 0 .. e.n - 1 /\ a <= e.l + i /\ e.l + i < b /\ e.p + i = x
    BY <1>1 DEF Punched, BlocksOf
  <2> HIDE DEF i
  <2>2. y \in Pairs(e) /\ y[1] \notin Outside(a, b) /\ y[2] = x
    BY <1>1, <2>1 DEF Pairs, Outside
  <2>. QED  BY <2>2 DEF Drops
<1>5. ASSUME NEW x \in Drops(Pairs(e), Outside(a, b)) PROVE x \in Punched(e, a, b)
  <2>1. PICK y \in Pairs(e) : y[1] \notin Outside(a, b) /\ y[2] = x
    BY DEF Drops
  <2>2. PICK i \in 0 .. e.n - 1 : y = <<e.l + i, e.p + i>>
    BY DEF Pairs
  <2>3. x = e.p + i /\ x - e.p = i /\ a <= e.l + i /\ e.l + i < b
    BY <1>1, <2>1, <2>2 DEF Outside
  <2>. QED  BY <1>1, <2>3 DEF Punched, BlocksOf
<1>6. Punched(e, a, b) = Drops(Pairs(e), Outside(a, b))
  BY <1>4, <1>5
<1>. QED
  BY <1>3, <1>6

(* The same for lists, from what each of their elements gives. *)
Pieces(es, f, K) ==
  /\ f \in Leaves /\ Len(f) = Len(es)
  /\ \A i \in 1 .. Len(es) : Rel(f[i]) = Keeps(Pairs(es[i]), K)
Parts(ss, ls, K) ==
  /\ ls \in Leaves /\ Len(ls) = Len(ss)
  /\ \A i \in 1 .. Len(ss) : Rel(ls[i]) = Keeps(Rel(ss[i]), K)

LEMMA PiecesRel ==
  ASSUME NEW es, NEW f, NEW K, Pieces(es, f, K)
  PROVE  FlattenSeq(f) \in Seq(Ext) /\ Rel(FlattenSeq(f)) = Keeps(Rel(es), K)
<1>1. FlattenSeq(f) \in Seq(Ext) /\ Rel(FlattenSeq(f)) = Rels(f)
  BY FlattenRel DEF Pieces
<1>2. ASSUME NEW x \in Rels(f) PROVE x \in Keeps(Rel(es), K)
  <2>1. PICK i \in 1 .. Len(f) : x \in Rel(f[i])
    BY RelsIn
  <2>2. i \in 1 .. Len(es) /\ x \in Pairs(es[i]) /\ x[1] \in K
    BY <2>1 DEF Pieces, Keeps
  <2>. QED  BY <2>2, RelIn DEF Keeps
<1>3. ASSUME NEW x \in Keeps(Rel(es), K) PROVE x \in Rels(f)
  <2>1. x \in Rel(es) /\ x[1] \in K
    BY DEF Keeps
  <2>2. PICK i \in 1 .. Len(es) : x \in Pairs(es[i])
    BY <2>1, RelIn
  <2>3. i \in 1 .. Len(f) /\ x \in Rel(f[i])
    BY <2>1, <2>2 DEF Pieces, Keeps
  <2>. QED  BY <2>3, RelsIn
<1>. QED
  BY <1>1, <1>2, <1>3

LEMMA PartsRels ==
  ASSUME NEW ss, NEW ls, NEW K, Parts(ss, ls, K)
  PROVE  Rels(ls) = Keeps(Rels(ss), K)
<1>1. ASSUME NEW x \in Rels(ls) PROVE x \in Keeps(Rels(ss), K)
  <2>1. PICK i \in 1 .. Len(ls) : x \in Rel(ls[i])
    BY RelsIn
  <2>2. i \in 1 .. Len(ss) /\ x \in Rel(ss[i]) /\ x[1] \in K
    BY <2>1 DEF Parts, Keeps
  <2>. QED  BY <2>2, RelsIn DEF Keeps
<1>2. ASSUME NEW x \in Keeps(Rels(ss), K) PROVE x \in Rels(ls)
  <2>1. x \in Rels(ss) /\ x[1] \in K
    BY DEF Keeps
  <2>2. PICK i \in 1 .. Len(ss) : x \in Rel(ss[i])
    BY <2>1, RelsIn
  <2>3. i \in 1 .. Len(ls) /\ x \in Rel(ls[i])
    BY <2>1, <2>2 DEF Parts, Keeps
  <2>. QED  BY <2>3, RelsIn
<1>. QED
  BY <1>1, <1>2

LEMMA CutAllRel ==
  ASSUME NEW es \in Seq(Ext), NEW keep \in Nat
  PROVE  /\ CutAll(es, keep) \in Seq(Ext)
         /\ Rel(CutAll(es, keep)) = Keeps(Rel(es), Below(keep))
<1> DEFINE f == [i \in 1 .. Len(es) |-> Cut(es[i], keep)]
<1>1. Len(es) \in Nat /\ \A i \in 1 .. Len(es) : es[i] \in Ext
  BY LenProperties, ElementOfSeq
<1>2. \A i \in 1 .. Len(es) : /\ Cut(es[i], keep) \in Seq(Ext)
                              /\ Rel(Cut(es[i], keep)) = Keeps(Pairs(es[i]), Below(keep))
  BY <1>1, CutOne
<1>3. Pieces(es, f, Below(keep))
  BY <1>1, <1>2 DEF Pieces, Leaves
<1>4. CutAll(es, keep) = FlattenSeq(f)
  BY DEF CutAll
<1> HIDE DEF f
<1>. QED
  BY <1>3, <1>4, PiecesRel

LEMMA HoleAllRel ==
  ASSUME NEW es \in Seq(Ext), NEW a \in Nat, NEW b \in Nat, a < b
  PROVE  /\ HoleAll(es, a, b) \in Seq(Ext)
         /\ Rel(HoleAll(es, a, b)) = Keeps(Rel(es), Outside(a, b))
<1> DEFINE f == [i \in 1 .. Len(es) |-> Hole(es[i], a, b)]
<1>1. Len(es) \in Nat /\ \A i \in 1 .. Len(es) : es[i] \in Ext
  BY LenProperties, ElementOfSeq
<1>2. \A i \in 1 .. Len(es) : /\ Hole(es[i], a, b) \in Seq(Ext)
                              /\ Rel(Hole(es[i], a, b)) = Keeps(Pairs(es[i]), Outside(a, b))
  BY <1>1, HoleOne
<1>3. Pieces(es, f, Outside(a, b))
  BY <1>1, <1>2 DEF Pieces, Leaves
<1>4. HoleAll(es, a, b) = FlattenSeq(f)
  BY DEF HoleAll
<1> HIDE DEF f
<1>. QED
  BY <1>3, <1>4, PiecesRel

LEMMA CutOffRel ==
  ASSUME NEW es \in Seq(Ext), NEW keep \in Nat
  PROVE  UNION {CutOff(es[i], keep) : i \in 1 .. Len(es)} = Drops(Rel(es), Below(keep))
<1> DEFINE K == Below(keep)
           U == UNION {CutOff(es[i], keep) : i \in 1 .. Len(es)}
<1>1. \A i \in 1 .. Len(es) : CutOff(es[i], keep) = Drops(Pairs(es[i]), K)
  BY ElementOfSeq, CutOne
<1> HIDE DEF K
<1>2. ASSUME NEW b \in U PROVE b \in Drops(Rel(es), K)
  <2>1. PICK i \in 1 .. Len(es) : b \in Drops(Pairs(es[i]), K)
    BY <1>1
  <2>2. PICK y \in Pairs(es[i]) : y[1] \notin K /\ y[2] = b
    BY <2>1 DEF Drops
  <2>3. y \in Rel(es)
    BY <2>2, RelIn
  <2>. QED  BY <2>2, <2>3 DEF Drops
<1>3. ASSUME NEW b \in Drops(Rel(es), K) PROVE b \in U
  <2>1. PICK y \in Rel(es) : y[1] \notin K /\ y[2] = b
    BY DEF Drops
  <2>2. PICK i \in 1 .. Len(es) : y \in Pairs(es[i])
    BY <2>1, RelIn
  <2>3. b \in Drops(Pairs(es[i]), K)
    BY <2>1, <2>2 DEF Drops
  <2>. QED  BY <1>1, <2>3
<1>. QED
  BY <1>2, <1>3 DEF K

LEMMA PunchedRel ==
  ASSUME NEW es \in Seq(Ext), NEW a \in Nat, NEW c \in Nat, a < c
  PROVE  UNION {Punched(es[i], a, c) : i \in 1 .. Len(es)} = Drops(Rel(es), Outside(a, c))
<1> DEFINE K == Outside(a, c)
           U == UNION {Punched(es[i], a, c) : i \in 1 .. Len(es)}
<1>1. \A i \in 1 .. Len(es) : Punched(es[i], a, c) = Drops(Pairs(es[i]), K)
  BY ElementOfSeq, HoleOne
<1> HIDE DEF K
<1>2. ASSUME NEW b \in U PROVE b \in Drops(Rel(es), K)
  <2>1. PICK i \in 1 .. Len(es) : b \in Drops(Pairs(es[i]), K)
    BY <1>1
  <2>2. PICK y \in Pairs(es[i]) : y[1] \notin K /\ y[2] = b
    BY <2>1 DEF Drops
  <2>3. y \in Rel(es)
    BY <2>2, RelIn
  <2>. QED  BY <2>2, <2>3 DEF Drops
<1>3. ASSUME NEW b \in Drops(Rel(es), K) PROVE b \in U
  <2>1. PICK y \in Rel(es) : y[1] \notin K /\ y[2] = b
    BY DEF Drops
  <2>2. PICK i \in 1 .. Len(es) : y \in Pairs(es[i])
    BY <2>1, RelIn
  <2>3. b \in Drops(Pairs(es[i]), K)
    BY <2>1, <2>2 DEF Drops
  <2>. QED  BY <1>1, <2>3
<1>. QED
  BY <1>2, <1>3 DEF K
-----------------------------------------------------------------------------
(* The choices of the code: the first place, the first free block, and the   *)
(* leaves that are left in their order.                                      *)
LEMMA FirstIn ==
  ASSUME NEW S \in SUBSET (Nat \X Nat), S # {}
  PROVE  /\ First(S) \in S
         /\ \A o \in S : First(S)[1] < o[1] \/ (First(S)[1] = o[1] /\ First(S)[2] <= o[2])
<1> DEFINE P == {s[1] : s \in S}
<1>1. PICK i \in P : \A j \in P : i <= j
  <2>1. P \in SUBSET Nat /\ P # {}
    OBVIOUS
  <2> HIDE DEF P
  <2>. QED  BY <2>1, Minimum
<1> DEFINE Q == {s[2] : s \in {o \in S : o[1] = i}}
<1>2. PICK k \in Q : \A j \in Q : k <= j
  <2>1. Q \in SUBSET Nat /\ Q # {}
    BY <1>1
  <2> HIDE DEF Q
  <2>. QED  BY <2>1, Minimum
<1>3. PICK s \in S : s[1] = i /\ s[2] = k
  BY <1>2
<1>4. \A o \in S : s[1] < o[1] \/ (s[1] = o[1] /\ s[2] <= o[2])
  <2>1. ASSUME NEW o \in S PROVE s[1] < o[1] \/ (s[1] = o[1] /\ s[2] <= o[2])
    <3>1. i <= o[1] /\ (o[1] = i => k <= o[2]) /\ i \in Nat /\ o[1] \in Nat
      BY <1>1, <1>2
    <3>. QED  BY <1>3, <3>1
  <2>. QED  BY <2>1
<1>. QED
  BY <1>4 DEF First

LEMMA NextFitIn ==
  ASSUME NEW pool \in SUBSET Nat, pool # {}, NEW s
  PROVE  NextFit(s, pool) \in pool
<1> DEFINE above == {b \in pool : b >= s}
           from == IF above = {} THEN pool ELSE above
<1>1. from \in SUBSET pool /\ from # {}
  OBVIOUS
<1>2. NextFit(s, pool) = CHOOSE b \in from : \A o \in from : b <= o
  BY DEF NextFit
<1> HIDE DEF from
<1>3. PICK b \in from : \A o \in from : b <= o
  <2>1. from \in SUBSET Nat
    BY <1>1
  <2>. QED  BY <1>1, <2>1, Minimum
<1>. QED
  BY <1>1, <1>2, <1>3

LEMMA AllocsIn ==
  ASSUME NEW pool \in SUBSET Nat, NEW goals
  PROVE  Allocs(goals, pool) \subseteq pool
BY NextFitIn DEF Allocs

Enumerates(T, g) ==
  /\ g \in [1 .. Cardinality(T) -> T]
  /\ \A i, j \in 1 .. Cardinality(T) : i < j => g[i] < g[j]

LEMMA AscendingExists ==
  ASSUME NEW S \in SUBSET Nat, IsFiniteSet(S)
  PROVE  \E g : Enumerates(S, g)
<1> DEFINE Bad == {n \in Nat : \E T \in SUBSET S : Cardinality(T) = n /\ ~ \E g : Enumerates(T, g)}
<1>1. \A T \in SUBSET S : IsFiniteSet(T) /\ Cardinality(T) \in Nat
  BY FS_Subset, FS_CardinalityType
<1>2. SUFFICES ASSUME Bad # {} PROVE FALSE
  <2>1. Cardinality(S) \in Nat
    BY <1>1
  <2>. QED  BY <2>1
<1>3. PICK k \in Bad : \A j \in Bad : k <= j
  <2>1. Bad \in SUBSET Nat
    OBVIOUS
  <2> HIDE DEF Bad
  <2>. QED  BY <1>2, <2>1, Minimum
<1>4. PICK T \in SUBSET S : Cardinality(T) = k /\ ~ \E g : Enumerates(T, g)
  BY <1>3
<1>5. k \in Nat
  BY <1>3
<1>6. T # {}
  <2>1. SUFFICES ASSUME T = {} PROVE FALSE
    OBVIOUS
  <2>2. Cardinality(T) = 0
    BY <2>1, FS_EmptySet
  <2> DEFINE g == [i \in 1 .. 0 |-> 0]
  <2>3. g \in [1 .. 0 -> T] /\ \A i, j \in 1 .. 0 : i < j => g[i] < g[j]
    OBVIOUS
  <2> HIDE DEF g
  <2>4. Enumerates(T, g)
    BY <2>2, <2>3 DEF Enumerates
  <2>. QED  BY <1>4, <2>4
<1>7. PICK x \in T : \A y \in T : x <= y
  <2>1. T \in SUBSET Nat
    OBVIOUS
  <2>. QED  BY <1>6, <2>1, Minimum
<1> DEFINE R == T \ {x}
<1>8. Cardinality(R) = k - 1 /\ k - 1 \in Nat
  <2>1. IsFiniteSet(T) /\ x \in T /\ Cardinality(R) \in Nat
    BY <1>1
  <2>. QED  BY <1>4, <1>5, <2>1, FS_RemoveElement
<1>9. PICK g : Enumerates(R, g)
  <2>1. k - 1 \notin Bad
    <3>1. ~(k <= k - 1)
      BY <1>5
    <3> HIDE DEF Bad
    <3>. QED  BY <1>3, <3>1
  <2>. QED  BY <1>8, <2>1
<1> DEFINE h == [i \in 1 .. k |-> IF i = 1 THEN x ELSE g[i - 1]]
<1>10. \A i \in 1 .. k : i # 1 => g[i - 1] \in R
  <2>1. \A i \in 1 .. k : i # 1 => i - 1 \in 1 .. k - 1
    BY <1>5
  <2> HIDE DEF R
  <2>. QED  BY <1>8, <1>9, <2>1 DEF Enumerates
<1>11. \A i \in 1 .. k : h[i] \in T
  BY <1>10
<1>12. ASSUME NEW i \in 1 .. k, NEW j \in 1 .. k, i < j PROVE h[i] < h[j]
  <2>1. j # 1 /\ h[j] = g[j - 1] /\ j - 1 \in 1 .. k - 1
    BY <1>5, <1>12
  <2>2. CASE i = 1
    <3>1. g[j - 1] \in T /\ g[j - 1] # x /\ x \in Nat /\ g[j - 1] \in Nat
      BY <1>10, <2>1
    <3>2. x <= g[j - 1]
      BY <1>7, <3>1
    <3>3. h[i] = x
      BY <2>2
    <3> HIDE DEF h
    <3>. QED  BY <2>1, <3>1, <3>2, <3>3
  <2>3. CASE i # 1
    <3>1. h[i] = g[i - 1] /\ i - 1 \in 1 .. k - 1 /\ i - 1 < j - 1
      BY <1>5, <1>12, <2>3
    <3>2. g[i - 1] < g[j - 1]
      <4> HIDE DEF R, h
      <4>. QED  BY <1>8, <1>9, <2>1, <3>1 DEF Enumerates
    <3>. QED  BY <2>1, <3>1, <3>2
  <2>. QED  BY <2>2, <2>3
<1>13. Enumerates(T, h)
  <2>1. h \in [1 .. k -> T]
    BY <1>11
  <2> HIDE DEF h
  <2>. QED  BY <1>4, <1>12, <2>1 DEF Enumerates
<1>. QED
  BY <1>4, <1>13

(* The enumeration has every element, and each of them once. *)
LEMMA AscendingIs ==
  ASSUME NEW S \in SUBSET Nat, IsFiniteSet(S)
  PROVE  /\ Cardinality(S) \in Nat /\ Ascending(S) \in [1 .. Cardinality(S) -> S]
         /\ \A i, j \in 1 .. Cardinality(S) : Ascending(S)[i] = Ascending(S)[j] => i = j
         /\ \A x \in S : \E i \in 1 .. Cardinality(S) : Ascending(S)[i] = x
<1> DEFINE g == Ascending(S)
           n == Cardinality(S)
<1>1. n \in Nat
  BY FS_CardinalityType
<1>2. g \in [1 .. n -> S] /\ \A i, j \in 1 .. n : i < j => g[i] < g[j]
  <2>1. PICK h : Enumerates(S, h)
    BY AscendingExists
  <2>2. h \in [1 .. n -> S] /\ \A i, j \in 1 .. n : i < j => h[i] < h[j]
    BY <2>1 DEF Enumerates
  <2> HIDE DEF n
  <2>. QED  BY <2>2 DEF Ascending, n
<1> HIDE DEF g, n
<1>3. \A i, j \in 1 .. n : g[i] = g[j] => i = j
  <2>1. SUFFICES ASSUME NEW i \in 1 .. n, NEW j \in 1 .. n, g[i] = g[j] PROVE i = j
    OBVIOUS
  <2>2. g[i] \in Nat /\ g[j] \in Nat
    BY <1>2
  <2>3. ~(i < j) /\ ~(j < i)
    BY <1>2, <2>1, <2>2
  <2>. QED  BY <1>1, <2>3
<1>4. \A x \in S : \E i \in 1 .. n : g[i] = x
  <2>1. g \in Injection(1 .. n, S)
    BY <1>2, <1>3 DEF Injection, IsInjective
  <2>2. Cardinality(1 .. n) = n /\ IsFiniteSet(1 .. n)
    <3>1. 1 \in Int /\ n \in Int /\ (1 > n => n = 0) /\ n - 1 + 1 = n
      BY <1>1
    <3>. QED  BY <3>1, FS_Interval
  <2>3. g \in Surjection(1 .. n, S)
    BY <2>1, <2>2, FS_Injection DEF n
  <2>. QED  BY <2>3 DEF Surjection
<1>. QED
  BY <1>1, <1>2, <1>3, <1>4 DEF g, n
-----------------------------------------------------------------------------
(* The values of m, and what the operations keep true of them.                *)
Cells(s) == {s[i] : i \in 1 .. Len(s)}
Distinct(s) == \A i, j \in 1 .. Len(s) : s[i] = s[j] => i = j
Filled(ss) == \A i \in 1 .. Len(ss) : ss[i] # <<>>

Mapping == [inl : Seq(Ext), ovf : Seq(Ext), ovb : Nat, leaves : Leaves, lblk : Seq(Nat \ {0}),
            direct : [0 .. Direct - 1 -> Nat], ind : Nat, ents : [0 .. Indirect - 1 -> Nat]]

Tidy(x) == Len(x.lblk) = Len(x.leaves) /\ Distinct(x.lblk) /\ Filled(x.leaves)
Shape(x) ==
  /\ Tidy(x)
  /\ fmt # "tree" => x.leaves = <<>>
  /\ fmt \in {"tree", "indirect"} => x.inl = <<>> /\ x.ovf = <<>> /\ x.ovb = 0
  /\ fmt # "indirect" => x.ind = 0
  /\ x.ind = 0 => \A i \in DOMAIN x.ents : x.ents[i] = 0

WithLeaves(x, u, v) == [x EXCEPT !.leaves = u, !.lblk = v]

LEMMA WithLeavesIs ==
  ASSUME NEW x \in Mapping, NEW u, NEW v
  PROVE  LET y == WithLeaves(x, u, v)
         IN  /\ y.leaves = u /\ y.lblk = v
             /\ y.inl = x.inl /\ y.ovf = x.ovf /\ y.ovb = x.ovb
             /\ y.direct = x.direct /\ y.ind = x.ind /\ y.ents = x.ents
             /\ u \in Leaves /\ v \in Seq(Nat \ {0}) => y \in Mapping
BY DEF Mapping, WithLeaves

(* The leaves that are left after DropLeaves. *)
LEMMA DropLeavesIs ==
  ASSUME NEW x \in Mapping, NEW ls \in Leaves, Len(x.lblk) = Len(ls), Distinct(x.lblk)
  PROVE  LET y == DropLeaves(x, ls)
         IN  /\ y = WithLeaves(x, y.leaves, y.lblk)
             /\ y.leaves \in Leaves /\ y.lblk \in Seq(Nat \ {0})
             /\ Len(y.lblk) = Len(y.leaves) /\ Distinct(y.lblk) /\ Filled(y.leaves)
             /\ Rels(y.leaves) = Rels(ls)
             /\ Cells(y.lblk) = Cells(x.lblk) \ LeafBlocks(x, ls)
<1> DEFINE n == Len(ls)
           D == DOMAIN ls \ Emptied(ls)
           live == Ascending(D)
           k == Cardinality(D)
           u == [i \in 1 .. k |-> ls[live[i]]]
           v == [i \in 1 .. k |-> x.lblk[live[i]]]
<1>1. n \in Nat /\ DOMAIN ls = 1 .. n /\ \A i \in 1 .. n : ls[i] \in Seq(Ext)
  BY LenProperties, ElementOfSeq DEF Leaves
<1>2. \A i \in 1 .. n : x.lblk[i] \in Nat \ {0}
  <2>1. x.lblk \in Seq(Nat \ {0})
    BY DEF Mapping
  <2>. QED  BY <2>1, ElementOfSeq
<1>3. D \in SUBSET Nat /\ IsFiniteSet(D)
  <2>1. D \in SUBSET (1 .. n) /\ IsFiniteSet(1 .. n)
    BY <1>1, FS_Interval
  <2> HIDE DEF D
  <2>2. IsFiniteSet(D)
    BY <2>1, FS_Subset
  <2>. QED  BY <2>1, <2>2
<1>4. \A i : i \in D <=> i \in 1 .. n /\ ls[i] # <<>>
  BY <1>1 DEF Emptied
<1> HIDE DEF D
<1>5. /\ k \in Nat /\ live \in [1 .. k -> D]
      /\ \A i, j \in 1 .. k : live[i] = live[j] => i = j
      /\ \A d \in D : \E i \in 1 .. k : live[i] = d
  BY <1>3, AscendingIs
<1> HIDE DEF k, live
<1>6. \A i \in 1 .. k : live[i] \in 1 .. n /\ ls[live[i]] # <<>>
  BY <1>4, <1>5
<1>7. Len(live) = k
  BY <1>5
<1>8. DropLeaves(x, ls) = WithLeaves(x, u, v)
  <2>1. DropLeaves(x, ls) = [x EXCEPT !.leaves = [i \in 1 .. Len(live) |-> ls[live[i]]],
                                      !.lblk = [i \in 1 .. Len(live) |-> x.lblk[live[i]]]]
    BY DEF DropLeaves, live, D
  <2>. QED  BY <1>7, <2>1 DEF WithLeaves
<1>9. u \in Leaves /\ Len(u) = k /\ \A i \in 1 .. k : u[i] = ls[live[i]]
  <2>1. \A i \in 1 .. k : ls[live[i]] \in Seq(Ext)
    BY <1>1, <1>6
  <2>. QED  BY <1>5, <2>1 DEF Leaves
<1>10. v \in Seq(Nat \ {0}) /\ Len(v) = k /\ \A i \in 1 .. k : v[i] = x.lblk[live[i]]
  <2>1. \A i \in 1 .. k : x.lblk[live[i]] \in Nat \ {0}
    BY <1>2, <1>6
  <2>. QED  BY <1>5, <2>1
<1> HIDE DEF u, v
<1>11. Filled(u)
  BY <1>6, <1>9 DEF Filled
<1>12. Distinct(v)
  <2>1. SUFFICES ASSUME NEW i \in 1 .. k, NEW j \in 1 .. k, v[i] = v[j] PROVE i = j
    BY <1>10 DEF Distinct
  <2>2. x.lblk[live[i]] = x.lblk[live[j]]
    BY <1>10, <2>1
  <2>3. live[i] \in 1 .. n /\ live[j] \in 1 .. n
    BY <1>6
  <2>4. live[i] = live[j]
    BY <2>2, <2>3 DEF Distinct
  <2>. QED  BY <1>5, <2>4
<1>13. Rels(u) = Rels(ls)
  <2>1. ASSUME NEW z \in Rels(u) PROVE z \in Rels(ls)
    <3>1. PICK i \in 1 .. Len(u) : z \in Rel(u[i])
      BY RelsIn
    <3>2. live[i] \in 1 .. Len(ls) /\ z \in Rel(ls[live[i]])
      BY <1>6, <1>9, <3>1
    <3>. QED  BY <3>2, RelsIn
  <2>2. ASSUME NEW z \in Rels(ls) PROVE z \in Rels(u)
    <3>1. PICK i \in 1 .. Len(ls) : z \in Rel(ls[i])
      BY RelsIn
    <3>2. ls[i] # <<>>
      BY <3>1, RelEmpty
    <3>3. PICK j \in 1 .. k : live[j] = i
      BY <1>4, <1>5, <3>2
    <3>4. j \in 1 .. Len(u) /\ z \in Rel(u[j])
      BY <1>9, <3>1, <3>3
    <3>. QED  BY <3>4, RelsIn
  <2>. QED  BY <2>1, <2>2
<1>14. Cells(v) = Cells(x.lblk) \ LeafBlocks(x, ls)
  <2>1. ASSUME NEW b \in Cells(v) PROVE b \in Cells(x.lblk) \ LeafBlocks(x, ls)
    <3>1. PICK i \in 1 .. k : b = x.lblk[live[i]]
      BY <1>10 DEF Cells
    <3>2. b \in Cells(x.lblk)
      BY <1>6, <3>1 DEF Cells
    <3>3. \A j \in 1 .. n : ls[j] = <<>> => x.lblk[j] # b
      BY <1>6, <3>1 DEF Distinct
    <3>. QED  BY <3>2, <3>3 DEF LeafBlocks, Emptied
  <2>2. ASSUME NEW b \in Cells(x.lblk) \ LeafBlocks(x, ls) PROVE b \in Cells(v)
    <3>1. PICK i \in 1 .. n : b = x.lblk[i]
      BY DEF Cells
    <3>2. ls[i] # <<>>
      BY <3>1 DEF LeafBlocks, Emptied
    <3>3. PICK j \in 1 .. k : live[j] = i
      BY <1>4, <1>5, <3>2
    <3>4. j \in 1 .. Len(v) /\ v[j] = b
      BY <1>10, <3>1, <3>3
    <3>. QED  BY <3>4 DEF Cells
  <2>. QED  BY <2>1, <2>2
<1>15. /\ DropLeaves(x, ls).leaves = u /\ DropLeaves(x, ls).lblk = v
  BY <1>8, WithLeavesIs
<1>. QED
  BY <1>8, <1>9, <1>10, <1>11, <1>12, <1>13, <1>14, <1>15

LEMMA WithLeavesOnly ==
  ASSUME NEW x \in Mapping, NEW u
  PROVE  [x EXCEPT !.leaves = u] = WithLeaves(x, u, x.lblk)
BY DEF Mapping, WithLeaves

(* One more extent in a leaf or in a new leaf. *)
Appended(x, y, l, p, lb) ==
  /\ y = WithLeaves(x, y.leaves, y.lblk)
  /\ y.leaves \in Leaves /\ y.lblk \in Seq(Nat \ {0})
  /\ Tidy(y)
  /\ Rels(y.leaves) = Rels(x.leaves) \cup {<<l, p>>}
  /\ NeedsLeaf(x, l) => Cells(y.lblk) = Cells(x.lblk) \cup {lb}
  /\ ~NeedsLeaf(x, l) => Cells(y.lblk) = Cells(x.lblk)

LEMMA AppendTreeIs ==
  ASSUME NEW x \in Mapping, Tidy(x), NEW l \in Nat, NEW p \in Nat \ {0}, NEW lb \in Nat,
         NeedsLeaf(x, l) => lb # 0 /\ lb \notin Cells(x.lblk)
  PROVE  Appended(x, AppendTree(x, l, p, lb), l, p, lb)
<1> DEFINE e == Extent(l, p, 1)
           y == AppendTree(x, l, p, lb)
           n == Len(x.leaves)
           ss == x.leaves
           bs == x.lblk
<1>1. e \in Ext /\ Pairs(e) = {<<l, p>>}
  <2>1. 1 \in Nat \ {0}
    OBVIOUS
  <2>. QED  BY <2>1, ExtentIn, PairsOne
<1> HIDE DEF e
<1>2. ss \in Seq(Seq(Ext)) /\ bs \in Seq(Nat \ {0})
  BY DEF Mapping, Leaves
<1>3. Len(bs) = n /\ Distinct(bs) /\ Filled(ss)
  BY DEF Tidy
<1> HIDE DEF ss, bs
<1>4. n \in Nat /\ n = Len(ss) /\ \A i \in 1 .. n : ss[i] \in Seq(Ext)
  BY <1>2, LenProperties, ElementOfSeq DEF ss
<1> HIDE DEF n
<1>5. CASE NeedsLeaf(x, l)
  <2> DEFINE u == Append(ss, <<e>>)
             v == Append(bs, lb)
  <2>1. y = WithLeaves(x, u, v)
    BY <1>5 DEF AppendTree, WithLeaves, ss, bs, e
  <2>2. u \in Seq(Seq(Ext)) /\ Len(u) = n + 1 /\ u[n + 1] = <<e>>
        /\ \A i \in 1 .. n : u[i] = ss[i]
    <3>1. <<e>> \in Seq(Ext)
      BY <1>1, RelSingle
    <3>. QED  BY <1>2, <1>4, <3>1, AppendProperties
  <2>3. v \in Seq(Nat \ {0}) /\ Len(v) = n + 1 /\ v[n + 1] = lb
        /\ \A i \in 1 .. n : v[i] = bs[i]
    <3>1. lb \in Nat \ {0}
      BY <1>5
    <3>. QED  BY <1>2, <1>3, <3>1, AppendProperties
  <2>4. Rels(u) = Rels(ss) \cup {<<l, p>>}
    <3> DEFINE w == <<e>>
    <3>1. w \in Seq(Ext) /\ Rel(w) = {<<l, p>>}
      BY <1>1, RelSingle
    <3> HIDE DEF w
    <3>2. Rels(Append(ss, w)) = Rels(ss) \cup Rel(w)
      BY <1>2, <3>1, RelsAppend
    <3>. QED  BY <3>1, <3>2 DEF w
  <2> HIDE DEF u, v
  <2>5. \A i \in 1 .. n + 1 : i \in 1 .. n \/ i = n + 1
    BY <1>4
  <2>6. lb \notin Cells(bs)
    BY <1>5 DEF bs
  <2>7. Distinct(v)
    <3>1. SUFFICES ASSUME NEW i \in 1 .. n + 1, NEW j \in 1 .. n + 1, v[i] = v[j] PROVE i = j
      BY <2>3 DEF Distinct
    <3>2. \A k \in 1 .. n : v[k] # lb
      BY <1>3, <2>3, <2>6 DEF Cells
    <3>3. CASE i \in 1 .. n /\ j \in 1 .. n
      BY <1>3, <2>3, <3>1, <3>3 DEF Distinct
    <3>. QED  BY <2>3, <2>5, <3>1, <3>2, <3>3
  <2>8. Filled(u)
    <3>1. SUFFICES ASSUME NEW i \in 1 .. n + 1 PROVE u[i] # <<>>
      BY <2>2 DEF Filled
    <3>2. CASE i \in 1 .. n
      BY <1>3, <1>4, <2>2, <3>2 DEF Filled
    <3>3. CASE i = n + 1
      <4>1. <<e>> # <<>>
        OBVIOUS
      <4>. QED  BY <2>2, <3>3, <4>1
    <3>. QED  BY <2>5, <3>2, <3>3
  <2>9. Cells(v) = Cells(bs) \cup {lb}
    <3>1. 1 .. n + 1 = (1 .. n) \cup {n + 1}
      BY <1>4
    <3>. QED  BY <1>3, <2>3, <3>1 DEF Cells
  <2>10. y.leaves = u /\ y.lblk = v
    BY <2>1, WithLeavesIs
  <2>. QED  BY <1>5, <2>1, <2>2, <2>3, <2>4, <2>7, <2>8, <2>9, <2>10 DEF Tidy, Leaves, ss, bs, Appended
<1>6. CASE ~NeedsLeaf(x, l)
  <2> DEFINE s == IF Slots(x, l) # {} THEN First(Slots(x, l)) ELSE <<n, Len(ss[n]) + 1>>
             w == InsertAt(ss[s[1]], s[2], e)
             u == Replaced(ss, s[1], w)
  <2>1. y = [x EXCEPT !.leaves = u]
    BY <1>6 DEF AppendTree, Replaced, ss, e, n
  <2>2. s[1] \in 1 .. n /\ s[2] \in 1 .. Len(ss[s[1]]) + 1
    <3>1. CASE Slots(x, l) # {}
      <4>1. Slots(x, l) \in SUBSET (Nat \X Nat)
        BY DEF Slots
      <4>2. First(Slots(x, l)) \in Slots(x, l)
        BY <3>1, <4>1, FirstIn
      <4>3. s[1] \in 1 .. n /\ s[2] \in 1 .. PerBlock /\ s[2] <= Len(ss[s[1]])
        BY <3>1, <4>2 DEF Slots, ss, n
      <4>4. Len(ss[s[1]]) \in Nat
        BY <1>4, <4>3, LenProperties
      <4> HIDE DEF s
      <4>. QED  BY <4>3, <4>4
    <3>2. CASE Slots(x, l) = {}
      <4>1. ss # <<>>
        BY <1>6, <3>2 DEF NeedsLeaf, LastLeafFull, ss
      <4>2. n # 0
        BY <1>2, <1>4, <4>1, EmptySeq
      <4>3. n \in 1 .. n
        BY <1>4, <4>2
      <4>4. Len(ss[n]) \in Nat
        BY <1>4, <4>3, LenProperties
      <4>5. s[1] = n /\ s[2] = Len(ss[n]) + 1
        BY <3>2
      <4>6. Len(ss[n]) + 1 \in 1 .. Len(ss[n]) + 1
        BY <4>4
      <4> HIDE DEF s
      <4>. QED  BY <4>3, <4>5, <4>6
    <3>. QED  BY <3>1, <3>2
  <2> HIDE DEF s
  <2>3. w \in Seq(Ext) \ {<<>>} /\ Rel(w) = Rel(ss[s[1]]) \cup {<<l, p>>}
    BY <1>1, <1>4, <2>2, RelInsert
  <2> HIDE DEF w
  <2> DEFINE k == s[1]
             P == {<<l, p>>}
  <2>4. k \in 1 .. Len(ss) /\ w \in Seq(Ext) /\ Rel(w) = Rel(ss[k]) \cup P
    BY <1>4, <2>2, <2>3
  <2> HIDE DEF k, P
  <2>5. /\ u \in Seq(Seq(Ext)) /\ Len(u) = Len(ss) /\ Rels(u) = Rels(ss) \cup P
        /\ u[k] = w /\ \A i \in 1 .. Len(ss) : i # k => u[i] = ss[i]
    <3>1. Grown(w, ss[k], P)
      BY <2>4 DEF Grown
    <3>2. Changed(Replaced(ss, k, w), ss, k, w, P)
      BY <1>2, <2>4, <3>1, RelsChanged
    <3>3. Replaced(ss, k, w) = u
      BY DEF k
    <3> HIDE DEF u
    <3>4. Changed(u, ss, k, w, P)
      BY <3>2, <3>3
    <3>. QED  BY <3>4 DEF Changed
  <2> HIDE DEF u
  <2>6. Filled(u)
    BY <1>3, <1>4, <2>3, <2>5 DEF Filled
  <2> HIDE DEF u
  <2>7. y = WithLeaves(x, u, bs)
    BY <2>1, WithLeavesOnly DEF bs
  <2>8. y.leaves = u /\ y.lblk = bs
    BY <2>7, WithLeavesIs
  <2>. QED  BY <1>2, <1>3, <1>4, <1>6, <2>5, <2>6, <2>7, <2>8 DEF Tidy, Leaves, ss, bs, P, Appended
<1>. QED
  BY <1>5, <1>6

(* One more extent in the inode or in the overflow block. *)
WithLists(x, u, v, b) == [x EXCEPT !.inl = u, !.ovf = v, !.ovb = b]

LEMMA WithListsIs ==
  ASSUME NEW x \in Mapping, NEW u, NEW v, NEW b
  PROVE  LET y == WithLists(x, u, v, b)
         IN  /\ y.inl = u /\ y.ovf = v /\ y.ovb = b
             /\ y.leaves = x.leaves /\ y.lblk = x.lblk
             /\ y.direct = x.direct /\ y.ind = x.ind /\ y.ents = x.ents
             /\ u \in Seq(Ext) /\ v \in Seq(Ext) /\ b \in Nat => y \in Mapping
BY DEF Mapping, WithLists

LEMMA WithListsOnly ==
  ASSUME NEW x \in Mapping, NEW u
  PROVE  /\ [x EXCEPT !.inl = u] = WithLists(x, u, x.ovf, x.ovb)
         /\ [x EXCEPT !.ovf = u] = WithLists(x, x.inl, u, x.ovb)
BY DEF Mapping, WithLists

LEMMA WithOverflow ==
  ASSUME NEW x \in Mapping, NEW u, NEW b
  PROVE  [x EXCEPT !.ovf = u, !.ovb = b] = WithLists(x, x.inl, u, b)
BY DEF Mapping, WithLists

LEMMA AppendListIs ==
  ASSUME NEW x \in Mapping, NEW l \in Nat, NEW p \in Nat \ {0}, NEW ob \in Nat
  PROVE  LET y == AppendList(x, l, p, ob)
         IN  /\ y = WithLists(x, y.inl, y.ovf, y.ovb)
             /\ y.inl \in Seq(Ext) /\ y.ovf \in Seq(Ext) /\ y.ovb \in Nat
             /\ Rel(y.inl) \cup Rel(y.ovf) = Rel(x.inl) \cup Rel(x.ovf) \cup {<<l, p>>}
             /\ y.ovb = IF Len(x.inl) < InlineMax THEN x.ovb
                        ELSE IF x.ovb = 0 THEN ob ELSE x.ovb
<1> DEFINE e == Extent(l, p, 1)
           y == AppendList(x, l, p, ob)
<1>1. e \in Ext /\ Pairs(e) = {<<l, p>>}
  <2>1. 1 \in Nat \ {0}
    OBVIOUS
  <2>. QED  BY <2>1, ExtentIn, PairsOne
<1>2. x.inl \in Seq(Ext) /\ x.ovf \in Seq(Ext) /\ x.ovb \in Nat
  BY DEF Mapping
<1>3. CASE Len(x.inl) < InlineMax
  <2> DEFINE u == Append(x.inl, e)
  <2>1. y = [x EXCEPT !.inl = u]
    BY <1>3 DEF AppendList
  <2>2. u \in Seq(Ext) /\ Rel(u) = Rel(x.inl) \cup {<<l, p>>}
    <3> HIDE DEF e
    <3>. QED  BY <1>1, <1>2, RelAppend
  <2> HIDE DEF u
  <2>3. y = WithLists(x, u, x.ovf, x.ovb)
    BY <2>1, WithListsOnly
  <2> HIDE DEF y
  <2>4. y.inl = u /\ y.ovf = x.ovf /\ y.ovb = x.ovb
    BY <2>3, WithListsIs
  <2>5. Rel(y.inl) \cup Rel(y.ovf) = Rel(x.inl) \cup Rel(x.ovf) \cup {<<l, p>>}
    BY <2>2, <2>4
  <2>. QED  BY <1>2, <1>3, <2>2, <2>3, <2>4, <2>5 DEF y
<1>4. CASE ~(Len(x.inl) < InlineMax)
  <2> DEFINE u == Append(x.ovf, e)
             b == IF x.ovb = 0 THEN ob ELSE x.ovb
  <2>1. y = [x EXCEPT !.ovf = u, !.ovb = b]
    BY <1>4 DEF AppendList
  <2>2. u \in Seq(Ext) /\ Rel(u) = Rel(x.ovf) \cup {<<l, p>>}
    <3> HIDE DEF e
    <3>. QED  BY <1>1, <1>2, RelAppend
  <2>3. b \in Nat
    BY <1>2
  <2> HIDE DEF u, b
  <2>4. y = WithLists(x, x.inl, u, b)
    BY <2>1, WithOverflow
  <2> HIDE DEF y
  <2>5. y.inl = x.inl /\ y.ovf = u /\ y.ovb = b
    BY <2>4, WithListsIs
  <2>6. Rel(y.inl) \cup Rel(y.ovf) = Rel(x.inl) \cup Rel(x.ovf) \cup {<<l, p>>}
    BY <2>2, <2>5
  <2>. QED  BY <1>2, <1>4, <2>2, <2>3, <2>4, <2>5, <2>6 DEF y, b
<1>. QED
  BY <1>3, <1>4

(* The last extent of all grows. *)
LEMMA LastOfConcat ==
  ASSUME NEW a \in Seq(Ext), NEW b \in Seq(Ext), b # <<>>
  PROVE  Last(a \o b) = b[Len(b)] /\ Len(b) \in 1 .. Len(b)
<1> DEFINE c == a \o b
           j == Len(a)
           k == Len(b)
<1>1. j \in Nat /\ k \in Nat \ {0}
  BY LenProperties, EmptySeq
<1>2. Len(c) = j + k /\ \A i \in 1 .. j + k : c[i] = IF i <= j THEN a[i] ELSE b[i - j]
  BY ConcatProperties
<1> HIDE DEF c, j, k
<1>3. j + k \in 1 .. j + k /\ ~(j + k <= j) /\ (j + k) - j = k
  BY <1>1
<1>4. c[j + k] = b[k]
  BY <1>2, <1>3
<1>5. k \in 1 .. k
  BY <1>1
<1>. QED
  BY <1>2, <1>4, <1>5 DEF Last, c, k

LEMMA MergeTreeIs ==
  ASSUME NEW x \in Mapping, Tidy(x), fmt = "tree", Entries(x) # <<>>
  PROVE  LET y == Merge(x)
             e == LastEntry(x)
         IN  /\ y = WithLeaves(x, y.leaves, x.lblk) /\ y.leaves \in Leaves /\ Tidy(y)
             /\ Rels(y.leaves) = Rels(x.leaves) \cup {<<e.l + e.n, e.p + e.n>>}
<1> DEFINE ss == x.leaves
           n == Len(ss)
           es == ss[n]
           k == Len(es)
           w == [es EXCEPT ![k].n = @ + 1]
           u == Replaced(ss, n, w)
           y == Merge(x)
           z == <<es[k].l + es[k].n, es[k].p + es[k].n>>
<1>1. ss \in Seq(Seq(Ext)) /\ x.lblk \in Seq(Nat \ {0}) /\ Filled(ss)
      /\ Len(x.lblk) = n /\ Distinct(x.lblk)
  BY DEF Mapping, Leaves, Tidy
<1>2. Entries(x) = FlattenSeq(ss)
  BY DEF Entries, Lists
<1>3. ss # <<>>
  <2>1. SUFFICES ASSUME ss = <<>> PROVE FALSE
    OBVIOUS
  <2>2. Rels(ss) = {}
    BY <2>1, RelEmpty
  <2>3. FlattenSeq(ss) = <<>>
    <3>1. Len(ss) = 0
      BY <2>1
    <3>. QED  BY <2>1, <3>1 DEF FlattenSeq
  <2>. QED  BY <1>2, <2>3
<1>4. y = [x EXCEPT !.leaves = u]
  BY DEF Merge, Replaced, Last
<1> HIDE DEF y
<1>5. n \in 1 .. n /\ es \in Seq(Ext) /\ es # <<>>
  <2>1. n \in Nat \ {0}
    BY <1>1, <1>3, EmptySeq
  <2>2. n \in 1 .. n
    BY <2>1
  <2>. QED  BY <1>1, <2>2, ElementOfSeq DEF Filled
<1>6. LastEntry(x) = es[k] /\ k \in 1 .. k
  <2>1. PICK a \in Seq(Ext) : FlattenSeq(ss) = a \o es
    <3>1. ss \in Leaves
      BY <1>1 DEF Leaves
    <3>. QED  BY <1>3, <3>1, FlattenLast DEF Last
  <2> HIDE DEF es
  <2>2. Last(a \o es) = es[Len(es)] /\ Len(es) \in 1 .. Len(es)
    BY <1>5, LastOfConcat
  <2>. QED  BY <1>2, <2>1, <2>2 DEF LastEntry
<1> HIDE DEF ss, n, es
<1>7. w \in Seq(Ext) /\ w # <<>> /\ Rel(w) = Rel(es) \cup {z}
  <2> HIDE DEF k
  <2>1. k \in 1 .. Len(es)
    BY <1>6 DEF k
  <2>. QED  BY <1>5, <2>1, RelGrown
<1> HIDE DEF w, z
<1>8. Grown(w, ss[n], {z})
  BY <1>7 DEF Grown, es
<1>9. n \in 1 .. Len(ss)
  BY <1>5 DEF n
<1> DEFINE P == {z}
<1>10. Changed(Replaced(ss, n, w), ss, n, w, P)
  <2>1. Grown(w, ss[n], P)
    BY <1>8
  <2> HIDE DEF P
  <2>. QED  BY <1>1, <1>7, <1>9, <2>1, RelsChanged
<1>11. u \in Seq(Seq(Ext)) /\ Len(u) = Len(ss)
  BY <1>10 DEF Changed
<1>12. u[n] = w /\ \A i \in 1 .. Len(ss) : i # n => u[i] = ss[i]
  BY <1>10 DEF Changed
<1>13. Rels(u) = Rels(ss) \cup {z}
  BY <1>10 DEF Changed
<1> HIDE DEF u
<1>14. Filled(u)
  BY <1>1, <1>7, <1>11, <1>12 DEF Filled
<1>15. y = WithLeaves(x, u, x.lblk)
  BY <1>4, WithLeavesOnly
<1>16. y.leaves = u /\ y.lblk = x.lblk
  BY <1>15, WithLeavesIs
<1>17. Tidy(y)
  BY <1>1, <1>11, <1>14, <1>16 DEF Tidy, n
<1>. QED
  BY <1>6, <1>11, <1>13, <1>15, <1>16, <1>17 DEF Leaves, y, ss, z

LEMMA MergeListIs ==
  ASSUME NEW x \in Mapping, fmt # "tree", Entries(x) # <<>>
  PROVE  LET y == Merge(x)
             e == LastEntry(x)
         IN  /\ y = WithLists(x, y.inl, y.ovf, x.ovb)
             /\ y.inl \in Seq(Ext) /\ y.ovf \in Seq(Ext)
             /\ Rel(y.inl) \cup Rel(y.ovf)
                  = Rel(x.inl) \cup Rel(x.ovf) \cup {<<e.l + e.n, e.p + e.n>>}
<1> DEFINE y == Merge(x)
           a == x.inl
           b == x.ovf
           e == LastEntry(x)
           z == <<e.l + e.n, e.p + e.n>>
<1>1. a \in Seq(Ext) /\ b \in Seq(Ext)
  BY DEF Mapping
<1>2. Entries(x) = a \o b
  BY <1>1, FlattenPair DEF Entries, Lists
<1>3. CASE b # <<>>
  <2> DEFINE k == Len(b)
             u == [b EXCEPT ![k].n = @ + 1]
  <2>1. y = [x EXCEPT !.ovf = u]
    BY <1>3 DEF Merge
  <2> HIDE DEF a, b
  <2>2. e = b[k] /\ k \in 1 .. Len(b)
    BY <1>1, <1>2, <1>3, LastOfConcat DEF LastEntry
  <2> HIDE DEF e, k
  <2>3. u \in Seq(Ext) /\ Rel(u) = Rel(b) \cup {z}
    <3>1. u \in Seq(Ext) /\ Rel(u) = Rel(b) \cup {<<b[k].l + b[k].n, b[k].p + b[k].n>>}
      BY <1>1, <2>2, RelGrown
    <3>. QED  BY <2>2, <3>1
  <2> HIDE DEF u, z
  <2>4. y = WithLists(x, a, u, x.ovb)
    BY <2>1, WithListsOnly DEF a
  <2> HIDE DEF y
  <2>5. y.inl = a /\ y.ovf = u
    BY <2>4, WithListsIs
  <2>6. Rel(y.inl) \cup Rel(y.ovf) = Rel(a) \cup Rel(b) \cup {z}
    BY <2>3, <2>5
  <2>. QED  BY <1>1, <2>3, <2>4, <2>5, <2>6 DEF y, z, e, a, b
<1>4. CASE b = <<>>
  <2> DEFINE k == Len(a)
             u == [a EXCEPT ![k].n = @ + 1]
  <2>1. y = [x EXCEPT !.inl = u]
    BY <1>4 DEF Merge
  <2> HIDE DEF a, b
  <2>2. a \o b = a
    BY <1>1, <1>4, ConcatEmptySeq
  <2>3. a # <<>> /\ Len(a) \in Nat \ {0}
    BY <1>1, <1>2, <2>2, EmptySeq
  <2>4. e = a[k] /\ k \in 1 .. Len(a)
    BY <1>2, <2>2, <2>3 DEF LastEntry, Last
  <2> HIDE DEF e, k
  <2>5. u \in Seq(Ext) /\ Rel(u) = Rel(a) \cup {z}
    <3>1. u \in Seq(Ext) /\ Rel(u) = Rel(a) \cup {<<a[k].l + a[k].n, a[k].p + a[k].n>>}
      BY <1>1, <2>4, RelGrown
    <3>. QED  BY <2>4, <3>1
  <2> HIDE DEF u, z
  <2>6. y = WithLists(x, u, b, x.ovb)
    BY <2>1, WithListsOnly DEF b
  <2> HIDE DEF y
  <2>7. y.inl = u /\ y.ovf = b
    BY <2>6, WithListsIs
  <2>8. Rel(y.inl) \cup Rel(y.ovf) = Rel(a) \cup Rel(b) \cup {z}
    BY <2>5, <2>7
  <2>. QED  BY <1>1, <2>5, <2>6, <2>7, <2>8 DEF y, z, e, a, b
<1>. QED
  BY <1>3, <1>4
-----------------------------------------------------------------------------
(* What a mapping R, the blocks M that hold it, the free blocks fr and the    *)
(* blocks mi that were free before the file have to do with each other.       *)
Seconds(R) == {y[2] : y \in R}
OneToOne(R) == \A x, y \in R : x[1] = y[1] \/ x[2] = y[2] => x = y
Sound(R, M, fr, mi) ==
  /\ R \in SUBSET (Nat \X (Nat \ {0})) /\ OneToOne(R)
  /\ Seconds(R) \cup M = mi \ fr
  /\ Seconds(R) \cap M = {}
  /\ fr \subseteq mi

(* A block is mapped, and blocks are taken for the map. *)
LEMMA Taken ==
  ASSUME NEW R, NEW M, NEW fr, NEW mi, Sound(R, M, fr, mi), mi \subseteq Nat \ {0},
         NEW l \in Nat, NEW p \in fr, \A y \in R : y[1] # l, NEW B \in SUBSET (fr \ {p})
  PROVE  Sound(R \cup {<<l, p>>}, M \cup B, fr \ ({p} \cup B), mi)
<1> DEFINE z == <<l, p>>
           T == R \cup {z}
           G == fr \ ({p} \cup B)
<1>1. z \in Nat \X (Nat \ {0}) /\ z[1] = l /\ z[2] = p
  BY DEF Sound
<1>2. Seconds(T) = Seconds(R) \cup {p}
  BY <1>1 DEF Seconds
<1>3. \A y \in R : y[2] # p /\ y[1] # l
  BY DEF Sound, Seconds
<1> HIDE DEF z
<1>4. OneToOne(T)
  BY <1>1, <1>3 DEF OneToOne, Sound
<1>5. Seconds(T) \cup (M \cup B) = mi \ G
  BY <1>2 DEF Sound
<1>6. Seconds(T) \cap (M \cup B) = {}
  BY <1>2 DEF Sound
<1>7. T \in SUBSET (Nat \X (Nat \ {0})) /\ G \subseteq mi
  BY <1>1 DEF Sound
<1>. QED
  BY <1>4, <1>5, <1>6, <1>7 DEF Sound, z

LEMMA TakenMeta ==
  ASSUME NEW R, NEW M, NEW fr, NEW mi, Sound(R, M, fr, mi), NEW B \in SUBSET fr
  PROVE  Sound(R, M \cup B, fr \ B, mi)
BY DEF Sound

(* A part of the map is dropped, and blocks of the map are given back. *)
LEMMA Given ==
  ASSUME NEW R, NEW M, NEW fr, NEW mi, Sound(R, M, fr, mi), NEW K, NEW B \in SUBSET M
  PROVE  Sound(Keeps(R, K), M \ B, fr \cup Drops(R, K) \cup B, mi)
<1> DEFINE T == Keeps(R, K)
           D == Drops(R, K)
<1>1. T \in SUBSET R
  BY DEF Keeps
<1>2. Seconds(T) \cup D = Seconds(R)
  BY DEF Keeps, Drops, Seconds
<1>3. Seconds(T) \cap D = {}
  <2>1. SUFFICES ASSUME NEW b \in Seconds(T), b \in D PROVE FALSE
    OBVIOUS
  <2>2. PICK x \in R : x[1] \in K /\ x[2] = b
    BY DEF Seconds, Keeps
  <2>3. PICK y \in R : y[1] \notin K /\ y[2] = b
    BY <2>1 DEF Drops
  <2>4. x = y
    BY <2>2, <2>3 DEF Sound, OneToOne
  <2>. QED  BY <2>2, <2>3, <2>4
<1> HIDE DEF T, D
<1>4. OneToOne(T)
  BY <1>1 DEF Sound, OneToOne
<1>5. Seconds(T) \cup (M \ B) = mi \ (fr \cup D \cup B)
  BY <1>2, <1>3 DEF Sound
<1>6. Seconds(T) \cap (M \ B) = {} /\ fr \cup D \cup B \subseteq mi
  BY <1>2 DEF Sound
<1>. QED
  BY <1>1, <1>4, <1>5, <1>6 DEF Sound, T, D
-----------------------------------------------------------------------------
(* The pairs of file block and block of a mapping, in every format.           *)
IndPairs(x) ==
  {<<i, x.direct[i]>> : i \in {i \in 0 .. Direct - 1 : x.direct[i] # 0}}
    \cup {<<Direct + i, x.ents[i]>> : i \in {i \in 0 .. Indirect - 1 : x.ents[i] # 0}}
PairsIn(x) == IF fmt = "indirect" THEN IndPairs(x) ELSE Rels(Lists(x))

LEMMA Constants ==
  /\ Direct \in Nat \ {0} /\ Indirect \in Nat \ {0} /\ PerBlock \in Nat \ {0}
  /\ RootInline \in Nat \ {0} /\ MaxInline \in Nat \ {0} /\ MaxSize \in Nat /\ NBlocks \in Nat
BY ExtentAssumption DEF ExtentAssumption

LEMMA ListsIn ==
  ASSUME NEW x \in Mapping
  PROVE  /\ Lists(x) \in Leaves
         /\ fmt = "tree" => Rels(Lists(x)) = Rels(x.leaves)
         /\ fmt # "tree" => Rels(Lists(x)) = Rel(x.inl) \cup Rel(x.ovf)
         /\ Entries(x) \in Seq(Ext) /\ Rel(Entries(x)) = Rels(Lists(x))
<1>1. CASE fmt = "tree"
  <2>1. Lists(x) = x.leaves /\ x.leaves \in Leaves
    BY <1>1 DEF Lists, Mapping
  <2>. QED  BY <1>1, <2>1, FlattenRel DEF Entries
<1>2. CASE fmt # "tree"
  <2> DEFINE a == x.inl
             b == x.ovf
             s == <<a, b>>
  <2>1. a \in Seq(Ext) /\ b \in Seq(Ext)
    BY DEF Mapping
  <2>2. Lists(x) = s
    BY <1>2 DEF Lists
  <2> HIDE DEF a, b
  <2>3. s \in Leaves /\ Rels(s) = Rel(a) \cup Rel(b)
    BY <2>1, RelsPair
  <2> HIDE DEF s
  <2>. QED  BY <1>2, <2>2, <2>3, FlattenRel DEF Entries, a, b
<1>. QED
  BY <1>1, <1>2

(* Every block of the file has a pair with it, or Lookup finds none.         *)
LEMMA RelNat ==
  ASSUME NEW es \in Seq(Ext)
  PROVE  Rel(es) \in SUBSET (Nat \X (Nat \ {0}))
<1>1. SUFFICES ASSUME NEW x \in Rel(es) PROVE x \in Nat \X (Nat \ {0})
  OBVIOUS
<1>2. PICK i \in 1 .. Len(es) : x \in Pairs(es[i])
  BY RelIn
<1>3. es[i] \in Ext
  BY ElementOfSeq
<1>4. PICK k \in 0 .. es[i].n - 1 : x = <<es[i].l + k, es[i].p + k>>
  BY <1>2 DEF Pairs
<1>5. es[i].l \in Nat /\ es[i].p \in Nat \ {0} /\ es[i].n \in Nat
  BY <1>3 DEF Ext
<1>6. es[i].l + k \in Nat /\ es[i].p + k \in Nat \ {0}
  BY <1>4, <1>5
<1>. QED
  BY <1>4, <1>6

LEMMA LookupExtent ==
  ASSUME NEW x \in Mapping, fmt # "indirect", NEW l \in Nat
  PROVE  \/ Lookup(x, l) = 0 /\ \A y \in Rels(Lists(x)) : y[1] # l
         \/ <<l, Lookup(x, l)>> \in Rels(Lists(x))
<1> DEFINE ls == Lists(x)
           hit == UNION {{<<i, k>> : k \in {k \in 1 .. Len(ls[i]) : Covers(ls[i][k], l)}} :
                         i \in 1 .. Len(ls)}
           e == ls[First(hit)[1]][First(hit)[2]]
<1>1. Lookup(x, l) = IF hit = {} THEN 0 ELSE e.p + (l - e.l)
  BY DEF Lookup
<1>2. ls \in Leaves /\ Len(ls) \in Nat /\ \A i \in 1 .. Len(ls) : ls[i] \in Seq(Ext)
  <2>1. ls \in Leaves
    BY ListsIn
  <2> HIDE DEF ls
  <2>. QED  BY <2>1, LenProperties, ElementOfSeq DEF Leaves
<1> HIDE DEF ls
<1>3. \A h : h \in hit <=> /\ h = <<h[1], h[2]>> /\ h[1] \in 1 .. Len(ls)
                           /\ h[2] \in 1 .. Len(ls[h[1]]) /\ Covers(ls[h[1]][h[2]], l)
  OBVIOUS
<1> HIDE DEF hit
<1>4. CASE hit = {}
  <2>1. SUFFICES ASSUME NEW y \in Rels(ls) PROVE y[1] # l
    BY <1>1, <1>4 DEF ls
  <2>2. PICK i \in 1 .. Len(ls) : y \in Rel(ls[i])
    BY RelsIn
  <2>3. PICK k \in 1 .. Len(ls[i]) : y \in Pairs(ls[i][k])
    BY <2>2, RelIn
  <2>4. ls[i][k] \in Ext
    BY <1>2, ElementOfSeq
  <2>5. ls[i][k].l <= y[1] /\ y[1] < ls[i][k].l + ls[i][k].n
    BY <2>3, <2>4, PairsAre
  <2>6. y[1] = l => <<i, k>> \in hit
    <3> DEFINE h == <<i, k>>
    <3>1. h[1] = i /\ h[2] = k /\ h = <<h[1], h[2]>>
      OBVIOUS
    <3> HIDE DEF h
    <3>2. y[1] = l => h \in hit
      BY <1>3, <2>5, <3>1 DEF Covers
    <3>. QED  BY <3>2 DEF h
  <2>. QED  BY <1>4, <2>6
<1>5. CASE hit # {}
  <2> DEFINE h == First(hit)
  <2>1. h \in hit
    <3>1. hit \in SUBSET (Nat \X Nat)
      <4>1. SUFFICES ASSUME NEW o \in hit PROVE o \in Nat \X Nat
        OBVIOUS
      <4>2. o = <<o[1], o[2]>> /\ o[1] \in Nat /\ o[2] \in Nat
        BY <1>2, <1>3
      <4>. QED  BY <4>2
    <3>. QED  BY <1>5, <3>1, FirstIn
  <2> HIDE DEF h
  <2>2. h[1] \in 1 .. Len(ls) /\ h[2] \in 1 .. Len(ls[h[1]]) /\ Covers(ls[h[1]][h[2]], l)
    BY <1>3, <2>1
  <2>3. e = ls[h[1]][h[2]]
    BY DEF h
  <2> HIDE DEF e
  <2>4. e \in Ext /\ Covers(e, l)
    BY <1>2, <2>2, <2>3, ElementOfSeq
  <2>5. e.l \in Nat /\ e.p \in Nat \ {0} /\ e.n \in Nat \ {0}
    BY <2>4 DEF Ext
  <2> DEFINE z == <<l, e.p + (l - e.l)>>
  <2>6. z \in Pairs(e)
    <3>1. l - e.l \in 0 .. e.n - 1 /\ l = e.l + (l - e.l)
      BY <2>4, <2>5 DEF Covers
    <3>. QED  BY <3>1 DEF Pairs
  <2> HIDE DEF z
  <2>7. z \in Rels(ls)
    <3>1. z \in Rel(ls[h[1]])
      BY <2>2, <2>3, <2>6, RelIn
    <3>. QED  BY <2>2, <3>1, RelsIn
  <2>. QED  BY <1>1, <1>5, <2>7 DEF z, ls
<1>. QED
  BY <1>4, <1>5

LEMMA PairsNat ==
  ASSUME NEW x \in Mapping
  PROVE  PairsIn(x) \in SUBSET (Nat \X (Nat \ {0}))
<1>1. CASE fmt = "indirect"
  <2>1. x.direct \in [0 .. Direct - 1 -> Nat] /\ x.ents \in [0 .. Indirect - 1 -> Nat]
    BY DEF Mapping
  <2>2. IndPairs(x) \in SUBSET (Nat \X (Nat \ {0}))
    BY <2>1, Constants DEF IndPairs
  <2>. QED  BY <1>1, <2>2 DEF PairsIn
<1>2. CASE fmt # "indirect"
  <2>1. Entries(x) \in Seq(Ext) /\ Rel(Entries(x)) = Rels(Lists(x))
    BY ListsIn
  <2>. QED  BY <1>2, <2>1, RelNat DEF PairsIn
<1>. QED
  BY <1>1, <1>2

LEMMA LookupIs ==
  ASSUME NEW x \in Mapping, Shape(x), NEW l \in Nat
  PROVE  \/ Lookup(x, l) = 0 /\ \A y \in PairsIn(x) : y[1] # l
         \/ Lookup(x, l) # 0 /\ <<l, Lookup(x, l)>> \in PairsIn(x)
<1>1. CASE fmt = "indirect"
  <2>1. x.direct \in [0 .. Direct - 1 -> Nat] /\ x.ents \in [0 .. Indirect - 1 -> Nat]
    BY DEF Mapping
  <2>2. /\ \A y : y \in IndPairs(x) <=>
             \/ \E i \in 0 .. Direct - 1 : x.direct[i] # 0 /\ y = <<i, x.direct[i]>>
             \/ \E i \in 0 .. Indirect - 1 : x.ents[i] # 0 /\ y = <<Direct + i, x.ents[i]>>
    BY DEF IndPairs
  <2>3. x.ind = 0 => \A i \in 0 .. Indirect - 1 : x.ents[i] = 0
    BY <2>1 DEF Shape
  <2>4. Lookup(x, l) = IF l < Direct THEN x.direct[l]
                       ELSE IF x.ind = 0 \/ l >= Direct + Indirect THEN 0
                       ELSE x.ents[l - Direct]
    BY <1>1 DEF Lookup
  <2>5. PairsIn(x) = IndPairs(x)
    BY <1>1 DEF PairsIn
  <2>6. CASE l < Direct
    <3>1. l \in 0 .. Direct - 1
      BY <2>6, Constants
    <3>2. \A y \in IndPairs(x) : y[1] = l => x.direct[l] # 0
      BY <2>2, <2>6, Constants
    <3>3. x.direct[l] # 0 => <<l, x.direct[l]>> \in IndPairs(x)
      BY <2>2, <3>1
    <3>. QED  BY <2>4, <2>5, <2>6, <3>2, <3>3
  <2>7. CASE l >= Direct
    <3> DEFINE j == l - Direct
    <3>1. j \in Nat /\ l = Direct + j /\ ~(l < Direct) /\ (l >= Direct + Indirect <=> j >= Indirect)
      BY <2>7, Constants
    <3> HIDE DEF j
    <3>2. Lookup(x, l) = IF x.ind = 0 \/ j >= Indirect THEN 0 ELSE x.ents[j]
      BY <2>4, <3>1 DEF j
    <3>3. \A y \in IndPairs(x) : y[1] = l => j \in 0 .. Indirect - 1 /\ x.ents[j] # 0
      BY <2>2, <3>1, Constants
    <3>4. CASE x.ind = 0 \/ j >= Indirect
      BY <2>3, <2>5, <3>2, <3>3, <3>4, Constants
    <3>5. CASE ~(x.ind = 0 \/ j >= Indirect)
      <4>1. j \in 0 .. Indirect - 1
        BY <3>1, <3>5, Constants
      <4>2. x.ents[j] # 0 => <<l, x.ents[j]>> \in IndPairs(x)
        BY <2>2, <3>1, <4>1
      <4>. QED  BY <2>5, <3>2, <3>3, <3>5, <4>2
    <3>. QED  BY <3>4, <3>5
  <2>. QED  BY <2>6, <2>7, Constants
<1>2. CASE fmt # "indirect"
  <2>1. PairsIn(x) = Rels(Lists(x))
    BY <1>2 DEF PairsIn
  <2>2. \/ Lookup(x, l) = 0 /\ \A y \in PairsIn(x) : y[1] # l
        \/ <<l, Lookup(x, l)>> \in PairsIn(x)
    BY <1>2, <2>1, LookupExtent
  <2>3. <<l, Lookup(x, l)>> \in PairsIn(x) => Lookup(x, l) # 0
    BY PairsNat
  <2>. QED  BY <2>2, <2>3
<1>. QED
  BY <1>1, <1>2

LEMMA BlocksRel ==
  ASSUME NEW es \in Seq(Ext)
  PROVE  UNION {BlocksOf(es[i]) : i \in 1 .. Len(es)} = Seconds(Rel(es))
<1> DEFINE U == UNION {BlocksOf(es[i]) : i \in 1 .. Len(es)}
<1>1. \A i \in 1 .. Len(es) : BlocksOf(es[i]) = Seconds(Pairs(es[i]))
  <2>1. SUFFICES ASSUME NEW e \in Ext PROVE BlocksOf(e) = Seconds(Pairs(e))
    BY ElementOfSeq
  <2>2. e.l \in Nat /\ e.p \in Nat \ {0} /\ e.n \in Nat \ {0}
    BY DEF Ext
  <2>3. ASSUME NEW b \in BlocksOf(e) PROVE b \in Seconds(Pairs(e))
    <3> DEFINE i == b - e.p
               z == <<e.l + i, e.p + i>>
    <3>1. i \in 0 .. e.n - 1 /\ e.p + i = b
      BY <2>2 DEF BlocksOf
    <3>2. z \in Pairs(e) /\ z[2] = b
      BY <3>1 DEF Pairs
    <3>. QED  BY <3>2 DEF Seconds
  <2>4. ASSUME NEW b \in Seconds(Pairs(e)) PROVE b \in BlocksOf(e)
    <3>1. PICK i \in 0 .. e.n - 1 : b = e.p + i
      BY DEF Seconds, Pairs
    <3>. QED  BY <2>2, <3>1 DEF BlocksOf
  <2>. QED  BY <2>3, <2>4
<1>2. ASSUME NEW b \in U PROVE b \in Seconds(Rel(es))
  <2>1. PICK i \in 1 .. Len(es) : b \in Seconds(Pairs(es[i]))
    BY <1>1
  <2>2. PICK y \in Pairs(es[i]) : y[2] = b
    BY <2>1 DEF Seconds
  <2>3. y \in Rel(es)
    BY <2>2, RelIn
  <2>. QED  BY <2>2, <2>3 DEF Seconds
<1>3. ASSUME NEW b \in Seconds(Rel(es)) PROVE b \in U
  <2>1. PICK y \in Rel(es) : y[2] = b
    BY DEF Seconds
  <2>2. PICK i \in 1 .. Len(es) : y \in Pairs(es[i])
    BY <2>1, RelIn
  <2>3. b \in Seconds(Pairs(es[i]))
    BY <2>1, <2>2 DEF Seconds
  <2>. QED  BY <1>1, <2>3
<1>. QED
  BY <1>2, <1>3

LEMMA DataIs ==
  ASSUME NEW x \in Mapping
  PROVE  DataBlocks(x) = Seconds(PairsIn(x))
<1>1. CASE fmt = "indirect"
  <2>1. x.direct \in [0 .. Direct - 1 -> Nat] /\ x.ents \in [0 .. Indirect - 1 -> Nat]
    BY DEF Mapping
  <2>2. DataBlocks(x) = ({x.direct[i] : i \in 0 .. Direct - 1}
                           \cup {x.ents[i] : i \in 0 .. Indirect - 1}) \ {0}
    BY <1>1, <2>1 DEF DataBlocks
  <2>3. Seconds(IndPairs(x)) = {x.direct[i] : i \in {i \in 0 .. Direct - 1 : x.direct[i] # 0}}
                                 \cup {x.ents[i] : i \in {i \in 0 .. Indirect - 1 : x.ents[i] # 0}}
    <3> DEFINE D == {<<i, x.direct[i]>> : i \in {i \in 0 .. Direct - 1 : x.direct[i] # 0}}
               E == {<<Direct + i, x.ents[i]>> : i \in {i \in 0 .. Indirect - 1 : x.ents[i] # 0}}
    <3>1. Seconds(D) = {x.direct[i] : i \in {i \in 0 .. Direct - 1 : x.direct[i] # 0}}
      <4> DEFINE S == {i \in 0 .. Direct - 1 : x.direct[i] # 0}
      <4>1. ASSUME NEW b \in Seconds(D) PROVE b \in {x.direct[i] : i \in S}
        <5>1. PICK y \in D : y[2] = b
          BY DEF Seconds
        <5>2. PICK i \in S : y = <<i, x.direct[i]>>
          BY <5>1
        <5>3. b = x.direct[i]
          BY <5>1, <5>2
        <5>. QED  BY <5>3
      <4>2. ASSUME NEW i \in S PROVE x.direct[i] \in Seconds(D)
        <5> DEFINE y == <<i, x.direct[i]>>
        <5>1. y \in D /\ y[2] = x.direct[i]
          OBVIOUS
        <5>. QED  BY <5>1 DEF Seconds
      <4>. QED  BY <4>1, <4>2
    <3>2. Seconds(E) = {x.ents[i] : i \in {i \in 0 .. Indirect - 1 : x.ents[i] # 0}}
      <4> DEFINE S == {i \in 0 .. Indirect - 1 : x.ents[i] # 0}
      <4>1. ASSUME NEW b \in Seconds(E) PROVE b \in {x.ents[i] : i \in S}
        <5>1. PICK y \in E : y[2] = b
          BY DEF Seconds
        <5>2. PICK i \in S : y = <<Direct + i, x.ents[i]>>
          BY <5>1
        <5>3. b = x.ents[i]
          BY <5>1, <5>2
        <5>. QED  BY <5>3
      <4>2. ASSUME NEW i \in S PROVE x.ents[i] \in Seconds(E)
        <5> DEFINE y == <<Direct + i, x.ents[i]>>
        <5>1. y \in E /\ y[2] = x.ents[i]
          OBVIOUS
        <5>. QED  BY <5>1 DEF Seconds
      <4>. QED  BY <4>1, <4>2
    <3>3. IndPairs(x) = D \cup E
      BY DEF IndPairs
    <3> HIDE DEF D, E
    <3>4. Seconds(D \cup E) = Seconds(D) \cup Seconds(E)
      BY DEF Seconds
    <3>. QED  BY <3>1, <3>2, <3>3, <3>4
  <2>4. DataBlocks(x) = Seconds(IndPairs(x))
    BY <2>2, <2>3
  <2>. QED  BY <1>1, <2>4 DEF PairsIn
<1>2. CASE fmt # "indirect"
  <2> DEFINE es == Entries(x)
  <2>1. es \in Seq(Ext) /\ Rel(es) = Rels(Lists(x))
    BY ListsIn
  <2>2. DataBlocks(x) = UNION {BlocksOf(es[i]) : i \in 1 .. Len(es)}
    BY <1>2 DEF DataBlocks
  <2> HIDE DEF es
  <2>3. UNION {BlocksOf(es[i]) : i \in 1 .. Len(es)} = Seconds(Rel(es))
    BY <2>1, BlocksRel
  <2>. QED  BY <1>2, <2>1, <2>2, <2>3 DEF PairsIn
<1>. QED
  BY <1>1, <1>2
-----------------------------------------------------------------------------
(* What is left of m's fields to show, format by format.                      *)
Kept(x) == x \in Mapping /\ Shape(x)

LEMMA CellsIn ==
  ASSUME NEW x \in Mapping
  PROVE  Cells(x.lblk) \in SUBSET (Nat \ {0})
<1>1. x.lblk \in Seq(Nat \ {0})
  BY DEF Mapping
<1>. QED
  BY <1>1, ElementOfSeq DEF Cells

LEMMA CellsEmpty ==
  ASSUME NEW x \in Mapping, Tidy(x), x.leaves = <<>>
  PROVE  x.lblk = <<>> /\ Cells(x.lblk) = {}
<1>1. Len(x.lblk) = 0
  <2>1. Len(<<>>) = 0
    OBVIOUS
  <2>. QED  BY <2>1 DEF Tidy
<1>2. x.lblk \in Seq(Nat \ {0}) /\ 1 .. 0 = {}
  BY DEF Mapping
<1>. QED
  BY <1>1, <1>2, EmptySeq DEF Cells

LEMMA TreeKept ==
  ASSUME NEW x, Kept(x), fmt = "tree", NEW u \in Leaves, NEW v \in Seq(Nat \ {0}),
         Tidy(WithLeaves(x, u, v))
  PROVE  /\ Kept(WithLeaves(x, u, v))
         /\ PairsIn(WithLeaves(x, u, v)) = Rels(u) /\ MetaBlocks(WithLeaves(x, u, v)) = Cells(v)
         /\ PairsIn(x) = Rels(x.leaves) /\ MetaBlocks(x) = Cells(x.lblk)
<1> DEFINE y == WithLeaves(x, u, v)
<1>1. x \in Mapping /\ Shape(x)
  BY DEF Kept
<1>2. /\ y \in Mapping /\ y.leaves = u /\ y.lblk = v
      /\ y.inl = x.inl /\ y.ovf = x.ovf /\ y.ovb = x.ovb
      /\ y.ind = x.ind /\ y.ents = x.ents
  BY <1>1, WithLeavesIs
<1>3. Tidy(y)
  OBVIOUS
<1> HIDE DEF y
<1>4. Shape(y)
  BY <1>1, <1>2, <1>3 DEF Shape
<1>5. PairsIn(y) = Rels(u) /\ PairsIn(x) = Rels(x.leaves)
  BY <1>1, <1>2, ListsIn DEF PairsIn
<1>6. x.ind = 0 /\ x.ovb = 0
  BY <1>1 DEF Shape
<1>7. Cells(v) \in SUBSET (Nat \ {0}) /\ Cells(x.lblk) \in SUBSET (Nat \ {0})
  <2>1. Cells(y.lblk) \in SUBSET (Nat \ {0}) /\ Cells(x.lblk) \in SUBSET (Nat \ {0})
    BY <1>1, <1>2, CellsIn
  <2>. QED  BY <1>2, <2>1
<1>8. MetaBlocks(y) = Cells(v) /\ MetaBlocks(x) = Cells(x.lblk)
  <2>1. MetaBlocks(x) = ({x.ind, x.ovb} \cup Cells(x.lblk)) \ {0}
    BY DEF MetaBlocks, Cells
  <2>2. MetaBlocks(y) = ({y.ind, y.ovb} \cup Cells(y.lblk)) \ {0}
    BY DEF MetaBlocks, Cells
  <2>. QED  BY <1>2, <1>6, <1>7, <2>1, <2>2
<1>. QED
  BY <1>2, <1>4, <1>5, <1>8 DEF Kept, y

LEMMA ListKept ==
  ASSUME NEW x, Kept(x), fmt \notin {"tree", "indirect"},
         NEW u \in Seq(Ext), NEW v \in Seq(Ext), NEW b \in Nat
  PROVE  /\ Kept(WithLists(x, u, v, b))
         /\ PairsIn(WithLists(x, u, v, b)) = Rel(u) \cup Rel(v)
         /\ MetaBlocks(WithLists(x, u, v, b)) = {b} \ {0}
         /\ PairsIn(x) = Rel(x.inl) \cup Rel(x.ovf) /\ MetaBlocks(x) = {x.ovb} \ {0}
<1> DEFINE y == WithLists(x, u, v, b)
<1>1. x \in Mapping /\ Shape(x)
  BY DEF Kept
<1>2. /\ y \in Mapping /\ y.inl = u /\ y.ovf = v /\ y.ovb = b
      /\ y.leaves = x.leaves /\ y.lblk = x.lblk
      /\ y.ind = x.ind /\ y.ents = x.ents
  BY <1>1, WithListsIs
<1> HIDE DEF y
<1>3. Shape(y)
  BY <1>1, <1>2 DEF Shape, Tidy
<1>4. PairsIn(y) = Rel(u) \cup Rel(v) /\ PairsIn(x) = Rel(x.inl) \cup Rel(x.ovf)
  BY <1>1, <1>2, ListsIn DEF PairsIn
<1>5. x.ind = 0 /\ x.leaves = <<>> /\ Tidy(x)
  BY <1>1 DEF Shape
<1>6. Cells(x.lblk) = {}
  BY <1>1, <1>5, CellsEmpty
<1>7. MetaBlocks(y) = {b} \ {0} /\ MetaBlocks(x) = {x.ovb} \ {0}
  <2>1. MetaBlocks(x) = ({x.ind, x.ovb} \cup Cells(x.lblk)) \ {0}
    BY DEF MetaBlocks, Cells
  <2>2. MetaBlocks(y) = ({y.ind, y.ovb} \cup Cells(y.lblk)) \ {0}
    BY DEF MetaBlocks, Cells
  <2>. QED  BY <1>2, <1>5, <1>6, <2>1, <2>2
<1>. QED
  BY <1>2, <1>3, <1>4, <1>7 DEF Kept, y

WithIndirect(x, d, n, t) == [x EXCEPT !.direct = d, !.ind = n, !.ents = t]

LEMMA WithIndirectIs ==
  ASSUME NEW x \in Mapping, NEW d, NEW n, NEW t
  PROVE  LET y == WithIndirect(x, d, n, t)
         IN  /\ y.direct = d /\ y.ind = n /\ y.ents = t
             /\ y.leaves = x.leaves /\ y.lblk = x.lblk
             /\ y.inl = x.inl /\ y.ovf = x.ovf /\ y.ovb = x.ovb
             /\ /\ d \in [0 .. Direct - 1 -> Nat] /\ n \in Nat /\ t \in [0 .. Indirect - 1 -> Nat]
                => y \in Mapping
BY DEF Mapping, WithIndirect

(* Without an indirect block no entry of it is used. *)
Rooted(n, t) == n = 0 => \A i \in 0 .. Indirect - 1 : t[i] = 0

LEMMA IndirectKept ==
  ASSUME NEW x, Kept(x), fmt = "indirect",
         NEW d \in [0 .. Direct - 1 -> Nat], NEW n \in Nat, NEW t \in [0 .. Indirect - 1 -> Nat],
         Rooted(n, t)
  PROVE  /\ Kept(WithIndirect(x, d, n, t))
         /\ PairsIn(WithIndirect(x, d, n, t)) = IndPairs(WithIndirect(x, d, n, t))
         /\ WithIndirect(x, d, n, t).direct = d /\ WithIndirect(x, d, n, t).ents = t
         /\ MetaBlocks(WithIndirect(x, d, n, t)) = {n} \ {0}
         /\ PairsIn(x) = IndPairs(x) /\ MetaBlocks(x) = {x.ind} \ {0}
<1> DEFINE y == WithIndirect(x, d, n, t)
<1>1. x \in Mapping /\ Shape(x)
  BY DEF Kept
<1>2. /\ y \in Mapping /\ y.direct = d /\ y.ind = n /\ y.ents = t
      /\ y.leaves = x.leaves /\ y.lblk = x.lblk
      /\ y.inl = x.inl /\ y.ovf = x.ovf /\ y.ovb = x.ovb
  BY <1>1, WithIndirectIs
<1> HIDE DEF y
<1>3. Shape(y)
  <2>1. Tidy(y)
    BY <1>1, <1>2 DEF Shape, Tidy
  <2>2. y.ind = 0 => \A i \in DOMAIN y.ents : y.ents[i] = 0
    BY <1>2 DEF Rooted
  <2>. QED  BY <1>1, <1>2, <2>1, <2>2 DEF Shape
<1>4. PairsIn(y) = IndPairs(y) /\ PairsIn(x) = IndPairs(x)
  BY DEF PairsIn
<1>5. x.ovb = 0 /\ x.leaves = <<>> /\ Tidy(x)
  BY <1>1 DEF Shape
<1>6. Cells(x.lblk) = {}
  BY <1>1, <1>5, CellsEmpty
<1>7. MetaBlocks(y) = {n} \ {0} /\ MetaBlocks(x) = {x.ind} \ {0}
  <2>1. MetaBlocks(x) = ({x.ind, x.ovb} \cup Cells(x.lblk)) \ {0}
    BY DEF MetaBlocks, Cells
  <2>2. MetaBlocks(y) = ({y.ind, y.ovb} \cup Cells(y.lblk)) \ {0}
    BY DEF MetaBlocks, Cells
  <2>. QED  BY <1>2, <1>5, <1>6, <2>1, <2>2
<1>. QED
  BY <1>2, <1>3, <1>4, <1>7 DEF Kept, y
-----------------------------------------------------------------------------
(* The invariant, and the three kinds of steps it allows: a block of the file *)
(* is mapped, the map itself takes blocks, a part of the map is given back.   *)
IInv ==
  /\ fmt \in {"indirect", "inline", "root", "tree"} /\ size \in Nat /\ mine \subseteq Blocks
  /\ Kept(m)
  /\ Sound(PairsIn(m), MetaBlocks(m), free, mine)

Takes(y, f, l) ==
  \E p \in free : \E B \in SUBSET (free \ {p}) :
    /\ Kept(y) /\ PairsIn(y) = PairsIn(m) \cup {<<l, p>>}
    /\ MetaBlocks(y) = MetaBlocks(m) \cup B /\ f = free \ ({p} \cup B)
Holds(y, f) ==
  \E B \in SUBSET free :
    /\ Kept(y) /\ PairsIn(y) = PairsIn(m)
    /\ MetaBlocks(y) = MetaBlocks(m) \cup B /\ f = free \ B
Spares(y, f, K) ==
  \E B \in SUBSET MetaBlocks(m) :
    /\ Kept(y) /\ PairsIn(y) = Keeps(PairsIn(m), K)
    /\ MetaBlocks(y) = MetaBlocks(m) \ B /\ f = free \cup Drops(PairsIn(m), K) \cup B
Gives(y, f) == \E K \in SUBSET Nat : Spares(y, f, K)

LEMMA FreeNat ==
  ASSUME IInv
  PROVE  free \in SUBSET (Nat \ {0}) /\ mine \in SUBSET (Nat \ {0}) /\ MetaBlocks(m) \cap free = {}
<1>1. Blocks \in SUBSET (Nat \ {0})
  BY Constants DEF Blocks
<1>. QED
  BY <1>1 DEF IInv, Sound

LEMMA FailsHolds ==
  ASSUME IInv, Fails
  PROVE  Holds(m', free')
<1>1. {} \in SUBSET free /\ MetaBlocks(m) = MetaBlocks(m) \cup {} /\ free = free \ {}
  OBVIOUS
<1>2. m' = m /\ free' = free
  BY DEF Fails
<1>3. Kept(m)
  BY DEF IInv
<1>. QED
  BY <1>1, <1>2, <1>3 DEF Holds

LEMMA MergeTakes ==
  ASSUME IInv, fmt # "indirect", NEW l \in Nat, MayMerge(l),
         m' = Merge(m), free' = free \ {Wanted(m)}
  PROVE  Takes(m', free', l)
<1> DEFINE e == LastEntry(m)
           p == Wanted(m)
           y == Merge(m)
<1>1. m \in Mapping /\ Kept(m) /\ Tidy(m)
  BY DEF IInv, Kept, Shape
<1>2. Entries(m) # <<>> /\ l = e.l + e.n /\ p = e.p + e.n
  BY DEF MayMerge, Mergeable, Wanted
<1>3. p \in free
  <2>1. p \in Allocs({p}, free)
    BY DEF MayMerge
  <2> HIDE DEF p
  <2>2. free \in SUBSET Nat
    BY FreeNat
  <2>. QED  BY <2>1, <2>2, AllocsIn
<1>4. Kept(y) /\ PairsIn(y) = PairsIn(m) \cup {<<l, p>>} /\ MetaBlocks(y) = MetaBlocks(m)
  <2>1. CASE fmt = "tree"
    <3>1. /\ y = WithLeaves(m, y.leaves, m.lblk) /\ y.leaves \in Leaves /\ Tidy(y)
          /\ Rels(y.leaves) = Rels(m.leaves) \cup {<<e.l + e.n, e.p + e.n>>}
      BY <1>1, <1>2, <2>1, MergeTreeIs
    <3> DEFINE u == y.leaves
               v == m.lblk
    <3>2. u \in Leaves /\ v \in Seq(Nat \ {0}) /\ Tidy(WithLeaves(m, u, v))
      BY <1>1, <3>1 DEF Mapping
    <3> HIDE DEF u, v
    <3>3. /\ Kept(WithLeaves(m, u, v))
          /\ PairsIn(WithLeaves(m, u, v)) = Rels(u) /\ MetaBlocks(WithLeaves(m, u, v)) = Cells(v)
          /\ PairsIn(m) = Rels(m.leaves) /\ MetaBlocks(m) = Cells(m.lblk)
      BY <1>1, <2>1, <3>2, TreeKept
    <3>4. y = WithLeaves(m, u, v) /\ Rels(u) = Rels(m.leaves) \cup {<<l, p>>}
      BY <1>2, <3>1 DEF u, v
    <3>. QED  BY <3>3, <3>4 DEF v
  <2>2. CASE fmt # "tree"
    <3>1. /\ y = WithLists(m, y.inl, y.ovf, m.ovb)
          /\ y.inl \in Seq(Ext) /\ y.ovf \in Seq(Ext)
          /\ Rel(y.inl) \cup Rel(y.ovf)
               = Rel(m.inl) \cup Rel(m.ovf) \cup {<<e.l + e.n, e.p + e.n>>}
      BY <1>1, <1>2, <2>2, MergeListIs
    <3> DEFINE u == y.inl
               v == y.ovf
               b == m.ovb
    <3>2. u \in Seq(Ext) /\ v \in Seq(Ext) /\ b \in Nat
      BY <1>1, <3>1 DEF Mapping
    <3>3. y = WithLists(m, u, v, b) /\ Rel(u) \cup Rel(v) = Rel(m.inl) \cup Rel(m.ovf) \cup {<<l, p>>}
      BY <1>2, <3>1
    <3> HIDE DEF u, v, b
    <3>4. /\ Kept(WithLists(m, u, v, b))
          /\ PairsIn(WithLists(m, u, v, b)) = Rel(u) \cup Rel(v)
          /\ MetaBlocks(WithLists(m, u, v, b)) = {b} \ {0}
          /\ PairsIn(m) = Rel(m.inl) \cup Rel(m.ovf) /\ MetaBlocks(m) = {m.ovb} \ {0}
      BY <1>1, <2>2, <3>2, ListKept
    <3>. QED  BY <3>3, <3>4 DEF b
  <2>. QED  BY <2>1, <2>2
<1> HIDE DEF y, p
<1>5. {} \in SUBSET (free \ {p}) /\ MetaBlocks(y) = MetaBlocks(m) \cup {}
      /\ free \ {p} = free \ ({p} \cup {})
  BY <1>4
<1>6. m' = y /\ free' = free \ {p}
  BY DEF y, p
<1>. QED
  BY <1>3, <1>4, <1>5, <1>6 DEF Takes

LEMMA PlaceTakes ==
  ASSUME IInv, fmt # "indirect", NEW l \in Nat, NEW p \in free,
         NEW meta \in BOOLEAN, meta <=> IF fmt = "tree" THEN NeedsLeaf(m, l) ELSE NeedsOverflow(m),
         NEW b, IF meta THEN b \in free \ {p} ELSE b = 0,
         Place(l, p, b)
  PROVE  Takes(m', free', l)
<1> DEFINE B == IF meta THEN {b} ELSE {}
<1>1. m \in Mapping /\ Kept(m) /\ Tidy(m)
  BY DEF IInv, Kept, Shape
<1>2. free \in SUBSET (Nat \ {0}) /\ p \in Nat \ {0} /\ b \in Nat
  BY FreeNat
<1>3. B \in SUBSET (free \ {p}) /\ free' = free \ ({p} \cup B)
  BY <1>2 DEF Place
<1>4. Kept(m') /\ PairsIn(m') = PairsIn(m) \cup {<<l, p>>} /\ MetaBlocks(m') = MetaBlocks(m) \cup B
  <2>1. CASE fmt = "tree"
    <3> DEFINE y == AppendTree(m, l, p, b)
               u == y.leaves
               v == y.lblk
    <3>1. PairsIn(m) = Rels(m.leaves) /\ MetaBlocks(m) = Cells(m.lblk)
      <4> DEFINE s == m.leaves
                 t == m.lblk
      <4>1. s \in Leaves /\ t \in Seq(Nat \ {0})
        BY <1>1 DEF Mapping
      <4>2. Tidy(WithLeaves(m, s, t))
        <5>1. WithLeaves(m, s, t).leaves = s /\ WithLeaves(m, s, t).lblk = t
          BY <1>1, WithLeavesIs
        <5>. QED  BY <1>1, <5>1 DEF Tidy
      <4> HIDE DEF s, t
      <4>. QED  BY <1>1, <2>1, <4>1, <4>2, TreeKept
    <3>2. NeedsLeaf(m, l) => b # 0 /\ b \notin Cells(m.lblk)
      BY <1>2, <2>1, <3>1, FreeNat
    <3>3. /\ y = WithLeaves(m, u, v) /\ u \in Leaves /\ v \in Seq(Nat \ {0})
          /\ Tidy(y)
          /\ Rels(u) = Rels(m.leaves) \cup {<<l, p>>}
          /\ NeedsLeaf(m, l) => Cells(v) = Cells(m.lblk) \cup {b}
          /\ ~NeedsLeaf(m, l) => Cells(v) = Cells(m.lblk)
      <4>1. Appended(m, y, l, p, b)
        BY <1>1, <1>2, <3>2, AppendTreeIs
      <4> HIDE DEF y
      <4>. QED  BY <4>1 DEF Appended
    <3>4. m' = y
      BY <2>1 DEF Place
    <3> HIDE DEF y, u, v
    <3>5. Kept(WithLeaves(m, u, v)) /\ PairsIn(WithLeaves(m, u, v)) = Rels(u)
          /\ MetaBlocks(WithLeaves(m, u, v)) = Cells(v)
      BY <1>1, <2>1, <3>3, TreeKept
    <3>. QED  BY <2>1, <3>1, <3>3, <3>4, <3>5
  <2>2. CASE fmt # "tree"
    <3> DEFINE y == AppendList(m, l, p, b)
               u == y.inl
               v == y.ovf
               o == y.ovb
    <3>1. /\ y = WithLists(m, u, v, o)
          /\ u \in Seq(Ext) /\ v \in Seq(Ext) /\ o \in Nat
          /\ Rel(u) \cup Rel(v) = Rel(m.inl) \cup Rel(m.ovf) \cup {<<l, p>>}
          /\ o = IF Len(m.inl) < InlineMax THEN m.ovb ELSE IF m.ovb = 0 THEN b ELSE m.ovb
      BY <1>1, <1>2, AppendListIs
    <3>2. m' = y
      BY <2>2 DEF Place
    <3> HIDE DEF y, u, v, o
    <3>3. /\ Kept(WithLists(m, u, v, o))
          /\ PairsIn(WithLists(m, u, v, o)) = Rel(u) \cup Rel(v)
          /\ MetaBlocks(WithLists(m, u, v, o)) = {o} \ {0}
          /\ PairsIn(m) = Rel(m.inl) \cup Rel(m.ovf) /\ MetaBlocks(m) = {m.ovb} \ {0}
      <4>1. u \in Seq(Ext) /\ v \in Seq(Ext) /\ o \in Nat /\ fmt \notin {"tree", "indirect"}
        BY <2>2, <3>1
      <4>. QED  BY <1>1, <4>1, ListKept
    <3>4. {o} \ {0} = ({m.ovb} \ {0}) \cup B
      <4>1. Len(m.inl) \in Nat /\ InlineMax \in Nat
        <5>1. m.inl \in Seq(Ext)
          BY <1>1 DEF Mapping
        <5>. QED  BY <5>1, LenProperties, Constants DEF InlineMax
      <4>2. meta <=> Len(m.inl) >= InlineMax /\ m.ovb = 0
        BY <2>2 DEF NeedsOverflow
      <4>3. CASE meta
        <5>1. o = b /\ b # 0 /\ m.ovb = 0
          BY <1>2, <3>1, <4>1, <4>2, <4>3
        <5>. QED  BY <4>3, <5>1
      <4>4. CASE ~meta
        <5>1. o = m.ovb
          BY <3>1, <4>1, <4>2, <4>4
        <5>. QED  BY <4>4, <5>1
      <4>. QED  BY <4>3, <4>4
    <3>. QED  BY <3>1, <3>2, <3>3, <3>4
  <2>. QED  BY <2>1, <2>2
<1> HIDE DEF B
<1>. QED
  BY <1>3, <1>4 DEF Takes

LEMMA ResolveExtentTakes ==
  ASSUME IInv, fmt # "indirect", NEW l \in Nat, ResolveExtent(l)
  PROVE  Takes(m', free', l) \/ Holds(m', free')
<1> DEFINE meta == IF fmt = "tree" THEN NeedsLeaf(m, l) ELSE NeedsOverflow(m)
<1>1. CASE Fails
  BY <1>1, FailsHolds
<1>2. CASE MayMerge(l) /\ m' = Merge(m) /\ free' = free \ {Wanted(m)}
  BY <1>2, MergeTakes
<1>3. CASE \E p \in Allocs({}, free) :
             IF meta THEN \E b \in Allocs({}, free \ {p}) : Place(l, p, b) ELSE Place(l, p, 0)
  <2>1. free \in SUBSET Nat
    BY FreeNat
  <2>2. Allocs({}, free) \subseteq free
    BY <2>1, AllocsIn
  <2>3. PICK p \in free :
             IF meta THEN \E b \in Allocs({}, free \ {p}) : Place(l, p, b) ELSE Place(l, p, 0)
    BY <1>3, <2>2
  <2>4. Allocs({}, free \ {p}) \subseteq free \ {p}
    <3> DEFINE G == free \ {p}
    <3>1. G \in SUBSET Nat
      BY <2>1
    <3> HIDE DEF G
    <3>2. Allocs({}, G) \subseteq G
      BY <3>1, AllocsIn
    <3>. QED  BY <3>2 DEF G
  <2>5. meta \in BOOLEAN
    BY DEF NeedsLeaf, NeedsOverflow
  <2>6. PICK b : (IF meta THEN b \in free \ {p} ELSE b = 0) /\ Place(l, p, b)
    <3> HIDE DEF meta
    <3>. QED  BY <2>3, <2>4, <2>5
  <2>. QED  BY <2>5, <2>6, PlaceTakes
<1>4. Fails \/ (MayMerge(l) /\ m' = Merge(m) /\ free' = free \ {Wanted(m)})
      \/ \E p \in Allocs({}, free) :
             IF meta THEN \E b \in Allocs({}, free \ {p}) : Place(l, p, b) ELSE Place(l, p, 0)
  BY DEF ResolveExtent
<1>. QED
  BY <1>1, <1>2, <1>3, <1>4

LEMMA WithIndirectOnly ==
  ASSUME NEW x \in Mapping, NEW d, NEW n, NEW t
  PROVE  /\ [x EXCEPT !.direct = d] = WithIndirect(x, d, x.ind, x.ents)
         /\ [x EXCEPT !.ind = n] = WithIndirect(x, x.direct, n, x.ents)
         /\ [x EXCEPT !.ents = t] = WithIndirect(x, x.direct, x.ind, t)
BY DEF Mapping, WithIndirect

LEMMA WithEntries ==
  ASSUME NEW x \in Mapping, NEW n, NEW t
  PROVE  [x EXCEPT !.ind = n, !.ents = t] = WithIndirect(x, x.direct, n, t)
BY DEF Mapping, WithIndirect

LEMMA IndAddDirect ==
  ASSUME NEW x \in Mapping, NEW y, NEW l \in 0 .. Direct - 1, NEW p \in Nat \ {0},
         x.direct[l] = 0, y.direct = [x.direct EXCEPT ![l] = p], y.ents = x.ents
  PROVE  IndPairs(y) = IndPairs(x) \cup {<<l, p>>}
<1> DEFINE D(z) == {<<i, z.direct[i]>> : i \in {i \in 0 .. Direct - 1 : z.direct[i] # 0}}
           E(z) == {<<Direct + i, z.ents[i]>> : i \in {i \in 0 .. Indirect - 1 : z.ents[i] # 0}}
<1>1. x.direct \in [0 .. Direct - 1 -> Nat]
  BY DEF Mapping
<1>2. y.direct[l] = p /\ \A i \in 0 .. Direct - 1 : i # l => y.direct[i] = x.direct[i]
  BY <1>1
<1>3. D(y) = D(x) \cup {<<l, p>>}
  BY <1>2
<1>4. E(y) = E(x)
  OBVIOUS
<1>5. IndPairs(x) = D(x) \cup E(x) /\ IndPairs(y) = D(y) \cup E(y)
  BY DEF IndPairs
<1> HIDE DEF D, E
<1>. QED
  BY <1>3, <1>4, <1>5

LEMMA IndAddEntry ==
  ASSUME NEW x \in Mapping, NEW y, NEW j \in 0 .. Indirect - 1, NEW p \in Nat \ {0},
         x.ents[j] = 0, y.ents = [x.ents EXCEPT ![j] = p], y.direct = x.direct
  PROVE  IndPairs(y) = IndPairs(x) \cup {<<Direct + j, p>>}
<1> DEFINE D(z) == {<<i, z.direct[i]>> : i \in {i \in 0 .. Direct - 1 : z.direct[i] # 0}}
           E(z) == {<<Direct + i, z.ents[i]>> : i \in {i \in 0 .. Indirect - 1 : z.ents[i] # 0}}
<1>1. x.ents \in [0 .. Indirect - 1 -> Nat]
  BY DEF Mapping
<1>2. y.ents[j] = p /\ \A i \in 0 .. Indirect - 1 : i # j => y.ents[i] = x.ents[i]
  BY <1>1
<1>3. E(y) = E(x) \cup {<<Direct + j, p>>}
  BY <1>2
<1>4. D(y) = D(x)
  OBVIOUS
<1>5. IndPairs(x) = D(x) \cup E(x) /\ IndPairs(y) = D(y) \cup E(y)
  BY DEF IndPairs
<1> HIDE DEF D, E
<1>. QED
  BY <1>3, <1>4, <1>5

LEMMA IndSame ==
  ASSUME NEW x, NEW y, y.ents = x.ents, y.direct = x.direct
  PROVE  IndPairs(y) = IndPairs(x)
BY DEF IndPairs

LEMMA ResolveIndirectTakes ==
  ASSUME IInv, fmt = "indirect", NEW l \in Nat, l < Limit, Lookup(m, l) = 0, ResolveIndirect(l)
  PROVE  Takes(m', free', l) \/ Holds(m', free')
<1> DEFINE j == l - Direct
           d == m.direct
           n == m.ind
           t == m.ents
<1>1. m \in Mapping /\ Kept(m) /\ Shape(m)
  BY DEF IInv, Kept
<1>2. d \in [0 .. Direct - 1 -> Nat] /\ n \in Nat /\ t \in [0 .. Indirect - 1 -> Nat]
  BY <1>1 DEF Mapping
<1>3. Rooted(n, t)
  BY <1>1, <1>2 DEF Shape, Rooted
<1>4. free \in SUBSET (Nat \ {0})
  BY FreeNat
<1>5. Limit = Direct + Indirect
  BY DEF Limit
<1>6. l < Direct => l \in 0 .. Direct - 1 /\ d[l] = 0
  BY Constants DEF Lookup
<1>7. l >= Direct => j \in 0 .. Indirect - 1 /\ t[j] = 0 /\ Direct + j = l
  <2>1. SUFFICES ASSUME l >= Direct PROVE j \in 0 .. Indirect - 1 /\ t[j] = 0 /\ Direct + j = l
    OBVIOUS
  <2>2. j \in 0 .. Indirect - 1 /\ Direct + j = l /\ ~(l < Direct) /\ ~(l >= Direct + Indirect)
    BY <1>5, <2>1, Constants
  <2>3. Lookup(m, l) = IF n = 0 THEN 0 ELSE t[j]
    BY <2>2 DEF Lookup
  <2>. QED  BY <1>3, <2>2, <2>3 DEF Rooted
<1>8. PairsIn(m) = IndPairs(m) /\ MetaBlocks(m) = {n} \ {0}
  <2> HIDE DEF d, n, t
  <2>. QED  BY <1>1, <1>2, <1>3, IndirectKept DEF n
<1> HIDE DEF j, d, n, t
<1>9. CASE free = {} /\ Fails
  BY <1>9, FailsHolds
<1>10. CASE /\ l < Direct
            /\ \E p \in Allocs({}, free) : m' = [m EXCEPT !.direct[l] = p] /\ free' = free \ {p}
  <2>1. PICK p \in free : m' = [m EXCEPT !.direct[l] = p] /\ free' = free \ {p}
    BY <1>4, <1>10, AllocsIn
  <2> DEFINE u == [d EXCEPT ![l] = p]
             y == WithIndirect(m, u, n, t)
  <2>2. m' = y
    <3>1. m' = [m EXCEPT !.direct = u]
      BY <2>1 DEF d
    <3> HIDE DEF u
    <3>. QED  BY <1>1, <3>1, WithIndirectOnly DEF n, t
  <2>3. u \in [0 .. Direct - 1 -> Nat]
    BY <1>2, <1>4, <1>6, <1>10
  <2>4. u = [m.direct EXCEPT ![l] = p]
    BY DEF d
  <2> HIDE DEF u
  <2>5. /\ Kept(y) /\ PairsIn(y) = IndPairs(y) /\ y.direct = u /\ y.ents = t
        /\ MetaBlocks(y) = {n} \ {0}
    <3>1. Kept(y)
      BY <1>1, <1>2, <1>3, <2>3, IndirectKept
    <3>2. PairsIn(y) = IndPairs(y) /\ MetaBlocks(y) = {n} \ {0}
      BY <1>1, <1>2, <1>3, <2>3, IndirectKept
    <3>3. y.direct = u /\ y.ents = t
      BY <1>1, <1>2, <2>3, WithIndirectIs
    <3>. QED  BY <3>1, <3>2, <3>3
  <2> HIDE DEF y
  <2>6. IndPairs(y) = IndPairs(m) \cup {<<l, p>>}
    BY <1>1, <1>4, <1>6, <1>10, <2>4, <2>5, IndAddDirect DEF d, t
  <2>7. {} \in SUBSET (free \ {p}) /\ MetaBlocks(m) = MetaBlocks(m) \cup {}
        /\ free \ {p} = free \ ({p} \cup {})
    OBVIOUS
  <2>. QED  BY <1>8, <2>1, <2>2, <2>5, <2>6, <2>7 DEF Takes
<1>11. CASE /\ l >= Direct /\ n = 0
            /\ \E b \in free : m' = [m EXCEPT !.ind = b] /\ free' = {} /\ free = {b}
  <2>1. PICK b \in free : m' = [m EXCEPT !.ind = b] /\ free' = {} /\ free = {b}
    BY <1>11
  <2> DEFINE y == WithIndirect(m, d, b, t)
  <2>2. m' = y
    BY <1>1, <2>1, WithIndirectOnly DEF d, t
  <2>3. b \in Nat /\ b # 0
    BY <1>4
  <2>4. /\ Kept(y) /\ PairsIn(y) = IndPairs(y) /\ y.direct = d /\ y.ents = t
        /\ MetaBlocks(y) = {b} \ {0}
    BY <1>1, <1>2, <2>3, IndirectKept DEF Rooted
  <2> HIDE DEF y
  <2>5. IndPairs(y) = IndPairs(m)
    BY <2>4, IndSame DEF d, t
  <2>6. MetaBlocks(y) = MetaBlocks(m) \cup {b} /\ free' = free \ {b} /\ {b} \in SUBSET free
    BY <1>8, <1>11, <2>1, <2>3, <2>4
  <2>. QED  BY <1>8, <2>2, <2>4, <2>5, <2>6 DEF Holds
<1>12. CASE \E b \in free : \E p \in free \ {b} :
              /\ l >= Direct /\ n = 0
              /\ m' = [m EXCEPT !.ind = b, !.ents[j] = p] /\ free' = free \ {b, p}
  <2>1. PICK b \in free : \E p \in free \ {b} :
              /\ m' = [m EXCEPT !.ind = b, !.ents[j] = p] /\ free' = free \ {b, p}
    BY <1>12
  <2>2. PICK p \in free \ {b} :
              /\ m' = [m EXCEPT !.ind = b, !.ents[j] = p] /\ free' = free \ {b, p}
    BY <2>1
  <2> DEFINE u == [t EXCEPT ![j] = p]
             y == WithIndirect(m, d, b, u)
  <2>3. m' = y
    <3>1. m' = [m EXCEPT !.ind = b, !.ents = u]
      BY <2>2 DEF t
    <3> HIDE DEF u
    <3>. QED  BY <1>1, <3>1, WithEntries DEF d
  <2>4. u \in [0 .. Indirect - 1 -> Nat]
    BY <1>2, <1>4, <1>7, <1>12
  <2>5. u = [m.ents EXCEPT ![j] = p]
    BY DEF t
  <2> HIDE DEF u
  <2>6. b \in Nat /\ b # 0 /\ p \in Nat \ {0}
    BY <1>4
  <2>7. /\ Kept(y) /\ PairsIn(y) = IndPairs(y) /\ y.direct = d /\ y.ents = u
        /\ MetaBlocks(y) = {b} \ {0}
    BY <1>1, <1>2, <2>4, <2>6, IndirectKept DEF Rooted
  <2> HIDE DEF y
  <2>8. IndPairs(y) = IndPairs(m) \cup {<<l, p>>}
    <3>1. IndPairs(y) = IndPairs(m) \cup {<<Direct + j, p>>}
      BY <1>1, <1>7, <1>12, <2>5, <2>6, <2>7, IndAddEntry DEF d, t
    <3>. QED  BY <1>7, <1>12, <3>1
  <2>9. {b} \in SUBSET (free \ {p}) /\ MetaBlocks(y) = MetaBlocks(m) \cup {b}
        /\ free' = free \ ({p} \cup {b})
    BY <1>8, <1>12, <2>2, <2>6, <2>7
  <2>. QED  BY <1>8, <2>3, <2>7, <2>8, <2>9 DEF Takes
<1>13. CASE \E p \in free :
              /\ l >= Direct /\ n # 0
              /\ m' = [m EXCEPT !.ents[j] = p] /\ free' = free \ {p}
  <2>1. PICK p \in free : m' = [m EXCEPT !.ents[j] = p] /\ free' = free \ {p}
    BY <1>13
  <2> DEFINE u == [t EXCEPT ![j] = p]
             y == WithIndirect(m, d, n, u)
  <2>2. m' = y
    <3>1. m' = [m EXCEPT !.ents = u]
      BY <2>1 DEF t
    <3> HIDE DEF u
    <3>. QED  BY <1>1, <3>1, WithIndirectOnly DEF d, n
  <2>3. u \in [0 .. Indirect - 1 -> Nat]
    BY <1>2, <1>4, <1>7, <1>13
  <2>4. u = [m.ents EXCEPT ![j] = p]
    BY DEF t
  <2> HIDE DEF u
  <2>5. /\ Kept(y) /\ PairsIn(y) = IndPairs(y) /\ y.direct = d /\ y.ents = u
        /\ MetaBlocks(y) = {n} \ {0}
    BY <1>1, <1>2, <1>13, <2>3, IndirectKept DEF Rooted
  <2> HIDE DEF y
  <2>6. IndPairs(y) = IndPairs(m) \cup {<<l, p>>}
    <3>1. p \in Nat \ {0}
      BY <1>4
    <3>2. IndPairs(y) = IndPairs(m) \cup {<<Direct + j, p>>}
      BY <1>1, <1>7, <1>13, <2>4, <2>5, <3>1, IndAddEntry DEF d, t
    <3>. QED  BY <1>7, <1>13, <3>2
  <2>7. {} \in SUBSET (free \ {p}) /\ MetaBlocks(m) = MetaBlocks(m) \cup {}
        /\ free \ {p} = free \ ({p} \cup {})
    OBVIOUS
  <2>. QED  BY <1>8, <2>1, <2>2, <2>5, <2>6, <2>7 DEF Takes
<1>14. \/ free = {} /\ Fails
       \/ /\ l < Direct
          /\ \E p \in Allocs({}, free) : m' = [m EXCEPT !.direct[l] = p] /\ free' = free \ {p}
       \/ /\ l >= Direct /\ n = 0
          /\ \E b \in free : m' = [m EXCEPT !.ind = b] /\ free' = {} /\ free = {b}
       \/ \E b \in free : \E p \in free \ {b} :
              /\ l >= Direct /\ n = 0
              /\ m' = [m EXCEPT !.ind = b, !.ents[j] = p] /\ free' = free \ {b, p}
       \/ \E p \in free :
              /\ l >= Direct /\ n # 0
              /\ m' = [m EXCEPT !.ents[j] = p] /\ free' = free \ {p}
  <2>1. CASE free = {} /\ Fails
    BY <2>1
  <2>2. CASE /\ l < Direct
             /\ \E p \in Allocs({}, free) : m' = [m EXCEPT !.direct[l] = p] /\ free' = free \ {p}
    BY <2>2
  <2>3. CASE /\ l >= Direct /\ m.ind = 0 /\ Cardinality(free) = 1
             /\ \E b \in free : m' = [m EXCEPT !.ind = b] /\ free' = {}
    <3>1. PICK b \in free : m' = [m EXCEPT !.ind = b] /\ free' = {}
      BY <2>3
    <3>2. free = {b}
      <4>1. IsFiniteSet(free)
        <5>1. free \in SUBSET (1 .. NBlocks)
          BY DEF IInv, Sound, Blocks
        <5>2. IsFiniteSet(1 .. NBlocks)
          BY Constants, FS_Interval
        <5>. QED  BY <5>1, <5>2, FS_Subset
      <4>2. \E x : free = {x}
        BY <2>3, <4>1, FS_Singleton
      <4>. QED  BY <4>2
    <3>. QED  BY <2>3, <3>1, <3>2 DEF n
  <2>4. CASE /\ l >= Direct /\ m.ind = 0
             /\ \E b \in Allocs({}, free) : \E p \in Allocs({}, free \ {b}) :
                  /\ m' = [m EXCEPT !.ind = b, !.ents[l - Direct] = p]
                  /\ free' = free \ {b, p}
    <3>1. PICK b \in Allocs({}, free) : \E p \in Allocs({}, free \ {b}) :
                  /\ m' = [m EXCEPT !.ind = b, !.ents[l - Direct] = p]
                  /\ free' = free \ {b, p}
      BY <2>4
    <3>2. PICK p \in Allocs({}, free \ {b}) :
                  /\ m' = [m EXCEPT !.ind = b, !.ents[l - Direct] = p]
                  /\ free' = free \ {b, p}
      BY <3>1
    <3>3. b \in free
      BY <1>4, AllocsIn
    <3>4. p \in free \ {b}
      <4> DEFINE G == free \ {b}
      <4>1. G \in SUBSET Nat /\ p \in Allocs({}, G)
        BY <1>4
      <4> HIDE DEF G
      <4>2. p \in G
        BY <4>1, AllocsIn
      <4>. QED  BY <4>2 DEF G
    <3>. QED  BY <2>4, <3>2, <3>3, <3>4 DEF n, j
  <2>5. CASE /\ l >= Direct /\ m.ind # 0
             /\ \E p \in Allocs({}, free) :
                  m' = [m EXCEPT !.ents[l - Direct] = p] /\ free' = free \ {p}
    <3>1. PICK p \in Allocs({}, free) :
                  m' = [m EXCEPT !.ents[l - Direct] = p] /\ free' = free \ {p}
      BY <2>5
    <3>2. p \in free
      BY <1>4, AllocsIn
    <3>. QED  BY <2>5, <3>1, <3>2 DEF n, j
  <2>. QED  BY <2>1, <2>2, <2>3, <2>4, <2>5 DEF ResolveIndirect
<1>. QED
  BY <1>9, <1>10, <1>11, <1>12, <1>13, <1>14

(* Truncate and punch: the leaves that are left, the lists that are left.     *)
LEMMA TreePart ==
  ASSUME IInv, fmt = "tree", NEW ls, NEW K \in SUBSET Nat, Parts(m.leaves, ls, K),
         m' = DropLeaves(m, ls),
         free' = free \cup Drops(PairsIn(m), K) \cup LeafBlocks(m, ls)
  PROVE  Spares(m', free', K)
<1> DEFINE y == DropLeaves(m, ls)
           B == LeafBlocks(m, ls)
<1>1. m \in Mapping /\ Kept(m) /\ Tidy(m)
  BY DEF IInv, Kept, Shape
<1>2. ls \in Leaves /\ Len(m.lblk) = Len(ls) /\ Distinct(m.lblk)
  BY <1>1 DEF Parts, Tidy
<1>3. /\ y = WithLeaves(m, y.leaves, y.lblk)
      /\ y.leaves \in Leaves /\ y.lblk \in Seq(Nat \ {0})
      /\ Len(y.lblk) = Len(y.leaves) /\ Distinct(y.lblk) /\ Filled(y.leaves)
      /\ Rels(y.leaves) = Rels(ls)
      /\ Cells(y.lblk) = Cells(m.lblk) \ B
  BY <1>1, <1>2, DropLeavesIs
<1> HIDE DEF y
<1>4. Tidy(y)
  BY <1>3 DEF Tidy
<1> DEFINE u == y.leaves
           v == y.lblk
<1>5. u \in Leaves /\ v \in Seq(Nat \ {0}) /\ Tidy(WithLeaves(m, u, v)) /\ y = WithLeaves(m, u, v)
  BY <1>3, <1>4
<1>6. Rels(u) = Rels(ls) /\ Cells(v) = Cells(m.lblk) \ B
  BY <1>3
<1> HIDE DEF u, v, B
<1>7. /\ Kept(WithLeaves(m, u, v))
      /\ PairsIn(WithLeaves(m, u, v)) = Rels(u) /\ MetaBlocks(WithLeaves(m, u, v)) = Cells(v)
      /\ PairsIn(m) = Rels(m.leaves) /\ MetaBlocks(m) = Cells(m.lblk)
  BY <1>1, <1>5, TreeKept
<1>8. Rels(ls) = Keeps(Rels(m.leaves), K)
  BY PartsRels
<1>9. B \in SUBSET MetaBlocks(m)
  <2>1. Emptied(ls) \in SUBSET (1 .. Len(m.lblk))
    BY <1>2 DEF Emptied
  <2>. QED  BY <1>7, <2>1 DEF B, LeafBlocks, Cells
<1>10. m' = y /\ free' = free \cup Drops(PairsIn(m), K) \cup B
  BY DEF y, B
<1>. QED
  BY <1>5, <1>6, <1>7, <1>8, <1>9, <1>10 DEF Spares

LEMMA FreeTreeSpares ==
  ASSUME IInv, fmt = "tree", NEW keep \in Nat, FreeTree(keep)
  PROVE  Spares(m', free', Below(keep))
<1> DEFINE ss == m.leaves
           ls == [i \in 1 .. Len(ss) |-> CutAll(ss[i], keep)]
           K == Below(keep)
<1>1. m \in Mapping /\ ss \in Leaves
  BY DEF IInv, Kept, Mapping
<1>2. Len(ss) \in Nat /\ \A i \in 1 .. Len(ss) : ss[i] \in Seq(Ext)
  <2> HIDE DEF ss
  <2>. QED  BY <1>1, LenProperties, ElementOfSeq DEF Leaves
<1>3. Parts(ss, ls, K)
  <2>1. \A i \in 1 .. Len(ss) : CutAll(ss[i], keep) \in Seq(Ext)
                                /\ Rel(CutAll(ss[i], keep)) = Keeps(Rel(ss[i]), K)
    BY <1>2, CutAllRel
  <2> HIDE DEF ss, K
  <2>. QED  BY <1>2, <2>1 DEF Parts, Leaves
<1>4. K \in SUBSET Nat
  BY DEF Below
<1>5. AllCutOff(m, keep) = Drops(PairsIn(m), K)
  <2> DEFINE es == Entries(m)
  <2>1. es \in Seq(Ext) /\ Rel(es) = Rels(Lists(m))
    BY <1>1, ListsIn
  <2>2. AllCutOff(m, keep) = UNION {CutOff(es[i], keep) : i \in 1 .. Len(es)}
    BY DEF AllCutOff
  <2>3. PairsIn(m) = Rels(Lists(m))
    BY DEF PairsIn
  <2> HIDE DEF es
  <2>4. UNION {CutOff(es[i], keep) : i \in 1 .. Len(es)} = Drops(Rel(es), K)
    BY <2>1, CutOffRel
  <2>. QED  BY <2>1, <2>2, <2>3, <2>4
<1>6. m' = DropLeaves(m, ls) /\ free' = free \cup AllCutOff(m, keep) \cup LeafBlocks(m, ls)
  BY DEF FreeTree
<1> HIDE DEF ls, K
<1>. QED
  BY <1>3, <1>4, <1>5, <1>6, TreePart DEF K

LEMMA PunchTreeSpares ==
  ASSUME IInv, fmt = "tree", NEW a \in Nat, NEW b \in Nat, a < b, PunchTree(a, b)
  PROVE  Spares(m', free', Outside(a, b))
<1> DEFINE ss == m.leaves
           ls == [i \in 1 .. Len(ss) |-> HoleAll(ss[i], a, b)]
           K == Outside(a, b)
           es == Entries(m)
           freed == UNION {Punched(es[i], a, b) : i \in 1 .. Len(es)}
<1>1. m \in Mapping /\ ss \in Leaves
  BY DEF IInv, Kept, Mapping
<1>2. Len(ss) \in Nat /\ \A i \in 1 .. Len(ss) : ss[i] \in Seq(Ext)
  <2> HIDE DEF ss
  <2>. QED  BY <1>1, LenProperties, ElementOfSeq DEF Leaves
<1>3. Parts(ss, ls, K)
  <2>1. \A i \in 1 .. Len(ss) : HoleAll(ss[i], a, b) \in Seq(Ext)
                                /\ Rel(HoleAll(ss[i], a, b)) = Keeps(Rel(ss[i]), K)
    BY <1>2, HoleAllRel
  <2> HIDE DEF ss, K
  <2>. QED  BY <1>2, <2>1 DEF Parts, Leaves
<1>4. K \in SUBSET Nat
  BY DEF Outside
<1>5. freed = Drops(PairsIn(m), K)
  <2>1. es \in Seq(Ext) /\ Rel(es) = Rels(Lists(m))
    BY <1>1, ListsIn
  <2>2. PairsIn(m) = Rels(Lists(m))
    BY DEF PairsIn
  <2> HIDE DEF es
  <2>3. freed = Drops(Rel(es), K)
    BY <2>1, PunchedRel
  <2>. QED  BY <2>1, <2>2, <2>3
<1>6. m' = DropLeaves(m, ls) /\ free' = free \cup LeafBlocks(m, ls) \cup freed
  BY DEF PunchTree
<1> HIDE DEF ls, K, freed
<1>7. free' = free \cup freed \cup LeafBlocks(m, ls)
  BY <1>6
<1>. QED
  BY <1>3, <1>4, <1>5, <1>6, <1>7, TreePart DEF K

LEMMA FreeListSpares ==
  ASSUME IInv, fmt \notin {"tree", "indirect"}, NEW keep \in Nat, FreeList(keep)
  PROVE  Spares(m', free', Below(keep))
<1> DEFINE os == Entries(m)
           es == CutAll(os, keep)
           n == IF Len(es) < Len(m.inl) THEN Len(es) ELSE Len(m.inl)
           u == SubSeq(es, 1, n)
           v == SubSeq(es, n + 1, Len(es))
           o == IF Len(es) = n THEN 0 ELSE m.ovb
           B == IF Len(es) = n THEN {m.ovb} \ {0} ELSE {}
           K == Below(keep)
<1>1. m \in Mapping /\ Kept(m) /\ m.inl \in Seq(Ext) /\ m.ovb \in Nat
  BY DEF IInv, Kept, Mapping
<1>2. os \in Seq(Ext) /\ Rel(os) = PairsIn(m)
  BY <1>1, ListsIn DEF PairsIn
<1>3. AllCutOff(m, keep) = Drops(PairsIn(m), K)
  <2>1. AllCutOff(m, keep) = UNION {CutOff(os[i], keep) : i \in 1 .. Len(os)}
    BY DEF AllCutOff
  <2> HIDE DEF os
  <2>2. UNION {CutOff(os[i], keep) : i \in 1 .. Len(os)} = Drops(Rel(os), K)
    BY <1>2, CutOffRel
  <2>. QED  BY <1>2, <2>1, <2>2
<1>4. es \in Seq(Ext) /\ Rel(es) = Keeps(PairsIn(m), K)
  <2> HIDE DEF os
  <2>. QED  BY <1>2, CutAllRel
<1>5. m' = [m EXCEPT !.inl = u, !.ovf = v, !.ovb = o]
  BY DEF FreeList
<1>6. free' = free \cup AllCutOff(m, keep) \cup B
  BY DEF FreeList
<1> HIDE DEF os, es
<1>7. n \in 0 .. Len(es)
  BY <1>1, <1>4, LenProperties
<1> HIDE DEF n
<1>8. u \in Seq(Ext) /\ v \in Seq(Ext) /\ Rel(u) \cup Rel(v) = Rel(es)
  BY <1>4, <1>7, RelSplit
<1>9. o \in Nat /\ {o} \ {0} = ({m.ovb} \ {0}) \ B /\ B \in SUBSET ({m.ovb} \ {0})
  BY <1>1
<1>10. m' = WithLists(m, u, v, o)
  BY <1>5 DEF WithLists
<1> HIDE DEF u, v, o, B, K
<1>11. /\ Kept(WithLists(m, u, v, o))
       /\ PairsIn(WithLists(m, u, v, o)) = Rel(u) \cup Rel(v)
       /\ MetaBlocks(WithLists(m, u, v, o)) = {o} \ {0}
       /\ MetaBlocks(m) = {m.ovb} \ {0}
  <2>1. o \in Nat
    BY <1>9
  <2>. QED  BY <1>1, <1>8, <2>1, ListKept
<1>12. K \in SUBSET Nat
  BY DEF Below, K
<1>. QED
  BY <1>3, <1>4, <1>6, <1>8, <1>9, <1>10, <1>11, <1>12 DEF Spares, K

LEMMA FreeIndirectSpares ==
  ASSUME IInv, fmt = "indirect", NEW keep \in Nat, FreeIndirect(keep)
  PROVE  Spares(m', free', Below(keep))
<1> DEFINE d == m.direct
           n == m.ind
           t == m.ents
           K == Below(keep)
           u == [i \in DOMAIN d |-> IF i >= keep THEN 0 ELSE d[i]]
           w == [i \in DOMAIN t |-> IF Direct + i >= keep THEN 0 ELSE t[i]]
           empty == \A i \in DOMAIN w : w[i] = 0
           o == IF empty THEN 0 ELSE n
           gone == {d[i] : i \in {i \in DOMAIN d : i >= keep}}
                     \cup {t[i] : i \in {i \in DOMAIN w : Direct + i >= keep}}
           B == IF empty THEN {n} \ {0} ELSE {}
           y == WithIndirect(m, u, o, w)
<1>1. m \in Mapping /\ Kept(m) /\ Shape(m)
  BY DEF IInv, Kept
<1>2. d \in [0 .. Direct - 1 -> Nat] /\ n \in Nat /\ t \in [0 .. Indirect - 1 -> Nat]
  BY <1>1 DEF Mapping
<1>3. Rooted(n, t)
  BY <1>1, <1>2 DEF Shape, Rooted
<1>4. m' = y
  BY DEF FreeIndirect, WithIndirect
<1>5. free' = free \cup ((gone \cup (IF empty THEN {n} ELSE {})) \ {0})
  BY DEF FreeIndirect
<1> HIDE DEF d, n, t
<1>6. /\ u \in [0 .. Direct - 1 -> Nat] /\ w \in [0 .. Indirect - 1 -> Nat]
      /\ \A i \in 0 .. Direct - 1 : u[i] = IF i >= keep THEN 0 ELSE d[i]
      /\ \A i \in 0 .. Indirect - 1 : w[i] = IF Direct + i >= keep THEN 0 ELSE t[i]
  BY <1>2
<1>7. gone = {d[i] : i \in {i \in 0 .. Direct - 1 : i >= keep}}
               \cup {t[i] : i \in {i \in 0 .. Indirect - 1 : Direct + i >= keep}}
  BY <1>2
<1> HIDE DEF u, w, gone
<1>8. empty <=> \A i \in 0 .. Indirect - 1 : w[i] = 0
  BY <1>6
<1> HIDE DEF empty
<1>9. Rooted(o, w)
  BY <1>3, <1>6, <1>8 DEF Rooted
<1>10. o \in Nat
  BY <1>2
<1>11. /\ Kept(y) /\ PairsIn(y) = IndPairs(y) /\ MetaBlocks(y) = {o} \ {0}
       /\ PairsIn(m) = IndPairs(m) /\ MetaBlocks(m) = {n} \ {0}
  <2> HIDE DEF o
  <2>1. Kept(y)
    BY <1>1, <1>6, <1>9, <1>10, IndirectKept
  <2>2. PairsIn(y) = IndPairs(y) /\ MetaBlocks(y) = {o} \ {0}
    BY <1>1, <1>6, <1>9, <1>10, IndirectKept
  <2>3. PairsIn(m) = IndPairs(m) /\ MetaBlocks(m) = {n} \ {0}
    BY <1>1, <1>6, <1>9, <1>10, IndirectKept DEF n
  <2>. QED  BY <2>1, <2>2, <2>3
<1>12. y.direct = u /\ y.ents = w
  BY <1>1, WithIndirectIs
<1>13. MetaBlocks(y) = MetaBlocks(m) \ B /\ B \in SUBSET MetaBlocks(m)
  BY <1>11
<1> HIDE DEF y, o
<1>14. \A z : z \in IndPairs(m) <=>
             \/ \E i \in 0 .. Direct - 1 : d[i] # 0 /\ z = <<i, d[i]>>
             \/ \E i \in 0 .. Indirect - 1 : t[i] # 0 /\ z = <<Direct + i, t[i]>>
  BY DEF IndPairs, d, t
<1>15. \A z : z \in IndPairs(y) <=>
             \/ \E i \in 0 .. Direct - 1 : u[i] # 0 /\ z = <<i, u[i]>>
             \/ \E i \in 0 .. Indirect - 1 : w[i] # 0 /\ z = <<Direct + i, w[i]>>
  BY <1>12 DEF IndPairs
<1>16. IndPairs(y) = Keeps(IndPairs(m), K)
  <2>1. ASSUME NEW z \in IndPairs(y) PROVE z \in IndPairs(m) /\ z[1] \in K
    <3>1. CASE \E i \in 0 .. Direct - 1 : u[i] # 0 /\ z = <<i, u[i]>>
      <4>1. PICK i \in 0 .. Direct - 1 : u[i] # 0 /\ z = <<i, u[i]>>
        BY <3>1
      <4>2. ~(i >= keep) /\ u[i] = d[i] /\ i \in Nat
        BY <1>6, <4>1, Constants
      <4>3. i \in K
        BY <4>2 DEF Below
      <4>. QED  BY <1>14, <4>1, <4>2, <4>3
    <3>2. CASE \E i \in 0 .. Indirect - 1 : w[i] # 0 /\ z = <<Direct + i, w[i]>>
      <4>1. PICK i \in 0 .. Indirect - 1 : w[i] # 0 /\ z = <<Direct + i, w[i]>>
        BY <3>2
      <4>2. ~(Direct + i >= keep) /\ w[i] = t[i] /\ Direct + i \in Nat
        BY <1>6, <4>1, Constants
      <4>3. Direct + i \in K
        BY <4>2 DEF Below
      <4>. QED  BY <1>14, <4>1, <4>2, <4>3
    <3>. QED  BY <1>15, <3>1, <3>2
  <2>2. ASSUME NEW z \in IndPairs(m), z[1] \in K PROVE z \in IndPairs(y)
    <3>1. CASE \E i \in 0 .. Direct - 1 : d[i] # 0 /\ z = <<i, d[i]>>
      <4>1. PICK i \in 0 .. Direct - 1 : d[i] # 0 /\ z = <<i, d[i]>>
        BY <3>1
      <4>2. i < keep
        BY <2>2, <4>1 DEF Below
      <4>3. u[i] = d[i]
        BY <1>6, <4>2, Constants
      <4>. QED  BY <1>15, <4>1, <4>3
    <3>2. CASE \E i \in 0 .. Indirect - 1 : t[i] # 0 /\ z = <<Direct + i, t[i]>>
      <4>1. PICK i \in 0 .. Indirect - 1 : t[i] # 0 /\ z = <<Direct + i, t[i]>>
        BY <3>2
      <4>2. Direct + i < keep
        BY <2>2, <4>1 DEF Below
      <4>3. w[i] = t[i]
        BY <1>6, <4>2, Constants
      <4>. QED  BY <1>15, <4>1, <4>3
    <3>. QED  BY <1>14, <3>1, <3>2
  <2>. QED  BY <2>1, <2>2 DEF Keeps
<1>17. gone \ {0} = Drops(IndPairs(m), K)
  <2>1. ASSUME NEW b \in gone, b # 0 PROVE b \in Drops(IndPairs(m), K)
    <3>1. CASE \E i \in 0 .. Direct - 1 : i >= keep /\ b = d[i]
      <4>1. PICK i \in 0 .. Direct - 1 : i >= keep /\ b = d[i]
        BY <3>1
      <4> DEFINE z == <<i, d[i]>>
      <4>2. z \in IndPairs(m)
        BY <1>14, <2>1, <4>1
      <4>3. z[1] \notin K /\ z[2] = b
        BY <4>1, Constants DEF Below
      <4>. QED  BY <4>2, <4>3 DEF Drops
    <3>2. CASE \E i \in 0 .. Indirect - 1 : Direct + i >= keep /\ b = t[i]
      <4>1. PICK i \in 0 .. Indirect - 1 : Direct + i >= keep /\ b = t[i]
        BY <3>2
      <4> DEFINE z == <<Direct + i, t[i]>>
      <4>2. z \in IndPairs(m)
        BY <1>14, <2>1, <4>1
      <4>3. z[1] \notin K /\ z[2] = b
        BY <4>1, Constants DEF Below
      <4>. QED  BY <4>2, <4>3 DEF Drops
    <3>. QED  BY <1>7, <3>1, <3>2
  <2>2. ASSUME NEW b \in Drops(IndPairs(m), K) PROVE b \in gone /\ b # 0
    <3>1. PICK z \in IndPairs(m) : z[1] \notin K /\ z[2] = b
      BY DEF Drops
    <3>2. CASE \E i \in 0 .. Direct - 1 : d[i] # 0 /\ z = <<i, d[i]>>
      <4>1. PICK i \in 0 .. Direct - 1 : d[i] # 0 /\ z = <<i, d[i]>>
        BY <3>2
      <4>2. i >= keep /\ b = d[i]
        BY <3>1, <4>1, Constants DEF Below
      <4>. QED  BY <1>7, <4>1, <4>2
    <3>3. CASE \E i \in 0 .. Indirect - 1 : t[i] # 0 /\ z = <<Direct + i, t[i]>>
      <4>1. PICK i \in 0 .. Indirect - 1 : t[i] # 0 /\ z = <<Direct + i, t[i]>>
        BY <3>3
      <4>2. Direct + i >= keep /\ b = t[i]
        BY <3>1, <4>1, Constants DEF Below
      <4>. QED  BY <1>7, <4>1, <4>2
    <3>. QED  BY <1>14, <3>2, <3>3
  <2>. QED  BY <2>1, <2>2
<1>18. free' = free \cup Drops(PairsIn(m), K) \cup B
  BY <1>5, <1>11, <1>17
<1>19. K \in SUBSET Nat
  BY DEF Below
<1> HIDE DEF K, B
<1>. QED
  BY <1>4, <1>11, <1>13, <1>16, <1>18, <1>19 DEF Spares, K
-----------------------------------------------------------------------------
(* The number of blocks of a list, a recursive function as FlattenSeq is.     *)
Totals(es, n, f) == f = [i \in 0 .. n |-> IF i = 0 THEN 0 ELSE f[i - 1] + es[i].n]

LEMMA TotalsExist ==
  ASSUME NEW es, NEW n \in Nat
  PROVE  \E f : Totals(es, n, f)
<1> DEFINE Bad == {k \in 0 .. n : ~ \E f : Totals(es, k, f)}
<1>1. SUFFICES ASSUME Bad # {} PROVE FALSE
  <2>1. n \in 0 .. n
    OBVIOUS
  <2>. QED  BY <2>1, Zenon
<1>2. PICK k \in Bad : \A j \in Bad : k <= j
  <2>1. Bad \in SUBSET Nat
    OBVIOUS
  <2> HIDE DEF Bad
  <2>. QED  BY <1>1, <2>1, Minimum
<1>3. k # 0
  <2> DEFINE g == [i \in 0 .. 0 |-> 0]
  <2>1. g = [i \in 0 .. 0 |-> IF i = 0 THEN 0 ELSE g[i - 1] + es[i].n]
    OBVIOUS
  <2> HIDE DEF g
  <2>2. Totals(es, 0, g)
    BY <2>1 DEF Totals
  <2>. QED  BY <1>2, <2>2
<1>4. k \in 1 .. n /\ k - 1 \in 0 .. n /\ k - 1 \notin Bad
  <2>1. k \in 0 .. n
    BY <1>2
  <2> HIDE DEF Bad
  <2>. QED  BY <1>2, <1>3, <2>1
<1>5. PICK g : Totals(es, k - 1, g)
  BY <1>4
<1> DEFINE h == [i \in 0 .. k |-> IF i = k THEN g[k - 1] + es[k].n ELSE g[i]]
<1>6. ASSUME NEW i \in 0 .. k
      PROVE  h[i] = IF i = 0 THEN 0 ELSE h[i - 1] + es[i].n
  <2>1. CASE i = k
    <3>1. i # 0 /\ i - 1 \in 0 .. k /\ i - 1 # k
      BY <1>4, <2>1
    <3>. QED  BY <2>1, <3>1
  <2>2. CASE i # k
    <3>1. i \in 0 .. k - 1 /\ (i # 0 => i - 1 \in 0 .. k /\ i - 1 # k)
      BY <1>4, <2>2
    <3>2. g[i] = IF i = 0 THEN 0 ELSE g[i - 1] + es[i].n
      BY <1>5, <3>1 DEF Totals
    <3>. QED  BY <2>2, <3>1, <3>2
  <2>. QED  BY <2>1, <2>2
<1>7. Totals(es, k, h)
  <2>1. h = [i \in 0 .. k |-> h[i]]
    OBVIOUS
  <2> HIDE DEF h
  <2>. QED  BY <1>6, <2>1 DEF Totals
<1>. QED
  BY <1>2, <1>7

LEMMA TotalIs ==
  ASSUME NEW es \in Seq(Ext)
  PROVE  \E f : Totals(es, Len(es), f) /\ TotalLen(es) = f[Len(es)]
<1> DEFINE n == Len(es)
           G(f) == [i \in 0 .. n |-> IF i = 0 THEN 0 ELSE f[i - 1] + es[i].n]
           F == CHOOSE f : f = G(f)
<1>1. n \in Nat
  BY LenProperties
<1>2. TotalLen(es) = F[n]
  BY DEF TotalLen
<1>3. F = G(F)
  <2>1. PICK g : g = G(g)
    <3> HIDE DEF n
    <3>. QED  BY <1>1, TotalsExist DEF Totals
  <2> HIDE DEF G
  <2>. QED  BY <2>1
<1>4. Totals(es, n, F)
  <2> HIDE DEF F
  <2>. QED  BY <1>3 DEF Totals
<1>. QED
  BY <1>2, <1>4

LEMMA TotalGrows ==
  ASSUME NEW a \in Seq(Ext), NEW b \in Seq(Ext)
  PROVE  /\ TotalLen(a) \in Nat /\ TotalLen(a \o b) \in Nat
         /\ b # <<>> => TotalLen(a) < TotalLen(a \o b)
<1> DEFINE c == a \o b
           j == Len(a)
           k == Len(b)
<1>1. j \in Nat /\ k \in Nat /\ c \in Seq(Ext) /\ Len(c) = j + k
      /\ \A i \in 1 .. j + k : c[i] = IF i <= j THEN a[i] ELSE b[i - j]
  BY LenProperties, ConcatProperties
<1>2. \A i \in 1 .. j : a[i].n \in Nat
  <2>1. SUFFICES ASSUME NEW i \in 1 .. j PROVE a[i].n \in Nat
    OBVIOUS
  <2>2. a[i] \in Ext
    BY ElementOfSeq
  <2>. QED  BY <2>2 DEF Ext
<1>3. \A i \in 1 .. k : b[i].n \in Nat \ {0}
  <2>1. SUFFICES ASSUME NEW i \in 1 .. k PROVE b[i].n \in Nat \ {0}
    OBVIOUS
  <2>2. b[i] \in Ext
    BY ElementOfSeq
  <2>. QED  BY <2>2 DEF Ext
<1>4. PICK f : Totals(a, j, f) /\ TotalLen(a) = f[j]
  BY TotalIs
<1>5. PICK h : Totals(c, j + k, h) /\ TotalLen(c) = h[j + k]
  <2>1. \E h : Totals(c, Len(c), h) /\ TotalLen(c) = h[Len(c)]
    <3> HIDE DEF c
    <3>. QED  BY <1>1, TotalIs
  <2>. QED  BY <1>1, <2>1
<1>6. b # <<>> => k # 0
  BY EmptySeq
<1> HIDE DEF c, j, k
<1>7. \A i \in 0 .. j : f[i] = IF i = 0 THEN 0 ELSE f[i - 1] + a[i].n
  BY <1>4 DEF Totals
<1>8. \A i \in 0 .. j + k : h[i] = IF i = 0 THEN 0 ELSE h[i - 1] + c[i].n
  BY <1>5 DEF Totals
<1>9. \A i \in 0 .. j : f[i] \in Nat /\ h[i] = f[i]
  <2> DEFINE Bad == {i \in 0 .. j : ~(f[i] \in Nat /\ h[i] = f[i])}
  <2>1. SUFFICES ASSUME Bad # {} PROVE FALSE
    OBVIOUS
  <2>2. PICK i \in Bad : \A x \in Bad : i <= x
    <3>1. Bad \in SUBSET Nat
      OBVIOUS
    <3> HIDE DEF Bad
    <3>. QED  BY <2>1, <3>1, Minimum
  <2>3. i \in 0 .. j /\ ~(f[i] \in Nat /\ h[i] = f[i])
    BY <2>2
  <2>4. i \in 0 .. j + k
    BY <1>1, <2>3
  <2>5. i # 0
    BY <1>7, <1>8, <2>3, <2>4
  <2>6. i - 1 \in 0 .. j /\ ~(i <= i - 1) /\ i \in 1 .. j /\ i \in 1 .. j + k /\ i <= j
    BY <1>1, <2>3, <2>5
  <2>7. f[i - 1] \in Nat /\ h[i - 1] = f[i - 1]
    BY <2>2, <2>6
  <2>8. f[i] = f[i - 1] + a[i].n /\ h[i] = h[i - 1] + a[i].n
    BY <1>1, <1>7, <1>8, <2>3, <2>4, <2>5, <2>6
  <2>9. f[i] \in Nat /\ h[i] = f[i]
    BY <1>2, <2>6, <2>7, <2>8
  <2>. QED  BY <2>3, <2>9
<1>10. j \in 0 .. j /\ h[j] \in Nat
  <2>1. j \in 0 .. j
    BY <1>1
  <2>. QED  BY <1>9, <2>1
<1>11. \A i \in 0 .. k : h[j + i] \in Nat /\ h[j] + i <= h[j + i]
  <2> DEFINE Bad == {i \in 0 .. k : ~(h[j + i] \in Nat /\ h[j] + i <= h[j + i])}
  <2>1. SUFFICES ASSUME Bad # {} PROVE FALSE
    OBVIOUS
  <2>2. PICK i \in Bad : \A x \in Bad : i <= x
    <3>1. Bad \in SUBSET Nat
      OBVIOUS
    <3> HIDE DEF Bad
    <3>. QED  BY <2>1, <3>1, Minimum
  <2>3. i \in 0 .. k /\ ~(h[j + i] \in Nat /\ h[j] + i <= h[j + i])
    BY <2>2
  <2>4. i # 0
    <3>1. SUFFICES ASSUME i = 0 PROVE FALSE
      OBVIOUS
    <3>2. j + i = j
      BY <1>1, <3>1
    <3>. QED  BY <1>10, <2>3, <3>1, <3>2
  <2> DEFINE q == j + i
  <2>5. /\ i - 1 \in 0 .. k /\ ~(i <= i - 1) /\ i \in 1 .. k
        /\ q \in 1 .. j + k /\ q # 0 /\ ~(q <= j) /\ q - j = i /\ q - 1 = j + (i - 1)
        /\ q \in 0 .. j + k
    BY <1>1, <2>3, <2>4
  <2>6. h[j + (i - 1)] \in Nat /\ h[j] + (i - 1) <= h[j + (i - 1)]
    BY <2>2, <2>5
  <2> HIDE DEF q
  <2>7. h[q] = h[q - 1] + b[i].n
    BY <1>1, <1>8, <2>5
  <2> DEFINE r == h[q - 1]
             v == b[i].n
  <2>8. r \in Nat /\ h[j] + (i - 1) <= r /\ v \in Nat \ {0} /\ h[q] = r + v
    BY <1>3, <2>5, <2>6, <2>7
  <2> HIDE DEF r, v
  <2>9. h[q] \in Nat /\ h[j] + i <= h[q]
    BY <1>10, <2>3, <2>8
  <2>. QED  BY <2>3, <2>9 DEF q
<1>12. k \in 0 .. k
  BY <1>1
<1>13. h[j + k] \in Nat /\ h[j] + k <= h[j + k]
  BY <1>11, <1>12
<1>14. TotalLen(a) = h[j] /\ TotalLen(c) = h[j + k]
  BY <1>4, <1>5, <1>9, <1>10
<1>15. k # 0 => h[j] < h[j + k]
  BY <1>1, <1>10, <1>13
<1>. QED
  BY <1>6, <1>10, <1>13, <1>14, <1>15 DEF c
-----------------------------------------------------------------------------
(* What is loaded is what was in memory, if the inode is accepted.            *)
LEMMA MappingIs ==
  ASSUME NEW x \in Mapping
  PROVE  x = [inl |-> x.inl, ovf |-> x.ovf, ovb |-> x.ovb, leaves |-> x.leaves, lblk |-> x.lblk,
              direct |-> x.direct, ind |-> x.ind, ents |-> x.ents]
BY DEF Mapping

LEMMA LoadIs ==
  ASSUME NEW d
  PROVE  Load(d) = [inl |-> d.inl, ovf |-> d.ovf, ovb |-> d.ovb, leaves |-> d.leaves,
                    lblk |-> [i \in 1 .. Len(d.refs) |-> d.refs[i].blk],
                    direct |-> d.direct, ind |-> d.ind, ents |-> d.ents]
<1> DEFINE r == [i \in 1 .. Len(d.refs) |-> d.refs[i].blk]
           z == [i \in 0 .. Direct - 1 |-> 0]
           t == [i \in 0 .. Indirect - 1 |-> 0]
<1>1. Empty = [inl |-> <<>>, ovf |-> <<>>, ovb |-> 0, leaves |-> <<>>, lblk |-> <<>>,
               direct |-> z, ind |-> 0, ents |-> t]
  BY DEF Empty
<1>2. Load(d) = [Empty EXCEPT !.inl = d.inl, !.ovf = d.ovf, !.ovb = d.ovb, !.leaves = d.leaves,
                              !.lblk = r, !.direct = d.direct, !.ind = d.ind, !.ents = d.ents]
  BY DEF Load
<1> HIDE DEF r, z, t
<1>3. Load(d) = [inl |-> d.inl, ovf |-> d.ovf, ovb |-> d.ovb, leaves |-> d.leaves,
                 lblk |-> r, direct |-> d.direct, ind |-> d.ind, ents |-> d.ents]
  BY <1>1, <1>2
<1>. QED
  BY <1>3 DEF r

LEMMA DiskIs ==
  LET d == DiskInode(m)
  IN  /\ d.inl = m.inl /\ d.leaves = m.leaves /\ d.refs = Refs(m) /\ d.blocks = BlockCount(m)
      /\ d.ovb = (IF fmt = "root" THEN m.ovb ELSE 0)
      /\ d.ovf = (IF fmt = "root" THEN m.ovf ELSE <<>>)
      /\ d.direct = m.direct /\ d.ind = m.ind /\ d.ents = m.ents /\ d.fmt = fmt /\ d.size = size
BY DEF DiskInode

(* What was stored comes back, if the overflow block and its extents were.   *)
LEMMA LoadSame ==
  ASSUME m \in Mapping, Tidy(m), DiskInode(m).ovf = m.ovf, DiskInode(m).ovb = m.ovb
  PROVE  Load(DiskInode(m)) = m
<1> DEFINE d == DiskInode(m)
           bs == m.lblk
           n == Len(m.leaves)
<1>1. /\ d.inl = m.inl /\ d.leaves = m.leaves /\ d.refs = Refs(m)
      /\ d.ovb = m.ovb /\ d.ovf = m.ovf
      /\ d.direct = m.direct /\ d.ind = m.ind /\ d.ents = m.ents
  BY DiskIs
<1> HIDE DEF d
<1>2. n \in Nat /\ Len(bs) = n /\ bs \in Seq(Nat \ {0})
  <2>1. m.leaves \in Leaves /\ bs \in Seq(Nat \ {0}) /\ Len(bs) = n
    BY DEF Mapping, Tidy
  <2>2. Len(bs) \in Nat
    BY <2>1, LenProperties
  <2>. QED  BY <2>1, <2>2
<1>3. [i \in 1 .. Len(d.refs) |-> d.refs[i].blk] = bs
  <2> DEFINE r == Refs(m)
  <2>1. Len(r) = n /\ \A i \in 1 .. n : r[i].blk = bs[i]
    BY <1>2 DEF Refs
  <2> HIDE DEF r
  <2>2. [i \in 1 .. n |-> r[i].blk] = [i \in 1 .. n |-> bs[i]]
    BY <2>1
  <2>3. bs = [i \in 1 .. n |-> bs[i]]
    <3> HIDE DEF bs, n
    <3>. QED  BY <1>2, LenProperties
  <2>. QED  BY <1>1, <2>1, <2>2, <2>3 DEF r
<1>4. Load(d) = [inl |-> m.inl, ovf |-> m.ovf, ovb |-> m.ovb, leaves |-> m.leaves, lblk |-> m.lblk,
                 direct |-> m.direct, ind |-> m.ind, ents |-> m.ents]
  BY <1>1, <1>3, LoadIs
<1>. QED
  BY <1>4, MappingIs DEF d

LEMMA ReloadSame ==
  ASSUME IInv, Reload
  PROVE  m' = m
<1> DEFINE d == DiskInode(m)
<1>1. m \in Mapping /\ Kept(m) /\ Shape(m)
  BY DEF IInv, Kept
<1>2. /\ d.inl = m.inl /\ d.leaves = m.leaves /\ d.refs = Refs(m) /\ d.blocks = BlockCount(m)
      /\ d.ovb = (IF fmt = "root" THEN m.ovb ELSE 0)
      /\ d.ovf = (IF fmt = "root" THEN m.ovf ELSE <<>>)
      /\ d.direct = m.direct /\ d.ind = m.ind /\ d.ents = m.ents /\ d.fmt = fmt
  BY DiskIs
<1>3. ValidateInode(d) /\ m' = Load(d)
  BY DEF Reload
<1> HIDE DEF d
<1>4. d.ovf = m.ovf /\ d.ovb = m.ovb
  <2>1. CASE fmt = "root"
    BY <1>2, <2>1
  <2>2. CASE fmt \in {"tree", "indirect"}
    <3>1. m.ovf = <<>> /\ m.ovb = 0
      BY <1>1, <2>2 DEF Shape
    <3>. QED  BY <1>2, <2>2, <3>1
  <2>3. CASE fmt = "inline"
    <3> DEFINE a == m.inl
               b == m.ovf
               M == MetaBlocks(m)
    <3>1. a \in Seq(Ext) /\ b \in Seq(Ext)
      BY <1>1 DEF Mapping
    <3>2. d.ovf = <<>> /\ d.ovb = 0
      BY <1>2, <2>3
    <3>3. M = {m.ovb} \ {0}
      <4> DEFINE o == m.ovb
      <4>1. a \in Seq(Ext) /\ b \in Seq(Ext) /\ o \in Nat /\ fmt \notin {"tree", "indirect"}
        BY <1>1, <2>3 DEF Mapping
      <4> HIDE DEF a, b, o
      <4>2. MetaBlocks(m) = {m.ovb} \ {0}
        BY <1>1, <4>1, ListKept
      <4>. QED  BY <4>2
    <3>4. IsFiniteSet(M) /\ Cardinality(M) \in Nat /\ (Cardinality(M) = 0 => M = {})
      <4>1. IsFiniteSet({m.ovb})
        BY FS_Singleton
      <4>2. IsFiniteSet(M)
        BY <3>3, <4>1, FS_Subset
      <4> HIDE DEF M
      <4>. QED  BY <4>2, FS_CardinalityType, FS_EmptySet
    <3>5. BlockCount(m) = TotalLen(a \o b) + Cardinality(M) + 0
      <4>1. Entries(m) = a \o b
        BY <2>3, <3>1, FlattenPair DEF Entries, Lists
      <4>. QED  BY <2>3, <4>1 DEF BlockCount
    <3>6. d.blocks = TotalLen(a) + Len(d.refs) + 0
      <4>1. DiskEntries(d) = a \o <<>> /\ a \o <<>> = a
        BY <1>2, <2>3, <3>1, <3>2, ConcatEmptySeq DEF DiskEntries
      <4>2. ValidExtents(d)
        BY <1>2, <1>3, <2>3 DEF ValidateInode
      <4>. QED  BY <3>2, <4>1, <4>2 DEF ValidExtents
    <3>7. Len(d.refs) = 0
      <4>1. m.leaves = <<>>
        BY <1>1, <2>3 DEF Shape
      <4>2. Len(m.leaves) = 0
        BY <4>1
      <4>. QED  BY <1>2, <4>2 DEF Refs
    <3> HIDE DEF M
    <3>8. TotalLen(a \o b) + Cardinality(M) = TotalLen(a)
      <4>1. TotalLen(a) \in Nat /\ TotalLen(a \o b) \in Nat
        BY <3>1, TotalGrows
      <4>. QED  BY <1>2, <3>4, <3>5, <3>6, <3>7, <4>1
    <3>9. b = <<>>
      <4>1. TotalLen(a) \in Nat /\ TotalLen(a \o b) \in Nat
        BY <3>1, TotalGrows
      <4>2. b # <<>> => TotalLen(a) < TotalLen(a \o b)
        BY <3>1, TotalGrows
      <4>. QED  BY <3>4, <3>8, <4>1, <4>2
    <3>10. Cardinality(M) = 0
      <4>1. a \o b = a
        BY <3>1, <3>9, ConcatEmptySeq
      <4>2. TotalLen(a) \in Nat
        BY <3>1, TotalGrows
      <4>. QED  BY <3>4, <3>8, <4>1, <4>2
    <3>11. m.ovb = 0
      BY <3>3, <3>4, <3>10
    <3>. QED  BY <3>2, <3>9, <3>11
  <2>4. fmt \in {"indirect", "inline", "root", "tree"}
    BY DEF IInv
  <2>. QED  BY <2>1, <2>2, <2>3, <2>4
<1>5. Load(d) = m
  BY <1>1, <1>4, LoadSame DEF Shape, d
<1>. QED
  BY <1>3, <1>5
-----------------------------------------------------------------------------
(* The definitions after a step, which does not change the format.            *)
LEMMA Primed ==
  ASSUME fmt' = fmt
  PROVE  /\ PairsIn(m)' = PairsIn(m') /\ Kept(m)' = Kept(m') /\ MetaBlocks(m)' = MetaBlocks(m')
         /\ \A l : Lookup(m, l)' = Lookup(m', l)
<1>1. Lists(m)' = Lists(m')
  BY DEF Lists
<1>2. PairsIn(m)' = PairsIn(m')
  BY <1>1 DEF PairsIn, IndPairs
<1>3. Shape(m)' = Shape(m')
  BY DEF Shape, Tidy
<1>4. Kept(m)' = Kept(m')
  BY <1>3 DEF Kept, Mapping
<1>5. MetaBlocks(m)' = MetaBlocks(m')
  BY DEF MetaBlocks
<1>6. ASSUME NEW l PROVE Lookup(m, l)' = Lookup(m', l)
  BY <1>1 DEF Lookup
<1>. QED
  BY <1>2, <1>4, <1>5, <1>6

LEMMA EmptyIs ==
  /\ Empty \in Mapping /\ Kept(Empty) /\ PairsIn(Empty) = {} /\ MetaBlocks(Empty) = {}
  /\ \A l \in Nat : Lookup(Empty, l) = 0
<1> DEFINE z == [i \in 0 .. Direct - 1 |-> 0]
           t == [i \in 0 .. Indirect - 1 |-> 0]
           x == Empty
<1>1. /\ x.inl = <<>> /\ x.ovf = <<>> /\ x.ovb = 0 /\ x.leaves = <<>> /\ x.lblk = <<>>
      /\ x.direct = z /\ x.ind = 0 /\ x.ents = t
  BY DEF Empty
<1>2. /\ z \in [0 .. Direct - 1 -> Nat] /\ t \in [0 .. Indirect - 1 -> Nat]
      /\ \A i \in 0 .. Direct - 1 : z[i] = 0
      /\ \A i \in 0 .. Indirect - 1 : t[i] = 0
  OBVIOUS
<1>3. DOMAIN t = 0 .. Indirect - 1
  OBVIOUS
<1> HIDE DEF z, t
<1>4. x \in Mapping
  <2>1. /\ <<>> \in Seq(Ext) /\ <<>> \in Leaves /\ <<>> \in Seq(Nat \ {0})
    BY DEF Leaves
  <2>2. x = [inl |-> <<>>, ovf |-> <<>>, ovb |-> 0, leaves |-> <<>>, lblk |-> <<>>,
             direct |-> z, ind |-> 0, ents |-> t]
    BY DEF Empty, z, t
  <2>. QED  BY <1>2, <2>1, <2>2 DEF Mapping
<1> HIDE DEF x
<1>5. Tidy(x)
  BY <1>1 DEF Tidy, Distinct, Filled
<1>6. Shape(x)
  BY <1>1, <1>2, <1>3, <1>5 DEF Shape
<1>7. PairsIn(x) = {}
  <2>1. CASE fmt = "indirect"
    <3>1. IndPairs(x) = {}
      BY <1>1, <1>2 DEF IndPairs
    <3>. QED  BY <2>1, <3>1 DEF PairsIn
  <2>2. CASE fmt = "tree"
    <3>1. Lists(x) = <<>>
      BY <1>1, <2>2 DEF Lists
    <3>2. Rels(<<>>) = {}
      BY DEF Rels
    <3>. QED  BY <2>2, <3>1, <3>2 DEF PairsIn
  <2>3. CASE fmt \notin {"tree", "indirect"}
    <3>1. Lists(x) = << <<>>, <<>> >>
      BY <1>1, <2>3 DEF Lists
    <3>2. <<>> \in Seq(Ext) /\ Rel(<<>>) = {}
      BY RelEmpty
    <3>3. Rels(<< <<>>, <<>> >>) = Rel(<<>>) \cup Rel(<<>>)
      BY <3>2, RelsPair
    <3>. QED  BY <2>3, <3>1, <3>2, <3>3 DEF PairsIn
  <2>. QED  BY <2>1, <2>2, <2>3
<1>8. MetaBlocks(x) = {}
  BY <1>1 DEF MetaBlocks
<1>9. \A l \in Nat : Lookup(x, l) = 0
  BY <1>4, <1>6, <1>7, LookupIs
<1>. QED
  BY <1>4, <1>6, <1>7, <1>8, <1>9 DEF Kept, x

LEMMA InitIInv ==
  ASSUME Init
  PROVE  IInv
<1>1. m = Empty /\ size = 0 /\ free \subseteq Blocks /\ mine = free
  BY DEF Init
<1>2. fmt \in {"indirect", "inline", "root", "tree"}
  BY ExtentAssumption DEF Init, ExtentAssumption
<1>3. PairsIn(m) = {} /\ MetaBlocks(m) = {} /\ Kept(m)
  BY <1>1, EmptyIs
<1>4. Sound({}, {}, free, mine)
  BY <1>1 DEF Sound, OneToOne, Seconds
<1>. QED
  BY <1>1, <1>2, <1>3, <1>4 DEF IInv
-----------------------------------------------------------------------------
(* What a step does: a block is mapped, blocks are taken for the map only, or *)
(* a part of the map and of its blocks is given back.                         *)
Moves(y, f) ==
  \/ \E l \in Logical : Lookup(m, l) = 0 /\ Takes(y, f, l)
  \/ Holds(y, f)
  \/ Gives(y, f)

LEMMA LogicalNat == Logical \in SUBSET Nat /\ 0 .. MaxSize \in SUBSET Nat
BY Constants DEF Logical

LEMMA ResolveMoves ==
  ASSUME IInv, NEW l \in Logical, Resolve(l)
  PROVE  Moves(m', free')
<1>1. l \in Nat
  BY LogicalNat
<1>2. l < Limit /\ Lookup(m, l) = 0
  BY DEF Resolve
<1>3. Takes(m', free', l) \/ Holds(m', free')
  <2>1. CASE fmt = "indirect"
    <3>1. ResolveIndirect(l)
      BY <2>1 DEF Resolve
    <3>. QED  BY <1>1, <1>2, <2>1, <3>1, ResolveIndirectTakes
  <2>2. CASE fmt # "indirect"
    <3>1. ResolveExtent(l)
      BY <2>2 DEF Resolve
    <3>. QED  BY <1>1, <2>2, <3>1, ResolveExtentTakes
  <2>. QED  BY <2>1, <2>2
<1>. QED
  BY <1>2, <1>3 DEF Moves

LEMMA SameMoves ==
  ASSUME IInv, m' = m, free' = free
  PROVE  Moves(m', free')
BY FailsHolds DEF Fails, Moves

LEMMA FreeFromSpares ==
  ASSUME IInv, NEW n \in Nat, FreeFrom(n)
  PROVE  Spares(m', free', Below(n))
<1>1. CASE fmt = "tree"
  <2>1. FreeTree(n)
    BY <1>1 DEF FreeFrom
  <2>. QED  BY <1>1, <2>1, FreeTreeSpares
<1>2. CASE fmt = "indirect"
  <2>1. FreeIndirect(n)
    BY <1>2 DEF FreeFrom
  <2>. QED  BY <1>2, <2>1, FreeIndirectSpares
<1>3. CASE fmt \notin {"tree", "indirect"}
  <2>1. FreeList(n)
    BY <1>3 DEF FreeFrom
  <2>. QED  BY <1>3, <2>1, FreeListSpares
<1>. QED
  BY <1>1, <1>2, <1>3

LEMMA SetSizeMoves ==
  ASSUME IInv, NEW n \in 0 .. MaxSize, SetSize(n)
  PROVE  Moves(m', free')
<1>1. n \in Nat
  BY LogicalNat
<1>2. CASE n < size
  <2>1. FreeFrom(n)
    BY <1>2 DEF SetSize
  <2>2. Spares(m', free', Below(n))
    BY <1>1, <2>1, FreeFromSpares
  <2>. QED  BY <2>2 DEF Moves, Gives, Below
<1>3. CASE ~(n < size)
  <2>1. m' = m /\ free' = free
    BY <1>3 DEF SetSize
  <2>. QED  BY <2>1, SameMoves
<1>. QED
  BY <1>2, <1>3

LEMMA PunchMoves ==
  ASSUME IInv, NEW a \in Logical, NEW b \in 1 .. MaxSize, Punch(a, b)
  PROVE  Moves(m', free')
<1>1. a \in Nat /\ b \in Nat
  BY LogicalNat, Constants
<1>2. fmt = "tree" /\ a < b
  BY DEF Punch
<1>3. CASE Fails
  BY <1>3, FailsHolds DEF Moves
<1>4. CASE PunchTree(a, b)
  <2>1. Spares(m', free', Outside(a, b))
    BY <1>1, <1>2, <1>4, PunchTreeSpares
  <2>2. Outside(a, b) \in SUBSET Nat
    BY DEF Outside
  <2>. QED  BY <2>1, <2>2 DEF Moves, Gives
<1>5. Fails \/ PunchTree(a, b)
  BY DEF Punch
<1>. QED
  BY <1>3, <1>4, <1>5

LEMMA StepMoves ==
  ASSUME IInv, [Next]_vars
  PROVE  Moves(m', free') /\ fmt' = fmt /\ mine' = mine /\ size' \in Nat
<1>1. ASSUME NEW l \in Logical, Resolve(l)
      PROVE  Moves(m', free') /\ fmt' = fmt /\ mine' = mine /\ size' \in Nat
  <2>1. fmt' = fmt /\ mine' = mine /\ size' = size
    BY <1>1 DEF Resolve
  <2>. QED  BY <1>1, <2>1, ResolveMoves DEF IInv
<1>2. ASSUME NEW n \in 0 .. MaxSize, SetSize(n)
      PROVE  Moves(m', free') /\ fmt' = fmt /\ mine' = mine /\ size' \in Nat
  <2>1. fmt' = fmt /\ mine' = mine /\ size' = n
    BY <1>2 DEF SetSize
  <2>. QED  BY <1>2, <2>1, SetSizeMoves, LogicalNat
<1>3. ASSUME NEW a \in Logical, NEW b \in 1 .. MaxSize, Punch(a, b)
      PROVE  Moves(m', free') /\ fmt' = fmt /\ mine' = mine /\ size' \in Nat
  <2>1. fmt' = fmt /\ mine' = mine /\ size' = size
    BY <1>3 DEF Punch
  <2>. QED  BY <1>3, <2>1, PunchMoves DEF IInv
<1>4. ASSUME Reload
      PROVE  Moves(m', free') /\ fmt' = fmt /\ mine' = mine /\ size' \in Nat
  <2>1. fmt' = fmt /\ mine' = mine /\ size' = size /\ free' = free
    BY <1>4 DEF Reload
  <2>2. m' = m
    BY <1>4, ReloadSame
  <2>. QED  BY <2>1, <2>2, SameMoves DEF IInv
<1>5. ASSUME UNCHANGED vars
      PROVE  Moves(m', free') /\ fmt' = fmt /\ mine' = mine /\ size' \in Nat
  <2>1. fmt' = fmt /\ mine' = mine /\ size' = size /\ free' = free /\ m' = m
    BY <1>5 DEF vars
  <2>. QED  BY <2>1, SameMoves DEF IInv
<1>. QED
  BY <1>1, <1>2, <1>3, <1>4, <1>5 DEF Next

LEMMA MovesSound ==
  ASSUME IInv, NEW y, NEW f, Moves(y, f)
  PROVE  Kept(y) /\ Sound(PairsIn(y), MetaBlocks(y), f, mine)
<1> DEFINE R == PairsIn(m)
           M == MetaBlocks(m)
<1>1. Sound(R, M, free, mine) /\ mine \subseteq Nat \ {0} /\ m \in Mapping /\ Shape(m)
  BY FreeNat DEF IInv, Kept
<1>2. ASSUME NEW l \in Logical, Lookup(m, l) = 0, Takes(y, f, l)
      PROVE  Kept(y) /\ Sound(PairsIn(y), MetaBlocks(y), f, mine)
  <2>1. l \in Nat
    BY LogicalNat
  <2>2. \A x \in R : x[1] # l
    BY <1>1, <1>2, <2>1, LookupIs
  <2>3. PICK p \in free : \E B \in SUBSET (free \ {p}) :
          /\ Kept(y) /\ PairsIn(y) = R \cup {<<l, p>>}
          /\ MetaBlocks(y) = M \cup B /\ f = free \ ({p} \cup B)
    BY <1>2 DEF Takes
  <2>4. PICK B \in SUBSET (free \ {p}) :
          /\ Kept(y) /\ PairsIn(y) = R \cup {<<l, p>>}
          /\ MetaBlocks(y) = M \cup B /\ f = free \ ({p} \cup B)
    BY <2>3
  <2> HIDE DEF R, M
  <2>5. Sound(R \cup {<<l, p>>}, M \cup B, free \ ({p} \cup B), mine)
    BY <1>1, <2>1, <2>2, Taken
  <2>. QED  BY <2>5, <2>4
<1>3. ASSUME Holds(y, f)
      PROVE  Kept(y) /\ Sound(PairsIn(y), MetaBlocks(y), f, mine)
  <2>1. PICK B \in SUBSET free :
          /\ Kept(y) /\ PairsIn(y) = R /\ MetaBlocks(y) = M \cup B /\ f = free \ B
    BY <1>3 DEF Holds
  <2> HIDE DEF R, M
  <2>2. Sound(R, M \cup B, free \ B, mine)
    BY <1>1, TakenMeta
  <2>. QED  BY <2>1, <2>2
<1>4. ASSUME Gives(y, f)
      PROVE  Kept(y) /\ Sound(PairsIn(y), MetaBlocks(y), f, mine)
  <2>1. PICK K \in SUBSET Nat, B \in SUBSET M :
          /\ Kept(y) /\ PairsIn(y) = Keeps(R, K)
          /\ MetaBlocks(y) = M \ B /\ f = free \cup Drops(R, K) \cup B
    BY <1>4 DEF Gives, Spares
  <2> HIDE DEF R, M
  <2>2. Sound(Keeps(R, K), M \ B, free \cup Drops(R, K) \cup B, mine)
    BY <1>1, Given
  <2>. QED  BY <2>1, <2>2
<1>. QED
  BY <1>2, <1>3, <1>4 DEF Moves

LEMMA StepIInv ==
  ASSUME IInv, [Next]_vars
  PROVE  IInv'
<1>1. Moves(m', free') /\ fmt' = fmt /\ mine' = mine /\ size' \in Nat
  BY StepMoves
<1>2. Kept(m') /\ Sound(PairsIn(m'), MetaBlocks(m'), free', mine)
  BY <1>1, MovesSound
<1>3. Kept(m)' /\ Sound(PairsIn(m), MetaBlocks(m), free, mine)'
  <2>1. Sound(PairsIn(m)', MetaBlocks(m)', free', mine')
    BY <1>1, <1>2, Primed
  <2>. QED  BY <1>1, <1>2, <2>1, Primed DEF Sound
<1>4. fmt' \in {"indirect", "inline", "root", "tree"} /\ (mine \subseteq Blocks)'
  BY <1>1 DEF IInv, Blocks
<1>. QED
  BY <1>1, <1>3, <1>4 DEF IInv
-----------------------------------------------------------------------------
LEMMA Inductive == Spec => []IInv
<1>. QED
  BY InitIInv, StepIInv, PTL DEF Spec

(* Truncate, punch and the failures of resolve_block leak no block: on every *)
(* volume, in every format, what was taken from the bitmap is data or        *)
(* metadata of the file, and in one of the two roles only.                   *)
THEOREM NeverLeaks == Spec => []NoLeak
<1>1. IInv => NoLeak
  <2> SUFFICES ASSUME IInv PROVE NoLeak
    OBVIOUS
  <2>2. DataBlocks(m) = Seconds(PairsIn(m))
    BY DataIs DEF IInv, Kept
  <2>3. Sound(PairsIn(m), MetaBlocks(m), free, mine)
    BY DEF IInv
  <2>. QED  BY <2>2, <2>3 DEF NoLeak, Sound
<1>. QED
  BY Inductive, <1>1, PTL
-----------------------------------------------------------------------------
(* Lookups of a mapping whose pairs are one to one.                           *)
LEMMA LookupPair ==
  ASSUME NEW x, Kept(x), OneToOne(PairsIn(x)), NEW l \in Nat, NEW p, <<l, p>> \in PairsIn(x)
  PROVE  Lookup(x, l) = p
<1> DEFINE q == Lookup(x, l)
           z == <<l, p>>
           y == <<l, q>>
<1>1. z[1] = l /\ z[2] = p /\ y[1] = l /\ y[2] = q
  OBVIOUS
<1>2. y \in PairsIn(x)
  BY <1>1, LookupIs DEF Kept
<1>3. z \in PairsIn(x)
  OBVIOUS
<1> HIDE DEF q, z, y
<1>4. z = y
  BY <1>1, <1>2, <1>3 DEF OneToOne
<1>. QED
  BY <1>1, <1>4 DEF q

LEMMA TakesLookup ==
  ASSUME IInv, NEW y, NEW f, NEW l \in Logical, Lookup(m, l) = 0, Takes(y, f, l)
  PROVE  /\ Lookup(y, l) \in free \ f /\ f \subseteq free
         /\ \A k \in Logical \ {l} : Lookup(y, k) = Lookup(m, k)
<1>1. Kept(y) /\ OneToOne(PairsIn(y)) /\ Kept(m) /\ OneToOne(PairsIn(m))
  <2>1. Kept(y) /\ Sound(PairsIn(y), MetaBlocks(y), f, mine)
    BY MovesSound DEF Moves
  <2>. QED  BY <2>1 DEF IInv, Sound
<1>2. PICK p \in free : \E B \in SUBSET (free \ {p}) :
        PairsIn(y) = PairsIn(m) \cup {<<l, p>>} /\ f = free \ ({p} \cup B)
  BY DEF Takes
<1>3. Lookup(y, l) = p
  <2>1. l \in Nat /\ <<l, p>> \in PairsIn(y)
    BY <1>2, LogicalNat
  <2>. QED  BY <1>1, <2>1, LookupPair
<1>4. ASSUME NEW k \in Logical \ {l}
      PROVE  Lookup(y, k) = Lookup(m, k)
  <2>1. k \in Nat
    BY LogicalNat
  <2>2. CASE Lookup(m, k) = 0
    <3>1. \A x \in PairsIn(m) : x[1] # k
      BY <1>1, <2>1, <2>2, LookupIs DEF Kept
    <3> DEFINE t == <<l, p>>
    <3>2. t[1] # k /\ PairsIn(y) = PairsIn(m) \cup {t}
      BY <1>2
    <3> HIDE DEF t
    <3>3. \A x \in PairsIn(y) : x[1] # k
      BY <3>1, <3>2
    <3> DEFINE w == Lookup(y, k)
               z == <<k, w>>
    <3>4. z[1] = k
      OBVIOUS
    <3>5. z \in PairsIn(y) \/ w = 0
      BY <1>1, <2>1, LookupIs DEF Kept
    <3> HIDE DEF w, z
    <3>. QED  BY <2>2, <3>3, <3>4, <3>5 DEF w
  <2>3. CASE Lookup(m, k) # 0
    <3>1. <<k, Lookup(m, k)>> \in PairsIn(m)
      BY <1>1, <2>1, <2>3, LookupIs DEF Kept
    <3>2. <<k, Lookup(m, k)>> \in PairsIn(y)
      BY <1>2, <3>1
    <3>. QED  BY <1>1, <2>1, <3>2, LookupPair
  <2>. QED  BY <2>2, <2>3
<1>. QED
  BY <1>2, <1>3, <1>4

LEMMA HoldsLookup ==
  ASSUME IInv, NEW y, NEW f, Holds(y, f), NEW l \in Logical
  PROVE  Lookup(y, l) = Lookup(m, l)
<1>1. Kept(y) /\ Kept(m) /\ PairsIn(y) = PairsIn(m) /\ OneToOne(PairsIn(m)) /\ l \in Nat
  BY LogicalNat DEF Holds, IInv, Sound
<1> DEFINE v == Lookup(m, l)
           w == Lookup(y, l)
<1>2. v # 0 => w = v
  <2>1. v # 0 => <<l, v>> \in PairsIn(m)
    BY <1>1, LookupIs DEF Kept
  <2>. QED  BY <1>1, <2>1, LookupPair
<1>3. w # 0 => v = w
  <2>1. w # 0 => <<l, w>> \in PairsIn(m)
    BY <1>1, LookupIs DEF Kept
  <2>. QED  BY <1>1, <2>1, LookupPair
<1> HIDE DEF v, w
<1>4. v = w
  BY <1>2, <1>3
<1>. QED
  BY <1>4 DEF v, w

LEMMA GivesLookup ==
  ASSUME IInv, NEW y, NEW f, Gives(y, f), NEW l \in Logical
  PROVE  /\ Lookup(y, l) = Lookup(m, l) \/ (Lookup(y, l) = 0 /\ Lookup(m, l) \in f)
         /\ free \subseteq f
<1>1. Kept(y) /\ Kept(m) /\ OneToOne(PairsIn(m)) /\ l \in Nat
  BY LogicalNat DEF Gives, Spares, IInv, Sound
<1>2. PICK K \in SUBSET Nat : \E B \in SUBSET MetaBlocks(m) :
        PairsIn(y) = Keeps(PairsIn(m), K) /\ f = free \cup Drops(PairsIn(m), K) \cup B
  BY DEF Gives, Spares
<1> DEFINE v == Lookup(m, l)
           w == Lookup(y, l)
           z == <<l, v>>
           u == <<l, w>>
<1>3. z[1] = l /\ z[2] = v /\ u[1] = l /\ u[2] = w
  OBVIOUS
<1>4. v = 0 \/ z \in PairsIn(m)
  BY <1>1, LookupIs DEF Kept
<1>5. w = 0 \/ u \in PairsIn(y)
  BY <1>1, LookupIs DEF Kept
<1>6. u \in PairsIn(m) => v = w
  BY <1>1, LookupPair
<1>7. PairsIn(y) \subseteq PairsIn(m)
  BY <1>2 DEF Keeps
<1>8. z \in PairsIn(y) => w = v
  <2>1. z \in PairsIn(y) => z \in PairsIn(m)
    BY <1>7
  <2>2. OneToOne(PairsIn(y))
    BY <1>1, <1>7 DEF OneToOne
  <2>. QED  BY <1>1, <2>2, LookupPair
<1>9. z \in PairsIn(m) /\ z \notin PairsIn(y) => v \in f
  <2>1. z \in PairsIn(m) /\ z \notin PairsIn(y) => z[1] \notin K
    BY <1>2 DEF Keeps
  <2> HIDE DEF z
  <2>2. z \in PairsIn(m) /\ z[1] \notin K => z[2] \in Drops(PairsIn(m), K)
    BY DEF Drops
  <2>. QED  BY <1>2, <1>3, <2>1, <2>2
<1>10. free \subseteq f
  BY <1>2
<1> HIDE DEF v, w, z, u
<1>11. w = v \/ (w = 0 /\ v \in f)
  BY <1>4, <1>5, <1>6, <1>7, <1>8, <1>9
<1>. QED
  BY <1>10, <1>11 DEF v, w

(* A step of the file is a step of the map, whatever the format.              *)
LEMMA MappedSeconds ==
  ASSUME NEW x, Kept(x)
  PROVE  {[k \in Logical |-> Lookup(x, k)][l] : l \in Logical} \ {0} \in SUBSET Seconds(PairsIn(x))
<1>1. SUFFICES ASSUME NEW l \in Logical, Lookup(x, l) # 0
               PROVE  Lookup(x, l) \in Seconds(PairsIn(x))
  OBVIOUS
<1> DEFINE w == Lookup(x, l)
           z == <<l, w>>
<1>2. z \in PairsIn(x)
  BY <1>1, LookupIs, LogicalNat DEF Kept
<1>3. z[2] = w
  OBVIOUS
<1> HIDE DEF z, w
<1>4. w \in Seconds(PairsIn(x))
  BY <1>2, <1>3 DEF Seconds
<1>. QED
  BY <1>4 DEF w

LEMMA StepAbstract ==
  ASSUME IInv, [Next]_vars
  PROVE  Abstract!Next
<1> DEFINE map == [l \in Logical |-> Lookup(m, l)]
           next == [l \in Logical |-> Lookup(m', l)]
<1>1. Moves(m', free') /\ fmt' = fmt
  BY StepMoves
<1>2. map' = next /\ Logical' = Logical
  <2>1. Logical' = Logical
    BY DEF Logical
  <2>2. \A l : Lookup(m, l)' = Lookup(m', l)
    BY <1>1, Primed
  <2>. QED  BY <2>1, <2>2
<1>3. \A l \in Logical : map[l] = Lookup(m, l) /\ next[l] = Lookup(m', l)
  OBVIOUS
<1>4. {next[l] : l \in Logical} \ {0} \in SUBSET Seconds(PairsIn(m'))
  BY <1>1, MovesSound, MappedSeconds
<1>5. Seconds(PairsIn(m')) \cap free' = {}
  BY <1>1, MovesSound DEF Sound
<1>6. Abstract!Mapped' \cap free' = {}
  <2>1. Abstract!Mapped' = {next[l] : l \in Logical} \ {0}
    BY <1>2 DEF Abstract!Mapped
  <2>. QED  BY <1>4, <1>5, <2>1
<1>7. ASSUME NEW l \in Logical, Lookup(m, l) = 0, Takes(m', free', l)
      PROVE  Abstract!Map
  <2>1. /\ Lookup(m', l) \in free \ free' /\ free' \subseteq free
        /\ \A k \in Logical \ {l} : Lookup(m', k) = Lookup(m, k)
    BY <1>7, TakesLookup
  <2>2. /\ map[l] = 0 /\ next[l] \in free \ free' /\ free' \subseteq free
        /\ \A k \in Logical \ {l} : next[k] = map[k]
    BY <1>3, <1>7, <2>1
  <2> HIDE DEF next
  <2>3. /\ map[l] = 0 /\ map'[l] \in free \ free' /\ free' \subseteq free
        /\ \A k \in Logical \ {l} : map'[k] = map[k]
    BY <1>2, <2>2
  <2>. QED  BY <2>3 DEF Abstract!Map
<1>8. ASSUME Holds(m', free')
      PROVE  Abstract!Meta
  <2>1. \A l \in Logical : Lookup(m', l) = Lookup(m, l)
    BY <1>8, HoldsLookup
  <2>2. next = map
    BY <2>1
  <2>. QED  BY <1>2, <2>2 DEF Abstract!Meta
<1>9. ASSUME Gives(m', free')
      PROVE  Abstract!Unmap
  <2>1. \A l \in Logical : Lookup(m', l) = Lookup(m, l) \/ (Lookup(m', l) = 0 /\ Lookup(m, l) \in free')
    BY <1>9, GivesLookup
  <2>2. \A l \in Logical : next[l] = map[l] \/ (next[l] = 0 /\ map[l] \in free')
    BY <1>3, <2>1
  <2>3. free \subseteq free'
    BY <1>9 DEF Gives, Spares
  <2>. QED  BY <1>2, <2>2, <2>3 DEF Abstract!Unmap
<1>. QED
  BY <1>1, <1>6, <1>7, <1>8, <1>9 DEF Moves, Abstract!Next

(* Direct blocks, extents in the inode, the overflow block and the extent    *)
(* tree all implement a map from blocks of the file to blocks of the volume: *)
(* no operation moves, loses or exposes the block of another place.          *)
THEOREM FormatsAreBlockMaps == Spec => IsBlockMap
<1>1. Init => Abstract!Init
  <2> SUFFICES ASSUME Init PROVE Abstract!Init
    OBVIOUS
  <2>1. m = Empty /\ free \subseteq Blocks
    BY DEF Init
  <2>2. \A l \in Logical : Lookup(m, l) = 0
    BY <2>1, EmptyIs, LogicalNat
  <2>3. [l \in Logical |-> Lookup(m, l)] = [l \in Logical |-> 0]
    BY <2>2
  <2>. QED  BY <2>1, <2>3 DEF Abstract!Init
<1>2. IInv /\ [Next]_vars => [Abstract!Next]_<<[l \in Logical |-> Lookup(m, l)], free>>
  BY StepAbstract
<1>. QED
  BY <1>1, <1>2, Inductive, PTL DEF Spec, IsBlockMap, Abstract!Spec
-----------------------------------------------------------------------------
(* Extents in order, in a list and over the leaves of a tree.                 *)
Ascends(es) == \A i, j \in 1 .. Len(es) : i < j => es[i].l + es[i].n <= es[j].l
Before(S, T) == \A a \in S, b \in T : a.l + a.n <= b.l
Chain(ss) ==
  /\ \A i \in 1 .. Len(ss) : Ascends(ss[i])
  /\ \A i, j \in 1 .. Len(ss) : i < j => Before(Cells(ss[i]), Cells(ss[j]))
Inside(t, e) == e.l <= t.l /\ t.l + t.n <= e.l + e.n /\ t.n <= e.n
Within(ts, es) == \A t \in Cells(ts) : \E e \in Cells(es) : Inside(t, e)

LEMMA CellsExt ==
  ASSUME NEW es \in Seq(Ext)
  PROVE  Cells(es) \in SUBSET Ext /\ \A e \in Cells(es) : e.l \in Nat /\ e.n \in Nat \ {0}
<1>1. Cells(es) \in SUBSET Ext
  BY ElementOfSeq DEF Cells
<1>2. \A e \in Ext : e.l \in Nat /\ e.n \in Nat \ {0}
  BY DEF Ext
<1>. QED
  BY <1>1, <1>2

LEMMA AscendsEmpty == Ascends(<<>>) /\ Cells(<<>>) = {}
<1>1. 1 .. Len(<<>>) = {}
  OBVIOUS
<1>. QED
  BY <1>1 DEF Ascends, Cells

LEMMA AscendsOne ==
  ASSUME NEW e \in Ext
  PROVE  Ascends(<<e>>) /\ Cells(<<e>>) = {e} /\ Len(<<e>>) = 1
<1> DEFINE w == <<e>>
<1>1. Len(w) = 1 /\ w[1] = e /\ 1 .. 1 = {1}
  OBVIOUS
<1> HIDE DEF w
<1>2. Ascends(w) /\ Cells(w) = {e}
  BY <1>1 DEF Ascends, Cells
<1>. QED
  BY <1>1, <1>2 DEF w

LEMMA ConcatCells ==
  ASSUME NEW a \in Seq(Ext), NEW b \in Seq(Ext)
  PROVE  /\ a \o b \in Seq(Ext) /\ Cells(a \o b) = Cells(a) \cup Cells(b)
         /\ Len(a \o b) = Len(a) + Len(b)
<1> DEFINE c == a \o b
           j == Len(a)
           k == Len(b)
<1>1. j \in Nat /\ k \in Nat /\ c \in Seq(Ext) /\ Len(c) = j + k
      /\ \A i \in 1 .. j + k : c[i] = IF i <= j THEN a[i] ELSE b[i - j]
  BY LenProperties, ConcatProperties
<1> HIDE DEF c, j, k
<1>2. ASSUME NEW e \in Cells(c) PROVE e \in Cells(a) \cup Cells(b)
  <2>1. PICK i \in 1 .. j + k : e = c[i]
    BY <1>1 DEF Cells
  <2>2. CASE i <= j
    <3>1. i \in 1 .. j /\ e = a[i]
      BY <1>1, <2>1, <2>2
    <3>. QED  BY <3>1 DEF Cells, j
  <2>3. CASE ~(i <= j)
    <3>1. i - j \in 1 .. k /\ e = b[i - j]
      BY <1>1, <2>1, <2>3
    <3>. QED  BY <3>1 DEF Cells, k
  <2>. QED  BY <2>2, <2>3
<1>3. ASSUME NEW e \in Cells(a) PROVE e \in Cells(c)
  <2>1. PICK i \in 1 .. j : e = a[i]
    BY DEF Cells, j
  <2>2. i \in 1 .. j + k /\ c[i] = e
    BY <1>1, <2>1
  <2>. QED  BY <1>1, <2>2 DEF Cells
<1>4. ASSUME NEW e \in Cells(b) PROVE e \in Cells(c)
  <2>1. PICK i \in 1 .. k : e = b[i]
    BY DEF Cells, k
  <2> DEFINE q == j + i
  <2>2. q \in 1 .. j + k /\ ~(q <= j) /\ q - j = i
    BY <1>1
  <2> HIDE DEF q
  <2>3. c[q] = e
    BY <1>1, <2>1, <2>2
  <2>. QED  BY <1>1, <2>2, <2>3 DEF Cells
<1>. QED
  BY <1>1, <1>2, <1>3, <1>4 DEF c, j, k

LEMMA ConcatAscends ==
  ASSUME NEW a \in Seq(Ext), NEW b \in Seq(Ext), Ascends(a), Ascends(b), Before(Cells(a), Cells(b))
  PROVE  Ascends(a \o b)
<1> DEFINE c == a \o b
           j == Len(a)
           k == Len(b)
<1>1. j \in Nat /\ k \in Nat /\ c \in Seq(Ext) /\ Len(c) = j + k
      /\ \A i \in 1 .. j + k : c[i] = IF i <= j THEN a[i] ELSE b[i - j]
  BY LenProperties, ConcatProperties
<1> HIDE DEF c
<1>2. SUFFICES ASSUME NEW i \in 1 .. j + k, NEW h \in 1 .. j + k, i < h
               PROVE  c[i].l + c[i].n <= c[h].l
  BY <1>1 DEF Ascends, c
<1>3. CASE h <= j
  <2>1. i \in 1 .. j /\ h \in 1 .. j /\ c[i] = a[i] /\ c[h] = a[h]
    BY <1>1, <1>2, <1>3
  <2>. QED  BY <1>2, <2>1 DEF Ascends
<1>4. CASE i <= j /\ ~(h <= j)
  <2>1. i \in 1 .. j /\ h - j \in 1 .. k /\ c[i] = a[i] /\ c[h] = b[h - j]
    BY <1>1, <1>2, <1>4
  <2>2. c[i] \in Cells(a) /\ c[h] \in Cells(b)
    BY <2>1 DEF Cells
  <2>. QED  BY <2>2 DEF Before
<1>5. CASE ~(i <= j)
  <2> DEFINE u == i - j
             v == h - j
  <2>1. u \in 1 .. k /\ v \in 1 .. k /\ u < v /\ c[i] = b[u] /\ c[h] = b[v]
    BY <1>1, <1>2, <1>5
  <2> HIDE DEF u, v
  <2>. QED  BY <2>1 DEF Ascends
<1>. QED
  BY <1>1, <1>2, <1>3, <1>4, <1>5

(* The lists of a chain one after the other ascend. *)
LEMMA FlatAscends ==
  ASSUME NEW ss \in Leaves, Chain(ss), NEW g, Flat(ss, Len(ss), g), NEW n \in 1 .. Len(ss)
  PROVE  Ascends(g[n]) /\ Cells(g[n]) = UNION {Cells(ss[i]) : i \in 1 .. n}
<1> DEFINE Upto(k) == UNION {Cells(ss[i]) : i \in 1 .. k}
           Good(k) == Ascends(g[k]) /\ Cells(g[k]) = Upto(k)
           Bad == {k \in 1 .. Len(ss) : ~ Good(k)}
<1>1. Len(ss) \in Nat /\ \A i \in 1 .. Len(ss) : ss[i] \in Seq(Ext) /\ g[i] \in Seq(Ext)
  <2>1. Len(ss) \in Nat /\ \A i \in 1 .. Len(ss) : ss[i] \in Seq(Ext)
    BY LenProperties, ElementOfSeq DEF Leaves
  <2>2. \A i \in 1 .. Len(ss) : g[i] \in Seq(Ext)
    BY FlatRel
  <2>. QED  BY <2>1, <2>2
<1>2. SUFFICES ASSUME Bad # {} PROVE FALSE
  BY <1>1
<1>3. PICK k \in Bad : \A j \in Bad : k <= j
  <2>1. Bad \in SUBSET Nat
    BY <1>1
  <2> HIDE DEF Bad
  <2>. QED  BY <1>2, <2>1, Minimum
<1>4. k \in 1 .. Len(ss) /\ ~ Good(k)
  BY <1>3
<1>5. g[k] = IF k = 1 THEN ss[k] ELSE g[k - 1] \o ss[k]
  BY <1>4 DEF Flat
<1>6. CASE k = 1
  <2>1. Upto(1) = Cells(ss[1])
    <3>1. 1 .. 1 = {1}
      OBVIOUS
    <3>. QED  BY <3>1
  <2>2. Ascends(ss[1])
    BY <1>4, <1>6 DEF Chain
  <2>. QED  BY <1>4, <1>5, <1>6, <2>1, <2>2
<1>7. CASE k # 1
  <2> DEFINE j == k - 1
             a == g[j]
             b == ss[k]
  <2>1. j \in 1 .. Len(ss) /\ j \notin Bad /\ j < k
    <3>1. j \in 1 .. Len(ss) /\ ~(k <= j) /\ j < k
      BY <1>1, <1>4, <1>7
    <3> HIDE DEF Bad
    <3>. QED  BY <1>3, <3>1
  <2>2. Good(j)
    BY <2>1
  <2>3. Upto(k) = Upto(j) \cup Cells(b)
    <3>1. 1 .. k = (1 .. j) \cup {k}
      BY <1>1, <1>4, <1>7
    <3>. QED  BY <3>1
  <2>4. g[k] = a \o b
    BY <1>5, <1>7
  <2>5. Before(Upto(j), Cells(b))
    <3>1. ASSUME NEW i \in 1 .. j PROVE Before(Cells(ss[i]), Cells(b))
      <4>1. i \in 1 .. Len(ss) /\ i < k
        BY <1>1, <1>4, <2>1
      <4>. QED  BY <1>4, <4>1 DEF Chain
    <3>. QED  BY <3>1 DEF Before
  <2>6. a \in Seq(Ext) /\ b \in Seq(Ext) /\ Ascends(a) /\ Ascends(b) /\ Cells(a) = Upto(j)
    BY <1>1, <1>4, <2>1, <2>2 DEF Chain
  <2> HIDE DEF j, a, b, Upto
  <2>7. Before(Cells(a), Cells(b))
    BY <2>5, <2>6
  <2>8. Ascends(a \o b) /\ Cells(a \o b) = Cells(a) \cup Cells(b)
    BY <2>6, <2>7, ConcatAscends, ConcatCells
  <2>9. Good(k)
    BY <2>3, <2>4, <2>6, <2>8
  <2>. QED  BY <1>4, <2>9
<1>. QED
  BY <1>6, <1>7

LEMMA FlattenAscends ==
  ASSUME NEW ss \in Leaves, Chain(ss)
  PROVE  /\ Ascends(FlattenSeq(ss))
         /\ Cells(FlattenSeq(ss)) = UNION {Cells(ss[i]) : i \in 1 .. Len(ss)}
<1>1. CASE Len(ss) = 0
  <2>1. ss = <<>>
    BY <1>1, EmptySeq DEF Leaves
  <2>2. FlattenSeq(ss) = <<>> /\ 1 .. Len(ss) = {}
    BY <1>1, <2>1 DEF FlattenSeq
  <2>. QED  BY <2>1, <2>2, AscendsEmpty
<1>2. CASE Len(ss) # 0
  <2>1. PICK g : Flat(ss, Len(ss), g) /\ FlattenSeq(ss) = g[Len(ss)]
    BY <1>2, FlattenIs
  <2>2. Len(ss) \in 1 .. Len(ss)
    BY <1>2, LenProperties DEF Leaves
  <2>. QED  BY <2>1, <2>2, FlatAscends
<1>. QED
  BY <1>1, <1>2

(* How long the lists are one after the other, if all but number k have one   *)
(* extent at most and that one has two.                                       *)
Short(ss, k) == \A i \in 1 .. Len(ss) : Len(ss[i]) <= IF i = k THEN 2 ELSE 1
Room(n, k) == n + IF k \in 1 .. n THEN 1 ELSE 0

LEMMA FlatLength ==
  ASSUME NEW ss \in Leaves, NEW k \in Nat, Short(ss, k),
         NEW g, Flat(ss, Len(ss), g), NEW n \in 1 .. Len(ss)
  PROVE  Len(g[n]) <= Room(n, k)
<1> DEFINE Bad == {i \in 1 .. Len(ss) : ~(Len(g[i]) <= Room(i, k))}
<1>1. Len(ss) \in Nat /\ \A i \in 1 .. Len(ss) : ss[i] \in Seq(Ext) /\ g[i] \in Seq(Ext)
  <2>1. Len(ss) \in Nat /\ \A i \in 1 .. Len(ss) : ss[i] \in Seq(Ext)
    BY LenProperties, ElementOfSeq DEF Leaves
  <2>2. \A i \in 1 .. Len(ss) : g[i] \in Seq(Ext)
    BY FlatRel
  <2>. QED  BY <2>1, <2>2
<1>2. SUFFICES ASSUME Bad # {} PROVE FALSE
  OBVIOUS
<1>3. PICK i \in Bad : \A j \in Bad : i <= j
  <2>1. Bad \in SUBSET Nat
    BY <1>1
  <2> HIDE DEF Bad
  <2>. QED  BY <1>2, <2>1, Minimum
<1>4. i \in 1 .. Len(ss) /\ ~(Len(g[i]) <= Room(i, k))
  BY <1>3
<1>5. g[i] = IF i = 1 THEN ss[i] ELSE g[i - 1] \o ss[i]
  BY <1>4 DEF Flat
<1>6. Len(ss[i]) \in Nat /\ Len(ss[i]) <= IF i = k THEN 2 ELSE 1
  <2>1. ss[i] \in Seq(Ext)
    BY <1>1, <1>4
  <2>. QED  BY <1>4, <2>1, LenProperties DEF Short
<1>7. CASE i = 1
  <2>1. Room(1, k) = IF k = 1 THEN 2 ELSE 1
    BY DEF Room
  <2>. QED  BY <1>4, <1>5, <1>6, <1>7, <2>1
<1>8. CASE i # 1
  <2> DEFINE j == i - 1
             a == g[j]
             b == ss[i]
  <2>1. j \in 1 .. Len(ss) /\ j \notin Bad
    <3>1. j \in 1 .. Len(ss) /\ ~(i <= j)
      BY <1>1, <1>4, <1>8
    <3> HIDE DEF Bad
    <3>. QED  BY <1>3, <3>1
  <2>2. Len(a) <= Room(j, k)
    BY <2>1
  <2>3. a \in Seq(Ext) /\ b \in Seq(Ext) /\ g[i] = a \o b
    BY <1>1, <1>4, <1>5, <1>8, <2>1
  <2>4. i = j + 1 /\ j \in Nat \ {0}
    BY <1>1, <1>4, <1>8
  <2>5. Len(b) \in Nat /\ Len(b) <= IF i = k THEN 2 ELSE 1
    BY <1>6
  <2> HIDE DEF a, b, j
  <2>6. Len(g[i]) = Len(a) + Len(b) /\ Len(a) \in Nat
    BY <2>3, ConcatCells, LenProperties
  <2>7. Room(j, k) + (IF i = k THEN 2 ELSE 1) = Room(i, k) /\ Room(j, k) \in Nat
    BY <2>4 DEF Room
  <2>8. Room(i, k) \in Nat
    BY <2>4 DEF Room
  <2> DEFINE r == Room(j, k)
             q == Room(i, k)
  <2> HIDE DEF r, q
  <2>9. Len(a) + Len(b) <= q
    BY <2>2, <2>5, <2>6, <2>7, <2>8 DEF r, q
  <2>. QED  BY <1>4, <2>6, <2>9 DEF q
<1>. QED
  BY <1>7, <1>8

LEMMA FlattenLength ==
  ASSUME NEW ss \in Leaves, NEW k \in Nat, Short(ss, k)
  PROVE  Len(FlattenSeq(ss)) <= Room(Len(ss), k)
<1>1. CASE Len(ss) = 0
  <2>1. ss = <<>>
    BY <1>1, EmptySeq DEF Leaves
  <2>2. FlattenSeq(ss) = <<>>
    BY <1>1, <2>1 DEF FlattenSeq
  <2>3. Len(<<>>) = 0 /\ 0 <= Room(0, k)
    BY DEF Room
  <2>. QED  BY <1>1, <2>2, <2>3
<1>2. CASE Len(ss) # 0
  <2>1. PICK g : Flat(ss, Len(ss), g) /\ FlattenSeq(ss) = g[Len(ss)]
    BY <1>2, FlattenIs
  <2>2. Len(ss) \in 1 .. Len(ss)
    BY <1>2, LenProperties DEF Leaves
  <2>. QED  BY <2>1, <2>2, FlatLength
<1>. QED
  BY <1>1, <1>2

(* Lists inside the lists of a chain are a chain.                             *)
Narrows(ls, ss) ==
  /\ Len(ls) = Len(ss)
  /\ \A i \in 1 .. Len(ss) : Ascends(ls[i]) /\ Within(ls[i], ss[i])

LEMMA ChainWithin ==
  ASSUME NEW ss \in Leaves, NEW ls \in Leaves, Chain(ss), Narrows(ls, ss)
  PROVE  Chain(ls)
<1>1. Len(ls) = Len(ss) /\ \A i \in 1 .. Len(ss) : Ascends(ls[i]) /\ Within(ls[i], ss[i])
  BY DEF Narrows
<1>2. ASSUME NEW i \in 1 .. Len(ss), NEW j \in 1 .. Len(ss), i < j
      PROVE  Before(Cells(ls[i]), Cells(ls[j]))
  <2> DEFINE u == ls[i]
             v == ls[j]
             s == ss[i]
             t == ss[j]
  <2>1. u \in Seq(Ext) /\ v \in Seq(Ext) /\ s \in Seq(Ext) /\ t \in Seq(Ext)
    BY <1>1, ElementOfSeq DEF Leaves
  <2>2. Before(Cells(s), Cells(t)) /\ Within(u, s) /\ Within(v, t)
    BY <1>1, <1>2 DEF Chain
  <2> HIDE DEF u, v, s, t
  <2>3. ASSUME NEW a \in Cells(u), NEW b \in Cells(v) PROVE a.l + a.n <= b.l
    <3>1. PICK c \in Cells(s) : Inside(a, c)
      BY <2>2 DEF Within
    <3>2. PICK d \in Cells(t) : Inside(b, d)
      BY <2>2 DEF Within
    <3>3. c.l + c.n <= d.l
      BY <2>2 DEF Before
    <3>4. a.l \in Nat /\ a.n \in Nat
      BY <2>1, CellsExt
    <3>5. b.l \in Nat /\ c.l \in Nat /\ c.n \in Nat /\ d.l \in Nat
      BY <2>1, CellsExt
    <3>. QED  BY <3>1, <3>2, <3>3, <3>4, <3>5 DEF Inside
  <2>4. Before(Cells(u), Cells(v))
    BY <2>3 DEF Before
  <2>. QED  BY <2>4 DEF u, v
<1>. QED
  BY <1>1, <1>2 DEF Chain

(* What becomes of the extents of a list that ascends, each by itself.        *)
Splits(qs, es) ==
  /\ Len(qs) = Len(es)
  /\ \A i \in 1 .. Len(es) : Ascends(qs[i]) /\ \A t \in Cells(qs[i]) : Inside(t, es[i])

LEMMA SplitsAscend ==
  ASSUME NEW es \in Seq(Ext), NEW qs \in Leaves, Ascends(es), Splits(qs, es)
  PROVE  Ascends(FlattenSeq(qs)) /\ Within(FlattenSeq(qs), es)
<1>1. Len(qs) = Len(es)
      /\ \A i \in 1 .. Len(es) : Ascends(qs[i]) /\ \A t \in Cells(qs[i]) : Inside(t, es[i])
  BY DEF Splits
<1>2. ASSUME NEW i \in 1 .. Len(es), NEW j \in 1 .. Len(es), i < j
      PROVE  Before(Cells(qs[i]), Cells(qs[j]))
  <2> DEFINE u == qs[i]
             v == qs[j]
             c == es[i]
             d == es[j]
  <2>1. u \in Seq(Ext) /\ v \in Seq(Ext) /\ c \in Ext /\ d \in Ext
    BY <1>1, ElementOfSeq DEF Leaves
  <2>2. /\ c.l + c.n <= d.l
        /\ \A t \in Cells(u) : Inside(t, c)
        /\ \A t \in Cells(v) : Inside(t, d)
    BY <1>1, <1>2 DEF Ascends
  <2> HIDE DEF u, v, c, d
  <2>3. c.l \in Nat /\ c.n \in Nat /\ d.l \in Nat
    BY <2>1 DEF Ext
  <2>4. ASSUME NEW a \in Cells(u), NEW b \in Cells(v) PROVE a.l + a.n <= b.l
    <3>1. Inside(a, c) /\ Inside(b, d)
      BY <2>2
    <3>2. a.l \in Nat /\ a.n \in Nat
      BY <2>1, CellsExt
    <3>3. b.l \in Nat
      BY <2>1, CellsExt
    <3>. QED  BY <2>2, <2>3, <3>1, <3>2, <3>3 DEF Inside
  <2>5. Before(Cells(u), Cells(v))
    BY <2>4 DEF Before
  <2>. QED  BY <2>5 DEF u, v
<1>3. Chain(qs)
  BY <1>1, <1>2 DEF Chain
<1>4. Ascends(FlattenSeq(qs))
      /\ Cells(FlattenSeq(qs)) = UNION {Cells(qs[i]) : i \in 1 .. Len(qs)}
  BY <1>3, FlattenAscends
<1>5. ASSUME NEW t \in Cells(FlattenSeq(qs)) PROVE \E e \in Cells(es) : Inside(t, e)
  <2>1. PICK i \in 1 .. Len(es) : t \in Cells(qs[i])
    BY <1>1, <1>4
  <2>2. es[i] \in Cells(es) /\ Inside(t, es[i])
    BY <1>1, <2>1 DEF Cells
  <2>. QED  BY <2>2
<1>. QED
  BY <1>4, <1>5 DEF Within

LEMMA CutPiece ==
  ASSUME NEW e \in Ext, NEW keep \in Nat
  PROVE  /\ Len(Cut(e, keep)) <= 1 /\ Ascends(Cut(e, keep))
         /\ \A t \in Cells(Cut(e, keep)) : Inside(t, e)
<1>1. e.l \in Nat /\ e.p \in Nat \ {0} /\ e.n \in Nat \ {0}
  BY DEF Ext
<1>2. Inside(e, e)
  BY <1>1 DEF Inside
<1>3. Len(<<>>) = 0
  OBVIOUS
<1>4. CASE keep >= e.l + e.n
  <2>1. Cut(e, keep) = <<e>>
    BY <1>4 DEF Cut
  <2>. QED  BY <1>2, <2>1, AscendsOne
<1>5. CASE keep <= e.l
  <2>1. Cut(e, keep) = <<>>
    BY <1>1, <1>5 DEF Cut
  <2>. QED  BY <1>3, <2>1, AscendsEmpty
<1>6. CASE e.l < keep /\ keep < e.l + e.n
  <2> DEFINE n == keep - e.l
             c == Extent(e.l, e.p, n)
  <2>1. n \in Nat \ {0} /\ n < e.n
    BY <1>1, <1>6
  <2>2. Cut(e, keep) = <<c>>
    BY <1>1, <1>6 DEF Cut
  <2> HIDE DEF n
  <2>3. c \in Ext /\ c.l = e.l /\ c.n = n
    BY <1>1, <2>1, ExtentIn
  <2> HIDE DEF c
  <2>4. Inside(c, e)
    BY <1>1, <2>1, <2>3 DEF Inside
  <2>. QED  BY <2>2, <2>3, <2>4, AscendsOne
<1>. QED
  BY <1>1, <1>4, <1>5, <1>6

Parted(e, a, b) == e.l < a /\ b < e.l + e.n

LEMMA HolePiece ==
  ASSUME NEW e \in Ext, NEW a \in Nat, NEW b \in Nat, a < b
  PROVE  /\ Len(Hole(e, a, b)) <= IF Parted(e, a, b) THEN 2 ELSE 1
         /\ Ascends(Hole(e, a, b))
         /\ \A t \in Cells(Hole(e, a, b)) : Inside(t, e)
<1>1. e.l \in Nat /\ e.p \in Nat \ {0} /\ e.n \in Nat \ {0}
  BY DEF Ext
<1>2. Inside(e, e)
  BY <1>1 DEF Inside
<1>3. CASE b <= e.l \/ a >= e.l + e.n
  <2>1. Hole(e, a, b) = <<e>>
    BY <1>3 DEF Hole
  <2>. QED  BY <1>2, <2>1, AscendsOne
<1>4. CASE ~(b <= e.l \/ a >= e.l + e.n)
  <2> DEFINE x == Extent(e.l, e.p, a - e.l)
             y == Extent(b, e.p + (b - e.l), e.l + e.n - b)
             u == IF a > e.l THEN <<x>> ELSE <<>>
             v == IF b < e.l + e.n THEN <<y>> ELSE <<>>
  <2>1. Hole(e, a, b) = u \o v
    BY <1>4 DEF Hole
  <2>2. a > e.l => x \in Ext /\ Inside(x, e) /\ x.l + x.n = a
    <3> DEFINE n == a - e.l
    <3>1. SUFFICES ASSUME a > e.l PROVE x \in Ext /\ Inside(x, e) /\ x.l + x.n = a
      OBVIOUS
    <3>2. n \in Nat \ {0} /\ n <= e.n /\ e.l + n = a
      BY <1>1, <1>4, <3>1
    <3> HIDE DEF n
    <3>3. Extent(e.l, e.p, n) \in Ext /\ Extent(e.l, e.p, n).l = e.l /\ Extent(e.l, e.p, n).n = n
      BY <1>1, <3>2, ExtentIn
    <3>4. x = Extent(e.l, e.p, n)
      BY DEF n
    <3> HIDE DEF x
    <3>. QED  BY <1>1, <3>2, <3>3, <3>4 DEF Inside
  <2>3. b < e.l + e.n => y \in Ext /\ Inside(y, e) /\ y.l = b
    <3> DEFINE q == e.p + (b - e.l)
               n == e.l + e.n - b
    <3>1. SUFFICES ASSUME b < e.l + e.n PROVE y \in Ext /\ Inside(y, e) /\ y.l = b
      OBVIOUS
    <3>2. n \in Nat \ {0} /\ b + n = e.l + e.n /\ e.l <= b /\ n <= e.n
      BY <1>1, <1>4, <3>1
    <3>3. q \in Nat \ {0}
      BY <1>1, <1>4
    <3> HIDE DEF n, q
    <3>4. Extent(b, q, n) \in Ext /\ Extent(b, q, n).l = b /\ Extent(b, q, n).n = n
      BY <3>2, <3>3, ExtentIn
    <3>5. y = Extent(b, q, n)
      BY DEF n, q
    <3> HIDE DEF y
    <3>. QED  BY <1>1, <3>2, <3>4, <3>5 DEF Inside
  <2> HIDE DEF x, y
  <2>4. /\ u \in Seq(Ext) /\ Ascends(u) /\ Len(u) = (IF a > e.l THEN 1 ELSE 0)
        /\ \A t \in Cells(u) : Inside(t, e) /\ t.l + t.n = a
    <3>1. CASE a > e.l
      BY <2>2, <3>1, AscendsOne, RelSingle
    <3>2. CASE ~(a > e.l)
      BY <3>2, AscendsEmpty, RelEmpty
    <3>. QED  BY <3>1, <3>2
  <2>5. /\ v \in Seq(Ext) /\ Ascends(v) /\ Len(v) = (IF b < e.l + e.n THEN 1 ELSE 0)
        /\ \A t \in Cells(v) : Inside(t, e) /\ t.l = b
    <3>1. CASE b < e.l + e.n
      BY <2>3, <3>1, AscendsOne, RelSingle
    <3>2. CASE ~(b < e.l + e.n)
      BY <3>2, AscendsEmpty, RelEmpty
    <3>. QED  BY <3>1, <3>2
  <2> HIDE DEF u, v
  <2>6. Before(Cells(u), Cells(v))
    BY <2>4, <2>5 DEF Before
  <2>7. Ascends(u \o v)
    BY <2>4, <2>5, <2>6, ConcatAscends
  <2>8. Cells(u \o v) = Cells(u) \cup Cells(v) /\ Len(u \o v) = Len(u) + Len(v)
    BY <2>4, <2>5, ConcatCells
  <2>9. Len(u \o v) <= IF Parted(e, a, b) THEN 2 ELSE 1
    BY <1>1, <2>4, <2>5, <2>8 DEF Parted
  <2>. QED  BY <2>1, <2>4, <2>5, <2>7, <2>8, <2>9
<1>. QED
  BY <1>3, <1>4

LEMMA CutAllLength ==
  ASSUME NEW es \in Seq(Ext), NEW keep \in Nat
  PROVE  Len(CutAll(es, keep)) <= Len(es)
<1> DEFINE f == [i \in 1 .. Len(es) |-> Cut(es[i], keep)]
<1>1. Len(es) \in Nat /\ \A i \in 1 .. Len(es) : es[i] \in Ext
  BY LenProperties, ElementOfSeq
<1>2. \A i \in 1 .. Len(es) : Cut(es[i], keep) \in Seq(Ext) /\ Len(Cut(es[i], keep)) <= 1
  BY <1>1, CutOne, CutPiece
<1>3. f \in Leaves /\ Len(f) = Len(es)
  BY <1>1, <1>2 DEF Leaves
<1>4. Short(f, 0)
  BY <1>1, <1>2, <1>3 DEF Short
<1>5. CutAll(es, keep) = FlattenSeq(f)
  BY DEF CutAll
<1> HIDE DEF f
<1>6. Len(FlattenSeq(f)) <= Room(Len(f), 0)
  BY <1>3, <1>4, FlattenLength
<1>7. Room(Len(f), 0) = Len(es)
  BY <1>1, <1>3 DEF Room
<1>. QED
  BY <1>5, <1>6, <1>7

LEMMA CutAllAscends ==
  ASSUME NEW es \in Seq(Ext), NEW keep \in Nat, Ascends(es)
  PROVE  Ascends(CutAll(es, keep)) /\ Within(CutAll(es, keep), es)
<1> DEFINE f == [i \in 1 .. Len(es) |-> Cut(es[i], keep)]
<1>1. Len(es) \in Nat /\ \A i \in 1 .. Len(es) : es[i] \in Ext
  BY LenProperties, ElementOfSeq
<1>2. \A i \in 1 .. Len(es) : Cut(es[i], keep) \in Seq(Ext)
  BY <1>1, CutOne
<1>3. \A i \in 1 .. Len(es) : /\ Ascends(Cut(es[i], keep))
                              /\ \A t \in Cells(Cut(es[i], keep)) : Inside(t, es[i])
  BY <1>1, CutPiece
<1>4. f \in Leaves /\ Len(f) = Len(es)
  BY <1>1, <1>2 DEF Leaves
<1>5. Splits(f, es)
  BY <1>3, <1>4 DEF Splits
<1>6. CutAll(es, keep) = FlattenSeq(f)
  BY DEF CutAll
<1> HIDE DEF f
<1>. QED
  BY <1>4, <1>5, <1>6, SplitsAscend

(* A hole splits one extent at most.                                          *)
LEMMA HoleAllAscends ==
  ASSUME NEW es \in Seq(Ext), NEW a \in Nat, NEW b \in Nat, a < b, Ascends(es)
  PROVE  /\ Ascends(HoleAll(es, a, b)) /\ Within(HoleAll(es, a, b), es)
         /\ Len(HoleAll(es, a, b)) <= Len(es) + 1
         /\ (\A i \in 1 .. Len(es) : ~Parted(es[i], a, b)) => Len(HoleAll(es, a, b)) <= Len(es)
<1> DEFINE f == [i \in 1 .. Len(es) |-> Hole(es[i], a, b)]
           C == {i \in 1 .. Len(es) : Parted(es[i], a, b)}
<1>1. Len(es) \in Nat /\ \A i \in 1 .. Len(es) : es[i] \in Ext
  BY LenProperties, ElementOfSeq
<1>2. \A i \in 1 .. Len(es) : Hole(es[i], a, b) \in Seq(Ext)
  BY <1>1, HoleOne
<1>3. \A i \in 1 .. Len(es) : /\ Ascends(Hole(es[i], a, b))
                              /\ \A t \in Cells(Hole(es[i], a, b)) : Inside(t, es[i])
  BY <1>1, HolePiece
<1>4. f \in Leaves /\ Len(f) = Len(es)
  BY <1>1, <1>2 DEF Leaves
<1>5. Splits(f, es)
  BY <1>3, <1>4 DEF Splits
<1>6. HoleAll(es, a, b) = FlattenSeq(f)
  BY DEF HoleAll
<1>7. \A i \in 1 .. Len(es) : f[i] = Hole(es[i], a, b)
  OBVIOUS
<1> HIDE DEF f
<1>8. \A i, j \in C : i = j
  <2>1. SUFFICES ASSUME NEW i \in C, NEW j \in C, i < j PROVE FALSE
    BY <1>1
  <2>2. i \in 1 .. Len(es) /\ j \in 1 .. Len(es)
    OBVIOUS
  <2> DEFINE c == es[i]
             d == es[j]
  <2>3. c \in Ext /\ d \in Ext /\ c.l + c.n <= d.l /\ Parted(c, a, b) /\ Parted(d, a, b)
    BY <1>1, <2>1, <2>2 DEF Ascends
  <2> HIDE DEF c, d
  <2>4. c.l \in Nat /\ c.n \in Nat /\ d.l \in Nat
    BY <2>3 DEF Ext
  <2>. QED  BY <2>3, <2>4 DEF Parted
<1>9. \A i \in 1 .. Len(es) : Len(f[i]) <= IF i \in C THEN 2 ELSE 1
  BY <1>1, <1>7, HolePiece
<1> HIDE DEF C
<1>10. CASE C = {}
  <2>1. Short(f, 0)
    BY <1>1, <1>4, <1>9, <1>10 DEF Short
  <2>2. Len(FlattenSeq(f)) <= Room(Len(f), 0)
    BY <1>4, <2>1, FlattenLength
  <2>3. Room(Len(f), 0) = Len(es)
    BY <1>1, <1>4 DEF Room
  <2>4. FlattenSeq(f) \in Seq(Ext)
    BY <1>4, FlattenRel
  <2>5. Len(FlattenSeq(f)) \in Nat
    BY <2>4, LenProperties
  <2>6. Len(HoleAll(es, a, b)) <= Len(es) /\ Len(HoleAll(es, a, b)) <= Len(es) + 1
    BY <1>1, <1>6, <2>2, <2>3, <2>5
  <2>. QED  BY <1>4, <1>5, <1>6, <2>6, SplitsAscend
<1>11. CASE C # {}
  <2>1. PICK k \in C : TRUE
    BY <1>11
  <2>2. k \in 1 .. Len(es) /\ k \in Nat /\ Parted(es[k], a, b)
    BY <2>1 DEF C
  <2>3. Short(f, k)
    BY <1>4, <1>8, <1>9, <2>1 DEF Short
  <2>4. Len(FlattenSeq(f)) <= Room(Len(f), k)
    BY <1>4, <2>2, <2>3, FlattenLength
  <2>5. Room(Len(f), k) = Len(es) + 1
    BY <1>1, <1>4, <2>2 DEF Room
  <2>. QED  BY <1>4, <1>5, <1>6, <2>2, <2>4, <2>5, SplitsAscend
<1>. QED
  BY <1>10, <1>11
-----------------------------------------------------------------------------
(* What a tree that is stored must be: in order, and within its bounds.       *)
Fitting(es) == Len(es) <= PerBlock /\ \A e \in Cells(es) : e.n <= MaxLen
Bounded(ss) ==
  /\ Chain(ss)
  /\ Len(ss) <= RootRefs
  /\ \A i \in 1 .. Len(ss) : Fitting(ss[i])

LEMMA AscendingOrder ==
  ASSUME NEW S \in SUBSET Nat, IsFiniteSet(S)
  PROVE  \A i, j \in 1 .. Cardinality(S) : i < j => Ascending(S)[i] < Ascending(S)[j]
<1> DEFINE n == Cardinality(S)
<1>1. PICK h : Enumerates(S, h)
  BY AscendingExists
<1>2. h \in [1 .. n -> S] /\ \A i, j \in 1 .. n : i < j => h[i] < h[j]
  BY <1>1 DEF Enumerates
<1> HIDE DEF n
<1>. QED
  BY <1>2 DEF Ascending, n

(* Leaves that go leave the rest as it was.                                   *)
LEMMA DropLeavesBounded ==
  ASSUME NEW x \in Mapping, NEW ls \in Leaves, Bounded(ls)
  PROVE  Bounded(DropLeaves(x, ls).leaves)
<1> DEFINE n == Len(ls)
           D == DOMAIN ls \ Emptied(ls)
           live == Ascending(D)
           k == Cardinality(D)
           u == [i \in 1 .. k |-> ls[live[i]]]
           v == [i \in 1 .. k |-> x.lblk[live[i]]]
<1>1. n \in Nat /\ DOMAIN ls = 1 .. n /\ \A i \in 1 .. n : ls[i] \in Seq(Ext)
  BY LenProperties, ElementOfSeq DEF Leaves
<1>2. /\ D \in SUBSET (1 .. n) /\ IsFiniteSet(1 .. n) /\ Cardinality(1 .. n) = n
      /\ D \in SUBSET Nat
  <2>1. 1 \in Int /\ n \in Int /\ (1 > n => n = 0) /\ n - 1 + 1 = n
    BY <1>1
  <2>2. IsFiniteSet(1 .. n) /\ Cardinality(1 .. n) = n
    BY <2>1, FS_Interval
  <2>. QED  BY <1>1, <2>2
<1> HIDE DEF D, n
<1>3. IsFiniteSet(D) /\ Cardinality(D) <= n
  BY <1>2, FS_Subset
<1>4. /\ k \in Nat /\ live \in [1 .. k -> D]
      /\ \A i, j \in 1 .. k : i < j => live[i] < live[j]
  BY <1>2, <1>3, AscendingIs, AscendingOrder
<1>5. k <= n
  BY <1>3
<1> HIDE DEF k, live
<1>6. \A i \in 1 .. k : live[i] \in 1 .. n
  BY <1>2, <1>4
<1>7. DropLeaves(x, ls).leaves = u
  <2>1. Len(live) = k
    BY <1>4
  <2>2. DropLeaves(x, ls) = [x EXCEPT !.leaves = [i \in 1 .. Len(live) |-> ls[live[i]]],
                                      !.lblk = [i \in 1 .. Len(live) |-> x.lblk[live[i]]]]
    BY DEF DropLeaves, live, D
  <2>3. DropLeaves(x, ls) = WithLeaves(x, u, v)
    BY <2>1, <2>2 DEF WithLeaves
  <2> HIDE DEF u, v
  <2>. QED  BY <2>3, WithLeavesIs
<1>8. Len(u) = k /\ \A i \in 1 .. k : u[i] = ls[live[i]]
  BY <1>4
<1> HIDE DEF u
<1>9. /\ \A i \in 1 .. n : Ascends(ls[i]) /\ Fitting(ls[i])
      /\ \A i, j \in 1 .. n : i < j => Before(Cells(ls[i]), Cells(ls[j]))
      /\ n <= RootRefs
  BY DEF Bounded, Chain, n
<1>10. k <= RootRefs
  <2>1. RootRefs \in Nat /\ n \in Nat
    BY <1>1, ExtentAssumption DEF ExtentAssumption
  <2>. QED  BY <1>4, <1>5, <1>9, <2>1
<1>11. \A i \in 1 .. k : Ascends(u[i]) /\ Fitting(u[i])
  BY <1>6, <1>8, <1>9
<1>12. \A i, j \in 1 .. k : i < j => Before(Cells(u[i]), Cells(u[j]))
  BY <1>4, <1>6, <1>8, <1>9
<1>13. Bounded(u)
  BY <1>8, <1>10, <1>11, <1>12 DEF Bounded, Chain
<1>. QED
  BY <1>7, <1>13

(* Truncate and punch keep a tree within its bounds.                          *)
LEMMA NarrowsBounded ==
  ASSUME NEW ss \in Leaves, NEW ls \in Leaves, Bounded(ss), Narrows(ls, ss),
         \A i \in 1 .. Len(ss) : Len(ls[i]) <= PerBlock
  PROVE  Bounded(ls)
<1>1. Len(ls) = Len(ss) /\ \A i \in 1 .. Len(ss) : Within(ls[i], ss[i])
  BY DEF Narrows
<1>2. Chain(ls)
  BY ChainWithin DEF Bounded
<1>3. ASSUME NEW i \in 1 .. Len(ss) PROVE Fitting(ls[i])
  <2> DEFINE u == ls[i]
             s == ss[i]
  <2>1. u \in Seq(Ext) /\ s \in Seq(Ext)
    BY <1>1, ElementOfSeq DEF Leaves
  <2>2. Within(u, s) /\ Len(u) <= PerBlock /\ \A e \in Cells(s) : e.n <= MaxLen
    BY <1>1 DEF Bounded, Fitting
  <2> HIDE DEF u, s
  <2>3. ASSUME NEW t \in Cells(u) PROVE t.n <= MaxLen
    <3>1. PICK e \in Cells(s) : Inside(t, e)
      BY <2>2 DEF Within
    <3>2. t.n \in Nat /\ e.n \in Nat /\ MaxLen \in Nat
      BY <2>1, CellsExt, ExtentAssumption DEF ExtentAssumption
    <3>3. t.n <= e.n /\ e.n <= MaxLen
      BY <2>2, <3>1 DEF Inside
    <3>. QED  BY <3>2, <3>3
  <2>4. Fitting(u)
    BY <2>2, <2>3 DEF Fitting
  <2>. QED  BY <2>4 DEF u
<1>. QED
  BY <1>1, <1>2, <1>3 DEF Bounded

LEMMA FreeTreeBounded ==
  ASSUME NEW x \in Mapping, Bounded(x.leaves), NEW keep \in Nat
  PROVE  Bounded(DropLeaves(x, [i \in 1 .. Len(x.leaves) |-> CutAll(x.leaves[i], keep)]).leaves)
<1> DEFINE ss == x.leaves
           ls == [i \in 1 .. Len(ss) |-> CutAll(ss[i], keep)]
<1>1. ss \in Leaves /\ Bounded(ss)
  BY DEF Mapping
<1> HIDE DEF ss
<1>2. Len(ss) \in Nat /\ \A i \in 1 .. Len(ss) : ss[i] \in Seq(Ext) /\ Len(ss[i]) \in Nat
  BY <1>1, LenProperties, ElementOfSeq DEF Leaves
<1>3. \A i \in 1 .. Len(ss) : CutAll(ss[i], keep) \in Seq(Ext)
  BY <1>2, CutAllRel
<1>4. ls \in Leaves /\ Len(ls) = Len(ss) /\ \A i \in 1 .. Len(ss) : ls[i] = CutAll(ss[i], keep)
  BY <1>2, <1>3 DEF Leaves
<1> HIDE DEF ls
<1>5. ASSUME NEW i \in 1 .. Len(ss)
      PROVE  Ascends(ls[i]) /\ Within(ls[i], ss[i]) /\ Len(ls[i]) <= PerBlock
  <2> DEFINE s == ss[i]
             c == CutAll(s, keep)
  <2>1. s \in Seq(Ext) /\ c \in Seq(Ext) /\ Ascends(s) /\ Len(s) <= PerBlock
    BY <1>1, <1>2, <1>3 DEF Bounded, Chain, Fitting
  <2> HIDE DEF s
  <2>2. Ascends(c) /\ Within(c, s) /\ Len(c) <= Len(s)
    BY <2>1, CutAllAscends, CutAllLength
  <2> HIDE DEF c
  <2>3. Len(c) \in Nat /\ Len(s) \in Nat /\ PerBlock \in Nat
    BY <2>1, LenProperties, Constants
  <2>4. Len(c) <= PerBlock
    BY <2>1, <2>2, <2>3
  <2>. QED  BY <1>4, <2>2, <2>4 DEF c, s
<1>6. Narrows(ls, ss)
  BY <1>4, <1>5 DEF Narrows
<1>7. Bounded(ls)
  BY <1>1, <1>4, <1>5, <1>6, NarrowsBounded
<1>8. Bounded(DropLeaves(x, ls).leaves)
  BY <1>4, <1>7, DropLeavesBounded
<1>. QED
  BY <1>8 DEF ls, ss

LEMMA PunchTreeBounded ==
  ASSUME NEW x \in Mapping, Bounded(x.leaves), NEW a \in Nat, NEW b \in Nat, a < b,
         ~SplitsFullLeaf(x, a, b)
  PROVE  Bounded(DropLeaves(x, [i \in 1 .. Len(x.leaves) |-> HoleAll(x.leaves[i], a, b)]).leaves)
<1> DEFINE ss == x.leaves
           ls == [i \in 1 .. Len(ss) |-> HoleAll(ss[i], a, b)]
<1>1. ss \in Leaves /\ Bounded(ss)
  BY DEF Mapping
<1>2. \A i \in 1 .. Len(ss) : Len(ss[i]) >= PerBlock =>
                              \A k \in 1 .. Len(ss[i]) : ~Parted(ss[i][k], a, b)
  BY DEF SplitsFullLeaf, Parted
<1> HIDE DEF ss
<1>3. Len(ss) \in Nat /\ \A i \in 1 .. Len(ss) : ss[i] \in Seq(Ext) /\ Len(ss[i]) \in Nat
  BY <1>1, LenProperties, ElementOfSeq DEF Leaves
<1>4. \A i \in 1 .. Len(ss) : HoleAll(ss[i], a, b) \in Seq(Ext)
  BY <1>3, HoleAllRel
<1>5. ls \in Leaves /\ Len(ls) = Len(ss) /\ \A i \in 1 .. Len(ss) : ls[i] = HoleAll(ss[i], a, b)
  BY <1>3, <1>4 DEF Leaves
<1> HIDE DEF ls
<1>6. ASSUME NEW i \in 1 .. Len(ss)
      PROVE  Ascends(ls[i]) /\ Within(ls[i], ss[i]) /\ Len(ls[i]) <= PerBlock
  <2> DEFINE s == ss[i]
             c == HoleAll(s, a, b)
  <2>1. s \in Seq(Ext) /\ c \in Seq(Ext) /\ Ascends(s) /\ Len(s) <= PerBlock
    BY <1>1, <1>3, <1>4 DEF Bounded, Chain, Fitting
  <2>2. Len(s) >= PerBlock => \A k \in 1 .. Len(s) : ~Parted(s[k], a, b)
    BY <1>2
  <2> HIDE DEF s
  <2>3. Ascends(c) /\ Within(c, s) /\ Len(c) <= Len(s) + 1
        /\ ((\A k \in 1 .. Len(s) : ~Parted(s[k], a, b)) => Len(c) <= Len(s))
    BY <2>1, HoleAllAscends
  <2> HIDE DEF c
  <2>4. Len(c) \in Nat /\ Len(s) \in Nat /\ PerBlock \in Nat
    BY <2>1, LenProperties, Constants
  <2>5. Len(c) <= PerBlock
    <3>1. CASE Len(s) >= PerBlock
      <4>1. Len(c) <= Len(s)
        BY <2>2, <2>3, <3>1
      <4>. QED  BY <2>1, <2>4, <4>1
    <3>2. CASE ~(Len(s) >= PerBlock)
      BY <2>3, <2>4, <3>2
    <3>. QED  BY <3>1, <3>2
  <2>. QED  BY <1>5, <2>3, <2>5 DEF c, s
<1>7. Narrows(ls, ss)
  BY <1>5, <1>6 DEF Narrows
<1>8. Bounded(ls)
  BY <1>1, <1>5, <1>6, <1>7, NarrowsBounded
<1>9. Bounded(DropLeaves(x, ls).leaves)
  BY <1>5, <1>8, DropLeavesBounded
<1>. QED
  BY <1>9 DEF ls, ss

(* An extent put between those before it and those behind it.                 *)
LEMMA SplitAscends ==
  ASSUME NEW a \in Seq(Ext), NEW b \in Seq(Ext), Ascends(a \o b)
  PROVE  Ascends(a) /\ Ascends(b) /\ Before(Cells(a), Cells(b))
<1> DEFINE c == a \o b
           j == Len(a)
           k == Len(b)
<1>1. j \in Nat /\ k \in Nat /\ Len(c) = j + k
      /\ \A i \in 1 .. j + k : c[i] = IF i <= j THEN a[i] ELSE b[i - j]
  BY LenProperties, ConcatProperties
<1>2. Ascends(c)
  OBVIOUS
<1> HIDE DEF c
<1>3. \A i \in 1 .. j : i \in 1 .. j + k /\ c[i] = a[i]
  BY <1>1
<1>4. ASSUME NEW i \in 1 .. k PROVE j + i \in 1 .. j + k /\ c[j + i] = b[i]
  <2> DEFINE q == j + i
  <2>1. q \in 1 .. j + k /\ ~(q <= j) /\ q - j = i
    BY <1>1
  <2> HIDE DEF q
  <2>2. c[q] = b[i]
    BY <1>1, <2>1
  <2>. QED  BY <2>1, <2>2 DEF q
<1>5. \A i, h \in 1 .. j + k : i < h => c[i].l + c[i].n <= c[h].l
  BY <1>1, <1>2 DEF Ascends
<1>6. Ascends(a)
  BY <1>3, <1>5 DEF Ascends
<1>7. ASSUME NEW i \in 1 .. k, NEW h \in 1 .. k, i < h PROVE b[i].l + b[i].n <= b[h].l
  <2>1. j + i < j + h
    BY <1>1, <1>7
  <2>. QED  BY <1>4, <1>5, <2>1
<1>8. ASSUME NEW i \in 1 .. j, NEW h \in 1 .. k PROVE a[i].l + a[i].n <= b[h].l
  <2>1. i < j + h
    BY <1>1
  <2>. QED  BY <1>3, <1>4, <1>5, <2>1
<1>. QED
  BY <1>6, <1>7, <1>8 DEF Ascends, Before, Cells

Between(es, k, e) ==
  \A h \in 1 .. Len(es) : IF h < k THEN es[h].l + es[h].n <= e.l ELSE e.l + e.n <= es[h].l

LEMMA InsertAscends ==
  ASSUME NEW es \in Seq(Ext), NEW k \in 1 .. Len(es) + 1, NEW e \in Ext, Ascends(es),
         Between(es, k, e)
  PROVE  LET w == InsertAt(es, k, e)
         IN  w \in Seq(Ext) /\ Ascends(w) /\ Cells(w) = Cells(es) \cup {e} /\ Len(w) = Len(es) + 1
<1> DEFINE n == k - 1
           a == SubSeq(es, 1, n)
           b == SubSeq(es, n + 1, Len(es))
<1>1. Len(es) \in Nat
  BY LenProperties
<1>2. n \in 0 .. Len(es) /\ n + 1 = k
  BY <1>1
<1> HIDE DEF n
<1>3. a \in Seq(Ext) /\ b \in Seq(Ext) /\ Len(a) = n /\ Len(b) = Len(es) - n /\ es = a \o b
  BY <1>2, RelSplit
<1>4. InsertAt(es, k, e) = a \o <<e>> \o b
  BY <1>2 DEF InsertAt, n
<1> HIDE DEF a, b
<1>5. Ascends(a) /\ Ascends(b) /\ Before(Cells(a), Cells(b))
  <2>1. Ascends(a \o b)
    BY <1>3
  <2>. QED  BY <1>3, <2>1, SplitAscends
<1>6. \A i \in 1 .. Len(es) : es[i] = IF i <= n THEN a[i] ELSE b[i - n]
  <2> DEFINE c == a \o b
  <2>1. Len(c) = Len(a) + Len(b)
        /\ \A i \in 1 .. Len(a) + Len(b) : c[i] = IF i <= Len(a) THEN a[i] ELSE b[i - Len(a)]
    BY <1>3, ConcatProperties
  <2>2. es = c
    BY <1>3
  <2> HIDE DEF c
  <2>. QED  BY <1>3, <2>1, <2>2
<1>7. Before(Cells(a), {e})
  <2>1. ASSUME NEW i \in 1 .. n PROVE a[i].l + a[i].n <= e.l
    <3>1. i \in 1 .. Len(es) /\ i < k /\ es[i] = a[i]
      BY <1>1, <1>2, <1>6
    <3>. QED  BY <3>1 DEF Between
  <2>. QED  BY <1>3, <2>1 DEF Before, Cells
<1>8. Before({e}, Cells(b))
  <2>1. ASSUME NEW i \in 1 .. Len(es) - n PROVE e.l + e.n <= b[i].l
    <3> DEFINE q == n + i
    <3>1. q \in 1 .. Len(es) /\ ~(q < k) /\ ~(q <= n) /\ q - n = i
      BY <1>1, <1>2
    <3> HIDE DEF q
    <3>2. es[q] = b[i]
      BY <1>6, <3>1
    <3>. QED  BY <3>1, <3>2 DEF Between
  <2>. QED  BY <1>3, <2>1 DEF Before, Cells
<1> DEFINE w == <<e>>
<1>9. w \in Seq(Ext) /\ Ascends(w) /\ Cells(w) = {e} /\ Len(w) = 1
  BY AscendsOne, RelSingle
<1> HIDE DEF w
<1> DEFINE c == a \o w
<1>10. c \in Seq(Ext) /\ Cells(c) = Cells(a) \cup {e} /\ Len(c) = n + 1
  <2>1. c \in Seq(Ext) /\ Cells(c) = Cells(a) \cup Cells(w) /\ Len(c) = Len(a) + Len(w)
    BY <1>3, <1>9, ConcatCells
  <2> HIDE DEF c
  <2>. QED  BY <1>3, <1>9, <2>1
<1>11. Ascends(c)
  BY <1>3, <1>5, <1>7, <1>9, ConcatAscends
<1> HIDE DEF c
<1>12. Before(Cells(c), Cells(b))
  BY <1>5, <1>8, <1>10 DEF Before
<1>13. Ascends(c \o b)
  BY <1>3, <1>5, <1>10, <1>11, <1>12, ConcatAscends
<1>14. c \o b \in Seq(Ext) /\ Cells(c \o b) = Cells(c) \cup Cells(b) /\ Len(c \o b) = Len(c) + Len(b)
  BY <1>3, <1>10, ConcatCells
<1>15. Cells(es) = Cells(a) \cup Cells(b)
  <2>1. Cells(a \o b) = Cells(a) \cup Cells(b)
    BY <1>3, ConcatCells
  <2>. QED  BY <1>3, <2>1
<1>16. Len(c \o b) = Len(es) + 1
  <2>1. Len(c \o b) = (n + 1) + (Len(es) - n)
    BY <1>3, <1>10, <1>14
  <2>. QED  BY <1>1, <1>2, <2>1
<1>17. Cells(c \o b) = Cells(es) \cup {e}
  BY <1>10, <1>14, <1>15
<1>18. InsertAt(es, k, e) = c \o b
  BY <1>4 DEF c, w
<1>. QED
  BY <1>13, <1>14, <1>16, <1>17, <1>18

(* One leaf of a tree changes by one extent.                                  *)
Gap(ss, k, e) ==
  /\ \A j \in 1 .. Len(ss) : j < k => Before(Cells(ss[j]), {e})
  /\ \A j \in 1 .. Len(ss) : k < j => Before({e}, Cells(ss[j]))
More(w, es, e) == Ascends(w) /\ Cells(w) \subseteq Cells(es) \cup {e} /\ Len(w) <= PerBlock

LEMMA ReplacedBounded ==
  ASSUME NEW ss \in Leaves, Bounded(ss), NEW k \in 1 .. Len(ss), NEW e \in Ext, e.n <= MaxLen,
         Gap(ss, k, e), NEW w \in Seq(Ext), More(w, ss[k], e)
  PROVE  Bounded(Replaced(ss, k, w))
<1> DEFINE v == [ss EXCEPT ![k] = w]
           es == ss[k]
<1>1. /\ Len(v) = Len(ss) /\ v[k] = w
      /\ \A i \in 1 .. Len(ss) : i # k => v[i] = ss[i]
  <2>1. ss \in Seq(Seq(Ext))
    BY DEF Leaves
  <2>. QED  BY <2>1, ExceptSeq
<1>2. Replaced(ss, k, w) = v
  BY DEF Replaced
<1> HIDE DEF v
<1>3. /\ \A i \in 1 .. Len(ss) : Ascends(ss[i]) /\ Fitting(ss[i])
      /\ \A i, j \in 1 .. Len(ss) : i < j => Before(Cells(ss[i]), Cells(ss[j]))
      /\ Len(ss) <= RootRefs
  BY DEF Bounded, Chain
<1>4. Ascends(w) /\ Cells(w) \subseteq Cells(es) \cup {e} /\ Len(w) <= PerBlock
  BY DEF More
<1>5. Fitting(w)
  BY <1>3, <1>4 DEF Fitting
<1>6. \A i \in 1 .. Len(ss) : Ascends(v[i]) /\ Fitting(v[i])
  BY <1>1, <1>3, <1>4, <1>5
<1>7. Len(ss) \in Nat
  BY LenProperties DEF Leaves
<1>8. ASSUME NEW i \in 1 .. Len(ss), NEW j \in 1 .. Len(ss), i < j
      PROVE  Before(Cells(v[i]), Cells(v[j]))
  <2>1. Before(Cells(ss[i]), Cells(ss[j]))
    BY <1>3, <1>8
  <2>2. CASE i = k
    <3>1. v[i] = w /\ v[j] = ss[j]
      BY <1>1, <1>8, <2>2
    <3>2. Before({e}, Cells(ss[j]))
      BY <1>8, <2>2 DEF Gap
    <3>. QED  BY <1>4, <2>1, <2>2, <3>1, <3>2 DEF Before
  <2>3. CASE j = k
    <3>1. v[j] = w /\ v[i] = ss[i]
      BY <1>1, <1>8, <2>3
    <3>2. Before(Cells(ss[i]), {e})
      BY <1>8, <2>3 DEF Gap
    <3>. QED  BY <1>4, <2>1, <2>3, <3>1, <3>2 DEF Before
  <2>4. CASE i # k /\ j # k
    BY <1>1, <2>1, <2>4
  <2>. QED  BY <2>2, <2>3, <2>4
<1>9. Bounded(v)
  BY <1>1, <1>3, <1>6, <1>8 DEF Bounded, Chain
<1>. QED
  BY <1>2, <1>9

(* A leaf is added behind the others.                                         *)
LEMMA AppendedBounded ==
  ASSUME NEW ss \in Leaves, Bounded(ss), Len(ss) < RootRefs, NEW e \in Ext, e.n <= MaxLen,
         \A j \in 1 .. Len(ss) : Before(Cells(ss[j]), {e})
  PROVE  Bounded(Append(ss, <<e>>))
<1> DEFINE w == <<e>>
           n == Len(ss)
<1>1. w \in Seq(Ext) /\ Ascends(w) /\ Cells(w) = {e} /\ Len(w) = 1
  BY AscendsOne, RelSingle
<1> HIDE DEF w
<1> DEFINE v == Append(ss, w)
<1>2. ss \in Seq(Seq(Ext)) /\ n \in Nat
  BY LenProperties DEF Leaves
<1>3. Len(v) = n + 1 /\ v[n + 1] = w /\ \A i \in 1 .. n : v[i] = ss[i]
  BY <1>1, <1>2, AppendProperties
<1> HIDE DEF v
<1>4. /\ \A i \in 1 .. n : Ascends(ss[i]) /\ Fitting(ss[i])
      /\ \A i, j \in 1 .. n : i < j => Before(Cells(ss[i]), Cells(ss[j]))
      /\ n < RootRefs /\ \A j \in 1 .. n : Before(Cells(ss[j]), {e})
  BY DEF Bounded, Chain
<1> HIDE DEF n
<1>5. RootRefs \in Nat /\ PerBlock \in Nat \ {0}
  BY ExtentAssumption DEF ExtentAssumption
<1>6. Fitting(w)
  BY <1>1, <1>5 DEF Fitting
<1>7. \A i \in 1 .. n + 1 : i \in 1 .. n \/ i = n + 1
  BY <1>2
<1>8. \A i \in 1 .. n + 1 : Ascends(v[i]) /\ Fitting(v[i])
  BY <1>1, <1>3, <1>4, <1>6, <1>7
<1>9. ASSUME NEW i \in 1 .. n + 1, NEW j \in 1 .. n + 1, i < j
      PROVE  Before(Cells(v[i]), Cells(v[j]))
  <2>1. i \in 1 .. n
    BY <1>2, <1>9
  <2>2. CASE j = n + 1
    <3>1. v[i] = ss[i] /\ Cells(v[j]) = {e}
      BY <1>1, <1>3, <2>1, <2>2
    <3>. QED  BY <1>4, <2>1, <3>1
  <2>3. CASE j \in 1 .. n
    BY <1>3, <1>4, <1>9, <2>1, <2>3
  <2>. QED  BY <1>7, <2>2, <2>3
<1>10. n + 1 <= RootRefs
  BY <1>2, <1>4, <1>5
<1>11. Bounded(v)
  BY <1>3, <1>8, <1>9, <1>10 DEF Bounded, Chain
<1>. QED
  BY <1>11 DEF v, w

LEMMA InsertBounded ==
  ASSUME NEW ss \in Leaves, Bounded(ss), NEW i \in 1 .. Len(ss), Len(ss[i]) < PerBlock,
         NEW k \in 1 .. Len(ss[i]) + 1, NEW e \in Ext, e.n <= MaxLen,
         Between(ss[i], k, e), Gap(ss, i, e)
  PROVE  Bounded(Replaced(ss, i, InsertAt(ss[i], k, e)))
<1> DEFINE es == ss[i]
           w == InsertAt(es, k, e)
<1>1. es \in Seq(Ext) /\ Ascends(es) /\ Len(es) < PerBlock /\ k \in 1 .. Len(es) + 1
      /\ Between(es, k, e)
  BY ElementOfSeq DEF Leaves, Bounded, Chain
<1> HIDE DEF es
<1>2. w \in Seq(Ext) /\ Ascends(w) /\ Cells(w) = Cells(es) \cup {e} /\ Len(w) = Len(es) + 1
  BY <1>1, InsertAscends
<1>3. Len(w) <= PerBlock
  BY <1>1, <1>2, LenProperties, Constants
<1> HIDE DEF w
<1>4. More(w, es, e)
  BY <1>2, <1>3 DEF More
<1>5. Bounded(Replaced(ss, i, w))
  BY <1>2, <1>4, ReplacedBounded DEF es
<1>. QED
  BY <1>5 DEF w, es

(* A new extent in a tree that does not cover its block and is not full.      *)
Uncovered(ss, l) == \A i \in 1 .. Len(ss) : \A e \in Cells(ss[i]) : ~Covers(e, l)

LEMMA SlotsAre ==
  ASSUME NEW x \in Mapping, Bounded(x.leaves), NEW l \in Nat, Uncovered(x.leaves, l),
         NEW j \in 1 .. Len(x.leaves), NEW h \in 1 .. Len(x.leaves[j])
  PROVE  LET c == x.leaves[j][h]
         IN  /\ c \in Cells(x.leaves[j]) /\ c \in Ext
             /\ IF <<j, h>> \in Slots(x, l) THEN l < c.l ELSE c.l + c.n <= l
<1> DEFINE ss == x.leaves
           c == ss[j][h]
<1>1. ss \in Leaves
  BY DEF Mapping
<1>2. ss[j] \in Seq(Ext) /\ Len(ss[j]) \in Nat
  BY <1>1, ElementOfSeq, LenProperties DEF Leaves
<1>3. c \in Ext /\ c \in Cells(ss[j])
  BY <1>2, ElementOfSeq DEF Cells
<1>4. c.l \in Nat /\ c.n \in Nat
  BY <1>3 DEF Ext
<1>5. Len(ss[j]) <= PerBlock /\ PerBlock \in Nat
  BY Constants DEF Bounded, Fitting
<1>6. h \in 1 .. PerBlock /\ h <= Len(ss[j])
  BY <1>2, <1>5
<1>7. <<j, h>> \in Slots(x, l) <=> l < c.l
  BY <1>6 DEF Slots
<1>8. ~Covers(c, l)
  BY <1>3 DEF Uncovered
<1> HIDE DEF c, ss
<1>9. CASE <<j, h>> \in Slots(x, l)
  BY <1>3, <1>7, <1>9 DEF c, ss
<1>10. CASE <<j, h>> \notin Slots(x, l)
  <2>1. c.l + c.n <= l
    BY <1>4, <1>7, <1>8, <1>10 DEF Covers
  <2>. QED  BY <1>3, <1>10, <2>1 DEF c, ss
<1>. QED
  BY <1>9, <1>10

LEMMA AppendTreeBounded ==
  ASSUME NEW x \in Mapping, Bounded(x.leaves), NEW l \in Nat, NEW p \in Nat \ {0}, NEW lb,
         Uncovered(x.leaves, l), ~TreeFull(x, l)
  PROVE  Bounded(AppendTree(x, l, p, lb).leaves)
<1> DEFINE e == Extent(l, p, 1)
           ss == x.leaves
           n == Len(ss)
           S == Slots(x, l)
<1>1. e \in Ext /\ e.l = l /\ e.n = 1 /\ e.n <= MaxLen
  <2>1. 1 \in Nat \ {0} /\ MaxLen \in Nat \ {0}
    BY ExtentAssumption DEF ExtentAssumption
  <2>2. e \in Ext /\ e.l = l /\ e.n = 1
    BY <2>1, ExtentIn
  <2> HIDE DEF e
  <2>. QED  BY <2>1, <2>2
<1> HIDE DEF e
<1>2. ss \in Leaves /\ n \in Nat /\ Bounded(ss) /\ \A i \in 1 .. n : ss[i] \in Seq(Ext)
  <2>1. ss \in Leaves
    BY DEF Mapping
  <2> HIDE DEF ss
  <2>2. n \in Nat /\ \A i \in 1 .. n : ss[i] \in Seq(Ext)
    BY <2>1, LenProperties, ElementOfSeq DEF Leaves
  <2>. QED  BY <2>1, <2>2 DEF ss
<1>3. \A j \in 1 .. n : Len(ss[j]) \in Nat /\ Len(ss[j]) <= PerBlock
  BY <1>2, LenProperties DEF Bounded, Fitting
<1>4. PerBlock \in Nat /\ RootRefs \in Nat
  BY ExtentAssumption DEF ExtentAssumption
<1>5. \A j \in 1 .. n : \A h \in 1 .. Len(ss[j]) :
        /\ ss[j][h] \in Cells(ss[j]) /\ ss[j][h] \in Ext
        /\ IF <<j, h>> \in S THEN l < ss[j][h].l ELSE ss[j][h].l + ss[j][h].n <= l
  BY SlotsAre
<1>6. \A c \in Ext : c.l \in Nat /\ c.n \in Nat
  BY DEF Ext
<1>7. CASE S = {}
  <2>1. ASSUME NEW j \in 1 .. n PROVE Before(Cells(ss[j]), {e})
    BY <1>1, <1>5, <1>7 DEF Before, Cells
  <2>2. CASE LastLeafFull(x)
    <3>1. n < RootRefs
      BY <1>2, <1>4, <1>7, <2>2 DEF TreeFull
    <3> DEFINE u == Append(ss, <<e>>)
               v == Append(x.lblk, lb)
    <3>2. AppendTree(x, l, p, lb) = WithLeaves(x, u, v)
      BY <1>7, <2>2 DEF AppendTree, NeedsLeaf, WithLeaves, e
    <3> HIDE DEF u, v, ss
    <3>3. AppendTree(x, l, p, lb).leaves = u
      BY <3>2, WithLeavesIs
    <3>4. Bounded(u)
      BY <1>1, <1>2, <2>1, <3>1, AppendedBounded DEF u
    <3>. QED  BY <3>3, <3>4
  <2>3. CASE ~LastLeafFull(x)
    <3> DEFINE k == Len(ss[n]) + 1
               w == InsertAt(ss[n], k, e)
               u == Replaced(ss, n, w)
    <3>1. ss # <<>> /\ ~(Len(Last(ss)) >= PerBlock)
      BY <2>3 DEF LastLeafFull
    <3>2. n \in 1 .. n
      <4>1. n # 0
        BY <1>2, <3>1, EmptySeq DEF Leaves
      <4>. QED  BY <1>2, <4>1
    <3>3. Last(ss) = ss[n]
      BY DEF Last
    <3>4. Len(ss[n]) < PerBlock /\ k \in 1 .. Len(ss[n]) + 1
      BY <1>3, <1>4, <3>1, <3>2, <3>3
    <3>5. AppendTree(x, l, p, lb) = [x EXCEPT !.leaves = u]
      BY <1>7, <2>3 DEF AppendTree, NeedsLeaf, Replaced, e
    <3>6. Between(ss[n], k, e)
      <4>1. ASSUME NEW h \in 1 .. Len(ss[n]) PROVE h < k /\ ss[n][h].l + ss[n][h].n <= e.l
        BY <1>1, <1>3, <1>5, <1>7, <3>2
      <4>. QED  BY <4>1 DEF Between
    <3>7. Gap(ss, n, e)
      <4>1. \A j \in 1 .. n : ~(n < j)
        BY <1>2
      <4>. QED  BY <2>1, <4>1 DEF Gap
    <3>8. Bounded(u)
      <4> HIDE DEF n, ss, k
      <4>. QED  BY <1>1, <1>2, <3>2, <3>4, <3>6, <3>7, InsertBounded DEF n
    <3> HIDE DEF u
    <3>9. AppendTree(x, l, p, lb) = WithLeaves(x, u, x.lblk)
      BY <3>5, WithLeavesOnly
    <3>10. AppendTree(x, l, p, lb).leaves = u
      BY <3>9, WithLeavesIs
    <3>. QED  BY <3>8, <3>10
  <2>. QED  BY <2>2, <2>3
<1>8. CASE S # {}
  <2> DEFINE s == First(S)
             i == s[1]
             k == s[2]
             w == InsertAt(ss[i], k, e)
             u == Replaced(ss, i, w)
  <2>1. S \in SUBSET (Nat \X Nat)
    BY DEF Slots
  <2>2. s \in S /\ \A o \in S : s[1] < o[1] \/ (s[1] = o[1] /\ s[2] <= o[2])
    <3> HIDE DEF S
    <3>. QED  BY <1>8, <2>1, FirstIn
  <2>3. s = <<i, k>> /\ i \in 1 .. n /\ k \in 1 .. Len(ss[i]) /\ l < ss[i][k].l
    <3>1. s = <<i, k>> /\ i \in 1 .. n /\ k \in 1 .. PerBlock /\ k <= Len(ss[i]) /\ l < ss[i][k].l
      <4>1. \A z : z \in S => /\ z = <<z[1], z[2]>> /\ z[1] \in 1 .. n /\ z[2] \in 1 .. PerBlock
                              /\ z[2] <= Len(ss[z[1]]) /\ l < ss[z[1]][z[2]].l
        BY DEF Slots
      <4> HIDE DEF S, s, n, ss
      <4>. QED  BY <2>2, <4>1
    <3>2. Len(ss[i]) \in Nat
      BY <1>3, <3>1
    <3> HIDE DEF s
    <3>3. k \in 1 .. Len(ss[i])
      BY <1>4, <3>1, <3>2
    <3>. QED  BY <3>1, <3>3
  <2>4. Len(ss[i]) < PerBlock
    <3>1. ~(Len(ss[i]) >= PerBlock)
      BY <1>8 DEF TreeFull
    <3>2. Len(ss[i]) \in Nat
      BY <1>3, <2>3
    <3>. QED  BY <1>4, <3>1, <3>2
  <2>5. AppendTree(x, l, p, lb) = [x EXCEPT !.leaves = u]
    BY <1>8 DEF AppendTree, NeedsLeaf, Replaced, e
  <2>6. \A j \in 1 .. n, h \in Nat : <<j, h>> \in S => i < j \/ (i = j /\ k <= h)
    BY <2>2
  <2> HIDE DEF s, S
  <2>7. Ascends(ss[i]) /\ i \in Nat /\ k \in Nat /\ Len(ss[i]) \in Nat
    BY <1>2, <1>3, <2>3 DEF Bounded, Chain
  <2>8. Between(ss[i], k, e)
    <3>1. ASSUME NEW h \in 1 .. Len(ss[i]), h < k PROVE ss[i][h].l + ss[i][h].n <= e.l
      <4>1. <<i, h>> \notin S
        BY <2>3, <2>6, <2>7, <3>1
      <4>. QED  BY <1>1, <1>5, <2>3, <4>1
    <3>2. ASSUME NEW h \in 1 .. Len(ss[i]), ~(h < k) PROVE e.l + e.n <= ss[i][h].l
      <4> DEFINE c == ss[i][k]
                 d == ss[i][h]
      <4>1. c \in Ext /\ d \in Ext /\ l < c.l
        BY <1>5, <2>3
      <4>2. h = k \/ c.l + c.n <= d.l
        BY <2>3, <2>7, <3>2 DEF Ascends
      <4>3. h = k => c = d
        OBVIOUS
      <4> HIDE DEF c, d
      <4>4. c.l \in Nat /\ c.n \in Nat /\ d.l \in Nat
        BY <1>6, <4>1
      <4>5. l + 1 <= d.l
        BY <4>1, <4>2, <4>3, <4>4
      <4>. QED  BY <1>1, <4>5 DEF d
    <3>. QED  BY <3>1, <3>2 DEF Between
  <2>9. Gap(ss, i, e)
    <3>1. ASSUME NEW j \in 1 .. n, j < i PROVE Before(Cells(ss[j]), {e})
      <4>1. ASSUME NEW h \in 1 .. Len(ss[j]) PROVE ss[j][h].l + ss[j][h].n <= e.l
        <5>1. <<j, h>> \notin S
          BY <2>6, <2>7, <3>1
        <5>. QED  BY <1>1, <1>5, <5>1
      <4>. QED  BY <4>1 DEF Before, Cells
    <3>2. ASSUME NEW j \in 1 .. n, i < j PROVE Before({e}, Cells(ss[j]))
      <4> DEFINE c == ss[i][k]
      <4>1. c \in Ext /\ c \in Cells(ss[i]) /\ l < c.l
        BY <1>5, <2>3
      <4>2. Before(Cells(ss[i]), Cells(ss[j]))
        BY <1>2, <2>3, <3>2 DEF Bounded, Chain
      <4> HIDE DEF c
      <4>3. ASSUME NEW d \in Cells(ss[j]) PROVE e.l + e.n <= d.l
        <5>1. c.l + c.n <= d.l
          BY <4>1, <4>2 DEF Before
        <5>2. ss[j] \in Seq(Ext)
          BY <1>2
        <5>3. d.l \in Nat /\ c.l \in Nat /\ c.n \in Nat
          BY <1>6, <4>1, <5>2, CellsExt
        <5>. QED  BY <1>1, <4>1, <5>1, <5>3
      <4>. QED  BY <4>3 DEF Before
    <3>. QED  BY <3>1, <3>2 DEF Gap
  <2>10. k \in 1 .. Len(ss[i]) + 1
    BY <2>3, <2>7
  <2> HIDE DEF i, k
  <2>11. Bounded(u)
    <3> HIDE DEF ss
    <3>. QED  BY <1>1, <1>2, <2>3, <2>4, <2>8, <2>9, <2>10, InsertBounded
  <2> HIDE DEF u
  <2>12. AppendTree(x, l, p, lb) = WithLeaves(x, u, x.lblk)
    BY <2>5, WithLeavesOnly
  <2>13. AppendTree(x, l, p, lb).leaves = u
    BY <2>12, WithLeavesIs
  <2>. QED  BY <2>11, <2>13
<1>. QED
  BY <1>7, <1>8

(* The last extent of a tree grows.                                           *)
GrownBy(w, es, g) ==
  /\ w \in Seq(Ext) /\ Len(w) = Len(es) /\ Ascends(w)
  /\ g \in Ext /\ g.l = es[Len(es)].l /\ g.n = es[Len(es)].n + 1
  /\ Cells(w) \subseteq Cells(es) \cup {g}

LEMMA GrownAscends ==
  ASSUME NEW es \in Seq(Ext), es # <<>>, Ascends(es)
  PROVE  \E g : GrownBy([es EXCEPT ![Len(es)].n = @ + 1], es, g)
<1> DEFINE k == Len(es)
           w == [es EXCEPT ![k].n = @ + 1]
           e == es[k]
           g == [e EXCEPT !.n = @ + 1]
<1>1. k \in Nat \ {0}
  BY LenProperties, EmptySeq
<1>2. k \in 1 .. Len(es)
  BY <1>1
<1>3. e \in Ext
  BY <1>2, ElementOfSeq
<1>4. g \in Ext /\ g.l = e.l /\ g.n = e.n + 1
  <2>1. ASSUME NEW x \in Ext, NEW n \in Nat \ {0}
        PROVE  LET y == [x EXCEPT !.n = n] IN y \in Ext /\ y.l = x.l /\ y.n = n
    BY DEF Ext
  <2>2. e.n + 1 \in Nat \ {0}
    BY <1>3 DEF Ext
  <2> HIDE DEF e
  <2>. QED  BY <1>3, <2>1, <2>2
<1>5. w = [es EXCEPT ![k] = g]
  OBVIOUS
<1> HIDE DEF g
<1>6. /\ w \in Seq(Ext) /\ Len(w) = Len(es) /\ w[k] = g
      /\ \A i \in 1 .. Len(es) : i # k => w[i] = es[i]
  <2> DEFINE v == [es EXCEPT ![k] = g]
  <2>1. /\ v \in Seq(Ext) /\ Len(v) = Len(es) /\ v[k] = g
        /\ \A i \in 1 .. Len(es) : i # k => v[i] = es[i]
    BY <1>2, <1>4, ExceptSeq
  <2> HIDE DEF v
  <2>. QED  BY <1>5, <2>1 DEF v
<1> HIDE DEF w
<1>7. Ascends(w)
  <2>1. SUFFICES ASSUME NEW i \in 1 .. k, NEW j \in 1 .. k, i < j PROVE w[i].l + w[i].n <= w[j].l
    BY <1>6 DEF Ascends
  <2>2. i # k
    BY <1>1, <2>1
  <2>3. es[i].l + es[i].n <= es[j].l
    BY <2>1 DEF Ascends
  <2>4. w[i] = es[i]
    BY <1>6, <2>2
  <2>5. w[j].l = es[j].l
    <3>1. CASE j = k
      BY <1>4, <1>6, <3>1
    <3>2. CASE j # k
      BY <1>6, <3>2
    <3>. QED  BY <3>1, <3>2
  <2>. QED  BY <2>3, <2>4, <2>5
<1>8. Cells(w) \subseteq Cells(es) \cup {g}
  <2>1. ASSUME NEW i \in 1 .. k PROVE w[i] \in Cells(es) \cup {g}
    <3>1. CASE i = k
      BY <1>6, <3>1
    <3>2. CASE i # k
      BY <1>6, <3>2 DEF Cells
    <3>. QED  BY <3>1, <3>2
  <2>. QED  BY <1>6, <2>1 DEF Cells
<1>9. GrownBy(w, es, g)
  BY <1>4, <1>6, <1>7, <1>8 DEF GrownBy
<1>. QED
  BY <1>9 DEF w

LEMMA MergeTreeBounded ==
  ASSUME NEW x \in Mapping, Tidy(x), fmt = "tree", Entries(x) # <<>>, LastEntry(x).n < MaxLen,
         Bounded(x.leaves)
  PROVE  Bounded(Merge(x).leaves)
<1> DEFINE ss == x.leaves
           n == Len(ss)
           es == ss[n]
           k == Len(es)
           w == [es EXCEPT ![k].n = @ + 1]
           u == Replaced(ss, n, w)
           y == Merge(x)
<1>1. ss \in Seq(Seq(Ext)) /\ Filled(ss) /\ ss \in Leaves /\ Bounded(ss)
  BY DEF Mapping, Leaves, Tidy
<1>2. Entries(x) = FlattenSeq(ss)
  BY DEF Entries, Lists
<1>3. ss # <<>>
  <2>1. SUFFICES ASSUME ss = <<>> PROVE FALSE
    OBVIOUS
  <2>2. FlattenSeq(ss) = <<>>
    <3>1. Len(ss) = 0
      BY <2>1
    <3>. QED  BY <2>1, <3>1 DEF FlattenSeq
  <2>. QED  BY <1>2, <2>2
<1>4. y = [x EXCEPT !.leaves = u]
  BY DEF Merge, Replaced, Last
<1> HIDE DEF y
<1>5. n \in 1 .. n /\ es \in Seq(Ext) /\ es # <<>>
  <2>1. n \in Nat \ {0}
    BY <1>1, <1>3, EmptySeq
  <2>2. n \in 1 .. n
    BY <2>1
  <2>. QED  BY <1>1, <2>2, ElementOfSeq DEF Filled
<1>6. LastEntry(x) = es[k] /\ k \in 1 .. k
  <2>1. PICK a \in Seq(Ext) : FlattenSeq(ss) = a \o es
    BY <1>1, <1>3, FlattenLast DEF Last
  <2> HIDE DEF es
  <2>2. Last(a \o es) = es[Len(es)] /\ Len(es) \in 1 .. Len(es)
    BY <1>5, LastOfConcat
  <2>. QED  BY <1>2, <2>1, <2>2 DEF LastEntry
<1>7. /\ Ascends(es) /\ Len(es) <= PerBlock /\ n \in Nat
      /\ \A j \in 1 .. n : j < n => Before(Cells(ss[j]), Cells(es))
  <2>1. n \in Nat
    BY <1>1, LenProperties
  <2>. QED  BY <1>1, <1>5, <2>1 DEF Bounded, Chain, Fitting
<1>8. es[k].n < MaxLen
  BY <1>6
<1> HIDE DEF ss, n, es
<1>9. PICK g : GrownBy(w, es, g)
  BY <1>5, <1>7, GrownAscends
<1>10. /\ w \in Seq(Ext) /\ Len(w) = Len(es) /\ Ascends(w)
       /\ g \in Ext /\ g.l = es[k].l /\ g.n = es[k].n + 1 /\ Cells(w) \subseteq Cells(es) \cup {g}
  BY <1>9 DEF GrownBy
<1> HIDE DEF w
<1>11. es[k] \in Cells(es) /\ es[k] \in Ext
  BY <1>5, <1>6, ElementOfSeq DEF Cells
<1>12. g.n <= MaxLen
  <2>1. MaxLen \in Nat /\ es[k].n \in Nat
    BY <1>11, ExtentAssumption DEF ExtentAssumption, Ext
  <2>. QED  BY <1>8, <1>10, <2>1
<1>13. Gap(ss, n, g)
  <2>1. ASSUME NEW j \in 1 .. n, j < n PROVE Before(Cells(ss[j]), {g})
    BY <1>7, <1>10, <1>11, <2>1 DEF Before
  <2>2. \A j \in 1 .. n : ~(n < j)
    BY <1>7
  <2>. QED  BY <2>1, <2>2 DEF Gap, n
<1>14. More(w, ss[n], g)
  BY <1>7, <1>10 DEF More, es
<1>15. Bounded(u)
  <2>1. n \in 1 .. Len(ss)
    BY <1>5 DEF n
  <2>. QED  BY <1>1, <1>10, <1>12, <1>13, <1>14, <2>1, ReplacedBounded
<1> HIDE DEF u
<1>16. y = WithLeaves(x, u, x.lblk)
  BY <1>4, WithLeavesOnly
<1>17. y.leaves = u
  BY <1>16, WithLeavesIs
<1>. QED
  BY <1>15, <1>17 DEF y
-----------------------------------------------------------------------------
(* The lists of the inode and of the overflow block stay within their bounds, *)
(* and the overflow block is there when it holds an extent.                   *)
Sized(x) ==
  /\ Len(x.inl) <= InlineMax /\ Len(x.ovf) <= PerBlock
  /\ x.ovb = 0 <=> x.ovf = <<>>
Fits(x) == Sized(x) /\ Bounded(x.leaves)

LEMMA ListLengths ==
  ASSUME NEW x \in Mapping
  PROVE  /\ Len(x.inl) \in Nat /\ Len(x.ovf) \in Nat /\ InlineMax \in Nat /\ PerBlock \in Nat
         /\ Len(x.ovf) = 0 <=> x.ovf = <<>>
<1>1. x.inl \in Seq(Ext) /\ x.ovf \in Seq(Ext)
  BY DEF Mapping
<1>2. InlineMax \in Nat /\ PerBlock \in Nat
  BY Constants DEF InlineMax
<1>. QED
  BY <1>1, <1>2, LenProperties, EmptySeq

LEMMA AppendListSized ==
  ASSUME NEW x \in Mapping, NEW l \in Nat, NEW p \in Nat \ {0}, NEW ob \in Nat,
         Sized(x), ~ListFull(x), ob # 0 \/ ~NeedsOverflow(x)
  PROVE  Sized(AppendList(x, l, p, ob)) /\ AppendList(x, l, p, ob).leaves = x.leaves
<1> DEFINE e == Extent(l, p, 1)
           y == AppendList(x, l, p, ob)
<1>1. e \in Ext
  <2>1. 1 \in Nat \ {0}
    OBVIOUS
  <2>. QED  BY <2>1, ExtentIn
<1>2. x.inl \in Seq(Ext) /\ x.ovf \in Seq(Ext) /\ x.ovb \in Nat
  BY DEF Mapping
<1>3. Len(x.inl) \in Nat /\ Len(x.ovf) \in Nat /\ InlineMax \in Nat /\ PerBlock \in Nat
  BY ListLengths
<1>4. Len(x.inl) <= InlineMax /\ Len(x.ovf) <= PerBlock /\ (x.ovb = 0 <=> x.ovf = <<>>)
  BY DEF Sized
<1>5. CASE Len(x.inl) < InlineMax
  <2> DEFINE u == Append(x.inl, e)
  <2>1. y = [x EXCEPT !.inl = u]
    BY <1>5 DEF AppendList
  <2>2. Len(u) = Len(x.inl) + 1
    <3> HIDE DEF e
    <3>. QED  BY <1>1, <1>2, AppendProperties
  <2> HIDE DEF u
  <2>3. y = WithLists(x, u, x.ovf, x.ovb)
    BY <2>1, WithListsOnly
  <2> HIDE DEF y
  <2>4. y.inl = u /\ y.ovf = x.ovf /\ y.ovb = x.ovb /\ y.leaves = x.leaves
    BY <2>3, WithListsIs
  <2>5. Len(u) <= InlineMax
    BY <1>3, <1>5, <2>2
  <2>. QED  BY <1>4, <2>4, <2>5 DEF Sized, y
<1>6. CASE ~(Len(x.inl) < InlineMax)
  <2> DEFINE u == Append(x.ovf, e)
             b == IF x.ovb = 0 THEN ob ELSE x.ovb
  <2>1. y = [x EXCEPT !.ovf = u, !.ovb = b]
    BY <1>6 DEF AppendList
  <2>2. Len(u) = Len(x.ovf) + 1 /\ u # <<>>
    <3> HIDE DEF e
    <3>1. Len(u) = Len(x.ovf) + 1
      BY <1>1, <1>2, AppendProperties
    <3>. QED  BY <1>3, <3>1
  <2>3. b # 0
    BY <1>3, <1>6 DEF NeedsOverflow
  <2>4. Len(x.ovf) < PerBlock
    BY <1>3, <1>6 DEF ListFull
  <2> HIDE DEF u, b
  <2>5. y = WithLists(x, x.inl, u, b)
    BY <2>1, WithOverflow
  <2> HIDE DEF y
  <2>6. y.inl = x.inl /\ y.ovf = u /\ y.ovb = b /\ y.leaves = x.leaves
    BY <2>5, WithListsIs
  <2>7. Len(u) <= PerBlock
    BY <1>3, <2>2, <2>4
  <2>. QED  BY <1>4, <2>2, <2>3, <2>6, <2>7 DEF Sized, y
<1>. QED
  BY <1>5, <1>6

LEMMA MergeListSized ==
  ASSUME NEW x \in Mapping, fmt # "tree", Entries(x) # <<>>, Sized(x)
  PROVE  Sized(Merge(x)) /\ Merge(x).leaves = x.leaves
<1> DEFINE y == Merge(x)
           a == x.inl
           b == x.ovf
<1>1. a \in Seq(Ext) /\ b \in Seq(Ext)
  BY DEF Mapping
<1>2. Len(a) <= InlineMax /\ Len(b) <= PerBlock /\ (x.ovb = 0 <=> b = <<>>)
  BY DEF Sized
<1>3. CASE b # <<>>
  <2> DEFINE k == Len(b)
             u == [b EXCEPT ![k].n = @ + 1]
  <2>1. y = [x EXCEPT !.ovf = u]
    BY <1>3 DEF Merge
  <2> HIDE DEF a, b
  <2>2. k \in 1 .. Len(b)
    BY <1>1, <1>3, LenProperties, EmptySeq
  <2> HIDE DEF k
  <2>3. Len(u) = Len(b) /\ u # <<>>
    BY <1>1, <2>2, RelGrown
  <2> HIDE DEF u
  <2>4. y = WithLists(x, a, u, x.ovb)
    BY <2>1, WithListsOnly DEF a
  <2> HIDE DEF y
  <2>5. y.inl = a /\ y.ovf = u /\ y.ovb = x.ovb /\ y.leaves = x.leaves
    BY <2>4, WithListsIs
  <2>. QED  BY <1>2, <1>3, <2>3, <2>5 DEF Sized, y
<1>4. CASE b = <<>>
  <2> DEFINE k == Len(a)
             u == [a EXCEPT ![k].n = @ + 1]
  <2>1. y = [x EXCEPT !.inl = u]
    BY <1>4 DEF Merge
  <2>2. a # <<>>
    <3>1. Entries(x) = a \o b
      BY <1>1, FlattenPair DEF Entries, Lists
    <3>. QED  BY <1>1, <1>4, <3>1, ConcatEmptySeq
  <2> HIDE DEF a, b
  <2>3. k \in 1 .. Len(a)
    BY <1>1, <2>2, LenProperties, EmptySeq
  <2> HIDE DEF k
  <2>4. Len(u) = Len(a)
    BY <1>1, <2>3, RelGrown
  <2> HIDE DEF u
  <2>5. y = WithLists(x, u, b, x.ovb)
    BY <2>1, WithListsOnly DEF b
  <2> HIDE DEF y
  <2>6. y.inl = u /\ y.ovf = b /\ y.ovb = x.ovb /\ y.leaves = x.leaves
    BY <2>5, WithListsIs
  <2>. QED  BY <1>2, <2>4, <2>6 DEF Sized, y
<1>. QED
  BY <1>3, <1>4

LEMMA FreeListSized ==
  ASSUME m \in Mapping, fmt # "tree", Sized(m), NEW keep \in Nat, FreeList(keep)
  PROVE  Sized(m') /\ m'.leaves = m.leaves
<1> DEFINE os == Entries(m)
           es == CutAll(os, keep)
           n == IF Len(es) < Len(m.inl) THEN Len(es) ELSE Len(m.inl)
           u == SubSeq(es, 1, n)
           v == SubSeq(es, n + 1, Len(es))
           o == IF Len(es) = n THEN 0 ELSE m.ovb
<1>1. m.inl \in Seq(Ext) /\ m.ovf \in Seq(Ext)
  BY DEF Mapping
<1>2. Len(m.inl) \in Nat /\ Len(m.ovf) \in Nat /\ InlineMax \in Nat /\ PerBlock \in Nat
      /\ (Len(m.ovf) = 0 <=> m.ovf = <<>>)
  BY ListLengths
<1>3. Len(m.inl) <= InlineMax /\ Len(m.ovf) <= PerBlock /\ (m.ovb = 0 <=> m.ovf = <<>>)
  BY DEF Sized
<1>4. os \in Seq(Ext) /\ Len(os) = Len(m.inl) + Len(m.ovf)
  <2>1. os = m.inl \o m.ovf
    BY <1>1, FlattenPair DEF Entries, Lists
  <2>. QED  BY <1>1, <2>1, ConcatCells
<1>5. es \in Seq(Ext) /\ Len(es) <= Len(os)
  <2> HIDE DEF os
  <2>. QED  BY <1>4, CutAllRel, CutAllLength
<1>6. m' = [m EXCEPT !.inl = u, !.ovf = v, !.ovb = o]
  BY DEF FreeList
<1> HIDE DEF os, es
<1>7. Len(es) \in Nat
  BY <1>5, LenProperties
<1>8. n \in 0 .. Len(es) /\ n <= Len(m.inl) /\ Len(es) - n <= Len(m.ovf)
  <2> DEFINE a == Len(m.inl)
             b == Len(m.ovf)
             c == Len(es)
  <2>1. a \in Nat /\ b \in Nat /\ c \in Nat /\ c <= a + b
    BY <1>2, <1>4, <1>5, <1>7
  <2>2. n = IF c < a THEN c ELSE a
    OBVIOUS
  <2> HIDE DEF a, b, c, n
  <2>3. n \in 0 .. c /\ n <= a /\ c - n <= b
    BY <2>1, <2>2
  <2>. QED  BY <2>3 DEF a, b, c
<1> HIDE DEF n
<1>9. v \in Seq(Ext) /\ Len(u) = n /\ Len(v) = Len(es) - n
  BY <1>5, <1>8, RelSplit
<1>10. m' = WithLists(m, u, v, o)
  BY <1>6 DEF WithLists
<1> HIDE DEF u, v
<1>11. m'.inl = u /\ m'.ovf = v /\ m'.ovb = o /\ m'.leaves = m.leaves
  BY <1>10, WithListsIs
<1>12. Len(u) <= InlineMax /\ Len(v) <= PerBlock
  BY <1>2, <1>3, <1>7, <1>8, <1>9
<1>13. v = <<>> <=> Len(es) = n
  BY <1>7, <1>8, <1>9, EmptySeq
<1>14. o = 0 <=> v = <<>>
  <2>1. CASE Len(es) = n
    BY <1>13, <2>1
  <2>2. CASE Len(es) # n
    <3>1. m.ovf # <<>>
      BY <1>2, <1>7, <1>8, <2>2
    <3>. QED  BY <1>3, <1>13, <2>2, <3>1
  <2>. QED  BY <2>1, <2>2
<1> HIDE DEF o
<1>15. Len(m'.inl) <= InlineMax /\ Len(m'.ovf) <= PerBlock /\ (m'.ovb = 0 <=> m'.ovf = <<>>)
  BY <1>11, <1>12, <1>14
<1>. QED
  BY <1>11, <1>15 DEF Sized
-----------------------------------------------------------------------------
(* The steps keep the mapping within its bounds.                              *)
LEMMA FitsOnly ==
  ASSUME NEW x, NEW y, Fits(x),
         y.inl = x.inl, y.ovf = x.ovf, y.ovb = x.ovb, y.leaves = x.leaves
  PROVE  Fits(y)
BY DEF Fits, Sized

LEMMA UncoveredIs ==
  ASSUME NEW x \in Mapping, Shape(x), fmt = "tree", NEW l \in Nat, Lookup(x, l) = 0
  PROVE  Uncovered(x.leaves, l)
<1>1. \A y \in PairsIn(x) : y[1] # l
  BY LookupIs
<1>2. PairsIn(x) = Rels(x.leaves)
  BY DEF PairsIn, Lists
<1>3. SUFFICES ASSUME NEW i \in 1 .. Len(x.leaves), NEW h \in 1 .. Len(x.leaves[i]),
                      Covers(x.leaves[i][h], l)
               PROVE  FALSE
  BY DEF Uncovered, Cells
<1> DEFINE e == x.leaves[i][h]
           z == <<l, e.p + (l - e.l)>>
<1>4. e \in Ext
  <2>1. x.leaves[i] \in Seq(Ext)
    BY ElementOfSeq DEF Mapping, Leaves
  <2>. QED  BY <2>1, ElementOfSeq
<1>5. e.l <= l /\ l < e.l + e.n
  BY <1>3 DEF Covers
<1> HIDE DEF e
<1>6. e.l \in Nat /\ e.p \in Nat /\ e.n \in Nat
  BY <1>4 DEF Ext
<1>7. z[1] = l /\ z[2] = e.p + (l - e.l) /\ z = <<z[1], z[2]>>
  OBVIOUS
<1> HIDE DEF z
<1>8. z \in Pairs(e)
  <2>1. z[2] \in Nat /\ z[2] - e.p = z[1] - e.l
    BY <1>5, <1>6, <1>7
  <2>. QED  BY <1>4, <1>5, <1>7, <2>1, PairsAre
<1>9. z \in Rel(x.leaves[i])
  BY <1>8, RelIn DEF e
<1>10. z \in Rels(x.leaves)
  BY <1>9, RelsIn
<1>. QED
  BY <1>1, <1>2, <1>7, <1>10

LEMMA MergeFits ==
  ASSUME IInv, fmt # "indirect", Fits(m), NEW l \in Nat, MayMerge(l)
  PROVE  Fits(Merge(m))
<1>1. m \in Mapping /\ Tidy(m)
  BY DEF IInv, Kept, Shape
<1>2. Entries(m) # <<>> /\ LastEntry(m).n < MaxLen
  BY DEF MayMerge, Mergeable
<1>3. Sized(m) /\ Bounded(m.leaves)
  BY DEF Fits
<1>4. CASE fmt = "tree"
  <2> DEFINE y == Merge(m)
  <2>1. Bounded(y.leaves)
    BY <1>1, <1>2, <1>3, <1>4, MergeTreeBounded
  <2>2. y = WithLeaves(m, y.leaves, m.lblk)
    BY <1>1, <1>2, <1>4, MergeTreeIs
  <2> DEFINE u == y.leaves
  <2> HIDE DEF y, u
  <2>3. y = WithLeaves(m, u, m.lblk)
    BY <2>2 DEF u
  <2>4. y.inl = m.inl /\ y.ovf = m.ovf /\ y.ovb = m.ovb
    BY <1>1, <2>3, WithLeavesIs
  <2>. QED  BY <1>3, <2>1, <2>4 DEF Fits, Sized, y
<1>5. CASE fmt # "tree"
  BY <1>1, <1>2, <1>3, <1>5, MergeListSized DEF Fits
<1>. QED
  BY <1>4, <1>5

LEMMA PlaceFits ==
  ASSUME IInv, fmt # "indirect", Fits(m), NEW l \in Nat, Lookup(m, l) = 0, NEW p \in free,
         ~ IF fmt = "tree" THEN TreeFull(m, l) ELSE ListFull(m),
         NEW b \in Nat, b # 0 \/ fmt = "tree" \/ ~NeedsOverflow(m),
         Place(l, p, b)
  PROVE  Fits(m')
<1>1. m \in Mapping /\ Shape(m)
  BY DEF IInv, Kept
<1>2. p \in Nat \ {0}
  BY FreeNat
<1>3. Sized(m) /\ Bounded(m.leaves)
  BY DEF Fits
<1>4. CASE fmt = "tree"
  <2> DEFINE y == AppendTree(m, l, p, b)
             u == y.leaves
             v == y.lblk
  <2>1. Uncovered(m.leaves, l)
    BY <1>1, <1>4, UncoveredIs
  <2>2. Bounded(y.leaves)
    BY <1>1, <1>2, <1>3, <1>4, <2>1, AppendTreeBounded
  <2>3. m' = y
    BY <1>4 DEF Place
  <2>4. y.inl = m.inl /\ y.ovf = m.ovf /\ y.ovb = m.ovb
    BY <1>1 DEF AppendTree, Mapping
  <2> HIDE DEF y
  <2>. QED  BY <1>3, <2>2, <2>3, <2>4 DEF Fits, Sized
<1>5. CASE fmt # "tree"
  <2> DEFINE y == AppendList(m, l, p, b)
  <2>1. Sized(y) /\ y.leaves = m.leaves
    BY <1>1, <1>2, <1>3, <1>5, AppendListSized
  <2>2. m' = y
    BY <1>5 DEF Place
  <2> HIDE DEF y
  <2>. QED  BY <1>3, <2>1, <2>2 DEF Fits
<1>. QED
  BY <1>4, <1>5

LEMMA ResolveExtentFits ==
  ASSUME IInv, fmt # "indirect", Fits(m), NEW l \in Nat, Lookup(m, l) = 0, ResolveExtent(l)
  PROVE  Fits(m')
<1> DEFINE meta == IF fmt = "tree" THEN NeedsLeaf(m, l) ELSE NeedsOverflow(m)
           full == IF fmt = "tree" THEN TreeFull(m, l) ELSE ListFull(m)
<1>1. CASE Fails
  BY <1>1 DEF Fails
<1>2. CASE MayMerge(l) /\ m' = Merge(m)
  BY <1>2, MergeFits
<1>3. CASE /\ ~full
           /\ \E p \in Allocs({}, free) :
                IF meta THEN \E b \in Allocs({}, free \ {p}) : Place(l, p, b) ELSE Place(l, p, 0)
  <2>1. free \in SUBSET Nat /\ 0 \notin free
    BY FreeNat
  <2>2. Allocs({}, free) \subseteq free
    BY <2>1, AllocsIn
  <2>3. PICK p \in free :
             IF meta THEN \E b \in Allocs({}, free \ {p}) : Place(l, p, b) ELSE Place(l, p, 0)
    BY <1>3, <2>2
  <2>4. Allocs({}, free \ {p}) \subseteq free \ {p}
    <3> DEFINE G == free \ {p}
    <3>1. G \in SUBSET Nat
      BY <2>1
    <3> HIDE DEF G
    <3>2. Allocs({}, G) \subseteq G
      BY <3>1, AllocsIn
    <3>. QED  BY <3>2 DEF G
  <2>5. CASE meta
    <3>1. PICK b \in free : Place(l, p, b)
      BY <2>3, <2>4, <2>5
    <3>2. b \in Nat /\ b # 0
      BY <2>1
    <3>. QED  BY <1>3, <3>1, <3>2, PlaceFits
  <2>6. CASE ~meta
    <3>1. Place(l, p, 0) /\ (fmt = "tree" \/ ~NeedsOverflow(m))
      BY <2>3, <2>6
    <3>. QED  BY <1>3, <3>1, PlaceFits
  <2>. QED  BY <2>5, <2>6
<1>4. \/ Fails \/ (MayMerge(l) /\ m' = Merge(m))
      \/ /\ ~full
         /\ \E p \in Allocs({}, free) :
              IF meta THEN \E b \in Allocs({}, free \ {p}) : Place(l, p, b) ELSE Place(l, p, 0)
  BY DEF ResolveExtent
<1>. QED
  BY <1>1, <1>2, <1>3, <1>4

LEMMA ResolveIndirectFits ==
  ASSUME IInv, Fits(m), NEW l \in Nat, ResolveIndirect(l)
  PROVE  Fits(m')
<1>1. m \in Mapping
  BY DEF IInv, Kept
<1>2. /\ m'.inl = m.inl /\ m'.ovf = m.ovf
      /\ m'.ovb = m.ovb /\ m'.leaves = m.leaves
  BY <1>1 DEF ResolveIndirect, Fails, Mapping
<1>. QED
  BY <1>2, FitsOnly

LEMMA FreeFromFits ==
  ASSUME IInv, Fits(m), NEW n \in Nat, FreeFrom(n)
  PROVE  Fits(m')
<1>1. m \in Mapping /\ Tidy(m)
  BY DEF IInv, Kept, Shape
<1>2. Sized(m) /\ Bounded(m.leaves)
  BY DEF Fits
<1>3. CASE fmt = "tree"
  <2> DEFINE ls == [i \in 1 .. Len(m.leaves) |-> CutAll(m.leaves[i], n)]
  <2>1. m' = DropLeaves(m, ls)
    BY <1>3 DEF FreeFrom, FreeTree
  <2>2. Bounded(DropLeaves(m, ls).leaves)
    BY <1>1, <1>2, FreeTreeBounded
  <2> HIDE DEF ls
  <2>3. m'.inl = m.inl /\ m'.ovf = m.ovf /\ m'.ovb = m.ovb
    BY <1>1, <2>1 DEF DropLeaves, Mapping
  <2>. QED  BY <1>2, <2>1, <2>2, <2>3 DEF Fits, Sized
<1>4. CASE fmt = "indirect"
  <2>1. /\ m'.inl = m.inl /\ m'.ovf = m.ovf
        /\ m'.ovb = m.ovb /\ m'.leaves = m.leaves
    BY <1>1, <1>4 DEF FreeFrom, FreeIndirect, Mapping
  <2>. QED  BY <2>1, FitsOnly
<1>5. CASE fmt \notin {"tree", "indirect"}
  <2>1. FreeList(n)
    BY <1>5 DEF FreeFrom
  <2>. QED  BY <1>1, <1>2, <1>5, <2>1, FreeListSized DEF Fits
<1>. QED
  BY <1>3, <1>4, <1>5

LEMMA PunchFits ==
  ASSUME IInv, Fits(m), NEW a \in Nat, NEW b \in Nat, Punch(a, b)
  PROVE  Fits(m')
<1>1. m \in Mapping /\ a < b
  BY DEF IInv, Kept, Punch
<1>2. Sized(m) /\ Bounded(m.leaves)
  BY DEF Fits
<1>3. CASE Fails
  BY <1>3 DEF Fails
<1>4. CASE ~SplitsFullLeaf(m, a, b) /\ PunchTree(a, b)
  <2> DEFINE ls == [i \in 1 .. Len(m.leaves) |-> HoleAll(m.leaves[i], a, b)]
  <2>1. m' = DropLeaves(m, ls)
    BY <1>4 DEF PunchTree
  <2>2. Bounded(DropLeaves(m, ls).leaves)
    BY <1>1, <1>2, <1>4, PunchTreeBounded
  <2> HIDE DEF ls
  <2>3. m'.inl = m.inl /\ m'.ovf = m.ovf /\ m'.ovb = m.ovb
    BY <1>1, <2>1 DEF DropLeaves, Mapping
  <2>. QED  BY <1>2, <2>1, <2>2, <2>3 DEF Fits, Sized
<1>5. Fails \/ (~SplitsFullLeaf(m, a, b) /\ PunchTree(a, b))
  BY DEF Punch
<1>. QED
  BY <1>3, <1>4, <1>5
-----------------------------------------------------------------------------
(* The blocks mapped are inside the file, whose size the format allows.       *)
InFile(R, n) == \A y \in R : y[1] < n
RInv ==
  /\ size <= Limit
  /\ InFile(PairsIn(m), size)
  /\ size = 0 => m.ind = 0
  /\ Fits(m)

LEMMA LimitNat ==
  ASSUME fmt \in {"indirect", "inline", "root", "tree"}
  PROVE  Limit \in Nat
<1>1. /\ Direct \in Nat /\ Indirect \in Nat /\ MaxInline \in Nat /\ RootInline \in Nat
      /\ PerBlock \in Nat /\ RootRefs \in Nat /\ MaxLen \in Nat
  BY ExtentAssumption DEF ExtentAssumption
<1>2. \A a, b \in Nat : a * b \in Nat /\ a + b \in Nat
  OBVIOUS
<1>3. /\ Direct + Indirect \in Nat /\ MaxInline * MaxLen \in Nat
      /\ (RootInline + PerBlock) * MaxLen \in Nat /\ RootRefs * PerBlock * MaxLen \in Nat
  BY <1>1, <1>2
<1>4. CASE fmt = "indirect"
  BY <1>3, <1>4 DEF Limit
<1>5. CASE fmt = "inline"
  BY <1>3, <1>5 DEF Limit
<1>6. CASE fmt = "root"
  BY <1>3, <1>6 DEF Limit
<1>7. CASE fmt = "tree"
  BY <1>3, <1>7 DEF Limit
<1>. QED
  BY <1>4, <1>5, <1>6, <1>7

LEMMA PrimedFits ==
  ASSUME fmt' = fmt
  PROVE  /\ PairsIn(m)' = PairsIn(m') /\ Limit' = Limit
         /\ Fits(m)' <=> Fits(m')
<1>1. PairsIn(m)' = PairsIn(m')
  BY Primed
<1>2. InlineMax' = InlineMax
  BY DEF InlineMax
<1>3. Fits(m)' <=> Fits(m')
  BY <1>2 DEF Fits, Sized
<1>4. Limit' = Limit
  BY DEF Limit
<1>. QED
  BY <1>1, <1>3, <1>4

LEMMA InitRInv ==
  ASSUME Init
  PROVE  RInv
<1>1. m = Empty /\ size = 0
  BY DEF Init
<1>2. fmt \in {"indirect", "inline", "root", "tree"}
  BY InitIInv DEF IInv
<1>3. size <= Limit
  BY <1>1, <1>2, LimitNat
<1>4. InFile(PairsIn(m), size)
  BY <1>1, EmptyIs DEF InFile
<1>5. /\ m.inl = <<>> /\ m.ovf = <<>> /\ m.ovb = 0 /\ m.leaves = <<>> /\ m.ind = 0
  BY <1>1 DEF Empty
<1>6. Len(<<>>) = 0 /\ 1 .. 0 = {}
  OBVIOUS
<1>7. RootRefs \in Nat /\ PerBlock \in Nat /\ InlineMax \in Nat
  BY ExtentAssumption DEF ExtentAssumption, InlineMax
<1>8. Sized(m)
  BY <1>5, <1>6, <1>7 DEF Sized
<1>9. Bounded(m.leaves)
  BY <1>5, <1>6, <1>7 DEF Bounded, Chain
<1>. QED
  BY <1>3, <1>4, <1>5, <1>8, <1>9 DEF RInv, Fits

LEMMA ResolveRInv ==
  ASSUME IInv, RInv, NEW l \in Logical, Resolve(l)
  PROVE  InFile(PairsIn(m'), size) /\ Fits(m') /\ size' = size
<1>1. l \in Nat /\ l < size /\ l < Limit /\ Lookup(m, l) = 0 /\ size' = size
  BY LogicalNat DEF Resolve
<1>2. InFile(PairsIn(m), size) /\ Fits(m)
  BY DEF RInv
<1>3. (Takes(m', free', l) \/ Holds(m', free')) /\ Fits(m')
  <2>1. CASE fmt = "indirect"
    <3>1. ResolveIndirect(l)
      BY <2>1 DEF Resolve
    <3>2. Takes(m', free', l) \/ Holds(m', free')
      BY <1>1, <2>1, <3>1, ResolveIndirectTakes
    <3>. QED  BY <1>1, <1>2, <3>1, <3>2, ResolveIndirectFits
  <2>2. CASE fmt # "indirect"
    <3>1. ResolveExtent(l)
      BY <2>2 DEF Resolve
    <3>2. Takes(m', free', l) \/ Holds(m', free')
      BY <1>1, <2>2, <3>1, ResolveExtentTakes
    <3>. QED  BY <1>1, <1>2, <2>2, <3>1, <3>2, ResolveExtentFits
  <2>. QED  BY <2>1, <2>2
<1>4. PairsIn(m') = PairsIn(m) \/ \E p \in free : PairsIn(m') = PairsIn(m) \cup {<<l, p>>}
  BY <1>3 DEF Takes, Holds
<1>5. InFile(PairsIn(m'), size)
  BY <1>1, <1>2, <1>4 DEF InFile
<1>. QED
  BY <1>1, <1>3, <1>5

LEMMA SetSizeRInv ==
  ASSUME IInv, RInv, NEW n \in 0 .. MaxSize, SetSize(n)
  PROVE  /\ InFile(PairsIn(m'), n) /\ Fits(m') /\ size' = n /\ n <= Limit
         /\ n = 0 => m'.ind = 0
<1>1. n \in Nat /\ size \in Nat /\ size' = n /\ n <= Limit /\ n # size
  BY LogicalNat DEF SetSize, IInv
<1>2. InFile(PairsIn(m), size) /\ Fits(m)
  BY DEF RInv
<1>3. CASE n < size
  <2>1. FreeFrom(n)
    BY <1>3 DEF SetSize
  <2>2. Spares(m', free', Below(n)) /\ Fits(m')
    BY <1>1, <1>2, <2>1, FreeFromSpares, FreeFromFits
  <2>3. PairsIn(m') = Keeps(PairsIn(m), Below(n)) /\ Kept(m')
    BY <2>2 DEF Spares
  <2>4. InFile(PairsIn(m'), n)
    BY <2>3 DEF InFile, Keeps, Below
  <2>5. ASSUME n = 0 PROVE m'.ind = 0
    <3>1. CASE fmt # "indirect"
      BY <2>3, <3>1 DEF Kept, Shape
    <3>2. CASE fmt = "indirect"
      <4> DEFINE ents == [i \in DOMAIN m.ents |-> IF Direct + i >= n THEN 0 ELSE m.ents[i]]
      <4>1. FreeIndirect(n)
        BY <2>1, <3>2 DEF FreeFrom
      <4>2. m.ents \in [0 .. Indirect - 1 -> Nat] /\ m \in Mapping
        BY DEF IInv, Kept, Mapping
      <4>3. \A i \in 0 .. Indirect - 1 : Direct + i >= n
        BY <2>5, Constants
      <4>4. \A i \in DOMAIN ents : ents[i] = 0
        BY <4>2, <4>3
      <4>. QED  BY <4>1, <4>2, <4>4 DEF FreeIndirect, Mapping
    <3>. QED  BY <3>1, <3>2
  <2>. QED  BY <1>1, <2>2, <2>4, <2>5
<1>4. CASE ~(n < size)
  <2>1. m' = m
    BY <1>4 DEF SetSize
  <2>2. size < n
    BY <1>1, <1>4
  <2>3. \A y \in PairsIn(m) : y[1] \in Nat
    BY PairsNat DEF IInv, Kept
  <2>4. InFile(PairsIn(m), n)
    BY <1>1, <1>2, <2>2, <2>3 DEF InFile
  <2>. QED  BY <1>1, <1>2, <2>1, <2>2, <2>4
<1>. QED
  BY <1>3, <1>4

LEMMA PunchRInv ==
  ASSUME IInv, RInv, NEW a \in Logical, NEW b \in 1 .. MaxSize, Punch(a, b)
  PROVE  InFile(PairsIn(m'), size) /\ Fits(m') /\ size' = size
<1>1. a \in Nat /\ b \in Nat
  BY LogicalNat, Constants
<1>2. fmt = "tree" /\ a < b /\ size' = size
  BY DEF Punch
<1>3. InFile(PairsIn(m), size) /\ Fits(m)
  BY DEF RInv
<1>4. Fits(m')
  BY <1>1, <1>3, PunchFits
<1>5. PairsIn(m') \subseteq PairsIn(m)
  <2>1. CASE Fails
    BY <2>1 DEF Fails
  <2>2. CASE PunchTree(a, b)
    <3>1. Spares(m', free', Outside(a, b))
      BY <1>1, <1>2, <2>2, PunchTreeSpares
    <3>. QED  BY <3>1 DEF Spares, Keeps
  <2>. QED  BY <2>1, <2>2 DEF Punch
<1>. QED
  BY <1>2, <1>3, <1>4, <1>5 DEF InFile

LEMMA StepRInv ==
  ASSUME IInv, RInv, [Next]_vars
  PROVE  RInv'
<1>1. size \in Nat /\ size <= Limit /\ InFile(PairsIn(m), size) /\ Fits(m)
      /\ (size = 0 => m.ind = 0)
  BY DEF IInv, RInv
<1>2. /\ size' <= Limit /\ InFile(PairsIn(m'), size') /\ Fits(m')
      /\ (size' = 0 => m'.ind = 0)
  <2>1. ASSUME NEW l \in Logical, Resolve(l)
        PROVE  /\ size' <= Limit /\ InFile(PairsIn(m'), size') /\ Fits(m')
               /\ (size' = 0 => m'.ind = 0)
    <3>1. InFile(PairsIn(m'), size) /\ Fits(m') /\ size' = size
      BY <2>1, ResolveRInv
    <3>2. size # 0
      BY <2>1, LogicalNat DEF Resolve
    <3>. QED  BY <1>1, <3>1, <3>2
  <2>2. ASSUME NEW n \in 0 .. MaxSize, SetSize(n)
        PROVE  /\ size' <= Limit /\ InFile(PairsIn(m'), size') /\ Fits(m')
               /\ (size' = 0 => m'.ind = 0)
    BY <2>2, SetSizeRInv
  <2>3. ASSUME NEW a \in Logical, NEW b \in 1 .. MaxSize, Punch(a, b)
        PROVE  /\ size' <= Limit /\ InFile(PairsIn(m'), size') /\ Fits(m')
               /\ (size' = 0 => m'.ind = 0)
    <3>1. InFile(PairsIn(m'), size) /\ Fits(m') /\ size' = size
      BY <2>3, PunchRInv
    <3>2. b \in Nat /\ b # 0 /\ b <= size
      BY <2>3, Constants DEF Punch
    <3>3. size # 0
      BY <1>1, <3>2
    <3>. QED  BY <1>1, <3>1, <3>3
  <2>4. CASE size' = size /\ m' = m
    BY <1>1, <2>4
  <2>5. ASSUME Reload PROVE size' = size /\ m' = m
    BY <2>5, ReloadSame DEF Reload
  <2>6. ASSUME UNCHANGED vars PROVE size' = size /\ m' = m
    BY <2>6 DEF vars
  <2>. QED  BY <2>1, <2>2, <2>3, <2>4, <2>5, <2>6 DEF Next
<1>3. fmt' = fmt
  BY StepMoves
<1>4. PairsIn(m)' = PairsIn(m') /\ Limit' = Limit /\ (Fits(m)' <=> Fits(m'))
  BY <1>3, PrimedFits
<1>. QED
  BY <1>2, <1>4 DEF RInv, InFile

LEMMA RInvAlways == Spec => []RInv
<1>. QED
  BY Inductive, InitRInv, StepRInv, PTL DEF Spec
-----------------------------------------------------------------------------
(* What the checks of validate_inode see.                                     *)
LEMMA UsedIs ==
  ASSUME IInv
  PROVE  \A b \in DataBlocks(m) \cup MetaBlocks(m) : Used(b)
<1>1. DataBlocks(m) = Seconds(PairsIn(m))
  BY DataIs DEF IInv, Kept
<1>2. Seconds(PairsIn(m)) \cup MetaBlocks(m) = mine \ free /\ mine \subseteq Blocks
  BY DEF IInv, Sound
<1>. QED
  BY <1>1, <1>2 DEF Used

LEMMA ExtentPlace ==
  ASSUME IInv, RInv, fmt # "indirect", NEW e \in Cells(Entries(m))
  PROVE  e \in Ext /\ e.l + e.n <= size /\ \A b \in BlocksOf(e) : Used(b)
<1> DEFINE es == Entries(m)
<1>1. es \in Seq(Ext) /\ Rel(es) = PairsIn(m) /\ size \in Nat /\ InFile(PairsIn(m), size)
  BY ListsIn DEF PairsIn, IInv, Kept, RInv
<1>2. DataBlocks(m) = UNION {BlocksOf(es[i]) : i \in 1 .. Len(es)}
  BY DEF DataBlocks
<1> HIDE DEF es
<1>3. PICK i \in 1 .. Len(es) : e = es[i]
  BY DEF Cells, es
<1>4. e \in Ext
  BY <1>1, <1>3, ElementOfSeq
<1>5. e.l \in Nat /\ e.p \in Nat /\ e.n \in Nat \ {0}
  BY <1>4 DEF Ext
<1> DEFINE j == e.n - 1
           z == <<e.l + j, e.p + j>>
<1>6. j \in 0 .. e.n - 1 /\ e.l + j + 1 = e.l + e.n
  BY <1>5
<1>7. z \in Pairs(e) /\ z[1] = e.l + j
  BY <1>6 DEF Pairs
<1>8. z \in PairsIn(m)
  BY <1>1, <1>3, <1>7, RelIn
<1>9. e.l + j < size
  BY <1>1, <1>7, <1>8 DEF InFile
<1>10. e.l + e.n <= size
  BY <1>1, <1>5, <1>6, <1>9
<1>11. BlocksOf(e) \subseteq DataBlocks(m)
  BY <1>2, <1>3
<1>. QED
  BY <1>4, <1>10, <1>11, UsedIs

LEMMA NoPairs ==
  ASSUME IInv, RInv, size = 0
  PROVE  /\ PairsIn(m) = {}
         /\ fmt # "indirect" => Entries(m) = <<>> /\ m.leaves = <<>> /\ m.ovb = 0
<1>1. m \in Mapping /\ Shape(m) /\ InFile(PairsIn(m), 0) /\ Sized(m)
  BY DEF IInv, Kept, RInv, Fits
<1>2. PairsIn(m) = {}
  <2>1. PairsIn(m) \in SUBSET (Nat \X (Nat \ {0}))
    BY <1>1, PairsNat
  <2>2. \A y \in PairsIn(m) : y[1] \in Nat /\ y[1] < 0
    BY <1>1, <2>1 DEF InFile
  <2>. QED  BY <2>2
<1>3. ASSUME NEW es \in Seq(Ext), es # <<>> PROVE Rel(es) # {}
  <2>1. 1 \in 1 .. Len(es)
    BY <1>3, LenProperties, EmptySeq
  <2> DEFINE e == es[1]
  <2>2. e \in Ext
    BY <2>1, ElementOfSeq
  <2> HIDE DEF e
  <2>3. 0 \in 0 .. e.n - 1
    BY <2>2 DEF Ext
  <2>4. <<e.l + 0, e.p + 0>> \in Pairs(e)
    BY <2>3 DEF Pairs
  <2>5. <<e.l + 0, e.p + 0>> \in Rel(es)
    BY <2>1, <2>4, RelIn DEF e
  <2>. QED  BY <2>5
<1>4. SUFFICES ASSUME fmt # "indirect" PROVE Entries(m) = <<>> /\ m.leaves = <<>> /\ m.ovb = 0
  BY <1>2
<1>5. Entries(m) \in Seq(Ext) /\ Rel(Entries(m)) = PairsIn(m) /\ PairsIn(m) = Rels(Lists(m))
  BY <1>1, <1>4, ListsIn DEF PairsIn
<1>6. Entries(m) = <<>>
  <2> DEFINE es == Entries(m)
  <2>1. es \in Seq(Ext) /\ Rel(es) = {}
    BY <1>2, <1>5
  <2> HIDE DEF es
  <2>2. es = <<>>
    BY <1>3, <2>1
  <2>. QED  BY <2>2 DEF es
<1>7. CASE fmt = "tree"
  <2> DEFINE ss == m.leaves
  <2>1. ss \in Leaves /\ Filled(ss) /\ Rels(ss) = {} /\ m.ovb = 0
    BY <1>1, <1>2, <1>5, <1>7, ListsIn DEF Mapping, Shape, Tidy
  <2> HIDE DEF ss
  <2>2. ss = <<>>
    <3>1. SUFFICES ASSUME ss # <<>> PROVE FALSE
      OBVIOUS
    <3>2. 1 \in 1 .. Len(ss)
      BY <2>1, <3>1, LenProperties, EmptySeq DEF Leaves
    <3>3. ss[1] \in Seq(Ext) /\ ss[1] # <<>>
      BY <2>1, <3>2, ElementOfSeq DEF Leaves, Filled
    <3>4. PICK z : z \in Rel(ss[1])
      BY <1>3, <3>3
    <3>5. z \in Rels(ss)
      BY <3>2, <3>4, RelsIn
    <3>. QED  BY <2>1, <3>5
  <2>. QED  BY <1>6, <2>1, <2>2 DEF ss
<1>8. CASE fmt # "tree"
  <2>1. m.leaves = <<>>
    BY <1>1, <1>8 DEF Shape
  <2> DEFINE a == m.inl
             b == m.ovf
  <2>2. a \in Seq(Ext) /\ b \in Seq(Ext) /\ (m.ovb = 0 <=> b = <<>>)
    BY <1>1 DEF Mapping, Sized
  <2>3. Rel(a) \cup Rel(b) = {}
    BY <1>1, <1>2, <1>5, <1>8, ListsIn
  <2> HIDE DEF a, b
  <2>4. b = <<>>
    <3>1. Rel(b) = {}
      BY <2>3
    <3>. QED  BY <1>3, <2>2, <3>1
  <2>. QED  BY <1>6, <2>1, <2>2, <2>4
<1>. QED
  BY <1>7, <1>8

LEMMA TotalNone == TotalLen(<<>>) = 0
<1> DEFINE es == <<>>
<1>1. es \in Seq(Ext) /\ Len(es) = 0
  BY RelEmpty
<1> HIDE DEF es
<1>2. PICK f : Totals(es, Len(es), f) /\ TotalLen(es) = f[Len(es)]
  BY <1>1, TotalIs
<1>3. f[0] = 0
  BY <1>1, <1>2 DEF Totals
<1>4. TotalLen(es) = 0
  BY <1>1, <1>2, <1>3
<1>. QED
  BY <1>4 DEF es

LEMMA TotalNat ==
  ASSUME NEW es \in Seq(Ext)
  PROVE  TotalLen(es) \in Nat
<1>1. <<>> \in Seq(Ext)
  OBVIOUS
<1>. QED
  BY <1>1, TotalGrows

(* A set of at most one block.                                                *)
LEMMA OneBlock ==
  ASSUME NEW b
  PROVE  Cardinality({b} \ {0}) = IF b # 0 THEN 1 ELSE 0
<1>1. CASE b = 0
  <2>1. {b} \ {0} = {}
    BY <1>1
  <2>. QED  BY <1>1, <2>1, FS_EmptySet
<1>2. CASE b # 0
  <2>1. {b} \ {0} = {b}
    BY <1>2
  <2>. QED  BY <1>2, <2>1, FS_Singleton
<1>. QED
  BY <1>1, <1>2

LEMMA DistinctCells ==
  ASSUME NEW S, NEW bs \in Seq(S), Distinct(bs)
  PROVE  Cardinality(Cells(bs)) = Len(bs)
<1> DEFINE n == Len(bs)
           T == Cells(bs)
<1>1. n \in Nat
  BY LenProperties
<1>2. IsFiniteSet(1 .. n) /\ Cardinality(1 .. n) = n
  <2>1. 1 \in Int /\ n \in Int /\ (1 > n => n = 0) /\ n - 1 + 1 = n
    BY <1>1
  <2> HIDE DEF n
  <2>. QED  BY <2>1, FS_Interval
<1> DEFINE f == [i \in 1 .. n |-> bs[i]]
<1>3. f \in Bijection(1 .. n, T)
  <2>1. f \in [1 .. n -> T] /\ \A i \in 1 .. n : f[i] = bs[i]
    BY DEF Cells
  <2>2. \A i, j \in 1 .. n : f[i] = f[j] => i = j
    BY DEF Distinct
  <2>3. \A t \in T : \E i \in 1 .. n : f[i] = t
    BY DEF Cells
  <2> HIDE DEF f, n, T
  <2>. QED  BY <2>1, <2>2, <2>3 DEF Bijection, Injection, Surjection, IsInjective
<1>4. Cardinality(T) = Cardinality(1 .. n)
  <2> HIDE DEF f, n, T
  <2>1. ExistsBijection(1 .. n, T)
    BY <1>3 DEF ExistsBijection
  <2>. QED  BY <1>2, <2>1, FS_Bijection
<1>. QED
  BY <1>2, <1>4

LEMMA IndirectValid ==
  ASSUME IInv, RInv, fmt = "indirect"
  PROVE  ValidIndirect(DiskInode(m))
<1> DEFINE d == DiskInode(m)
           data == ({d.direct[i] : i \in DOMAIN d.direct} \cup {d.ents[i] : i \in DOMAIN d.ents}) \ {0}
<1>1. /\ d.blocks = BlockCount(m) /\ d.direct = m.direct /\ d.ind = m.ind /\ d.ents = m.ents
      /\ d.size = size
  BY DiskIs
<1> HIDE DEF d
<1>2. m \in Mapping /\ Kept(m) /\ Shape(m)
  BY DEF IInv, Kept
<1>3. data = DataBlocks(m)
  BY <1>1 DEF DataBlocks
<1> HIDE DEF data
<1>4. MetaBlocks(m) = {m.ind} \ {0}
  <2>1. m.leaves = <<>> /\ m.ovb = 0 /\ Tidy(m)
    BY <1>2 DEF Shape
  <2>2. Cells(m.lblk) = {}
    BY <1>2, <2>1, CellsEmpty
  <2>3. MetaBlocks(m) = ({m.ind, m.ovb} \cup Cells(m.lblk)) \ {0}
    BY DEF MetaBlocks, Cells
  <2>. QED  BY <2>1, <2>2, <2>3
<1>5. \A b \in data \cup ({d.ind} \ {0}) : Used(b)
  BY <1>1, <1>3, <1>4, UsedIs
<1>6. d.size = 0 => data = {} /\ d.ind = 0
  <2>1. SUFFICES ASSUME size = 0 PROVE data = {} /\ m.ind = 0
    BY <1>1
  <2>2. PairsIn(m) = {}
    BY <2>1, NoPairs
  <2>3. DataBlocks(m) = Seconds(PairsIn(m))
    BY <1>2, DataIs
  <2>. QED  BY <1>3, <2>1, <2>2, <2>3 DEF RInv, Seconds
<1>7. Cardinality(data) \in Nat
  <2>1. data \subseteq Blocks
    BY <1>3, UsedIs DEF Used
  <2>2. IsFiniteSet(Blocks)
    BY FS_Interval, Constants DEF Blocks
  <2>3. IsFiniteSet(data)
    BY <2>1, <2>2, FS_Subset
  <2>. QED  BY <2>3, FS_CardinalityType
<1>8. TotalLen(Entries(m)) = 0
  <2>1. m.inl = <<>> /\ m.ovf = <<>>
    BY <1>2 DEF Shape
  <2>2. m.inl \in Seq(Ext) /\ m.ovf \in Seq(Ext)
    BY <1>2 DEF Mapping
  <2>3. Entries(m) = m.inl \o m.ovf
    BY <2>2, FlattenPair DEF Entries, Lists
  <2>4. Entries(m) = <<>>
    BY <2>1, <2>2, <2>3, ConcatEmptySeq
  <2>. QED  BY <2>4, TotalNone
<1>9. d.blocks = Cardinality(data) + (IF d.ind # 0 THEN 1 ELSE 0)
  <2>1. BlockCount(m) = TotalLen(Entries(m)) + Cardinality(MetaBlocks(m)) + Cardinality(DataBlocks(m))
    BY DEF BlockCount
  <2>2. Cardinality(MetaBlocks(m)) = IF m.ind # 0 THEN 1 ELSE 0
    BY <1>4, OneBlock
  <2> DEFINE c == Cardinality(MetaBlocks(m))
             k == Cardinality(data)
  <2>3. d.blocks = 0 + c + k /\ c = (IF d.ind # 0 THEN 1 ELSE 0) /\ k \in Nat
    BY <1>1, <1>3, <1>7, <1>8, <2>1, <2>2
  <2> HIDE DEF c, k
  <2>4. d.blocks = k + c
    BY <2>3
  <2>. QED  BY <2>3, <2>4 DEF k
<1>10. ValidIndirect(d)
  BY <1>5, <1>6, <1>9 DEF ValidIndirect, data
<1>. QED
  BY <1>10 DEF d

(* The extents of a tree are in order, and no extent reaches behind the file. *)
LEMMA TreeInOrder ==
  ASSUME IInv, RInv, fmt = "tree"
  PROVE  InOrder(Entries(m))
<1> DEFINE ss == m.leaves
           es == Entries(m)
<1>1. ss \in Leaves /\ Bounded(ss) /\ es = FlattenSeq(ss) /\ es \in Seq(Ext)
  BY ListsIn DEF IInv, Kept, Mapping, RInv, Fits, Entries, Lists
<1>2. \A e \in Cells(es) : e \in Ext /\ \A b \in BlocksOf(e) : Used(b)
  BY ExtentPlace
<1> HIDE DEF ss, es
<1>3. Ascends(es) /\ Cells(es) = UNION {Cells(ss[i]) : i \in 1 .. Len(ss)}
  <2>1. Chain(ss)
    BY <1>1 DEF Bounded
  <2>. QED  BY <1>1, <2>1, FlattenAscends
<1>4. \A e \in Cells(es) : e.n <= MaxLen
  BY <1>1, <1>3 DEF Bounded, Fitting
<1>5. \A i \in 1 .. Len(es) : es[i].n \in 1 .. MaxLen /\ \A b \in BlocksOf(es[i]) : Used(b)
  <2>1. SUFFICES ASSUME NEW i \in 1 .. Len(es)
                 PROVE  es[i].n \in 1 .. MaxLen /\ \A b \in BlocksOf(es[i]) : Used(b)
    OBVIOUS
  <2> DEFINE e == es[i]
  <2>2. e \in Cells(es)
    BY DEF Cells
  <2> HIDE DEF e
  <2>3. e.n \in Nat \ {0} /\ MaxLen \in Nat
    BY <1>2, <2>2, ExtentAssumption DEF Ext, ExtentAssumption
  <2>4. e.n \in 1 .. MaxLen
    BY <1>4, <2>2, <2>3
  <2>. QED  BY <1>2, <2>2, <2>4 DEF e
<1>6. \A i \in 1 .. Len(es) - 1 : es[i].l + es[i].n <= es[i + 1].l
  <2>1. SUFFICES ASSUME NEW i \in 1 .. Len(es) - 1 PROVE es[i].l + es[i].n <= es[i + 1].l
    OBVIOUS
  <2>2. Len(es) \in Nat
    BY <1>1, LenProperties
  <2>3. i \in 1 .. Len(es) /\ i + 1 \in 1 .. Len(es) /\ i < i + 1
    BY <2>2
  <2>. QED  BY <1>3, <2>3 DEF Ascends
<1>. QED
  BY <1>5, <1>6 DEF InOrder, es
-----------------------------------------------------------------------------
(* The last extent ends inside the file.                                      *)
LEMMA EndInFile ==
  ASSUME IInv, RInv, fmt # "indirect", Entries(m) # <<>>
  PROVE  Last(Entries(m)).l + Last(Entries(m)).n <= size
<1> DEFINE es == Entries(m)
<1>1. es \in Seq(Ext) /\ \A e \in Cells(es) : e.l + e.n <= size
  BY ListsIn, ExtentPlace DEF IInv, Kept
<1>2. es # <<>>
  OBVIOUS
<1> HIDE DEF es
<1>3. Len(es) \in 1 .. Len(es)
  BY <1>1, <1>2, EmptySeq, LenProperties
<1>4. Last(es) \in Cells(es)
  BY <1>3 DEF Last, Cells
<1>5. Last(es).l + Last(es).n <= size
  BY <1>1, <1>4
<1>. QED
  BY <1>5 DEF es

(* The number of blocks of a file in extents.                                 *)
LEMMA CountIs ==
  ASSUME fmt # "indirect", m \in Mapping, Cardinality(MetaBlocks(m)) \in Nat
  PROVE  BlockCount(m) = TotalLen(Entries(m)) + Cardinality(MetaBlocks(m))
<1> DEFINE t == TotalLen(Entries(m))
           c == Cardinality(MetaBlocks(m))
<1>1. t \in Nat /\ c \in Nat
  BY ListsIn, TotalNat
<1>2. BlockCount(m) = t + c + 0
  BY DEF BlockCount
<1> HIDE DEF t, c
<1>3. BlockCount(m) = t + c
  BY <1>1, <1>2
<1>. QED
  BY <1>3 DEF t, c

(* The root of a tree repeats what its leaves are.                            *)
LEMMA RootValid ==
  ASSUME IInv, RInv, fmt = "tree"
  PROVE  ValidTree(DiskInode(m)) /\ Len(Refs(m)) = Cardinality(MetaBlocks(m))
         /\ Len(Refs(m)) = Len(m.leaves) /\ Len(Refs(m)) \in Nat
<1> DEFINE d == DiskInode(m)
           ss == m.leaves
           bs == m.lblk
           r == Refs(m)
<1>1. d.leaves = ss /\ d.refs = r
  BY DiskIs
<1> HIDE DEF d
<1>2. ss \in Leaves /\ bs \in Seq(Nat \ {0}) /\ Len(bs) = Len(ss) /\ Distinct(bs) /\ Filled(ss)
  BY DEF IInv, Kept, Mapping, Shape, Tidy
<1>3. Len(ss) \in Nat /\ Len(ss) <= RootRefs /\ \A i \in 1 .. Len(ss) : Fitting(ss[i])
  BY <1>2, LenProperties DEF RInv, Fits, Bounded, Leaves
<1>4. /\ Len(r) = Len(ss)
      /\ \A i \in 1 .. Len(ss) : /\ r[i].blk = bs[i] /\ r[i].n = Len(ss[i])
                                 /\ ss[i] # <<>> => r[i].l = ss[i][1].l
  BY <1>3 DEF Refs
<1> HIDE DEF r
<1>5. MetaBlocks(m) = Cells(bs)
  <2>1. m.ind = 0 /\ m.ovb = 0
    BY DEF IInv, Kept, Shape
  <2>2. MetaBlocks(m) = ({m.ind, m.ovb} \cup Cells(bs)) \ {0}
    BY DEF MetaBlocks, Cells
  <2>3. 0 \notin Cells(bs)
    BY CellsIn DEF IInv, Kept
  <2>. QED  BY <2>1, <2>2, <2>3
<1>6. Cardinality(Cells(bs)) = Len(bs)
  BY <1>2, DistinctCells
<1>7. ASSUME NEW i \in 1 .. Len(ss) PROVE ValidLeaf(d, i)
  <2> DEFINE es == ss[i]
  <2>1. es \in Seq(Ext) /\ es # <<>> /\ Fitting(es)
    BY <1>2, <1>3, ElementOfSeq DEF Leaves, Filled
  <2>2. r[i].blk = bs[i] /\ r[i].n = Len(es) /\ r[i].l = es[1].l
    BY <1>4, <2>1
  <2>3. Used(bs[i])
    BY <1>2, <1>5, UsedIs DEF Cells
  <2> HIDE DEF es
  <2>4. Len(es) \in 1 .. PerBlock
    BY <2>1, LenProperties, EmptySeq, Constants DEF Fitting
  <2>5. d.leaves[i] = es
    BY <1>1 DEF es
  <2>. QED  BY <1>1, <2>2, <2>3, <2>4, <2>5 DEF ValidLeaf
<1>8. ValidTree(d)
  BY <1>1, <1>3, <1>4, <1>7 DEF ValidTree
<1>. QED
  BY <1>2, <1>3, <1>4, <1>5, <1>6, <1>8 DEF d, r

LEMMA TreeValid ==
  ASSUME IInv, RInv, fmt = "tree"
  PROVE  ValidExtents(DiskInode(m))
<1> DEFINE d == DiskInode(m)
           es == Entries(m)
           r == Refs(m)
           c == Cardinality(MetaBlocks(m))
<1>1. /\ d.leaves = m.leaves /\ d.refs = r /\ d.blocks = BlockCount(m) /\ d.ovb = 0
      /\ d.fmt = fmt /\ d.size = size
  BY DiskIs
<1>2. ValidTree(d) /\ Len(r) = c /\ Len(r) = Len(m.leaves) /\ Len(r) \in Nat
  BY RootValid
<1> HIDE DEF d
<1>3. es \in Seq(Ext) /\ DiskEntries(d) = es
  <2>1. es \in Seq(Ext)
    BY ListsIn DEF IInv, Kept
  <2>. QED  BY <1>1, <2>1 DEF DiskEntries, Entries, Lists
<1>4. InOrder(es)
  BY TreeInOrder
<1>5. es # <<>> => Last(es).l + Last(es).n <= size
  BY EndInFile
<1>6. size = 0 => es = <<>> /\ m.leaves = <<>>
  BY NoPairs
<1>7. size = 0 => TotalLen(es) = 0 /\ r = <<>>
  <2>1. m.leaves = <<>> => r = <<>>
    BY DEF Refs
  <2>. QED  BY <1>6, <2>1, TotalNone
<1>8. TotalLen(es) \in Nat
  BY <1>3, TotalNat
<1>9. BlockCount(m) = TotalLen(es) + Len(r)
  <2>1. m \in Mapping
    BY DEF IInv, Kept
  <2>2. BlockCount(m) = TotalLen(es) + c
    BY <1>2, <2>1, CountIs
  <2>. QED  BY <1>2, <2>2
<1> HIDE DEF es, r, c
<1>10. d.blocks = TotalLen(es) + Len(r) + 0
  BY <1>1, <1>2, <1>8, <1>9
<1>11. ValidExtents(d)
  BY <1>1, <1>2, <1>3, <1>4, <1>5, <1>7, <1>10 DEF ValidExtents
<1>. QED
  BY <1>11 DEF d

(* A list in the inode and, with the feature, in the overflow block.          *)
InPlace == fmt = "root" \/ m.ovf = <<>>

LEMMA ListsValid ==
  ASSUME IInv, RInv, fmt \notin {"indirect", "tree"}, InOrder(Entries(m)), InPlace
  PROVE  /\ ValidExtents(DiskInode(m))
         /\ DiskInode(m).ovf = m.ovf /\ DiskInode(m).ovb = m.ovb
<1> DEFINE d == DiskInode(m)
           es == Entries(m)
           a == m.inl
           b == m.ovf
           o == m.ovb
           M == MetaBlocks(m)
           c == Cardinality(M)
<1>1. m \in Mapping /\ Kept(m) /\ Shape(m) /\ Sized(m)
  BY DEF IInv, Kept, RInv, Fits
<1>2. /\ a \in Seq(Ext) /\ b \in Seq(Ext) /\ o \in Nat
      /\ Len(a) <= InlineMax /\ Len(b) <= PerBlock /\ (o = 0 <=> b = <<>>)
  BY <1>1 DEF Mapping, Sized
<1>3. d.ovf = b /\ d.ovb = o
  BY <1>2, DiskIs DEF InPlace
<1>4. /\ d.inl = a /\ d.refs = Refs(m) /\ d.blocks = BlockCount(m)
      /\ d.fmt = fmt /\ d.size = size
  BY DiskIs
<1> HIDE DEF d
<1>5. d.refs = <<>>
  <2>1. m.leaves = <<>>
    BY <1>1 DEF Shape
  <2>. QED  BY <1>4, <2>1 DEF Refs
<1>6. es \in Seq(Ext) /\ DiskEntries(d) = es
  <2>1. es = a \o b
    BY <1>2, FlattenPair DEF Entries, Lists
  <2>. QED  BY <1>1, <1>3, <1>4, <2>1, ListsIn DEF DiskEntries
<1>7. M = {o} \ {0}
  <2> HIDE DEF a, b, o, M
  <2>1. fmt \notin {"tree", "indirect"} /\ Kept(m)
    BY <1>1
  <2>. QED  BY <1>2, <2>1, ListKept DEF M, o
<1>8. c = (IF o # 0 THEN 1 ELSE 0)
  BY <1>7, OneBlock
<1>9. BlockCount(m) = TotalLen(es) + c
  <2>1. Cardinality(MetaBlocks(m)) \in Nat
    BY <1>8
  <2>. QED  BY <1>1, <2>1, CountIs
<1>10. d.fmt = "root" => ValidOverflow(d)
  <2>1. o # 0 => Used(o)
    BY <1>7, UsedIs
  <2>. QED  BY <1>2, <1>3, <2>1 DEF ValidOverflow
<1>11. es # <<>> => Last(es).l + Last(es).n <= size
  BY EndInFile
<1>12. size = 0 => TotalLen(es) = 0 /\ o = 0
  <2>1. size = 0 => es = <<>> /\ o = 0
    BY NoPairs
  <2>. QED  BY <2>1, TotalNone
<1>13. InOrder(es)
  OBVIOUS
<1>14. TotalLen(es) \in Nat
  BY <1>6, TotalNat
<1> HIDE DEF es, a, b, o, c, M
<1>15. d.blocks = TotalLen(es) + Len(d.refs) + (IF d.ovb # 0 THEN 1 ELSE 0)
  <2> DEFINE t == TotalLen(es)
             k == Len(d.refs)
  <2>1. k = 0
    BY <1>5
  <2>2. t \in Nat /\ d.blocks = t + c /\ c = IF d.ovb # 0 THEN 1 ELSE 0
    BY <1>3, <1>4, <1>8, <1>9, <1>14
  <2> HIDE DEF t, k
  <2>3. d.blocks = t + k + (IF d.ovb # 0 THEN 1 ELSE 0)
    BY <2>1, <2>2
  <2>. QED  BY <2>3 DEF t, k
<1>16. Len(d.inl) <= InlineMax
  BY <1>2, <1>4 DEF a
<1>17. ValidExtents(d)
  BY <1>3, <1>4, <1>5, <1>6, <1>10, <1>11, <1>12, <1>13, <1>15, <1>16 DEF ValidExtents
<1>. QED
  BY <1>3, <1>17 DEF d, b, o

LEMMA ReloadsIs ==
  ASSUME IInv, RInv
  PROVE  Reloads
<1> DEFINE d == DiskInode(m)
<1>1. m \in Mapping /\ Tidy(m) /\ Shape(m)
  BY DEF IInv, Kept, Shape
<1>2. d.size <= Limit /\ d.fmt = fmt
  BY DiskIs DEF RInv
<1>3. CASE fmt \in {"indirect", "tree"}
  <2>1. d.ovf = m.ovf /\ d.ovb = m.ovb
    <3>1. m.ovf = <<>> /\ m.ovb = 0
      BY <1>1, <1>3 DEF Shape
    <3>. QED  BY <1>3, <3>1, DiskIs
  <2>2. Load(d) = m
    BY <1>1, <2>1, LoadSame
  <2>3. IF d.fmt = "indirect" THEN ValidIndirect(d) ELSE ValidExtents(d)
    <3>1. fmt = "indirect" => ValidIndirect(d)
      BY IndirectValid
    <3>2. fmt = "tree" => ValidExtents(d)
      BY TreeValid
    <3>. QED  BY <1>2, <1>3, <3>1, <3>2
  <2> HIDE DEF d
  <2>. QED  BY <1>2, <2>2, <2>3 DEF Reloads, ValidateInode, d
<1>4. CASE fmt \notin {"indirect", "tree"} /\ InOrder(Entries(m)) /\ InPlace
  <2>1. ValidExtents(d) /\ d.ovf = m.ovf /\ d.ovb = m.ovb
    BY <1>4, ListsValid
  <2>2. Load(d) = m
    BY <1>1, <2>1, LoadSame
  <2> HIDE DEF d
  <2>3. ValidateInode(d)
    BY <1>2, <1>4, <2>1 DEF ValidateInode
  <2>. QED  BY <2>2, <2>3 DEF Reloads, d
<1>5. CASE fmt \notin {"indirect", "tree"} /\ ~(InOrder(Entries(m)) /\ InPlace)
  <2>1. fmt \in {"inline", "root"}
    BY <1>5 DEF IInv
  <2>. QED  BY <1>5, <2>1 DEF Reloads, InPlace
<1>. QED
  BY <1>3, <1>4, <1>5

(* What write_inode_to_disk stores of a file passes validate_inode, and       *)
(* init_inode_blocks makes the same mapping of it: on every volume, whatever  *)
(* writes, truncations and holes came before, an inode that is evicted can be *)
(* read again.  The exceptions are those that Reloads names: extent lists in  *)
(* the inode that are out of order, and an overflow block that the inode      *)
(* cannot record.                                                             *)
THEOREM AlwaysReloads == Spec => []Reloads
<1>1. IInv /\ RInv => Reloads
  BY ReloadsIs
<1>. QED
  BY <1>1, Inductive, RInvAlways, PTL
=============================================================================
