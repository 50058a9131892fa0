--------------------------- MODULE ObjectTreeProofs ---------------------------
(***************************************************************************)
(* Proofs about ObjectTree, for every set of names, every disk to begin    *)
(* with, and any number of changes, operations, failures and restarts.     *)
(*                                                                         *)
(* The maps agree after a step only because of what they and the disk were *)
(* before it, so the inductive invariant says both.  Good(t): the disk is  *)
(* a tree with an inode for each entry and watches on inodes (DiskGood),   *)
(* paths and watches lead to the items that have them (PathsLead,          *)
(* WatchesLead), and unless an item took the path of another, each item is *)
(* found by its path and is in the folder that path says (OneTree).  A     *)
(* watch may lead to a handle without an item once removeFromStorage() has *)
(* left one behind.  While the daemon is down the maps are empty, and what *)
(* was stored of objects with ASCII paths is still true of the disk        *)
(* (BeforeKept).                                                           *)
(*                                                                         *)
(* An operation is a composition of functions on the record of maps and    *)
(* disk; so are the lemmas: what each function keeps of Good, and then     *)
(* that each handler, as a composition of them, keeps all of it.           *)
(***************************************************************************)
EXTENDS ObjectTree, SequenceTheorems, FiniteSetTheorems, WellFoundedInduction, TLAPS
-----------------------------------------------------------------------------
(* Paths. *)

NamePaths == Seq(Names)

LEMMA SameSequence ==
    ASSUME NEW S, NEW p \in Seq(S), NEW q \in Seq(S), Len(p) = Len(q), \A i \in 1 .. Len(p) : p[i] = q[i]
    PROVE  p = q
BY LenProperties

LEMMA NotEmpty == ASSUME NEW S, NEW p \in Seq(S) PROVE Len(p) \in Nat /\ (p # <<>> <=> Len(p) > 0)
BY EmptySeq, LenProperties

LEMMA FrontFacts ==
    ASSUME NEW S, NEW p \in Seq(S), p # <<>>
    PROVE  /\ Front(p) \in Seq(S) /\ Len(Front(p)) = Len(p) - 1 /\ Last(p) \in S
           /\ \A i \in 1 .. Len(p) - 1 : Front(p)[i] = p[i]
<1>1. Len(p) \in Nat /\ Len(p) > 0
  BY NotEmpty
<1>2. p[Len(p)] \in S
  BY <1>1, ElementOfSeq
<1>3. SubSeq(p, 1, Len(p) - 1) \in Seq(S) /\ Len(SubSeq(p, 1, Len(p) - 1)) = Len(p) - 1
      /\ \A i \in 1 .. Len(p) - 1 : SubSeq(p, 1, Len(p) - 1)[i] = p[i]
  <2> DEFINE n == Len(p) - 1
  <2>1. n \in Nat /\ n <= Len(p) /\ \A i \in 1 .. n : p[i] \in S
    BY <1>1, ElementOfSeq
  <2> HIDE DEF n
  <2>2. SubSeq(p, 1, n) \in Seq(S) /\ Len(SubSeq(p, 1, n)) = n /\ \A i \in 1 .. n : SubSeq(p, 1, n)[i] = p[i]
    BY <2>1, SubSeqProperties
  <2> QED
    BY <2>2 DEF n
<1> QED
  BY <1>2, <1>3 DEF Front, Last

LEMMA ChildFacts ==
    ASSUME NEW p \in Seq(Names), NEW name \in Names
    PROVE  /\ Child(p, name) \in Seq(Names) \ {<<>>} /\ Len(Child(p, name)) = Len(p) + 1
           /\ Front(Child(p, name)) = p /\ Last(Child(p, name)) = name
<1> DEFINE c == Child(p, name)
<1>1. c \in Seq(Names) /\ Len(c) = Len(p) + 1 /\ c[Len(p) + 1] = name /\ \A i \in 1 .. Len(p) : c[i] = p[i]
  BY DEF Child
<1> HIDE DEF c
<1>2. c # <<>>
  BY <1>1, NotEmpty
<1>3. Front(c) \in Seq(Names) /\ Len(Front(c)) = Len(p) /\ \A i \in 1 .. Len(p) : Front(c)[i] = p[i]
  BY <1>1, <1>2, FrontFacts
<1>4. Front(c) = p
  BY <1>3, SameSequence
<1> QED
  BY <1>1, <1>2, <1>4 DEF c, Last

LEMMA WithinIs ==
    ASSUME NEW p \in Seq(Names), NEW q \in Seq(Names)
    PROVE  /\ Within(p, q) <=> Len(p) <= Len(q) /\ \A i \in 1 .. Len(p) : q[i] = p[i]
           /\ Below(p, q) <=> Within(p, q) /\ Len(p) < Len(q)
           /\ Below(p, q) <=> Within(p, q) /\ p # q
<1>1. Len(p) \in Nat /\ Len(q) \in Nat
  BY LenProperties
<1>2. ASSUME Len(p) < Len(q) PROVE SubSeq(q, 1, Len(p)) = p <=> \A i \in 1 .. Len(p) : q[i] = p[i]
  <2> DEFINE c == SubSeq(q, 1, Len(p))
  <2>1. c \in Seq(Names) /\ Len(c) = Len(p) /\ \A i \in 1 .. Len(p) : c[i] = q[i]
    BY <1>1, <1>2
  <2> HIDE DEF c
  <2>2. c = p <=> \A i \in 1 .. Len(p) : q[i] = p[i]
    BY <2>1, SameSequence
  <2> QED
    BY <2>2 DEF c
<1>3. Len(p) = Len(q) => (p = q <=> \A i \in 1 .. Len(p) : q[i] = p[i])
  BY SameSequence
<1>4. Below(p, q) <=> Len(p) < Len(q) /\ \A i \in 1 .. Len(p) : q[i] = p[i]
  BY <1>1, <1>2 DEF Below
<1>5. Within(p, q) <=> q = p \/ Below(p, q)
  BY DEF Within
<1> QED
  BY <1>1, <1>3, <1>4, <1>5

LEMMA WithinFront ==
    ASSUME NEW p \in Seq(Names), NEW q \in Seq(Names), q # <<>>
    PROVE  Below(p, q) <=> Within(p, Front(q))
<1>1. Front(q) \in Seq(Names) /\ Len(Front(q)) = Len(q) - 1 /\ \A i \in 1 .. Len(q) - 1 : Front(q)[i] = q[i]
  BY FrontFacts
<1>2. Len(p) \in Nat /\ Len(q) \in Nat
  BY LenProperties
<1> DEFINE f == Front(q)
<1>3. Within(p, f) <=> Len(p) <= Len(f) /\ \A i \in 1 .. Len(p) : f[i] = p[i]
  BY <1>1, WithinIs
<1>4. Below(p, q) <=> Len(p) < Len(q) /\ \A i \in 1 .. Len(p) : q[i] = p[i]
  BY WithinIs
<1> QED
  BY <1>1, <1>2, <1>3, <1>4

LEMMA WithinTransitive ==
    ASSUME NEW p \in Seq(Names), NEW q \in Seq(Names), NEW r \in Seq(Names), Within(p, q), Within(q, r)
    PROVE  Within(p, r)
<1>1. Len(p) \in Nat /\ Len(q) \in Nat /\ Len(r) \in Nat
  BY LenProperties
<1>2. Len(p) <= Len(q) /\ \A i \in 1 .. Len(p) : q[i] = p[i]
  BY WithinIs
<1>3. Len(q) <= Len(r) /\ \A i \in 1 .. Len(q) : r[i] = q[i]
  BY WithinIs
<1>4. Len(p) <= Len(r) /\ \A i \in 1 .. Len(p) : r[i] = p[i]
  BY <1>1, <1>2, <1>3
<1> QED
  BY <1>4, WithinIs

LEMMA RebaseFacts ==
    ASSUME NEW q \in Seq(Names), NEW p \in Seq(Names), NEW r \in Seq(Names)
    PROVE  /\ Rebase(q, p, r) \in Seq(Names)
           /\ r # <<>> => Rebase(q, p, r) # <<>>
           /\ Within(p, q) => /\ Len(Rebase(q, p, r)) = Len(r) + Len(q) - Len(p)
                              /\ \A i \in 1 .. Len(r) : Rebase(q, p, r)[i] = r[i]
                              /\ \A i \in 1 .. Len(q) - Len(p) : Rebase(q, p, r)[Len(r) + i] = q[Len(p) + i]
<1>1. Len(p) \in Nat /\ Len(q) \in Nat /\ Len(r) \in Nat
  BY LenProperties
<1> DEFINE tail == SubSeq(q, Len(p) + 1, Len(q))
<1>2. tail \in Seq(Names)
  BY <1>1, SubSeqProperties
<1>3. Within(p, q) => Len(tail) = Len(q) - Len(p) /\ \A i \in 1 .. Len(q) - Len(p) : tail[i] = q[Len(p) + i]
  <2>1. Within(p, q) => Len(p) <= Len(q)
    BY WithinIs
  <2> QED
    BY <1>1, <2>1, SubSeqProperties
<1>4. Rebase(q, p, r) = r \o tail
  BY DEF Rebase
<1> HIDE DEF tail
<1>5. /\ r \o tail \in Seq(Names) /\ Len(r \o tail) = Len(r) + Len(tail)
      /\ \A i \in 1 .. Len(r) : (r \o tail)[i] = r[i]
      /\ \A i \in 1 .. Len(tail) : (r \o tail)[Len(r) + i] = tail[i]
  <2>1. Len(tail) \in Nat
    BY <1>2, LenProperties
  <2> QED
    BY <1>1, <1>2, <2>1
<1>6. r # <<>> => r \o tail # <<>>
  <2>1. Len(tail) \in Nat
    BY <1>2, LenProperties
  <2>2. r # <<>> => Len(r \o tail) > 0
    BY <1>1, <1>5, <2>1, NotEmpty
  <2> QED
    BY <1>5, <2>2, NotEmpty
<1> QED
  BY <1>3, <1>4, <1>5, <1>6

LEMMA RebaseWithin ==
    ASSUME NEW q \in Seq(Names), NEW p \in Seq(Names), NEW r \in Seq(Names), Within(p, q)
    PROVE  /\ Within(r, Rebase(q, p, r))
           /\ Rebase(Rebase(q, p, r), r, p) = q
           /\ p = q => Rebase(q, p, r) = r
<1> DEFINE b == Rebase(q, p, r)
<1>1. Len(p) \in Nat /\ Len(q) \in Nat /\ Len(r) \in Nat
  BY LenProperties
<1>2. /\ b \in Seq(Names) /\ Len(b) = Len(r) + Len(q) - Len(p)
      /\ \A i \in 1 .. Len(r) : b[i] = r[i]
      /\ \A i \in 1 .. Len(q) - Len(p) : b[Len(r) + i] = q[Len(p) + i]
  BY RebaseFacts
<1> HIDE DEF b
<1>3. Len(p) <= Len(q) /\ \A i \in 1 .. Len(p) : q[i] = p[i]
  BY WithinIs
<1>4. Within(r, b)
  <2>1. Len(r) <= Len(b)
    BY <1>1, <1>2, <1>3
  <2> QED
    BY <1>2, <2>1, WithinIs
<1> DEFINE c == Rebase(b, r, p)
<1>5. /\ c \in Seq(Names) /\ Len(c) = Len(p) + Len(b) - Len(r)
      /\ \A i \in 1 .. Len(p) : c[i] = p[i]
      /\ \A i \in 1 .. Len(b) - Len(r) : c[Len(p) + i] = b[Len(r) + i]
  BY <1>2, <1>4, RebaseFacts
<1> HIDE DEF c
<1>6. Len(c) = Len(q)
  BY <1>1, <1>2, <1>5
<1>7. ASSUME NEW i \in 1 .. Len(c) PROVE c[i] = q[i]
  <2>1. CASE i <= Len(p)
    BY <1>1, <1>3, <1>5, <2>1
  <2>2. CASE i > Len(p)
    <3>1. i - Len(p) \in 1 .. Len(q) - Len(p) /\ Len(p) + (i - Len(p)) = i /\ Len(b) - Len(r) = Len(q) - Len(p)
      BY <1>1, <1>2, <1>6, <2>2
    <3> QED
      BY <1>2, <1>5, <3>1
  <2> QED
    BY <1>1, <2>1, <2>2
<1>8. c = q
  BY <1>5, <1>6, <1>7, SameSequence
<1>9. p = q => b = r
  <2> SUFFICES ASSUME p = q PROVE b = r
    OBVIOUS
  <2>1. Len(b) = Len(r)
    BY <1>1, <1>2
  <2> QED
    BY <1>2, <2>1, SameSequence
<1> QED
  BY <1>4, <1>8, <1>9 DEF b, c

LEMMA RebaseFront ==
    ASSUME NEW q \in Seq(Names), NEW p \in Seq(Names), NEW r \in Seq(Names), Below(p, q)
    PROVE  Front(Rebase(q, p, r)) = Rebase(Front(q), p, r) /\ Rebase(q, p, r) # <<>> /\ Last(Rebase(q, p, r)) = Last(q)
<1> DEFINE b == Rebase(q, p, r)
           f == Front(q)
           c == Rebase(f, p, r)
<1>1. Len(p) \in Nat /\ Len(q) \in Nat /\ Len(r) \in Nat
  BY LenProperties
<1>2. Within(p, q) /\ Len(p) < Len(q) /\ q # <<>>
  BY <1>1, WithinIs, NotEmpty
<1>3. /\ f \in Seq(Names) /\ Len(f) = Len(q) - 1 /\ Within(p, f)
      /\ \A i \in 1 .. Len(q) - 1 : f[i] = q[i]
  BY <1>2, FrontFacts, WithinFront
<1> HIDE DEF f
<1>4. /\ b \in Seq(Names) /\ Len(b) = Len(r) + Len(q) - Len(p)
      /\ \A i \in 1 .. Len(r) : b[i] = r[i]
      /\ \A i \in 1 .. Len(q) - Len(p) : b[Len(r) + i] = q[Len(p) + i]
  BY <1>2, RebaseFacts
<1>5. /\ c \in Seq(Names) /\ Len(c) = Len(r) + Len(f) - Len(p)
      /\ \A i \in 1 .. Len(r) : c[i] = r[i]
      /\ \A i \in 1 .. Len(f) - Len(p) : c[Len(r) + i] = f[Len(p) + i]
  <2>1. f \in Seq(Names) /\ Within(p, f)
    BY <1>3
  <2> QED
    BY <2>1, RebaseFacts
<1> HIDE DEF b, c
<1>6. b # <<>>
  BY <1>1, <1>2, <1>4, NotEmpty
<1>7. Front(b) \in Seq(Names) /\ Len(Front(b)) = Len(b) - 1 /\ \A i \in 1 .. Len(b) - 1 : Front(b)[i] = b[i]
  BY <1>4, <1>6, FrontFacts
<1>8. Len(c) = Len(b) - 1
  BY <1>1, <1>3, <1>4, <1>5
<1>9. ASSUME NEW i \in 1 .. Len(c) PROVE c[i] = b[i]
  <2>1. CASE i <= Len(r)
    BY <1>1, <1>4, <1>5, <2>1
  <2>2. CASE i > Len(r)
    <3> DEFINE j == i - Len(r)
    <3>1. j \in 1 .. Len(f) - Len(p) /\ j \in 1 .. Len(q) - Len(p) /\ Len(r) + j = i /\ Len(p) + j \in 1 .. Len(q) - 1
      BY <1>1, <1>2, <1>3, <1>5, <2>2
    <3> HIDE DEF j
    <3> QED
      BY <1>3, <1>4, <1>5, <3>1
  <2> QED
    BY <1>1, <2>1, <2>2
<1>10. Front(b) = c
  BY <1>1, <1>4, <1>5, <1>7, <1>8, <1>9, SameSequence
<1>11. b[Len(b)] = q[Len(q)]
  <2>1. Len(q) - Len(p) \in 1 .. Len(q) - Len(p) /\ Len(r) + (Len(q) - Len(p)) = Len(b)
        /\ Len(p) + (Len(q) - Len(p)) = Len(q)
    BY <1>1, <1>2, <1>4
  <2> QED
    BY <1>4, <2>1
<1> QED
  BY <1>6, <1>10, <1>11 DEF b, c, f, Last

-----------------------------------------------------------------------------
(* Finite sets and their orders. *)

LEMMA Smallest ==
    ASSUME NEW T \in SUBSET Nat, T # {}
    PROVE  \E k \in T : \A j \in T : k <= j
<1> DEFINE Less == OpToRel(<, Nat)
<1>1. IsWellFoundedOn(Less, Nat)
  BY NatLessThanWellFounded
<1>2. \A x, y \in Nat : x < y => <<x, y>> \in Less
  BY DEF OpToRel
<1> HIDE DEF Less
<1>3. PICK k \in T : \A j \in T : ~(<<j, k>> \in Less)
  BY <1>1, WFMin
<1>4. \A j \in T : ~(j < k)
  BY <1>2, <1>3
<1> QED
  BY <1>3, <1>4

\* A finite set in any order
LEMMA Enumerated1 ==
    ASSUME NEW P, IsFiniteSet(P)
    PROVE  /\ Cardinality(P) \in Nat
           /\ SetToSeq(P) \in [1 .. Cardinality(P) -> P]
           /\ \A i, j \in 1 .. Cardinality(P) : SetToSeq(P)[i] = SetToSeq(P)[j] => i = j
           /\ \A p \in P : \E i \in 1 .. Cardinality(P) : SetToSeq(P)[i] = p
<1> DEFINE n == Cardinality(P)
<1>1. n \in Nat /\ ExistsBijection(1 .. n, P)
  BY FS_CardinalityType
<1>2. PICK f \in Bijection(1 .. n, P) : TRUE
  BY <1>1 DEF ExistsBijection
<1>3. f \in [1 .. n -> P] /\ IsInjective(f)
  BY <1>2 DEF Bijection, Injection
<1>4. SetToSeq(P) \in [1 .. n -> P] /\ IsInjective(SetToSeq(P))
  BY <1>3 DEF SetToSeq
<1> DEFINE g == SetToSeq(P)
<1>5. g \in Injection(1 .. n, P)
  BY <1>4 DEF Injection
<1>6. Cardinality(1 .. n) = n /\ IsFiniteSet(1 .. n)
  BY <1>1, FS_Interval
<1>7. g \in Surjection(1 .. n, P)
  BY <1>5, <1>6, FS_Injection
<1>8. \A p \in P : \E i \in 1 .. n : g[i] = p
  BY <1>7 DEF Surjection
<1> QED
  BY <1>1, <1>4, <1>8 DEF IsInjective

LEMMA Numbered ==
    ASSUME NEW P, IsFiniteSet(P)
    PROVE  /\ Len(SetToSeq(P)) \in Nat
           /\ DOMAIN SetToSeq(P) = 1 .. Len(SetToSeq(P))
           /\ \A i \in 1 .. Len(SetToSeq(P)) : SetToSeq(P)[i] \in P /\ Place(SetToSeq(P)[i], SetToSeq(P)) = i
           /\ \A p \in P : /\ Place(p, SetToSeq(P)) \in 1 .. Len(SetToSeq(P))
                           /\ SetToSeq(P)[Place(p, SetToSeq(P))] = p
<1> DEFINE n == Cardinality(P)
           g == SetToSeq(P)
<1>1. /\ n \in Nat /\ g \in [1 .. n -> P]
      /\ \A i, j \in 1 .. n : g[i] = g[j] => i = j
      /\ \A p \in P : \E i \in 1 .. n : g[i] = p
  BY Enumerated1
<1> HIDE DEF n, g
<1>2. g \in Seq(P) /\ Len(g) = n /\ DOMAIN g = 1 .. n
  BY <1>1, SeqDef
<1>3. \A p \in P : Place(p, g) \in 1 .. n /\ g[Place(p, g)] = p
  BY <1>1, <1>2 DEF Place
<1>4. \A i \in 1 .. n : g[i] \in P /\ Place(g[i], g) = i
  BY <1>1, <1>3
<1> QED
  BY <1>1, <1>2, <1>3, <1>4 DEF g

LEMMA ImageFinite ==
    ASSUME NEW f, IsFiniteSet(DOMAIN f)
    PROVE  IsFiniteSet({f[x] : x \in DOMAIN f})
<1> DEFINE T == {f[x] : x \in DOMAIN f}
           g == [x \in DOMAIN f |-> f[x]]
<1>1. g \in Surjection(DOMAIN f, T)
  BY DEF Surjection
<1> QED
  BY <1>1, FS_Surjection

LEMMA Bounded ==
    ASSUME NEW S \in SUBSET Nat, IsFiniteSet(S)
    PROVE  \E n \in Nat : \A x \in S : x <= n
<1> DEFINE n == Len(SetToSeq(S))
           g == SetToSeq(S)
<1>1. n \in Nat /\ (\A i \in 1 .. n : g[i] \in S) /\ \A x \in S : Place(x, g) \in 1 .. n /\ g[Place(x, g)] = x
  BY Numbered
<1> HIDE DEF n, g
<1> DEFINE Fails == {k \in 0 .. n : ~ \E m \in Nat : \A i \in 1 .. k : g[i] <= m}
<1>2. CASE Fails = {}
  <2>1. n \in 0 .. n
    BY <1>1
  <2>2. PICK m \in Nat : \A i \in 1 .. n : g[i] <= m
    BY <1>2, <2>1
  <2> QED
    BY <1>1, <2>2
<1>3. CASE Fails # {}
  <2>0. Fails \in SUBSET Nat /\ Fails \subseteq 0 .. n
    BY <1>1
  <2>1. PICK k \in Fails : \A j \in Fails : k <= j
    BY <1>3, <2>0, Smallest
  <2>2. k # 0 /\ k \in 0 .. n
    BY <2>1
  <2>3. k - 1 \in 0 .. n /\ k - 1 \notin Fails
    <3> HIDE DEF Fails
    <3>1. k - 1 \in 0 .. n /\ ~(k <= k - 1)
      BY <1>1, <2>2
    <3> QED
      BY <2>1, <3>1
  <2>4. PICK m \in Nat : \A i \in 1 .. k - 1 : g[i] <= m
    BY <2>3
  <2>5. k \in 1 .. n /\ (\A i \in 1 .. k : i \in 1 .. n) /\ \A i \in 1 .. n : g[i] \in Nat
    <3>1. \A i \in 1 .. n : g[i] \in Nat
      BY <1>1
    <3>2. k \in 1 .. n /\ \A i \in 1 .. k : i \in 1 .. n
      BY <1>1, <2>2
    <3> QED
      BY <3>1, <3>2
  <2>6. \E l \in Nat : m <= l /\ g[k] <= l
    <3>1. g[k] \in Nat
      BY <2>5
    <3> QED
      BY <3>1
  <2>7. PICK l \in Nat : m <= l /\ g[k] <= l
    BY <2>6
  <2>8. \A i \in 1 .. k : g[i] <= l
    <3> SUFFICES ASSUME NEW i \in 1 .. k PROVE g[i] <= l
      OBVIOUS
    <3>1. g[i] \in Nat
      BY <2>5
    <3>2. i = k \/ i \in 1 .. k - 1
      BY <2>2
    <3> QED
      BY <2>4, <2>7, <3>1, <3>2
  <2> QED
    BY <2>1, <2>8
<1> QED
  BY <1>2, <1>3

LEMMA MaxFacts ==
    ASSUME NEW S \in SUBSET Nat, IsFiniteSet(S), S # {}
    PROVE  Max(S) \in S /\ \A x \in S : x <= Max(S)
<1> DEFINE T == {n \in Nat : \A x \in S : x <= n}
<1>1. T \in SUBSET Nat /\ T # {}
  BY Bounded
<1>2. PICK n \in T : \A m \in T : n <= m
  BY <1>1, Smallest
<1>3. n \in S
  <2> SUFFICES ASSUME n \notin S PROVE FALSE
    OBVIOUS
  <2>1. n \in Nat /\ \A x \in S : x \in Nat /\ x < n
    BY <1>2
  <2>2. n - 1 \in Nat
    <3>1. PICK x \in S : TRUE
      OBVIOUS
    <3> QED
      BY <2>1, <3>1
  <2>3. n - 1 \in T
    BY <1>2, <2>1, <2>2
  <2> QED
    BY <1>2, <2>3
<1>4. \A y \in S : n >= y
  BY <1>2
<1>5. Max(S) \in S /\ \A y \in S : Max(S) >= y
  BY <1>3, <1>4 DEF Max
<1> QED
  BY <1>5

\* Finite sets of paths have an order by length.
LEMMA OrderExists ==
    ASSUME NEW S, NEW P \in SUBSET Seq(S), IsFiniteSet(P)
    PROVE  \E order \in [1 .. Cardinality(P) -> P] :
               \A i, j \in DOMAIN order : i < j => order[i] # order[j] /\ Len(order[i]) <= Len(order[j])
<1> DEFINE Ordered(Q) == \E order \in [1 .. Cardinality(Q) -> Q] :
               \A i, j \in DOMAIN order : i < j => order[i] # order[j] /\ Len(order[i]) <= Len(order[j])
           Fails == {n \in Nat : \E Q \in SUBSET Seq(S) : IsFiniteSet(Q) /\ Cardinality(Q) = n /\ ~Ordered(Q)}
<1>1. CASE Fails = {}
  <2>1. Cardinality(P) \in Nat
    BY FS_CardinalityType
  <2> QED
    BY <1>1, <2>1
<1>2. CASE Fails # {}
  <2>1. PICK n \in Fails : \A m \in Fails : n <= m
    <3>1. Fails \in SUBSET Nat
      OBVIOUS
    <3> QED
      BY <1>2, <3>1, Smallest
  <2>2. PICK Q \in SUBSET Seq(S) : IsFiniteSet(Q) /\ Cardinality(Q) = n /\ ~Ordered(Q)
    BY <2>1
  <2>3. Q # {}
    <3> SUFFICES ASSUME Q = {} PROVE FALSE
      OBVIOUS
    <3>1. Cardinality(Q) = 0
      BY FS_EmptySet
    <3>2. 1 .. 0 = {}
      OBVIOUS
    <3> DEFINE o == [i \in {} |-> i]
    <3>3. o \in [1 .. Cardinality(Q) -> Q] /\ DOMAIN o = {}
      BY <3>1, <3>2
    <3> HIDE DEF o
    <3>4. Ordered(Q)
      BY <3>3
    <3> QED
      BY <2>2, <3>4
  <2> DEFINE f == [q \in Q |-> Len(q)]
             L == {f[q] : q \in DOMAIN f}
  <2>4. \A q \in Q : f[q] \in Nat /\ f[q] = Len(q)
    BY LenProperties
  <2>5. IsFiniteSet(L)
    <3>1. IsFiniteSet(DOMAIN f)
      BY <2>2
    <3> HIDE DEF f
    <3> QED
      BY <3>1, ImageFinite
  <2>6. L \in SUBSET Nat /\ L # {}
    BY <2>3, <2>4
  <2>7. Max(L) \in L /\ \A x \in L : x <= Max(L)
    BY <2>5, <2>6, MaxFacts
  <2>8. PICK p \in Q : \A q \in Q : Len(q) <= Len(p)
    BY <2>4, <2>7
  <2> HIDE DEF f, L
  <2> DEFINE R == Q \ {p}
  <2>9. R \in SUBSET Seq(S) /\ IsFiniteSet(R) /\ Cardinality(R) = n - 1 /\ Cardinality(R) \in Nat
    BY <2>2, <2>8, FS_RemoveElement, FS_CardinalityType
  <2>10. Ordered(R)
    <3> SUFFICES ASSUME ~Ordered(R) PROVE FALSE
      OBVIOUS
    <3>1. n - 1 \in Fails
      BY <2>9
    <3> HIDE DEF Fails, R, Ordered
    <3>2. n \in Nat /\ n - 1 \in Nat
      BY <2>1, <2>9 DEF Fails
    <3> QED
      BY <2>1, <3>1, <3>2
  <2>11. PICK g \in [1 .. n - 1 -> R] :
             \A i, j \in 1 .. n - 1 : i < j => g[i] # g[j] /\ Len(g[i]) <= Len(g[j])
    BY <2>9, <2>10
  <2>12. n \in Nat /\ n - 1 \in Nat
    BY <2>1, <2>9
  <2> DEFINE o == [i \in 1 .. n |-> IF i = n THEN p ELSE g[i]]
  <2>13. o \in [1 .. n -> Q] /\ DOMAIN o = 1 .. n
    BY <2>8, <2>11, <2>12
  <2>14. ASSUME NEW i \in 1 .. n, NEW j \in 1 .. n, i < j
         PROVE  o[i] # o[j] /\ Len(o[i]) <= Len(o[j])
    <3>1. i \in 1 .. n - 1 /\ o[i] = g[i] /\ g[i] \in R
      BY <2>11, <2>12, <2>14
    <3>2. CASE j = n
      BY <2>8, <3>1, <3>2
    <3>3. CASE j # n
      <4>1. j \in 1 .. n - 1 /\ o[j] = g[j]
        BY <2>12, <3>3
      <4> QED
        BY <2>11, <2>14, <3>1, <4>1
    <3> QED
      BY <3>2, <3>3
  <2> HIDE DEF o
  <2>15. Ordered(Q)
    <3>1. 1 .. Cardinality(Q) = 1 .. n
      BY <2>2
    <3>2. o \in [1 .. Cardinality(Q) -> Q]
      BY <2>13, <3>1
    <3> WITNESS o \in [1 .. Cardinality(Q) -> Q]
    <3> QED
      BY <2>13, <2>14
  <2> QED
    BY <2>2, <2>15
<1> QED
  BY <1>1, <1>2

LEMMA ByDepthFacts ==
    ASSUME NEW S, NEW P \in SUBSET Seq(S), IsFiniteSet(P)
    PROVE  ByDepth(P) \in Seq(P) /\ Reverse(ByDepth(P)) \in Seq(P)
<1>1. ByDepth(P) \in [1 .. Cardinality(P) -> P] /\ Cardinality(P) \in Nat
  BY OrderExists, FS_CardinalityType DEF ByDepth
<1> DEFINE o == ByDepth(P)
<1>2. o \in Seq(P) /\ Len(o) \in Nat /\ \A i \in 1 .. Len(o) : o[i] \in P
  BY <1>1, SeqDef
<1> HIDE DEF o
<1>3. Reverse(o) \in [1 .. Len(o) -> P]
  BY <1>2 DEF Reverse
<1>4. Reverse(o) \in Seq(P)
  <2> DEFINE r == Reverse(o)
             n == Len(o)
  <2>1. n \in Nat /\ r \in [1 .. n -> P]
    BY <1>2, <1>3
  <2> HIDE DEF r, n
  <2>2. r \in Seq(P)
    BY <2>1
  <2> QED
    BY <2>2 DEF r
<1> QED
  BY <1>2, <1>4 DEF o

-----------------------------------------------------------------------------
(* The disk and its notifications. *)

Fields == {"disk", "watch", "queue", "ino", "wd", "cookie", "items", "paths", "wds", "puoids", "refs",
           "handle", "puoid", "lost"}
Kinds == {"create", "delete", "from", "to"}
Events == [kind : Kinds, wd : Int, name : Names, cookie : Nat, dir : Nat]

\* What is on the disk is in directories on it, and an inode is one entry.
Entries(t) ==
    /\ t.ino \in Nat /\ 0 < t.ino
    /\ DOMAIN t.disk \subseteq Seq(Names) \ {<<>>}
    /\ \A p \in DOMAIN t.disk : /\ IsDir(t, Front(p))
                                /\ t.disk[p].ino \in Nat /\ 0 < t.disk[p].ino /\ t.disk[p].ino < t.ino
    /\ \A p, q \in DOMAIN t.disk : t.disk[p].ino = t.disk[q].ino => p = q

Notifications(t) == t.cookie \in Nat /\ t.wd \in Nat /\ DOMAIN t.watch \subseteq Int /\ t.queue \in Seq(Events)

DiskGood(t) == DOMAIN t = Fields /\ Entries(t) /\ Notifications(t)

SameMaps(t, u) ==
    /\ u.items = t.items /\ u.paths = t.paths /\ u.wds = t.wds /\ u.handle = t.handle
    /\ u.puoids = t.puoids /\ u.puoid = t.puoid /\ u.refs = t.refs /\ u.lost = t.lost
SameDisk(t, u) == u.disk = t.disk /\ u.queue = t.queue /\ u.ino = t.ino /\ u.cookie = t.cookie

\* The entries of u are those of t, perhaps in other places, and new ones.
Descends(t, u) ==
    /\ t.ino <= u.ino
    /\ \A q \in DOMAIN u.disk : t.ino <= u.disk[q].ino \/ \E p \in DOMAIN t.disk : u.disk[q] = t.disk[p]

LEMMA DescendsFrom ==
    ASSUME NEW t, NEW u, NEW v, t.ino \in Nat, u.ino \in Nat, v.ino \in Nat,
           \A q \in DOMAIN v.disk : v.disk[q].ino \in Nat,
           Descends(t, u), Descends(u, v)
    PROVE  Descends(t, v)
<1>1. t.ino <= v.ino
  BY DEF Descends
<1>2. ASSUME NEW q \in DOMAIN v.disk
      PROVE  t.ino <= v.disk[q].ino \/ \E p \in DOMAIN t.disk : v.disk[q] = t.disk[p]
  <2>1. CASE u.ino <= v.disk[q].ino
    BY <2>1 DEF Descends
  <2>2. CASE \E p \in DOMAIN u.disk : v.disk[q] = u.disk[p]
    BY <2>2 DEF Descends
  <2> QED
    BY <2>1, <2>2 DEF Descends
<1> QED
  BY <1>1, <1>2 DEF Descends

LEMMA DescendsSame == ASSUME NEW t, NEW u, t.ino \in Nat, u.disk = t.disk, u.ino = t.ino PROVE Descends(t, u)
BY DEF Descends

\* A directory has what leads to it.
LEMMA DiskClosed ==
    ASSUME NEW t, DiskGood(t), NEW p \in Seq(Names), NEW q \in DOMAIN t.disk, Below(p, q)
    PROVE  IsDir(t, p)
<1> DEFINE Fails == {n \in Nat : \E r \in DOMAIN t.disk : Len(r) = n /\ Below(p, r) /\ ~IsDir(t, p)}
<1>1. \A r \in DOMAIN t.disk : r \in Seq(Names) /\ r # <<>> /\ Len(r) \in Nat
  BY LenProperties DEF DiskGood, Entries
<1>2. CASE Fails = {}
  BY <1>1, <1>2
<1>3. CASE Fails # {}
  <2>0. Fails \in SUBSET Nat
    OBVIOUS
  <2>1. PICK n \in Fails : \A m \in Fails : n <= m
    BY <1>3, <2>0, Smallest
  <2>2. PICK r \in DOMAIN t.disk : Len(r) = n /\ Below(p, r) /\ ~IsDir(t, p)
    BY <2>1
  <2>3. IsDir(t, Front(r)) /\ Front(r) \in Seq(Names) /\ Len(Front(r)) = n - 1
    BY <1>1, <2>2, FrontFacts DEF DiskGood, Entries
  <2>4. Within(p, Front(r)) /\ p # Front(r)
    BY <1>1, <2>2, <2>3, WithinFront
  <2>5. Below(p, Front(r))
    BY <2>3, <2>4, WithinIs
  <2>6. Front(r) # <<>>
    <3>1. Len(p) \in Nat /\ Len(p) < Len(Front(r))
      BY <2>3, <2>5, WithinIs, LenProperties
    <3> QED
      BY <2>3, <3>1, NotEmpty
  <2>7. Front(r) \in DOMAIN t.disk
    BY <2>3, <2>6 DEF IsDir
  <2>8. n - 1 \in Fails
    BY <1>1, <2>2, <2>3, <2>5, <2>7
  <2> HIDE DEF Fails
  <2>9. n \in Nat
    BY <2>1, <2>0
  <2> QED
    BY <2>1, <2>8, <2>9
<1> QED
  BY <1>2, <1>3

LEMMA DiskClosedWithin ==
    ASSUME NEW t, DiskGood(t), NEW p \in Seq(Names), NEW q \in DOMAIN t.disk, Within(p, q)
    PROVE  Exists(t, p)
<1>1. CASE p = q
  BY <1>1 DEF Exists
<1>2. CASE p # q
  <2>1. Below(p, q)
    BY <1>2 DEF Within
  <2>2. IsDir(t, p)
    BY <2>1, DiskClosed
  <2> QED
    BY <2>2 DEF IsDir, Exists
<1> QED
  BY <1>1, <1>2

LEMMA DiskFinite == ASSUME NEW t, DiskGood(t) PROVE IsFiniteSet(DOMAIN t.disk)
<1> DEFINE D == DOMAIN t.disk
           N == 1 .. t.ino
           f == [p \in D |-> t.disk[p].ino]
<1>1. t.ino \in Nat /\ \A p \in D : t.disk[p].ino \in N
  BY DEF DiskGood, Entries
<1>2. \A p, q \in D : t.disk[p].ino = t.disk[q].ino => p = q
  BY DEF DiskGood, Entries
<1>3. f \in Injection(D, N)
  BY <1>1, <1>2 DEF Injection, IsInjective
<1>4. IsFiniteSet(N)
  BY <1>1, FS_Interval
<1> QED
  BY <1>3, <1>4, FS_Injection

LEMMA EventFacts ==
    ASSUME NEW t, DiskGood(t), NEW kind \in Kinds, NEW cookie \in Nat,
           NEW p \in Seq(Names) \ {<<>>}, IsDir(t, Front(p)), WatchesOf(t, Ino(t, Front(p))) # {}
    PROVE  Event(t, kind, p, cookie) \in Events
<1> DEFINE dir == Ino(t, Front(p))
           wd == CHOOSE w \in WatchesOf(t, dir) : TRUE
<1>1. dir \in Nat
  BY DEF Ino, IsDir, DiskGood, Entries
<1>2. wd \in Int
  BY DEF WatchesOf, DiskGood, Notifications
<1>3. Last(p) \in Names
  BY FrontFacts
<1>4. Event(t, kind, p, cookie) = [kind |-> kind, wd |-> wd, name |-> Last(p), cookie |-> cookie, dir |-> dir]
  BY DEF Event
<1> HIDE DEF dir, wd
<1> QED
  BY <1>1, <1>2, <1>3, <1>4 DEF Events

LEMMA NotifyFacts ==
    ASSUME NEW t, DiskGood(t), NEW kind \in Kinds, NEW cookie \in Nat,
           NEW P \in SUBSET (Seq(Names) \ {<<>>}), \A p \in P : IsDir(t, Front(p)),
           NEW order \in Seq(Heard(t, P))
    PROVE  LET u == Notify(t, kind, order, cookie) IN
           DiskGood(u) /\ SameMaps(t, u) /\ u.disk = t.disk /\ u.ino = t.ino /\ u.cookie = t.cookie /\ u.watch = t.watch
<1> DEFINE told == [i \in DOMAIN order |-> Event(t, kind, order[i], cookie)]
           u == Notify(t, kind, order, cookie)
<1>1. \A p \in Heard(t, P) : Event(t, kind, p, cookie) \in Events
  BY EventFacts DEF Heard
<1>2. told \in Seq(Events)
  <2>1. Len(order) \in Nat /\ DOMAIN order = 1 .. Len(order) /\ \A i \in 1 .. Len(order) : order[i] \in Heard(t, P)
    BY LenProperties
  <2> QED
    BY <1>1, <2>1
<1>3. u = [t EXCEPT !.queue = t.queue \o told]
  BY DEF Notify
<1> HIDE DEF told, u
<1>4. t.queue \o told \in Seq(Events)
  BY <1>2, ConcatProperties DEF DiskGood, Notifications
<1>5. DOMAIN t = Fields
  BY DEF DiskGood
<1>6. /\ DOMAIN u = Fields /\ u.queue \in Seq(Events)
      /\ u.disk = t.disk /\ u.watch = t.watch /\ u.ino = t.ino /\ u.cookie = t.cookie
      /\ u.wd = t.wd /\ SameMaps(t, u)
  BY <1>3, <1>4, <1>5 DEF Fields, SameMaps
<1>7. Entries(u)
  BY <1>6 DEF DiskGood, Entries, IsDir
<1>8. Notifications(u)
  BY <1>6 DEF DiskGood, Notifications
<1> QED
  BY <1>6, <1>7, <1>8 DEF u, DiskGood

LEMMA NotifyOneFacts ==
    ASSUME NEW t, DiskGood(t), NEW kind \in Kinds, NEW cookie \in Nat,
           NEW p \in Seq(Names) \ {<<>>}, IsDir(t, Front(p))
    PROVE  LET u == NotifyOne(t, kind, p, cookie) IN
           DiskGood(u) /\ SameMaps(t, u) /\ u.disk = t.disk /\ u.ino = t.ino /\ u.cookie = t.cookie /\ u.watch = t.watch
<1> DEFINE P == {p}
           H == Heard(t, P)
<1>1. P \in SUBSET (Seq(Names) \ {<<>>}) /\ \A q \in P : IsDir(t, Front(q))
  OBVIOUS
<1>2. H \in SUBSET P
  BY DEF Heard
<1>3. H \in SUBSET Seq(Names) /\ IsFiniteSet(H)
  BY <1>2, FS_Singleton, FS_Subset
<1> HIDE DEF H
<1>4. ByDepth(H) \in Seq(H)
  BY <1>3, ByDepthFacts
<1> HIDE DEF P
<1>5. NotifyOne(t, kind, p, cookie) = Notify(t, kind, ByDepth(H), cookie)
  BY DEF NotifyOne, H, P
<1>6. ByDepth(H) \in Seq(Heard(t, P))
  BY <1>4 DEF H
<1> DEFINE o == ByDepth(H)
<1> HIDE DEF o
<1>7. o \in Seq(Heard(t, P))
  BY <1>6 DEF o
<1> QED
  BY <1>1, <1>5, <1>7, NotifyFacts DEF o

LEMMA DropWatchesFacts ==
    ASSUME NEW t, DiskGood(t)
    PROVE  LET u == DropWatches(t) IN
           DiskGood(u) /\ SameMaps(t, u) /\ u.disk = t.disk /\ u.ino = t.ino /\ u.cookie = t.cookie
<1> DEFINE u == DropWatches(t)
           gone == {w \in DOMAIN t.watch : t.watch[w] \notin Inodes(t)}
<1>1. u = [t EXCEPT !.watch = Without(t.watch, gone)]
  BY DEF DropWatches
<1>2. DOMAIN Without(t.watch, gone) \subseteq Int
  BY DEF Without, DiskGood, Notifications
<1> HIDE DEF u, gone
<1>3. DOMAIN t = Fields
  BY DEF DiskGood
<1>4. /\ DOMAIN u = Fields /\ DOMAIN u.watch \subseteq Int
      /\ u.disk = t.disk /\ u.queue = t.queue /\ u.ino = t.ino /\ u.cookie = t.cookie
      /\ u.wd = t.wd /\ SameMaps(t, u)
  BY <1>1, <1>2, <1>3 DEF Fields, SameMaps
<1>5. Entries(u) /\ Notifications(u)
  BY <1>4 DEF DiskGood, Entries, Notifications, IsDir
<1> QED
  BY <1>4, <1>5 DEF u, DiskGood

\* Removing entries: what stays is the same, and still in directories.
LEMMA UnlinkFacts ==
    ASSUME NEW t, DiskGood(t), NEW P
    PROVE  LET u == Unlink(t, P) IN
           /\ DiskGood(u) /\ SameMaps(t, u) /\ u.ino = t.ino
           /\ DOMAIN u.disk \subseteq DOMAIN t.disk /\ DOMAIN t.disk \ DOMAIN u.disk \subseteq P
           /\ \A p \in DOMAIN u.disk : u.disk[p] = t.disk[p]
<1> DEFINE gone == {p \in P \cap DOMAIN t.disk : \A q \in DOMAIN t.disk : Below(p, q) => q \in P}
           H == Heard(t, gone)
           o == Reverse(ByDepth(H))
           told == Notify(t, "delete", o, 0)
           v == [told EXCEPT !.disk = Without(t.disk, gone)]
<1>1. gone \in SUBSET (Seq(Names) \ {<<>>}) /\ (\A p \in gone : IsDir(t, Front(p))) /\ gone \subseteq DOMAIN t.disk
  BY DEF DiskGood, Entries
<1>2. H \in SUBSET Seq(Names) /\ IsFiniteSet(H)
  <2>1. H \subseteq gone
    BY DEF Heard
  <2> HIDE DEF gone, H
  <2> QED
    BY <1>1, <2>1, DiskFinite, FS_Subset
<1> HIDE DEF H
<1>3. o \in Seq(H)
  BY <1>2, ByDepthFacts
<1> HIDE DEF o
<1>4. o \in Seq(Heard(t, gone))
  BY <1>3 DEF H
<1>5. \A p \in DOMAIN t.disk \ gone : Front(p) \notin gone
  <2> SUFFICES ASSUME NEW p \in DOMAIN t.disk \ gone, Front(p) \in gone PROVE FALSE
    OBVIOUS
  <2>1. p \in Seq(Names) /\ p # <<>> /\ Front(p) \in Seq(Names)
    BY FrontFacts DEF DiskGood, Entries
  <2>2. Below(Front(p), p)
    BY <2>1, WithinFront DEF Within
  <2>3. \A q \in DOMAIN t.disk : Below(p, q) => q \in P
    <3> SUFFICES ASSUME NEW q \in DOMAIN t.disk, Below(p, q) PROVE q \in P
      OBVIOUS
    <3>1. q \in Seq(Names)
      BY DEF DiskGood, Entries
    <3>2. Within(Front(p), q)
      BY <2>1, <2>2, <3>1, WithinTransitive DEF Within
    <3>3. Len(Front(p)) < Len(q)
      <4>1. Len(Front(p)) < Len(p) /\ Len(p) < Len(q) /\ Len(p) \in Nat /\ Len(q) \in Nat /\ Len(Front(p)) \in Nat
        BY <2>1, <2>2, <3>1, WithinIs, LenProperties
      <4> QED
        BY <4>1
    <3>4. Below(Front(p), q)
      BY <2>1, <3>1, <3>2, <3>3, WithinIs
    <3> QED
      BY <3>4
  <2>4. p \in P
    BY <2>2
  <2> QED
    BY <2>3, <2>4
<1> HIDE DEF gone
<1>6. /\ DiskGood(told) /\ SameMaps(t, told) /\ told.disk = t.disk /\ told.ino = t.ino
      /\ told.cookie = t.cookie /\ told.watch = t.watch
  <2>1. "delete" \in Kinds /\ 0 \in Nat
    BY DEF Kinds
  <2> HIDE DEF v
  <2>2. gone \in SUBSET (Seq(Names) \ {<<>>}) /\ \A p \in gone : IsDir(t, Front(p))
    BY <1>1
  <2> QED
    BY <1>4, <2>1, <2>2, NotifyFacts
<1> HIDE DEF told
<1> DEFINE rest == Without(t.disk, gone)
<1>7. DOMAIN rest = DOMAIN t.disk \ gone /\ \A p \in DOMAIN rest : rest[p] = t.disk[p]
  BY DEF Without
<1> HIDE DEF rest
<1>8. DOMAIN told = Fields
  BY <1>6 DEF DiskGood
<1>9. /\ DOMAIN v = Fields /\ v.disk = rest /\ v.queue = told.queue /\ v.ino = t.ino /\ v.cookie = t.cookie
      /\ v.watch = told.watch /\ v.wd = told.wd /\ SameMaps(t, v)
  <2>1. v = [told EXCEPT !.disk = rest]
    BY DEF rest
  <2> HIDE DEF v
  <2> QED
    BY <1>6, <1>8, <2>1 DEF Fields, SameMaps
<1> HIDE DEF v
<1>10. Entries(v)
  <2>1. \A p \in DOMAIN v.disk : IsDir(v, Front(p))
    BY <1>5, <1>7, <1>9 DEF DiskGood, Entries, IsDir
  <2> QED
    BY <1>7, <1>9, <2>1 DEF DiskGood, Entries
<1>11. Notifications(v)
  BY <1>6, <1>9 DEF DiskGood, Notifications
<1>12. DiskGood(v)
  BY <1>9, <1>10, <1>11 DEF DiskGood
<1>13. Unlink(t, P) = DropWatches(v)
  <2>1. told.disk = t.disk
    BY <1>6
  <2>2. Unlink(t, P) = DropWatches([told EXCEPT !.disk = Without(told.disk, gone)])
    BY DEF Unlink, told, o, H, gone
  <2> QED
    BY <2>1, <2>2 DEF v
<1> DEFINE u == Unlink(t, P)
<1>14. DiskGood(u) /\ SameMaps(v, u) /\ u.disk = v.disk /\ u.ino = v.ino
  BY <1>12, <1>13, DropWatchesFacts
<1> HIDE DEF u
<1>15. SameMaps(t, u)
  BY <1>9, <1>14 DEF SameMaps
<1>16. gone \subseteq P
  BY DEF gone
<1> QED
  BY <1>7, <1>9, <1>14, <1>15, <1>16 DEF u

\* The prefixes of a path
LEMMA PrefixFacts ==
    ASSUME NEW p \in Seq(Names), p # <<>>
    PROVE  /\ Len(p) - 1 \in 0 .. Len(p) - 1 /\ SubSeq(p, 1, Len(p) - 1) = Front(p)
           /\ \A n \in 0 .. Len(Front(p)) - 1 : n \in 0 .. Len(p) - 1 /\ SubSeq(Front(p), 1, n) = SubSeq(p, 1, n)
<1>1. Len(p) \in Nat /\ Len(p) > 0
  BY NotEmpty
<1>2. Front(p) \in Seq(Names) /\ Len(Front(p)) = Len(p) - 1 /\ \A i \in 1 .. Len(p) - 1 : Front(p)[i] = p[i]
  BY FrontFacts
<1>3. ASSUME NEW n \in 0 .. Len(p) - 2 PROVE SubSeq(Front(p), 1, n) = SubSeq(p, 1, n)
  <2> DEFINE f == Front(p)
  <2>1. n \in Nat /\ n <= Len(p) /\ \A i \in 1 .. n : f[i] \in Names /\ p[i] \in Names /\ f[i] = p[i]
    BY <1>1, <1>2, ElementOfSeq
  <2> HIDE DEF f
  <2>2. SubSeq(f, 1, n) \in Seq(Names) /\ Len(SubSeq(f, 1, n)) = n /\ \A i \in 1 .. n : SubSeq(f, 1, n)[i] = f[i]
    BY <2>1, SubSeqProperties
  <2>3. SubSeq(p, 1, n) \in Seq(Names) /\ Len(SubSeq(p, 1, n)) = n /\ \A i \in 1 .. n : SubSeq(p, 1, n)[i] = p[i]
    BY <2>1, SubSeqProperties
  <2>4. SubSeq(f, 1, n) = SubSeq(p, 1, n)
    BY <2>1, <2>2, <2>3, SameSequence
  <2> QED
    BY <2>4 DEF f
<1>4. SubSeq(p, 1, Len(p) - 1) = Front(p)
  BY DEF Front
<1> QED
  BY <1>1, <1>2, <1>3, <1>4

\* Making entries: what was there is the same, and the new ones are in directories.
LEMMA MakeFacts ==
    ASSUME NEW t, DiskGood(t), NEW P \in SUBSET (Seq(Names) \ {<<>>}), IsFiniteSet(P), NEW D
    PROVE  LET u == Make(t, P, D) IN
           /\ DiskGood(u) /\ SameMaps(t, u) /\ Descends(t, u)
           /\ \A p \in DOMAIN t.disk : p \in DOMAIN u.disk /\ u.disk[p] = t.disk[p]
<1> DEFINE new == {p \in P : ~Exists(t, p) /\ \A n \in 0 .. Len(p) - 1 :
                     LET q == SubSeq(p, 1, n) IN IsDir(t, q) \/ (q \in P \cap D /\ ~Exists(t, q))}
           order == SetToSeq(new)
           made == [p \in new |-> [ino |-> t.ino + Place(p, order) - 1, dir |-> p \in D]]
           v == [t EXCEPT !.disk = Merge(made, t.disk), !.ino = t.ino + Len(order)]
<1>1. new \in SUBSET (Seq(Names) \ {<<>>}) /\ \A p \in new : p \notin DOMAIN t.disk
  BY DEF Exists
<1>2. IsFiniteSet(new)
  <2>1. new \subseteq P
    OBVIOUS
  <2> HIDE DEF new
  <2> QED
    BY <2>1, FS_Subset
<1>3. \A p \in new : IsDir(t, Front(p)) \/ (Front(p) \in new /\ Front(p) \in D)
  <2> SUFFICES ASSUME NEW p \in new, ~IsDir(t, Front(p)) PROVE Front(p) \in new /\ Front(p) \in D
    OBVIOUS
  <2>1. p \in Seq(Names) /\ p # <<>>
    BY <1>1
  <2>2. /\ Len(p) - 1 \in 0 .. Len(p) - 1 /\ SubSeq(p, 1, Len(p) - 1) = Front(p)
        /\ \A n \in 0 .. Len(Front(p)) - 1 : n \in 0 .. Len(p) - 1 /\ SubSeq(Front(p), 1, n) = SubSeq(p, 1, n)
    <3> HIDE DEF new
    <3> QED
      BY <2>1, PrefixFacts
  <2>3. Front(p) \in P \cap D /\ ~Exists(t, Front(p))
    BY <2>2
  <2>4. \A n \in 0 .. Len(Front(p)) - 1 :
           LET q == SubSeq(Front(p), 1, n) IN IsDir(t, q) \/ (q \in P \cap D /\ ~Exists(t, q))
    BY <2>2
  <2> QED
    BY <2>3, <2>4
<1> HIDE DEF new
<1>4. /\ Len(order) \in Nat
      /\ \A p \in new : Place(p, order) \in 1 .. Len(order) /\ order[Place(p, order)] = p
  BY <1>2, Numbered
<1> HIDE DEF order
<1>5. /\ DOMAIN made = new
      /\ \A p \in new : /\ made[p].ino = t.ino + Place(p, order) - 1
                        /\ p \in D => made[p].dir
  OBVIOUS
<1> HIDE DEF made
<1> DEFINE disk == Merge(made, t.disk)
<1>6. /\ DOMAIN disk = new \cup DOMAIN t.disk
      /\ \A p \in new : disk[p] = made[p]
      /\ \A p \in DOMAIN t.disk : disk[p] = t.disk[p]
  BY <1>1, <1>5 DEF Merge
<1> HIDE DEF disk
<1>7. DOMAIN t = Fields /\ t.ino \in Nat
  BY DEF DiskGood, Entries
<1>8. /\ DOMAIN v = Fields /\ v.disk = disk /\ v.queue = t.queue /\ v.ino = t.ino + Len(order) /\ v.cookie = t.cookie
      /\ v.watch = t.watch /\ v.wd = t.wd /\ SameMaps(t, v)
  <2>1. v = [t EXCEPT !.disk = disk, !.ino = t.ino + Len(order)]
    BY DEF disk
  <2> HIDE DEF v
  <2> QED
    BY <1>7, <2>1 DEF Fields, SameMaps
<1> HIDE DEF v
<1>9. \A p \in new : /\ v.disk[p].ino \in Nat /\ 0 < v.disk[p].ino /\ v.disk[p].ino < v.ino /\ t.ino <= v.disk[p].ino
                     /\ v.disk[p].ino = t.ino + Place(p, order) - 1
  <2> SUFFICES ASSUME NEW p \in new
               PROVE  /\ v.disk[p].ino \in Nat /\ 0 < v.disk[p].ino /\ v.disk[p].ino < v.ino /\ t.ino <= v.disk[p].ino
                      /\ v.disk[p].ino = t.ino + Place(p, order) - 1
    OBVIOUS
  <2>1. v.disk[p].ino = t.ino + Place(p, order) - 1 /\ Place(p, order) \in 1 .. Len(order)
    BY <1>4, <1>5, <1>6, <1>8
  <2>2. 0 < t.ino
    BY DEF DiskGood, Entries
  <2> QED
    BY <1>4, <1>7, <1>8, <2>1, <2>2
<1>10. \A p, q \in new : v.disk[p].ino = v.disk[q].ino => p = q
  <2> SUFFICES ASSUME NEW p \in new, NEW q \in new, v.disk[p].ino = v.disk[q].ino PROVE p = q
    OBVIOUS
  <2>1. Place(p, order) = Place(q, order)
    <3>1. Place(p, order) \in Nat /\ Place(q, order) \in Nat
      BY <1>4
    <3> QED
      BY <1>7, <1>9, <3>1
  <2> QED
    BY <1>4, <2>1
<1>11. \A p \in DOMAIN t.disk : v.disk[p] = t.disk[p] /\ v.disk[p].ino < t.ino /\ v.disk[p].ino \in Nat /\ 0 < v.disk[p].ino
  BY <1>6, <1>8 DEF DiskGood, Entries
<1>12. \A p \in DOMAIN v.disk : IsDir(v, Front(p))
  <2>1. \A q : IsDir(t, q) => IsDir(v, q)
    BY <1>6, <1>8 DEF IsDir
  <2>2. \A q \in new : q \in D => IsDir(v, q)
    BY <1>5, <1>6, <1>8 DEF IsDir
  <2>3. \A p \in DOMAIN t.disk : IsDir(t, Front(p))
    BY DEF DiskGood, Entries
  <2> QED
    BY <1>3, <1>6, <1>8, <2>1, <2>2, <2>3
<1>13. Entries(v)
  <2>1. v.ino \in Nat /\ 0 < v.ino /\ t.ino <= v.ino /\ 0 < t.ino
    BY <1>4, <1>7, <1>8 DEF DiskGood, Entries
  <2>2. DOMAIN v.disk \subseteq Seq(Names) \ {<<>>}
    BY <1>1, <1>6, <1>8 DEF DiskGood, Entries
  <2>3. \A p \in DOMAIN v.disk : v.disk[p].ino \in Nat /\ 0 < v.disk[p].ino /\ v.disk[p].ino < v.ino
    <3> SUFFICES ASSUME NEW p \in DOMAIN v.disk
                 PROVE  v.disk[p].ino \in Nat /\ 0 < v.disk[p].ino /\ v.disk[p].ino < v.ino
      OBVIOUS
    <3>1. CASE p \in new
      BY <1>9, <3>1
    <3>2. CASE p \in DOMAIN t.disk
      BY <1>7, <1>11, <2>1, <3>2
    <3> QED
      BY <1>6, <1>8, <3>1, <3>2
  <2>4. ASSUME NEW p \in DOMAIN v.disk, NEW q \in DOMAIN v.disk, v.disk[p].ino = v.disk[q].ino PROVE p = q
    <3>1. CASE p \in new /\ q \in new
      BY <1>10, <2>4, <3>1
    <3>2. CASE p \in DOMAIN t.disk /\ q \in DOMAIN t.disk
      BY <1>11, <2>4, <3>2 DEF DiskGood, Entries
    <3>3. CASE p \in new /\ q \in DOMAIN t.disk
      BY <1>7, <1>9, <1>11, <2>4, <3>3
    <3>4. CASE q \in new /\ p \in DOMAIN t.disk
      BY <1>7, <1>9, <1>11, <2>4, <3>4
    <3> QED
      BY <1>6, <1>8, <3>1, <3>2, <3>3, <3>4
  <2> QED
    BY <1>12, <2>1, <2>2, <2>3, <2>4 DEF Entries
<1>14. DiskGood(v)
  BY <1>8, <1>13 DEF DiskGood, Notifications
<1>15. Descends(t, v)
  <2>1. t.ino <= v.ino
    BY <1>4, <1>7, <1>8
  <2>2. \A q \in DOMAIN v.disk : t.ino <= v.disk[q].ino \/ \E p \in DOMAIN t.disk : v.disk[q] = t.disk[p]
    BY <1>6, <1>8, <1>9, <1>11
  <2> QED
    BY <2>1, <2>2 DEF Descends
<1> DEFINE H == Heard(v, new)
           o == ByDepth(H)
           u == Make(t, P, D)
<1>16. H \in SUBSET Seq(Names) /\ IsFiniteSet(H)
  <2>1. H \subseteq new
    BY DEF Heard
  <2> HIDE DEF H
  <2> QED
    BY <1>1, <1>2, <2>1, FS_Subset
<1> HIDE DEF H
<1>17. o \in Seq(H)
  BY <1>16, ByDepthFacts
<1> HIDE DEF o
<1>18. u = Notify(v, "create", o, 0)
  BY DEF Make, o, H, v, made, order, new
<1>19. o \in Seq(Heard(v, new))
  BY <1>17 DEF H
<1>20. \A p \in new : IsDir(v, Front(p))
  BY <1>6, <1>8, <1>12
<1> HIDE DEF u
<1>21. DiskGood(u) /\ SameMaps(v, u) /\ u.disk = v.disk /\ u.ino = v.ino
  <2>1. "create" \in Kinds /\ 0 \in Nat
    BY DEF Kinds
  <2> QED
    BY <1>1, <1>14, <1>18, <1>19, <1>20, <2>1, NotifyFacts
<1>22. SameMaps(t, u)
  BY <1>8, <1>21 DEF SameMaps
<1>23. Descends(t, u)
  BY <1>15, <1>21 DEF Descends
<1> QED
  BY <1>6, <1>8, <1>21, <1>22, <1>23 DEF u

\* Renaming an entry: it goes with what is below it, and replaces what has nothing below it.
LEMMA RenameFacts ==
    ASSUME NEW t, DiskGood(t), NEW p \in DOMAIN t.disk, NEW r \in Seq(Names) \ {<<>>}, CanRename(t, p, r)
    PROVE  LET u == Rename(t, p, r) IN DiskGood(u) /\ SameMaps(t, u) /\ Descends(t, u)
<1> DEFINE from == NotifyOne(t, "from", p, t.cookie)
           to == NotifyOne(from, "to", r, t.cookie)
           tree == {q \in DOMAIN t.disk : Within(p, q)}
           moved == [q \in {Rebase(w, p, r) : w \in tree} |-> t.disk[Rebase(q, r, p)]]
           rest == Without(t.disk, tree \cup {r})
           disk == Merge(moved, rest)
           v == [to EXCEPT !.disk = disk, !.cookie = t.cookie + 1]
           u == Rename(t, p, r)
<1>1. DOMAIN t = Fields /\ Entries(t) /\ t.cookie \in Nat /\ p \in Seq(Names) \ {<<>>}
  BY DEF DiskGood, Entries, Notifications
<1>2. p # r /\ ~Below(p, r) /\ IsDir(t, Front(r)) /\ \A q \in DOMAIN t.disk : ~Below(r, q)
  <2>1. \A q \in DOMAIN t.disk : Below(r, q) => IsDir(t, r)
    BY DiskClosed
  <2>2. IsDir(t, r) => r \in DOMAIN t.disk
    BY DEF IsDir
  <2> QED
    BY <2>1, <2>2 DEF CanRename
<1>3. \A q \in DOMAIN t.disk : q \in Seq(Names) /\ q # <<>> /\ IsDir(t, Front(q)) /\ Front(q) \in Seq(Names)
  BY <1>1, FrontFacts DEF Entries
<1>4. "from" \in Kinds /\ "to" \in Kinds
  BY DEF Kinds
<1>5. DiskGood(from) /\ SameMaps(t, from) /\ from.disk = t.disk /\ from.ino = t.ino /\ from.cookie = t.cookie
  <2> HIDE DEF u, v, to
  <2> QED
    BY <1>1, <1>3, <1>4, NotifyOneFacts
<1> HIDE DEF from
<1>6. DiskGood(to) /\ SameMaps(from, to) /\ to.disk = t.disk /\ to.ino = t.ino /\ to.cookie = t.cookie
  <2>1. IsDir(from, Front(r))
    BY <1>2, <1>5 DEF IsDir
  <2> HIDE DEF u, v
  <2> QED
    BY <1>1, <1>4, <1>5, <2>1, NotifyOneFacts
<1> HIDE DEF to
<1>7. ASSUME NEW w \in tree
      PROVE  /\ Rebase(w, p, r) \in DOMAIN moved /\ moved[Rebase(w, p, r)] = t.disk[w]
             /\ Rebase(w, p, r) \in Seq(Names) \ {<<>>} /\ Within(r, Rebase(w, p, r))
  <2>1. w \in Seq(Names) /\ Within(p, w)
    BY <1>3
  <2>2. Rebase(w, p, r) \in Seq(Names) \ {<<>>} /\ Within(r, Rebase(w, p, r)) /\ Rebase(Rebase(w, p, r), r, p) = w
    BY <1>1, <2>1, RebaseFacts, RebaseWithin
  <2> QED
    BY <2>2
<1>8. \A q \in DOMAIN moved : \E w \in tree : q = Rebase(w, p, r)
  OBVIOUS
<1>9. tree \subseteq DOMAIN t.disk /\ p \in tree /\ \A q \in DOMAIN t.disk : Within(p, q) => q \in tree
  BY DEF Within
<1> HIDE DEF tree, moved
<1>10. DOMAIN rest = DOMAIN t.disk \ (tree \cup {r}) /\ \A q \in DOMAIN rest : rest[q] = t.disk[q]
  BY DEF Without
<1> HIDE DEF rest
<1>11. /\ DOMAIN disk = DOMAIN moved \cup DOMAIN rest
       /\ \A q \in DOMAIN moved : disk[q] = moved[q]
       /\ \A q \in DOMAIN rest \ DOMAIN moved : disk[q] = rest[q]
  BY DEF Merge
<1> HIDE DEF disk
<1>12. \A q \in DOMAIN disk : q \in Seq(Names) \ {<<>>} /\ \E w \in DOMAIN t.disk : disk[q] = t.disk[w]
  <2>1. \A q \in DOMAIN moved : q \in Seq(Names) \ {<<>>} /\ \E w \in DOMAIN t.disk : disk[q] = t.disk[w]
    BY <1>7, <1>8, <1>9, <1>11
  <2>2. \A q \in DOMAIN rest \ DOMAIN moved : q \in Seq(Names) \ {<<>>} /\ \E w \in DOMAIN t.disk : disk[q] = t.disk[w]
    BY <1>3, <1>10, <1>11
  <2> QED
    BY <1>11, <2>1, <2>2
<1>13. DOMAIN to = Fields
  BY <1>6 DEF DiskGood
<1>14. /\ DOMAIN v = Fields /\ v.disk = disk /\ v.queue = to.queue /\ v.ino = t.ino /\ v.cookie = t.cookie + 1
       /\ v.watch = to.watch /\ v.wd = to.wd /\ SameMaps(to, v)
  <2> HIDE DEF u
  <2> QED
    BY <1>6, <1>13 DEF Fields, SameMaps
<1> HIDE DEF v
\* A directory that is neither in the tree nor replaced is where it was.
<1>15. ASSUME NEW d \in Seq(Names), IsDir(t, d), d \notin tree, ~Within(r, d)
       PROVE  IsDir(v, d)
  <2>1. CASE d = <<>>
    BY <2>1 DEF IsDir
  <2>2. CASE d # <<>>
    <3>1. d \in DOMAIN t.disk /\ t.disk[d].dir
      BY <1>15, <2>2 DEF IsDir
    <3>2. d \notin DOMAIN moved
      BY <1>7, <1>8, <1>15
    <3>3. d # r
      BY <1>15 DEF Within
    <3>4. d \in DOMAIN v.disk /\ v.disk[d] = t.disk[d]
      BY <1>10, <1>11, <1>14, <1>15, <3>1, <3>2, <3>3
    <3> QED
      BY <3>1, <3>4 DEF IsDir
  <2> QED
    BY <2>1, <2>2
<1>16. ASSUME NEW q \in DOMAIN disk PROVE IsDir(v, Front(q))
  <2>1. CASE q \in DOMAIN moved
    <3>1. PICK w \in tree : q = Rebase(w, p, r)
      BY <1>8, <2>1
    <3>2. w \in Seq(Names) /\ w # <<>> /\ Within(p, w) /\ IsDir(t, Front(w)) /\ Front(w) \in Seq(Names)
      BY <1>3, <1>9 DEF tree
    <3>3. CASE w = p
      <4>1. q = r
        BY <1>1, <3>1, <3>2, <3>3, RebaseWithin
      <4>2. Front(r) \in Seq(Names) /\ ~Within(p, Front(r)) /\ ~Within(r, Front(r))
        <5>1. Front(r) \in Seq(Names)
          BY FrontFacts
        <5>2. ~Below(r, r)
          BY WithinIs
        <5> QED
          BY <1>1, <1>2, <5>1, <5>2, WithinFront
      <4> QED
        BY <1>2, <1>15, <4>1, <4>2 DEF tree
    <3>4. CASE w # p
      <4>1. Below(p, w)
        BY <3>2, <3>4 DEF Within
      <4>2. Front(q) = Rebase(Front(w), p, r) /\ Within(p, Front(w))
        BY <1>1, <3>1, <3>2, <4>1, RebaseFront, WithinFront
      <4>3. Front(w) # <<>>
        <5>1. Len(p) <= Len(Front(w)) /\ Len(p) > 0 /\ Len(p) \in Nat /\ Len(Front(w)) \in Nat
          BY <1>1, <3>2, <4>2, WithinIs, NotEmpty
        <5> QED
          BY <3>2, <5>1, NotEmpty
      <4>4. Front(w) \in tree /\ t.disk[Front(w)].dir
        BY <1>9, <3>2, <4>2, <4>3 DEF IsDir
      <4>5. Front(q) \in DOMAIN v.disk /\ v.disk[Front(q)].dir
        BY <1>7, <1>11, <1>14, <4>2, <4>4
      <4> QED
        BY <4>5 DEF IsDir
    <3> QED
      BY <3>3, <3>4
  <2>2. CASE q \notin DOMAIN moved
    <3>1. q \in DOMAIN t.disk /\ q \notin tree
      BY <1>10, <1>11, <2>2
    <3>2. ~Below(p, q) /\ ~Below(r, q) /\ q \in Seq(Names) /\ q # <<>> /\ IsDir(t, Front(q)) /\ Front(q) \in Seq(Names)
      BY <1>2, <1>3, <1>9, <3>1 DEF Within
    <3>3. ~Within(p, Front(q)) /\ ~Within(r, Front(q))
      BY <1>1, <3>2, WithinFront
    <3> QED
      BY <1>15, <3>2, <3>3 DEF tree
  <2> QED
    BY <2>1, <2>2
<1>17. ASSUME NEW q1 \in DOMAIN disk, NEW q2 \in DOMAIN disk, disk[q1].ino = disk[q2].ino
       PROVE  q1 = q2
  <2>0. \A w1, w2 \in DOMAIN t.disk : t.disk[w1].ino = t.disk[w2].ino => w1 = w2
    BY <1>1 DEF Entries
  <2>1. \A q \in DOMAIN moved : \E w \in tree : q = Rebase(w, p, r) /\ disk[q] = t.disk[w]
    BY <1>7, <1>8, <1>11
  <2>2. \A q \in DOMAIN disk \ DOMAIN moved : q \in DOMAIN t.disk \ tree /\ disk[q] = t.disk[q]
    BY <1>10, <1>11
  <2>3. CASE q1 \in DOMAIN moved /\ q2 \in DOMAIN moved
    BY <1>9, <1>17, <2>0, <2>1, <2>3
  <2>4. CASE q1 \notin DOMAIN moved /\ q2 \notin DOMAIN moved
    BY <1>17, <2>0, <2>2, <2>4
  <2>5. CASE q1 \in DOMAIN moved /\ q2 \notin DOMAIN moved
    BY <1>9, <1>17, <2>0, <2>1, <2>2, <2>5
  <2>6. CASE q1 \notin DOMAIN moved /\ q2 \in DOMAIN moved
    BY <1>9, <1>17, <2>0, <2>1, <2>2, <2>6
  <2> QED
    BY <2>3, <2>4, <2>5, <2>6
<1>18. Entries(v)
  BY <1>1, <1>12, <1>14, <1>16, <1>17 DEF Entries
<1>19. DiskGood(v)
  BY <1>1, <1>6, <1>14, <1>18 DEF DiskGood, Notifications
<1>20. Descends(t, v)
  BY <1>1, <1>12, <1>14 DEF Descends, Entries
<1>21. u = DropWatches(v)
  <2>1. u = DropWatches([to EXCEPT !.disk = Merge(moved, Without(to.disk, tree \cup {r})), !.cookie = to.cookie + 1])
    BY DEF Rename, to, from, moved, tree
  <2> QED
    BY <1>6, <2>1 DEF v, disk, rest
<1> HIDE DEF u
<1>22. DiskGood(u) /\ SameMaps(v, u) /\ u.disk = v.disk /\ u.ino = v.ino
  BY <1>19, <1>21, DropWatchesFacts
<1>23. SameMaps(t, u)
  BY <1>5, <1>6, <1>14, <1>22 DEF SameMaps
<1>24. Descends(t, u)
  BY <1>20, <1>22 DEF Descends
<1> QED
  BY <1>22, <1>23, <1>24 DEF u

\* An entry that leaves takes what is below it along.
LEMMA LeaveFacts ==
    ASSUME NEW t, DiskGood(t), NEW p \in DOMAIN t.disk
    PROVE  LET on == NotifyOne(t, "from", p, t.cookie)
               u == DropWatches([on EXCEPT !.disk = Without(@, {q \in DOMAIN @ : Within(p, q)}), !.cookie = @ + 1])
           IN  DiskGood(u) /\ SameMaps(t, u) /\ Descends(t, u)
<1> DEFINE on == NotifyOne(t, "from", p, t.cookie)
           tree == {q \in DOMAIN t.disk : Within(p, q)}
           rest == Without(t.disk, tree)
           v == [on EXCEPT !.disk = rest, !.cookie = t.cookie + 1]
           u == DropWatches(v)
<1>1. DOMAIN t = Fields /\ Entries(t) /\ t.cookie \in Nat /\ p \in Seq(Names) \ {<<>>}
  BY DEF DiskGood, Entries, Notifications
<1>2. \A q \in DOMAIN t.disk : q \in Seq(Names) /\ q # <<>> /\ IsDir(t, Front(q)) /\ Front(q) \in Seq(Names)
  BY <1>1, FrontFacts DEF Entries
<1>3. DiskGood(on) /\ SameMaps(t, on) /\ on.disk = t.disk /\ on.ino = t.ino /\ on.cookie = t.cookie
  <2>1. "from" \in Kinds
    BY DEF Kinds
  <2> HIDE DEF u, v
  <2> QED
    BY <1>1, <1>2, <2>1, NotifyOneFacts
<1>4. DropWatches([on EXCEPT !.disk = Without(@, {q \in DOMAIN @ : Within(p, q)}), !.cookie = @ + 1]) = u
  BY <1>3
<1> HIDE DEF on
<1>5. DOMAIN rest = DOMAIN t.disk \ tree /\ \A q \in DOMAIN rest : rest[q] = t.disk[q]
  BY DEF Without
<1>6. \A q \in DOMAIN t.disk \ tree : Front(q) \notin tree
  BY <1>1, <1>2, WithinFront DEF Within
<1> HIDE DEF rest, tree
<1>7. DOMAIN on = Fields
  BY <1>3 DEF DiskGood
<1>8. /\ DOMAIN v = Fields /\ v.disk = rest /\ v.queue = on.queue /\ v.ino = t.ino /\ v.cookie = t.cookie + 1
      /\ v.watch = on.watch /\ v.wd = on.wd /\ SameMaps(on, v)
  <2> HIDE DEF u
  <2> QED
    BY <1>3, <1>7 DEF Fields, SameMaps
<1> HIDE DEF v
<1>9. \A q \in DOMAIN v.disk : IsDir(v, Front(q))
  BY <1>2, <1>5, <1>6, <1>8 DEF IsDir
<1>10. Entries(v)
  BY <1>1, <1>5, <1>8, <1>9 DEF Entries
<1>11. DiskGood(v)
  BY <1>1, <1>3, <1>8, <1>10 DEF DiskGood, Notifications
<1>12. Descends(t, v)
  BY <1>1, <1>5, <1>8 DEF Descends, Entries
<1>13. DiskGood(u) /\ SameMaps(v, u) /\ u.disk = v.disk /\ u.ino = v.ino
  BY <1>11, DropWatchesFacts
<1> HIDE DEF u
<1>14. SameMaps(t, u)
  BY <1>3, <1>8, <1>13 DEF SameMaps
<1>15. Descends(t, u)
  BY <1>12, <1>13 DEF Descends
<1> QED
  BY <1>4, <1>13, <1>14, <1>15 DEF on

-----------------------------------------------------------------------------
(* The maps of the plugin. *)

ItemFields == {"path", "dir", "wd", "parent", "puoid"}

\* Items have paths in the storage, and only the root that of the storage.
Items(t) ==
    /\ t.handle \in Nat /\ DOMAIN t.items \subseteq 0 .. t.handle
    /\ Root \in DOMAIN t.items /\ t.items[Root].path = <<>>
    /\ \A h \in DOMAIN t.items : DOMAIN t.items[h] = ItemFields
    /\ \A h \in DOMAIN t.items \ {Root} : t.items[h].path \in Seq(Names) \ {<<>>}
\* A path leads to the item that has it.
PathsLead(t) == \A q \in DOMAIN t.paths : t.paths[q] \in DOMAIN t.items /\ t.items[t.paths[q]].path = q
\* A watch leads to the item that has it, or once one was left behind perhaps to none.
WatchesLead(t) ==
    \A w \in DOMAIN t.wds : /\ t.wds[w] \in 0 .. t.handle
                            /\ t.wds[w] \in DOMAIN t.items => t.items[t.wds[w]].wd = w
                            /\ t.wds[w] \in DOMAIN t.items \/ "stale" \in t.lost
MapsTyped(t) == DiskGood(t) /\ Items(t) /\ PathsLead(t) /\ WatchesLead(t)

\* Items are found by their paths, and are in the directories their paths say.
OneTree(t) ==
    /\ \A h \in DOMAIN t.items : t.items[h].path \in DOMAIN t.paths /\ t.paths[t.items[h].path] = h
    /\ \A h \in DOMAIN t.items \ {Root} : /\ t.items[h].parent \in DOMAIN t.items
                                          /\ t.items[t.items[h].parent].path = Front(t.items[h].path)

\* The maps are one tree, unless one of the causes that MapsAgree names has happened.
Broken(t) == {"displaced", "cycle"} \cap t.lost # {}
Good(t) == MapsTyped(t) /\ (~Broken(t) => OneTree(t))

\* With an item, what is in it
Closed(t, H) == \A k \in DOMAIN t.items \ {Root} : t.items[k].parent \in H => k \in H

LEMMA ItemPaths ==
    ASSUME NEW t, Items(t)
    PROVE  /\ \A h \in DOMAIN t.items : t.items[h].path \in Seq(Names) /\ Len(t.items[h].path) \in Nat
           /\ Root \in DOMAIN t.items /\ t.items[Root].path = <<>>
           /\ \A h \in DOMAIN t.items : t.items[h].path = <<>> => h = Root
           /\ IsFiniteSet(DOMAIN t.items)
<1>1. \A h \in DOMAIN t.items : t.items[h].path \in Seq(Names)
  <2>1. <<>> \in Seq(Names)
    BY EmptySeq
  <2> QED
    BY <2>1 DEF Items
<1>2. IsFiniteSet(DOMAIN t.items)
  <2>1. 0 \in Int /\ t.handle \in Int /\ DOMAIN t.items \in SUBSET (0 .. t.handle)
    BY DEF Items
  <2>2. IsFiniteSet(0 .. t.handle)
    BY <2>1, FS_Interval
  <2> QED
    BY <2>1, <2>2, FS_Subset
<1> QED
  BY <1>1, <1>2, LenProperties DEF Items

LEMMA DepthFacts ==
    ASSUME NEW t, Items(t)
    PROVE  Depth(t) \in Nat /\ \A h \in DOMAIN t.items : Len(t.items[h].path) <= Depth(t)
<1> DEFINE f == [h \in DOMAIN t.items |-> Len(t.items[h].path)]
           L == {f[h] : h \in DOMAIN f}
<1>1. DOMAIN f = DOMAIN t.items /\ \A h \in DOMAIN t.items : f[h] = Len(t.items[h].path) /\ f[h] \in Nat
  BY ItemPaths
<1>2. {Len(t.items[h].path) : h \in DOMAIN t.items} = L
  BY <1>1
<1> HIDE DEF f
<1>3. IsFiniteSet(L)
  BY <1>1, ItemPaths, ImageFinite
<1>4. L \in SUBSET Nat /\ L # {}
  BY <1>1, ItemPaths
<1> HIDE DEF L
<1>5. Max(L) \in L /\ \A n \in L : n <= Max(L)
  BY <1>3, <1>4, MaxFacts
<1>6. Depth(t) = Max(L)
  BY <1>2 DEF Depth
<1>7. \A h \in DOMAIN t.items : f[h] \in L
  BY <1>1 DEF L
<1> QED
  BY <1>1, <1>4, <1>5, <1>6, <1>7

\* The levels of a tree that are counted are there.
AreLevels(g, t, h, N) == g = [n \in 0 .. N |-> IF n = 0 THEN {h} ELSE UNION {Kids(t, k) : k \in g[n - 1]}]

LEMMA LevelsExist == ASSUME NEW t, NEW h, NEW N \in Nat PROVE \E g : AreLevels(g, t, h, N)
<1> DEFINE Step(g, n) == IF n = 0 THEN {h} ELSE UNION {Kids(t, k) : k \in g[n - 1]}
           Has(m) == \E g : g = [n \in 0 .. m |-> Step(g, n)]
           Fails == {m \in Nat : ~Has(m)}
<1>0. \A m \in Nat : Has(m) => \E g : AreLevels(g, t, h, m)
  BY DEF AreLevels
<1>1. CASE Fails = {}
  BY <1>0, <1>1
<1>2. CASE Fails # {}
  <2>1. PICK m \in Fails : \A j \in Fails : m <= j
    <3>1. Fails \in SUBSET Nat
      OBVIOUS
    <3> QED
      BY <1>2, <3>1, Smallest
  <2>2. m # 0
    <3> DEFINE g == [n \in 0 .. 0 |-> {h}]
    <3>1. g = [n \in 0 .. 0 |-> Step(g, n)]
      OBVIOUS
    <3> HIDE DEF g
    <3>2. Has(0)
      BY <3>1
    <3> QED
      BY <2>1, <3>2
  <2>3. m - 1 \in Nat /\ m \in Nat
    BY <2>1, <2>2
  <2>4. Has(m - 1)
    <3> SUFFICES ASSUME ~Has(m - 1) PROVE FALSE
      OBVIOUS
    <3>1. m - 1 \in Fails
      BY <2>3
    <3> HIDE DEF Fails, Has
    <3> QED
      BY <2>1, <2>3, <3>1
  <2>5. PICK g : g = [n \in 0 .. m - 1 |-> Step(g, n)]
    BY <2>4
  <2> DEFINE f == [n \in 0 .. m |-> IF n = m THEN Step(g, m) ELSE g[n]]
  <2>6. ASSUME NEW n \in 0 .. m PROVE f[n] = Step(f, n)
    <3>1. CASE n = m
      <4>1. m - 1 \in 0 .. m /\ m - 1 # m
        BY <2>3
      <4>2. f[m - 1] = g[m - 1]
        BY <4>1
      <4> QED
        BY <2>2, <3>1, <4>2
    <3>2. CASE n # m
      <4>1. n \in 0 .. m - 1
        BY <2>3, <3>2
      <4>2. f[n] = Step(g, n)
        BY <2>5, <3>2, <4>1
      <4>3. CASE n = 0
        BY <4>2, <4>3
      <4>4. CASE n # 0
        <5>1. n - 1 \in 0 .. m /\ n - 1 # m
          BY <2>3, <4>1, <4>4
        <5>2. f[n - 1] = g[n - 1]
          BY <5>1
        <5> QED
          BY <4>2, <4>4, <5>2
      <4> QED
        BY <4>3, <4>4
    <3> QED
      BY <3>1, <3>2
  <2>7. f = [n \in 0 .. m |-> f[n]]
    OBVIOUS
  <2> HIDE DEF f
  <2>8. f = [n \in 0 .. m |-> Step(f, n)]
    BY <2>6, <2>7
  <2>9. Has(m)
    BY <2>8
  <2> QED
    BY <2>1, <2>9
<1> QED
  BY <1>1, <1>2

LevelsOf(g, t, h, N) ==
    /\ g[0] = {h}
    /\ \A n \in 1 .. N : g[n] = UNION {Kids(t, k) : k \in g[n - 1]}
    /\ \A k : k \in Subtree(t, h) <=> \E n \in 0 .. N : k \in g[n]

LEMMA SubtreeLevels ==
    ASSUME NEW t, NEW h, Items(t)
    PROVE  \E g : LevelsOf(g, t, h, Depth(t))
<1> DEFINE N == Depth(t)
           level == CHOOSE g : g = [n \in 0 .. N |-> IF n = 0 THEN {h} ELSE UNION {Kids(t, k) : k \in g[n - 1]}]
<1>1. N \in Nat
  BY DepthFacts
<1>2. Subtree(t, h) = UNION {level[n] : n \in 0 .. N}
  BY DEF Subtree
<1> HIDE DEF N
<1>3. level = [n \in 0 .. N |-> IF n = 0 THEN {h} ELSE UNION {Kids(t, k) : k \in level[n - 1]}]
  <2>1. \E g : AreLevels(g, t, h, N)
    BY <1>1, LevelsExist
  <2>2. level = CHOOSE g : AreLevels(g, t, h, N)
    BY DEF AreLevels
  <2> HIDE DEF level
  <2>3. AreLevels(level, t, h, N)
    BY <2>1, <2>2
  <2> QED
    BY <2>3 DEF AreLevels
<1> HIDE DEF level
<1>4. level[0] = {h} /\ \A n \in 1 .. N : level[n] = UNION {Kids(t, k) : k \in level[n - 1]}
  <2>1. 0 \in 0 .. N /\ \A n \in 1 .. N : n \in 0 .. N /\ n # 0
    BY <1>1
  <2> QED
    BY <1>3, <2>1
<1>5. \A k : k \in Subtree(t, h) <=> \E n \in 0 .. N : k \in level[n]
  BY <1>2
<1>6. LevelsOf(level, t, h, N)
  BY <1>4, <1>5 DEF LevelsOf
<1> QED
  BY <1>6 DEF N

\* What Subtree() finds are items, and not the root from below it.
LEMMA SubtreeItems ==
    ASSUME NEW t, Items(t), NEW h \in DOMAIN t.items
    PROVE  /\ h \in Subtree(t, h) /\ Subtree(t, h) \subseteq DOMAIN t.items
           /\ h # Root => Root \notin Subtree(t, h)
<1> DEFINE N == Depth(t)
<1>1. N \in Nat
  BY DepthFacts
<1> HIDE DEF N
<1>0. PICK g : LevelsOf(g, t, h, N)
  BY SubtreeLevels DEF N
<1>2. /\ g[0] = {h}
      /\ \A n \in 1 .. N : g[n] = UNION {Kids(t, k) : k \in g[n - 1]}
      /\ \A k : k \in Subtree(t, h) <=> \E n \in 0 .. N : k \in g[n]
  BY <1>0 DEF LevelsOf
<1>3. \A k : Kids(t, k) \subseteq DOMAIN t.items \ {Root}
  BY DEF Kids
<1>4. \A n \in 0 .. N : \A k \in g[n] : k = h \/ k \in DOMAIN t.items \ {Root}
  <2> SUFFICES ASSUME NEW n \in 0 .. N, NEW k \in g[n] PROVE k = h \/ k \in DOMAIN t.items \ {Root}
    OBVIOUS
  <2>1. CASE n = 0
    BY <1>2, <2>1
  <2>2. CASE n # 0
    <3>1. n \in 1 .. N
      BY <1>1, <2>2
    <3> QED
      BY <1>2, <1>3, <3>1
  <2> QED
    BY <2>1, <2>2
<1>5. h \in Subtree(t, h)
  <2>1. 0 \in 0 .. N
    BY <1>1
  <2> QED
    BY <1>2, <2>1
<1> QED
  BY <1>2, <1>4, <1>5

\* In one tree it finds what the paths say.
LEMMA SubtreePaths ==
    ASSUME NEW t, Items(t), OneTree(t), NEW h \in DOMAIN t.items
    PROVE  Subtree(t, h) = {k \in DOMAIN t.items : Within(t.items[h].path, t.items[k].path)}
<1> DEFINE N == Depth(t)
           p(k) == t.items[k].path
           D == DOMAIN t.items
<1>1. N \in Nat /\ \A k \in D : Len(p(k)) <= N
  BY DepthFacts
<1>2. \A k \in D : p(k) \in Seq(Names) /\ Len(p(k)) \in Nat
  BY ItemPaths
<1>3. \A j, k \in D : p(j) = p(k) => j = k
  BY DEF OneTree
<1>4. \A j \in D : \A k \in Kids(t, j) : k \in D /\ k # Root /\ p(k) # <<>> /\ p(j) = Front(p(k))
  BY DEF Kids, OneTree, Items
<1>5. \A k \in D \ {Root} : t.items[k].parent \in D /\ k \in Kids(t, t.items[k].parent) /\ p(k) # <<>>
                            /\ p(t.items[k].parent) = Front(p(k))
  BY DEF Kids, OneTree, Items
<1>6. p(Root) = <<>> /\ Root \in D
  BY DEF Items
<1>7. h \in Subtree(t, h) /\ Subtree(t, h) \subseteq D
  BY SubtreeItems
<1> HIDE DEF N, p, D
<1>0. PICK g : LevelsOf(g, t, h, N)
  BY SubtreeLevels DEF N
<1>8. /\ g[0] = {h}
      /\ \A n \in 1 .. N : g[n] = UNION {Kids(t, k) : k \in g[n - 1]}
      /\ \A k : k \in Subtree(t, h) <=> \E n \in 0 .. N : k \in g[n]
  BY <1>0 DEF LevelsOf
<1>9. h \in D
  BY DEF D
<1>10. ASSUME NEW j \in D, NEW k \in Kids(t, j), Within(p(h), p(j))
       PROVE  k \in D /\ Within(p(h), p(k)) /\ Len(p(k)) = Len(p(j)) + 1
  <2>1. k \in D /\ p(k) # <<>> /\ p(j) = Front(p(k)) /\ p(k) \in Seq(Names) /\ p(h) \in Seq(Names)
    BY <1>2, <1>4, <1>9
  <2>2. Below(p(h), p(k))
    BY <1>10, <2>1, WithinFront
  <2>3. Len(Front(p(k))) = Len(p(k)) - 1
    BY <2>1, FrontFacts
  <2>4. Len(p(k)) \in Nat
    BY <1>2, <2>1
  <2> QED
    BY <2>1, <2>2, <2>3, <2>4 DEF Within
\* Down the levels
<1>11. \A n \in 0 .. N : \A k \in g[n] : k \in D /\ Within(p(h), p(k)) /\ Len(p(k)) = Len(p(h)) + n
  <2> DEFINE Reaches(n) == \A k \in g[n] : k \in D /\ Within(p(h), p(k)) /\ Len(p(k)) = Len(p(h)) + n
             Fails == {n \in 0 .. N : ~Reaches(n)}
  <2>1. CASE Fails = {}
    BY <2>1
  <2>2. CASE Fails # {}
    <3>1. Fails \in SUBSET Nat
      BY <1>1
    <3>2. PICK n \in Fails : \A m \in Fails : n <= m
      <4> HIDE DEF Fails
      <4> QED
        BY <2>2, <3>1, Smallest
    <3>3. Reaches(0)
      BY <1>2, <1>8, <1>9 DEF Within
    <3>4. n \in 1 .. N
      <4>1. n \in 0 .. N /\ n # 0
        BY <3>2, <3>3
      <4> QED
        BY <1>1, <4>1
    <3>5. Reaches(n - 1)
      <4>1. n - 1 \in 0 .. N /\ ~(n <= n - 1)
        BY <1>1, <3>4
      <4>2. n - 1 \notin Fails
        <5> HIDE DEF Fails
        <5> QED
          BY <3>2, <4>1
      <4> QED
        BY <4>1, <4>2
    <3>6. ASSUME NEW k \in g[n] PROVE k \in D /\ Within(p(h), p(k)) /\ Len(p(k)) = Len(p(h)) + n
      <4>1. PICK j \in g[n - 1] : k \in Kids(t, j)
        BY <1>8, <3>4
      <4>2. j \in D /\ Within(p(h), p(j)) /\ Len(p(j)) = Len(p(h)) + (n - 1)
        BY <3>5
      <4>3. k \in D /\ Within(p(h), p(k)) /\ Len(p(k)) = Len(p(j)) + 1
        BY <1>10, <4>1, <4>2
      <4>4. Len(p(h)) \in Nat
        BY <1>2, <1>9
      <4> QED
        BY <3>4, <4>2, <4>3, <4>4
    <3> QED
      BY <3>2, <3>6
  <2> QED
    BY <2>1, <2>2
\* Up the parents
<1>12. ASSUME NEW k \in D, Within(p(h), p(k)) PROVE k \in g[Len(p(k)) - Len(p(h))]
  <2> DEFINE Reaches(j) == Within(p(h), p(j)) => j \in g[Len(p(j)) - Len(p(h))]
             Fails == {n \in Nat : \E j \in D : Len(p(j)) = n /\ ~Reaches(j)}
  <2>1. CASE Fails = {}
    BY <1>2, <1>12, <2>1
  <2>2. CASE Fails # {}
    <3>1. Fails \in SUBSET Nat
      OBVIOUS
    <3>2. PICK n \in Fails : \A m \in Fails : n <= m
      <4> HIDE DEF Fails
      <4> QED
        BY <2>2, <3>1, Smallest
    <3>3. PICK j \in D : Len(p(j)) = n /\ ~Reaches(j)
      BY <3>2
    <3>4. Within(p(h), p(j)) /\ j \notin g[Len(p(j)) - Len(p(h))] /\ p(j) \in Seq(Names) /\ p(h) \in Seq(Names)
      BY <1>2, <1>9, <3>3
    <3>5. j # h
      <4>1. Len(p(h)) - Len(p(h)) = 0
        BY <1>2, <1>9
      <4> QED
        BY <1>8, <3>4, <4>1
    <3>6. Below(p(h), p(j)) /\ Len(p(h)) < Len(p(j)) /\ Len(p(h)) \in Nat /\ Len(p(j)) \in Nat
      BY <1>2, <1>3, <1>9, <3>4, <3>5, WithinIs DEF Within
    <3>7. j # Root
      <4>1. p(j) # <<>>
        BY <3>4, <3>6, NotEmpty
      <4> QED
        BY <1>6, <4>1
    <3> DEFINE i == t.items[j].parent
    <3>8. i \in D /\ j \in Kids(t, i) /\ p(j) # <<>> /\ p(i) = Front(p(j))
      BY <1>5, <3>7
    <3>9. Within(p(h), p(i)) /\ Len(p(i)) = n - 1
      BY <3>3, <3>4, <3>6, <3>8, WithinFront, FrontFacts
    <3>10. Reaches(i)
      <4>1. n \in Nat /\ Len(p(i)) \in Nat
        BY <1>2, <3>1, <3>2, <3>8
      <4> SUFFICES ASSUME ~Reaches(i) PROVE FALSE
        OBVIOUS
      <4>2. n - 1 \in Fails
        BY <3>8, <3>9, <4>1
      <4> HIDE DEF Fails, Reaches
      <4> QED
        BY <3>2, <4>1, <4>2
    <3>11. i \in g[Len(p(i)) - Len(p(h))]
      BY <3>9, <3>10
    <3>12. Len(p(j)) - Len(p(h)) \in 1 .. N /\ (Len(p(j)) - Len(p(h))) - 1 = Len(p(i)) - Len(p(h))
      <4>1. Len(p(j)) <= N /\ Len(p(i)) = Len(p(j)) - 1
        BY <1>1, <3>3, <3>9
      <4> QED
        BY <1>1, <3>6, <4>1
    <3>13. j \in g[Len(p(j)) - Len(p(h))]
      BY <1>8, <3>8, <3>11, <3>12
    <3> QED
      BY <3>4, <3>13
  <2> QED
    BY <2>1, <2>2
<1>13. \A k \in D : Within(p(h), p(k)) => Len(p(k)) - Len(p(h)) \in 0 .. N
  <2> SUFFICES ASSUME NEW k \in D, Within(p(h), p(k)) PROVE Len(p(k)) - Len(p(h)) \in 0 .. N
    OBVIOUS
  <2>1. Len(p(h)) <= Len(p(k)) /\ Len(p(k)) <= N /\ Len(p(h)) \in Nat /\ Len(p(k)) \in Nat
    BY <1>1, <1>2, <1>9, WithinIs
  <2> QED
    BY <1>1, <2>1
<1>14. \A k \in D : Within(p(h), p(k)) => k \in Subtree(t, h)
  BY <1>8, <1>12, <1>13
<1>15. \A k \in Subtree(t, h) : k \in D /\ Within(p(h), p(k))
  BY <1>8, <1>11
<1>16. Subtree(t, h) = {k \in D : Within(p(h), p(k))}
  BY <1>14, <1>15
<1> QED
  BY <1>16 DEF D, p

\* A subtree is closed, and has those of its items.
LEMMA SubtreeClosed ==
    ASSUME NEW t, Items(t), OneTree(t), NEW h \in DOMAIN t.items
    PROVE  /\ Closed(t, Subtree(t, h)) /\ Closed(t, Subtree(t, h) \ {h})
           /\ \A k \in Subtree(t, h) : Subtree(t, k) \subseteq Subtree(t, h)
           /\ \A k \in DOMAIN t.items \ {Root} : t.items[k].parent = h => k \in Subtree(t, h) /\ k # h
<1> DEFINE p(k) == t.items[k].path
           D == DOMAIN t.items
<1>1. \A k \in D : p(k) \in Seq(Names)
  BY ItemPaths
<1>2. \A k \in D \ {Root} : t.items[k].parent \in D /\ p(k) # <<>> /\ p(t.items[k].parent) = Front(p(k))
  BY DEF OneTree, Items
<1>3. \A j \in D : Subtree(t, j) = {k \in D : Within(p(j), p(k))}
  BY SubtreePaths
<1> HIDE DEF p, D
<1>4. h \in D
  BY DEF D
<1>5. ASSUME NEW k \in D \ {Root}, Within(p(h), p(t.items[k].parent)) PROVE Below(p(h), p(k))
  <2>1. p(k) \in Seq(Names) /\ p(k) # <<>> /\ p(h) \in Seq(Names) /\ p(t.items[k].parent) = Front(p(k))
    BY <1>1, <1>2, <1>4
  <2> QED
    BY <1>5, <2>1, WithinFront
<1>6. \A k \in D : Below(p(h), p(k)) => k # h /\ k \in Subtree(t, h)
  <2>1. ~Below(p(h), p(h))
    BY <1>1, <1>4, WithinIs
  <2> QED
    BY <1>3, <1>4, <2>1 DEF Within
<1>7. Closed(t, Subtree(t, h)) /\ Closed(t, Subtree(t, h) \ {h})
  BY <1>3, <1>4, <1>5, <1>6 DEF Closed, D
<1>8. ASSUME NEW k \in Subtree(t, h) PROVE Subtree(t, k) \subseteq Subtree(t, h)
  <2> SUFFICES ASSUME NEW j \in Subtree(t, k) PROVE j \in Subtree(t, h)
    OBVIOUS
  <2>1. k \in D /\ Within(p(h), p(k))
    BY <1>3, <1>4
  <2>2. j \in D /\ Within(p(k), p(j))
    BY <1>3, <2>1
  <2>3. Within(p(h), p(j))
    BY <1>1, <1>4, <2>1, <2>2, WithinTransitive
  <2> QED
    BY <1>3, <1>4, <2>2, <2>3
<1>9. \A k \in D \ {Root} : t.items[k].parent = h => k \in Subtree(t, h) /\ k # h
  <2>1. Within(p(h), p(h))
    BY DEF Within
  <2> QED
    BY <1>5, <1>6, <2>1
<1> QED
  BY <1>7, <1>8, <1>9 DEF D

-----------------------------------------------------------------------------
(* Operations on the maps. *)

\* All that is found of the items but their watches is the same.
SameTree(t, u) ==
    /\ u.paths = t.paths /\ u.handle = t.handle /\ DOMAIN u.items = DOMAIN t.items
    /\ \A h \in DOMAIN t.items : /\ DOMAIN u.items[h] = ItemFields
                                 /\ u.items[h].path = t.items[h].path /\ u.items[h].parent = t.items[h].parent
                                 /\ u.items[h].dir = t.items[h].dir /\ u.items[h].puoid = t.items[h].puoid
SameStore(t, u) == u.puoids = t.puoids /\ u.puoid = t.puoid /\ u.refs = t.refs /\ u.lost = t.lost
\* No watch leads to a directory of H.
Unwatched(t, H) == \A w \in DOMAIN t.wds : ~(t.wds[w] \in H \cap DOMAIN t.items /\ t.items[t.wds[w]].dir)

LEMMA DiskKept ==
    ASSUME NEW t, NEW u, DiskGood(t), SameDisk(t, u), DOMAIN u = Fields, u.wd \in Nat, DOMAIN u.watch \subseteq Int
    PROVE  DiskGood(u)
<1>1. Entries(u)
  BY DEF DiskGood, Entries, SameDisk, IsDir
<1>2. Notifications(u)
  BY DEF DiskGood, Notifications, SameDisk
<1> QED
  BY <1>1, <1>2 DEF DiskGood

LEMMA SameTreeFacts ==
    ASSUME NEW t, NEW u, SameTree(t, u), Items(t)
    PROVE  Items(u) /\ (PathsLead(t) => PathsLead(u)) /\ (OneTree(t) => OneTree(u))
<1>1. Items(u)
  BY DEF SameTree, Items
<1>2. PathsLead(t) => PathsLead(u)
  BY DEF SameTree, PathsLead
<1>3. OneTree(t) => OneTree(u)
  BY DEF SameTree, OneTree
<1> QED
  BY <1>1, <1>2, <1>3

\* With the same maps, the same facts
LEMMA SameMapsFacts ==
    ASSUME NEW t, NEW u, SameMaps(t, u), Items(t)
    PROVE  /\ Items(u) /\ SameTree(t, u) /\ SameStore(t, u)
           /\ (PathsLead(t) => PathsLead(u)) /\ (WatchesLead(t) => WatchesLead(u)) /\ (OneTree(t) => OneTree(u))
           /\ \A H : (Unwatched(t, H) => Unwatched(u, H)) /\ (Closed(t, H) => Closed(u, H))
<1>1. SameTree(t, u) /\ SameStore(t, u)
  BY DEF SameTree, SameStore, SameMaps, Items
<1>2. WatchesLead(t) => WatchesLead(u)
  BY DEF SameMaps, WatchesLead
<1>3. \A H : (Unwatched(t, H) => Unwatched(u, H)) /\ (Closed(t, H) => Closed(u, H))
  BY DEF SameMaps, Unwatched, Closed
<1> QED
  BY <1>1, <1>2, <1>3, SameTreeFacts

LEMMA RemoveWatchesFacts ==
    ASSUME NEW t, DiskGood(t), NEW H
    PROVE  LET u == RemoveWatches(t, H) IN
           /\ DiskGood(u) /\ SameDisk(t, u) /\ SameStore(t, u) /\ u.items = t.items /\ u.paths = t.paths
           /\ u.handle = t.handle /\ (Items(t) => SameTree(t, u))
           /\ (WatchesLead(t) => WatchesLead(u) /\ Unwatched(u, H))
<1> DEFINE W == {t.items[h].wd : h \in {k \in H : t.items[k].dir}}
           watch == Without(t.watch, W)
           wds == Without(t.wds, W)
           u == RemoveWatches(t, H)
<1>1. u = [t EXCEPT !.watch = watch, !.wds = wds]
  BY DEF RemoveWatches
<1>2. DOMAIN watch \subseteq Int
  BY DEF Without, DiskGood, Notifications
<1>3. DOMAIN wds = DOMAIN t.wds \ W /\ \A w \in DOMAIN wds : wds[w] = t.wds[w]
  BY DEF Without
<1>4. \A h \in H : t.items[h].dir => t.items[h].wd \in W
  OBVIOUS
<1> HIDE DEF u, watch, wds, W
<1>5. DOMAIN t = Fields /\ t.wd \in Nat
  BY DEF DiskGood, Notifications
<1>6. /\ DOMAIN u = Fields /\ u.watch = watch /\ u.wds = wds /\ u.wd = t.wd /\ SameDisk(t, u) /\ SameStore(t, u)
      /\ u.items = t.items /\ u.paths = t.paths /\ u.handle = t.handle
  BY <1>1, <1>5 DEF Fields, SameDisk, SameStore
<1>7. DiskGood(u)
  BY <1>2, <1>5, <1>6, DiskKept
<1>8. Items(t) => SameTree(t, u)
  BY <1>6 DEF SameTree, Items
<1>9. WatchesLead(t) => WatchesLead(u) /\ Unwatched(u, H)
  <2>1. u.lost = t.lost
    BY <1>6 DEF SameStore
  <2> QED
    BY <1>3, <1>4, <1>6, <2>1 DEF WatchesLead, Unwatched
<1> QED
  BY <1>6, <1>7, <1>8, <1>9 DEF u

LEMMA AddWatchesFacts ==
    ASSUME NEW t, DiskGood(t), Items(t), NEW H \in SUBSET DOMAIN t.items
    PROVE  LET u == AddWatches(t, H) IN
           /\ DiskGood(u) /\ SameDisk(t, u) /\ SameStore(t, u) /\ SameTree(t, u)
           /\ \A w \in DOMAIN u.wds : u.wds[w] \in H \/ (w \in DOMAIN t.wds /\ u.wds[w] = t.wds[w])
           /\ (WatchesLead(t) /\ Unwatched(t, H) => WatchesLead(u))
<1> DEFINE dirs == {h \in H : t.items[h].dir}
           there == {h \in dirs : Exists(t, t.items[h].path)}
           inoOf(h) == Ino(t, t.items[h].path)
           unseen == {i \in {inoOf(h) : h \in there} : WatchesOf(t, i) = {}}
           fresh == SetToSeq(unseen)
           new == [w \in t.wd .. (t.wd + Len(fresh) - 1) |-> fresh[w - t.wd + 1]]
           watch == Merge(new, t.watch)
           wdOf(h) == IF h \in there THEN CHOOSE w \in DOMAIN watch : watch[w] = inoOf(h) ELSE -1
           items == [h \in DOMAIN t.items |-> IF h \in dirs THEN [t.items[h] EXCEPT !.wd = wdOf(h)] ELSE t.items[h]]
           ours == [w \in {wdOf(h) : h \in there} |-> CHOOSE h \in there : wdOf(h) = w]
           wds == Merge(ours, t.wds)
           u == AddWatches(t, H)
<1>1. u = [t EXCEPT !.watch = watch, !.wd = t.wd + Len(fresh), !.items = items, !.wds = wds]
  BY DEF AddWatches
<1>2. Len(fresh) \in Nat
  <2>1. IsFiniteSet(unseen)
    <3> DEFINE f == [h \in there |-> inoOf(h)]
    <3>1. IsFiniteSet(there)
      <4>1. there \in SUBSET DOMAIN t.items
        OBVIOUS
      <4> HIDE DEF there
      <4> QED
        BY <4>1, ItemPaths, FS_Subset
    <3>2. DOMAIN f = there
      OBVIOUS
    <3> HIDE DEF f
    <3>3. IsFiniteSet({f[h] : h \in DOMAIN f})
      BY <3>1, <3>2, ImageFinite
    <3>4. {f[h] : h \in DOMAIN f} = {inoOf(h) : h \in there}
      BY <3>2 DEF f
    <3>5. unseen \subseteq {f[h] : h \in DOMAIN f}
      BY <3>4
    <3> HIDE DEF unseen
    <3> QED
      BY <3>3, <3>5, FS_Subset
  <2> HIDE DEF unseen
  <2> QED
    BY <2>1, Numbered
<1> HIDE DEF fresh
<1>3. DOMAIN watch \subseteq Int
  <2>1. t.wd \in Nat /\ DOMAIN t.watch \subseteq Int
    BY DEF DiskGood, Notifications
  <2>2. DOMAIN watch = (t.wd .. (t.wd + Len(fresh) - 1)) \cup DOMAIN t.watch
    BY DEF Merge
  <2> HIDE DEF watch
  <2> QED
    BY <1>2, <2>1, <2>2
<1> HIDE DEF watch
<1>4. \A h \in DOMAIN t.items : DOMAIN t.items[h] = ItemFields
  BY DEF Items
<1>5. DOMAIN items = DOMAIN t.items
  OBVIOUS
<1>6. ASSUME NEW h \in DOMAIN t.items
      PROVE  /\ DOMAIN items[h] = ItemFields
             /\ items[h].path = t.items[h].path /\ items[h].parent = t.items[h].parent
             /\ items[h].dir = t.items[h].dir /\ items[h].puoid = t.items[h].puoid
             /\ items[h].wd = IF h \in dirs THEN wdOf(h) ELSE t.items[h].wd
  <2>1. DOMAIN t.items[h] = ItemFields
    BY <1>4
  <2>2. items[h] = IF h \in dirs THEN [t.items[h] EXCEPT !.wd = wdOf(h)] ELSE t.items[h]
    OBVIOUS
  <2> HIDE DEF items, dirs, wdOf
  <2>3. CASE h \in dirs
    BY <2>1, <2>2, <2>3 DEF ItemFields
  <2>4. CASE h \notin dirs
    BY <2>1, <2>2, <2>4
  <2> QED
    BY <2>3, <2>4
<1>7. \A w \in DOMAIN wds : \/ wds[w] \in there /\ wdOf(wds[w]) = w
                            \/ w \in DOMAIN t.wds /\ wds[w] = t.wds[w]
  <2> HIDE DEF wdOf, there
  <2>1. DOMAIN ours = {wdOf(h) : h \in there} /\ \A w \in DOMAIN ours : ours[w] \in there /\ wdOf(ours[w]) = w
    OBVIOUS
  <2> HIDE DEF ours
  <2> QED
    BY <2>1 DEF Merge
<1>8. there \subseteq dirs /\ dirs \subseteq H /\ \A h \in H : h \in dirs <=> t.items[h].dir
  OBVIOUS
<1> HIDE DEF wdOf, there, dirs, items, wds, u
<1>9. DOMAIN t = Fields /\ t.wd \in Nat
  BY DEF DiskGood, Notifications
<1>10. /\ DOMAIN u = Fields /\ u.watch = watch /\ u.wds = wds /\ u.wd = t.wd + Len(fresh) /\ SameDisk(t, u)
       /\ SameStore(t, u) /\ u.items = items /\ u.paths = t.paths /\ u.handle = t.handle
  BY <1>1, <1>9 DEF Fields, SameDisk, SameStore
<1>11. DiskGood(u)
  BY <1>2, <1>3, <1>9, <1>10, DiskKept
<1>12. SameTree(t, u)
  BY <1>5, <1>6, <1>10 DEF SameTree
<1>13. \A w \in DOMAIN u.wds : u.wds[w] \in H \/ (w \in DOMAIN t.wds /\ u.wds[w] = t.wds[w])
  BY <1>7, <1>8, <1>10
<1>14. ASSUME WatchesLead(t), Unwatched(t, H), NEW w \in DOMAIN u.wds
       PROVE  /\ u.wds[w] \in 0 .. u.handle
              /\ u.wds[w] \in DOMAIN u.items => u.items[u.wds[w]].wd = w
              /\ u.wds[w] \in DOMAIN u.items \/ "stale" \in u.lost
  <2> DEFINE k == wds[w]
  <2>0. u.handle = t.handle /\ u.lost = t.lost /\ DOMAIN t.items \subseteq 0 .. t.handle
    BY <1>10 DEF SameStore, Items
  <2>1. CASE k \in there /\ wdOf(k) = w
    BY <1>5, <1>6, <1>8, <1>10, <2>0, <2>1
  <2>2. CASE w \in DOMAIN t.wds /\ k = t.wds[w]
    <3>1. /\ k \in 0 .. t.handle
          /\ k \in DOMAIN t.items => t.items[k].wd = w
          /\ k \in DOMAIN t.items \/ "stale" \in t.lost
      BY <1>14, <2>2 DEF WatchesLead
    <3>2. k \in DOMAIN t.items => k \notin dirs
      BY <1>8, <1>14, <2>2 DEF Unwatched
    <3> QED
      BY <1>5, <1>6, <1>10, <2>0, <3>1, <3>2
  <2> QED
    BY <1>7, <1>10, <1>14, <2>1, <2>2
<1>15. WatchesLead(t) /\ Unwatched(t, H) => WatchesLead(u)
  BY <1>14 DEF WatchesLead
<1> QED
  BY <1>10, <1>11, <1>12, <1>13, <1>15 DEF u

\* u has all that is in t, and new items for paths P.
Grows(t, u, P) ==
    /\ DOMAIN t.items \subseteq DOMAIN u.items /\ t.handle <= u.handle
    /\ \A h \in DOMAIN t.items : /\ u.items[h].path = t.items[h].path /\ u.items[h].parent = t.items[h].parent
                                 /\ u.items[h].dir = t.items[h].dir /\ u.items[h].puoid = t.items[h].puoid
    /\ DOMAIN u.paths = P \cup DOMAIN t.paths
    /\ \A p \in DOMAIN t.paths \ P : u.paths[p] = t.paths[p]
    /\ \A p \in P : u.paths[p] \in DOMAIN u.items \ DOMAIN t.items /\ u.items[u.paths[p]].path = p
    /\ \A h \in DOMAIN u.items \ DOMAIN t.items :
           /\ u.items[h].path \in P /\ u.paths[u.items[h].path] = h
           /\ u.items[h].dir = IsDir(t, u.items[h].path)
           /\ u.items[h].path \in DOMAIN u.puoids /\ u.items[h].puoid = u.puoids[u.items[h].path]
           /\ Front(u.items[h].path) \in DOMAIN u.paths => u.items[h].parent = u.paths[Front(u.items[h].path)]
    /\ \A q \in DOMAIN t.puoids : q \in DOMAIN u.puoids /\ u.puoids[q] = t.puoids[q]

LEMMA GrowsFacts ==
    ASSUME NEW t, NEW u, NEW P \in SUBSET (Seq(Names) \ {<<>>}), Items(t), Grows(t, u, P)
    PROVE  /\ PathsLead(t) => PathsLead(u)
           /\ (OneTree(t) /\ PathsLead(t) /\ P \cap DOMAIN t.paths = {} /\ \A p \in P : Front(p) \in P \cup DOMAIN t.paths)
                => OneTree(u)
<1>1. PathsLead(t) => PathsLead(u)
  BY DEF Grows, PathsLead
<1>2. ASSUME OneTree(t), PathsLead(t), P \cap DOMAIN t.paths = {}, \A p \in P : Front(p) \in P \cup DOMAIN t.paths
      PROVE  OneTree(u)
  <2>1. \A h \in DOMAIN t.items : u.items[h].path \in DOMAIN u.paths /\ u.paths[u.items[h].path] = h
    BY <1>2 DEF Grows, OneTree
  <2>2. \A h \in DOMAIN u.items \ DOMAIN t.items : u.items[h].path \in DOMAIN u.paths /\ u.paths[u.items[h].path] = h
    BY DEF Grows
  <2>3. ASSUME NEW h \in DOMAIN t.items \ {Root}
        PROVE  /\ u.items[h].parent \in DOMAIN u.items
               /\ u.items[u.items[h].parent].path = Front(u.items[h].path)
    BY <1>2, <2>3 DEF Grows, OneTree
  <2>4. ASSUME NEW h \in DOMAIN u.items \ DOMAIN t.items
        PROVE  /\ u.items[h].parent \in DOMAIN u.items
               /\ u.items[u.items[h].parent].path = Front(u.items[h].path)
    <3> DEFINE f == Front(u.items[h].path)
    <3>1. f \in DOMAIN u.paths /\ u.items[h].parent = u.paths[f]
      BY <1>2, <2>4 DEF Grows
    <3>2. PathsLead(u)
      BY <1>1, <1>2
    <3> HIDE DEF f
    <3>3. u.paths[f] \in DOMAIN u.items /\ u.items[u.paths[f]].path = f
      BY <3>1, <3>2 DEF PathsLead
    <3> QED
      BY <3>1, <3>3 DEF f
  <2> QED
    BY <2>1, <2>2, <2>3, <2>4 DEF OneTree
<1> QED
  BY <1>1, <1>2

LEMMA AddPathsFacts ==
    ASSUME NEW t, DiskGood(t), Items(t), NEW P \in SUBSET (Seq(Names) \ {<<>>}), IsFiniteSet(P)
    PROVE  LET u == AddPaths(t, P) IN
           /\ DiskGood(u) /\ SameDisk(t, u) /\ u.refs = t.refs /\ u.lost = t.lost /\ Items(u) /\ Grows(t, u, P)
           /\ \A w \in DOMAIN u.wds : u.wds[w] \notin DOMAIN t.items \/ (w \in DOMAIN t.wds /\ u.wds[w] = t.wds[w])
           /\ (WatchesLead(t) => WatchesLead(u))
<1> DEFINE order == SetToSeq(P)
           n == Len(order)
           handleOf(p) == t.handle + Place(p, order)
           unknown == SetToSeq(P \ DOMAIN t.puoids)
           puoids == Merge([p \in P \ DOMAIN t.puoids |-> t.puoid + Place(p, unknown)], t.puoids)
           paths == Merge([p \in P |-> handleOf(p)], t.paths)
           parent(p) == IF Front(p) \in DOMAIN paths THEN paths[Front(p)] ELSE Root
           N == {handleOf(p) : p \in P}
           at(h) == order[h - t.handle]
           made == [h \in N |-> [path |-> at(h), dir |-> IsDir(t, at(h)), wd |-> -1, parent |-> parent(at(h)),
                                 puoid |-> puoids[at(h)]]]
           items == Merge(made, t.items)
           v == [t EXCEPT !.items = items, !.paths = paths, !.puoids = puoids,
                          !.handle = t.handle + Len(order), !.puoid = t.puoid + Len(unknown)]
           u == AddPaths(t, P)
<1>1. u = AddWatches(v, DOMAIN made)
  BY DEF AddPaths
<1>2. /\ n \in Nat /\ \A i \in 1 .. n : order[i] \in P /\ Place(order[i], order) = i
      /\ \A p \in P : Place(p, order) \in 1 .. n /\ order[Place(p, order)] = p
  <2> HIDE DEF order
  <2> QED
    BY Numbered DEF order
<1> HIDE DEF order, unknown
<1>3. t.handle \in Nat /\ DOMAIN t.items \subseteq 0 .. t.handle
  BY DEF Items
<1>4. ASSUME NEW p \in P
      PROVE  handleOf(p) \in N /\ handleOf(p) \in t.handle + 1 .. t.handle + n /\ at(handleOf(p)) = p
  <2>1. handleOf(p) - t.handle = Place(p, order)
    BY <1>2, <1>3
  <2> QED
    BY <1>2, <1>3, <2>1
<1>5. ASSUME NEW h \in N PROVE at(h) \in P /\ handleOf(at(h)) = h /\ h \in t.handle + 1 .. t.handle + n
  <2>1. PICK p \in P : h = handleOf(p)
    OBVIOUS
  <2> HIDE DEF handleOf, at
  <2> QED
    BY <1>4, <2>1
<1>6. N \cap DOMAIN t.items = {}
  <2> SUFFICES ASSUME NEW h \in N, h \in DOMAIN t.items PROVE FALSE
    OBVIOUS
  <2>1. h \in t.handle + 1 .. t.handle + n /\ h \in 0 .. t.handle
    BY <1>3, <1>5
  <2> QED
    BY <1>2, <1>3, <2>1
<1>7. DOMAIN made = N
  OBVIOUS
<1>8. \A h \in N : /\ made[h].path = at(h) /\ made[h].dir = IsDir(t, at(h)) /\ made[h].parent = parent(at(h))
                   /\ made[h].puoid = puoids[at(h)] /\ DOMAIN made[h] = ItemFields
  BY DEF ItemFields
<1>9. /\ DOMAIN paths = P \cup DOMAIN t.paths
      /\ \A p \in P : paths[p] = handleOf(p)
      /\ \A p \in DOMAIN t.paths \ P : paths[p] = t.paths[p]
  BY DEF Merge
<1>10. /\ DOMAIN puoids = P \cup DOMAIN t.puoids
       /\ \A p \in DOMAIN t.puoids : puoids[p] = t.puoids[p]
  BY DEF Merge
<1>11. \A p \in P : Front(p) \in DOMAIN paths => parent(p) = paths[Front(p)]
  OBVIOUS
<1> HIDE DEF made, paths, puoids, parent, at, handleOf, N
<1>12. /\ DOMAIN items = N \cup DOMAIN t.items /\ \A h \in N : items[h] = made[h]
       /\ \A h \in DOMAIN t.items : items[h] = t.items[h]
  <2>1. DOMAIN items = N \cup DOMAIN t.items
    BY <1>7 DEF Merge
  <2>2. \A h \in DOMAIN items : items[h] = IF h \in N THEN made[h] ELSE t.items[h]
    BY <1>7, <2>1 DEF Merge
  <2> HIDE DEF items
  <2> QED
    BY <1>6, <2>1, <2>2
<1> HIDE DEF items
<1>13. DOMAIN t = Fields
  BY DEF DiskGood
<1>14. /\ DOMAIN v = Fields /\ SameDisk(t, v) /\ v.watch = t.watch /\ v.wd = t.wd /\ v.wds = t.wds
       /\ v.refs = t.refs /\ v.lost = t.lost /\ v.items = items /\ v.paths = paths /\ v.puoids = puoids
       /\ v.handle = t.handle + n
  BY <1>13 DEF Fields, SameDisk
<1> HIDE DEF v, n
<1>15. DiskGood(v)
  <2>1. t.wd \in Nat /\ DOMAIN t.watch \subseteq Int
    BY DEF DiskGood, Notifications
  <2> QED
    BY <1>14, <2>1, DiskKept
<1>16. Items(v)
  <2>1. v.handle \in Nat /\ DOMAIN v.items \subseteq 0 .. v.handle
    <3> SUFFICES ASSUME NEW h \in DOMAIN v.items PROVE h \in 0 .. v.handle
      BY <1>2, <1>3, <1>14
    <3>1. h \in t.handle + 1 .. t.handle + n \/ h \in 0 .. t.handle
      BY <1>3, <1>5, <1>12, <1>14
    <3> QED
      BY <1>2, <1>3, <1>14, <3>1
  <2>2. Root \in DOMAIN v.items /\ v.items[Root].path = <<>>
    BY <1>12, <1>14 DEF Items
  <2>3. \A h \in DOMAIN v.items : DOMAIN v.items[h] = ItemFields
    BY <1>8, <1>12, <1>14 DEF Items
  <2>4. \A h \in DOMAIN v.items \ {Root} : v.items[h].path \in Seq(Names) \ {<<>>}
    BY <1>5, <1>8, <1>12, <1>14 DEF Items
  <2> QED
    BY <2>1, <2>2, <2>3, <2>4 DEF Items
<1>17. /\ DiskGood(u) /\ SameDisk(v, u) /\ SameStore(v, u) /\ SameTree(v, u)
       /\ \A w \in DOMAIN u.wds : u.wds[w] \in N \/ (w \in DOMAIN v.wds /\ u.wds[w] = v.wds[w])
       /\ (WatchesLead(v) /\ Unwatched(v, N) => WatchesLead(u))
  <2>1. N \in SUBSET DOMAIN v.items /\ u = AddWatches(v, N)
    BY <1>1, <1>7, <1>12, <1>14
  <2> HIDE DEF u
  <2> QED
    BY <1>15, <1>16, <2>1, AddWatchesFacts
<1> HIDE DEF u
<1>18. Items(u)
  BY <1>16, <1>17, SameTreeFacts
<1>19. SameDisk(t, u) /\ u.refs = t.refs /\ u.lost = t.lost
  BY <1>14, <1>17 DEF SameDisk, SameStore
<1>20. WatchesLead(t) => WatchesLead(u)
  <2> SUFFICES ASSUME WatchesLead(t) PROVE WatchesLead(u)
    OBVIOUS
  <2>0. \A w \in DOMAIN t.wds : t.wds[w] \notin N
    <3> SUFFICES ASSUME NEW w \in DOMAIN t.wds, t.wds[w] \in N PROVE FALSE
      OBVIOUS
    <3>1. t.wds[w] \in t.handle + 1 .. t.handle + n /\ t.wds[w] \in 0 .. t.handle
      BY <1>5 DEF WatchesLead
    <3> QED
      BY <1>2, <1>3, <3>1
  <2>1. WatchesLead(v)
    <3>1. \A k \in 0 .. t.handle : k \in 0 .. v.handle
      BY <1>2, <1>3, <1>14
    <3> QED
      BY <1>12, <1>14, <2>0, <3>1 DEF WatchesLead
  <2>2. Unwatched(v, N)
    BY <1>14, <2>0 DEF Unwatched
  <2> QED
    BY <1>17, <2>1, <2>2
<1>21. \A w \in DOMAIN u.wds : u.wds[w] \notin DOMAIN t.items \/ (w \in DOMAIN t.wds /\ u.wds[w] = t.wds[w])
  BY <1>6, <1>14, <1>17
<1>22. Grows(t, u, P)
  <2>1. /\ DOMAIN u.items = N \cup DOMAIN t.items /\ u.paths = paths /\ u.puoids = puoids /\ t.handle <= u.handle
    BY <1>2, <1>3, <1>12, <1>14, <1>17 DEF SameTree, SameStore
  <2>2. \A h \in DOMAIN t.items : /\ u.items[h].path = t.items[h].path /\ u.items[h].parent = t.items[h].parent
                                  /\ u.items[h].dir = t.items[h].dir /\ u.items[h].puoid = t.items[h].puoid
    BY <1>12, <1>14, <1>17 DEF SameTree
  <2>3. \A h \in N : /\ u.items[h].path = at(h) /\ u.items[h].dir = IsDir(t, at(h))
                     /\ u.items[h].parent = parent(at(h)) /\ u.items[h].puoid = puoids[at(h)]
    BY <1>8, <1>12, <1>14, <1>17 DEF SameTree
  <2>4. \A p \in P : u.paths[p] \in DOMAIN u.items \ DOMAIN t.items /\ u.items[u.paths[p]].path = p
    BY <1>4, <1>6, <1>9, <2>1, <2>3
  <2>5. ASSUME NEW h \in DOMAIN u.items \ DOMAIN t.items
        PROVE  /\ u.items[h].path \in P /\ u.paths[u.items[h].path] = h
               /\ u.items[h].dir = IsDir(t, u.items[h].path)
               /\ u.items[h].path \in DOMAIN u.puoids /\ u.items[h].puoid = u.puoids[u.items[h].path]
               /\ Front(u.items[h].path) \in DOMAIN u.paths => u.items[h].parent = u.paths[Front(u.items[h].path)]
    <3>1. h \in N
      BY <2>1
    <3>2. at(h) \in P /\ handleOf(at(h)) = h
      BY <1>5, <3>1
    <3>3. u.items[h].path = at(h)
      BY <2>3, <3>1
    <3> QED
      BY <1>9, <1>10, <1>11, <2>1, <2>3, <3>1, <3>2, <3>3
  <2>6. \A q \in DOMAIN t.puoids : q \in DOMAIN u.puoids /\ u.puoids[q] = t.puoids[q]
    BY <1>10, <2>1
  <2>7. DOMAIN u.paths = P \cup DOMAIN t.paths /\ \A p \in DOMAIN t.paths \ P : u.paths[p] = t.paths[p]
    BY <1>9, <2>1
  <2> QED
    BY <2>1, <2>2, <2>4, <2>5, <2>6, <2>7 DEF Grows
<1> QED
  BY <1>17, <1>18, <1>19, <1>20, <1>21, <1>22 DEF u

LEMMA DiscoverFacts ==
    ASSUME NEW t, MapsTyped(t), NEW p \in Seq(Names) \ {<<>>}
    PROVE  LET u == Discover(t, p) IN
           /\ MapsTyped(u) /\ SameDisk(t, u) /\ u.lost = t.lost
           /\ DOMAIN t.items \subseteq DOMAIN u.items /\ \A h \in DOMAIN t.items : u.items[h].dir = t.items[h].dir
           /\ \A w \in DOMAIN u.wds : u.wds[w] \notin DOMAIN t.items \/ (w \in DOMAIN t.wds /\ u.wds[w] = t.wds[w])
           /\ OneTree(t) /\ Front(p) \in DOMAIN t.paths => OneTree(u)
<1> DEFINE u == Discover(t, p)
           below == {q \in DOMAIN t.disk : Below(p, q) /\ \A r \in DOMAIN t.paths : Within(p, r) => ~Within(r, q)}
           P == {p} \cup below
<1>1. CASE p \in DOMAIN t.paths
  <2>1. u = t
    BY <1>1 DEF Discover
  <2> QED
    BY <2>1 DEF SameDisk
<1>2. CASE p \notin DOMAIN t.paths
  <2>1. u = AddPaths(t, P)
    BY <1>2 DEF Discover
  <2>2. DiskGood(t) /\ Items(t) /\ PathsLead(t) /\ WatchesLead(t)
    BY DEF MapsTyped
  <2>3. below \subseteq DOMAIN t.disk /\ \A q \in DOMAIN t.disk : q \in Seq(Names) /\ q # <<>>
    BY <2>2 DEF DiskGood, Entries
  <2>4. IsFiniteSet(P)
    <3>1. IsFiniteSet(below)
      <4> HIDE DEF below
      <4> QED
        BY <2>2, <2>3, DiskFinite, FS_Subset
    <3> HIDE DEF below
    <3> QED
      BY <3>1, FS_AddElement, FS_Union, FS_Singleton
  <2>5. P \in SUBSET (Seq(Names) \ {<<>>})
    BY <2>3
  <2>6. \A q \in DOMAIN t.paths : q \in Seq(Names)
    BY <2>2, ItemPaths DEF PathsLead
  <2>7. P \cap DOMAIN t.paths = {}
    BY <1>2 DEF Within
  <2>8. ASSUME Front(p) \in DOMAIN t.paths, NEW q \in P PROVE Front(q) \in P \cup DOMAIN t.paths
    <3>1. CASE q = p
      BY <2>8, <3>1
    <3>2. CASE q # p
      <4>1. q \in below /\ q \in Seq(Names) /\ q # <<>> /\ Front(q) \in Seq(Names) /\ Below(p, q)
        BY <2>3, <2>8, <3>2, FrontFacts
      <4>2. Within(p, Front(q))
        BY <4>1, WithinFront
      <4>3. CASE Front(q) = p
        BY <4>3
      <4>4. CASE Front(q) # p
        <5>1. Below(p, Front(q)) /\ Front(q) # <<>>
          <6>1. Below(p, Front(q)) /\ Len(p) < Len(Front(q))
            BY <4>1, <4>2, <4>4, WithinIs
          <6> QED
            BY <4>1, <6>1, NotEmpty, LenProperties
        <5>2. Front(q) \in DOMAIN t.disk
          BY <2>2, <4>1, <5>1 DEF DiskGood, Entries, IsDir
        <5>3. \A r \in DOMAIN t.paths : Within(p, r) => ~Within(r, Front(q))
          <6> SUFFICES ASSUME NEW r \in DOMAIN t.paths, Within(p, r), Within(r, Front(q)) PROVE FALSE
            OBVIOUS
          <6>1. Below(r, q)
            BY <2>6, <4>1, WithinFront
          <6> QED
            BY <4>1, <6>1 DEF Within
        <5> QED
          BY <5>1, <5>2, <5>3
      <4> QED
        BY <4>3, <4>4
    <3> QED
      BY <3>1, <3>2
  <2> HIDE DEF P, u
  <2>9. /\ DiskGood(u) /\ SameDisk(t, u) /\ u.refs = t.refs /\ u.lost = t.lost /\ Items(u) /\ Grows(t, u, P)
        /\ \A w \in DOMAIN u.wds : u.wds[w] \notin DOMAIN t.items \/ (w \in DOMAIN t.wds /\ u.wds[w] = t.wds[w])
        /\ (WatchesLead(t) => WatchesLead(u))
    BY <2>1, <2>2, <2>4, <2>5, AddPathsFacts
  <2>10. MapsTyped(u)
    BY <2>2, <2>5, <2>9, GrowsFacts DEF MapsTyped
  <2>11. OneTree(t) /\ Front(p) \in DOMAIN t.paths => OneTree(u)
    BY <2>2, <2>5, <2>7, <2>8, <2>9, GrowsFacts
  <2>12. DOMAIN t.items \subseteq DOMAIN u.items /\ \A h \in DOMAIN t.items : u.items[h].dir = t.items[h].dir
    BY <2>9 DEF Grows
  <2> QED
    BY <2>9, <2>10, <2>11, <2>12 DEF u
<1> QED
  BY <1>1, <1>2

\* u has the items of t, or fewer.
Fewer(t, u) == DOMAIN u.items \subseteq DOMAIN t.items /\ \A h \in DOMAIN u.items : u.items[h] = t.items[h]

LEMMA RemoveItemsFacts ==
    ASSUME NEW t, MapsTyped(t), NEW H, Root \notin H
    PROVE  LET u == RemoveItems(t, H) IN
           /\ MapsTyped(u) /\ SameDisk(t, u) /\ Fewer(t, u) /\ (Broken(t) <=> Broken(u))
           /\ OneTree(t) /\ Closed(t, H) /\ H \subseteq DOMAIN t.items => OneTree(u)
<1> DEFINE W == {t.items[h].wd : h \in {k \in H : t.items[k].dir}}
           P == {t.items[h].path : h \in H}
           items == Without(t.items, H)
           paths == Without(t.paths, P)
           wds == Without(t.wds, W)
           watch == Without(t.watch, W)
           stale == \E w \in DOMAIN t.wds : t.wds[w] \in H /\ ~t.items[t.wds[w]].dir
           v == [t EXCEPT !.items = items, !.paths = paths, !.watch = watch, !.wds = wds]
           u == RemoveItems(t, H)
<1>0. DOMAIN t = Fields
  BY DEF MapsTyped, DiskGood
<1>1. u = LoseIf(v, stale, "stale")
  <2>1. [RemoveWatches(t, H) EXCEPT !.items = Without(RemoveWatches(t, H).items, H),
                                    !.paths = Without(RemoveWatches(t, H).paths, P)] = v
    BY <1>0 DEF RemoveWatches, Fields
  <2> HIDE DEF v
  <2> QED
    BY <2>1 DEF RemoveItems
<1>2. DOMAIN items = DOMAIN t.items \ H /\ \A h \in DOMAIN items : items[h] = t.items[h]
  BY DEF Without
<1>3. DOMAIN paths = DOMAIN t.paths \ P /\ \A q \in DOMAIN paths : paths[q] = t.paths[q]
  BY DEF Without
<1>4. DOMAIN wds = DOMAIN t.wds \ W /\ \A w \in DOMAIN wds : wds[w] = t.wds[w]
  BY DEF Without
<1>5. DOMAIN watch \subseteq DOMAIN t.watch
  BY DEF Without
<1>6. \A h \in H : (t.items[h].dir => t.items[h].wd \in W) /\ t.items[h].path \in P
  OBVIOUS
<1>7. \A q \in P : \E h \in H : q = t.items[h].path
  OBVIOUS
<1>8. \A w \in DOMAIN t.wds : t.wds[w] \in H => t.items[t.wds[w]].dir \/ stale
  OBVIOUS
<1> HIDE DEF u, items, paths, wds, watch, W, P, stale
<1>80. DiskGood(t) /\ Items(t) /\ PathsLead(t) /\ WatchesLead(t)
  BY DEF MapsTyped
<1>90. /\ DOMAIN v = Fields /\ SameDisk(t, v) /\ v.wd = t.wd /\ v.watch = watch /\ v.wds = wds
       /\ v.lost = t.lost /\ v.items = items /\ v.paths = paths /\ v.handle = t.handle
  BY <1>0 DEF Fields, SameDisk
<1> HIDE DEF v
<1>91. /\ DOMAIN u = Fields /\ SameDisk(v, u) /\ u.wd = v.wd /\ u.watch = v.watch /\ u.wds = v.wds
       /\ u.items = v.items /\ u.paths = v.paths /\ u.handle = v.handle
       /\ u.lost = IF stale THEN v.lost \cup {"stale"} ELSE v.lost
  <2>1. CASE stale
    <3>1. u = [v EXCEPT !.lost = v.lost \cup {"stale"}]
      BY <1>1, <2>1 DEF LoseIf, Lose
    <3> QED
      BY <1>90, <2>1, <3>1 DEF Fields, SameDisk
  <2>2. CASE ~stale
    BY <1>1, <1>90, <2>2 DEF LoseIf, SameDisk
  <2> QED
    BY <2>1, <2>2
<1>9. /\ DOMAIN u = Fields /\ SameDisk(t, u) /\ u.wd = t.wd /\ u.watch = watch /\ u.wds = wds
      /\ u.items = items /\ u.paths = paths /\ u.handle = t.handle
      /\ (stale => "stale" \in u.lost) /\ t.lost \subseteq u.lost /\ u.lost \subseteq t.lost \cup {"stale"}
  BY <1>90, <1>91 DEF SameDisk
<1>10. DiskGood(u)
  <2>1. u.wd \in Nat /\ DOMAIN u.watch \subseteq Int
    BY <1>5, <1>80, <1>9 DEF DiskGood, Notifications
  <2> QED
    BY <1>80, <1>9, <2>1, DiskKept
<1>11. Items(u)
  BY <1>2, <1>80, <1>9 DEF Items
<1>12. PathsLead(u)
  BY <1>2, <1>3, <1>6, <1>80, <1>9 DEF PathsLead
<1>13. WatchesLead(u)
  <2> SUFFICES ASSUME NEW w \in DOMAIN u.wds
               PROVE  /\ u.wds[w] \in 0 .. u.handle
                      /\ u.wds[w] \in DOMAIN u.items => u.items[u.wds[w]].wd = w
                      /\ u.wds[w] \in DOMAIN u.items \/ "stale" \in u.lost
    BY DEF WatchesLead
  <2> DEFINE k == t.wds[w]
  <2>1. /\ w \in DOMAIN t.wds /\ w \notin W /\ u.wds[w] = k /\ k \in 0 .. u.handle
        /\ k \in DOMAIN t.items => t.items[k].wd = w
        /\ k \in DOMAIN t.items \/ "stale" \in t.lost
    BY <1>4, <1>80, <1>9 DEF WatchesLead
  <2>2. k \in DOMAIN t.items /\ k \in H => stale
    BY <1>6, <1>8, <2>1
  <2> HIDE DEF k
  <2> QED
    BY <1>2, <1>9, <2>1, <2>2
<1>14. ASSUME OneTree(t), Closed(t, H), H \subseteq DOMAIN t.items PROVE OneTree(u)
  <2>1. \A h \in DOMAIN u.items : u.items[h].path \in DOMAIN u.paths /\ u.paths[u.items[h].path] = h
    <3> SUFFICES ASSUME NEW h \in DOMAIN u.items PROVE u.items[h].path \in DOMAIN u.paths /\ u.paths[u.items[h].path] = h
      OBVIOUS
    <3>1. h \in DOMAIN t.items /\ h \notin H /\ u.items[h] = t.items[h]
      BY <1>2, <1>9
    <3>2. t.items[h].path \in DOMAIN t.paths /\ t.paths[t.items[h].path] = h
      BY <1>14, <3>1 DEF OneTree
    <3>3. t.items[h].path \notin P
      BY <1>7, <1>14, <3>1, <3>2 DEF OneTree
    <3> QED
      BY <1>3, <1>9, <3>1, <3>2, <3>3
  <2>2. \A h \in DOMAIN u.items \ {Root} : /\ u.items[h].parent \in DOMAIN u.items
                                            /\ u.items[u.items[h].parent].path = Front(u.items[h].path)
    <3> SUFFICES ASSUME NEW h \in DOMAIN u.items \ {Root}
                 PROVE  /\ u.items[h].parent \in DOMAIN u.items
                        /\ u.items[u.items[h].parent].path = Front(u.items[h].path)
      OBVIOUS
    <3>1. h \in DOMAIN t.items \ {Root} /\ h \notin H /\ u.items[h] = t.items[h]
      BY <1>2, <1>9
    <3>2. t.items[h].parent \in DOMAIN t.items /\ t.items[t.items[h].parent].path = Front(t.items[h].path)
      BY <1>14, <3>1 DEF OneTree
    <3>3. t.items[h].parent \notin H
      BY <1>14, <3>1 DEF Closed
    <3> QED
      BY <1>2, <1>9, <3>1, <3>2, <3>3
  <2> QED
    BY <2>1, <2>2 DEF OneTree
<1>15. Fewer(t, u) /\ (Broken(t) <=> Broken(u))
  <2>1. Fewer(t, u)
    BY <1>2, <1>9 DEF Fewer
  <2>2. Broken(t) <=> Broken(u)
    BY <1>9 DEF Broken
  <2> QED
    BY <2>1, <2>2
<1> QED
  BY <1>9, <1>10, <1>11, <1>12, <1>13, <1>14, <1>15 DEF MapsTyped, u

\* In one tree, what leads to an item is one.
LEMMA TreeClosed ==
    ASSUME NEW t, Items(t), OneTree(t), NEW r \in Seq(Names), NEW k \in DOMAIN t.items, Within(r, t.items[k].path)
    PROVE  r \in DOMAIN t.paths
<1> DEFINE p(j) == t.items[j].path
           Fails == {n \in Nat : \E j \in DOMAIN t.items : Len(p(j)) = n /\ Within(r, p(j)) /\ r \notin DOMAIN t.paths}
<1>1. \A j \in DOMAIN t.items : p(j) \in Seq(Names) /\ Len(p(j)) \in Nat /\ p(j) \in DOMAIN t.paths
  BY ItemPaths DEF OneTree
<1>2. \A j \in DOMAIN t.items \ {Root} : t.items[j].parent \in DOMAIN t.items /\ p(t.items[j].parent) = Front(p(j))
  BY DEF OneTree
<1>3. p(Root) = <<>> /\ Root \in DOMAIN t.items
  BY DEF Items
<1>4. CASE Fails = {}
  BY <1>1, <1>4
<1>5. CASE Fails # {}
  <2>1. Fails \in SUBSET Nat
    OBVIOUS
  <2>2. PICK n \in Fails : \A m \in Fails : n <= m
    <3> HIDE DEF Fails
    <3> QED
      BY <1>5, <2>1, Smallest
  <2>3. PICK j \in DOMAIN t.items : Len(p(j)) = n /\ Within(r, p(j)) /\ r \notin DOMAIN t.paths
    BY <2>2
  <2>4. r # p(j)
    BY <1>1, <2>3
  <2>5. Below(r, p(j)) /\ Len(r) < Len(p(j)) /\ Len(r) \in Nat
    BY <1>1, <2>3, <2>4, WithinIs, LenProperties
  <2>6. p(j) # <<>>
    BY <1>1, <2>5, NotEmpty
  <2>7. j # Root
    BY <1>3, <2>6
  <2>8. Within(r, p(t.items[j].parent)) /\ Len(p(t.items[j].parent)) = n - 1
    BY <1>1, <1>2, <2>3, <2>5, <2>6, <2>7, WithinFront, FrontFacts
  <2>9. n \in Nat /\ n - 1 \in Nat
    BY <1>1, <1>2, <2>1, <2>2, <2>7, <2>8
  <2>10. n - 1 \in Fails
    BY <1>2, <2>3, <2>7, <2>8, <2>9
  <2> HIDE DEF Fails
  <2> QED
    BY <2>2, <2>9, <2>10
<1> QED
  BY <1>4, <1>5

\* In u the item h of t has the path r, and what is below it went with it.
Moved(t, u, h, r) ==
    LET p == t.items[h].path
        H == Subtree(t, h)
        new == {Rebase(t.items[k].path, p, r) : k \in H}
    IN  /\ DOMAIN u.items = DOMAIN t.items /\ u.handle = t.handle /\ u.lost = t.lost
        /\ \A k \in DOMAIN t.items :
               /\ DOMAIN u.items[k] = ItemFields
               /\ u.items[k].wd = t.items[k].wd /\ u.items[k].dir = t.items[k].dir /\ u.items[k].puoid = t.items[k].puoid
               /\ u.items[k].path = IF k \in H THEN Rebase(t.items[k].path, p, r) ELSE t.items[k].path
               /\ k # h => u.items[k].parent = t.items[k].parent
        /\ DOMAIN u.paths = new \cup (DOMAIN t.paths \ {t.items[k].path : k \in H})
        /\ \A q \in new : u.paths[q] \in H /\ Rebase(t.items[u.paths[q]].path, p, r) = q
        /\ \A q \in DOMAIN u.paths \ new : u.paths[q] = t.paths[q]

LEMMA MovedFacts ==
    ASSUME NEW t, NEW u, Items(t), PathsLead(t), NEW h \in DOMAIN t.items \ {Root}, NEW r \in Seq(Names) \ {<<>>},
           Moved(t, u, h, r)
    PROVE  /\ Items(u) /\ PathsLead(u)
           /\ (WatchesLead(t) /\ u.wds = t.wds => WatchesLead(u))
           /\ \A I : Unwatched(t, I) /\ u.wds = t.wds /\ WatchesLead(t) => Unwatched(u, I)
<1> DEFINE p == t.items[h].path
           H == Subtree(t, h)
           new == {Rebase(t.items[k].path, p, r) : k \in H}
           old == {t.items[k].path : k \in H}
<1>1. h \in H /\ H \subseteq DOMAIN t.items /\ Root \notin H
  BY SubtreeItems
<1>2. \A k \in DOMAIN t.items : t.items[k].path \in Seq(Names)
  BY ItemPaths
<1>3. \A k \in H : Rebase(t.items[k].path, p, r) \in Seq(Names) \ {<<>>}
  BY <1>1, <1>2, RebaseFacts
<1>4. /\ DOMAIN u.items = DOMAIN t.items /\ u.handle = t.handle /\ u.lost = t.lost
      /\ \A k \in DOMAIN t.items :
               /\ DOMAIN u.items[k] = ItemFields
               /\ u.items[k].wd = t.items[k].wd /\ u.items[k].dir = t.items[k].dir
               /\ u.items[k].path = IF k \in H THEN Rebase(t.items[k].path, p, r) ELSE t.items[k].path
      /\ DOMAIN u.paths = new \cup (DOMAIN t.paths \ old)
      /\ \A q \in new : u.paths[q] \in H /\ Rebase(t.items[u.paths[q]].path, p, r) = q
      /\ \A q \in DOMAIN u.paths \ new : u.paths[q] = t.paths[q]
  BY DEF Moved
<1>5. \A k \in H : t.items[k].path \in old
  OBVIOUS
<1> HIDE DEF H, p, old, new
<1>6. Items(u)
  <2>1. u.handle \in Nat /\ DOMAIN u.items \subseteq 0 .. u.handle
    BY <1>4 DEF Items
  <2>2. Root \in DOMAIN u.items /\ u.items[Root].path = <<>> /\ \A k \in DOMAIN u.items : DOMAIN u.items[k] = ItemFields
    BY <1>1, <1>4 DEF Items
  <2>3. \A k \in DOMAIN u.items \ {Root} : u.items[k].path \in Seq(Names) \ {<<>>}
    BY <1>1, <1>3, <1>4 DEF Items
  <2> QED
    BY <2>1, <2>2, <2>3 DEF Items
<1>7. ASSUME NEW q \in DOMAIN u.paths PROVE u.paths[q] \in DOMAIN u.items /\ u.items[u.paths[q]].path = q
  <2>1. CASE q \in new
    BY <1>1, <1>4, <2>1
  <2>2. CASE q \notin new
    <3>1. q \in DOMAIN t.paths /\ q \notin old /\ u.paths[q] = t.paths[q]
      BY <1>4, <2>2
    <3>2. t.paths[q] \in DOMAIN t.items /\ t.items[t.paths[q]].path = q
      BY <3>1 DEF PathsLead
    <3>3. t.paths[q] \notin H
      BY <1>5, <3>1, <3>2
    <3> QED
      BY <1>4, <3>1, <3>2, <3>3
  <2> QED
    BY <2>1, <2>2
<1>8. PathsLead(u)
  BY <1>7 DEF PathsLead
<1>9. WatchesLead(t) /\ u.wds = t.wds => WatchesLead(u)
  BY <1>4 DEF WatchesLead
<1>10. \A I : Unwatched(t, I) /\ u.wds = t.wds /\ WatchesLead(t) => Unwatched(u, I)
  BY <1>4 DEF WatchesLead, Unwatched
<1> QED
  BY <1>6, <1>8, <1>9, <1>10

LEMMA MovedTree ==
    ASSUME NEW t, NEW u, Items(t), PathsLead(t), OneTree(t), NEW h \in DOMAIN t.items \ {Root},
           NEW r \in Seq(Names) \ {<<>>}, Moved(t, u, h, r), r \notin DOMAIN t.paths,
           u.items[h].parent \in DOMAIN t.items \ Subtree(t, h), t.items[u.items[h].parent].path = Front(r)
    PROVE  OneTree(u)
<1> DEFINE p == t.items[h].path
           H == Subtree(t, h)
           to(k) == Rebase(t.items[k].path, p, r)
           new == {Rebase(t.items[k].path, p, r) : k \in H}
           old == {t.items[k].path : k \in H}
<1>1. h \in H /\ H \subseteq DOMAIN t.items /\ Root \notin H
  BY SubtreeItems
<1>2. \A k \in DOMAIN t.items : t.items[k].path \in Seq(Names)
  BY ItemPaths
<1>3. /\ DOMAIN u.items = DOMAIN t.items
      /\ \A k \in DOMAIN t.items :
               /\ u.items[k].path = IF k \in H THEN to(k) ELSE t.items[k].path
               /\ k # h => u.items[k].parent = t.items[k].parent
      /\ DOMAIN u.paths = new \cup (DOMAIN t.paths \ old)
      /\ \A q \in new : u.paths[q] \in H /\ to(u.paths[q]) = q
      /\ \A q \in DOMAIN u.paths \ new : u.paths[q] = t.paths[q]
  BY DEF Moved
<1>4. H = {k \in DOMAIN t.items : Within(p, t.items[k].path)}
  BY SubtreePaths
<1>5. Closed(t, H)
  BY SubtreeClosed
<1>6. \A q \in old : \E k \in H : q = t.items[k].path
  OBVIOUS
<1>7. \A k \in H : to(k) \in new
  OBVIOUS
<1>8. \A q \in new : \E k \in H : q = to(k)
  OBVIOUS
<1>9. p \in Seq(Names) /\ \A k \in H : /\ Within(r, to(k)) /\ Rebase(to(k), r, p) = t.items[k].path
                                       /\ t.items[k].path = p => to(k) = r
  BY <1>1, <1>2, <1>4, RebaseWithin
<1>10. ASSUME NEW k \in H, t.items[k].path # p
       PROVE  Below(p, t.items[k].path) /\ Front(to(k)) = Rebase(Front(t.items[k].path), p, r) /\ t.items[k].path # <<>>
  <2>1. Within(p, t.items[k].path) /\ t.items[k].path \in Seq(Names)
    BY <1>1, <1>2, <1>4
  <2>2. Below(p, t.items[k].path)
    BY <1>10, <2>1 DEF Within
  <2>3. t.items[k].path # <<>>
    <3>1. Len(p) < Len(t.items[k].path) /\ Len(p) \in Nat
      BY <1>9, <2>1, <2>2, WithinIs, LenProperties
    <3> QED
      BY <2>1, <3>1, NotEmpty
  <2> QED
    BY <1>9, <2>1, <2>2, <2>3, RebaseFront
<1> HIDE DEF to, new, old, H
<1>11. \A j, k \in DOMAIN t.items : t.items[j].path = t.items[k].path => j = k
  BY DEF OneTree
<1>12. ASSUME NEW k \in DOMAIN u.items PROVE u.items[k].path \in DOMAIN u.paths /\ u.paths[u.items[k].path] = k
  <2>1. CASE k \in H
    <3>1. u.items[k].path = to(k) /\ to(k) \in new /\ u.paths[to(k)] \in H /\ to(u.paths[to(k)]) = to(k)
      BY <1>3, <1>7, <2>1
    <3>2. t.items[u.paths[to(k)]].path = t.items[k].path
      BY <1>9, <2>1, <3>1
    <3> QED
      BY <1>1, <1>3, <1>11, <2>1, <3>1, <3>2
  <2>2. CASE k \notin H
    <3> DEFINE q == t.items[k].path
    <3>1. k \in DOMAIN t.items /\ u.items[k].path = q /\ q \in DOMAIN t.paths /\ t.paths[q] = k /\ q \in Seq(Names)
      BY <1>2, <1>3, <2>2 DEF OneTree
    <3>2. q \notin old
      BY <1>1, <1>6, <1>11, <2>2, <3>1
    <3>3. q \notin new
      <4> SUFFICES ASSUME q \in new PROVE FALSE
        OBVIOUS
      <4>1. Within(r, q)
        BY <1>8, <1>9
      <4> QED
        BY <3>1, <4>1, TreeClosed
    <3> HIDE DEF q
    <3> QED
      BY <1>3, <3>1, <3>2, <3>3
  <2> QED
    BY <2>1, <2>2
<1>13. ASSUME NEW k \in DOMAIN u.items \ {Root}
       PROVE  /\ u.items[k].parent \in DOMAIN u.items
              /\ u.items[u.items[k].parent].path = Front(u.items[k].path)
  <2>1. CASE k = h
    <3>1. u.items[h].path = r
      BY <1>1, <1>3, <1>9
    <3>2. u.items[h].parent \in DOMAIN t.items \ H
      BY DEF H
    <3> QED
      BY <1>3, <2>1, <3>1, <3>2
  <2>2. CASE k # h
    <3> DEFINE i == t.items[k].parent
    <3>1. k \in DOMAIN t.items /\ u.items[k].parent = i /\ i \in DOMAIN t.items /\ t.items[i].path = Front(t.items[k].path)
      BY <1>3, <1>13, <2>2 DEF OneTree
    <3> HIDE DEF i
    <3>2. CASE k \in H
      <4>1. t.items[k].path # p
        BY <1>1, <1>11, <2>2, <3>2
      <4>2. Below(p, t.items[k].path) /\ Front(to(k)) = Rebase(t.items[i].path, p, r) /\ t.items[k].path # <<>>
        BY <1>10, <3>1, <3>2, <4>1
      <4>3. Within(p, t.items[i].path)
        BY <1>2, <1>9, <3>1, <4>2, WithinFront
      <4>4. i \in H
        BY <1>4, <3>1, <4>3
      <4> QED
        BY <1>3, <3>1, <3>2, <4>2, <4>4 DEF to
    <3>3. CASE k \notin H
      <4>1. i \notin H
        BY <1>5, <1>13, <3>1, <3>3 DEF Closed, i
      <4> QED
        BY <1>3, <3>1, <3>3, <4>1
    <3> QED
      BY <3>2, <3>3
  <2> QED
    BY <2>1, <2>2
<1> QED
  BY <1>12, <1>13 DEF OneTree

LEMMA ChangePathFacts ==
    ASSUME NEW t, DiskGood(t), Items(t), NEW h \in DOMAIN t.items \ {Root}, NEW r
    PROVE  LET u == ChangePath(t, h, r) IN
           /\ DiskGood(u) /\ SameDisk(t, u) /\ SameStore(t, u) /\ u.wds = t.wds /\ u.watch = t.watch /\ u.wd = t.wd
           /\ Moved(t, u, h, r) /\ u.items[h].parent = t.items[h].parent
<1> DEFINE p == t.items[h].path
           H == Subtree(t, h)
           to(k) == Rebase(t.items[k].path, p, r)
           new == {to(k) : k \in H}
           old == {t.items[k].path : k \in H}
           there == [q \in new |-> CHOOSE k \in H : to(k) = q]
           paths == Merge(there, Without(t.paths, old))
           items == [k \in DOMAIN t.items |-> IF k \in H THEN [t.items[k] EXCEPT !.path = to(k)] ELSE t.items[k]]
           u == ChangePath(t, h, r)
<1>1. u = [t EXCEPT !.paths = paths, !.items = items]
  BY DEF ChangePath
<1>2. DOMAIN there = new /\ \A q \in new : there[q] \in H /\ to(there[q]) = q
  <2> HIDE DEF H, to
  <2> QED
    OBVIOUS
<1>3. h \in H /\ H \subseteq DOMAIN t.items
  BY SubtreeItems
<1> HIDE DEF there, new, old
<1>4. /\ DOMAIN paths = new \cup (DOMAIN t.paths \ old)
      /\ \A q \in new : paths[q] \in H /\ to(paths[q]) = q
      /\ \A q \in DOMAIN paths \ new : paths[q] = t.paths[q]
  BY <1>2 DEF Merge, Without
<1>5. DOMAIN items = DOMAIN t.items
  OBVIOUS
<1>6. ASSUME NEW k \in DOMAIN t.items
      PROVE  /\ DOMAIN items[k] = ItemFields
             /\ items[k].wd = t.items[k].wd /\ items[k].dir = t.items[k].dir /\ items[k].puoid = t.items[k].puoid
             /\ items[k].path = IF k \in H THEN to(k) ELSE t.items[k].path
             /\ items[k].parent = t.items[k].parent
  <2>1. DOMAIN t.items[k] = ItemFields
    BY DEF Items
  <2>2. items[k] = IF k \in H THEN [t.items[k] EXCEPT !.path = to(k)] ELSE t.items[k]
    OBVIOUS
  <2> HIDE DEF items, H, to
  <2>3. CASE k \in H
    BY <2>1, <2>2, <2>3 DEF ItemFields
  <2>4. CASE k \notin H
    BY <2>1, <2>2, <2>4
  <2> QED
    BY <2>3, <2>4
<1> HIDE DEF paths, items, u
<1>7. DOMAIN t = Fields
  BY DEF DiskGood
<1>8. /\ DOMAIN u = Fields /\ SameDisk(t, u) /\ SameStore(t, u) /\ u.wds = t.wds /\ u.watch = t.watch /\ u.wd = t.wd
      /\ u.paths = paths /\ u.items = items /\ u.handle = t.handle
  BY <1>1, <1>7 DEF Fields, SameDisk, SameStore
<1>9. DiskGood(u)
  <2>1. u.wd \in Nat /\ DOMAIN u.watch \subseteq Int
    BY <1>8 DEF DiskGood, Notifications
  <2> QED
    BY <1>8, <2>1, DiskKept
<1>10. Moved(t, u, h, r)
  BY <1>4, <1>5, <1>6, <1>8 DEF Moved, SameStore, new, old
<1>11. u.items[h].parent = t.items[h].parent
  BY <1>6, <1>8
<1> QED
  BY <1>8, <1>9, <1>10, <1>11 DEF u

-----------------------------------------------------------------------------
(* What events do to the maps. *)

\* All but lost is the same, and causes may have come.
SameButLost(t, u) ==
    /\ DOMAIN u = Fields /\ t.lost \subseteq u.lost
    /\ SameDisk(t, u) /\ u.watch = t.watch /\ u.wd = t.wd /\ u.wds = t.wds /\ u.items = t.items /\ u.paths = t.paths
    /\ u.handle = t.handle /\ u.puoids = t.puoids /\ u.puoid = t.puoid /\ u.refs = t.refs
\* What EventsDeleteNoFile allows to go from the disk: directories, and what is at the path
\* of an item with contents that is no folder any more.
Turned(t, p) == \E h \in DOMAIN t.items : t.items[h].path = p /\ ~t.items[h].dir /\ Kids(t, h) # {}
OnlyDirsGo(t, u) ==
    /\ DOMAIN u.disk \subseteq DOMAIN t.disk /\ \A p \in DOMAIN u.disk : u.disk[p] = t.disk[p]
    /\ \A p \in DOMAIN t.disk \ DOMAIN u.disk : t.disk[p].dir \/ Turned(t, p)

LEMMA OnlyDirsGoSame == ASSUME NEW t, NEW u, u.disk = t.disk PROVE OnlyDirsGo(t, u)
BY DEF OnlyDirsGo

LEMMA OnlyDirsGoThen ==
    ASSUME NEW t, NEW u, NEW v, OnlyDirsGo(t, u), v.disk = u.disk PROVE OnlyDirsGo(t, v)
BY DEF OnlyDirsGo

LEMMA OnlyDirsGoOn ==
    ASSUME NEW t, NEW u, NEW v, OnlyDirsGo(t, u), Fewer(t, u), OnlyDirsGo(u, v) PROVE OnlyDirsGo(t, v)
<1>1. ASSUME NEW p, Turned(u, p) PROVE Turned(t, p)
  <2>1. PICK h \in DOMAIN u.items : u.items[h].path = p /\ ~u.items[h].dir /\ Kids(u, h) # {}
    BY <1>1 DEF Turned
  <2>2. h \in DOMAIN t.items /\ t.items[h] = u.items[h] /\ Kids(u, h) \subseteq Kids(t, h)
    BY <2>1 DEF Fewer, Kids
  <2> QED
    BY <2>1, <2>2 DEF Turned
<1> QED
  BY <1>1 DEF OnlyDirsGo

LEMMA FewerOn == ASSUME NEW t, NEW u, NEW v, Fewer(t, u), Fewer(u, v) PROVE Fewer(t, v)
BY DEF Fewer

LEMMA FewerSame == ASSUME NEW t, NEW u, u.items = t.items PROVE Fewer(t, u)
BY DEF Fewer

LEMMA LoseIfFacts ==
    ASSUME NEW t, DOMAIN t = Fields, NEW condition, NEW cause
    PROVE  LET u == LoseIf(t, condition, cause) IN
           SameButLost(t, u) /\ (condition => cause \in u.lost) /\ (~condition => u = t)
<1> DEFINE u == LoseIf(t, condition, cause)
<1>1. CASE condition
  <2>1. u = [t EXCEPT !.lost = @ \cup {cause}]
    BY <1>1 DEF LoseIf, Lose
  <2> HIDE DEF u
  <2>2. SameButLost(t, u) /\ cause \in u.lost
    BY <2>1 DEF SameButLost, SameDisk, Fields
  <2> QED
    BY <1>1, <2>2 DEF u
<1>2. CASE ~condition
  <2>1. u = t
    BY <1>2 DEF LoseIf
  <2> QED
    BY <1>2, <2>1 DEF SameButLost, SameDisk
<1> QED
  BY <1>1, <1>2

LEMMA SameButLostFacts ==
    ASSUME NEW t, NEW u, MapsTyped(t), SameButLost(t, u)
    PROVE  MapsTyped(u) /\ (OneTree(t) => OneTree(u)) /\ (Broken(t) => Broken(u)) /\ OnlyDirsGo(t, u)
<1>1. DiskGood(u)
  BY DiskKept DEF MapsTyped, SameButLost, DiskGood, Notifications
<1>2. Items(u) /\ PathsLead(u) /\ WatchesLead(u)
  BY DEF MapsTyped, SameButLost, Items, PathsLead, WatchesLead
<1>3. OneTree(t) => OneTree(u)
  BY DEF SameButLost, OneTree
<1>4. Broken(t) => Broken(u)
  BY DEF SameButLost, Broken
<1>5. OnlyDirsGo(t, u)
  BY OnlyDirsGoSame DEF SameButLost, SameDisk
<1> QED
  BY <1>1, <1>2, <1>3, <1>4, <1>5 DEF MapsTyped

LEMMA LoseIfGood ==
    ASSUME NEW t, Good(t), NEW condition, NEW cause
    PROVE  LET u == LoseIf(t, condition, cause) IN
           Good(u) /\ SameButLost(t, u) /\ OnlyDirsGo(t, u) /\ Fewer(t, u)
<1> DEFINE u == LoseIf(t, condition, cause)
<1>1. MapsTyped(t) /\ DOMAIN t = Fields
  BY DEF Good, MapsTyped, DiskGood
<1>2. SameButLost(t, u)
  BY <1>1, LoseIfFacts
<1> HIDE DEF u
<1>3. MapsTyped(u) /\ (OneTree(t) => OneTree(u)) /\ (Broken(t) => Broken(u)) /\ OnlyDirsGo(t, u)
  BY <1>1, <1>2, SameButLostFacts
<1>4. Fewer(t, u)
  BY <1>2, FewerSame DEF SameButLost
<1> QED
  BY <1>2, <1>3, <1>4 DEF Good, u

LEMMA LoseGood ==
    ASSUME NEW t, Good(t), NEW cause
    PROVE  Good(Lose(t, cause)) /\ OnlyDirsGo(t, Lose(t, cause)) /\ Fewer(t, Lose(t, cause))
<1> DEFINE c == TRUE
<1>1. LoseIf(t, c, cause) = Lose(t, cause)
  BY DEF LoseIf
<1> HIDE DEF c
<1> QED
  BY <1>1, LoseIfGood

LEMMA ForgetFacts ==
    ASSUME NEW t, Good(t), NEW h \in DOMAIN t.items \ {Root}
    PROVE  LET u == Forget(t, h) IN Good(u) /\ OnlyDirsGo(t, u) /\ Fewer(t, u)
<1> DEFINE below == Subtree(t, h) \ {h}
           full == {k \in below \cup {h} : Kids(t, k) # {}}
           files == {p \in {t.items[k].path : k \in {j \in full : ~t.items[j].dir}} :
                       Exists(t, p) /\ ~IsDir(t, p)}
           dirs == {t.items[k].path : k \in {j \in full : t.items[j].dir}}
           empty == {p \in dirs : IsDir(t, p) /\ \A q \in DOMAIN t.disk :
                                       Below(p, q) => q \in files \/ (IsDir(t, q) /\ q \in dirs)}
           P == files \cup empty
           on == Unlink(t, P)
           all == RemoveItems(on, below \cup {h})
           some == RemoveItems(on, below)
           u == Forget(t, h)
<1>1. u = IF below = {} \/ t.items[h].path \in P THEN all ELSE Lose(some, "full folder")
  BY DEF Forget
<1>2. MapsTyped(t) /\ DiskGood(t) /\ Items(t) /\ PathsLead(t) /\ WatchesLead(t)
  BY DEF Good, MapsTyped
<1>3. h \in Subtree(t, h) /\ Subtree(t, h) \subseteq DOMAIN t.items /\ Root \notin Subtree(t, h)
  BY <1>2, SubtreeItems
<1>4. OneTree(t) => Closed(t, below \cup {h}) /\ Closed(t, below)
  <2>1. below \cup {h} = Subtree(t, h)
    BY <1>3
  <2> QED
    BY <1>2, <2>1, SubtreeClosed
<1>5. \A p \in P : IsDir(t, p) \/ Turned(t, p)
  <2>1. \A p \in empty : IsDir(t, p)
    OBVIOUS
  <2>2. ASSUME NEW p \in files PROVE Turned(t, p)
    <3>1. PICK k \in full : ~t.items[k].dir /\ t.items[k].path = p
      OBVIOUS
    <3>2. k \in DOMAIN t.items /\ Kids(t, k) # {}
      BY <1>3
    <3> QED
      BY <3>1, <3>2 DEF Turned
  <2> HIDE DEF empty, files
  <2> QED
    BY <2>1, <2>2
<1>6. below \cup {h} \subseteq DOMAIN t.items /\ below \subseteq DOMAIN t.items /\ Root \notin below /\ Root \notin below \cup {h}
  BY <1>3
<1> HIDE DEF P, below, u, all, some
<1>7. /\ DiskGood(on) /\ SameMaps(t, on)
      /\ DOMAIN on.disk \subseteq DOMAIN t.disk /\ DOMAIN t.disk \ DOMAIN on.disk \subseteq P
      /\ \A p \in DOMAIN on.disk : on.disk[p] = t.disk[p]
  BY <1>2, UnlinkFacts
<1>8. OnlyDirsGo(t, on)
  <2>1. \A p \in DOMAIN t.disk : p # <<>>
    BY <1>2 DEF DiskGood, Entries
  <2> HIDE DEF on
  <2>2. \A p \in DOMAIN t.disk \ DOMAIN on.disk : t.disk[p].dir \/ Turned(t, p)
    BY <1>5, <1>7, <2>1 DEF IsDir
  <2> QED
    BY <1>7, <2>2 DEF OnlyDirsGo
<1> HIDE DEF on
<1>9. /\ Items(on) /\ PathsLead(on) /\ WatchesLead(on) /\ (OneTree(t) => OneTree(on))
      /\ \A H : Closed(t, H) => Closed(on, H)
  BY <1>2, <1>7, SameMapsFacts
<1>10. on.items = t.items /\ MapsTyped(on) /\ (Broken(t) <=> Broken(on))
  BY <1>7, <1>9 DEF SameMaps, MapsTyped, Broken
<1>11. ASSUME NEW H, Root \notin H, H \subseteq DOMAIN t.items, OneTree(t) => Closed(t, H)
       PROVE  LET v == RemoveItems(on, H) IN Good(v) /\ OnlyDirsGo(t, v) /\ Fewer(t, v)
  <2> DEFINE v == RemoveItems(on, H)
  <2>1. /\ MapsTyped(v) /\ SameDisk(on, v) /\ Fewer(on, v) /\ (Broken(on) <=> Broken(v))
        /\ (OneTree(on) /\ Closed(on, H) /\ H \subseteq DOMAIN on.items => OneTree(v))
    BY <1>10, <1>11, RemoveItemsFacts
  <2> HIDE DEF v
  <2>2. OneTree(t) => OneTree(v)
    BY <1>9, <1>10, <1>11, <2>1
  <2>3. OnlyDirsGo(t, v)
    BY <1>8, <2>1, OnlyDirsGoThen DEF SameDisk
  <2>4. Fewer(t, v)
    BY <1>10, <2>1, FewerSame, FewerOn
  <2> QED
    BY <1>10, <2>1, <2>2, <2>3, <2>4 DEF Good, v
<1>12. Good(all) /\ OnlyDirsGo(t, all) /\ Fewer(t, all)
  BY <1>4, <1>6, <1>11 DEF all
<1>13. Good(some) /\ OnlyDirsGo(t, some) /\ Fewer(t, some)
  BY <1>4, <1>6, <1>11 DEF some
<1>14. Good(Lose(some, "full folder")) /\ OnlyDirsGo(t, Lose(some, "full folder")) /\ Fewer(t, Lose(some, "full folder"))
  BY <1>13, LoseGood, OnlyDirsGoOn, FewerOn
<1>15. u = all \/ u = Lose(some, "full folder")
  BY <1>1
<1> QED
  BY <1>12, <1>14, <1>15 DEF u

LEMMA SubtreeSame == ASSUME NEW t, NEW u, u.items = t.items, NEW h PROVE Subtree(u, h) = Subtree(t, h)
<1> DEFINE Found(I) ==
               LET deep == Max({Len(I[k].path) : k \in DOMAIN I})
                   kids(j) == {k \in DOMAIN I \ {Root} : I[k].parent = j}
                   level[n \in 0 .. deep] == IF n = 0 THEN {h} ELSE UNION {kids(k) : k \in level[n - 1]}
               IN  UNION {level[n] : n \in 0 .. deep}
<1>1. Subtree(t, h) = Found(t.items) /\ Subtree(u, h) = Found(u.items)
  BY DEF Subtree, Depth, Kids
<1> HIDE DEF Found
<1> QED
  BY <1>1

\* Of what is below an item, the part reached through folders alone
LEMMA ReachedItems ==
    ASSUME NEW t, Items(t), NEW h \in DOMAIN t.items
    PROVE  Reached(t, h) \in SUBSET DOMAIN t.items /\ Reached(t, h) \subseteq Subtree(t, h)
<1>1. Reached(t, h) \subseteq Subtree(t, h)
  BY DEF Reached
<1> QED
  BY <1>1, SubtreeItems

\* The entries of events are in directories that the tree has.
LEMMA HandleOfWatchFacts ==
    ASSUME NEW t, MapsTyped(t), NEW e \in Events, Leads(t, e.wd)
    PROVE  /\ HandleOfWatch(t, e.wd) \in DOMAIN t.items
           /\ EntryOf(t, e) \in Seq(Names) \ {<<>>}
           /\ Front(EntryOf(t, e)) = t.items[HandleOfWatch(t, e.wd)].path
           /\ OneTree(t) => Front(EntryOf(t, e)) \in DOMAIN t.paths
           /\ EntryOf(t, e) \in DOMAIN t.paths =>
                  /\ t.paths[EntryOf(t, e)] \in DOMAIN t.items \ {Root}
                  /\ t.items[t.paths[EntryOf(t, e)]].path = EntryOf(t, e)
<1> DEFINE d == HandleOfWatch(t, e.wd)
           p == EntryOf(t, e)
<1>1. Items(t) /\ PathsLead(t) /\ WatchesLead(t) /\ e.name \in Names
  BY DEF MapsTyped, Events
<1>2. d \in DOMAIN t.items
  BY DEF Leads
<1>3. p = Child(t.items[d].path, e.name)
  BY DEF EntryOf
<1> HIDE DEF d, p
<1>4. t.items[d].path \in Seq(Names)
  BY <1>1, <1>2, ItemPaths
<1>5. p \in Seq(Names) \ {<<>>} /\ Front(p) = t.items[d].path
  BY <1>1, <1>3, <1>4, ChildFacts
<1>6. OneTree(t) => Front(p) \in DOMAIN t.paths
  BY <1>2, <1>5 DEF OneTree
<1>7. p \in DOMAIN t.paths => t.paths[p] \in DOMAIN t.items \ {Root} /\ t.items[t.paths[p]].path = p
  BY <1>1, <1>5 DEF PathsLead, Items
<1> QED
  BY <1>2, <1>5, <1>6, <1>7 DEF d, p

LEMMA DroppedFacts ==
    ASSUME NEW t, Good(t), NEW e
    PROVE  /\ Good(Dropped(t, e)) /\ OnlyDirsGo(t, Dropped(t, e)) /\ Fewer(t, Dropped(t, e))
           /\ Good(DroppedNull(t, e)) /\ OnlyDirsGo(t, DroppedNull(t, e)) /\ Fewer(t, DroppedNull(t, e))
<1> DEFINE g == e.dir \in Inodes(t)
           u == Dropped(t, e)
<1>1. u = LoseIf(t, g, "watch")
  BY DEF Dropped
<1> HIDE DEF g
<1>2. Good(u) /\ OnlyDirsGo(t, u) /\ Fewer(t, u)
  BY <1>1, LoseIfGood
<1>3. DroppedNull(t, e) = Lose(u, "null item")
  BY DEF DroppedNull
<1> HIDE DEF u
<1>4. Good(Lose(u, "null item")) /\ OnlyDirsGo(t, Lose(u, "null item")) /\ Fewer(t, Lose(u, "null item"))
  BY <1>2, LoseGood, OnlyDirsGoOn, FewerOn
<1> QED
  BY <1>2, <1>3, <1>4 DEF u

LEMMA FSDeleteFacts ==
    ASSUME NEW t, Good(t), NEW e \in Events
    PROVE  LET u == FSDelete(t, e) IN Good(u) /\ OnlyDirsGo(t, u) /\ Fewer(t, u)
<1> DEFINE p == EntryOf(t, e)
           on == IF p \in DOMAIN t.paths THEN Forget(t, t.paths[p]) ELSE t
           c == Exists(on, p) /\ ~Pending(on, e, {"create", "to"})
           v == LoseIf(on, c, "came back")
<1>1. FSDelete(t, e) = IF e.wd \notin DOMAIN t.wds THEN Dropped(t, e)
                       ELSE IF ~Leads(t, e.wd) THEN DroppedNull(t, e)
                       ELSE v
  BY DEF FSDelete
<1>2. ASSUME Leads(t, e.wd) PROVE Good(on) /\ OnlyDirsGo(t, on) /\ Fewer(t, on)
  <2>1. CASE p \in DOMAIN t.paths
    <3>1. t.paths[p] \in DOMAIN t.items \ {Root}
      BY <1>2, <2>1, HandleOfWatchFacts DEF Good
    <3> HIDE DEF p
    <3> QED
      BY <2>1, <3>1, ForgetFacts
  <2>2. CASE p \notin DOMAIN t.paths
    BY <2>2, OnlyDirsGoSame, FewerSame
  <2> QED
    BY <2>1, <2>2
<1> HIDE DEF on, c
<1>3. ASSUME Leads(t, e.wd) PROVE Good(v) /\ OnlyDirsGo(t, v) /\ Fewer(t, v)
  <2>1. Good(on) /\ OnlyDirsGo(t, on) /\ Fewer(t, on)
    BY <1>2, <1>3
  <2>2. Good(v) /\ OnlyDirsGo(on, v) /\ Fewer(on, v)
    BY <2>1, LoseIfGood
  <2> HIDE DEF v
  <2> QED
    BY <2>1, <2>2, OnlyDirsGoOn, FewerOn
<1> HIDE DEF v, p
<1> QED
  BY <1>1, <1>3, DroppedFacts

LEMMA FSCreateFacts ==
    ASSUME NEW t, Good(t), NEW e \in Events
    PROVE  LET u == FSCreate(t, e) IN Good(u) /\ OnlyDirsGo(t, u)
<1> DEFINE p == EntryOf(t, e)
           c == Amiss(t, p)
<1>1. \/ FSCreate(t, e) = Dropped(t, e) \/ FSCreate(t, e) = DroppedNull(t, e)
      \/ Leads(t, e.wd) /\ FSCreate(t, e) = Discover(t, p)
      \/ FSCreate(t, e) = LoseIf(t, c, "changed")
  BY DEF FSCreate
<1>2. ASSUME Leads(t, e.wd) PROVE Good(Discover(t, p)) /\ OnlyDirsGo(t, Discover(t, p))
  <2> DEFINE u == Discover(t, p)
  <2>1. p \in Seq(Names) \ {<<>>} /\ (OneTree(t) => Front(p) \in DOMAIN t.paths)
    BY <1>2, HandleOfWatchFacts DEF Good
  <2> HIDE DEF p
  <2>2. /\ MapsTyped(u) /\ SameDisk(t, u) /\ u.lost = t.lost
        /\ (OneTree(t) /\ Front(p) \in DOMAIN t.paths => OneTree(u))
    BY <2>1, DiscoverFacts DEF Good
  <2> HIDE DEF u
  <2>3. Good(u)
    BY <2>1, <2>2 DEF Good, Broken
  <2> QED
    BY <2>2, <2>3, OnlyDirsGoSame DEF SameDisk, u
<1> HIDE DEF c
<1>3. Good(LoseIf(t, c, "changed")) /\ OnlyDirsGo(t, LoseIf(t, c, "changed"))
  BY LoseIfGood
<1> HIDE DEF p
<1> QED
  BY <1>1, <1>2, <1>3, DroppedFacts

\* h and what is below it at a new path, in a folder, watched again
LEMMA MoveFacts ==
    ASSUME NEW t, MapsTyped(t), NEW h \in DOMAIN t.items \ {Root}, NEW r \in Seq(Names) \ {<<>>}, NEW parent,
           NEW H \in SUBSET DOMAIN t.items, Unwatched(t, H)
    PROVE  LET u == AddWatches([ChangePath(t, h, r) EXCEPT !.items[h].parent = parent], H) IN
           /\ MapsTyped(u) /\ SameDisk(t, u) /\ u.lost = t.lost /\ DOMAIN u.items = DOMAIN t.items
           /\ (OneTree(t) /\ r \notin DOMAIN t.paths /\ parent \in DOMAIN t.items \ Subtree(t, h)
               /\ t.items[parent].path = Front(r)) => OneTree(u)
<1> DEFINE v == ChangePath(t, h, r)
           w == [v EXCEPT !.items[h].parent = parent]
           u == AddWatches(w, H)
<1>1. DiskGood(t) /\ Items(t) /\ PathsLead(t) /\ WatchesLead(t)
  BY DEF MapsTyped
<1>2. /\ DiskGood(v) /\ SameDisk(t, v) /\ SameStore(t, v) /\ v.wds = t.wds /\ v.watch = t.watch /\ v.wd = t.wd
      /\ Moved(t, v, h, r) /\ v.items[h].parent = t.items[h].parent
  BY <1>1, ChangePathFacts
<1> HIDE DEF v
<1>3. Items(v)
  BY <1>1, <1>2, MovedFacts
<1>4. DOMAIN v = Fields /\ DOMAIN v.items = DOMAIN t.items /\ \A k \in DOMAIN v.items : DOMAIN v.items[k] = ItemFields
  BY <1>2, <1>3 DEF DiskGood, Items, Moved
<1>5. /\ DOMAIN w = Fields /\ SameDisk(v, w) /\ SameStore(v, w) /\ w.wds = v.wds /\ w.watch = v.watch /\ w.wd = v.wd
      /\ w.paths = v.paths /\ w.handle = v.handle /\ w.items = [v.items EXCEPT ![h].parent = parent]
  BY <1>4 DEF Fields, SameDisk, SameStore
<1> HIDE DEF w
<1>6. /\ DOMAIN w.items = DOMAIN v.items
      /\ \A k \in DOMAIN v.items : k # h => w.items[k] = v.items[k]
      /\ w.items[h] = [v.items[h] EXCEPT !.parent = parent]
  BY <1>4, <1>5
<1>7. /\ DOMAIN w.items[h] = ItemFields /\ w.items[h].parent = parent /\ w.items[h].path = v.items[h].path
      /\ w.items[h].wd = v.items[h].wd /\ w.items[h].dir = v.items[h].dir /\ w.items[h].puoid = v.items[h].puoid
  <2>1. h \in DOMAIN v.items /\ DOMAIN v.items[h] = ItemFields
    BY <1>4
  <2> QED
    BY <1>6, <2>1 DEF ItemFields
<1>8. Moved(t, w, h, r)
  BY <1>2, <1>4, <1>5, <1>6, <1>7 DEF Moved, SameStore
<1>9. Items(w) /\ PathsLead(w) /\ WatchesLead(w) /\ Unwatched(w, H)
  BY <1>1, <1>2, <1>5, <1>8, MovedFacts
<1>10. DiskGood(w) /\ w.lost = t.lost /\ SameDisk(t, w)
  <2>1. w.wd \in Nat /\ DOMAIN w.watch \subseteq Int
    BY <1>2, <1>5 DEF DiskGood, Notifications
  <2> QED
    BY <1>2, <1>5, <2>1, DiskKept DEF SameStore, SameDisk
<1>11. /\ DiskGood(u) /\ SameDisk(w, u) /\ SameStore(w, u) /\ SameTree(w, u)
       /\ (WatchesLead(w) /\ Unwatched(w, H) => WatchesLead(u))
  <2>1. H \in SUBSET DOMAIN w.items
    BY <1>4, <1>6
  <2> QED
    BY <1>9, <1>10, <2>1, AddWatchesFacts
<1> HIDE DEF u
<1>12. Items(u) /\ PathsLead(u) /\ (OneTree(w) => OneTree(u))
  BY <1>9, <1>11, SameTreeFacts
<1>13. (OneTree(t) /\ r \notin DOMAIN t.paths /\ parent \in DOMAIN t.items \ Subtree(t, h)
        /\ t.items[parent].path = Front(r)) => OneTree(w)
  BY <1>1, <1>7, <1>8, MovedTree
<1>14. MapsTyped(u) /\ SameDisk(t, u) /\ u.lost = t.lost /\ DOMAIN u.items = DOMAIN t.items
  BY <1>4, <1>6, <1>9, <1>10, <1>11, <1>12 DEF MapsTyped, SameDisk, SameStore, SameTree
<1> QED
  BY <1>12, <1>13, <1>14 DEF u, w, v

\* Removing watches keeps everything else.
LEMMA UnwatchedGood ==
    ASSUME NEW t, MapsTyped(t), NEW H
    PROVE  LET u == RemoveWatches(t, H) IN
           /\ MapsTyped(u) /\ Unwatched(u, H) /\ SameDisk(t, u) /\ SameStore(t, u)
           /\ u.items = t.items /\ u.paths = t.paths
           /\ (OneTree(t) => OneTree(u)) /\ \A h : Subtree(u, h) = Subtree(t, h)
<1> DEFINE u == RemoveWatches(t, H)
<1>1. DiskGood(t) /\ Items(t) /\ PathsLead(t) /\ WatchesLead(t)
  BY DEF MapsTyped
<1>2. /\ DiskGood(u) /\ SameDisk(t, u) /\ SameStore(t, u) /\ u.items = t.items /\ u.paths = t.paths
      /\ u.handle = t.handle /\ SameTree(t, u) /\ WatchesLead(u) /\ Unwatched(u, H)
  BY <1>1, RemoveWatchesFacts
<1> HIDE DEF u
<1>3. Items(u) /\ PathsLead(u) /\ (OneTree(t) => OneTree(u))
  BY <1>1, <1>2, SameTreeFacts
<1> QED
  BY <1>2, <1>3, SubtreeSame DEF MapsTyped, u

LEMMA WatchesGood ==
    ASSUME NEW t, MapsTyped(t), NEW H \in SUBSET DOMAIN t.items, Unwatched(t, H)
    PROVE  LET u == AddWatches(t, H) IN
           MapsTyped(u) /\ SameDisk(t, u) /\ SameStore(t, u) /\ SameTree(t, u) /\ (OneTree(t) => OneTree(u))
<1> DEFINE u == AddWatches(t, H)
<1>1. DiskGood(t) /\ Items(t) /\ PathsLead(t) /\ WatchesLead(t)
  BY DEF MapsTyped
<1>2. DiskGood(u) /\ SameDisk(t, u) /\ SameStore(t, u) /\ SameTree(t, u) /\ WatchesLead(u)
  BY <1>1, AddWatchesFacts
<1> HIDE DEF u
<1>3. Items(u) /\ PathsLead(u) /\ (OneTree(t) => OneTree(u))
  BY <1>1, <1>2, SameTreeFacts
<1> QED
  BY <1>2, <1>3 DEF MapsTyped, u

LEMMA RelinkFacts ==
    ASSUME NEW t, Good(t), NEW h \in DOMAIN t.items \ {Root}, NEW parent \in DOMAIN t.items
    PROVE  LET u == Relink(t, h, parent) IN
           /\ MapsTyped(u) /\ SameDisk(t, u) /\ DOMAIN u.items = DOMAIN t.items /\ (Broken(t) => Broken(u))
           /\ (~Broken(u) /\ parent \notin Subtree(t, h) => OneTree(u))
<1> DEFINE H == Reached(t, h)
           r == Child(t.items[parent].path, Last(t.items[h].path))
           quiet == RemoveWatches(t, H)
           v == AddWatches([ChangePath(quiet, h, r) EXCEPT !.items[h].parent = parent], H)
           c == r \in DOMAIN t.paths
           w == LoseIf(v, c, "displaced")
           u == Relink(t, h, parent)
<1>1. u = IF t.items[h].dir /\ c THEN t ELSE w
  BY DEF Relink
<1>2. MapsTyped(t) /\ Items(t) /\ (~Broken(t) => OneTree(t))
  BY DEF Good, MapsTyped
<1>3. r \in Seq(Names) \ {<<>>} /\ Front(r) = t.items[parent].path
  <2>1. t.items[parent].path \in Seq(Names) /\ t.items[h].path \in Seq(Names) \ {<<>>}
    BY <1>2, ItemPaths DEF Items
  <2>2. Last(t.items[h].path) \in Names
    BY <2>1, FrontFacts
  <2> QED
    BY <2>1, <2>2, ChildFacts
<1>4. H \in SUBSET DOMAIN t.items
  BY <1>2, ReachedItems
<1> HIDE DEF r, c, u, w
<1>5. /\ MapsTyped(quiet) /\ Unwatched(quiet, H) /\ SameDisk(t, quiet) /\ SameStore(t, quiet)
      /\ quiet.items = t.items /\ quiet.paths = t.paths
      /\ (OneTree(t) => OneTree(quiet)) /\ \A k : Subtree(quiet, k) = Subtree(t, k)
  BY <1>2, UnwatchedGood
<1> HIDE DEF quiet, H
<1>6. /\ MapsTyped(v) /\ SameDisk(quiet, v) /\ v.lost = quiet.lost /\ DOMAIN v.items = DOMAIN quiet.items
      /\ (OneTree(quiet) /\ r \notin DOMAIN quiet.paths /\ parent \in DOMAIN quiet.items \ Subtree(quiet, h)
          /\ quiet.items[parent].path = Front(r)) => OneTree(v)
  <2>1. h \in DOMAIN quiet.items \ {Root} /\ H \in SUBSET DOMAIN quiet.items
    BY <1>4, <1>5
  <2> QED
    BY <1>3, <1>5, <2>1, MoveFacts
<1> HIDE DEF v
<1>7. SameButLost(v, w) /\ (c => "displaced" \in w.lost)
  <2>1. DOMAIN v = Fields
    BY <1>6 DEF MapsTyped, DiskGood
  <2> QED
    BY <2>1, LoseIfFacts DEF w
<1>8. MapsTyped(w) /\ (OneTree(v) => OneTree(w)) /\ (Broken(v) => Broken(w))
  BY <1>6, <1>7, SameButLostFacts
<1>9. SameDisk(t, w) /\ DOMAIN w.items = DOMAIN t.items /\ (Broken(t) => Broken(w))
  <2>1. v.lost = t.lost
    BY <1>5, <1>6 DEF SameStore
  <2>2. Broken(t) => Broken(v)
    BY <2>1 DEF Broken
  <2> QED
    BY <1>5, <1>6, <1>7, <1>8, <2>2 DEF SameDisk, SameButLost
<1>10. ASSUME ~Broken(w), parent \notin Subtree(t, h) PROVE OneTree(w)
  <2>1. r \notin DOMAIN t.paths
    BY <1>7, <1>10 DEF Broken, c
  <2>2. OneTree(v)
    BY <1>2, <1>3, <1>5, <1>6, <1>9, <1>10, <2>1
  <2> QED
    BY <1>8, <2>2
<1>11. /\ MapsTyped(t) /\ SameDisk(t, t) /\ DOMAIN t.items = DOMAIN t.items /\ (Broken(t) => Broken(t))
       /\ (~Broken(t) /\ parent \notin Subtree(t, h) => OneTree(t))
  BY <1>2 DEF SameDisk
<1>12. u = t \/ u = w
  BY <1>1
<1>13. CASE u = t
  BY <1>11, <1>13 DEF u
<1>14. CASE u = w
  BY <1>8, <1>9, <1>10, <1>14 DEF u
<1> QED
  BY <1>12, <1>13, <1>14

\* populateObjectInfo() may change the kind of an item.
LEMMA KindFacts ==
    ASSUME NEW t, MapsTyped(t), NEW h \in DOMAIN t.items, NEW dir
    PROVE  LET u == [t EXCEPT !.items[h].dir = dir] IN
           MapsTyped(u) /\ SameDisk(t, u) /\ u.lost = t.lost /\ (OneTree(t) => OneTree(u))
<1> DEFINE u == [t EXCEPT !.items[h].dir = dir]
<1>1. DiskGood(t) /\ Items(t) /\ PathsLead(t) /\ WatchesLead(t) /\ DOMAIN t = Fields
  BY DEF MapsTyped, DiskGood
<1>2. /\ DOMAIN u = Fields /\ SameDisk(t, u) /\ u.wds = t.wds /\ u.watch = t.watch /\ u.wd = t.wd /\ u.lost = t.lost
      /\ u.paths = t.paths /\ u.handle = t.handle /\ u.items = [t.items EXCEPT ![h].dir = dir]
  BY <1>1 DEF Fields, SameDisk
<1> HIDE DEF u
<1>3. /\ DOMAIN u.items = DOMAIN t.items
      /\ \A k \in DOMAIN t.items : u.items[k] = IF k = h THEN [t.items[h] EXCEPT !.dir = dir] ELSE t.items[k]
  BY <1>2
<1>4. DOMAIN t.items[h] = ItemFields
  BY <1>1 DEF Items
<1>5. \A k \in DOMAIN t.items : /\ (DOMAIN t.items[k] = ItemFields => DOMAIN u.items[k] = ItemFields)
                                /\ u.items[k].path = t.items[k].path /\ u.items[k].parent = t.items[k].parent
                                /\ u.items[k].wd = t.items[k].wd
  <2> SUFFICES ASSUME NEW k \in DOMAIN t.items
               PROVE  /\ (DOMAIN t.items[k] = ItemFields => DOMAIN u.items[k] = ItemFields)
                      /\ u.items[k].path = t.items[k].path /\ u.items[k].parent = t.items[k].parent
                      /\ u.items[k].wd = t.items[k].wd
    OBVIOUS
  <2>1. CASE k = h
    <3>1. u.items[k] = [t.items[h] EXCEPT !.dir = dir]
      BY <1>3, <2>1
    <3> QED
      BY <1>4, <2>1, <3>1 DEF ItemFields
  <2>2. CASE k # h
    <3>1. u.items[k] = t.items[k]
      BY <1>3, <2>2
    <3> QED
      BY <3>1
  <2> QED
    BY <2>1, <2>2
<1>6. Items(u)
  BY <1>1, <1>2, <1>3, <1>5 DEF Items
<1>7. PathsLead(u) /\ WatchesLead(u)
  BY <1>1, <1>2, <1>3, <1>5 DEF PathsLead, WatchesLead
<1>8. OneTree(t) => OneTree(u)
  BY <1>2, <1>3, <1>5 DEF OneTree
<1>9. DiskGood(u)
  BY <1>1, <1>2, DiskKept DEF DiskGood, Notifications
<1> QED
  BY <1>2, <1>6, <1>7, <1>8, <1>9 DEF MapsTyped, u

LEMMA FSMoveFacts ==
    ASSUME NEW t, Good(t), NEW f \in Events, NEW e \in Events
    PROVE  LET u == FSMove(t, f, e) IN Good(u) /\ OnlyDirsGo(t, u)
<1> DEFINE fromDir == HandleOfWatch(t, f.wd)
           toDir == HandleOfWatch(t, e.wd)
           p == EntryOf(t, f)
           r == EntryOf(t, e)
           h == t.paths[p]
           H == Subtree(t, h)
           R == Reached(t, h)
           here == AddWatches(RemoveWatches(ChangePath(t, h, r), R), R)
           there == Relink(t, h, toDir)
           moved == IF fromDir = toDir THEN here ELSE there
           place == moved.items[h].path
           dir == IsDir(t, place)
           seen == [moved EXCEPT !.items[h].dir = dir]
           cycle == toDir \in H
           name == place # r
           missed == \E k \in H : Amiss(seen, seen.items[k].path)
           unknown == Amiss(t, r)
           isDir == IsDir(t, r)
           u == FSMove(t, f, e)
           last == LoseIf(LoseIf(LoseIf(seen, cycle, "cycle"), name, "name"), missed, "unwatched")
<1>1. u = IF \/ ~Leads(t, f.wd) \/ ~Leads(t, e.wd)
             \/ t.items[fromDir].wd # f.wd \/ t.items[toDir].wd # e.wd
          THEN Dropped(Dropped(t, f), e)
          ELSE IF p \notin DOMAIN t.paths THEN LoseIf(t, unknown, "unknown")
          ELSE IF r \in DOMAIN t.paths THEN LoseIf(Forget(t, h), isDir, "replaced")
          ELSE last
  BY DEF FSMove
<1>2. MapsTyped(t) /\ DiskGood(t) /\ Items(t) /\ PathsLead(t) /\ WatchesLead(t)
  BY DEF Good, MapsTyped
<1>30. Good(Dropped(Dropped(t, f), e)) /\ OnlyDirsGo(t, Dropped(Dropped(t, f), e))
  BY DroppedFacts, OnlyDirsGoOn
<1>31. CASE u = Dropped(Dropped(t, f), e)
  <2> HIDE DEF u
  <2> QED
    BY <1>30, <1>31 DEF u
<1>32. SUFFICES ASSUME Leads(t, f.wd), Leads(t, e.wd) PROVE Good(u) /\ OnlyDirsGo(t, u)
  <2> HIDE DEF p, r, fromDir, toDir, u, last
  <2> QED
    BY <1>1, <1>31 DEF u
<1>3. /\ fromDir \in DOMAIN t.items /\ toDir \in DOMAIN t.items
      /\ p \in Seq(Names) \ {<<>>} /\ Front(p) = t.items[fromDir].path
      /\ r \in Seq(Names) \ {<<>>} /\ Front(r) = t.items[toDir].path
      /\ (p \in DOMAIN t.paths => h \in DOMAIN t.items \ {Root} /\ t.items[h].path = p)
  BY <1>2, <1>32, HandleOfWatchFacts
<1>4. ASSUME p \in DOMAIN t.paths, r \notin DOMAIN t.paths
      PROVE  /\ MapsTyped(moved) /\ SameDisk(t, moved) /\ (Broken(t) => Broken(moved))
             /\ h \in DOMAIN moved.items
             /\ ~Broken(moved) /\ ~cycle => OneTree(moved)
  <2>1. h \in DOMAIN t.items \ {Root} /\ t.items[h].path = p
    BY <1>3, <1>4
  <2>2. h \in H /\ H \subseteq DOMAIN t.items
    BY <1>2, <2>1, SubtreeItems
  <2>3. CASE fromDir = toDir
    <3> DEFINE v == ChangePath(t, h, r)
               w == RemoveWatches(v, R)
    <3>0. R \in SUBSET DOMAIN t.items
      BY <1>2, <2>1, ReachedItems
    <3> HIDE DEF p, r, h, fromDir, toDir
    <3>1. /\ DiskGood(v) /\ SameDisk(t, v) /\ SameStore(t, v) /\ v.wds = t.wds
          /\ Moved(t, v, h, r) /\ v.items[h].parent = t.items[h].parent
      BY <1>2, <2>1, ChangePathFacts
    <3> HIDE DEF v
    <3>2. Items(v) /\ PathsLead(v) /\ WatchesLead(v)
      BY <1>2, <1>3, <2>1, <3>1, MovedFacts
    <3>3. DOMAIN v.items = DOMAIN t.items
      BY <3>1 DEF Moved
    <3>4. OneTree(t) => OneTree(v)
      <4> SUFFICES ASSUME OneTree(t) PROVE OneTree(v)
        OBVIOUS
      <4>1. t.items[h].parent \in DOMAIN t.items /\ t.items[t.items[h].parent].path = Front(p)
        BY <2>1 DEF OneTree
      <4>2. t.items[h].parent = fromDir
        BY <1>3, <4>1 DEF OneTree
      <4>3. fromDir \notin Subtree(t, h)
        <5>1. ~Below(p, p)
          BY <1>3, WithinIs
        <5>2. ~Within(p, Front(p))
          BY <1>3, <5>1, WithinFront
        <5> QED
          BY <1>2, <1>3, <2>1, <5>2, SubtreePaths
      <4>4. v.items[h].parent \in DOMAIN t.items \ Subtree(t, h) /\ t.items[v.items[h].parent].path = Front(r)
        BY <1>3, <2>3, <3>1, <4>2, <4>3
      <4> QED
        BY <1>2, <1>3, <1>4, <2>1, <3>1, <4>4, MovedTree
    <3>5. MapsTyped(v)
      BY <3>1, <3>2 DEF MapsTyped
    <3>6. /\ MapsTyped(w) /\ Unwatched(w, R) /\ SameDisk(v, w) /\ SameStore(v, w) /\ w.items = v.items
          /\ (OneTree(v) => OneTree(w))
      BY <3>5, UnwatchedGood
    <3> HIDE DEF w, H, R
    <3>7. /\ MapsTyped(here) /\ SameDisk(w, here) /\ SameStore(w, here) /\ SameTree(w, here)
          /\ (OneTree(w) => OneTree(here))
      <4>1. R \in SUBSET DOMAIN w.items
        BY <3>0, <3>3, <3>6
      <4>2. here = AddWatches(w, R)
        BY DEF w, v
      <4> QED
        BY <3>6, <4>1, <4>2, WatchesGood
    <3>8. here.lost = t.lost /\ SameDisk(t, here) /\ h \in DOMAIN here.items
      BY <2>2, <3>1, <3>3, <3>6, <3>7 DEF SameStore, SameDisk, SameTree
    <3>9. moved = here
      BY <2>3
    <3> HIDE DEF here, moved
    <3>10. OneTree(t) => OneTree(here)
      BY <3>4, <3>6, <3>7
    <3> QED
      BY <3>7, <3>8, <3>9, <3>10 DEF Good, Broken
  <2>4. CASE fromDir # toDir
    <3>1. moved = there
      BY <2>4
    <3> HIDE DEF p, r, h, fromDir, toDir, moved
    <3>2. /\ MapsTyped(there) /\ SameDisk(t, there) /\ DOMAIN there.items = DOMAIN t.items
          /\ (Broken(t) => Broken(there))
          /\ (~Broken(there) /\ toDir \notin Subtree(t, h) => OneTree(there))
      BY <1>3, <2>1, RelinkFacts
    <3> HIDE DEF there
    <3> QED
      BY <2>1, <3>1, <3>2
  <2> QED
    BY <2>3, <2>4
<1>5. ASSUME p \in DOMAIN t.paths, r \notin DOMAIN t.paths
      PROVE  Good(last) /\ OnlyDirsGo(t, last)
  <2> DEFINE one == LoseIf(seen, cycle, "cycle")
             two == LoseIf(one, name, "name")
  <2> HIDE DEF moved, cycle, name, missed, dir, h, p, r, toDir, fromDir
  <2>1. /\ MapsTyped(moved) /\ SameDisk(t, moved) /\ (Broken(t) => Broken(moved)) /\ h \in DOMAIN moved.items
        /\ ~Broken(moved) /\ ~cycle => OneTree(moved)
    BY <1>4, <1>5
  <2>2. MapsTyped(seen) /\ SameDisk(moved, seen) /\ seen.lost = moved.lost /\ (OneTree(moved) => OneTree(seen))
    BY <2>1, KindFacts
  <2> HIDE DEF seen
  <2>3. SameButLost(seen, one) /\ (cycle => "cycle" \in one.lost)
    <3>1. DOMAIN seen = Fields
      BY <2>2 DEF MapsTyped, DiskGood
    <3> QED
      BY <3>1, LoseIfFacts
  <2> HIDE DEF one
  <2>4. MapsTyped(one) /\ (OneTree(seen) => OneTree(one)) /\ (Broken(seen) => Broken(one))
    BY <2>2, <2>3, SameButLostFacts
  <2>5. Good(one)
    <3>1. SUFFICES ASSUME ~Broken(one) PROVE OneTree(one)
      BY <2>4 DEF Good
    <3>2. ~cycle
      BY <2>3, <3>1 DEF Broken
    <3>3. ~Broken(moved)
      BY <2>2, <2>4, <3>1 DEF Broken
    <3> QED
      BY <2>1, <2>2, <2>4, <3>2, <3>3
  <2>6. Good(two) /\ SameButLost(one, two)
    BY <2>5, LoseIfGood
  <2> HIDE DEF two
  <2>7. Good(last) /\ SameButLost(two, last)
    BY <2>6, LoseIfGood DEF one, two
  <2> HIDE DEF last
  <2>8. last.disk = t.disk
    BY <2>1, <2>2, <2>3, <2>6, <2>7 DEF SameDisk, SameButLost
  <2> QED
    BY <2>7, <2>8, OnlyDirsGoSame
<1> HIDE DEF last, unknown, isDir
<1>7. Good(LoseIf(t, unknown, "unknown")) /\ OnlyDirsGo(t, LoseIf(t, unknown, "unknown"))
  BY LoseIfGood
<1>8. ASSUME p \in DOMAIN t.paths
      PROVE  Good(LoseIf(Forget(t, h), isDir, "replaced")) /\ OnlyDirsGo(t, LoseIf(Forget(t, h), isDir, "replaced"))
  <2> DEFINE on == Forget(t, h)
  <2>1. Good(on) /\ OnlyDirsGo(t, on) /\ Fewer(t, on)
    BY <1>3, <1>8, ForgetFacts
  <2> HIDE DEF on
  <2>2. Good(LoseIf(on, isDir, "replaced")) /\ OnlyDirsGo(on, LoseIf(on, isDir, "replaced"))
    BY <2>1, LoseIfGood
  <2>3. OnlyDirsGo(t, LoseIf(on, isDir, "replaced"))
    BY <2>1, <2>2, OnlyDirsGoOn
  <2> QED
    BY <2>2, <2>3 DEF on
<1> HIDE DEF p, r, h, fromDir, toDir, u
<1>10. CASE u = LoseIf(t, unknown, "unknown")
  BY <1>7, <1>10 DEF u
<1>11. CASE p \in DOMAIN t.paths /\ u = LoseIf(Forget(t, h), isDir, "replaced")
  BY <1>8, <1>11 DEF u
<1>12. CASE p \in DOMAIN t.paths /\ r \notin DOMAIN t.paths /\ u = last
  BY <1>5, <1>12 DEF u
<1>9. CASE u = Dropped(Dropped(t, f), e)
  BY <1>30, <1>9
<1> QED
  BY <1>1, <1>9, <1>10, <1>11, <1>12

LEMMA CheckedFacts == ASSUME NEW t, NEW u, Good(u) PROVE Good(Checked(t, u)) /\ Checked(t, u).disk = u.disk
<1> DEFINE c == \E i \in Inodes(u) : WatchesOf(t, i) # {} /\ WatchesOf(u, i) = {}
<1>1. Checked(t, u) = LoseIf(u, c, "unwatched")
  BY DEF Checked
<1> HIDE DEF c
<1> QED
  BY <1>1, LoseIfGood DEF SameButLost, SameDisk

\* What an event leaves
LEMMA InotifyFacts ==
    ASSUME Good(s), cached = None \/ cached \in Events, InotifyEvent
    PROVE  Good(s') /\ OnlyDirsGo(s, s') /\ (cached' = None \/ cached' \in Events)
<1> DEFINE e == Head(s.queue)
           rest == [s EXCEPT !.queue = Tail(@)]
           paired == cached # None /\ cached.cookie = e.cookie
           t == IF cached # None /\ ~paired THEN FSDelete(rest, cached) ELSE rest
           u == CASE e.kind = "create" -> FSCreate(t, e)
                  [] e.kind = "delete" -> FSDelete(t, e)
                  [] e.kind = "to" -> IF paired THEN FSMove(t, cached, e) ELSE FSCreate(t, e)
                  [] e.kind = "from" -> t
<1>1. s.queue # <<>> /\ s' = Checked(s, u) /\ cached' = Cached(e)
  BY DEF InotifyEvent
<1>2. DOMAIN s = Fields /\ s.queue \in Seq(Events) /\ MapsTyped(s)
  BY DEF Good, MapsTyped, DiskGood, Notifications
<1>3. e \in Events /\ Tail(s.queue) \in Seq(Events)
  BY <1>1, <1>2, HeadTailProperties
<1>4. /\ DOMAIN rest = Fields /\ rest.queue = Tail(s.queue) /\ rest.disk = s.disk /\ rest.ino = s.ino
      /\ rest.cookie = s.cookie /\ rest.wd = s.wd /\ rest.watch = s.watch /\ SameMaps(s, rest)
  BY <1>2 DEF Fields, SameMaps
<1> HIDE DEF rest
<1>5. Good(rest) /\ OnlyDirsGo(s, rest) /\ Fewer(s, rest)
  <2>1. Entries(rest) /\ Notifications(rest)
    BY <1>2, <1>3, <1>4 DEF MapsTyped, DiskGood, Entries, Notifications, IsDir
  <2>2. Items(rest) /\ PathsLead(rest) /\ WatchesLead(rest) /\ (OneTree(s) => OneTree(rest))
    BY <1>2, <1>4, SameMapsFacts DEF MapsTyped
  <2>3. Broken(s) => Broken(rest)
    BY <1>4 DEF SameMaps, Broken
  <2> QED
    BY <1>4, <2>1, <2>2, <2>3, OnlyDirsGoSame, FewerSame DEF Good, MapsTyped, DiskGood, SameMaps
<1> HIDE DEF e
<1>6. Good(t) /\ OnlyDirsGo(s, t) /\ Fewer(s, t)
  <2>1. CASE cached # None /\ ~paired
    <3>1. cached \in Events
      BY <2>1
    <3> DEFINE v == FSDelete(rest, cached)
    <3>2. Good(v) /\ OnlyDirsGo(rest, v) /\ Fewer(rest, v)
      BY <1>5, <3>1, FSDeleteFacts
    <3>3. t = v
      BY <2>1
    <3> HIDE DEF v, t
    <3> QED
      BY <1>5, <3>2, <3>3, OnlyDirsGoOn, FewerOn
  <2>2. CASE ~(cached # None /\ ~paired)
    BY <1>5, <2>2
  <2> QED
    BY <2>1, <2>2
<1>7. paired => cached \in Events
  OBVIOUS
<1> HIDE DEF t, paired
<1>8. Good(u) /\ OnlyDirsGo(t, u)
  <2>1. e.kind \in Kinds
    BY <1>3 DEF Events
  <2>2. Good(FSCreate(t, e)) /\ OnlyDirsGo(t, FSCreate(t, e))
    BY <1>3, <1>6, FSCreateFacts
  <2>3. Good(FSDelete(t, e)) /\ OnlyDirsGo(t, FSDelete(t, e))
    BY <1>3, <1>6, FSDeleteFacts
  <2>4. paired => Good(FSMove(t, cached, e)) /\ OnlyDirsGo(t, FSMove(t, cached, e))
    BY <1>3, <1>6, <1>7, FSMoveFacts
  <2>5. OnlyDirsGo(t, t)
    BY OnlyDirsGoSame
  <2>6. CASE e.kind = "create"
    BY <2>2, <2>6
  <2>7. CASE e.kind = "delete"
    BY <2>3, <2>7
  <2>8. CASE e.kind = "to"
    BY <2>2, <2>4, <2>8
  <2>9. CASE e.kind = "from"
    BY <1>6, <2>5, <2>9
  <2> QED
    BY <2>1, <2>6, <2>7, <2>8, <2>9 DEF Kinds
<1> HIDE DEF u
<1>9. Good(s') /\ s'.disk = u.disk
  BY <1>1, <1>8, CheckedFacts
<1>10. OnlyDirsGo(s, s')
  <2>1. OnlyDirsGo(s, u)
    BY <1>6, <1>8, OnlyDirsGoOn
  <2> QED
    BY <1>9, <2>1, OnlyDirsGoThen
<1>11. cached' = None \/ cached' \in Events
  BY <1>1, <1>3 DEF Cached
<1> QED
  BY <1>9, <1>10, <1>11

-----------------------------------------------------------------------------
(* What the initiator does to the maps. *)

LEMMA SameMapsGood ==
    ASSUME NEW t, NEW u, Good(t), DiskGood(u), SameMaps(t, u)
    PROVE  Good(u)
<1>1. Items(t) /\ MapsTyped(t)
  BY DEF Good, MapsTyped
<1>2. /\ Items(u) /\ (PathsLead(t) => PathsLead(u)) /\ (WatchesLead(t) => WatchesLead(u))
      /\ (OneTree(t) => OneTree(u))
  BY <1>1, SameMapsFacts
<1>3. Broken(t) => Broken(u)
  BY DEF Broken, SameMaps
<1> QED
  BY <1>2, <1>3 DEF Good, MapsTyped

LEMMA HostChangesFacts ==
    ASSUME NEW F, NEW u, Good(u), HostChanges(F, u)
    PROVE  Good(s')
<1> DEFINE v == Checked(s, u)
           c == \E h \in F : ~InStep(s, h)
<1>1. s' = LoseIf(v, c, "behind")
  BY DEF HostChanges
<1> HIDE DEF c, v
<1>2. Good(v)
  BY CheckedFacts DEF v
<1> QED
  BY <1>1, <1>2, LoseIfGood

LEMMA MakeGood ==
    ASSUME NEW t, Good(t), NEW P \in SUBSET (Seq(Names) \ {<<>>}), IsFiniteSet(P), NEW D
    PROVE  LET u == Make(t, P, D) IN Good(u) /\ SameMaps(t, u)
<1> DEFINE u == Make(t, P, D)
<1>1. DiskGood(t)
  BY DEF Good, MapsTyped
<1>2. DiskGood(u) /\ SameMaps(t, u)
  BY <1>1, MakeFacts
<1> HIDE DEF u
<1> QED
  BY <1>2, SameMapsGood DEF u

LEMMA DiscoverGood ==
    ASSUME NEW t, Good(t), NEW p \in Seq(Names) \ {<<>>}, OneTree(t) => Front(p) \in DOMAIN t.paths
    PROVE  Good(Discover(t, p))
<1> DEFINE u == Discover(t, p)
<1>1. MapsTyped(u) /\ u.lost = t.lost /\ (OneTree(t) /\ Front(p) \in DOMAIN t.paths => OneTree(u))
  BY DiscoverFacts DEF Good
<1> HIDE DEF u
<1> QED
  BY <1>1 DEF Good, Broken, u

LEMMA DeleteGood ==
    ASSUME NEW t, Good(t), NEW H \in SUBSET (DOMAIN t.items \ {Root}), OneTree(t) => Closed(t, H)
    PROVE  Good(Delete(t, H))
<1> DEFINE P == {t.items[h].path : h \in H}
           on == Unlink(t, P)
           u == RemoveItems(on, H)
<1>1. DiskGood(t) /\ Items(t)
  BY DEF Good, MapsTyped
<1>2. DiskGood(on) /\ SameMaps(t, on)
  BY <1>1, UnlinkFacts
<1>3. Delete(t, H) = u
  BY DEF Delete
<1> HIDE DEF on
<1>4. /\ Good(on) /\ (OneTree(t) => OneTree(on)) /\ (Closed(t, H) => Closed(on, H))
      /\ on.items = t.items /\ on.lost = t.lost
  BY <1>1, <1>2, SameMapsGood, SameMapsFacts DEF SameMaps
<1>5. MapsTyped(u) /\ (Broken(on) <=> Broken(u)) /\ (OneTree(on) /\ Closed(on, H) /\ H \subseteq DOMAIN on.items => OneTree(u))
  BY <1>4, RemoveItemsFacts DEF Good
<1> HIDE DEF u
<1> QED
  BY <1>3, <1>4, <1>5 DEF Good, Broken

LEMMA HostAddsGood ==
    ASSUME Good(s), NEW parent \in DOMAIN s.items, NEW name \in Names, NEW dir, HostAdds(parent, name, dir)
    PROVE  Good(s')
<1> DEFINE p == Child(s.items[parent].path, name)
           P == {SubSeq(p, 1, n) : n \in 1 .. Len(p)}
           t == IF ~dir /\ ~Exists(s, p) THEN Make(s, {p}, {}) ELSE IF dir THEN MakePath(s, p) ELSE s
           F == {parent}
<1>1. HostChanges(F, Discover(t, p))
  BY DEF HostAdds
<1>2. MapsTyped(s) /\ Items(s)
  BY DEF Good, MapsTyped
<1>3. p \in Seq(Names) \ {<<>>} /\ Front(p) = s.items[parent].path /\ Len(p) \in Nat
  <2>1. s.items[parent].path \in Seq(Names)
    BY <1>2, ItemPaths
  <2> QED
    BY <2>1, ChildFacts, LenProperties
<1> HIDE DEF p
<1>4. P \in SUBSET (Seq(Names) \ {<<>>}) /\ IsFiniteSet(P)
  <2>1. ASSUME NEW n \in 1 .. Len(p) PROVE SubSeq(p, 1, n) \in Seq(Names) \ {<<>>}
    <3>1. 1 \in 1 .. Len(p) + 1 /\ n \in 1 - 1 .. Len(p) /\ n \in Nat /\ n # 0
      BY <1>3
    <3>2. SubSeq(p, 1, n) \in Seq(Names) /\ Len(SubSeq(p, 1, n)) = n
      BY <1>3, <3>1, SubSeqProperties
    <3> QED
      BY <3>1, <3>2, NotEmpty
  <2> DEFINE f == [n \in 1 .. Len(p) |-> SubSeq(p, 1, n)]
  <2>2. DOMAIN f = 1 .. Len(p) /\ \A n \in DOMAIN f : f[n] = SubSeq(p, 1, n)
    OBVIOUS
  <2>3. P = {f[n] : n \in DOMAIN f}
    BY <2>2
  <2> HIDE DEF f
  <2>4. IsFiniteSet(DOMAIN f)
    BY <1>3, <2>2, FS_Interval
  <2>5. IsFiniteSet({f[n] : n \in DOMAIN f})
    BY <2>4, ImageFinite
  <2> QED
    BY <2>1, <2>3, <2>5
<1>5. MakePath(s, p) = Make(s, P, P)
  BY DEF MakePath
<1> HIDE DEF P
<1>6. Good(MakePath(s, p)) /\ SameMaps(s, MakePath(s, p))
  BY <1>4, <1>5, MakeGood
<1>7. Good(Make(s, {p}, {})) /\ SameMaps(s, Make(s, {p}, {}))
  <2>1. {p} \in SUBSET (Seq(Names) \ {<<>>}) /\ IsFiniteSet({p})
    BY <1>3, FS_Singleton
  <2> QED
    BY <2>1, MakeGood
<1>8. Good(t) /\ SameMaps(s, t)
  <2>1. SameMaps(s, s)
    BY DEF SameMaps
  <2> QED
    BY <1>6, <1>7, <2>1
<1> HIDE DEF t
<1>9. OneTree(t) => Front(p) \in DOMAIN t.paths
  <2>1. t.items = s.items
    BY <1>8 DEF SameMaps
  <2> QED
    BY <1>3, <2>1 DEF OneTree
<1>10. Good(Discover(t, p))
  BY <1>3, <1>8, <1>9, DiscoverGood
<1> HIDE DEF F
<1> QED
  BY <1>1, <1>10, HostChangesFacts

LEMMA HostDeletesGood ==
    ASSUME Good(s), NEW h \in DOMAIN s.items, HostDeletes(h)
    PROVE  Good(s')
<1> DEFINE below == Subtree(s, h) \ {h}
           good == {k \in below : \A j \in Subtree(s, k) : Deletable(s, j)}
           all == below \cup (IF Deletable(s, h) THEN {h} ELSE {})
<1>1. /\ h # Root
      /\ \/ HostChanges({}, Delete(s, all))
         \/ \E H \in SUBSET good : /\ \A k \in H : Subtree(s, k) \subseteq H
                                   /\ HostChanges({}, Delete(s, H))
  BY DEF HostDeletes
<1>2. MapsTyped(s) /\ Items(s)
  BY DEF Good, MapsTyped
<1>3. h \in Subtree(s, h) /\ Subtree(s, h) \subseteq DOMAIN s.items /\ Root \notin Subtree(s, h)
  BY <1>1, <1>2, SubtreeItems
<1>4. OneTree(s) => Closed(s, Subtree(s, h)) /\ Closed(s, Subtree(s, h) \ {h})
  BY <1>2, SubtreeClosed
<1>5. all = Subtree(s, h) \/ all = Subtree(s, h) \ {h}
  BY <1>3
<1>6. good \subseteq DOMAIN s.items \ {Root}
  BY <1>3
<1> HIDE DEF all, good
<1>7. CASE HostChanges({}, Delete(s, all))
  <2>1. all \in SUBSET (DOMAIN s.items \ {Root}) /\ (OneTree(s) => Closed(s, all))
    BY <1>3, <1>4, <1>5
  <2>2. Good(Delete(s, all))
    BY <2>1, DeleteGood
  <2> QED
    BY <1>7, <2>2, HostChangesFacts
<1>8. ASSUME NEW H \in SUBSET good, \A k \in H : Subtree(s, k) \subseteq H, HostChanges({}, Delete(s, H))
      PROVE  Good(s')
  <2>1. H \in SUBSET (DOMAIN s.items \ {Root})
    BY <1>6
  <2>2. OneTree(s) => Closed(s, H)
    <3> SUFFICES ASSUME OneTree(s), NEW k \in DOMAIN s.items \ {Root}, s.items[k].parent \in H PROVE k \in H
      BY DEF Closed
    <3>1. s.items[k].parent \in DOMAIN s.items
      BY <2>1
    <3>2. k \in Subtree(s, s.items[k].parent)
      BY <1>2, <3>1, SubtreeClosed
    <3> QED
      BY <1>8, <3>2
  <2>3. Good(Delete(s, H))
    BY <2>1, <2>2, DeleteGood
  <2> QED
    BY <1>8, <2>3, HostChangesFacts
<1> QED
  BY <1>1, <1>7, <1>8

LEMMA HostDeletesAllGood ==
    ASSUME Good(s), HostDeletesAll
    PROVE  Good(s')
<1> DEFINE H == {h \in DOMAIN s.items \ {Root} : \A k \in Subtree(s, h) : Deletable(s, k)}
<1>1. HostChanges({}, Delete(s, H))
  BY DEF HostDeletesAll
<1>2. MapsTyped(s) /\ Items(s)
  BY DEF Good, MapsTyped
<1>3. H \in SUBSET (DOMAIN s.items \ {Root})
  OBVIOUS
<1>4. OneTree(s) => Closed(s, H)
  <2> SUFFICES ASSUME OneTree(s), NEW k \in DOMAIN s.items \ {Root}, s.items[k].parent \in H PROVE k \in H
    BY DEF Closed
  <2> DEFINE h == s.items[k].parent
  <2>1. h \in DOMAIN s.items /\ \A j \in Subtree(s, h) : Deletable(s, j)
    OBVIOUS
  <2> HIDE DEF h
  <2>2. Subtree(s, k) \subseteq Subtree(s, h)
    BY <1>2, <2>1, SubtreeClosed DEF h
  <2> QED
    BY <2>1, <2>2
<1> HIDE DEF H
<1>5. Good(Delete(s, H))
  BY <1>3, <1>4, DeleteGood
<1> QED
  BY <1>1, <1>5, HostChangesFacts

LEMMA HostMovesGood ==
    ASSUME Good(s), NEW h \in DOMAIN s.items, NEW parent \in DOMAIN s.items, HostMoves(h, parent)
    PROVE  Good(s')
<1> DEFINE H == Reached(s, h)
           p == s.items[h].path
           r == Child(s.items[parent].path, Last(p))
           t == RemoveWatches(s, H)
           done == Exists(s, p) /\ ~Exists(s, r) /\ CanRename(s, p, r)
           displaced == r \in DOMAIN s.paths
           v == Rename(t, p, r)
           w == AddWatches([ChangePath(v, h, r) EXCEPT !.items[h].parent = parent], H)
           F == {h, parent}
           x == LoseIf(w, displaced, "displaced")
           y == AddWatches(t, H)
<1>1. h # Root /\ HostChanges(F, IF done THEN x ELSE y)
  BY DEF HostMoves
<1>2. MapsTyped(s) /\ DiskGood(s) /\ Items(s) /\ (~Broken(s) => OneTree(s))
  BY DEF Good, MapsTyped
<1>3. p \in Seq(Names) \ {<<>>} /\ r \in Seq(Names) \ {<<>>} /\ Front(r) = s.items[parent].path
  <2>1. s.items[parent].path \in Seq(Names) /\ s.items[h].path \in Seq(Names) \ {<<>>}
    BY <1>1, <1>2, ItemPaths DEF Items
  <2>2. Last(p) \in Names
    BY <2>1, FrontFacts
  <2> QED
    BY <2>1, <2>2, ChildFacts
<1>4. H \in SUBSET DOMAIN s.items
  BY <1>2, ReachedItems
<1>5. OneTree(s) => Subtree(s, h) = {k \in DOMAIN s.items : Within(p, s.items[k].path)}
  BY <1>2, SubtreePaths
<1> HIDE DEF H, r, p
<1>6. /\ MapsTyped(t) /\ Unwatched(t, H) /\ SameDisk(s, t) /\ SameStore(s, t) /\ t.items = s.items /\ t.paths = s.paths
      /\ (OneTree(s) => OneTree(t)) /\ \A k : Subtree(t, k) = Subtree(s, k)
  BY <1>2, UnwatchedGood
<1> HIDE DEF t
<1>7. Broken(s) <=> Broken(t)
  BY <1>6 DEF Broken, SameStore
<1>8. Good(t)
  BY <1>2, <1>6, <1>7 DEF Good
<1>9. ASSUME done PROVE Good(x)
  <2>1. p \in DOMAIN t.disk
    BY <1>3, <1>6, <1>9 DEF Exists, SameDisk
  <2>2. CanRename(t, p, r)
    BY <1>6, <1>9 DEF CanRename, SameDisk, IsDir
  <2>3. DiskGood(v) /\ SameMaps(t, v)
    <3>1. DiskGood(t)
      BY <1>6 DEF MapsTyped
    <3> QED
      BY <1>3, <2>1, <2>2, <3>1, RenameFacts
  <2> HIDE DEF v
  <2>4. Good(v) /\ v.items = s.items /\ v.paths = s.paths /\ v.lost = s.lost
    BY <1>6, <1>8, <2>3, SameMapsGood DEF SameMaps, SameStore
  <2>5. Unwatched(v, H) /\ (OneTree(t) => OneTree(v))
    BY <1>6, <2>3, SameMapsFacts DEF MapsTyped
  <2>6. Subtree(v, h) = Subtree(s, h)
    BY <2>4, SubtreeSame
  <2>7. /\ MapsTyped(w) /\ w.lost = v.lost
        /\ (OneTree(v) /\ r \notin DOMAIN v.paths /\ parent \in DOMAIN v.items \ Subtree(v, h)
            /\ v.items[parent].path = Front(r)) => OneTree(w)
    <3>1. h \in DOMAIN v.items \ {Root} /\ H \in SUBSET DOMAIN v.items /\ MapsTyped(v)
      BY <1>1, <1>4, <2>4 DEF Good
    <3>2. Unwatched(v, H) /\ r \in Seq(Names) \ {<<>>}
      BY <1>3, <2>5
    <3> HIDE DEF x, y
    <3> DEFINE g == AddWatches([ChangePath(v, h, r) EXCEPT !.items[h].parent = parent], H)
    <3>3. /\ MapsTyped(g) /\ SameDisk(v, g) /\ g.lost = v.lost /\ DOMAIN g.items = DOMAIN v.items
          /\ (OneTree(v) /\ r \notin DOMAIN v.paths /\ parent \in DOMAIN v.items \ Subtree(v, h)
             /\ v.items[parent].path = Front(r)) => OneTree(g)
      BY <3>1, <3>2, MoveFacts
    <3>4. w = g
      OBVIOUS
    <3> HIDE DEF g, w
    <3> QED
      BY <3>3, <3>4
  <2> HIDE DEF w
  <2>8. SameButLost(w, x) /\ (displaced => "displaced" \in x.lost)
    <3>1. DOMAIN w = Fields
      BY <2>7 DEF MapsTyped, DiskGood
    <3> HIDE DEF displaced
    <3> QED
      BY <3>1, LoseIfFacts
  <2> HIDE DEF x
  <2>9. MapsTyped(x) /\ (OneTree(w) => OneTree(x)) /\ (Broken(w) => Broken(x))
    BY <2>7, <2>8, SameButLostFacts
  <2>10. ASSUME ~Broken(x) PROVE OneTree(x)
    <3>1. r \notin DOMAIN v.paths
      BY <2>4, <2>8, <2>10 DEF Broken
    <3>2. ~Broken(s)
      BY <2>4, <2>7, <2>9, <2>10 DEF Broken
    <3>3. parent \notin Subtree(s, h)
      <4>1. ~Below(p, r)
        BY <1>9 DEF CanRename
      <4>2. ~Within(p, s.items[parent].path)
        BY <1>3, <4>1, WithinFront
      <4> QED
        BY <1>2, <1>5, <3>2, <4>2
    <3> QED
      BY <1>2, <1>3, <1>6, <2>4, <2>5, <2>6, <2>7, <2>9, <3>1, <3>2, <3>3
  <2> QED
    BY <2>9, <2>10 DEF Good
<1>10. Good(y)
  <2>1. H \in SUBSET DOMAIN t.items
    BY <1>4, <1>6
  <2>2. MapsTyped(y) /\ SameStore(t, y) /\ (OneTree(t) => OneTree(y))
    BY <1>6, <2>1, WatchesGood
  <2> HIDE DEF y
  <2> QED
    BY <1>8, <2>2 DEF Good, Broken, SameStore
<1> HIDE DEF x, y, done, F
<1>11. CASE done
  BY <1>1, <1>9, <1>11, HostChangesFacts
<1>12. CASE ~done
  BY <1>1, <1>10, <1>12, HostChangesFacts
<1> QED
  BY <1>11, <1>12


\* Items with other paths
SetPaths(t, path) == [t EXCEPT !.items = [k \in DOMAIN t.items |-> [t.items[k] EXCEPT !.path = path[k]]]]

LEMMA PathsChangedFacts ==
    ASSUME NEW t, DiskGood(t), Items(t), NEW path, DOMAIN t.items \subseteq DOMAIN path, path[Root] = <<>>,
           \A k \in DOMAIN t.items \ {Root} : path[k] \in Seq(Names) \ {<<>>}
    PROVE  LET u == SetPaths(t, path) IN
           /\ DiskGood(u) /\ Items(u) /\ SameDisk(t, u) /\ SameStore(t, u) /\ u.paths = t.paths /\ u.wds = t.wds
           /\ u.handle = t.handle /\ DOMAIN u.items = DOMAIN t.items
           /\ \A k \in DOMAIN t.items :
                  /\ DOMAIN u.items[k] = ItemFields /\ u.items[k].path = path[k]
                  /\ u.items[k].parent = t.items[k].parent /\ u.items[k].wd = t.items[k].wd
                  /\ u.items[k].dir = t.items[k].dir /\ u.items[k].puoid = t.items[k].puoid
           /\ (WatchesLead(t) => WatchesLead(u))
<1> DEFINE items == [k \in DOMAIN t.items |-> [t.items[k] EXCEPT !.path = path[k]]]
           u == [t EXCEPT !.items = items]
<1>1. DOMAIN t = Fields
  BY DEF DiskGood
<1>2. DOMAIN items = DOMAIN t.items
  OBVIOUS
<1>3. ASSUME NEW k \in DOMAIN t.items
      PROVE  /\ DOMAIN items[k] = ItemFields /\ items[k].path = path[k]
             /\ items[k].parent = t.items[k].parent /\ items[k].wd = t.items[k].wd
             /\ items[k].dir = t.items[k].dir /\ items[k].puoid = t.items[k].puoid
  <2>1. DOMAIN t.items[k] = ItemFields
    BY DEF Items
  <2>2. items[k] = [t.items[k] EXCEPT !.path = path[k]]
    OBVIOUS
  <2> HIDE DEF items
  <2> QED
    BY <2>1, <2>2 DEF ItemFields
<1> HIDE DEF items
<1>4. /\ DOMAIN u = Fields /\ SameDisk(t, u) /\ SameStore(t, u) /\ u.paths = t.paths /\ u.wds = t.wds
      /\ u.handle = t.handle /\ u.watch = t.watch /\ u.wd = t.wd /\ u.items = items
  BY <1>1 DEF Fields, SameDisk, SameStore
<1> HIDE DEF u
<1>5. DiskGood(u)
  BY <1>4, DiskKept DEF DiskGood, Notifications
<1>6. Items(u)
  BY <1>2, <1>3, <1>4 DEF Items
<1>7. WatchesLead(t) => WatchesLead(u)
  BY <1>2, <1>3, <1>4 DEF WatchesLead, SameStore
<1>8. /\ DiskGood(u) /\ Items(u) /\ SameDisk(t, u) /\ SameStore(t, u) /\ u.paths = t.paths /\ u.wds = t.wds
      /\ u.handle = t.handle /\ DOMAIN u.items = DOMAIN t.items
      /\ \A k \in DOMAIN t.items :
             /\ DOMAIN u.items[k] = ItemFields /\ u.items[k].path = path[k]
             /\ u.items[k].parent = t.items[k].parent /\ u.items[k].wd = t.items[k].wd
             /\ u.items[k].dir = t.items[k].dir /\ u.items[k].puoid = t.items[k].puoid
      /\ (WatchesLead(t) => WatchesLead(u))
  BY <1>2, <1>3, <1>4, <1>5, <1>6, <1>7
<1> QED
  BY <1>8 DEF u, items, SetPaths

LEMMA HostRenamesGood ==
    ASSUME Good(s), NEW h \in DOMAIN s.items, NEW n \in Names, HostRenames(h, n)
    PROVE  Good(s')
<1> DEFINE H == Subtree(s, h)
           p == s.items[h].path
           r == Child(Front(p), n)
           on == Rename(s, p, r)
           cp == ChangePath(on, h, r)
           self == [cp EXCEPT !.puoids = Put(Without(cp.puoids, {p}), r, s.items[h].puoid)]
           early == [self EXCEPT !.items = [k \in DOMAIN self.items |->
                        [self.items[k] EXCEPT !.path = IF k \in H \ {h} THEN s.items[k].path ELSE self.items[k].path]]]
           R == Reached(s, h)
           bare == RemoveWatches(early, R)
           late == AddWatches(bare, R)
           t == [late EXCEPT !.items = [k \in DOMAIN late.items |-> [late.items[k] EXCEPT !.path = self.items[k].path]]]
           F == {h}
<1>1. /\ h # Root /\ r \notin DOMAIN s.paths /\ Exists(s, p) /\ CanRename(s, p, r)
      /\ HostChanges(F, t)
  BY DEF HostRenames
<1>2. MapsTyped(s) /\ DiskGood(s) /\ Items(s) /\ PathsLead(s) /\ WatchesLead(s) /\ (~Broken(s) => OneTree(s))
  BY DEF Good, MapsTyped
<1>3. p \in Seq(Names) \ {<<>>} /\ r \in Seq(Names) \ {<<>>} /\ Front(r) = Front(p)
  <2>1. s.items[h].path \in Seq(Names) \ {<<>>}
    BY <1>1, <1>2 DEF Items
  <2>2. Front(p) \in Seq(Names)
    BY <2>1, FrontFacts
  <2> QED
    BY <2>1, <2>2, ChildFacts
<1>4. H \in SUBSET DOMAIN s.items /\ Root \notin H
  BY <1>1, <1>2, SubtreeItems
<1>5. OneTree(s) => s.items[h].parent \in DOMAIN s.items \ H /\ s.items[s.items[h].parent].path = Front(r)
  <2> SUFFICES ASSUME OneTree(s) PROVE s.items[h].parent \in DOMAIN s.items \ H /\ s.items[s.items[h].parent].path = Front(r)
    OBVIOUS
  <2>1. s.items[h].parent \in DOMAIN s.items /\ s.items[s.items[h].parent].path = Front(p)
    BY <1>1 DEF OneTree
  <2>2. ~Within(p, Front(p))
    <3>1. ~Below(p, p)
      BY <1>3, WithinIs
    <3> QED
      BY <1>3, <3>1, WithinFront
  <2> HIDE DEF r
  <2> QED
    BY <1>2, <1>3, <2>1, <2>2, SubtreePaths
<1>50. R \in SUBSET DOMAIN s.items
  BY <1>2, ReachedItems
<1> HIDE DEF H, R, r
<1>6. DiskGood(on) /\ SameMaps(s, on)
  <2>1. p \in DOMAIN s.disk
    BY <1>1, <1>3 DEF Exists
  <2> HIDE DEF p
  <2> QED
    BY <1>1, <1>2, <1>3, <2>1, RenameFacts
<1> HIDE DEF on
<1>7. /\ Good(on) /\ Items(on) /\ PathsLead(on) /\ WatchesLead(on) /\ (OneTree(s) => OneTree(on))
      /\ on.items = s.items /\ on.paths = s.paths /\ on.lost = s.lost
  BY <1>2, <1>6, SameMapsGood, SameMapsFacts DEF SameMaps
<1>8. Subtree(on, h) = H
  BY <1>7, SubtreeSame DEF H
<1>9. /\ DiskGood(cp) /\ SameDisk(on, cp) /\ SameStore(on, cp) /\ cp.wds = on.wds
      /\ Moved(on, cp, h, r) /\ cp.items[h].parent = on.items[h].parent
  <2>1. h \in DOMAIN on.items \ {Root}
    BY <1>1, <1>7
  <2> QED
    BY <1>6, <1>7, <2>1, ChangePathFacts
<1> HIDE DEF cp
<1>10. Items(cp) /\ PathsLead(cp) /\ WatchesLead(cp) /\ (OneTree(s) => OneTree(cp))
  <2>1. h \in DOMAIN on.items \ {Root}
    BY <1>1, <1>7
  <2>2. Items(cp) /\ PathsLead(cp) /\ WatchesLead(cp)
    BY <1>3, <1>7, <1>9, <2>1, MovedFacts
  <2>3. OneTree(s) => OneTree(cp)
    <3> SUFFICES ASSUME OneTree(s) PROVE OneTree(cp)
      OBVIOUS
    <3>1. cp.items[h].parent \in DOMAIN on.items \ Subtree(on, h) /\ on.items[cp.items[h].parent].path = Front(r)
      BY <1>5, <1>7, <1>8, <1>9
    <3>2. r \notin DOMAIN on.paths
      BY <1>1, <1>7
    <3> QED
      BY <1>3, <1>7, <1>9, <2>1, <3>1, <3>2, MovedTree
  <2> QED
    BY <2>2, <2>3
<1>11. DOMAIN cp = Fields /\ DOMAIN cp.items = DOMAIN s.items
  BY <1>7, <1>9 DEF DiskGood, Moved
<1>12. /\ DOMAIN self = Fields /\ SameDisk(cp, self) /\ self.refs = cp.refs /\ self.lost = cp.lost
       /\ self.items = cp.items /\ self.paths = cp.paths /\ self.wds = cp.wds /\ self.watch = cp.watch
       /\ self.wd = cp.wd /\ self.handle = cp.handle
  <2> DEFINE puoids == Put(Without(cp.puoids, {p}), r, s.items[h].puoid)
  <2>1. self = [cp EXCEPT !.puoids = puoids]
    OBVIOUS
  <2> HIDE DEF puoids, self
  <2> QED
    BY <1>11, <2>1 DEF Fields, SameDisk
<1> HIDE DEF self, p
<1>13. DiskGood(self) /\ Items(self) /\ PathsLead(self) /\ WatchesLead(self) /\ (OneTree(s) => OneTree(self))
  <2>1. SameTree(cp, self)
    BY <1>10, <1>12 DEF SameTree, Items
  <2>2. DiskGood(self)
    BY <1>9, <1>12, DiskKept DEF DiskGood, Notifications
  <2>3. WatchesLead(self)
    BY <1>10, <1>12 DEF WatchesLead
  <2> QED
    BY <1>10, <2>1, <2>2, <2>3, SameTreeFacts
<1> DEFINE D == DOMAIN self.items
           old == [k \in D |-> IF k \in H \ {h} THEN s.items[k].path ELSE self.items[k].path]
           new == [k \in D |-> self.items[k].path]
<1>14. early = [self EXCEPT !.items = [k \in D |-> [self.items[k] EXCEPT !.path = old[k]]]]
  <2>1. \A k \in D : (IF k \in H \ {h} THEN s.items[k].path ELSE self.items[k].path) = old[k]
    OBVIOUS
  <2> HIDE DEF old
  <2> QED
    BY <2>1
<1>15. D = DOMAIN s.items /\ h \in H
  BY <1>2, <1>11, <1>12, SubtreeItems DEF H
<1>16. /\ D \subseteq DOMAIN old /\ old[Root] = <<>> /\ \A k \in D \ {Root} : old[k] \in Seq(Names) \ {<<>>}
  BY <1>2, <1>4, <1>13, <1>15 DEF Items
<1>17. /\ D \subseteq DOMAIN new /\ new[Root] = <<>> /\ \A k \in D \ {Root} : new[k] \in Seq(Names) \ {<<>>}
       /\ \A k \in D : new[k] = self.items[k].path
  BY <1>13 DEF Items
<1> HIDE DEF early, old, new
<1>18. /\ DiskGood(early) /\ Items(early) /\ SameDisk(self, early) /\ SameStore(self, early) /\ early.paths = self.paths
       /\ early.handle = self.handle /\ DOMAIN early.items = D
       /\ \A k \in D : /\ early.items[k].parent = self.items[k].parent
                       /\ early.items[k].dir = self.items[k].dir /\ early.items[k].puoid = self.items[k].puoid
       /\ WatchesLead(early)
  <2> DEFINE g == SetPaths(self, old)
  <2>1. /\ DiskGood(g) /\ Items(g) /\ SameDisk(self, g) /\ SameStore(self, g) /\ g.paths = self.paths /\ g.wds = self.wds
        /\ g.handle = self.handle /\ DOMAIN g.items = DOMAIN self.items
        /\ \A k \in DOMAIN self.items :
               /\ DOMAIN g.items[k] = ItemFields /\ g.items[k].path = old[k]
               /\ g.items[k].parent = self.items[k].parent /\ g.items[k].wd = self.items[k].wd
               /\ g.items[k].dir = self.items[k].dir /\ g.items[k].puoid = self.items[k].puoid
        /\ (WatchesLead(self) => WatchesLead(g))
    BY <1>13, <1>16, PathsChangedFacts
  <2>2. early = g
    BY <1>14 DEF SetPaths
  <2> HIDE DEF g
  <2> QED
    BY <1>13, <2>1, <2>2
<1> HIDE DEF D
<1>19. /\ DiskGood(bare) /\ SameDisk(early, bare) /\ SameStore(early, bare) /\ SameTree(early, bare)
       /\ WatchesLead(bare) /\ Unwatched(bare, R)
  BY <1>18, RemoveWatchesFacts
<1> HIDE DEF bare
<1>20. Items(bare)
  BY <1>18, <1>19, SameTreeFacts
<1>21. /\ DiskGood(late) /\ SameDisk(bare, late) /\ SameStore(bare, late) /\ SameTree(bare, late) /\ WatchesLead(late)
  <2>1. R \in SUBSET DOMAIN bare.items
    BY <1>50, <1>15, <1>18, <1>19 DEF SameTree
  <2> QED
    BY <1>19, <1>20, <2>1, AddWatchesFacts
<1> HIDE DEF late
<1>22. Items(late) /\ DOMAIN late.items = D
  BY <1>18, <1>19, <1>20, <1>21, SameTreeFacts DEF SameTree
<1>23. t = [late EXCEPT !.items = [k \in DOMAIN late.items |-> [late.items[k] EXCEPT !.path = new[k]]]]
  <2>1. \A k \in DOMAIN late.items : new[k] = self.items[k].path
    BY <1>17, <1>22
  <2> QED
    BY <2>1
<1> HIDE DEF t
<1>24. /\ DiskGood(t) /\ Items(t) /\ SameStore(late, t) /\ t.paths = late.paths
       /\ t.handle = late.handle /\ DOMAIN t.items = DOMAIN late.items
       /\ \A k \in DOMAIN late.items :
                  /\ DOMAIN t.items[k] = ItemFields /\ t.items[k].path = new[k]
                  /\ t.items[k].parent = late.items[k].parent
                  /\ t.items[k].dir = late.items[k].dir /\ t.items[k].puoid = late.items[k].puoid
       /\ WatchesLead(t)
  <2> DEFINE g == SetPaths(late, new)
  <2>1. DOMAIN late.items \subseteq DOMAIN new /\ \A k \in DOMAIN late.items \ {Root} : new[k] \in Seq(Names) \ {<<>>}
    BY <1>17, <1>22
  <2>2. /\ DiskGood(g) /\ Items(g) /\ SameDisk(late, g) /\ SameStore(late, g) /\ g.paths = late.paths /\ g.wds = late.wds
        /\ g.handle = late.handle /\ DOMAIN g.items = DOMAIN late.items
        /\ \A k \in DOMAIN late.items :
               /\ DOMAIN g.items[k] = ItemFields /\ g.items[k].path = new[k]
               /\ g.items[k].parent = late.items[k].parent /\ g.items[k].wd = late.items[k].wd
               /\ g.items[k].dir = late.items[k].dir /\ g.items[k].puoid = late.items[k].puoid
        /\ (WatchesLead(late) => WatchesLead(g))
    BY <1>17, <1>21, <1>22, <2>1, PathsChangedFacts
  <2>3. t = g
    BY <1>23 DEF SetPaths
  <2> HIDE DEF g
  <2> QED
    BY <1>21, <2>2, <2>3
<1>25. SameTree(self, t)
  <2>1. DOMAIN early.items = DOMAIN self.items
    BY <1>18 DEF D
  <2>2. t.paths = self.paths /\ t.handle = self.handle /\ DOMAIN t.items = DOMAIN self.items
    BY <1>18, <1>19, <1>21, <1>24, <2>1 DEF SameTree
  <2>3. ASSUME NEW k \in DOMAIN self.items
        PROVE  /\ DOMAIN t.items[k] = ItemFields
               /\ t.items[k].path = self.items[k].path /\ t.items[k].parent = self.items[k].parent
               /\ t.items[k].dir = self.items[k].dir /\ t.items[k].puoid = self.items[k].puoid
    <3>1. k \in D /\ k \in DOMAIN early.items /\ k \in DOMAIN bare.items /\ k \in DOMAIN late.items
      BY <1>19, <1>22, <2>1 DEF SameTree, D
    <3>2. bare.items[k].parent = early.items[k].parent /\ bare.items[k].dir = early.items[k].dir
          /\ bare.items[k].puoid = early.items[k].puoid
      BY <1>19, <3>1 DEF SameTree
    <3>3. late.items[k].parent = bare.items[k].parent /\ late.items[k].dir = bare.items[k].dir
          /\ late.items[k].puoid = bare.items[k].puoid
      BY <1>21, <3>1 DEF SameTree
    <3> QED
      BY <1>17, <1>18, <1>24, <3>1, <3>2, <3>3
  <2> QED
    BY <2>2, <2>3 DEF SameTree
<1>26. PathsLead(t) /\ (OneTree(s) => OneTree(t))
  BY <1>13, <1>25, SameTreeFacts
<1>27. t.lost = s.lost
  BY <1>7, <1>9, <1>12, <1>18, <1>19, <1>21, <1>24 DEF SameStore
<1>28. Good(t)
  BY <1>2, <1>24, <1>26, <1>27 DEF Good, MapsTyped, Broken
<1> HIDE DEF F
<1> QED
  BY <1>1, <1>28, HostChangesFacts

LEMMA CopiedFacts ==
    ASSUME NEW t, Good(t), NEW C \in SUBSET DOMAIN t.items, NEW h \in DOMAIN t.items, NEW r \in Seq(Names) \ {<<>>},
           OneTree(t) => Front(r) \in DOMAIN t.paths
    PROVE  LET u == Copied(t, C, h, r) IN
           /\ Good(u) /\ DOMAIN t.items \subseteq DOMAIN u.items
           /\ \A H \in SUBSET DOMAIN t.items : Unwatched(t, H) => Unwatched(u, H)
<1> DEFINE new(k) == Rebase(t.items[k].path, t.items[h].path, r)
           P == {new(k) : k \in C}
           D == {new(k) : k \in {j \in C : t.items[j].dir}}
           made == Make(t, P, D)
           v == Discover(made, r)
           u == Copied(t, C, h, r)
<1>1. u = IF C = {} THEN t ELSE v
  BY DEF Copied
<1>2. MapsTyped(t) /\ Items(t)
  BY DEF Good, MapsTyped
<1>3. P \in SUBSET (Seq(Names) \ {<<>>})
  <2> SUFFICES ASSUME NEW k \in C PROVE new(k) \in Seq(Names) \ {<<>>}
    OBVIOUS
  <2>1. t.items[k].path \in Seq(Names) /\ t.items[h].path \in Seq(Names)
    BY <1>2, ItemPaths
  <2> QED
    BY <2>1, RebaseFacts
<1>4. IsFiniteSet(P)
  <2> DEFINE f == [k \in C |-> new(k)]
  <2>1. IsFiniteSet(C)
    BY <1>2, ItemPaths, FS_Subset
  <2>2. DOMAIN f = C
    OBVIOUS
  <2>3. P = {f[k] : k \in DOMAIN f}
    BY <2>2
  <2> HIDE DEF f, P
  <2> QED
    BY <2>1, <2>2, <2>3, ImageFinite
<1> HIDE DEF P, D
<1>5. Good(made) /\ SameMaps(t, made)
  BY <1>3, <1>4, MakeGood
<1> HIDE DEF made
<1>6. made.items = t.items /\ made.wds = t.wds /\ made.paths = t.paths /\ made.lost = t.lost
  BY <1>5 DEF SameMaps
<1>7. OneTree(made) => Front(r) \in DOMAIN made.paths
  BY <1>6 DEF OneTree
<1>8. Good(v)
  BY <1>5, <1>7, DiscoverGood
<1>9. /\ DOMAIN made.items \subseteq DOMAIN v.items /\ \A k \in DOMAIN made.items : v.items[k].dir = made.items[k].dir
      /\ \A w \in DOMAIN v.wds : v.wds[w] \notin DOMAIN made.items \/ (w \in DOMAIN made.wds /\ v.wds[w] = made.wds[w])
  BY <1>5, DiscoverFacts DEF Good
<1> HIDE DEF v, u
<1>10. \A H \in SUBSET DOMAIN t.items : Unwatched(t, H) => Unwatched(v, H)
  BY <1>6, <1>9 DEF Unwatched
<1> QED
  BY <1>1, <1>6, <1>8, <1>9, <1>10 DEF u

LEMMA HostCopiesGood ==
    ASSUME Good(s), NEW h \in DOMAIN s.items, NEW parent \in DOMAIN s.items, HostCopies(h, parent)
    PROVE  Good(s')
<1> DEFINE H == Reached(s, h)
           p == s.items[h].path
           r == Child(s.items[parent].path, Last(p))
           P == {parent}
           t == RemoveWatches(s, P)
           all == Copied(t, H, h, r)
           on == AddWatches(all, P)
<1>1. /\ h # Root
      /\ \/ HostChanges(P, on)
         \/ \E k \in H, C \in SUBSET H : CopyFails(t, H, h, r, k, C)
  <2>1. h # Root
    BY DEF HostCopies
  <2>2. HostChanges(P, on) \/ \E k \in {j \in H : ~s.items[j].dir}, C \in SUBSET H : CopyFails(t, H, h, r, k, C)
    <3> HIDE DEF H
    <3> QED
      BY DEF HostCopies, H
  <2> HIDE DEF H, t, on, P, r
  <2> QED
    BY <2>1, <2>2
<1>2. MapsTyped(s) /\ Items(s)
  BY DEF Good, MapsTyped
<1>3. r \in Seq(Names) \ {<<>>} /\ Front(r) = s.items[parent].path
  <2>1. s.items[parent].path \in Seq(Names) /\ s.items[h].path \in Seq(Names) \ {<<>>}
    BY <1>1, <1>2, ItemPaths DEF Items
  <2>2. Last(p) \in Names
    BY <2>1, FrontFacts
  <2> QED
    BY <2>1, <2>2, ChildFacts
<1>4. H \in SUBSET DOMAIN s.items
  BY <1>2, ReachedItems
<1> HIDE DEF H, r
<1>5. /\ MapsTyped(t) /\ Unwatched(t, P) /\ SameStore(s, t) /\ t.items = s.items /\ t.paths = s.paths
      /\ (OneTree(s) => OneTree(t))
  BY <1>2, UnwatchedGood
<1>6. P \in SUBSET DOMAIN s.items
  OBVIOUS
<1> HIDE DEF t, P
<1>7. Good(t)
  BY <1>5 DEF Good, Broken, SameStore
<1>8. OneTree(t) => Front(r) \in DOMAIN t.paths
  BY <1>3, <1>5 DEF OneTree
<1>9. ASSUME NEW C \in SUBSET H
      PROVE  /\ Good(Copied(t, C, h, r)) /\ DOMAIN t.items \subseteq DOMAIN Copied(t, C, h, r).items
             /\ Unwatched(Copied(t, C, h, r), P)
  <2>1. C \in SUBSET DOMAIN t.items /\ h \in DOMAIN t.items /\ P \in SUBSET DOMAIN t.items
    BY <1>4, <1>5, <1>6
  <2> QED
    BY <1>3, <1>5, <1>7, <1>8, <2>1, CopiedFacts
<1>10. CASE HostChanges(P, on)
  <2>1. Good(all) /\ DOMAIN t.items \subseteq DOMAIN all.items /\ Unwatched(all, P)
    BY <1>9
  <2> HIDE DEF all
  <2>2. MapsTyped(on) /\ SameStore(all, on) /\ (OneTree(all) => OneTree(on))
    <3>1. P \in SUBSET DOMAIN all.items
      BY <1>5, <1>6, <2>1
    <3>2. MapsTyped(all)
      BY <2>1 DEF Good
    <3> QED
      BY <2>1, <3>1, <3>2, WatchesGood
  <2> HIDE DEF on
  <2>3. Good(on)
    BY <2>1, <2>2 DEF Good, Broken, SameStore
  <2> QED
    BY <1>10, <2>3, HostChangesFacts
<1>11. ASSUME NEW k \in H, NEW C \in SUBSET H, CopyFails(t, H, h, r, k, C) PROVE Good(s')
  <2> DEFINE path(j) == t.items[j].path
             inProgress == {j \in H : t.items[j].dir /\ Within(path(j), path(k))}
             copies == {Rebase(path(j), path(h), r) : j \in inProgress}
             u == Copied(t, C, h, r)
             X == {u.paths[q] : q \in copies \cap DOMAIN u.paths}
             v == RemoveWatches(u, X)
             c == TRUE
             w == LoseIf(v, c, "copy")
  <2>1. HostChanges({}, Lose(v, "copy"))
    BY <1>11 DEF CopyFails
  <2>2. w = Lose(v, "copy")
    BY DEF LoseIf
  <2>3. Good(u)
    BY <1>9
  <2> HIDE DEF u, X, c
  <2>4. MapsTyped(v) /\ SameStore(u, v) /\ (OneTree(u) => OneTree(v))
    <3>1. MapsTyped(u)
      BY <2>3 DEF Good
    <3> QED
      BY <3>1, UnwatchedGood
  <2> HIDE DEF v
  <2>5. Good(v)
    BY <2>3, <2>4 DEF Good, Broken, SameStore
  <2>6. Good(w)
    BY <2>5, LoseIfGood
  <2> QED
    BY <2>1, <2>2, <2>6, HostChangesFacts
<1> QED
  BY <1>1, <1>10, <1>11

LEMMA ReferencesGood ==
    ASSUME NEW t, NEW u, Good(t), DOMAIN u = Fields, u.watch = t.watch, u.wd = t.wd, u.wds = t.wds,
           SameDisk(t, u), u.items = t.items, u.paths = t.paths, u.handle = t.handle, u.lost = t.lost
    PROVE  Good(u)
<1>1. DiskGood(t) /\ Items(t) /\ PathsLead(t) /\ WatchesLead(t)
  BY DEF Good, MapsTyped
<1>2. DiskGood(u)
  BY <1>1, DiskKept DEF DiskGood, Notifications
<1>3. Items(u) /\ PathsLead(u) /\ WatchesLead(u) /\ (OneTree(t) => OneTree(u))
  BY <1>1 DEF Items, PathsLead, WatchesLead, OneTree
<1> QED
  BY <1>2, <1>3 DEF Good, MapsTyped, Broken

LEMMA HostReferencesGood ==
    ASSUME Good(s), NEW h, (\E R : HostSetsReferences(h, R)) \/ HostGetsReferences(h)
    PROVE  Good(s')
<1>1. DOMAIN s = Fields
  BY DEF Good, MapsTyped, DiskGood
<1>2. ASSUME NEW R, HostSetsReferences(h, R) PROVE Good(s')
  <2> DEFINE refs == Put(s.refs, h, R)
             u == [s EXCEPT !.refs = refs]
  <2>1. HostChanges({}, u)
    BY <1>2 DEF HostSetsReferences, SetReferences
  <2> HIDE DEF refs
  <2>2. /\ DOMAIN u = Fields /\ u.watch = s.watch /\ u.wd = s.wd /\ u.wds = s.wds /\ SameDisk(s, u)
        /\ u.items = s.items /\ u.paths = s.paths /\ u.handle = s.handle /\ u.lost = s.lost
    BY <1>1 DEF Fields, SameDisk
  <2> HIDE DEF u
  <2>3. Good(u)
    BY <2>2, ReferencesGood
  <2> QED
    BY <2>1, <2>3, HostChangesFacts
<1>3. CASE HostGetsReferences(h)
  <2> DEFINE u == GetReferences(s, h)
  <2>1. s' = u
    BY <1>3 DEF HostGetsReferences
  <2>2. /\ DOMAIN u = Fields /\ u.watch = s.watch /\ u.wd = s.wd /\ u.wds = s.wds /\ SameDisk(s, u)
        /\ u.items = s.items /\ u.paths = s.paths /\ u.handle = s.handle /\ u.lost = s.lost
    BY <1>1 DEF GetReferences, Fields, SameDisk
  <2> HIDE DEF u
  <2> QED
    BY <2>1, <2>2, ReferencesGood
<1> QED
  BY <1>2, <1>3

-----------------------------------------------------------------------------
(* The user of the device, and restarts. *)

LEMMA UserFacts ==
    ASSUME DiskGood(s), User
    PROVE  /\ DiskGood(s') /\ SameMaps(s, s') /\ Descends(s, s')
           /\ cached' = cached /\ up' = up /\ saved' = saved /\ before' = before
<1>0. \A p \in NewPaths : p \in Seq(Names) \ {<<>>}
  <2> SUFFICES ASSUME NEW p \in NewPaths PROVE p \in Seq(Names) \ {<<>>}
    OBVIOUS
  <2>1. PICK n \in 1 .. MaxDepth : p \in [1 .. n -> Names]
    BY TreeAssumption DEF NewPaths
  <2>2. MaxDepth \in Nat
    BY TreeAssumption
  <2>3. n \in Nat /\ n # 0
    BY <2>1, <2>2
  <2>4. p \in Seq(Names) /\ Len(p) = n
    BY <2>1, <2>3
  <2> QED
    BY <2>3, <2>4, NotEmpty
<1>1. \A p \in DOMAIN s.disk : p \in Seq(Names) \ {<<>>}
  BY DEF DiskGood, Entries
<1>2. ASSUME NEW t, UserChanges(t), DiskGood(t), SameMaps(s, t), Descends(s, t)
      PROVE  /\ DiskGood(s') /\ SameMaps(s, s') /\ Descends(s, s')
             /\ cached' = cached /\ up' = up /\ saved' = saved /\ before' = before
  BY <1>2 DEF UserChanges
<1>3. ASSUME NEW p \in NewPaths, NEW dir \in BOOLEAN, UserCreates(p, dir)
      PROVE  /\ DiskGood(s') /\ SameMaps(s, s') /\ Descends(s, s')
             /\ cached' = cached /\ up' = up /\ saved' = saved /\ before' = before
  <2> DEFINE D == IF dir THEN {p} ELSE {}
             t == Make(s, {p}, D)
  <2>1. UserChanges(t)
    BY <1>3 DEF UserCreates
  <2>2. {p} \in SUBSET (Seq(Names) \ {<<>>}) /\ IsFiniteSet({p})
    BY <1>0, FS_Singleton
  <2>3. DiskGood(t) /\ SameMaps(s, t) /\ Descends(s, t)
    BY <2>2, MakeFacts
  <2> HIDE DEF t
  <2> QED
    BY <1>2, <2>1, <2>3
<1>4. ASSUME NEW p \in DOMAIN s.disk, UserDeletes(p)
      PROVE  /\ DiskGood(s') /\ SameMaps(s, s') /\ Descends(s, s')
             /\ cached' = cached /\ up' = up /\ saved' = saved /\ before' = before
  <2> DEFINE P == {p}
             t == Unlink(s, P)
  <2>1. UserChanges(t)
    BY <1>4 DEF UserDeletes
  <2>2. /\ DiskGood(t) /\ SameMaps(s, t) /\ t.ino = s.ino /\ DOMAIN t.disk \subseteq DOMAIN s.disk
        /\ \A q \in DOMAIN t.disk : t.disk[q] = s.disk[q]
    BY UnlinkFacts
  <2> HIDE DEF t
  <2>3. Descends(s, t)
    BY <2>2 DEF Descends, DiskGood, Entries
  <2> QED
    BY <1>2, <2>1, <2>2, <2>3
<1>5. ASSUME NEW p \in DOMAIN s.disk, NEW r \in NewPaths, UserRenames(p, r)
      PROVE  /\ DiskGood(s') /\ SameMaps(s, s') /\ Descends(s, s')
             /\ cached' = cached /\ up' = up /\ saved' = saved /\ before' = before
  <2> DEFINE t == Rename(s, p, r)
  <2>1. UserChanges(t) /\ CanRename(s, p, r)
    BY <1>5 DEF UserRenames
  <2>2. DiskGood(t) /\ SameMaps(s, t) /\ Descends(s, t)
    BY <1>0, <2>1, RenameFacts
  <2> HIDE DEF t
  <2> QED
    BY <1>2, <2>1, <2>2
<1>6. ASSUME NEW p \in DOMAIN s.disk, UserMovesAway(p)
      PROVE  /\ DiskGood(s') /\ SameMaps(s, s') /\ Descends(s, s')
             /\ cached' = cached /\ up' = up /\ saved' = saved /\ before' = before
  <2> DEFINE on == NotifyOne(s, "from", p, s.cookie)
             t == DropWatches([on EXCEPT !.disk = Without(@, {q \in DOMAIN @ : Within(p, q)}), !.cookie = @ + 1])
  <2>1. UserChanges(t)
    BY <1>6 DEF UserMovesAway
  <2>2. DiskGood(t) /\ SameMaps(s, t) /\ Descends(s, t)
    BY LeaveFacts
  <2> HIDE DEF t
  <2> QED
    BY <1>2, <2>1, <2>2
<1> QED
  BY <1>3, <1>4, <1>5, <1>6 DEF User

\* There is no plugin.
Empty(t) == DOMAIN t.items = {} /\ DOMAIN t.paths = {} /\ DOMAIN t.wds = {} /\ t.handle = 0

LEMMA EndedFacts ==
    ASSUME NEW t, DiskGood(t)
    PROVE  DiskGood(Ended(t)) /\ Empty(Ended(t)) /\ Ended(t).disk = t.disk /\ Ended(t).ino = t.ino
<1> DEFINE u == Ended(t)
<1>1. DOMAIN t = Fields
  BY DEF DiskGood
<1>2. /\ DOMAIN u = Fields /\ u.disk = t.disk /\ u.ino = t.ino /\ u.cookie = t.cookie /\ u.queue = <<>> /\ u.watch = <<>>
      /\ u.wd = 1 /\ u.items = <<>> /\ u.paths = <<>> /\ u.wds = <<>> /\ u.handle = 0
  BY <1>1 DEF Ended, Fields
<1> HIDE DEF u
<1>3. Empty(u)
  BY <1>2 DEF Empty
<1>4. Entries(u)
  BY <1>2 DEF DiskGood, Entries, IsDir
<1>5. Notifications(u)
  <2>1. <<>> \in Seq(Events) /\ DOMAIN <<>> \subseteq Int /\ 1 \in Nat
    OBVIOUS
  <2> QED
    BY <1>2, <2>1 DEF DiskGood, Notifications
<1> QED
  BY <1>2, <1>3, <1>4, <1>5 DEF u, DiskGood

LEMMA InitFacts ==
    ASSUME NEW E \in Disks
    PROVE  LET u == [Nothing EXCEPT !.disk = DiskOf(E), !.ino = Cardinality(E) + 1] IN DiskGood(u) /\ Empty(u)
<1> DEFINE order == SetToSeq(E)
           N == Cardinality(E)
           of(p) == CHOOSE i \in DOMAIN order : order[i].path = p
           disk == [p \in {e.path : e \in E} |-> [ino |-> of(p), dir |-> order[of(p)].dir]]
           u == [Nothing EXCEPT !.disk = DiskOf(E), !.ino = Cardinality(E) + 1]
<1>1. /\ IsFiniteSet(E)
      /\ \A e \in E : e.path \in Seq(Names) \ {<<>>} /\ e.dir \in BOOLEAN
      /\ \A e \in E : Len(e.path) > 1 => \E f \in E : f.dir /\ f.path = Front(e.path)
      /\ \A e, f \in E : e.path = f.path => e = f
  <2>1. AreTree(E)
    BY DisksAssumption
  <2> QED
    BY <2>1 DEF AreTree
<1>2. /\ N \in Nat /\ DOMAIN order = 1 .. N /\ \A i \in 1 .. N : order[i] \in E
      /\ \A e \in E : \E i \in 1 .. N : order[i] = e
  <2>1. /\ N \in Nat /\ order \in [1 .. N -> E] /\ \A e \in E : \E i \in 1 .. N : order[i] = e
    BY <1>1, Enumerated1
  <2> HIDE DEF order, N
  <2> QED
    BY <2>1
<1>3. DiskOf(E) = disk
  BY DEF DiskOf
<1> HIDE DEF order, N
<1>4. ASSUME NEW e \in E PROVE of(e.path) \in 1 .. N /\ order[of(e.path)] = e
  <2>1. \E i \in DOMAIN order : order[i].path = e.path
    BY <1>2
  <2>2. of(e.path) \in DOMAIN order /\ order[of(e.path)].path = e.path
    BY <2>1
  <2> HIDE DEF of
  <2> QED
    BY <1>1, <1>2, <2>2
<1>5. /\ DOMAIN disk = {e.path : e \in E}
      /\ \A p \in DOMAIN disk : disk[p].ino = of(p) /\ disk[p].dir = order[of(p)].dir
  OBVIOUS
<1>6. \A p \in DOMAIN disk : \E e \in E : p = e.path
  BY <1>5
<1>7. \A e \in E : e.path \in DOMAIN disk
  BY <1>5
<1> HIDE DEF disk, of
<1>8. /\ DOMAIN u = Fields /\ u.disk = disk /\ u.ino = N + 1 /\ u.queue = <<>> /\ u.watch = <<>> /\ u.wd = 1 /\ u.cookie = 1
      /\ u.items = <<>> /\ u.paths = <<>> /\ u.wds = <<>> /\ u.handle = 0
  BY <1>3 DEF Nothing, Fields, N
<1> HIDE DEF u
<1>9. \A p \in DOMAIN u.disk : IsDir(u, Front(p))
  <2> SUFFICES ASSUME NEW p \in DOMAIN disk PROVE IsDir(u, Front(p))
    BY <1>8
  <2>1. PICK e \in E : p = e.path
    BY <1>6
  <2>2. p \in Seq(Names) /\ p # <<>> /\ Front(p) \in Seq(Names) /\ Len(Front(p)) = Len(p) - 1 /\ Len(p) \in Nat
    BY <1>1, <2>1, FrontFacts, LenProperties
  <2>3. CASE Front(p) = <<>>
    BY <2>3 DEF IsDir
  <2>4. CASE Front(p) # <<>>
    <3>1. Len(p) > 1
      BY <2>2, <2>4, NotEmpty
    <3>2. PICK f \in E : f.dir /\ f.path = Front(p)
      BY <1>1, <2>1, <3>1
    <3>3. Front(p) \in DOMAIN disk /\ disk[Front(p)].dir
      BY <1>4, <1>5, <1>7, <3>2
    <3> QED
      BY <1>8, <3>3 DEF IsDir
  <2> QED
    BY <2>3, <2>4
<1>10. ASSUME NEW p \in DOMAIN disk
       PROVE  p \in Seq(Names) \ {<<>>} /\ disk[p].ino \in 1 .. N /\ order[disk[p].ino].path = p
  <2>1. PICK e \in E : p = e.path
    BY <1>6
  <2> QED
    BY <1>1, <1>4, <1>5, <2>1
<1>11. \A p, q \in DOMAIN disk : disk[p].ino = disk[q].ino => p = q
  BY <1>10
<1>12. Entries(u)
  <2>1. DOMAIN disk \subseteq Seq(Names) \ {<<>>}
    BY <1>10
  <2>2. \A p \in DOMAIN disk : disk[p].ino \in Nat /\ 0 < disk[p].ino /\ disk[p].ino < N + 1
    <3> SUFFICES ASSUME NEW p \in DOMAIN disk PROVE disk[p].ino \in Nat /\ 0 < disk[p].ino /\ disk[p].ino < N + 1
      OBVIOUS
    <3>1. disk[p].ino \in 1 .. N
      BY <1>10
    <3> QED
      BY <1>2, <3>1
  <2>3. N + 1 \in Nat /\ 0 < N + 1
    BY <1>2
  <2> QED
    BY <1>8, <1>9, <1>11, <2>1, <2>2, <2>3 DEF Entries
<1>13. Notifications(u)
  <2>1. <<>> \in Seq(Events) /\ DOMAIN <<>> \subseteq Int /\ 1 \in Nat
    OBVIOUS
  <2> QED
    BY <1>8, <2>1 DEF Notifications
<1>14. Empty(u)
  BY <1>8 DEF Empty
<1> QED
  BY <1>8, <1>12, <1>13, <1>14 DEF DiskGood, u

LEMMA EnumeratedFacts ==
    ASSUME NEW t, DiskGood(t), Empty(t), NEW u, u = Enumerated(t)
    PROVE  /\ MapsTyped(u) /\ OneTree(u) /\ u.disk = t.disk
           /\ \A p \in DOMAIN t.disk :
                  /\ p \in DOMAIN u.paths /\ u.paths[p] \in DOMAIN u.items \ {Root} /\ u.items[u.paths[p]].path = p
                  /\ u.items[u.paths[p]].dir = IsDir(t, p)
                  /\ p \in DOMAIN saved.puoids => u.items[u.paths[p]].puoid = saved.puoids[p]
           /\ \E y : y.items = u.items /\ DOMAIN y = Fields /\ u = PopulateReferences(y)
<1> DEFINE v == [t EXCEPT !.puoid = saved.puoid, !.puoids = saved.puoids,
                          !.items = [h \in {Root} |-> RootItem], !.paths = [p \in {<<>>} |-> Root]]
           R == {Root}
           w == AddWatches(v, R)
           P == DOMAIN t.disk
           x == AddPaths(w, P)
           y == RemoveUnusedPuoids(x)
<1>1. u = PopulateReferences(y)
  <2>1. w.disk = t.disk => Enumerated(t) = PopulateReferences(RemoveUnusedPuoids(AddPaths(w, DOMAIN t.disk)))
    BY DEF Enumerated
  <2> QED
    BY <2>1 DEF Enumerated
<1>2. DOMAIN t = Fields
  BY DEF DiskGood
<1>3. /\ DOMAIN v = Fields /\ SameDisk(t, v) /\ v.watch = t.watch /\ v.wd = t.wd /\ v.wds = t.wds
      /\ v.items = [h \in {Root} |-> RootItem] /\ v.paths = [p \in {<<>>} |-> Root] /\ v.puoids = saved.puoids
      /\ v.handle = t.handle
  BY <1>2 DEF Fields, SameDisk
<1> HIDE DEF v
<1>4. /\ DOMAIN v.items = {Root} /\ v.items[Root].path = <<>> /\ DOMAIN v.items[Root] = ItemFields
      /\ DOMAIN v.paths = {<<>>} /\ v.paths[<<>>] = Root
  BY <1>3 DEF RootItem, ItemFields
<1>5. DiskGood(v)
  BY <1>3, DiskKept DEF DiskGood, Notifications
<1>6. Items(v) /\ PathsLead(v) /\ WatchesLead(v) /\ Unwatched(v, R) /\ OneTree(v)
  <2>1. v.handle = 0 /\ DOMAIN v.wds = {} /\ Root = 0
    BY <1>3 DEF Empty, Root
  <2>2. Items(v)
    BY <1>4, <2>1 DEF Items
  <2> QED
    BY <1>4, <2>1, <2>2 DEF PathsLead, WatchesLead, Unwatched, OneTree
<1>7. MapsTyped(w) /\ SameDisk(v, w) /\ SameStore(v, w) /\ SameTree(v, w) /\ OneTree(w)
  <2>1. R \in SUBSET DOMAIN v.items /\ MapsTyped(v)
    BY <1>4, <1>5, <1>6 DEF MapsTyped
  <2> QED
    BY <1>6, <2>1, WatchesGood
<1> HIDE DEF w
<1>8. P \in SUBSET (Seq(Names) \ {<<>>}) /\ IsFiniteSet(P) /\ \A p \in P : Front(p) \in P \cup {<<>>}
  BY DiskFinite DEF DiskGood, Entries, IsDir
<1>9. w.disk = t.disk /\ DOMAIN w.paths = {<<>>} /\ DOMAIN w.items = {Root} /\ w.puoids = saved.puoids
  BY <1>3, <1>4, <1>7 DEF SameDisk, SameTree, SameStore
<1> HIDE DEF P
<1>10. /\ DiskGood(x) /\ SameDisk(w, x) /\ Items(x) /\ Grows(w, x, P) /\ WatchesLead(x)
  BY <1>7, <1>8, AddPathsFacts DEF MapsTyped
<1> HIDE DEF x
<1>11. PathsLead(x) /\ OneTree(x)
  BY <1>7, <1>8, <1>9, <1>10, GrowsFacts DEF MapsTyped
<1>12. ASSUME NEW p \in P
       PROVE  /\ p \in DOMAIN x.paths /\ x.paths[p] \in DOMAIN x.items \ {Root} /\ x.items[x.paths[p]].path = p
              /\ x.items[x.paths[p]].dir = IsDir(t, p)
              /\ p \in DOMAIN saved.puoids => x.items[x.paths[p]].puoid = saved.puoids[p]
  <2> DEFINE k == x.paths[p]
  <2>1. p \in DOMAIN x.paths /\ k \in DOMAIN x.items \ {Root} /\ x.items[k].path = p
    BY <1>9, <1>10 DEF Grows
  <2>2. k \in DOMAIN x.items \ DOMAIN w.items
    BY <1>9, <2>1
  <2>3. x.items[k].dir = IsDir(w, p) /\ x.items[k].puoid = x.puoids[p]
    BY <1>10, <2>1, <2>2 DEF Grows
  <2>4. IsDir(w, p) = IsDir(t, p)
    BY <1>9 DEF IsDir
  <2>5. p \in DOMAIN saved.puoids => x.puoids[p] = saved.puoids[p]
    BY <1>9, <1>10 DEF Grows
  <2> QED
    BY <2>1, <2>3, <2>4, <2>5
<1>13. DOMAIN x = Fields
  BY <1>10 DEF DiskGood
<1>14. /\ DOMAIN y = Fields /\ SameDisk(x, y) /\ y.items = x.items /\ y.paths = x.paths /\ y.wds = x.wds /\ y.watch = x.watch
       /\ y.wd = x.wd /\ y.handle = x.handle /\ y.lost = x.lost
  BY <1>13 DEF RemoveUnusedPuoids, Fields, SameDisk
<1> HIDE DEF y
<1>15. /\ DOMAIN u = Fields /\ SameDisk(y, u) /\ u.items = y.items /\ u.paths = y.paths /\ u.wds = y.wds /\ u.watch = y.watch
       /\ u.wd = y.wd /\ u.handle = y.handle /\ u.lost = y.lost
  <2>1. \E R2 : PopulateReferences(y) = [y EXCEPT !.refs = R2]
    BY DEF PopulateReferences
  <2>2. PICK R2 : u = [y EXCEPT !.refs = R2]
    BY <1>1, <2>1
  <2> QED
    BY <1>14, <2>2 DEF Fields, SameDisk
<1>16. DiskGood(u)
  BY <1>10, <1>14, <1>15, DiskKept DEF DiskGood, Notifications, SameDisk
<1>17. Items(u) /\ PathsLead(u) /\ WatchesLead(u) /\ OneTree(u)
  BY <1>10, <1>11, <1>14, <1>15 DEF Items, PathsLead, WatchesLead, OneTree
<1>18. u.disk = t.disk
  BY <1>9, <1>10, <1>14, <1>15 DEF SameDisk
<1>19. \A p \in DOMAIN t.disk :
          /\ p \in DOMAIN u.paths /\ u.paths[p] \in DOMAIN u.items \ {Root} /\ u.items[u.paths[p]].path = p
          /\ u.items[u.paths[p]].dir = IsDir(t, p)
          /\ p \in DOMAIN saved.puoids => u.items[u.paths[p]].puoid = saved.puoids[p]
  BY <1>12, <1>14, <1>15 DEF P
<1> QED
  BY <1>1, <1>14, <1>15, <1>16, <1>17, <1>18, <1>19 DEF MapsTyped

-----------------------------------------------------------------------------
(* What a clean stop leaves for the next start. *)

\* What is stored leads back to what was there: the identifier of an object is found
\* by its path, the kind of its inode does not change, and what it referred to is stored
\* with its identifier alone.
BeforeKept ==
    \A b \in before :
        /\ ~IsWide(b.path) => b.path \in DOMAIN saved.puoids /\ saved.puoids[b.path] = b.puoid
        /\ b.ino \in Nat /\ b.ino < s.ino
        /\ \A p \in DOMAIN s.disk : s.disk[p].ino = b.ino => (s.disk[p].dir <=> b.dir)
        /\ b.refs # {} =>
               /\ ~b.dir
               /\ \E r \in saved.refs : /\ r.of = b.puoid /\ \A q \in saved.refs : q.of = b.puoid => q = r
                                        /\ \A c \in before : c.ino \in b.refs <=> ~c.dir /\ c.puoid \in r.to

LEMMA StoredPuoidsFacts ==
    ASSUME NEW t, NEW p \in DOMAIN t.puoids, ~IsWide(p)
    PROVE  p \in DOMAIN StoredPuoids(t) /\ StoredPuoids(t)[p] = t.puoids[p]
<1> DEFINE there == {q \in DOMAIN t.puoids : IsWide(q) => q \in DOMAIN Cut}
           back(q) == IF IsWide(q) THEN Cut[q] ELSE q
           f == [q \in {back(o) : o \in there} |-> t.puoids[CHOOSE o \in there : back(o) = q]]
<1>1. StoredPuoids(t) = f
  BY DEF StoredPuoids
<1>2. p \in there /\ back(p) = p
  OBVIOUS
<1>3. ASSUME NEW q \in there, back(q) = p PROVE q = p
  <2>1. CASE IsWide(q)
    <3>1. q \in DOMAIN Cut /\ p = Cut[q]
      BY <1>3, <2>1
    <3>2. IsWide(p)
      BY <3>1, CutAssumption
    <3> QED
      BY <3>2
  <2>2. CASE ~IsWide(q)
    BY <1>3, <2>2
  <2> QED
    BY <2>1, <2>2
<1> HIDE DEF there, back
<1>4. (CHOOSE o \in there : back(o) = p) = p
  BY <1>2, <1>3
<1>5. p \in {back(o) : o \in there}
  BY <1>2
<1> QED
  BY <1>1, <1>4, <1>5

LEMMA StopFacts ==
    ASSUME MapsTyped(s), NEW clean, Stop(clean)
    PROVE  BeforeKept'
<1> DEFINE refs(h) == IF h \in DOMAIN s.refs /\ ~s.items[h].dir
                      THEN {InodeOf(s, k) : k \in {j \in s.refs[h] \cap Placed(s) : ~s.items[j].dir}}
                      ELSE {}
           snap(h) == [path |-> s.items[h].path, ino |-> InodeOf(s, h), dir |-> s.items[h].dir,
                       puoid |-> s.items[h].puoid, refs |-> refs(h)]
           to(h) == {s.items[k].puoid : k \in s.refs[h] \cap DOMAIN s.items}
           stored(h) == [of |-> s.items[h].puoid, to |-> to(h)]
           H == DOMAIN s.refs \cap DOMAIN s.items
<1>1. CASE ~clean
  <2>1. before' = {}
    BY <1>1 DEF Stop
  <2> QED
    BY <2>1 DEF BeforeKept
<1>2. CASE clean
  <2>1. saved' = Stored(s) /\ before' = Snapshot(s) /\ s' = Ended(s)
    BY <1>2 DEF Stop
  <2>2. saved'.puoids = StoredPuoids(s) /\ saved'.refs = {stored(h) : h \in H}
    BY <2>1 DEF Stored
  <2>3. before' = {snap(h) : h \in Placed(s)}
    BY <2>1 DEF Snapshot
  <2>4. DiskGood(s) /\ Items(s) /\ PathsLead(s)
    BY DEF MapsTyped
  <2>5. s'.disk = s.disk /\ s'.ino = s.ino
    BY <2>1, <2>4, EndedFacts
  <2>6. ASSUME NEW h \in Placed(s)
        PROVE  /\ h \in DOMAIN s.items /\ h # Root
               /\ s.items[h].path \in DOMAIN s.disk /\ InodeOf(s, h) = s.disk[s.items[h].path].ino
               /\ (s.items[h].dir <=> s.disk[s.items[h].path].dir)
               /\ s.items[h].path \in DOMAIN s.puoids /\ s.puoids[s.items[h].path] = s.items[h].puoid
               /\ s.paths[s.items[h].path] = h
               /\ \A k \in DOMAIN s.items : s.items[k].puoid = s.items[h].puoid => k = h
    <3>1. /\ h \in DOMAIN s.items /\ h # Root /\ InStep(s, h)
          /\ s.items[h].path \in DOMAIN s.puoids /\ s.puoids[s.items[h].path] = s.items[h].puoid
          /\ s.paths[s.items[h].path] = h
          /\ \A k \in DOMAIN s.items \ {h} : s.items[k].puoid # s.items[h].puoid
      BY DEF Placed
    <3>2. s.items[h].path # <<>>
      BY <2>4, <3>1 DEF Items
    <3>3. s.items[h].path \in DOMAIN s.disk /\ InodeOf(s, h) = s.disk[s.items[h].path].ino
      BY <3>1, <3>2 DEF InStep, Exists, InodeOf, Ino
    <3>4. s.items[h].dir <=> s.disk[s.items[h].path].dir
      BY <3>1, <3>2, <3>3 DEF InStep, IsDir
    <3> QED
      BY <3>1, <3>3, <3>4
  <2>7. \A h, k \in Placed(s) : InodeOf(s, h) = InodeOf(s, k) => h = k
    <3> SUFFICES ASSUME NEW h \in Placed(s), NEW k \in Placed(s), InodeOf(s, h) = InodeOf(s, k) PROVE h = k
      OBVIOUS
    <3>1. s.items[h].path = s.items[k].path
      BY <2>4, <2>6 DEF DiskGood, Entries
    <3> QED
      BY <2>6, <3>1
  <2>8. \A h \in Placed(s) : /\ snap(h).path = s.items[h].path /\ snap(h).ino = InodeOf(s, h)
                             /\ snap(h).dir = s.items[h].dir /\ snap(h).puoid = s.items[h].puoid /\ snap(h).refs = refs(h)
    OBVIOUS
  <2>9. \A h \in H : stored(h).of = s.items[h].puoid /\ stored(h).to = to(h)
    OBVIOUS
  <2>10. \A h, k \in Placed(s) : InodeOf(s, k) \in refs(h) <=>
             h \in DOMAIN s.refs /\ ~s.items[h].dir /\ k \in s.refs[h] /\ ~s.items[k].dir
    BY <2>7
  <2>11. \A h \in Placed(s) : refs(h) # {} => h \in DOMAIN s.refs /\ ~s.items[h].dir
    OBVIOUS
  <2>12. \A h \in H, k \in Placed(s) : s.items[k].puoid \in to(h) <=> k \in s.refs[h]
    BY <2>6
  <2> HIDE DEF snap, stored, refs, to
  <2>13. ASSUME NEW b \in before'
         PROVE  /\ ~IsWide(b.path) => b.path \in DOMAIN saved'.puoids /\ saved'.puoids[b.path] = b.puoid
                /\ b.ino \in Nat /\ b.ino < s'.ino
                /\ \A p \in DOMAIN s'.disk : s'.disk[p].ino = b.ino => (s'.disk[p].dir <=> b.dir)
                /\ b.refs # {} =>
                     /\ ~b.dir
                     /\ \E r \in saved'.refs : /\ r.of = b.puoid /\ \A q \in saved'.refs : q.of = b.puoid => q = r
                                               /\ \A c \in before' : c.ino \in b.refs <=> ~c.dir /\ c.puoid \in r.to
    <3>1. PICK h \in Placed(s) : b = snap(h)
      BY <2>3
    <3>2. ~IsWide(b.path) => b.path \in DOMAIN saved'.puoids /\ saved'.puoids[b.path] = b.puoid
      BY <2>2, <2>6, <2>8, <3>1, StoredPuoidsFacts
    <3>3. b.ino \in Nat /\ b.ino < s'.ino
      BY <2>4, <2>5, <2>6, <2>8, <3>1 DEF DiskGood, Entries
    <3>4. \A p \in DOMAIN s'.disk : s'.disk[p].ino = b.ino => (s'.disk[p].dir <=> b.dir)
      BY <2>4, <2>5, <2>6, <2>8, <3>1 DEF DiskGood, Entries
    <3>5. ASSUME b.refs # {}
          PROVE  /\ ~b.dir
                 /\ \E r \in saved'.refs : /\ r.of = b.puoid /\ \A q \in saved'.refs : q.of = b.puoid => q = r
                                           /\ \A c \in before' : c.ino \in b.refs <=> ~c.dir /\ c.puoid \in r.to
      <4>1. h \in DOMAIN s.refs /\ ~s.items[h].dir /\ h \in H
        BY <2>6, <2>8, <2>11, <3>1, <3>5
      <4> DEFINE r == stored(h)
      <4>2. r \in saved'.refs /\ r.of = b.puoid
        BY <2>2, <2>8, <2>9, <3>1, <4>1
      <4>3. \A q \in saved'.refs : q.of = b.puoid => q = r
        <5> SUFFICES ASSUME NEW q \in saved'.refs, q.of = b.puoid PROVE q = r
          OBVIOUS
        <5>1. PICK k \in H : q = stored(k)
          BY <2>2
        <5>2. s.items[k].puoid = s.items[h].puoid
          BY <2>8, <2>9, <3>1, <5>1
        <5>3. k = h
          BY <2>6, <5>1, <5>2
        <5> QED
          BY <5>1, <5>3
      <4>4. \A c \in before' : c.ino \in b.refs <=> ~c.dir /\ c.puoid \in r.to
        <5> SUFFICES ASSUME NEW c \in before' PROVE c.ino \in b.refs <=> ~c.dir /\ c.puoid \in r.to
          OBVIOUS
        <5>1. PICK k \in Placed(s) : c = snap(k)
          BY <2>3
        <5>2. c.ino \in b.refs <=> k \in s.refs[h] /\ ~s.items[k].dir
          BY <2>8, <2>10, <3>1, <4>1, <5>1
        <5>3. c.puoid \in r.to <=> k \in s.refs[h]
          BY <2>8, <2>9, <2>12, <4>1, <5>1
        <5>4. c.dir = s.items[k].dir
          BY <2>8, <5>1
        <5> QED
          BY <5>2, <5>3, <5>4
      <4> HIDE DEF r
      <4>5. ~b.dir
        BY <2>8, <3>1, <4>1
      <4> QED
        BY <4>2, <4>3, <4>4, <4>5
    <3> QED
      BY <3>2, <3>3, <3>4, <3>5
  <2> QED
    BY <2>13 DEF BeforeKept
<1> QED
  BY <1>1, <1>2

LEMMA UserKeepsBefore ==
    ASSUME DiskGood(s), DiskGood(s'), BeforeKept, Descends(s, s'), saved' = saved, before' = before
    PROVE  BeforeKept'
<1>1. s.ino \in Nat /\ s'.ino \in Nat /\ s.ino <= s'.ino /\ \A p \in DOMAIN s'.disk : s'.disk[p].ino \in Nat
  BY DEF DiskGood, Entries, Descends
<1>2. ASSUME NEW b \in before
      PROVE  b.ino \in Nat /\ b.ino < s'.ino /\ \A p \in DOMAIN s'.disk : s'.disk[p].ino = b.ino => (s'.disk[p].dir <=> b.dir)
  <2>1. b.ino \in Nat /\ b.ino < s.ino /\ \A p \in DOMAIN s.disk : s.disk[p].ino = b.ino => (s.disk[p].dir <=> b.dir)
    BY DEF BeforeKept
  <2>2. ASSUME NEW p \in DOMAIN s'.disk, s'.disk[p].ino = b.ino PROVE s'.disk[p].dir <=> b.dir
    <3>1. PICK q \in DOMAIN s.disk : s'.disk[p] = s.disk[q]
      BY <1>1, <2>1, <2>2 DEF Descends
    <3> QED
      BY <2>1, <2>2, <3>1
  <2> QED
    BY <1>1, <2>1, <2>2
<1> QED
  BY <1>2 DEF BeforeKept

LEMMA StartFacts ==
    ASSUME DiskGood(s), Empty(s), BeforeKept, Start
    PROVE  IdentitiesReturn
<1> DEFINE u == s'
           kept == {b \in before : ~IsWide(b.path) /\ b.path \in DOMAIN s.disk /\ s.disk[b.path].ino = b.ino}
           handle(b) == u.paths[b.path]
           own == {b \in kept : \A h \in DOMAIN u.items \ {handle(b)} : u.items[h].puoid # b.puoid}
           files(i) == {h \in DOMAIN u.items \ {Root} : ~u.items[h].dir /\ u.items[h].puoid = i}
           of(h) == {r \in saved.refs : h \in files(r.of)}
           chosen(h) == CHOOSE r \in of(h) : TRUE
           refs == [h \in {k \in DOMAIN u.items : of(k) # {}} |->
                      LET r == CHOOSE r \in of(h) : TRUE
                      IN  {CHOOSE k \in files(i) : TRUE : i \in {j \in r.to : files(j) # {}}}]
<1>1. u = Enumerated(s)
  BY DEF Start
<1>2. /\ \A p \in DOMAIN s.disk :
             /\ p \in DOMAIN u.paths /\ u.paths[p] \in DOMAIN u.items \ {Root} /\ u.items[u.paths[p]].path = p
             /\ u.items[u.paths[p]].dir = IsDir(s, p)
             /\ p \in DOMAIN saved.puoids => u.items[u.paths[p]].puoid = saved.puoids[p]
      /\ \E y : y.items = u.items /\ DOMAIN y = Fields /\ u = PopulateReferences(y)
  BY <1>1, EnumeratedFacts
<1>3. u.refs = refs
  <2>1. PICK y : y.items = u.items /\ DOMAIN y = Fields /\ u = PopulateReferences(y)
    BY <1>2
  <2>2. PopulateReferences(y) = [y EXCEPT !.refs = refs]
    BY <2>1 DEF PopulateReferences
  <2> HIDE DEF refs
  <2> QED
    BY <2>1, <2>2 DEF Fields
<1>4. ASSUME NEW b \in kept
      PROVE  /\ handle(b) \in DOMAIN u.items \ {Root} /\ u.items[handle(b)].puoid = b.puoid
             /\ (u.items[handle(b)].dir <=> b.dir)
             /\ b \in before
  <2>1. b \in before /\ ~IsWide(b.path) /\ b.path \in DOMAIN s.disk /\ s.disk[b.path].ino = b.ino
    OBVIOUS
  <2>2. b.path \in DOMAIN saved.puoids /\ saved.puoids[b.path] = b.puoid /\ (s.disk[b.path].dir <=> b.dir)
    BY <2>1 DEF BeforeKept
  <2>3. IsDir(s, b.path) <=> s.disk[b.path].dir
    BY <2>1 DEF IsDir, DiskGood, Entries
  <2>4. u.items[handle(b)].dir <=> b.dir
    BY <1>2, <2>1, <2>2, <2>3
  <2> QED
    BY <1>2, <2>1, <2>2, <2>4
<1>5. ASSUME NEW b \in own
      PROVE  b \in kept /\ \A h \in DOMAIN u.items : u.items[h].puoid = b.puoid => h = handle(b)
  OBVIOUS
<1>6. DOMAIN refs = {k \in DOMAIN u.items : of(k) # {}}
  OBVIOUS
<1>7. \A h \in DOMAIN refs : \A g : g \in refs[h] <=>
          \E i \in {j \in chosen(h).to : files(j) # {}} : g = CHOOSE k \in files(i) : TRUE
  <2> HIDE DEF files, of
  <2> QED
    OBVIOUS
<1>8. \A i : \A h \in DOMAIN u.items : h \in files(i) <=> h # Root /\ ~u.items[h].dir /\ u.items[h].puoid = i
  OBVIOUS
<1>9. \A i : files(i) \subseteq DOMAIN u.items
  OBVIOUS
<1>10. \A h, r : r \in of(h) <=> r \in saved.refs /\ h \in files(r.of)
  OBVIOUS
<1> HIDE DEF kept, own, files, refs, of, u, handle
<1>11. ASSUME NEW c \in own, ~c.dir PROVE files(c.puoid) = {handle(c)}
  <2>1. c \in kept /\ handle(c) \in files(c.puoid)
    BY <1>4, <1>5, <1>8, <1>11
  <2>2. \A h \in files(c.puoid) : h = handle(c)
    BY <1>5, <1>8, <1>9
  <2> QED
    BY <2>1, <2>2
<1>12. ASSUME NEW b \in own, b.refs # {}
       PROVE  /\ handle(b) \in DOMAIN refs
              /\ \A c \in own : c.ino \in b.refs <=> handle(c) \in refs[handle(b)]
  <2>1. b \in before /\ b \in kept
    BY <1>4, <1>5
  <2>2. ~b.dir
    BY <1>12, <2>1 DEF BeforeKept
  <2>3. PICK r \in saved.refs : /\ r.of = b.puoid /\ \A q \in saved.refs : q.of = b.puoid => q = r
                                /\ \A c \in before : c.ino \in b.refs <=> ~c.dir /\ c.puoid \in r.to
    BY <1>12, <2>1 DEF BeforeKept
  <2>4. handle(b) \in DOMAIN u.items /\ handle(b) # Root /\ ~u.items[handle(b)].dir /\ u.items[handle(b)].puoid = b.puoid
    BY <1>4, <2>1, <2>2
  <2>5. of(handle(b)) = {r}
    <3>1. r \in of(handle(b))
      BY <1>8, <1>10, <2>3, <2>4
    <3>2. \A q \in of(handle(b)) : q = r
      BY <1>8, <1>10, <2>3, <2>4
    <3> QED
      BY <3>1, <3>2
  <2>6. handle(b) \in DOMAIN refs /\ chosen(handle(b)) = r
    BY <1>6, <2>4, <2>5
  <2>7. ASSUME NEW c \in own, c.ino \in b.refs PROVE handle(c) \in refs[handle(b)]
    <3>1. c \in before /\ ~c.dir /\ c.puoid \in r.to
      BY <1>4, <1>5, <2>3, <2>7
    <3>2. files(c.puoid) = {handle(c)}
      BY <1>11, <3>1
    <3>3. handle(c) = CHOOSE k \in files(c.puoid) : TRUE
      BY <3>2
    <3> HIDE DEF chosen
    <3> QED
      BY <1>7, <2>6, <3>1, <3>2, <3>3
  <2>8. ASSUME NEW c \in own, handle(c) \in refs[handle(b)] PROVE c.ino \in b.refs
    <3>1. PICK i \in r.to : files(i) # {} /\ handle(c) = CHOOSE k \in files(i) : TRUE
      <4> HIDE DEF chosen
      <4> QED
        BY <1>7, <2>6, <2>8
    <3>2. handle(c) \in files(i)
      BY <3>1
    <3>3. c \in kept /\ c \in before /\ handle(c) \in DOMAIN u.items /\ u.items[handle(c)].puoid = c.puoid
          /\ (u.items[handle(c)].dir <=> c.dir)
      BY <1>4, <1>5
    <3>4. ~c.dir /\ c.puoid = i
      BY <1>8, <3>2, <3>3
    <3> QED
      BY <2>3, <3>1, <3>3, <3>4
  <2> QED
    BY <2>6, <2>7, <2>8
<1>13. \A b \in own : b.refs \cap {c.ino : c \in own} # {} =>
               /\ handle(b) \in DOMAIN u.refs
               /\ {c \in own : c.ino \in b.refs} = {c \in own : handle(c) \in u.refs[handle(b)]}
  BY <1>3, <1>12
<1>14. \A b \in kept : u.items[handle(b)].puoid = b.puoid
  BY <1>4
<1> QED
  BY <1>13, <1>14 DEF IdentitiesReturn, kept, own, handle, u

-----------------------------------------------------------------------------
(* The inductive invariant. *)

IInv ==
    /\ DiskGood(s) /\ up \in BOOLEAN /\ (cached = None \/ cached \in Events)
    /\ up => Good(s)
    /\ ~up => Empty(s) /\ BeforeKept

LEMMA InitIInv == Init => IInv
<1> SUFFICES ASSUME Init PROVE IInv
  OBVIOUS
<1>1. PICK E \in Disks : s = [Nothing EXCEPT !.disk = DiskOf(E), !.ino = Cardinality(E) + 1]
  BY DEF Init
<1>2. DiskGood(s) /\ Empty(s)
  BY <1>1, InitFacts
<1>3. cached = None /\ up = FALSE /\ before = {}
  BY DEF Init
<1> QED
  BY <1>2, <1>3 DEF IInv, BeforeKept

LEMMA HostIInv ==
    ASSUME IInv, up, Host \/ HostDeletesAll \/ \E h \in DOMAIN s.refs : HostGetsReferences(h)
    PROVE  IInv'
<1>1. Good(s)
  BY DEF IInv
<1>2. ASSUME Good(s'), up' = up, cached' = cached PROVE IInv'
  <2>1. DiskGood(s')
    BY <1>2 DEF Good, MapsTyped
  <2> QED
    BY <1>2, <2>1 DEF IInv
<1>3. ASSUME NEW F, NEW t, HostChanges(F, t) PROVE up' = up /\ cached' = cached
  BY <1>3 DEF HostChanges
<1>4. ASSUME NEW h \in DOMAIN s.items, NEW n \in Names, HostRenames(h, n) PROVE IInv'
  <2>1. \E F, t : HostChanges(F, t)
    BY <1>4 DEF HostRenames
  <2> QED
    BY <1>1, <1>2, <1>3, <1>4, <2>1, HostRenamesGood
<1>5. ASSUME NEW h \in DOMAIN s.items, NEW n \in Names, NEW dir \in BOOLEAN, HostAdds(h, n, dir) PROVE IInv'
  <2>1. \E F, t : HostChanges(F, t)
    BY <1>5 DEF HostAdds
  <2> QED
    BY <1>1, <1>2, <1>3, <1>5, <2>1, HostAddsGood
<1>6. ASSUME NEW h \in DOMAIN s.items, HostDeletes(h) PROVE IInv'
  <2>1. \E F, t : HostChanges(F, t)
    BY <1>6 DEF HostDeletes
  <2> QED
    BY <1>1, <1>2, <1>3, <1>6, <2>1, HostDeletesGood
<1>7. ASSUME NEW h \in DOMAIN s.items, NEW g \in DOMAIN s.items, HostMoves(h, g) PROVE IInv'
  <2>1. \E F, t : HostChanges(F, t)
    BY <1>7 DEF HostMoves
  <2> QED
    BY <1>1, <1>2, <1>3, <1>7, <2>1, HostMovesGood
<1>8. ASSUME NEW h \in DOMAIN s.items, NEW g \in DOMAIN s.items, HostCopies(h, g) PROVE IInv'
  <2>1. \E F, t : HostChanges(F, t)
    BY <1>8 DEF HostCopies, CopyFails
  <2> QED
    BY <1>1, <1>2, <1>3, <1>8, <2>1, HostCopiesGood
<1>9. ASSUME NEW h, NEW R, HostSetsReferences(h, R) PROVE IInv'
  <2>1. \E F, t : HostChanges(F, t)
    BY <1>9 DEF HostSetsReferences
  <2> QED
    BY <1>1, <1>2, <1>3, <1>9, <2>1, HostReferencesGood
<1>10. ASSUME HostDeletesAll PROVE IInv'
  <2>1. \E F, t : HostChanges(F, t)
    BY <1>10 DEF HostDeletesAll
  <2> QED
    BY <1>1, <1>2, <1>3, <1>10, <2>1, HostDeletesAllGood
<1>11. ASSUME NEW h, HostGetsReferences(h) PROVE IInv'
  <2>1. up' = up /\ cached' = cached
    BY <1>11 DEF HostGetsReferences
  <2> QED
    BY <1>1, <1>2, <1>11, <2>1, HostReferencesGood
<1>12. CASE Host
  <2>1. \A n \in NewNames : n \in Names
    BY TreeAssumption
  <2> QED
    BY <2>1, <1>4, <1>5, <1>6, <1>7, <1>8, <1>9, <1>12 DEF Host
<1> QED
  BY <1>10, <1>11, <1>12

LEMMA StepIInv == IInv /\ [Next]_vars => IInv'
<1> SUFFICES ASSUME IInv, [Next]_vars PROVE IInv'
  OBVIOUS
<1>1. CASE InotifyEvent
  <2>1. up /\ up' = up
    BY <1>1 DEF InotifyEvent
  <2>2. Good(s') /\ (cached' = None \/ cached' \in Events)
    BY <1>1, <2>1, InotifyFacts DEF IInv
  <2>3. DiskGood(s')
    BY <2>2 DEF Good, MapsTyped
  <2> QED
    BY <2>1, <2>2, <2>3 DEF IInv
<1>2. CASE User
  <2>1. /\ DiskGood(s') /\ SameMaps(s, s') /\ Descends(s, s')
        /\ cached' = cached /\ up' = up /\ saved' = saved /\ before' = before
    BY <1>2, UserFacts DEF IInv
  <2>2. up => Good(s')
    BY <2>1, SameMapsGood DEF IInv
  <2>3. ~up => Empty(s')
    BY <2>1 DEF IInv, Empty, SameMaps
  <2>4. ~up => BeforeKept'
    BY <2>1, UserKeepsBefore DEF IInv
  <2> QED
    BY <2>1, <2>2, <2>3, <2>4 DEF IInv
<1>3. CASE up /\ (Host \/ HostDeletesAll \/ \E h \in DOMAIN s.refs : HostGetsReferences(h))
  BY <1>3, HostIInv
<1>4. ASSUME NEW clean \in BOOLEAN, Stop(clean) PROVE IInv'
  <2>1. up /\ up' = FALSE /\ s' = Ended(s) /\ cached' = None
    BY <1>4 DEF Stop
  <2>2. DiskGood(s') /\ Empty(s')
    BY <2>1, EndedFacts DEF IInv
  <2>3. BeforeKept'
    BY <1>4, <2>1, StopFacts DEF IInv, Good
  <2> QED
    BY <2>1, <2>2, <2>3 DEF IInv
<1>5. CASE Start
  <2>1. ~up /\ up' = TRUE /\ s' = Enumerated(s) /\ cached' = cached
    BY <1>5 DEF Start
  <2>2. MapsTyped(s') /\ OneTree(s')
    BY <2>1, EnumeratedFacts DEF IInv
  <2>3. DiskGood(s') /\ Good(s')
    BY <2>2 DEF Good, MapsTyped
  <2> QED
    BY <2>1, <2>3 DEF IInv
<1>6. CASE UNCHANGED vars
  <2>1. s' = s /\ cached' = cached /\ up' = up /\ saved' = saved /\ before' = before
    BY <1>6 DEF vars
  <2> QED
    BY <2>1 DEF IInv, BeforeKept
<1> QED
  BY <1>1, <1>2, <1>3, <1>4, <1>5, <1>6 DEF Next

-----------------------------------------------------------------------------

\* Whatever the user, the initiator, late events, crashes and restarts do: the disk is a
\* tree whose entries have inodes of their own, each path of the plugin leads to the item that
\* has it, each watch to the item that has it or to none, which only happens once a watch was
\* left behind, and as long as no item took the path of another the items are one tree.  What
\* a clean stop stored for objects with paths in ASCII is still true at the next start.
THEOREM Inductive == Spec => []IInv
<1>1. Init => IInv
  BY InitIInv
<1>2. IInv /\ [Next]_vars => IInv'
  BY StepIInv
<1> QED
  BY <1>1, <1>2, PTL DEF Spec

\* The handles, paths, parents and watches of FSStoragePlugin (m_objectHandlesMap,
\* m_pathNamesMap, m_watchDescriptorMap) describe one tree in every state, unless an item was
\* moved over another or into itself.  A watch that leads to a handle without an item is
\* possible only after removeFromStorage() has left behind the watch of a folder that had
\* become something else.
THEOREM MapsAgreeAlways == Spec => []MapsAgree
<1>1. IInv => MapsAgree
  <2> SUFFICES ASSUME IInv, {"displaced", "cycle"} \cap s.lost = {}
               PROVE  /\ DOMAIN s.paths = {s.items[h].path : h \in DOMAIN s.items}
                      /\ \A h \in DOMAIN s.items : s.paths[s.items[h].path] = h
                      /\ \A h \in DOMAIN s.items \ {Root} :
                            /\ s.items[h].parent \in DOMAIN s.items
                            /\ s.items[s.items[h].parent].path = Front(s.items[h].path)
                      /\ \A w \in DOMAIN s.wds : IF s.wds[w] \in DOMAIN s.items THEN s.items[s.wds[w]].wd = w
                                                 ELSE "stale" \in s.lost
    BY DEF MapsAgree
  <2>1. CASE up
    <3>1. OneTree(s) /\ PathsLead(s) /\ WatchesLead(s)
      BY <2>1 DEF IInv, Good, Broken, MapsTyped
    <3>2. DOMAIN s.paths \subseteq {s.items[h].path : h \in DOMAIN s.items}
      BY <3>1 DEF PathsLead
    <3>3. {s.items[h].path : h \in DOMAIN s.items} \subseteq DOMAIN s.paths
      BY <3>1 DEF OneTree
    <3> QED
      BY <3>1, <3>2, <3>3 DEF OneTree, WatchesLead
  <2>2. CASE ~up
    <3>1. DOMAIN s.items = {} /\ DOMAIN s.paths = {} /\ DOMAIN s.wds = {}
      BY <2>2 DEF IInv, Empty
    <3> QED
      BY <3>1
  <2> QED
    BY <2>1, <2>2
<1> QED
  BY <1>1, Inductive, PTL

\* The handlers of inotify events delete directories from the disk, which the plugin takes
\* for emptied folders, and never a file, however late the event is, but for one: a file at
\* the path of an item that has contents in the tree and that populateObjectInfo() has made
\* something else than a folder.
THEOREM NoFileDeleted == Spec => EventsDeleteNoFile
<1>1. IInv /\ [Next]_vars =>
          [InotifyEvent => \A p \in DOMAIN s.disk \ DOMAIN s'.disk :
               s.disk[p].dir \/ \E h \in DOMAIN s.items : s.items[h].path = p /\ ~s.items[h].dir /\ Kids(s, h) # {}]_vars
  <2> SUFFICES ASSUME IInv, InotifyEvent
               PROVE  \A p \in DOMAIN s.disk \ DOMAIN s'.disk :
                         s.disk[p].dir \/ \E h \in DOMAIN s.items : s.items[h].path = p /\ ~s.items[h].dir /\ Kids(s, h) # {}
    OBVIOUS
  <2>1. Good(s)
    BY DEF IInv, InotifyEvent
  <2>2. OnlyDirsGo(s, s')
    BY <2>1, InotifyFacts DEF IInv
  <2> QED
    BY <2>2 DEF OnlyDirsGo, Turned
<1> QED
  BY <1>1, Inductive, PTL DEF Spec, EventsDeleteNoFile

\* storePuoids(), populatePuoids() and the object references over a clean stop, changes by
\* the user and a start: an object that stayed in its place, with a path in ASCII, has its
\* identifier again, and its references to others like it.
THEOREM IdentityReturns == Spec => IdentityKept
<1>1. IInv /\ [Next]_vars => [Start => IdentitiesReturn]_vars
  <2> SUFFICES ASSUME IInv, Start PROVE IdentitiesReturn
    OBVIOUS
  <2>1. ~up
    BY DEF Start
  <2> QED
    BY <2>1, StartFacts DEF IInv
<1> QED
  BY <1>1, Inductive, PTL DEF Spec, IdentityKept
=============================================================================
