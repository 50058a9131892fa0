------------------------- MODULE ObjectQueriesProofs -------------------------
(***************************************************************************)
(* Proofs about ObjectQueries, for any storages and objects to begin with, *)
(* and any number of operations, queries, edits, changes and failures.     *)
(*                                                                         *)
(* An entry of the cache that is not what the storage would answer has a   *)
(* notification under way that drops it, is known to be out of date, or is *)
(* exempt (EntriesTrue); a change of an object asked about has one under   *)
(* way that is told, or a file that is still written to (ChangesWait), and *)
(* will not be filtered, for the item is noted where it is (AskedNoted).   *)
(* In the middle of an operation more entries are exempt, X, and the       *)
(* notifications of objects U still to be sent: Valid(t, X, U, F) says all *)
(* of this, and that files under way to the service are among F.  The      *)
(* lemmas say what each method takes from X and U and adds to them, and    *)
(* each operation ends with the exemption of the object in edit.           *)
(***************************************************************************)
EXTENDS ObjectQueries, SequenceTheorems, FiniteSetTheorems, WellFoundedInduction, TLAPS

Fields == {"tree", "dirty", "events", "cache", "mass", "next", "thumb", "stale", "torn", "asked", "untold"}
ItemFields == {"parent", "dir", "name", "size", "content", "on"}
ThumbFields == {"paths", "requested", "queue", "fetching", "timer", "enabled", "suspended"}
EventKinds == {"info", "sample", "removed", "added"}

RecordGood(t) ==
    /\ DOMAIN t = Fields /\ DOMAIN t.tree = AllStores /\ DOMAIN t.thumb = AllStores
    /\ t.next \in Nat \ {0}

\* Items H: each in a folder that is there too, its size one its content has had
ItemGood(i, H) ==
    /\ DOMAIN i = ItemFields
    /\ i.parent \in H \cup {Root} /\ i.on \in BOOLEAN
    /\ i.size \in Nat /\ i.content \in Nat /\ i.size <= i.content
ItemsGood(t) ==
    \A st \in AllStores : \A h \in DOMAIN t.tree[st] :
        h \in 1 .. t.next - 1 /\ ItemGood(t.tree[st][h], DOMAIN t.tree[st])

InOneStore(t) ==
    \A st, to \in AllStores : st # to => DOMAIN t.tree[st] \cap DOMAIN t.tree[to] \subseteq t.torn

DirtyGood(t) == \A d \in t.dirty : \E st \in AllStores : \E h \in DOMAIN t.tree[st] : d = <<st, h>>

EventsGood(t) == t.events \in Seq([kind : EventKinds, handle : Int])

CacheGood(t) ==
    /\ DOMAIN t.cache \subseteq 1 .. t.next - 1
    /\ \A h \in DOMAIN t.cache : DOMAIN t.cache[h] \subseteq Props

AskedGood(t) == t.asked \subseteq 1 .. t.next - 1 /\ t.untold \subseteq t.asked

\* Suspended, no timer is running.
ThumbGood(th, f) ==
    /\ DOMAIN th = ThumbFields
    /\ th.suspended => ~th.timer
    /\ th.fetching \subseteq f
ThumbsGood(t, F) == \A st \in AllStores : ThumbGood(t.thumb[st], F[st])

\* A notification under way drops the entry of property p of object h.
Drops(t, h, p) ==
    \E i \in DOMAIN t.events :
        /\ t.events[i].handle = h
        /\ t.events[i].kind \in {"info", "removed"} \/ (t.events[i].kind = "sample" /\ p = "sample")

TrueIn(t, st, h, p, v) ==
    /\ Has(t, st, h)
    /\ IF p = "sample"
       THEN v \/ t.tree[st][h].name \notin Pictures \/ Path(t, st, h) \in t.thumb[st].requested
       ELSE v = ValueFromStorage(t, st, h, p)

EntryTrue(t, X, h, p) ==
    \/ <<h, p>> \in t.stale \cup X
    \/ Drops(t, h, p)
    \/ \E st \in AllStores : TrueIn(t, st, h, p, t.cache[h][p])
EntriesTrue(t, X) ==
    \A h \in DOMAIN t.cache \ t.torn : \A p \in DOMAIN t.cache[h] : EntryTrue(t, X, h, p)

AskedNoted(t) ==
    \A h \in t.asked \ t.torn : \A st \in AllStores : Has(t, st, h) => t.tree[st][h].on

\* A notification of a change of h is under way or to come.
ChangeWaits(t, h) ==
    \/ Drops(t, h, "name")
    \/ \E st \in AllStores : /\ <<st, h>> \in t.dirty
                             /\ t.tree[st][h].size # t.tree[st][h].content
ChangesWait(t, U) == \A h \in t.untold \ (t.torn \cup U) : ChangeWaits(t, h)

\* Everything but the entries of the cache and the changes to be told of
Sound(t, F) ==
    /\ RecordGood(t) /\ ItemsGood(t) /\ InOneStore(t) /\ DirtyGood(t) /\ EventsGood(t)
    /\ CacheGood(t) /\ AskedGood(t) /\ ThumbsGood(t, F) /\ AskedNoted(t)
Valid(t, X, U, F) == Sound(t, F) /\ EntriesTrue(t, X) /\ ChangesWait(t, U)

Exempt == {<<edit, "content">>}

IInv ==
    \E F : /\ \A st \in AllStores : F[st] = s.thumb[st].fetching
           /\ Valid(s, Exempt, {}, F)

LEMMA Smallest ==
    ASSUME NEW T \in SUBSET Nat, T # {}
    PROVE  \E k \in T : \A j \in T : k <= j
<1> DEFINE Less == OpToRel(<, Nat)
<1>1. IsWellFoundedOn(Less, Nat)
  BY NatLessThanWellFounded
<1>2. \A x, y \in Nat : x < y => <<x, y>> \in Less
  BY DEF OpToRel
<1> HIDE DEF Less
<1>3. PICK k \in T : \A j \in T : ~(<<j, k>> \in Less)
  BY <1>1, WFMin
<1>4. \A j \in T : ~(j < k)
  BY <1>2, <1>3
<1> QED
  BY <1>3, <1>4

\* A finite set in any order
LEMMA Enumerated1 ==
    ASSUME NEW P, IsFiniteSet(P)
    PROVE  /\ Cardinality(P) \in Nat
           /\ SetToSeq(P) \in [1 .. Cardinality(P) -> P]
           /\ \A i, j \in 1 .. Cardinality(P) : SetToSeq(P)[i] = SetToSeq(P)[j] => i = j
           /\ \A p \in P : \E i \in 1 .. Cardinality(P) : SetToSeq(P)[i] = p
<1> DEFINE n == Cardinality(P)
<1>1. n \in Nat /\ ExistsBijection(1 .. n, P)
  BY FS_CardinalityType
<1>2. PICK f \in Bijection(1 .. n, P) : TRUE
  BY <1>1 DEF ExistsBijection
<1>3. f \in [1 .. n -> P] /\ IsInjective(f)
  BY <1>2 DEF Bijection, Injection
<1>4. SetToSeq(P) \in [1 .. n -> P] /\ IsInjective(SetToSeq(P))
  BY <1>3 DEF SetToSeq
<1> DEFINE g == SetToSeq(P)
<1>5. g \in Injection(1 .. n, P)
  BY <1>4 DEF Injection
<1>6. Cardinality(1 .. n) = n /\ IsFiniteSet(1 .. n)
  BY <1>1, FS_Interval
<1>7. g \in Surjection(1 .. n, P)
  BY <1>5, <1>6, FS_Injection
<1>8. \A p \in P : \E i \in 1 .. n : g[i] = p
  BY <1>7 DEF Surjection
<1> QED
  BY <1>1, <1>4, <1>8 DEF IsInjective

-----------------------------------------------------------------------------
(* Where an object is, and the paths of objects.                           *)

LEMMA RootIsNone ==
    ASSUME NEW t, RecordGood(t), ItemsGood(t), NEW st \in AllStores, NEW h \in DOMAIN t.tree[st]
    PROVE  /\ h # Root /\ h \in Int /\ h \in 1 .. t.next - 1 /\ Has(t, st, h)
           /\ ItemGood(t.tree[st][h], DOMAIN t.tree[st])
  BY DEF ItemsGood, Root, RecordGood, Has

\* The search ends at a storage that has the handle, if there is one.
LEMMA StorageFound ==
    ASSUME NEW t, NEW h
    PROVE  LET st == StorageOfHandle(t, h)
           IN  /\ st # NoStore => st \in AllStores /\ Has(t, st, h)
               /\ st = NoStore => \A to \in AllStores : ~Has(t, to, h)
<1> DEFINE holding == {i \in DOMAIN Stores : Has(t, Stores[i], h)}
<1>1. Stores \in Seq(AllStores) /\ NoStore \notin AllStores
  BY StoresAssumption
<1>2. DOMAIN Stores \subseteq Nat /\ \A i \in DOMAIN Stores : Stores[i] \in AllStores
  BY <1>1
<1>3. \A st \in AllStores : \E i \in DOMAIN Stores : Stores[i] = st
  BY DEF AllStores, ToSet
<1>4. CASE holding = {}
  <2>1. StorageOfHandle(t, h) = NoStore
    BY <1>4 DEF StorageOfHandle
  <2>2. \A to \in AllStores : ~Has(t, to, h)
    BY <1>3, <1>4
  <2> QED
    BY <2>1, <2>2, <1>1
<1>5. CASE holding # {}
  <2>1. holding \in SUBSET Nat
    BY <1>2
  <2>2. \E k \in holding : \A j \in holding : k <= j
    <3> HIDE DEF holding
    <3> QED
      BY <2>1, <1>5, Smallest
  <2>3. Min(holding) \in holding
    BY <2>2 DEF Min
  <2>4. StorageOfHandle(t, h) = Stores[Min(holding)]
    BY <1>5 DEF StorageOfHandle
  <2>5. Stores[Min(holding)] \in AllStores /\ Has(t, Stores[Min(holding)], h)
    BY <2>3, <1>2
  <2> HIDE DEF holding
  <2> QED
    BY <2>4, <2>5, <1>1
<1> QED
  BY <1>4, <1>5

LEMMA StorageUnique ==
    ASSUME NEW t, InOneStore(t), NEW h, h \notin t.torn, NEW st \in AllStores, Has(t, st, h)
    PROVE  StorageOfHandle(t, h) = st /\ st # NoStore
<1>1. StorageOfHandle(t, h) # NoStore
  BY StorageFound
<1>2. StorageOfHandle(t, h) \in AllStores /\ Has(t, StorageOfHandle(t, h), h)
  BY <1>1, StorageFound
<1>3. st # NoStore
  BY StoresAssumption
<1> QED
  BY <1>2, <1>3 DEF InOneStore, Has

\* What depends on the handles only
LEMMA SameHandles ==
    ASSUME NEW t, NEW u, \A st \in AllStores : DOMAIN u.tree[st] = DOMAIN t.tree[st]
    PROVE  /\ \A st \in AllStores : \A h : Has(u, st, h) <=> Has(t, st, h)
           /\ \A h : StorageOfHandle(u, h) = StorageOfHandle(t, h)
           /\ Live(u) = Live(t)
<1>1. \A st \in AllStores : \A h : Has(u, st, h) <=> Has(t, st, h)
  BY DEF Has
<1>2. \A i \in DOMAIN Stores : Stores[i] \in AllStores
  BY StoresAssumption
<1>3. ASSUME NEW h PROVE StorageOfHandle(u, h) = StorageOfHandle(t, h)
  <2>1. {i \in DOMAIN Stores : Has(u, Stores[i], h)} = {i \in DOMAIN Stores : Has(t, Stores[i], h)}
    BY <1>1, <1>2
  <2> QED
    BY <2>1 DEF StorageOfHandle
<1> QED
  BY <1>1, <1>3 DEF Live

LEMMA SubtreeFacts ==
    ASSUME NEW t, NEW st, NEW h \in DOMAIN t.tree[st]
    PROVE  LET S == Subtree(t, st, h)
           IN  /\ S \subseteq DOMAIN t.tree[st] /\ Closed(t, st, S)
               /\ h \in S
               /\ \A k \in S : k # h => t.tree[st][k].parent \in S
<1> DEFINE S == Subtree(t, st, h)
<1>1. S \subseteq DOMAIN t.tree[st] /\ h \in S
  BY DEF Subtree
<1>2. Closed(t, st, S)
  BY DEF Subtree, Closed
<1>3. ASSUME NEW k \in S, k # h, t.tree[st][k].parent \notin S PROVE FALSE
  <2>0. k \in DOMAIN t.tree[st] /\ \A H \in SUBSET DOMAIN t.tree[st] : h \in H /\ Closed(t, st, H) => k \in H
    BY <1>3 DEF Subtree
  <2>1. Closed(t, st, S \ {k}) /\ h \in S \ {k} /\ S \ {k} \in SUBSET DOMAIN t.tree[st]
    <3> HIDE DEF S
    <3> QED
      BY <1>1, <1>2, <1>3 DEF Closed
  <2> QED
    BY <2>0, <2>1
<1> QED
  BY <1>1, <1>2, <1>3

\* h is below a, in t and in u, if it is in the one and what is above it is the same.
LEMMA SameBelow ==
    ASSUME NEW t, NEW u, NEW st, NEW K,
           K \subseteq DOMAIN t.tree[st], K \subseteq DOMAIN u.tree[st],
           Root \notin DOMAIN t.tree[st],
           \A k \in K : /\ u.tree[st][k].parent = t.tree[st][k].parent
                        /\ t.tree[st][k].parent \in K \cup {Root},
           NEW a \in K, NEW k \in K, k \in Subtree(t, st, a)
    PROVE  k \in Subtree(u, st, a)
<1> SUFFICES ASSUME NEW H \in SUBSET DOMAIN u.tree[st], a \in H, Closed(u, st, H)
             PROVE  k \in H
  BY DEF Subtree
<1> DEFINE G == (H \cap K) \cup (DOMAIN t.tree[st] \ K)
<1>1. Closed(t, st, G)
  <2> SUFFICES ASSUME NEW j \in DOMAIN t.tree[st], t.tree[st][j].parent \in G, j \in K
               PROVE  j \in H
    BY DEF Closed
  <2>1. CASE t.tree[st][j].parent \in H \cap K
    BY <2>1 DEF Closed
  <2>2. CASE t.tree[st][j].parent \in DOMAIN t.tree[st] \ K
    BY <2>2
  <2> QED
    BY <2>1, <2>2
<1>2. G \in SUBSET DOMAIN t.tree[st] /\ a \in G
  OBVIOUS
<1>3. k \in G
  <2> HIDE DEF G
  <2> QED
    BY <1>1, <1>2 DEF Subtree
<1> QED
  BY <1>3

\* The path of an object does not depend on what is not above it.
LEMMA SamePaths ==
    ASSUME NEW t, NEW u, NEW st, NEW K,
           K \subseteq DOMAIN t.tree[st], K \subseteq DOMAIN u.tree[st],
           Root \notin DOMAIN t.tree[st], Root \notin DOMAIN u.tree[st],
           \A k \in K : /\ u.tree[st][k].parent = t.tree[st][k].parent
                        /\ u.tree[st][k].name = t.tree[st][k].name
                        /\ t.tree[st][k].parent \in K \cup {Root}
    PROVE  \A k \in K : Path(u, st, k) = Path(t, st, k)
<1>1. \A a, k \in K : k \in Subtree(u, st, a) <=> k \in Subtree(t, st, a)
  <2> SUFFICES ASSUME NEW a \in K, NEW k \in K
               PROVE  k \in Subtree(u, st, a) <=> k \in Subtree(t, st, a)
    OBVIOUS
  <2>1. k \in Subtree(t, st, a) => k \in Subtree(u, st, a)
    BY SameBelow
  <2>2. k \in Subtree(u, st, a) => k \in Subtree(t, st, a)
    <3>1. \A j \in K : /\ t.tree[st][j].parent = u.tree[st][j].parent
                       /\ u.tree[st][j].parent \in K \cup {Root}
      OBVIOUS
    <3> QED
      BY <3>1, SameBelow
  <2> QED
    BY <2>1, <2>2
<1>2. ASSUME NEW v, v = t \/ v = u, NEW a \in DOMAIN v.tree[st], NEW k \in K, k \in Subtree(v, st, a)
      PROVE  a \in K
  <2> SUFFICES ASSUME a \notin K PROVE FALSE
    OBVIOUS
  <2> DEFINE G == DOMAIN v.tree[st] \ K
  <2>1. Closed(v, st, G)
    BY <1>2 DEF Closed
  <2>2. G \in SUBSET DOMAIN v.tree[st] /\ a \in G /\ k \notin G
    OBVIOUS
  <2>3. \A H \in SUBSET DOMAIN v.tree[st] : a \in H /\ Closed(v, st, H) => k \in H
    BY <1>2 DEF Subtree
  <2> QED
    BY <2>1, <2>2, <2>3
<1>3. \A k \in K : Above(t, st, k) \subseteq K /\ Above(u, st, k) \subseteq K
  BY <1>2 DEF Above
<1>4. \A k \in K : Above(t, st, k) = Above(u, st, k)
  <2>1. \A k \in K : Above(t, st, k) = {a \in K : k \in Subtree(t, st, a)}
    BY <1>3 DEF Above
  <2>2. \A k \in K : Above(u, st, k) = {a \in K : k \in Subtree(u, st, a)}
    BY <1>3 DEF Above
  <2> QED
    BY <2>1, <2>2, <1>1
<1> SUFFICES ASSUME NEW k \in K PROVE Path(u, st, k) = Path(t, st, k)
  OBVIOUS
<1>5. \A a \in Above(t, st, k) : /\ Above(u, st, a) = Above(t, st, a)
                                 /\ u.tree[st][a].name = t.tree[st][a].name
  BY <1>3, <1>4
<1>6. Above(u, st, k) = Above(t, st, k)
  BY <1>4
<1> QED
  BY <1>5, <1>6 DEF Path

-----------------------------------------------------------------------------
(* What does not change the tree.                                          *)

LEMMA SameTree ==
    ASSUME NEW t, NEW u, u.tree = t.tree
    PROVE  /\ \A st, h : Has(u, st, h) <=> Has(t, st, h)
           /\ \A st, h : Subtree(u, st, h) = Subtree(t, st, h)
           /\ \A st, h : Path(u, st, h) = Path(t, st, h)
           /\ \A st, h : Kids(u, st, h) = Kids(t, st, h)
           /\ \A st, h : \A p \in Props \ {"sample"} : ValueFromStorage(u, st, h, p) = ValueFromStorage(t, st, h, p)
           /\ \A h : StorageOfHandle(u, h) = StorageOfHandle(t, h)
<1>1. \A st, h : Has(u, st, h) <=> Has(t, st, h)
  BY DEF Has
<1>2. \A st, h : Subtree(u, st, h) = Subtree(t, st, h)
  <2> SUFFICES ASSUME NEW st, NEW h PROVE Subtree(u, st, h) = Subtree(t, st, h)
    OBVIOUS
  <2>1. \A H : Closed(u, st, H) <=> Closed(t, st, H)
    BY DEF Closed
  <2> QED
    BY <2>1 DEF Subtree
<1>3. \A st, h : Above(u, st, h) = Above(t, st, h)
  BY <1>2 DEF Above
<1>4. \A st, h : Path(u, st, h) = Path(t, st, h)
  BY <1>3 DEF Path
<1>5. \A st, h : Kids(u, st, h) = Kids(t, st, h)
  BY DEF Kids
<1>6. \A st, h : \A p \in Props \ {"sample"} : ValueFromStorage(u, st, h, p) = ValueFromStorage(t, st, h, p)
  BY DEF ValueFromStorage, Props, InfoProps
<1>7. \A h : StorageOfHandle(u, h) = StorageOfHandle(t, h)
  BY SameHandles
<1> QED
  BY <1>1, <1>2, <1>4, <1>5, <1>6, <1>7

\* Entries stay true when the tree and the events stay and requests are added.
LEMMA TrueStays ==
    ASSUME NEW t, NEW u, NEW st, u.tree = t.tree, t.thumb[st].requested \subseteq u.thumb[st].requested,
           NEW h, NEW p \in Props, NEW v, TrueIn(t, st, h, p, v)
    PROVE  TrueIn(u, st, h, p, v)
<1>1. Has(u, st, h) /\ Path(u, st, h) = Path(t, st, h)
  BY SameTree DEF TrueIn
<1>2. CASE p = "sample"
  BY <1>1, <1>2 DEF TrueIn
<1>3. CASE p # "sample"
  <2>1. ValueFromStorage(u, st, h, p) = ValueFromStorage(t, st, h, p)
    BY <1>3, SameTree
  <2> QED
    BY <1>1, <1>3, <2>1 DEF TrueIn
<1> QED
  BY <1>2, <1>3

\* A change of the cache, which may be that of one entry to a value that is true
LEMMA CacheStep ==
    ASSUME NEW t, NEW u, NEW X, NEW Y, NEW U, NEW F, Valid(t, X, U, F),
           DOMAIN u = Fields, u.tree = t.tree, u.dirty = t.dirty, u.events = t.events,
           u.next = t.next, u.thumb = t.thumb, u.torn = t.torn, u.asked = t.asked, u.untold = t.untold,
           CacheGood(u),
           \A h \in DOMAIN u.cache \ u.torn : \A p \in DOMAIN u.cache[h] :
              \/ <<h, p>> \in u.stale \cup Y
              \/ \E st \in AllStores : TrueIn(t, st, h, p, u.cache[h][p])
              \/ /\ InCache(t, h, p) /\ u.cache[h][p] = t.cache[h][p]
                 /\ <<h, p>> \in t.stale \cup X => <<h, p>> \in u.stale \cup Y
    PROVE  Valid(u, Y, U, F)
<1>1. Sound(t, F) /\ EntriesTrue(t, X) /\ ChangesWait(t, U)
  BY DEF Valid
<1>2. \A st, h : Has(u, st, h) <=> Has(t, st, h)
  BY SameTree
<1>3. Sound(u, F)
  BY <1>1, <1>2 DEF Sound, RecordGood, ItemsGood, InOneStore, DirtyGood, EventsGood, AskedGood, ThumbsGood, AskedNoted
<1>4. \A h, p : Drops(u, h, p) <=> Drops(t, h, p)
  BY DEF Drops
<1>5. ChangesWait(u, U)
  BY <1>1, <1>4 DEF ChangesWait, ChangeWaits
<1>6. EntriesTrue(u, Y)
  <2> SUFFICES ASSUME NEW h \in DOMAIN u.cache \ u.torn, NEW p \in DOMAIN u.cache[h]
               PROVE  EntryTrue(u, Y, h, p)
    BY DEF EntriesTrue
  <2>1. p \in Props
    BY DEF CacheGood
  <2>2. \A st \in AllStores : \A v : TrueIn(t, st, h, p, v) => TrueIn(u, st, h, p, v)
    BY <2>1, TrueStays
  <2>3. CASE <<h, p>> \in u.stale \cup Y \/ \E st \in AllStores : TrueIn(t, st, h, p, u.cache[h][p])
    BY <2>2, <2>3 DEF EntryTrue
  <2>4. CASE /\ InCache(t, h, p) /\ u.cache[h][p] = t.cache[h][p]
             /\ <<h, p>> \in t.stale \cup X => <<h, p>> \in u.stale \cup Y
    <3>1. EntryTrue(t, X, h, p)
      BY <1>1, <2>4 DEF EntriesTrue, InCache
    <3> QED
      BY <3>1, <2>2, <2>4, <1>4 DEF EntryTrue
  <2> QED
    BY <2>3, <2>4
<1> QED
  BY <1>3, <1>5, <1>6 DEF Valid

\* X and U may be larger.
LEMMA Weaker ==
    ASSUME NEW t, NEW X, NEW Y, NEW U, NEW W, NEW F, Valid(t, X, U, F), X \subseteq Y, U \subseteq W
    PROVE  Valid(t, Y, W, F)
  BY DEF Valid, EntriesTrue, EntryTrue, ChangesWait

LEMMA FieldsOf ==
    ASSUME NEW t, NEW X, NEW U, NEW F, Valid(t, X, U, F)
    PROVE  /\ DOMAIN t = Fields /\ RecordGood(t) /\ ItemsGood(t) /\ InOneStore(t) /\ DirtyGood(t)
           /\ EventsGood(t) /\ CacheGood(t) /\ AskedGood(t) /\ ThumbsGood(t, F) /\ AskedNoted(t)
           /\ EntriesTrue(t, X) /\ ChangesWait(t, U) /\ t.next \in Nat \ {0}
           /\ DOMAIN t.tree = AllStores /\ DOMAIN t.thumb = AllStores
  BY DEF Valid, Sound, RecordGood

LEMMA OutOfDateValid ==
    ASSUME NEW t, NEW X, NEW Y, NEW U, NEW F, Valid(t, X, U, F), NEW pairs,
           \A h, p : <<h, p>> \in X => <<h, p>> \in Y \/ <<h, p>> \in pairs
    PROVE  Valid(OutOfDate(t, pairs), Y, U, F)
<1> DEFINE u == OutOfDate(t, pairs)
<1>1. DOMAIN t = Fields /\ CacheGood(t)
  BY FieldsOf
<1>2. /\ DOMAIN u = Fields /\ u.tree = t.tree /\ u.dirty = t.dirty /\ u.events = t.events
      /\ u.next = t.next /\ u.thumb = t.thumb /\ u.torn = t.torn /\ u.asked = t.asked /\ u.untold = t.untold
      /\ u.cache = t.cache /\ u.stale = t.stale \cup {q \in pairs : InCache(t, q[1], q[2])}
  BY <1>1 DEF OutOfDate, Fields
<1> HIDE DEF u
<1>3. CacheGood(u)
  BY <1>1, <1>2 DEF CacheGood
<1>4. ASSUME NEW h \in DOMAIN u.cache \ u.torn, NEW p \in DOMAIN u.cache[h]
      PROVE  /\ InCache(t, h, p) /\ u.cache[h][p] = t.cache[h][p]
             /\ <<h, p>> \in t.stale \cup X => <<h, p>> \in u.stale \cup Y
  <2>1. InCache(t, h, p)
    BY <1>2 DEF InCache
  <2>2. <<h, p>> \in pairs => <<h, p>> \in u.stale
    BY <1>2, <2>1
  <2> QED
    BY <1>2, <2>1, <2>2
<1>5. Valid(u, Y, U, F)
  BY <1>2, <1>3, <1>4, CacheStep
<1> QED
  BY <1>5 DEF u

LEMMA CacheRemoveValid ==
    ASSUME NEW t, NEW X, NEW Y, NEW U, NEW F, Valid(t, X, U, F), NEW h,
           \A k, p : <<k, p>> \in X => <<k, p>> \in Y \/ k = h
    PROVE  /\ Valid(CacheRemove(t, h), Y, U, F)
           /\ DOMAIN CacheRemove(t, h).cache = DOMAIN t.cache \ {h}
           /\ \A k \in DOMAIN t.cache \ {h} : CacheRemove(t, h).cache[k] = t.cache[k]
<1> DEFINE u == CacheRemove(t, h)
<1>1. DOMAIN t = Fields /\ CacheGood(t)
  BY FieldsOf
<1>2. /\ DOMAIN u = Fields /\ u.tree = t.tree /\ u.dirty = t.dirty /\ u.events = t.events
      /\ u.next = t.next /\ u.thumb = t.thumb /\ u.torn = t.torn /\ u.asked = t.asked /\ u.untold = t.untold
      /\ u.cache = Without(t.cache, {h}) /\ u.stale = t.stale \ ({h} \X Props)
  BY <1>1 DEF CacheRemove, Fields
<1>3. DOMAIN u.cache = DOMAIN t.cache \ {h} /\ \A k \in DOMAIN t.cache \ {h} : u.cache[k] = t.cache[k]
  BY <1>2 DEF Without
<1> HIDE DEF u
<1>4. CacheGood(u)
  BY <1>1, <1>2, <1>3 DEF CacheGood
<1>5. ASSUME NEW k \in DOMAIN u.cache \ u.torn, NEW p \in DOMAIN u.cache[k]
      PROVE  /\ InCache(t, k, p) /\ u.cache[k][p] = t.cache[k][p]
             /\ <<k, p>> \in t.stale \cup X => <<k, p>> \in u.stale \cup Y
  BY <1>2, <1>3 DEF InCache
<1>6. Valid(u, Y, U, F)
  BY <1>2, <1>4, <1>5, CacheStep
<1> QED
  BY <1>3, <1>6 DEF u

LEMMA CacheRemovePropValid ==
    ASSUME NEW t, NEW X, NEW Y, NEW U, NEW F, Valid(t, X, U, F), NEW h, NEW p \in Props,
           \A k, q : <<k, q>> \in X => <<k, q>> \in Y \/ (k = h /\ q = p)
    PROVE  Valid(CacheRemoveProp(t, h, p), Y, U, F)
<1> DEFINE u == CacheRemoveProp(t, h, p)
<1>1. DOMAIN t = Fields /\ CacheGood(t)
  BY FieldsOf
<1>2. CASE ~InCache(t, h, p)
  <2>1. u = t
    BY <1>2 DEF CacheRemoveProp
  <2>2. ASSUME NEW k \in DOMAIN t.cache \ t.torn, NEW q \in DOMAIN t.cache[k]
        PROVE  /\ InCache(t, k, q) /\ t.cache[k][q] = t.cache[k][q]
               /\ <<k, q>> \in t.stale \cup X => <<k, q>> \in t.stale \cup Y
    BY <1>2 DEF InCache
  <2>3. Valid(t, Y, U, F)
    BY <1>1, <2>2, CacheStep
  <2> QED
    BY <2>1, <2>3
<1>3. CASE InCache(t, h, p) /\ DOMAIN t.cache[h] = {p}
  <2>1. u = CacheRemove(t, h)
    BY <1>3 DEF CacheRemoveProp
  <2>2. ASSUME NEW k \in DOMAIN t.cache \ t.torn, NEW q \in DOMAIN t.cache[k]
        PROVE  /\ InCache(t, k, q) /\ t.cache[k][q] = t.cache[k][q]
               /\ <<k, q>> \in t.stale \cup X => <<k, q>> \in t.stale \cup (Y \cup ({h} \X Props))
    BY <1>1 DEF InCache, CacheGood
  <2>3. Valid(t, Y \cup ({h} \X Props), U, F)
    BY <1>1, <2>2, CacheStep
  <2>4. Valid(CacheRemove(t, h), Y, U, F)
    BY <2>3, CacheRemoveValid
  <2> QED
    BY <2>1, <2>4
<1>4. CASE InCache(t, h, p) /\ DOMAIN t.cache[h] # {p}
  <2>1. u = [t EXCEPT !.cache[h] = Without(@, {p}), !.stale = @ \ {<<h, p>>}]
    BY <1>4 DEF CacheRemoveProp
  <2>2. /\ DOMAIN u = Fields /\ u.tree = t.tree /\ u.dirty = t.dirty /\ u.events = t.events
        /\ u.next = t.next /\ u.thumb = t.thumb /\ u.torn = t.torn /\ u.asked = t.asked /\ u.untold = t.untold
        /\ u.cache = [t.cache EXCEPT ![h] = Without(@, {p})] /\ u.stale = t.stale \ {<<h, p>>}
    BY <1>1, <2>1 DEF Fields
  <2>3. /\ DOMAIN u.cache = DOMAIN t.cache /\ \A k \in DOMAIN t.cache \ {h} : u.cache[k] = t.cache[k]
        /\ u.cache[h] = Without(t.cache[h], {p})
    BY <1>4, <2>2 DEF InCache
  <2>4. DOMAIN u.cache[h] = DOMAIN t.cache[h] \ {p} /\ \A q \in DOMAIN t.cache[h] \ {p} : u.cache[h][q] = t.cache[h][q]
    BY <2>3 DEF Without
  <2> HIDE DEF u
  <2>5. CacheGood(u)
    BY <1>1, <2>2, <2>3, <2>4 DEF CacheGood
  <2>6. ASSUME NEW k \in DOMAIN u.cache \ u.torn, NEW q \in DOMAIN u.cache[k]
        PROVE  /\ InCache(t, k, q) /\ u.cache[k][q] = t.cache[k][q]
               /\ <<k, q>> \in t.stale \cup X => <<k, q>> \in u.stale \cup Y
    <3>1. k = h => q # p
      BY <2>4
    <3> QED
      BY <3>1, <2>2, <2>3, <2>4 DEF InCache
  <2>7. Valid(u, Y, U, F)
    BY <2>2, <2>5, <2>6, CacheStep
  <2> QED
    BY <2>7 DEF u
<1> QED
  BY <1>2, <1>3, <1>4

\* The values of a query are those of the storage: whatever was exempt of them is not now.
LEMMA FeedCacheValid ==
    ASSUME NEW t, NEW X, NEW Y, NEW U, NEW F, Valid(t, X, U, F), NEW st \in AllStores,
           NEW H \in SUBSET DOMAIN t.tree[st], NEW P \in SUBSET Props,
           "sample" \in P => \A h \in PicturesIn(t, st, H) :
              Path(t, st, h) \in t.thumb[st].paths \cup t.thumb[st].requested,
           \A h, p : <<h, p>> \in X => <<h, p>> \in Y \/ (h \in H /\ p \in P)
    PROVE  LET u == FeedCache(t, st, H, P)
           IN  /\ Valid(u, Y, U, F)
               /\ u.tree = t.tree /\ u.thumb = t.thumb /\ u.next = t.next /\ u.torn = t.torn
<1> DEFINE u == FeedCache(t, st, H, P)
           values == [h \in H |-> [p \in P |-> ValueFromStorage(t, st, h, p)]]
           known(h) == IF h \in DOMAIN t.cache THEN t.cache[h] ELSE <<>>
           new == [h \in DOMAIN values |-> Merge(values[h], known(h))]
<1>1. DOMAIN t = Fields /\ CacheGood(t) /\ ItemsGood(t)
  BY FieldsOf
<1>2. /\ DOMAIN u = Fields /\ u.tree = t.tree /\ u.dirty = t.dirty /\ u.events = t.events
      /\ u.next = t.next /\ u.thumb = t.thumb /\ u.torn = t.torn /\ u.asked = t.asked /\ u.untold = t.untold
      /\ u.cache = Merge(new, t.cache)
      /\ u.stale = {q \in t.stale : ~(q[1] \in DOMAIN values /\ q[2] \in DOMAIN values[q[1]])}
  BY <1>1 DEF FeedCache, CacheAdd, Fields
<1>3. DOMAIN values = H /\ \A h \in H : values[h] = [p \in P |-> ValueFromStorage(t, st, h, p)]
  OBVIOUS
<1> HIDE DEF values
<1>4. DOMAIN new = H /\ \A h \in H : new[h] = Merge(values[h], known(h))
  BY <1>3
<1> HIDE DEF new, u
<1>5. /\ DOMAIN u.cache = H \cup DOMAIN t.cache
      /\ \A h \in H : u.cache[h] = Merge(values[h], known(h))
      /\ \A h \in DOMAIN t.cache \ H : u.cache[h] = t.cache[h]
  BY <1>2, <1>4 DEF Merge
<1>6. \A h \in H : /\ DOMAIN values[h] = P
                   /\ \A p \in P : values[h][p] = ValueFromStorage(t, st, h, p)
  BY <1>3
<1>7. \A h \in H : /\ DOMAIN u.cache[h] = P \cup DOMAIN known(h)
                   /\ \A p \in P : u.cache[h][p] = ValueFromStorage(t, st, h, p)
                   /\ \A p \in DOMAIN known(h) \ P : u.cache[h][p] = known(h)[p]
  <2> HIDE DEF known
  <2> SUFFICES ASSUME NEW h \in H
               PROVE  /\ DOMAIN u.cache[h] = P \cup DOMAIN known(h)
                      /\ \A p \in P : u.cache[h][p] = ValueFromStorage(t, st, h, p)
                      /\ \A p \in DOMAIN known(h) \ P : u.cache[h][p] = known(h)[p]
    OBVIOUS
  <2>1. u.cache[h] = Merge(values[h], known(h))
    BY <1>5
  <2>2. DOMAIN values[h] = P /\ \A p \in P : values[h][p] = ValueFromStorage(t, st, h, p)
    BY <1>6
  <2> QED
    BY <2>1, <2>2 DEF Merge
<1>8. \A h \in H : \A p : p \in DOMAIN known(h) => InCache(t, h, p) /\ known(h)[p] = t.cache[h][p]
  BY DEF InCache
<1>9. CacheGood(u)
  <2>1. H \subseteq 1 .. t.next - 1
    BY <1>1 DEF ItemsGood
  <2>2. \A h \in H : DOMAIN known(h) \subseteq Props
    BY <1>1 DEF CacheGood
  <2> HIDE DEF known
  <2> QED
    BY <1>1, <1>2, <1>5, <1>7, <2>1, <2>2 DEF CacheGood
<1> HIDE DEF known
<1>10. ASSUME NEW h \in H, NEW p \in P PROVE TrueIn(t, st, h, p, ValueFromStorage(t, st, h, p))
  <2>1. Has(t, st, h)
    BY DEF Has
  <2>2. CASE p # "sample"
    BY <2>1, <2>2 DEF TrueIn
  <2>3. CASE p = "sample"
    <3>1. t.tree[st][h].name \in Pictures => Path(t, st, h) \in t.thumb[st].paths \cup t.thumb[st].requested
      BY <2>1, <2>3 DEF PicturesIn
    <3>2. ValueFromStorage(t, st, h, "sample") = (t.tree[st][h].name \in Pictures /\ Path(t, st, h) \in t.thumb[st].paths)
      BY DEF ValueFromStorage
    <3>3. \/ t.tree[st][h].name \notin Pictures \/ Path(t, st, h) \in t.thumb[st].requested
          \/ ValueFromStorage(t, st, h, "sample")
      BY <3>1, <3>2
    <3> QED
      BY <2>1, <2>3, <3>3 DEF TrueIn
  <2> QED
    BY <2>2, <2>3
<1>11. ASSUME NEW h \in DOMAIN u.cache \ u.torn, NEW p \in DOMAIN u.cache[h]
       PROVE  \/ <<h, p>> \in u.stale \cup Y
              \/ \E to \in AllStores : TrueIn(t, to, h, p, u.cache[h][p])
              \/ /\ InCache(t, h, p) /\ u.cache[h][p] = t.cache[h][p]
                 /\ <<h, p>> \in t.stale \cup X => <<h, p>> \in u.stale \cup Y
  <2>1. CASE h \in H /\ p \in P
    BY <2>1, <1>7, <1>10
  <2>2. CASE h \notin H \/ p \notin P
    <3>1. InCache(t, h, p) /\ u.cache[h][p] = t.cache[h][p]
      <4>1. CASE h \notin H
        BY <4>1, <1>5 DEF InCache
      <4>2. CASE h \in H /\ p \notin P
        BY <4>2, <1>7, <1>8
      <4> QED
        BY <4>1, <4>2, <2>2
    <3>2. <<h, p>> \in t.stale => <<h, p>> \in u.stale
      BY <1>2, <1>3, <1>6, <2>2
    <3> QED
      BY <3>1, <3>2, <2>2
  <2> QED
    BY <2>1, <2>2
<1>12. Valid(u, Y, U, F)
  BY <1>2, <1>9, <1>11, CacheStep
<1> QED
  BY <1>2, <1>12 DEF u

\* One entry is set, to what the storage would answer or so that it is exempt.
LEMMA CacheAddValid ==
    ASSUME NEW t, NEW X, NEW Y, NEW U, NEW F, Valid(t, X, U, F), NEW st \in AllStores,
           NEW h, Has(t, st, h), NEW p \in Props \ {"sample"}, NEW v,
           v = ValueFromStorage(t, st, h, p) \/ <<h, p>> \in Y,
           \A k, q : <<k, q>> \in X => <<k, q>> \in Y \/ (k = h /\ q = p)
    PROVE  LET u == CacheAdd(t, Only(h, Only(p, v)))
           IN  /\ Valid(u, Y, U, F) /\ InCache(u, h, p)
               /\ u.tree = t.tree /\ u.thumb = t.thumb
<1> DEFINE u == CacheAdd(t, Only(h, Only(p, v)))
           values == Only(h, Only(p, v))
           known(k) == IF k \in DOMAIN t.cache THEN t.cache[k] ELSE <<>>
           new == [k \in DOMAIN values |-> Merge(values[k], known(k))]
<1>1. DOMAIN t = Fields /\ CacheGood(t) /\ ItemsGood(t)
  BY FieldsOf
<1>2. /\ DOMAIN u = Fields /\ u.tree = t.tree /\ u.dirty = t.dirty /\ u.events = t.events
      /\ u.next = t.next /\ u.thumb = t.thumb /\ u.torn = t.torn /\ u.asked = t.asked /\ u.untold = t.untold
      /\ u.cache = Merge(new, t.cache)
      /\ u.stale = {q \in t.stale : ~(q[1] \in DOMAIN values /\ q[2] \in DOMAIN values[q[1]])}
  BY <1>1 DEF CacheAdd, Fields
<1>3. DOMAIN values = {h} /\ DOMAIN values[h] = {p} /\ values[h][p] = v
  BY DEF Only
<1> HIDE DEF values
<1>4. DOMAIN new = {h} /\ new[h] = Merge(values[h], known(h))
  BY <1>3
<1> HIDE DEF new, u
<1>5. /\ DOMAIN u.cache = {h} \cup DOMAIN t.cache
      /\ u.cache[h] = Merge(values[h], known(h))
      /\ \A k \in DOMAIN t.cache \ {h} : u.cache[k] = t.cache[k]
  BY <1>2, <1>4 DEF Merge
<1>6. /\ DOMAIN u.cache[h] = {p} \cup DOMAIN known(h)
      /\ u.cache[h][p] = v
      /\ \A q \in DOMAIN known(h) \ {p} : u.cache[h][q] = known(h)[q]
  BY <1>3, <1>5 DEF Merge
<1>7. \A q : q \in DOMAIN known(h) => InCache(t, h, q) /\ known(h)[q] = t.cache[h][q]
  BY DEF InCache
<1>8. CacheGood(u)
  <2>1. h \in 1 .. t.next - 1
    BY <1>1 DEF ItemsGood, Has
  <2>2. DOMAIN known(h) \subseteq Props
    BY <1>1 DEF CacheGood
  <2> HIDE DEF known
  <2> QED
    BY <1>1, <1>2, <1>5, <1>6, <2>1, <2>2 DEF CacheGood
<1> HIDE DEF known
<1>9. v = ValueFromStorage(t, st, h, p) => TrueIn(t, st, h, p, v)
  BY DEF TrueIn
<1>10. ASSUME NEW k \in DOMAIN u.cache \ u.torn, NEW q \in DOMAIN u.cache[k]
       PROVE  \/ <<k, q>> \in u.stale \cup Y
              \/ \E to \in AllStores : TrueIn(t, to, k, q, u.cache[k][q])
              \/ /\ InCache(t, k, q) /\ u.cache[k][q] = t.cache[k][q]
                 /\ <<k, q>> \in t.stale \cup X => <<k, q>> \in u.stale \cup Y
  <2>1. CASE k = h /\ q = p
    BY <2>1, <1>6, <1>9
  <2>2. CASE k # h \/ q # p
    <3>1. InCache(t, k, q) /\ u.cache[k][q] = t.cache[k][q]
      <4>1. CASE k # h
        BY <4>1, <1>5 DEF InCache
      <4>2. CASE k = h /\ q # p
        BY <4>2, <1>6, <1>7
      <4> QED
        BY <4>1, <4>2, <2>2
    <3>2. <<k, q>> \in t.stale => <<k, q>> \in u.stale
      BY <1>2, <1>3, <2>2
    <3> QED
      BY <3>1, <3>2, <2>2
  <2> QED
    BY <2>1, <2>2
<1>11. Valid(u, Y, U, F)
  BY <1>2, <1>8, <1>10, CacheStep
<1>12. InCache(u, h, p)
  BY <1>5, <1>6 DEF InCache
<1> QED
  BY <1>2, <1>11, <1>12 DEF u

-----------------------------------------------------------------------------
(* Notifications, and the interest of the initiator.                       *)

LEMMA EmitAllFacts ==
    ASSUME NEW t, DOMAIN t = Fields, EventsGood(t), NEW kind \in EventKinds, NEW order \in Seq(Int)
    PROVE  LET u == EmitAll(t, kind, order)
           IN  /\ DOMAIN u = Fields /\ u.tree = t.tree /\ u.dirty = t.dirty /\ u.cache = t.cache
               /\ u.next = t.next /\ u.thumb = t.thumb /\ u.torn = t.torn /\ u.asked = t.asked
               /\ u.untold = t.untold /\ u.stale = t.stale
               /\ EventsGood(u)
               /\ \A h, p : Drops(t, h, p) => Drops(u, h, p)
               /\ \A i \in DOMAIN order : \A p : kind \in {"info", "removed"} => Drops(u, order[i], p)
<1> DEFINE u == EmitAll(t, kind, order)
           more == [i \in DOMAIN order |-> [kind |-> kind, handle |-> order[i]]]
           Event == [kind : EventKinds, handle : Int]
<1>1. /\ DOMAIN u = Fields /\ u.tree = t.tree /\ u.dirty = t.dirty /\ u.cache = t.cache
      /\ u.next = t.next /\ u.thumb = t.thumb /\ u.torn = t.torn /\ u.asked = t.asked
      /\ u.untold = t.untold /\ u.stale = t.stale
      /\ u.events = t.events \o more
  BY DEF EmitAll, Fields
<1>2. DOMAIN order = 1 .. Len(order) /\ Len(order) \in Nat /\ \A i \in 1 .. Len(order) : order[i] \in Int
  OBVIOUS
<1>3. more \in [1 .. Len(order) -> Event]
  BY <1>2
<1>4. \A i \in 1 .. Len(order) : more[i].kind = kind /\ more[i].handle = order[i]
  BY <1>2
<1> HIDE DEF more, Event, u
<1>5. more \in Seq(Event) /\ Len(more) = Len(order)
  BY <1>2, <1>3, SeqDef
<1>6. t.events \in Seq(Event)
  BY DEF EventsGood, Event
<1>7. EventsGood(u)
  <2>1. u.events \in Seq(Event)
    BY <1>1, <1>5, <1>6
  <2> QED
    BY <2>1 DEF EventsGood, Event
<1>8. /\ DOMAIN u.events = 1 .. Len(t.events) + Len(order) /\ Len(t.events) \in Nat
      /\ DOMAIN t.events = 1 .. Len(t.events)
      /\ \A i \in 1 .. Len(t.events) : u.events[i] = t.events[i]
      /\ \A i \in 1 .. Len(order) : u.events[Len(t.events) + i] = more[i]
  <2>1. Len(t.events) \in Nat /\ DOMAIN t.events = 1 .. Len(t.events)
    BY <1>6
  <2>2. DOMAIN u.events = 1 .. Len(t.events) + Len(order)
    <3>1. t.events \o more \in Seq(Event) /\ Len(t.events \o more) = Len(t.events) + Len(more)
      BY <1>5, <1>6
    <3>2. DOMAIN (t.events \o more) = 1 .. Len(t.events \o more)
      BY <3>1
    <3> QED
      BY <1>1, <1>5, <3>1, <3>2
  <2>3. \A i \in 1 .. Len(t.events) : u.events[i] = t.events[i]
    BY <1>1, <1>5, <1>6, <2>1
  <2>4. ASSUME NEW i \in 1 .. Len(order) PROVE u.events[Len(t.events) + i] = more[i]
    <3>1. Len(t.events) + i \in 1 .. Len(t.events) + Len(more) /\ ~(Len(t.events) + i <= Len(t.events))
      BY <2>1, <1>2, <1>5
    <3>2. (t.events \o more)[Len(t.events) + i] = more[Len(t.events) + i - Len(t.events)]
      BY <3>1, <1>5, <1>6
    <3>3. Len(t.events) + i - Len(t.events) = i
      BY <2>1, <1>2
    <3> QED
      BY <1>1, <3>2, <3>3
  <2> QED
    BY <2>1, <2>2, <2>3, <2>4
<1>9. \A h, p : Drops(t, h, p) => Drops(u, h, p)
  <2>1. DOMAIN t.events \subseteq DOMAIN u.events
    BY <1>8, <1>2
  <2> QED
    BY <1>8, <2>1 DEF Drops
<1>10. ASSUME NEW i \in DOMAIN order, kind \in {"info", "removed"} PROVE \A p : Drops(u, order[i], p)
  <2>1. Len(t.events) + i \in DOMAIN u.events
    BY <1>2, <1>8
  <2>2. u.events[Len(t.events) + i].kind = kind /\ u.events[Len(t.events) + i].handle = order[i]
    BY <1>2, <1>4, <1>8
  <2> QED
    BY <2>1, <2>2, <1>10 DEF Drops
<1> QED
  BY <1>1, <1>7, <1>9, <1>10 DEF u

\* A notification drops the entries of the objects it is of, and tells of them.
LEMMA EmitAllValid ==
    ASSUME NEW t, NEW X, NEW Y, NEW U, NEW W, NEW F, Valid(t, X, U, F),
           NEW kind \in EventKinds, NEW order \in Seq(Int),
           \A h, p : <<h, p>> \in X => \/ <<h, p>> \in Y
                                       \/ kind \in {"info", "removed"} /\ \E i \in DOMAIN order : order[i] = h,
           \A h \in U : \/ h \in W
                        \/ kind \in {"info", "removed"} /\ \E i \in DOMAIN order : order[i] = h
    PROVE  Valid(EmitAll(t, kind, order), Y, W, F)
<1> DEFINE u == EmitAll(t, kind, order)
<1>1. Sound(t, F) /\ EntriesTrue(t, X) /\ ChangesWait(t, U) /\ DOMAIN t = Fields /\ EventsGood(t)
  BY FieldsOf DEF Valid
<1>2. /\ DOMAIN u = Fields /\ u.tree = t.tree /\ u.dirty = t.dirty /\ u.cache = t.cache
      /\ u.next = t.next /\ u.thumb = t.thumb /\ u.torn = t.torn /\ u.asked = t.asked
      /\ u.untold = t.untold /\ u.stale = t.stale
      /\ EventsGood(u)
      /\ \A h, p : Drops(t, h, p) => Drops(u, h, p)
      /\ \A i \in DOMAIN order : \A p : kind \in {"info", "removed"} => Drops(u, order[i], p)
  BY <1>1, EmitAllFacts
<1> HIDE DEF u
<1>3. \A st, h : Has(u, st, h) <=> Has(t, st, h)
  BY <1>2, SameTree
<1>4. Sound(u, F)
  BY <1>1, <1>2, <1>3 DEF Sound, RecordGood, ItemsGood, InOneStore, DirtyGood, CacheGood, AskedGood, ThumbsGood, AskedNoted
<1>5. ChangesWait(u, W)
  <2> SUFFICES ASSUME NEW h \in u.untold \ (u.torn \cup W) PROVE ChangeWaits(u, h)
    BY DEF ChangesWait
  <2>1. CASE h \in U
    BY <1>2, <2>1 DEF ChangeWaits
  <2>2. CASE h \notin U
    <3>1. ChangeWaits(t, h)
      BY <1>1, <1>2, <2>2 DEF ChangesWait
    <3> QED
      BY <3>1, <1>2 DEF ChangeWaits
  <2> QED
    BY <2>1, <2>2
<1>6. EntriesTrue(u, Y)
  <2> SUFFICES ASSUME NEW h \in DOMAIN u.cache \ u.torn, NEW p \in DOMAIN u.cache[h]
               PROVE  EntryTrue(u, Y, h, p)
    BY DEF EntriesTrue
  <2>1. EntryTrue(t, X, h, p) /\ p \in Props
    BY <1>1, <1>2 DEF EntriesTrue, Sound, CacheGood
  <2>2. \A st \in AllStores : \A v : TrueIn(t, st, h, p, v) => TrueIn(u, st, h, p, v)
    BY <1>2, <2>1, TrueStays
  <2> QED
    BY <1>2, <2>1, <2>2 DEF EntryTrue
<1>7. Valid(u, Y, W, F)
  BY <1>4, <1>5, <1>6 DEF Valid
<1> QED
  BY <1>7 DEF u

LEMMA EmitValid ==
    ASSUME NEW t, NEW X, NEW Y, NEW U, NEW W, NEW F, Valid(t, X, U, F),
           NEW kind \in EventKinds, NEW h \in Int,
           \A k, p : <<k, p>> \in X => <<k, p>> \in Y \/ (kind \in {"info", "removed"} /\ k = h),
           \A k \in U : k \in W \/ (kind \in {"info", "removed"} /\ k = h)
    PROVE  /\ Valid(Emit(t, kind, h), Y, W, F)
           /\ Emit(t, kind, h).tree = t.tree /\ Emit(t, kind, h).torn = t.torn
           /\ \A k, p : Drops(t, k, p) => Drops(Emit(t, kind, h), k, p)
           /\ kind \in {"info", "removed"} => \A p : Drops(Emit(t, kind, h), h, p)
<1> DEFINE order == <<h>>
<1>1. order \in Seq(Int) /\ DOMAIN order = {1} /\ order[1] = h
  OBVIOUS
<1> HIDE DEF order
<1>2. \E i \in DOMAIN order : order[i] = h
  BY <1>1
<1>3. Valid(EmitAll(t, kind, order), Y, W, F)
  BY <1>1, <1>2, EmitAllValid
<1>4. DOMAIN t = Fields /\ EventsGood(t)
  BY FieldsOf
<1>5. /\ EmitAll(t, kind, order).tree = t.tree /\ EmitAll(t, kind, order).torn = t.torn
      /\ \A k, p : Drops(t, k, p) => Drops(EmitAll(t, kind, order), k, p)
      /\ \A i \in DOMAIN order : \A p : kind \in {"info", "removed"} => Drops(EmitAll(t, kind, order), order[i], p)
  BY <1>1, <1>4, EmitAllFacts
<1>6. Emit(t, kind, h) = EmitAll(t, kind, order)
  BY DEF Emit, order
<1> QED
  BY <1>1, <1>3, <1>5, <1>6

\* What changes asked and untold only
LEMMA InterestStep ==
    ASSUME NEW t, NEW u, NEW X, NEW U, NEW W, NEW F, Valid(t, X, U, F),
           DOMAIN u = Fields, u.tree = t.tree, u.dirty = t.dirty, u.events = t.events, u.cache = t.cache,
           u.next = t.next, u.thumb = t.thumb, u.torn = t.torn, u.stale = t.stale,
           AskedGood(u), AskedNoted(u),
           \A h \in u.untold \ (u.torn \cup W) : h \in t.untold \ U \/ ChangeWaits(t, h)
    PROVE  Valid(u, X, W, F)
<1>1. Sound(t, F) /\ EntriesTrue(t, X) /\ ChangesWait(t, U)
  BY DEF Valid
<1>2. \A st, h : Has(u, st, h) <=> Has(t, st, h)
  BY SameTree
<1>3. Sound(u, F)
  BY <1>1, <1>2 DEF Sound, RecordGood, ItemsGood, InOneStore, DirtyGood, EventsGood, CacheGood, ThumbsGood
<1>4. \A h, p : Drops(u, h, p) <=> Drops(t, h, p)
  BY DEF Drops
<1>5. ChangesWait(u, W)
  <2> SUFFICES ASSUME NEW h \in u.untold \ (u.torn \cup W) PROVE ChangeWaits(u, h)
    BY DEF ChangesWait
  <2>1. ChangeWaits(t, h)
    BY <1>1 DEF ChangesWait
  <2> QED
    BY <2>1, <1>4 DEF ChangeWaits
<1>6. EntriesTrue(u, X)
  <2> SUFFICES ASSUME NEW h \in DOMAIN u.cache \ u.torn, NEW p \in DOMAIN u.cache[h]
               PROVE  EntryTrue(u, X, h, p)
    BY DEF EntriesTrue
  <2>1. EntryTrue(t, X, h, p) /\ p \in Props
    BY <1>1 DEF EntriesTrue, Sound, CacheGood
  <2>2. \A st \in AllStores : \A v : TrueIn(t, st, h, p, v) => TrueIn(u, st, h, p, v)
    BY <2>1, TrueStays
  <2> QED
    BY <1>4, <2>1, <2>2 DEF EntryTrue
<1> QED
  BY <1>3, <1>5, <1>6 DEF Valid

LEMMA AskValid ==
    ASSUME NEW t, NEW X, NEW U, NEW F, Valid(t, X, U, F), NEW h \in 1 .. t.next - 1,
           h \notin t.torn => \A st \in AllStores : Has(t, st, h) => t.tree[st][h].on
    PROVE  Valid(Ask(t, h), X, U, F)
<1> DEFINE u == Ask(t, h)
<1>1. DOMAIN t = Fields /\ AskedGood(t) /\ AskedNoted(t)
  BY FieldsOf
<1>2. /\ DOMAIN u = Fields /\ u.tree = t.tree /\ u.dirty = t.dirty /\ u.events = t.events
      /\ u.cache = t.cache /\ u.next = t.next /\ u.thumb = t.thumb /\ u.torn = t.torn
      /\ u.stale = t.stale /\ u.untold = t.untold /\ u.asked = t.asked \cup {h}
  BY <1>1 DEF Ask, Fields
<1> HIDE DEF u
<1>3. AskedGood(u)
  BY <1>1, <1>2 DEF AskedGood
<1>4. AskedNoted(u)
  BY <1>1, <1>2 DEF AskedNoted, Has
<1>5. \A k \in u.untold \ (u.torn \cup U) : k \in t.untold \ U \/ ChangeWaits(t, k)
  BY <1>2
<1>6. Valid(u, X, U, F)
  BY <1>2, <1>3, <1>4, <1>5, InterestStep
<1> QED
  BY <1>6 DEF u

LEMMA ForgetValid ==
    ASSUME NEW t, NEW X, NEW U, NEW W, NEW F, Valid(t, X, U, F), NEW H, U \subseteq W \cup H
    PROVE  /\ Valid(Forget(t, H), X, W, F)
           /\ Forget(t, H).tree = t.tree /\ Forget(t, H).thumb = t.thumb /\ Forget(t, H).next = t.next
           /\ Forget(t, H).torn = t.torn /\ Forget(t, H).asked = t.asked \ H
<1> DEFINE u == Forget(t, H)
<1>1. DOMAIN t = Fields /\ AskedGood(t) /\ AskedNoted(t)
  BY FieldsOf
<1>2. /\ DOMAIN u = Fields /\ u.tree = t.tree /\ u.dirty = t.dirty /\ u.events = t.events
      /\ u.cache = t.cache /\ u.next = t.next /\ u.thumb = t.thumb /\ u.torn = t.torn
      /\ u.stale = t.stale /\ u.untold = t.untold \ H /\ u.asked = t.asked \ H
  BY <1>1 DEF Forget, Fields
<1> HIDE DEF u
<1>3. AskedGood(u)
  BY <1>1, <1>2 DEF AskedGood
<1>4. AskedNoted(u)
  BY <1>1, <1>2 DEF AskedNoted, Has
<1>5. \A k \in u.untold \ (u.torn \cup W) : k \in t.untold \ U \/ ChangeWaits(t, k)
  BY <1>2
<1>6. Valid(u, X, W, F)
  BY <1>2, <1>3, <1>4, <1>5, InterestStep
<1> QED
  BY <1>2, <1>6 DEF u

LEMMA ChangedValid ==
    ASSUME NEW t, NEW X, NEW U, NEW F, Valid(t, X, U, F), NEW H, NEW W, U \subseteq W,
           \A h \in H \cap t.asked : h \in W \/ h \in t.torn \/ ChangeWaits(t, h)
    PROVE  /\ Valid(Changed(t, H), X, W, F)
           /\ Changed(t, H).tree = t.tree
<1> DEFINE u == Changed(t, H)
<1>1. DOMAIN t = Fields /\ AskedGood(t) /\ AskedNoted(t)
  BY FieldsOf
<1>2. /\ DOMAIN u = Fields /\ u.tree = t.tree /\ u.dirty = t.dirty /\ u.events = t.events
      /\ u.cache = t.cache /\ u.next = t.next /\ u.thumb = t.thumb /\ u.torn = t.torn
      /\ u.stale = t.stale /\ u.untold = t.untold \cup (H \cap t.asked) /\ u.asked = t.asked
  BY <1>1 DEF Changed, Fields
<1> HIDE DEF u
<1>3. AskedGood(u)
  BY <1>1, <1>2 DEF AskedGood
<1>4. AskedNoted(u)
  BY <1>1, <1>2 DEF AskedNoted, Has
<1>5. \A k \in u.untold \ (u.torn \cup W) : k \in t.untold \ U \/ ChangeWaits(t, k)
  BY <1>2
<1>6. Valid(u, X, W, F)
  BY <1>2, <1>3, <1>4, <1>5, InterestStep
<1> QED
  BY <1>2, <1>6 DEF u

-----------------------------------------------------------------------------
(* The thumbnailers.                                                       *)

LEMMA ScheduleGood ==
    ASSUME NEW th, NEW f, DOMAIN th = ThumbFields, th.fetching \subseteq f
    PROVE  LET u == ScheduleThumbnailing(th)
           IN  ThumbGood(u, f) /\ u.requested = th.requested /\ u.paths = th.paths
  BY DEF ScheduleThumbnailing, ThumbGood, ThumbFields

\* Requests are added, and what was asked for stays so.
LEMMA RequestGood ==
    ASSUME NEW th, NEW f, ThumbGood(th, f), NEW G
    PROVE  LET u == RequestThumbnails(th, G)
           IN  /\ ThumbGood(u, f) /\ th.requested \subseteq u.requested /\ u.paths = th.paths
               /\ G \subseteq u.paths \cup u.requested
<1> DEFINE u == RequestThumbnails(th, G)
           new == G \ (th.paths \cup th.requested)
           v == [th EXCEPT !.requested = @ \cup new, !.queue = @ \cup new]
<1>1. CASE new = {}
  <2>1. u = th /\ G \subseteq th.paths \cup th.requested
    BY <1>1 DEF RequestThumbnails
  <2> QED
    BY <2>1
<1>2. CASE new # {}
  <2>1. u = ScheduleThumbnailing(v)
    BY <1>2 DEF RequestThumbnails
  <2>2. /\ DOMAIN v = ThumbFields /\ v.fetching = th.fetching /\ v.paths = th.paths
        /\ v.requested = th.requested \cup new
    BY DEF ThumbGood, ThumbFields
  <2>3. th.fetching \subseteq f
    BY DEF ThumbGood
  <2> HIDE DEF v
  <2>4. ThumbGood(ScheduleThumbnailing(v), f) /\ ScheduleThumbnailing(v).requested = v.requested
        /\ ScheduleThumbnailing(v).paths = v.paths
    BY <2>2, <2>3, ScheduleGood
  <2> QED
    BY <2>1, <2>2, <2>4
<1> QED
  BY <1>1, <1>2

LEMMA SuspendGood ==
    ASSUME NEW th, NEW f, ThumbGood(th, f)
    PROVE  LET u == SuspendThumbnailing(th)
           IN  ThumbGood(u, f) /\ u.requested = th.requested
<1> DEFINE v == [th EXCEPT !.suspended = TRUE]
<1>1. DOMAIN v = ThumbFields /\ v.fetching = th.fetching /\ v.requested = th.requested /\ th.fetching \subseteq f
  BY DEF ThumbGood, ThumbFields
<1>2. SuspendThumbnailing(th) = IF th.suspended THEN th ELSE ScheduleThumbnailing(v)
  BY DEF SuspendThumbnailing
<1> HIDE DEF v
<1>3. ThumbGood(ScheduleThumbnailing(v), f) /\ ScheduleThumbnailing(v).requested = v.requested
  BY <1>1, ScheduleGood
<1> QED
  BY <1>1, <1>2, <1>3

LEMMA ResumeGood ==
    ASSUME NEW th, NEW f, ThumbGood(th, f)
    PROVE  LET u == ResumeThumbnailing(th)
           IN  ThumbGood(u, f) /\ u.requested = th.requested
<1> DEFINE v == [th EXCEPT !.suspended = FALSE]
<1>1. DOMAIN v = ThumbFields /\ v.fetching = th.fetching /\ v.requested = th.requested /\ th.fetching \subseteq f
  BY DEF ThumbGood, ThumbFields
<1>2. ResumeThumbnailing(th) = IF th.suspended THEN ScheduleThumbnailing(v) ELSE th
  BY DEF ResumeThumbnailing
<1> HIDE DEF v
<1>3. ThumbGood(ScheduleThumbnailing(v), f) /\ ScheduleThumbnailing(v).requested = v.requested
  BY <1>1, ScheduleGood
<1> QED
  BY <1>1, <1>2, <1>3

LEMMA SlotGood ==
    ASSUME NEW th, NEW f, ThumbGood(th, f), NEW g
    PROVE  /\ ThumbGood(SlotFailed(th, g), f) /\ SlotFailed(th, g).requested = th.requested
           /\ ThumbGood(SlotReady(th, g), f)
           /\ ~Expected(th, g) => SlotReady(th, g).requested = th.requested
           /\ SlotReady(th, g).requested \subseteq th.requested
           /\ th.requested \subseteq SlotReady(th, g).requested \cup {g}
  BY DEF ThumbGood, ThumbFields, SlotFailed, SlotReady, Expected

\* The timer fetches only when it is running.
LEMMA TimeoutGood ==
    ASSUME NEW th, NEW f, ThumbGood(th, f), th.timer
    PROVE  LET u == ThumbnailDelayTimeout(th)
           IN  ThumbGood(u, u.fetching) /\ u.requested = th.requested /\ ~th.suspended
  BY DEF ThumbGood, ThumbFields, ThumbnailDelayTimeout

\* What changes the thumbnailers only, and drops no request
LEMMA ThumbStep ==
    ASSUME NEW t, NEW u, NEW X, NEW U, NEW F, NEW G, Valid(t, X, U, F),
           DOMAIN u = Fields, u.tree = t.tree, u.dirty = t.dirty, u.events = t.events, u.cache = t.cache,
           u.next = t.next, u.torn = t.torn, u.stale = t.stale, u.asked = t.asked, u.untold = t.untold,
           DOMAIN u.thumb = AllStores, ThumbsGood(u, G),
           \A st \in AllStores : t.thumb[st].requested \subseteq u.thumb[st].requested
    PROVE  Valid(u, X, U, G)
<1>1. Sound(t, F) /\ EntriesTrue(t, X) /\ ChangesWait(t, U)
  BY DEF Valid
<1>2. \A st, h : Has(u, st, h) <=> Has(t, st, h)
  BY SameTree
<1>3. Sound(u, G)
  BY <1>1, <1>2 DEF Sound, RecordGood, ItemsGood, InOneStore, DirtyGood, EventsGood, CacheGood, AskedGood, AskedNoted
<1>4. \A h, p : Drops(u, h, p) <=> Drops(t, h, p)
  BY DEF Drops
<1>5. ChangesWait(u, U)
  BY <1>1, <1>4 DEF ChangesWait, ChangeWaits
<1>6. EntriesTrue(u, X)
  <2> SUFFICES ASSUME NEW h \in DOMAIN u.cache \ u.torn, NEW p \in DOMAIN u.cache[h]
               PROVE  EntryTrue(u, X, h, p)
    BY DEF EntriesTrue
  <2>1. EntryTrue(t, X, h, p) /\ p \in Props
    BY <1>1 DEF EntriesTrue, Sound, CacheGood
  <2>2. \A st \in AllStores : \A v : TrueIn(t, st, h, p, v) => TrueIn(u, st, h, p, v)
    BY <2>1, TrueStays
  <2> QED
    BY <1>4, <2>1, <2>2 DEF EntryTrue
<1> QED
  BY <1>3, <1>5, <1>6 DEF Valid

LEMMA RequestSamplesValid ==
    ASSUME NEW t, NEW X, NEW U, NEW F, Valid(t, X, U, F), NEW st \in AllStores, NEW H
    PROVE  LET u == RequestSamples(t, st, H)
           IN  /\ Valid(u, X, U, F)
               /\ DOMAIN u = Fields /\ u.tree = t.tree /\ u.next = t.next /\ u.torn = t.torn
               /\ u.asked = t.asked /\ u.cache = t.cache /\ u.events = t.events /\ u.dirty = t.dirty
               /\ \A h \in PicturesIn(u, st, H) : Path(u, st, h) \in u.thumb[st].paths \cup u.thumb[st].requested
<1> DEFINE u == RequestSamples(t, st, H)
           wanted == {Path(t, st, h) : h \in PicturesIn(t, st, H)}
<1>1. DOMAIN t = Fields /\ ThumbsGood(t, F) /\ DOMAIN t.thumb = AllStores
  BY FieldsOf
<1>2. /\ DOMAIN u = Fields /\ u.tree = t.tree /\ u.dirty = t.dirty /\ u.events = t.events
      /\ u.cache = t.cache /\ u.next = t.next /\ u.torn = t.torn /\ u.stale = t.stale
      /\ u.asked = t.asked /\ u.untold = t.untold
      /\ u.thumb = [t.thumb EXCEPT ![st] = RequestThumbnails(@, wanted)]
  BY <1>1 DEF RequestSamples, Fields
<1> HIDE DEF u, wanted
<1>3. /\ DOMAIN u.thumb = AllStores /\ u.thumb[st] = RequestThumbnails(t.thumb[st], wanted)
      /\ \A to \in AllStores \ {st} : u.thumb[to] = t.thumb[to]
  BY <1>1, <1>2
<1>4. /\ ThumbGood(u.thumb[st], F[st]) /\ t.thumb[st].requested \subseteq u.thumb[st].requested
      /\ wanted \subseteq u.thumb[st].paths \cup u.thumb[st].requested
  BY <1>1, <1>3, RequestGood DEF ThumbsGood
<1>5. ThumbsGood(u, F)
  BY <1>1, <1>3, <1>4 DEF ThumbsGood
<1>6. Valid(u, X, U, F)
  BY <1>2, <1>3, <1>4, <1>5, ThumbStep
<1>7. PicturesIn(u, st, H) = PicturesIn(t, st, H)
  BY <1>2 DEF PicturesIn, Has
<1>8. \A h \in PicturesIn(u, st, H) : Path(u, st, h) \in u.thumb[st].paths \cup u.thumb[st].requested
  BY <1>2, <1>4, <1>7, SameTree DEF wanted
<1> QED
  BY <1>2, <1>6, <1>8 DEF u

\* An operation suspends the thumbnailers, and the idle responder resumes them.
LEMMA SuspendValid ==
    ASSUME NEW t, NEW X, NEW U, NEW F, Valid(t, X, U, F)
    PROVE  Valid(Thumbs(t, SuspendThumbnailing), X, U, F)
<1> DEFINE u == Thumbs(t, SuspendThumbnailing)
<1>1. DOMAIN t = Fields /\ ThumbsGood(t, F) /\ DOMAIN t.thumb = AllStores
  BY FieldsOf
<1>2. /\ DOMAIN u = Fields /\ u.tree = t.tree /\ u.dirty = t.dirty /\ u.events = t.events
      /\ u.cache = t.cache /\ u.next = t.next /\ u.torn = t.torn /\ u.stale = t.stale
      /\ u.asked = t.asked /\ u.untold = t.untold
      /\ u.thumb = [st \in DOMAIN t.thumb |-> SuspendThumbnailing(t.thumb[st])]
  BY <1>1 DEF Thumbs, Fields
<1> HIDE DEF u
<1>3. \A st \in AllStores : /\ ThumbGood(SuspendThumbnailing(t.thumb[st]), F[st])
                            /\ SuspendThumbnailing(t.thumb[st]).requested = t.thumb[st].requested
  BY <1>1, SuspendGood DEF ThumbsGood
<1>4. DOMAIN u.thumb = AllStores /\ \A st \in AllStores : u.thumb[st] = SuspendThumbnailing(t.thumb[st])
  BY <1>1, <1>2
<1>5. ThumbsGood(u, F) /\ \A st \in AllStores : t.thumb[st].requested \subseteq u.thumb[st].requested
  BY <1>3, <1>4 DEF ThumbsGood
<1>6. Valid(u, X, U, F)
  BY <1>2, <1>4, <1>5, ThumbStep
<1> QED
  BY <1>6 DEF u

LEMMA ResumeValid ==
    ASSUME NEW t, NEW X, NEW U, NEW F, Valid(t, X, U, F)
    PROVE  Valid(Thumbs(t, ResumeThumbnailing), X, U, F)
<1> DEFINE u == Thumbs(t, ResumeThumbnailing)
<1>1. DOMAIN t = Fields /\ ThumbsGood(t, F) /\ DOMAIN t.thumb = AllStores
  BY FieldsOf
<1>2. /\ DOMAIN u = Fields /\ u.tree = t.tree /\ u.dirty = t.dirty /\ u.events = t.events
      /\ u.cache = t.cache /\ u.next = t.next /\ u.torn = t.torn /\ u.stale = t.stale
      /\ u.asked = t.asked /\ u.untold = t.untold
      /\ u.thumb = [st \in DOMAIN t.thumb |-> ResumeThumbnailing(t.thumb[st])]
  BY <1>1 DEF Thumbs, Fields
<1> HIDE DEF u
<1>3. \A st \in AllStores : /\ ThumbGood(ResumeThumbnailing(t.thumb[st]), F[st])
                            /\ ResumeThumbnailing(t.thumb[st]).requested = t.thumb[st].requested
  BY <1>1, ResumeGood DEF ThumbsGood
<1>4. DOMAIN u.thumb = AllStores /\ \A st \in AllStores : u.thumb[st] = ResumeThumbnailing(t.thumb[st])
  BY <1>1, <1>2
<1>5. ThumbsGood(u, F) /\ \A st \in AllStores : t.thumb[st].requested \subseteq u.thumb[st].requested
  BY <1>3, <1>4 DEF ThumbsGood
<1>6. Valid(u, X, U, F)
  BY <1>2, <1>4, <1>5, ThumbStep
<1> QED
  BY <1>6 DEF u

-----------------------------------------------------------------------------
(* What changes the tree.                                                  *)

\* Object h in storage st of t has in storage to of u the same property p.
Same(t, st, u, to, h, p) ==
    /\ Has(u, to, h)
    /\ IF p = "sample"
       THEN /\ u.tree[to][h].name = t.tree[st][h].name /\ Path(u, to, h) = Path(t, st, h)
            /\ t.thumb[st].requested \subseteq u.thumb[to].requested
       ELSE ValueFromStorage(u, to, h, p) = ValueFromStorage(t, st, h, p)

LEMMA EntriesOfTree ==
    ASSUME NEW t, NEW u, NEW X, NEW Y, EntriesTrue(t, X), CacheGood(t), X \subseteq Y,
           u.cache = t.cache, u.stale = t.stale, u.events = t.events, t.torn \subseteq u.torn,
           \A st \in AllStores : \A h \in DOMAIN t.tree[st] \ u.torn : \A p \in Props :
              <<h, p>> \in Y \/ \E to \in AllStores : Same(t, st, u, to, h, p)
    PROVE  EntriesTrue(u, Y)
<1> SUFFICES ASSUME NEW h \in DOMAIN u.cache \ u.torn, NEW p \in DOMAIN u.cache[h]
             PROVE  EntryTrue(u, Y, h, p)
  BY DEF EntriesTrue
<1>1. EntryTrue(t, X, h, p) /\ p \in Props
  BY DEF EntriesTrue, CacheGood
<1>2. CASE <<h, p>> \in t.stale \cup X \/ Drops(t, h, p)
  BY <1>2 DEF EntryTrue, Drops
<1>3. CASE \E st \in AllStores : TrueIn(t, st, h, p, t.cache[h][p])
  <2>1. PICK st \in AllStores : TrueIn(t, st, h, p, t.cache[h][p])
    BY <1>3
  <2>2. h \in DOMAIN t.tree[st] \ u.torn
    BY <2>1 DEF TrueIn, Has
  <2>3. ASSUME NEW to \in AllStores, Same(t, st, u, to, h, p)
        PROVE  TrueIn(u, to, h, p, u.cache[h][p])
    <3>1. CASE p = "sample"
      BY <3>1, <2>1, <2>3 DEF TrueIn, Same
    <3>2. CASE p # "sample"
      BY <3>2, <2>1, <2>3 DEF TrueIn, Same
    <3> QED
      BY <3>1, <3>2
  <2> QED
    BY <1>1, <2>2, <2>3 DEF EntryTrue
<1> QED
  BY <1>1, <1>2, <1>3 DEF EntryTrue

\* An item has the same values when it is as it was.
LEMMA SameValues ==
    ASSUME NEW t, NEW u, NEW st, NEW to, NEW h, Has(u, to, h),
           NEW p \in Props \ {"sample"},
           p = "parent" => u.tree[to][h].parent = t.tree[st][h].parent,
           p = "name" => u.tree[to][h].name = t.tree[st][h].name,
           p = "store" => to = st,
           p = "content" => u.tree[to][h].size = t.tree[st][h].size
    PROVE  Same(t, st, u, to, h, p)
  BY DEF Same, ValueFromStorage, Props, InfoProps

\* Items stay in their folders and keep their names.
LEMMA EntriesOfItems ==
    ASSUME NEW t, NEW u, NEW X, NEW Y, RecordGood(t), ItemsGood(t), EntriesTrue(t, X), CacheGood(t), X \subseteq Y,
           u.cache = t.cache, u.stale = t.stale, u.events = t.events, t.torn = u.torn, u.thumb = t.thumb,
           \A st \in AllStores :
              /\ DOMAIN u.tree[st] = DOMAIN t.tree[st]
              /\ \A h \in DOMAIN t.tree[st] :
                    /\ u.tree[st][h].parent = t.tree[st][h].parent
                    /\ u.tree[st][h].name = t.tree[st][h].name
                    /\ u.tree[st][h].size = t.tree[st][h].size \/ <<h, "content">> \in Y \/ h \in u.torn
    PROVE  EntriesTrue(u, Y) /\ \A st \in AllStores : \A h \in DOMAIN t.tree[st] : Path(u, st, h) = Path(t, st, h)
<1>1. ASSUME NEW st \in AllStores PROVE \A h \in DOMAIN t.tree[st] : Path(u, st, h) = Path(t, st, h)
  <2> DEFINE K == DOMAIN t.tree[st]
  <2>1. Root \notin K
    BY RootIsNone
  <2>2. \A k \in K : /\ u.tree[st][k].parent = t.tree[st][k].parent
                     /\ u.tree[st][k].name = t.tree[st][k].name
                     /\ t.tree[st][k].parent \in K \cup {Root}
    BY DEF ItemsGood, ItemGood
  <2>3. K = DOMAIN u.tree[st]
    OBVIOUS
  <2> QED
    BY <2>1, <2>2, <2>3, SamePaths
<1>2. ASSUME NEW st \in AllStores, NEW h \in DOMAIN t.tree[st] \ u.torn, NEW p \in Props, <<h, p>> \notin Y
      PROVE  Same(t, st, u, st, h, p)
  <2>1. Has(u, st, h)
    BY DEF Has
  <2>2. CASE p = "sample"
    BY <2>1, <2>2, <1>1 DEF Same
  <2>3. CASE p # "sample"
    BY <2>1, <2>3, <1>2, SameValues
  <2> QED
    BY <2>2, <2>3
<1> QED
  BY <1>1, <1>2, EntriesOfTree

LEMMA SetOnFacts ==
    ASSUME NEW items, NEW H, NEW on \in BOOLEAN, \A h \in DOMAIN items : DOMAIN items[h] = ItemFields
    PROVE  LET new == SetOn(items, H, on)
           IN  /\ DOMAIN new = DOMAIN items
               /\ \A h \in DOMAIN items :
                     /\ DOMAIN new[h] = ItemFields
                     /\ new[h].parent = items[h].parent /\ new[h].name = items[h].name
                     /\ new[h].dir = items[h].dir
                     /\ new[h].size = items[h].size /\ new[h].content = items[h].content
                     /\ h \in H => new[h].on = on
                     /\ h \notin H => new[h].on = items[h].on
  BY DEF SetOn, ItemFields

\* Items become noted or not, and some of the objects asked about are forgotten.
LEMMA NoteStep ==
    ASSUME NEW t, NEW u, NEW X, NEW U, NEW F, Valid(t, X, U, F),
           DOMAIN u = Fields, u.dirty = t.dirty, u.events = t.events, u.cache = t.cache,
           u.next = t.next, u.torn = t.torn, u.stale = t.stale, u.thumb = t.thumb,
           DOMAIN u.tree = AllStores,
           \A st \in AllStores :
              /\ DOMAIN u.tree[st] = DOMAIN t.tree[st]
              /\ \A h \in DOMAIN t.tree[st] :
                    /\ DOMAIN u.tree[st][h] = ItemFields /\ u.tree[st][h].on \in BOOLEAN
                    /\ u.tree[st][h].parent = t.tree[st][h].parent
                    /\ u.tree[st][h].name = t.tree[st][h].name
                    /\ u.tree[st][h].size = t.tree[st][h].size
                    /\ u.tree[st][h].content = t.tree[st][h].content
                    /\ h \in u.asked \ u.torn /\ t.tree[st][h].on => u.tree[st][h].on,
           u.asked \subseteq t.asked, u.untold \subseteq t.untold, u.untold \subseteq u.asked
    PROVE  Valid(u, X, U, F)
<1>1. Sound(t, F) /\ EntriesTrue(t, X) /\ ChangesWait(t, U) /\ RecordGood(t) /\ ItemsGood(t) /\ CacheGood(t)
  BY FieldsOf DEF Valid
<1>2. \A st \in AllStores : \A h : Has(u, st, h) <=> Has(t, st, h)
  BY SameHandles
<1>3. RecordGood(u) /\ ItemsGood(u)
  BY <1>1 DEF Sound, RecordGood, ItemsGood, ItemGood
<1>4. InOneStore(u) /\ DirtyGood(u)
  BY <1>1 DEF Sound, InOneStore, DirtyGood
<1>5. EventsGood(u) /\ CacheGood(u) /\ AskedGood(u) /\ ThumbsGood(u, F)
  BY <1>1 DEF Sound, EventsGood, CacheGood, AskedGood, ThumbsGood
<1>6. AskedNoted(u)
  BY <1>1 DEF Sound, AskedNoted, Has
<1>7. \A h, p : Drops(u, h, p) <=> Drops(t, h, p)
  BY DEF Drops
<1>8. ChangesWait(u, U)
  <2> SUFFICES ASSUME NEW h \in u.untold \ (u.torn \cup U) PROVE ChangeWaits(u, h)
    BY DEF ChangesWait
  <2>1. ChangeWaits(t, h)
    BY <1>1 DEF ChangesWait
  <2>2. \A st \in AllStores : <<st, h>> \in t.dirty => h \in DOMAIN t.tree[st]
    BY <1>1 DEF Sound, DirtyGood
  <2> QED
    BY <2>1, <2>2, <1>7 DEF ChangeWaits
<1>9. EntriesTrue(u, X)
  BY <1>1, EntriesOfItems
<1> QED
  BY <1>3, <1>4, <1>5, <1>6, <1>8, <1>9 DEF Valid, Sound

LEMMA InterestedValid ==
    ASSUME NEW t, NEW X, NEW U, NEW F, Valid(t, X, U, F), NEW st \in AllStores, NEW H
    PROVE  LET u == Interested(t, st, H)
           IN  /\ Valid(u, X, U, F)
               /\ u.next = t.next /\ u.torn = t.torn /\ u.thumb = t.thumb /\ u.asked = t.asked /\ u.cache = t.cache
               /\ u.dirty = t.dirty /\ u.events = t.events /\ u.stale = t.stale /\ u.untold = t.untold
               /\ \A to \in AllStores :
                     /\ DOMAIN u.tree[to] = DOMAIN t.tree[to]
                     /\ \A h \in DOMAIN t.tree[to] :
                           /\ u.tree[to][h].parent = t.tree[to][h].parent
                           /\ u.tree[to][h].dir = t.tree[to][h].dir
                           /\ u.tree[to][h].name = t.tree[to][h].name
                           /\ u.tree[to][h].size = t.tree[to][h].size
                           /\ u.tree[to][h].content = t.tree[to][h].content
                           /\ t.tree[to][h].on => u.tree[to][h].on
               /\ \A h \in H \cap DOMAIN t.tree[st] : u.tree[st][h].on
               /\ \A to \in AllStores \ {st} : u.tree[to] = t.tree[to]
<1> DEFINE u == Interested(t, st, H)
           new == SetOn(t.tree[st], H, TRUE)
<1>1. DOMAIN t = Fields /\ ItemsGood(t) /\ DOMAIN t.tree = AllStores /\ AskedGood(t)
  BY FieldsOf
<1>2. /\ DOMAIN u = Fields /\ u.dirty = t.dirty /\ u.events = t.events
      /\ u.cache = t.cache /\ u.next = t.next /\ u.torn = t.torn /\ u.stale = t.stale
      /\ u.asked = t.asked /\ u.untold = t.untold /\ u.thumb = t.thumb
      /\ u.tree = [t.tree EXCEPT ![st] = new]
  BY <1>1 DEF Interested, Fields
<1> HIDE DEF u
<1>3. /\ DOMAIN new = DOMAIN t.tree[st]
      /\ \A h \in DOMAIN t.tree[st] :
            /\ DOMAIN new[h] = ItemFields
            /\ new[h].parent = t.tree[st][h].parent /\ new[h].name = t.tree[st][h].name
            /\ new[h].dir = t.tree[st][h].dir
            /\ new[h].size = t.tree[st][h].size /\ new[h].content = t.tree[st][h].content
            /\ h \in H => new[h].on = TRUE
            /\ h \notin H => new[h].on = t.tree[st][h].on
  <2>1. \A h \in DOMAIN t.tree[st] : DOMAIN t.tree[st][h] = ItemFields
    BY <1>1 DEF ItemsGood, ItemGood
  <2> QED
    BY <2>1, SetOnFacts
<1> HIDE DEF new
<1>4. DOMAIN u.tree = AllStores /\ u.tree[st] = new /\ \A to \in AllStores \ {st} : u.tree[to] = t.tree[to]
  BY <1>1, <1>2
<1>5. \A to \in AllStores :
         /\ DOMAIN u.tree[to] = DOMAIN t.tree[to]
         /\ \A h \in DOMAIN t.tree[to] :
               /\ DOMAIN u.tree[to][h] = ItemFields /\ u.tree[to][h].on \in BOOLEAN
               /\ u.tree[to][h].parent = t.tree[to][h].parent
               /\ u.tree[to][h].dir = t.tree[to][h].dir
               /\ u.tree[to][h].name = t.tree[to][h].name
               /\ u.tree[to][h].size = t.tree[to][h].size
               /\ u.tree[to][h].content = t.tree[to][h].content
               /\ t.tree[to][h].on => u.tree[to][h].on
  <2> SUFFICES ASSUME NEW to \in AllStores
               PROVE  /\ DOMAIN u.tree[to] = DOMAIN t.tree[to]
                      /\ \A h \in DOMAIN t.tree[to] :
                            /\ DOMAIN u.tree[to][h] = ItemFields /\ u.tree[to][h].on \in BOOLEAN
                            /\ u.tree[to][h].parent = t.tree[to][h].parent
                            /\ u.tree[to][h].dir = t.tree[to][h].dir
                            /\ u.tree[to][h].name = t.tree[to][h].name
                            /\ u.tree[to][h].size = t.tree[to][h].size
                            /\ u.tree[to][h].content = t.tree[to][h].content
                            /\ t.tree[to][h].on => u.tree[to][h].on
    OBVIOUS
  <2>1. CASE to = st
    BY <2>1, <1>1, <1>3, <1>4 DEF ItemsGood, ItemGood
  <2>2. CASE to # st
    BY <2>2, <1>1, <1>4 DEF ItemsGood, ItemGood
  <2> QED
    BY <2>1, <2>2
<1>6. Valid(u, X, U, F)
  BY <1>1, <1>2, <1>4, <1>5, NoteStep DEF AskedGood
<1>7. \A h \in H \cap DOMAIN t.tree[st] : u.tree[st][h].on
  BY <1>3, <1>4
<1> QED
  BY <1>2, <1>4, <1>5, <1>6, <1>7 DEF u

\* Notifications are switched off for an object that is forgotten in the same breath.
LEMMA SetEventsEnabledValid ==
    ASSUME NEW t, NEW X, NEW U, NEW F, Valid(t, X, U, F), NEW h, NEW on \in BOOLEAN,
           ~on => h \notin t.asked
    PROVE  LET u == SetEventsEnabled(t, h, on)
           IN  /\ Valid(u, X, U, F) /\ u.next = t.next /\ u.torn = t.torn /\ u.asked = t.asked
               /\ on /\ h \notin t.torn => \A st \in AllStores : Has(u, st, h) => u.tree[st][h].on
<1> DEFINE u == SetEventsEnabled(t, h, on)
           st == StorageOfHandle(t, h)
           new == SetOn(t.tree[st], {h}, on)
<1>1. DOMAIN t = Fields /\ ItemsGood(t) /\ DOMAIN t.tree = AllStores /\ AskedGood(t) /\ InOneStore(t)
  BY FieldsOf
<1>2. CASE st = NoStore
  <2>1. u = t
    BY <1>2 DEF SetEventsEnabled
  <2>2. \A to \in AllStores : ~Has(t, to, h)
    BY <1>2, StorageFound
  <2> QED
    BY <2>1, <2>2
<1>3. CASE st # NoStore
  <2>1. st \in AllStores /\ Has(t, st, h)
    BY <1>3, StorageFound
  <2>2. /\ DOMAIN u = Fields /\ u.dirty = t.dirty /\ u.events = t.events
        /\ u.cache = t.cache /\ u.next = t.next /\ u.torn = t.torn /\ u.stale = t.stale
        /\ u.asked = t.asked /\ u.untold = t.untold /\ u.thumb = t.thumb
        /\ u.tree = [t.tree EXCEPT ![st] = new]
    BY <1>1, <1>3 DEF SetEventsEnabled, Fields
  <2>3. \A k \in DOMAIN t.tree[st] : DOMAIN t.tree[st][k] = ItemFields
    BY <1>1, <2>1 DEF ItemsGood, ItemGood
  <2> HIDE DEF u
  <2>4. /\ DOMAIN new = DOMAIN t.tree[st]
        /\ \A k \in DOMAIN t.tree[st] :
              /\ DOMAIN new[k] = ItemFields
              /\ new[k].parent = t.tree[st][k].parent /\ new[k].name = t.tree[st][k].name
              /\ new[k].dir = t.tree[st][k].dir
              /\ new[k].size = t.tree[st][k].size /\ new[k].content = t.tree[st][k].content
              /\ k \in {h} => new[k].on = on
              /\ k \notin {h} => new[k].on = t.tree[st][k].on
    BY <2>3, SetOnFacts
  <2> HIDE DEF new
  <2>5. DOMAIN u.tree = AllStores /\ u.tree[st] = new /\ \A to \in AllStores \ {st} : u.tree[to] = t.tree[to]
    BY <1>1, <2>1, <2>2
  <2>6. ASSUME NEW to \in AllStores
        PROVE  /\ DOMAIN u.tree[to] = DOMAIN t.tree[to]
               /\ \A k \in DOMAIN t.tree[to] :
                     /\ DOMAIN u.tree[to][k] = ItemFields /\ u.tree[to][k].on \in BOOLEAN
                     /\ u.tree[to][k].parent = t.tree[to][k].parent
                     /\ u.tree[to][k].name = t.tree[to][k].name
                     /\ u.tree[to][k].size = t.tree[to][k].size
                     /\ u.tree[to][k].content = t.tree[to][k].content
                     /\ k \in u.asked \ u.torn /\ t.tree[to][k].on => u.tree[to][k].on
    <3>1. CASE to = st
      BY <3>1, <1>1, <2>2, <2>4, <2>5 DEF ItemsGood, ItemGood
    <3>2. CASE to # st
      BY <3>2, <1>1, <2>5 DEF ItemsGood, ItemGood
    <3> QED
      BY <3>1, <3>2
  <2>7. u.asked \subseteq t.asked /\ u.untold \subseteq t.untold /\ u.untold \subseteq u.asked
    BY <1>1, <2>2 DEF AskedGood
  <2>8. Valid(u, X, U, F)
    BY <2>2, <2>5, <2>6, <2>7, NoteStep
  <2>9. ASSUME on, h \notin t.torn, NEW to \in AllStores, Has(u, to, h) PROVE u.tree[to][h].on
    <3>1. Has(t, to, h)
      BY <2>6, <2>9 DEF Has
    <3>2. to = st
      BY <1>1, <2>9, <3>1, StorageUnique
    <3> QED
      BY <2>1, <2>4, <2>5, <2>9, <3>2 DEF Has
  <2> QED
    BY <2>2, <2>8, <2>9 DEF u
<1> QED
  BY <1>2, <1>3

LEMMA DisableObjectEventsValid ==
    ASSUME NEW t, NEW X, NEW U, NEW F, Valid(t, X, U, F)
    PROVE  Valid(DisableObjectEvents(t), X, U, F)
<1> DEFINE u == DisableObjectEvents(t)
           new(st) == SetOn(t.tree[st], DOMAIN t.tree[st], FALSE)
<1>1. DOMAIN t = Fields /\ ItemsGood(t) /\ DOMAIN t.tree = AllStores
  BY FieldsOf
<1>2. /\ DOMAIN u = Fields /\ u.dirty = t.dirty /\ u.events = t.events
      /\ u.cache = t.cache /\ u.next = t.next /\ u.torn = t.torn /\ u.stale = t.stale
      /\ u.asked = {} /\ u.untold = {} /\ u.thumb = t.thumb
      /\ u.tree = [st \in DOMAIN t.tree |-> new(st)]
  BY <1>1 DEF DisableObjectEvents, Fields
<1> HIDE DEF u
<1>3. \A st \in AllStores : \A k \in DOMAIN t.tree[st] : DOMAIN t.tree[st][k] = ItemFields
  BY <1>1 DEF ItemsGood, ItemGood
<1>4. ASSUME NEW st \in AllStores
      PROVE  /\ DOMAIN new(st) = DOMAIN t.tree[st]
             /\ \A k \in DOMAIN t.tree[st] :
                   /\ DOMAIN new(st)[k] = ItemFields
                   /\ new(st)[k].parent = t.tree[st][k].parent /\ new(st)[k].name = t.tree[st][k].name
                   /\ new(st)[k].dir = t.tree[st][k].dir
                   /\ new(st)[k].size = t.tree[st][k].size /\ new(st)[k].content = t.tree[st][k].content
                   /\ new(st)[k].on \in BOOLEAN
  <2>1. \A k \in DOMAIN t.tree[st] : DOMAIN t.tree[st][k] = ItemFields
    BY <1>3
  <2> QED
    BY <2>1 DEF SetOn, ItemFields
<1> HIDE DEF new
<1>5. DOMAIN u.tree = AllStores /\ \A st \in AllStores : u.tree[st] = new(st)
  BY <1>1, <1>2
<1>6. ASSUME NEW to \in AllStores
      PROVE  /\ DOMAIN u.tree[to] = DOMAIN t.tree[to]
             /\ \A k \in DOMAIN t.tree[to] :
                   /\ DOMAIN u.tree[to][k] = ItemFields /\ u.tree[to][k].on \in BOOLEAN
                   /\ u.tree[to][k].parent = t.tree[to][k].parent
                   /\ u.tree[to][k].name = t.tree[to][k].name
                   /\ u.tree[to][k].size = t.tree[to][k].size
                   /\ u.tree[to][k].content = t.tree[to][k].content
                   /\ k \in u.asked \ u.torn /\ t.tree[to][k].on => u.tree[to][k].on
  BY <1>2, <1>4, <1>5
<1>7. u.asked \subseteq t.asked /\ u.untold \subseteq t.untold /\ u.untold \subseteq u.asked
  BY <1>2
<1>8. /\ DOMAIN u = Fields /\ u.dirty = t.dirty /\ u.events = t.events
      /\ u.cache = t.cache /\ u.next = t.next /\ u.torn = t.torn /\ u.stale = t.stale
      /\ u.thumb = t.thumb /\ DOMAIN u.tree = AllStores
  BY <1>2, <1>5
<1>9. Valid(u, X, U, F)
  BY <1>6, <1>7, <1>8, NoteStep
<1> QED
  BY <1>9 DEF u

-----------------------------------------------------------------------------
(* Queries.                                                                *)

\* A query only has more objects noted.
Noting(t, u) ==
    /\ u.next = t.next /\ u.torn = t.torn /\ u.asked = t.asked
    /\ \A st \in AllStores :
          /\ DOMAIN u.tree[st] = DOMAIN t.tree[st]
          /\ \A h \in DOMAIN t.tree[st] :
                /\ u.tree[st][h].parent = t.tree[st][h].parent
                /\ u.tree[st][h].name = t.tree[st][h].name
                /\ u.tree[st][h].dir = t.tree[st][h].dir
                /\ t.tree[st][h].on => u.tree[st][h].on

LEMMA NotingTrans ==
    ASSUME NEW t, NEW u, NEW v, Noting(t, u), Noting(u, v)
    PROVE  Noting(t, v)
  BY DEF Noting

LEMMA NotingSame ==
    ASSUME NEW t, NEW u, u.next = t.next, u.torn = t.torn, u.asked = t.asked, u.tree = t.tree
    PROVE  Noting(t, u)
  BY DEF Noting

LEMMA NotingFacts ==
    ASSUME NEW t, NEW u, Noting(t, u), RecordGood(t), ItemsGood(t)
    PROVE  /\ \A st \in AllStores : \A h \in DOMAIN t.tree[st] : Path(u, st, h) = Path(t, st, h)
           /\ \A st \in AllStores : \A h : Has(u, st, h) <=> Has(t, st, h)
           /\ \A h : StorageOfHandle(u, h) = StorageOfHandle(t, h)
           /\ \A st \in AllStores : \A H : PicturesIn(u, st, H) = PicturesIn(t, st, H)
           /\ Live(u) = Live(t)
<1>1. ASSUME NEW st \in AllStores PROVE \A h \in DOMAIN t.tree[st] : Path(u, st, h) = Path(t, st, h)
  <2> DEFINE K == DOMAIN t.tree[st]
  <2>1. Root \notin K
    BY RootIsNone
  <2>2. \A k \in K : /\ u.tree[st][k].parent = t.tree[st][k].parent
                     /\ u.tree[st][k].name = t.tree[st][k].name
                     /\ t.tree[st][k].parent \in K \cup {Root}
    BY DEF ItemsGood, ItemGood, Noting
  <2>3. K = DOMAIN u.tree[st]
    BY DEF Noting
  <2> QED
    BY <2>1, <2>2, <2>3, SamePaths
<1>2. \A st \in AllStores : DOMAIN u.tree[st] = DOMAIN t.tree[st]
  BY DEF Noting
<1>3. \A st \in AllStores : \A h : Has(u, st, h) <=> Has(t, st, h)
  BY <1>2, SameHandles
<1>4. \A h : StorageOfHandle(u, h) = StorageOfHandle(t, h)
  BY <1>2, SameHandles
<1>5. \A st \in AllStores : \A H : PicturesIn(u, st, H) = PicturesIn(t, st, H)
  BY DEF PicturesIn, Noting, Has
<1>6. Live(u) = Live(t)
  BY <1>2, SameHandles
<1> QED
  BY <1>1, <1>3, <1>4, <1>5, <1>6

LEMMA Interested1 ==
    ASSUME NEW t, NEW X, NEW U, NEW F, Valid(t, X, U, F), NEW st \in AllStores, NEW H
    PROVE  LET u == Interested(t, st, H)
           IN  /\ Valid(u, X, U, F) /\ Noting(t, u) /\ u.thumb = t.thumb
               /\ \A h \in H \cap DOMAIN t.tree[st] : u.tree[st][h].on
<1> DEFINE u == Interested(t, st, H)
<1>1. /\ Valid(u, X, U, F)
      /\ u.next = t.next /\ u.torn = t.torn /\ u.thumb = t.thumb /\ u.asked = t.asked
      /\ \A to \in AllStores :
            /\ DOMAIN u.tree[to] = DOMAIN t.tree[to]
            /\ \A h \in DOMAIN t.tree[to] :
                  /\ u.tree[to][h].parent = t.tree[to][h].parent
                  /\ u.tree[to][h].dir = t.tree[to][h].dir
                  /\ u.tree[to][h].name = t.tree[to][h].name
                  /\ t.tree[to][h].on => u.tree[to][h].on
      /\ \A h \in H \cap DOMAIN t.tree[st] : u.tree[st][h].on
  BY InterestedValid
<1> HIDE DEF u
<1>2. Noting(t, u)
  BY <1>1 DEF Noting
<1> QED
  BY <1>1, <1>2 DEF u

LEMMA ReadPropsValid ==
    ASSUME NEW t, NEW X, NEW U, NEW F, Valid(t, X, U, F), NEW st \in AllStores, NEW H, NEW P
    PROVE  LET u == ReadProps(t, st, H, P)
           IN  /\ Valid(u, X, U, F) /\ Noting(t, u)
               /\ "sample" \in P => \A h \in PicturesIn(u, st, H) :
                     Path(u, st, h) \in u.thumb[st].paths \cup u.thumb[st].requested
<1> DEFINE v == IF "sample" \in P THEN RequestSamples(t, st, H) ELSE t
           u == Interested(v, st, H)
<1>1. /\ Valid(v, X, U, F) /\ Noting(t, v)
      /\ "sample" \in P => \A h \in PicturesIn(v, st, H) :
            Path(v, st, h) \in v.thumb[st].paths \cup v.thumb[st].requested
  <2>1. CASE "sample" \in P
    <3> DEFINE w == RequestSamples(t, st, H)
    <3>1. /\ Valid(w, X, U, F)
          /\ w.tree = t.tree /\ w.next = t.next /\ w.torn = t.torn
          /\ w.asked = t.asked
          /\ \A h \in PicturesIn(w, st, H) : Path(w, st, h) \in w.thumb[st].paths \cup w.thumb[st].requested
      BY RequestSamplesValid
    <3> HIDE DEF w
    <3>2. Noting(t, w)
      BY <3>1, NotingSame
    <3>3. v = w
      BY <2>1 DEF w
    <3> HIDE DEF v
    <3> QED
      BY <3>1, <3>2, <3>3
  <2>2. CASE "sample" \notin P
    BY <2>2, NotingSame
  <2> QED
    BY <2>1, <2>2
<1>2. ReadProps(t, st, H, P) = u
  BY DEF ReadProps
<1> HIDE DEF v
<1>3. Valid(u, X, U, F) /\ Noting(v, u) /\ u.thumb = v.thumb
  BY <1>1, Interested1
<1> HIDE DEF u
<1>4. Noting(t, u)
  BY <1>1, <1>3, NotingTrans
<1>5. RecordGood(v) /\ ItemsGood(v)
  BY <1>1, FieldsOf
<1>6. /\ PicturesIn(u, st, H) = PicturesIn(v, st, H)
      /\ \A h \in DOMAIN v.tree[st] : Path(u, st, h) = Path(v, st, h)
  BY <1>3, <1>5, NotingFacts
<1>7. \A h \in PicturesIn(v, st, H) : h \in DOMAIN v.tree[st]
  BY DEF PicturesIn, Has
<1> QED
  BY <1>1, <1>2, <1>3, <1>4, <1>6, <1>7

\* Reading properties P of objects H and keeping their values
LEMMA ReadAndFeed ==
    ASSUME NEW t, NEW X, NEW U, NEW F, Valid(t, X, U, F), NEW st \in AllStores,
           NEW H \in SUBSET DOMAIN t.tree[st], NEW P \in SUBSET Props
    PROVE  LET u == FeedCache(ReadProps(t, st, H, P), st, H, P)
           IN  Valid(u, X, U, F) /\ Noting(t, u)
<1> DEFINE v == ReadProps(t, st, H, P)
           u == FeedCache(v, st, H, P)
<1>1. /\ Valid(v, X, U, F) /\ Noting(t, v)
      /\ "sample" \in P => \A h \in PicturesIn(v, st, H) :
            Path(v, st, h) \in v.thumb[st].paths \cup v.thumb[st].requested
  BY ReadPropsValid
<1> HIDE DEF v
<1>2. H \in SUBSET DOMAIN v.tree[st]
  BY <1>1 DEF Noting
<1>3. /\ Valid(u, X, U, F) /\ u.tree = v.tree /\ u.next = v.next /\ u.torn = v.torn /\ u.asked = v.asked
  <2>1. \A h, p : <<h, p>> \in X => <<h, p>> \in X \/ (h \in H /\ p \in P)
    OBVIOUS
  <2>2. Valid(u, X, U, F) /\ u.tree = v.tree /\ u.next = v.next /\ u.torn = v.torn
    BY <1>1, <1>2, <2>1, FeedCacheValid
  <2>3. DOMAIN v = Fields
    BY <1>1, FieldsOf
  <2>4. u.asked = v.asked
    BY <2>3 DEF FeedCache, CacheAdd, Fields
  <2> QED
    BY <2>2, <2>4
<1> HIDE DEF u
<1>4. Noting(v, u)
  BY <1>3, NotingSame
<1>5. Noting(t, u)
  BY <1>1, <1>4, NotingTrans
<1> QED
  BY <1>3, <1>5 DEF u, v

LEMMA MassValid ==
    ASSUME NEW t, NEW X, NEW U, NEW F, Valid(t, X, U, F), NEW m
    PROVE  LET u == [t EXCEPT !.mass = m]
           IN  /\ Valid(u, X, U, F) /\ Noting(t, u) /\ u.tree = t.tree /\ u.torn = t.torn /\ u.next = t.next
               /\ u.cache = t.cache /\ u.events = t.events
<1> DEFINE u == [t EXCEPT !.mass = m]
<1>1. DOMAIN t = Fields /\ CacheGood(t)
  BY FieldsOf
<1>2. /\ DOMAIN u = Fields /\ u.tree = t.tree /\ u.dirty = t.dirty /\ u.events = t.events
      /\ u.next = t.next /\ u.thumb = t.thumb /\ u.torn = t.torn /\ u.asked = t.asked /\ u.untold = t.untold
      /\ u.cache = t.cache /\ u.stale = t.stale
  BY <1>1 DEF Fields
<1> HIDE DEF u
<1>3. CacheGood(u)
  BY <1>1, <1>2 DEF CacheGood
<1>4. ASSUME NEW h \in DOMAIN u.cache \ u.torn, NEW p \in DOMAIN u.cache[h]
      PROVE  /\ InCache(t, h, p) /\ u.cache[h][p] = t.cache[h][p]
             /\ <<h, p>> \in t.stale \cup X => <<h, p>> \in u.stale \cup X
  BY <1>2 DEF InCache
<1>5. Valid(u, X, U, F)
  BY <1>2, <1>3, <1>4, CacheStep
<1>6. Noting(t, u)
  BY <1>2, NotingSame
<1> QED
  BY <1>2, <1>5, <1>6 DEF u

LEMMA GetObjectPropertyValueValid ==
    ASSUME NEW t, NEW X, NEW U, NEW F, Valid(t, X, U, F), NEW h, NEW P \in SUBSET Props
    PROVE  LET q == GetObjectPropertyValue(t, h, P)
           IN  /\ Valid(q.t, X, U, F) /\ Noting(t, q.t)
               /\ q.ok /\ (\E p \in P : ~InCache(t, h, p)) =>
                     StorageOfHandle(t, h) # NoStore /\ q.t.tree[StorageOfHandle(t, h)][h].on
<1> DEFINE missing == {p \in P : ~InCache(t, h, p)}
           st == StorageOfHandle(t, h)
           parent == t.tree[st][h].parent
           i == Interested(t, st, {h})
           q == GetObjectPropertyValue(t, h, P)
           siblings == Kids(i, st, i.tree[st][h].parent)
           one == FeedCache(ReadProps(i, st, {h}, missing), st, {h}, missing)
           all == FeedCache(ReadProps(i, st, siblings, missing), st, siblings, missing)
<1>1. q = IF missing = {} THEN [t |-> t, ok |-> TRUE]
          ELSE IF st = NoStore THEN [t |-> t, ok |-> FALSE]
          ELSE IF parent \in t.mass THEN [t |-> one, ok |-> TRUE]
          ELSE [t |-> [all EXCEPT !.mass = @ \cup {parent}], ok |-> TRUE]
  BY DEF GetObjectPropertyValue, MassQuery
<1>2. Noting(t, t)
  BY NotingSame
<1>3. missing = {} <=> ~\E p \in P : ~InCache(t, h, p)
  OBVIOUS
<1>4. missing \in SUBSET Props
  OBVIOUS
<1>5. st # NoStore => st \in AllStores /\ h \in DOMAIN t.tree[st]
  BY StorageFound DEF Has
<1> HIDE DEF missing, q, st, parent
<1>6. CASE missing = {}
  BY <1>1, <1>2, <1>3, <1>6 DEF q
<1>7. CASE missing # {} /\ st = NoStore
  BY <1>1, <1>2, <1>7 DEF q
<1>8. CASE missing # {} /\ st # NoStore
  <2>1. Valid(i, X, U, F) /\ Noting(t, i) /\ \A k \in {h} \cap DOMAIN t.tree[st] : i.tree[st][k].on
    BY <1>5, <1>8, Interested1
  <2>2. i.tree[st][h].on /\ st \in AllStores
    BY <1>5, <1>8, <2>1
  <2> HIDE DEF i
  <2>3. {h} \in SUBSET DOMAIN i.tree[st]
    BY <1>5, <1>8, <2>1 DEF Noting
  <2>4. siblings \in SUBSET DOMAIN i.tree[st]
    BY DEF Kids
  <2>5. Valid(one, X, U, F) /\ Noting(i, one)
    BY <1>4, <2>1, <2>2, <2>3, ReadAndFeed
  <2> HIDE DEF siblings
  <2>6. Valid(all, X, U, F) /\ Noting(i, all)
    BY <1>4, <2>1, <2>2, <2>4, ReadAndFeed
  <2> HIDE DEF one, all
  <2> DEFINE more == [all EXCEPT !.mass = all.mass \cup {parent}]
  <2>7. Valid(more, X, U, F) /\ Noting(all, more)
    BY <2>6, MassValid
  <2>8. q.ok = TRUE /\ (q.t = one \/ q.t = more)
    BY <1>1, <1>8
  <2> HIDE DEF more
  <2>9. Valid(q.t, X, U, F) /\ Noting(i, q.t)
    BY <2>5, <2>6, <2>7, <2>8, NotingTrans
  <2>10. Noting(t, q.t)
    BY <2>1, <2>9, NotingTrans
  <2>11. q.t.tree[st][h].on
    BY <2>2, <2>3, <2>9 DEF Noting
  <2> QED
    BY <1>8, <2>9, <2>10, <2>11 DEF q, st
<1> QED
  BY <1>6, <1>7, <1>8

\* An object the initiator has asked about is noted, unless a move has left it in two storages.
LEMMA AskNoted ==
    ASSUME NEW t, NEW X, NEW U, NEW F, Valid(t, X, U, F), NEW h,
           StorageOfHandle(t, h) # NoStore, t.tree[StorageOfHandle(t, h)][h].on
    PROVE  /\ Valid(Ask(t, h), X, U, F)
           /\ Ask(t, h).tree = t.tree /\ Ask(t, h).next = t.next /\ Ask(t, h).torn = t.torn
<1> DEFINE st == StorageOfHandle(t, h)
<1>1. RecordGood(t) /\ ItemsGood(t) /\ InOneStore(t) /\ DOMAIN t = Fields
  BY FieldsOf
<1>2. st \in AllStores /\ h \in DOMAIN t.tree[st]
  BY StorageFound DEF Has
<1>3. h \in 1 .. t.next - 1
  BY <1>1, <1>2, RootIsNone
<1>4. h \notin t.torn => \A to \in AllStores : Has(t, to, h) => t.tree[to][h].on
  BY <1>1, StorageUnique
<1>5. Valid(Ask(t, h), X, U, F)
  BY <1>3, <1>4, AskValid
<1> QED
  BY <1>1, <1>5 DEF Ask, Fields

\* A query of properties P of one object, which is asked about
LEMMA QueryValid ==
    ASSUME NEW t, NEW X, NEW U, NEW F, Valid(t, X, U, F), NEW h, StorageOfHandle(t, h) # NoStore,
           NEW P \in SUBSET Props
    PROVE  LET u == Ask(GetObjectPropertyValue(Interested(t, StorageOfHandle(t, h), {h}), h, P).t, h)
           IN  Valid(u, X, U, F) /\ Live(u) = Live(t)
<1> DEFINE st == StorageOfHandle(t, h)
           i == Interested(t, st, {h})
           q == GetObjectPropertyValue(i, h, P)
<1>1. st \in AllStores /\ h \in DOMAIN t.tree[st]
  BY StorageFound DEF Has
<1>2. RecordGood(t) /\ ItemsGood(t)
  BY FieldsOf
<1>3. Valid(i, X, U, F) /\ Noting(t, i) /\ \A k \in {h} \cap DOMAIN t.tree[st] : i.tree[st][k].on
  BY <1>1, Interested1
<1>4. i.tree[st][h].on
  BY <1>1, <1>3
<1> HIDE DEF i
<1>5. Valid(q.t, X, U, F) /\ Noting(i, q.t)
  BY <1>3, GetObjectPropertyValueValid
<1> HIDE DEF q, st
<1>6. Noting(t, q.t)
  BY <1>3, <1>5, NotingTrans
<1>7. StorageOfHandle(q.t, h) = st /\ Live(q.t) = Live(t)
  BY <1>2, <1>6, NotingFacts DEF st
<1>8. h \in DOMAIN i.tree[st]
  BY <1>1, <1>3 DEF Noting
<1>9. q.t.tree[st][h].on
  BY <1>1, <1>4, <1>5, <1>8 DEF Noting
<1>10. Valid(Ask(q.t, h), X, U, F) /\ Ask(q.t, h).tree = q.t.tree
  BY <1>5, <1>7, <1>9, AskNoted DEF st
<1>11. Live(Ask(q.t, h)) = Live(q.t)
  BY <1>10 DEF Live
<1> QED
  BY <1>7, <1>10, <1>11 DEF q, i, st

LEMMA QueryObjectValid ==
    ASSUME NEW t, NEW X, NEW U, NEW F, Valid(t, X, U, F), NEW h \in Live(t)
    PROVE  Valid(QueryObject(t, h), X, U, F) /\ Live(QueryObject(t, h)) = Live(t)
<1>1. StorageOfHandle(t, h) # NoStore
  BY StorageFound DEF Live, Has
<1>2. InfoProps \cup Settable \in SUBSET Props
  BY QueriesAssumption DEF Props, InfoProps
<1> QED
  BY <1>1, <1>2, QueryValid DEF QueryObject

\* One object after the other, in the order of the handles
QueryStep(g, t, H, n) ==
    IF n = 0 THEN t ELSE IF n \in H THEN QueryObject(g[n - 1], n) ELSE g[n - 1]
AreQueries(g, t, H, N) == g = [n \in 0 .. N |-> QueryStep(g, t, H, n)]

LEMMA QueriesExist == ASSUME NEW t, NEW H, NEW N \in Nat PROVE \E g : AreQueries(g, t, H, N)
<1> DEFINE HasOne(m) == \E g : g = [n \in 0 .. m |-> QueryStep(g, t, H, n)]
           Fails == {m \in Nat : ~HasOne(m)}
<1>0. \A m \in Nat : HasOne(m) => \E g : AreQueries(g, t, H, m)
  BY DEF AreQueries
<1>1. CASE Fails = {}
  BY <1>0, <1>1
<1>2. CASE Fails # {}
  <2>1. PICK m \in Fails : \A j \in Fails : m <= j
    <3>1. Fails \in SUBSET Nat
      OBVIOUS
    <3> HIDE DEF Fails
    <3> QED
      BY <1>2, <3>1, Smallest
  <2>2. m # 0
    <3> DEFINE g == [n \in 0 .. 0 |-> t]
    <3>1. g = [n \in 0 .. 0 |-> QueryStep(g, t, H, n)]
      BY DEF QueryStep
    <3> HIDE DEF g
    <3>2. HasOne(0)
      BY <3>1
    <3> QED
      BY <2>1, <3>2
  <2>3. m - 1 \in Nat /\ m \in Nat
    BY <2>1, <2>2
  <2>4. HasOne(m - 1)
    <3> SUFFICES ASSUME ~HasOne(m - 1) PROVE FALSE
      OBVIOUS
    <3>1. m - 1 \in Fails
      BY <2>3
    <3> HIDE DEF Fails, HasOne
    <3> QED
      BY <2>1, <2>3, <3>1
  <2>5. PICK g : g = [n \in 0 .. m - 1 |-> QueryStep(g, t, H, n)]
    BY <2>4
  <2> DEFINE f == [n \in 0 .. m |-> IF n = m THEN QueryStep(g, t, H, m) ELSE g[n]]
  <2>6. ASSUME NEW n \in 0 .. m PROVE f[n] = QueryStep(f, t, H, n)
    <3>1. CASE n = m
      <4>1. m - 1 \in 0 .. m /\ m - 1 # m
        BY <2>3
      <4>2. f[m - 1] = g[m - 1]
        BY <4>1
      <4> QED
        BY <2>2, <3>1, <4>2 DEF QueryStep
    <3>2. CASE n # m
      <4>1. n \in 0 .. m - 1
        BY <2>3, <3>2
      <4>2. f[n] = QueryStep(g, t, H, n)
        BY <2>5, <3>2, <4>1
      <4>3. CASE n = 0
        BY <4>2, <4>3 DEF QueryStep
      <4>4. CASE n # 0
        <5>1. n - 1 \in 0 .. m /\ n - 1 # m
          BY <2>3, <4>1, <4>4
        <5>2. f[n - 1] = g[n - 1]
          BY <5>1
        <5> QED
          BY <4>2, <4>4, <5>2 DEF QueryStep
      <4> QED
        BY <4>3, <4>4
    <3> QED
      BY <3>1, <3>2
  <2>7. f = [n \in 0 .. m |-> f[n]]
    OBVIOUS
  <2> HIDE DEF f
  <2>8. f = [n \in 0 .. m |-> QueryStep(f, t, H, n)]
    BY <2>6, <2>7
  <2>9. HasOne(m)
    BY <2>8
  <2> QED
    BY <2>1, <2>9
<1> QED
  BY <1>1, <1>2

LEMMA QueryObjectsValid ==
    ASSUME NEW t, NEW X, NEW U, NEW F, Valid(t, X, U, F), NEW H \in SUBSET Live(t)
    PROVE  Valid(QueryObjects(t, H), X, U, F)
<1> DEFINE N == HandleBound
           upTo == CHOOSE g : g = [n \in 0 .. N |->
                      IF n = 0 THEN t ELSE IF n \in H THEN QueryObject(g[n - 1], n) ELSE g[n - 1]]
<1>1. N \in Nat
  BY QueriesAssumption
<1>2. QueryObjects(t, H) = upTo[N]
  BY DEF QueryObjects
<1> HIDE DEF N
<1>3. \A n \in 0 .. N : upTo[n] = QueryStep(upTo, t, H, n)
  <2>1. \E g : AreQueries(g, t, H, N)
    BY <1>1, QueriesExist
  <2>2. upTo = CHOOSE g : AreQueries(g, t, H, N)
    BY DEF AreQueries, QueryStep
  <2> HIDE DEF upTo
  <2>3. AreQueries(upTo, t, H, N)
    BY <2>1, <2>2
  <2> QED
    BY <2>3 DEF AreQueries
<1> HIDE DEF upTo
<1> DEFINE Kept(u) == Valid(u, X, U, F) /\ Live(u) = Live(t)
           Fails == {n \in 0 .. N : ~Kept(upTo[n])}
<1>4. ASSUME Fails # {} PROVE FALSE
  <2>1. PICK m \in Fails : \A j \in Fails : m <= j
    <3>1. Fails \in SUBSET Nat
      BY <1>1
    <3> HIDE DEF Fails
    <3> QED
      BY <1>4, <3>1, Smallest
  <2>2. m \in 0 .. N /\ ~Kept(upTo[m])
    BY <2>1
  <2>3. CASE m = 0
    <3>1. upTo[m] = t
      BY <1>3, <2>2, <2>3 DEF QueryStep
    <3> QED
      BY <2>2, <3>1
  <2>4. CASE m # 0
    <3>1. m - 1 \in 0 .. N /\ m - 1 < m /\ m \in Nat
      BY <1>1, <2>2, <2>4
    <3>2. m - 1 \notin Fails
      <4> HIDE DEF Fails
      <4> QED
        BY <2>1, <3>1
    <3>3. Kept(upTo[m - 1])
      BY <3>1, <3>2
    <3>4. upTo[m] = IF m \in H THEN QueryObject(upTo[m - 1], m) ELSE upTo[m - 1]
      BY <1>3, <2>2, <2>4 DEF QueryStep
    <3> DEFINE v == upTo[m - 1]
    <3> HIDE DEF v
    <3>5. Valid(v, X, U, F) /\ Live(v) = Live(t)
      BY <3>3 DEF v
    <3>6. m \in H => Valid(QueryObject(v, m), X, U, F) /\ Live(QueryObject(v, m)) = Live(v)
      BY <3>5, QueryObjectValid
    <3> QED
      BY <2>2, <3>4, <3>5, <3>6 DEF v
  <2> QED
    BY <2>3, <2>4
<1>5. N \in 0 .. N
  BY <1>1
<1>6. Kept(upTo[N])
  BY <1>4, <1>5
<1> QED
  BY <1>2, <1>6

-----------------------------------------------------------------------------
(* Objects that change, and what stays as it was around them.              *)

\* In each storage, objects K[st] keep folders, names and sizes, and are under nothing else.
LEMMA EntriesKept ==
    ASSUME NEW t, NEW u, NEW X, NEW Y, RecordGood(t), ItemsGood(t), RecordGood(u), ItemsGood(u),
           EntriesTrue(t, X), CacheGood(t), X \subseteq Y,
           u.cache = t.cache, u.stale = t.stale, u.events = t.events, t.torn \subseteq u.torn, u.thumb = t.thumb,
           NEW K,
           \A st \in AllStores :
              /\ K[st] \subseteq DOMAIN t.tree[st] /\ K[st] \subseteq DOMAIN u.tree[st]
              /\ \A k \in K[st] :
                    /\ u.tree[st][k].parent = t.tree[st][k].parent
                    /\ t.tree[st][k].parent \in K[st] \cup {Root}
                    /\ u.tree[st][k].name = t.tree[st][k].name
                    /\ u.tree[st][k].size = t.tree[st][k].size \/ <<k, "content">> \in Y
              /\ \A h \in DOMAIN t.tree[st] \ (K[st] \cup u.torn) : \A p \in Props :
                    <<h, p>> \in Y \/ \E to \in AllStores : Same(t, st, u, to, h, p)
    PROVE  EntriesTrue(u, Y)
<1>1. ASSUME NEW st \in AllStores PROVE \A k \in K[st] : Path(u, st, k) = Path(t, st, k)
  <2>1. Root \notin DOMAIN t.tree[st]
    BY RootIsNone
  <2>2. Root \notin DOMAIN u.tree[st]
    BY RootIsNone
  <2> DEFINE L == K[st]
  <2>3. L \subseteq DOMAIN t.tree[st] /\ L \subseteq DOMAIN u.tree[st]
    OBVIOUS
  <2>4. \A k \in L : /\ u.tree[st][k].parent = t.tree[st][k].parent
                     /\ u.tree[st][k].name = t.tree[st][k].name
                     /\ t.tree[st][k].parent \in L \cup {Root}
    OBVIOUS
  <2> HIDE DEF L
  <2>5. \A k \in L : Path(u, st, k) = Path(t, st, k)
    BY <2>1, <2>2, <2>3, <2>4, SamePaths
  <2> QED
    BY <2>5 DEF L
<1>2. ASSUME NEW st \in AllStores, NEW h \in DOMAIN t.tree[st] \ u.torn, NEW p \in Props, <<h, p>> \notin Y
      PROVE  \E to \in AllStores : Same(t, st, u, to, h, p)
  <2>1. CASE h \in K[st]
    <3>1. Has(u, st, h)
      BY <2>1 DEF Has
    <3>2. CASE p = "sample"
      <4>1. Path(u, st, h) = Path(t, st, h)
        BY <1>1, <2>1
      <4>2. Same(t, st, u, st, h, p)
        BY <2>1, <3>1, <3>2, <4>1 DEF Same
      <4> QED
        BY <4>2
    <3>3. CASE p # "sample"
      <4>1. Same(t, st, u, st, h, p)
        BY <1>2, <2>1, <3>1, <3>3, SameValues
      <4> QED
        BY <4>1
    <3> QED
      BY <3>2, <3>3
  <2>2. CASE h \notin K[st]
    BY <1>2, <2>2
  <2> QED
    BY <2>1, <2>2
<1> QED
  BY <1>2, EntriesOfTree

\* One item changes.
LEMMA ItemStep ==
    ASSUME NEW t, NEW u, NEW X, NEW Y, NEW U, NEW W, NEW F, Valid(t, X, U, F), X \subseteq Y, U \subseteq W,
           NEW st \in AllStores, NEW h \in DOMAIN t.tree[st],
           DOMAIN u = Fields, u.events = t.events, u.cache = t.cache, u.next = t.next, u.torn = t.torn,
           u.stale = t.stale, u.thumb = t.thumb, u.asked = t.asked, u.untold = t.untold,
           DOMAIN u.tree = AllStores, \A to \in AllStores \ {st} : u.tree[to] = t.tree[to],
           DOMAIN u.tree[st] = DOMAIN t.tree[st],
           \A k \in DOMAIN t.tree[st] \ {h} : u.tree[st][k] = t.tree[st][k],
           NEW old, old = t.tree[st][h], NEW new, new = u.tree[st][h],
           ItemGood(new, DOMAIN t.tree[st]), old.on => new.on,
           new.name # old.name \/ new.parent # old.parent => \A k \in Subtree(t, st, h) : <<k, "sample">> \in Y,
           new.name # old.name => <<h, "name">> \in Y,
           new.parent # old.parent => <<h, "parent">> \in Y,
           new.size # old.size => <<h, "content">> \in Y,
           u.dirty \subseteq t.dirty \cup {<<st, h>>}, t.dirty \subseteq u.dirty \cup {<<st, h>>},
           h \in W \/ (<<st, h>> \in t.dirty /\ old.size # old.content => <<st, h>> \in u.dirty /\ new.size # new.content)
    PROVE  Valid(u, Y, W, F)
<1>1. Sound(t, F) /\ EntriesTrue(t, X) /\ ChangesWait(t, U) /\ RecordGood(t) /\ ItemsGood(t) /\ CacheGood(t)
  BY FieldsOf DEF Valid
<1>2. \A to \in AllStores : DOMAIN u.tree[to] = DOMAIN t.tree[to]
  OBVIOUS
<1>3. RecordGood(u)
  BY <1>1 DEF RecordGood
<1>4. ItemsGood(u)
  <2> SUFFICES ASSUME NEW to \in AllStores, NEW k \in DOMAIN u.tree[to]
               PROVE  k \in 1 .. u.next - 1 /\ ItemGood(u.tree[to][k], DOMAIN u.tree[to])
    BY DEF ItemsGood
  <2>1. k \in DOMAIN t.tree[to] /\ k \in 1 .. t.next - 1 /\ ItemGood(t.tree[to][k], DOMAIN t.tree[to])
    BY <1>1, <1>2 DEF ItemsGood
  <2>2. CASE to = st /\ k = h
    BY <2>1, <2>2
  <2>3. CASE to # st
    BY <2>1, <2>3
  <2>4. CASE to = st /\ k # h
    BY <2>1, <2>4
  <2> QED
    BY <2>2, <2>3, <2>4
<1>5. InOneStore(u) /\ DirtyGood(u)
  BY <1>1, <1>2 DEF Sound, InOneStore, DirtyGood
<1>6. EventsGood(u) /\ CacheGood(u) /\ AskedGood(u) /\ ThumbsGood(u, F)
  BY <1>1 DEF Sound, EventsGood, CacheGood, AskedGood, ThumbsGood
<1>7. AskedNoted(u)
  <2> SUFFICES ASSUME NEW k \in u.asked \ u.torn, NEW to \in AllStores, Has(u, to, k)
               PROVE  u.tree[to][k].on
    BY DEF AskedNoted
  <2>1. t.tree[to][k].on
    BY <1>1, <1>2 DEF Sound, AskedNoted, Has
  <2> QED
    BY <2>1 DEF Has
<1>8. \A k, p : Drops(u, k, p) <=> Drops(t, k, p)
  BY DEF Drops
<1>9. ChangesWait(u, W)
  <2> SUFFICES ASSUME NEW k \in u.untold \ (u.torn \cup W) PROVE ChangeWaits(u, k)
    BY DEF ChangesWait
  <2>1. ChangeWaits(t, k)
    BY <1>1 DEF ChangesWait
  <2>2. CASE Drops(t, k, "name")
    BY <2>2, <1>8 DEF ChangeWaits
  <2>3. CASE \E to \in AllStores : <<to, k>> \in t.dirty /\ t.tree[to][k].size # t.tree[to][k].content
    <3>1. PICK to \in AllStores : <<to, k>> \in t.dirty /\ t.tree[to][k].size # t.tree[to][k].content
      BY <2>3
    <3>2. k \in DOMAIN t.tree[to]
      BY <1>1, <3>1 DEF Sound, DirtyGood
    <3>3. CASE to = st /\ k = h
      BY <3>1, <3>3 DEF ChangeWaits
    <3>4. CASE to # st \/ k # h
      <4>1. u.tree[to][k] = t.tree[to][k] /\ <<to, k>> \in u.dirty
        BY <3>1, <3>2, <3>4
      <4> QED
        BY <3>1, <4>1 DEF ChangeWaits
    <3> QED
      BY <3>3, <3>4
  <2> QED
    BY <2>1, <2>2, <2>3 DEF ChangeWaits
<1> DEFINE S == Subtree(t, st, h)
           moved == new.name # old.name \/ new.parent # old.parent
           K == [to \in AllStores |-> IF to = st /\ moved THEN DOMAIN t.tree[st] \ S ELSE DOMAIN t.tree[to]]
<1>10. S \subseteq DOMAIN t.tree[st] /\ Closed(t, st, S) /\ h \in S
  BY SubtreeFacts
<1>11. ASSUME NEW to \in AllStores
       PROVE  /\ K[to] \subseteq DOMAIN t.tree[to] /\ K[to] \subseteq DOMAIN u.tree[to]
              /\ \A k \in K[to] :
                    /\ u.tree[to][k].parent = t.tree[to][k].parent
                    /\ t.tree[to][k].parent \in K[to] \cup {Root}
                    /\ u.tree[to][k].name = t.tree[to][k].name
                    /\ u.tree[to][k].size = t.tree[to][k].size \/ <<k, "content">> \in Y
              /\ \A k \in DOMAIN t.tree[to] \ (K[to] \cup u.torn) : \A p \in Props :
                    <<k, p>> \in Y \/ \E x \in AllStores : Same(t, to, u, x, k, p)
  <2> HIDE DEF S
  <2>1. \A k \in DOMAIN t.tree[to] : t.tree[to][k].parent \in DOMAIN t.tree[to] \cup {Root}
    BY <1>1 DEF ItemsGood, ItemGood
  <2>2. CASE to # st
    <3>1. K[to] = DOMAIN t.tree[to] /\ u.tree[to] = t.tree[to]
      BY <2>2
    <3> QED
      BY <2>1, <3>1
  <2>3. CASE to = st /\ ~moved
    <3>1. K[to] = DOMAIN t.tree[to]
      BY <2>3
    <3> QED
      BY <2>1, <2>3, <3>1
  <2>4. CASE to = st /\ moved
    <3>1. K[to] = DOMAIN t.tree[st] \ S
      BY <2>4
    <3>2. \A k \in K[to] : k # h /\ t.tree[st][k].parent \notin S
      BY <1>10, <3>1 DEF Closed
    <3>3. ASSUME NEW k \in S, NEW p \in Props
          PROVE  <<k, p>> \in Y \/ Same(t, st, u, st, k, p)
      <4>1. k \in DOMAIN t.tree[st] /\ Has(u, st, k)
        BY <1>10 DEF Has
      <4>2. CASE p = "sample"
        BY <2>4, <4>2 DEF S
      <4>3. CASE p # "sample" /\ k # h
        <5>1. u.tree[st][k] = t.tree[st][k]
          BY <4>1, <4>3
        <5>2. Same(t, st, u, st, k, p)
          BY <4>1, <4>3, <5>1, SameValues
        <5> QED
          BY <5>2
      <4>4. CASE p # "sample" /\ k = h /\ <<k, p>> \notin Y
        <5>1. /\ p = "name" => u.tree[st][k].name = t.tree[st][k].name
              /\ p = "parent" => u.tree[st][k].parent = t.tree[st][k].parent
              /\ p = "content" => u.tree[st][k].size = t.tree[st][k].size
          BY <4>4
        <5>2. Same(t, st, u, st, k, p)
          BY <4>1, <4>4, <5>1, SameValues
        <5> QED
          BY <5>2
      <4> QED
        BY <4>2, <4>3, <4>4
    <3>4. \A k \in DOMAIN t.tree[st] \ (K[to] \cup u.torn) : k \in S
      BY <3>1
    <3>5. /\ K[to] \subseteq DOMAIN t.tree[to] /\ K[to] \subseteq DOMAIN u.tree[to]
          /\ \A k \in K[to] :
                /\ u.tree[to][k].parent = t.tree[to][k].parent
                /\ t.tree[to][k].parent \in K[to] \cup {Root}
                /\ u.tree[to][k].name = t.tree[to][k].name
                /\ u.tree[to][k].size = t.tree[to][k].size
      <4>1. \A k \in K[to] : u.tree[to][k] = t.tree[to][k]
        BY <2>4, <3>1, <3>2
      <4> QED
        BY <2>1, <2>4, <3>1, <3>2, <4>1
    <3> QED
      BY <2>4, <3>3, <3>4, <3>5
  <2> QED
    BY <2>2, <2>3, <2>4
<1> HIDE DEF K
<1>12. EntriesTrue(u, Y)
  BY <1>1, <1>3, <1>4, <1>11, EntriesKept
<1> QED
  BY <1>3, <1>4, <1>5, <1>6, <1>7, <1>9, <1>12 DEF Valid, Sound

\* What is in h does not depend on what h is in.
LEMMA SameContents ==
    ASSUME NEW t, NEW u, NEW st, NEW h, DOMAIN u.tree[st] = DOMAIN t.tree[st],
           \A k \in DOMAIN t.tree[st] \ {h} : u.tree[st][k].parent = t.tree[st][k].parent
    PROVE  Subtree(u, st, h) = Subtree(t, st, h)
<1>1. \A H : h \in H => (Closed(u, st, H) <=> Closed(t, st, H))
  BY DEF Closed
<1> QED
  BY <1>1 DEF Subtree

LEMMA NewName ==
    ASSUME NEW t, RecordGood(t), ItemsGood(t), NEW st \in AllStores, NEW h \in DOMAIN t.tree[st], NEW name
    PROVE  LET u == [t EXCEPT !.tree[st][h].name = name]
           IN  /\ DOMAIN u = Fields /\ u.events = t.events /\ u.cache = t.cache /\ u.next = t.next /\ u.torn = t.torn
               /\ u.stale = t.stale /\ u.thumb = t.thumb /\ u.asked = t.asked /\ u.untold = t.untold
               /\ u.dirty = t.dirty
               /\ DOMAIN u.tree = AllStores /\ \A to \in AllStores \ {st} : u.tree[to] = t.tree[to]
               /\ DOMAIN u.tree[st] = DOMAIN t.tree[st]
               /\ \A k \in DOMAIN t.tree[st] \ {h} : u.tree[st][k] = t.tree[st][k]
               /\ u.tree[st][h] = [t.tree[st][h] EXCEPT !.name = name]
  BY DEF RecordGood, Fields

LEMMA NewParent ==
    ASSUME NEW t, RecordGood(t), ItemsGood(t), NEW st \in AllStores, NEW h \in DOMAIN t.tree[st], NEW parent
    PROVE  LET u == [t EXCEPT !.tree[st][h].parent = parent]
           IN  /\ DOMAIN u = Fields /\ u.events = t.events /\ u.cache = t.cache /\ u.next = t.next /\ u.torn = t.torn
               /\ u.stale = t.stale /\ u.thumb = t.thumb /\ u.asked = t.asked /\ u.untold = t.untold
               /\ u.dirty = t.dirty
               /\ DOMAIN u.tree = AllStores /\ \A to \in AllStores \ {st} : u.tree[to] = t.tree[to]
               /\ DOMAIN u.tree[st] = DOMAIN t.tree[st]
               /\ \A k \in DOMAIN t.tree[st] \ {h} : u.tree[st][k] = t.tree[st][k]
               /\ u.tree[st][h] = [t.tree[st][h] EXCEPT !.parent = parent]
  BY DEF RecordGood, Fields

LEMMA NewSize ==
    ASSUME NEW t, RecordGood(t), ItemsGood(t), NEW st \in AllStores, NEW h \in DOMAIN t.tree[st], NEW size
    PROVE  LET u == [t EXCEPT !.tree[st][h].size = size]
           IN  /\ DOMAIN u = Fields /\ u.events = t.events /\ u.cache = t.cache /\ u.next = t.next /\ u.torn = t.torn
               /\ u.stale = t.stale /\ u.thumb = t.thumb /\ u.asked = t.asked /\ u.untold = t.untold
               /\ u.dirty = t.dirty
               /\ DOMAIN u.tree = AllStores /\ \A to \in AllStores \ {st} : u.tree[to] = t.tree[to]
               /\ DOMAIN u.tree[st] = DOMAIN t.tree[st]
               /\ \A k \in DOMAIN t.tree[st] \ {h} : u.tree[st][k] = t.tree[st][k]
               /\ u.tree[st][h] = [t.tree[st][h] EXCEPT !.size = size]
  BY DEF RecordGood, Fields

\* The paths of an object and what is in it are out of date.
LEMMA MovedValid ==
    ASSUME NEW t, NEW X, NEW Y, NEW U, NEW F, Valid(t, X, U, F), NEW st, NEW h,
           \A k, p : <<k, p>> \in X => <<k, p>> \in Y \/ (p = "sample" /\ k \in Subtree(t, st, h))
    PROVE  LET u == Moved(t, st, h)
           IN  /\ Valid(u, Y, U, F) /\ u.tree = t.tree /\ u.torn = t.torn /\ u.next = t.next
               /\ u.asked = t.asked /\ u.thumb = t.thumb /\ u.cache = t.cache /\ u.events = t.events
<1> DEFINE pairs == Subtree(t, st, h) \X {"sample"}
<1>1. \A k, p : <<k, p>> \in X => <<k, p>> \in Y \/ <<k, p>> \in pairs
  OBVIOUS
<1> HIDE DEF pairs
<1>2. Valid(OutOfDate(t, pairs), Y, U, F)
  BY <1>1, OutOfDateValid
<1>3. DOMAIN t = Fields
  BY FieldsOf
<1>4. Moved(t, st, h) = OutOfDate(t, pairs)
  BY DEF Moved, pairs
<1> QED
  BY <1>2, <1>3, <1>4 DEF OutOfDate, Fields

\* An object gets another name.
Renamed(t, st, h, name) == [t EXCEPT !.tree[st][h].name = name]

LEMMA NewNameValid ==
    ASSUME NEW t, NEW X, NEW U, NEW F, Valid(t, X, U, F), NEW st \in AllStores, NEW h \in DOMAIN t.tree[st], NEW name
    PROVE  LET u == Renamed(t, st, h, name)
           IN  /\ Valid(u, X \cup {<<h, "name">>} \cup (Subtree(t, st, h) \X {"sample"}), U, F)
               /\ Subtree(u, st, h) = Subtree(t, st, h)
               /\ h \in DOMAIN u.tree[st] /\ u.tree[st][h].name = name
<1> DEFINE v == [t EXCEPT !.tree[st][h].name = name]
           old == t.tree[st][h]
           new == [old EXCEPT !.name = name]
           S == Subtree(t, st, h)
           Y == X \cup {<<h, "name">>} \cup (S \X {"sample"})
<1>1. RecordGood(t) /\ ItemsGood(t) /\ CacheGood(t) /\ DirtyGood(t)
  BY FieldsOf
<1>2. /\ DOMAIN v = Fields /\ v.events = t.events /\ v.cache = t.cache /\ v.next = t.next /\ v.torn = t.torn
      /\ v.stale = t.stale /\ v.thumb = t.thumb /\ v.asked = t.asked /\ v.untold = t.untold
      /\ v.dirty = t.dirty
      /\ DOMAIN v.tree = AllStores /\ \A to \in AllStores \ {st} : v.tree[to] = t.tree[to]
      /\ DOMAIN v.tree[st] = DOMAIN t.tree[st]
      /\ \A k \in DOMAIN t.tree[st] \ {h} : v.tree[st][k] = t.tree[st][k]
      /\ v.tree[st][h] = new
  BY <1>1, NewName
<1>3. ItemGood(old, DOMAIN t.tree[st])
  BY <1>1, RootIsNone
<1>4. /\ ItemGood(new, DOMAIN t.tree[st]) /\ new.on = old.on /\ new.parent = old.parent
      /\ new.size = old.size /\ new.content = old.content /\ new.name = name
  BY <1>3 DEF ItemGood, ItemFields
<1> HIDE DEF v, new, old
<1>5. old = t.tree[st][h] /\ new = v.tree[st][h]
  BY <1>2 DEF old
<1>6. X \subseteq Y /\ <<h, "name">> \in Y /\ \A k \in S : <<k, "sample">> \in Y
  OBVIOUS
<1>7. S = Subtree(t, st, h)
  OBVIOUS
<1> HIDE DEF Y, S
<1>8a. /\ new.name # old.name \/ new.parent # old.parent => \A k \in Subtree(t, st, h) : <<k, "sample">> \in Y
       /\ new.name # old.name => <<h, "name">> \in Y
       /\ new.parent # old.parent => <<h, "parent">> \in Y
       /\ new.size # old.size => <<h, "content">> \in Y
       /\ v.dirty \subseteq t.dirty \cup {<<st, h>>} /\ t.dirty \subseteq v.dirty \cup {<<st, h>>}
       /\ h \in U \/ (<<st, h>> \in t.dirty /\ old.size # old.content => <<st, h>> \in v.dirty /\ new.size # new.content)
  BY <1>2, <1>4, <1>6, <1>7
<1>8b. ItemGood(new, DOMAIN t.tree[st]) /\ (old.on => new.on) /\ X \subseteq Y /\ U \subseteq U
  BY <1>4, <1>6
<1>8. Valid(v, Y, U, F)
  BY <1>2, <1>5, <1>8a, <1>8b, ItemStep
<1>9. Subtree(v, st, h) = S
  BY <1>2, <1>7, SameContents
<1>10. h \in DOMAIN v.tree[st] /\ v.tree[st][h].name = name
  BY <1>2, <1>4
<1> QED
  BY <1>7, <1>8, <1>9, <1>10 DEF v, Y, Renamed

\* A rename by the initiator: only the entry of the name may be wrong then.
LEMMA RenamedValid ==
    ASSUME NEW t, NEW X, NEW U, NEW F, Valid(t, X, U, F), NEW st \in AllStores, NEW h \in DOMAIN t.tree[st], NEW name
    PROVE  LET u == Moved(Renamed(t, st, h, name), st, h)
           IN  /\ Valid(u, X \cup {<<h, "name">>}, U, F)
               /\ h \in DOMAIN u.tree[st] /\ u.tree[st][h].name = name
<1> DEFINE v == Renamed(t, st, h, name)
           S == Subtree(t, st, h)
           Y == X \cup {<<h, "name">>} \cup (S \X {"sample"})
<1>1. /\ Valid(v, Y, U, F) /\ Subtree(v, st, h) = S
      /\ h \in DOMAIN v.tree[st] /\ v.tree[st][h].name = name
  BY NewNameValid
<1> HIDE DEF v, Y
<1>2. \A k, p : <<k, p>> \in Y => <<k, p>> \in X \cup {<<h, "name">>} \/ (p = "sample" /\ k \in Subtree(v, st, h))
  BY <1>1 DEF Y
<1> DEFINE u == Moved(v, st, h)
<1>3. Valid(u, X \cup {<<h, "name">>}, U, F) /\ u.tree = v.tree
  BY <1>1, <1>2, MovedValid
<1> HIDE DEF u
<1>4. h \in DOMAIN u.tree[st] /\ u.tree[st][h].name = name
  BY <1>1, <1>3
<1> QED
  BY <1>3, <1>4 DEF u, v

\* An object gets another parent.
LEMMA ReparentedValid ==
    ASSUME NEW t, NEW X, NEW U, NEW F, Valid(t, X, U, F), NEW st \in AllStores, NEW h \in DOMAIN t.tree[st],
           NEW parent \in DOMAIN t.tree[st] \cup {Root}
    PROVE  LET u == [t EXCEPT !.tree[st][h].parent = parent]
           IN  /\ Valid(u, X \cup {<<h, "parent">>} \cup (Subtree(t, st, h) \X {"sample"}), U, F)
               /\ Subtree(u, st, h) = Subtree(t, st, h)
               /\ u.torn = t.torn /\ u.next = t.next /\ u.asked = t.asked
               /\ \A to \in AllStores : DOMAIN u.tree[to] = DOMAIN t.tree[to]
<1> DEFINE v == [t EXCEPT !.tree[st][h].parent = parent]
           old == t.tree[st][h]
           new == [old EXCEPT !.parent = parent]
           S == Subtree(t, st, h)
           Y == X \cup {<<h, "parent">>} \cup (S \X {"sample"})
<1>1. RecordGood(t) /\ ItemsGood(t) /\ CacheGood(t) /\ DirtyGood(t)
  BY FieldsOf
<1>2. /\ DOMAIN v = Fields /\ v.events = t.events /\ v.cache = t.cache /\ v.next = t.next /\ v.torn = t.torn
      /\ v.stale = t.stale /\ v.thumb = t.thumb /\ v.asked = t.asked /\ v.untold = t.untold
      /\ v.dirty = t.dirty
      /\ DOMAIN v.tree = AllStores /\ \A to \in AllStores \ {st} : v.tree[to] = t.tree[to]
      /\ DOMAIN v.tree[st] = DOMAIN t.tree[st]
      /\ \A k \in DOMAIN t.tree[st] \ {h} : v.tree[st][k] = t.tree[st][k]
      /\ v.tree[st][h] = new
  BY <1>1, NewParent
<1> HIDE DEF v
<1>3. ItemGood(old, DOMAIN t.tree[st])
  BY <1>1, RootIsNone
<1>4. /\ ItemGood(new, DOMAIN t.tree[st]) /\ new.on = old.on /\ new.name = old.name
      /\ new.size = old.size /\ new.content = old.content /\ new.parent = parent
  BY <1>3 DEF ItemGood, ItemFields
<1> HIDE DEF new, old
<1>5. old = t.tree[st][h] /\ new = v.tree[st][h]
  BY <1>2 DEF old
<1>6. X \subseteq Y /\ <<h, "parent">> \in Y /\ \A k \in S : <<k, "sample">> \in Y
  OBVIOUS
<1>7. S = Subtree(t, st, h)
  OBVIOUS
<1> HIDE DEF Y, S
<1>8a. /\ new.name # old.name \/ new.parent # old.parent => \A k \in Subtree(t, st, h) : <<k, "sample">> \in Y
       /\ new.name # old.name => <<h, "name">> \in Y
       /\ new.parent # old.parent => <<h, "parent">> \in Y
       /\ new.size # old.size => <<h, "content">> \in Y
       /\ v.dirty \subseteq t.dirty \cup {<<st, h>>} /\ t.dirty \subseteq v.dirty \cup {<<st, h>>}
       /\ h \in U \/ (<<st, h>> \in t.dirty /\ old.size # old.content => <<st, h>> \in v.dirty /\ new.size # new.content)
  BY <1>2, <1>4, <1>6, <1>7
<1>8b. ItemGood(new, DOMAIN t.tree[st]) /\ (old.on => new.on) /\ X \subseteq Y /\ U \subseteq U
  BY <1>4, <1>6
<1>8. Valid(v, Y, U, F)
  BY <1>2, <1>5, <1>8a, <1>8b, ItemStep
<1>9. Subtree(v, st, h) = S
  BY <1>2, <1>7, SameContents
<1>10. \A to \in AllStores : DOMAIN v.tree[to] = DOMAIN t.tree[to]
  BY <1>2
<1> QED
  BY <1>2, <1>7, <1>8, <1>9, <1>10 DEF v, Y

\* The object info is made anew from the disk.
LEMMA PopulateValid ==
    ASSUME NEW t, NEW X, NEW Y, NEW U, NEW W, NEW F, Valid(t, X, U, F), X \subseteq Y, U \subseteq W,
           NEW st \in AllStores, NEW h \in DOMAIN t.tree[st],
           t.tree[st][h].size # t.tree[st][h].content => <<h, "content">> \in Y /\ h \in W
    PROVE  LET u == PopulateObjectInfo(t, st, h)
           IN  /\ Valid(u, Y, W, F)
               /\ u.torn = t.torn /\ u.next = t.next /\ u.asked = t.asked
               /\ \A to \in AllStores : DOMAIN u.tree[to] = DOMAIN t.tree[to]
<1> DEFINE old == t.tree[st][h]
           v == [t EXCEPT !.tree[st][h].size = old.content]
           new == [old EXCEPT !.size = old.content]
<1>1. RecordGood(t) /\ ItemsGood(t) /\ CacheGood(t) /\ DirtyGood(t)
  BY FieldsOf
<1>2. /\ DOMAIN v = Fields /\ v.events = t.events /\ v.cache = t.cache /\ v.next = t.next /\ v.torn = t.torn
      /\ v.stale = t.stale /\ v.thumb = t.thumb /\ v.asked = t.asked /\ v.untold = t.untold
      /\ v.dirty = t.dirty
      /\ DOMAIN v.tree = AllStores /\ \A to \in AllStores \ {st} : v.tree[to] = t.tree[to]
      /\ DOMAIN v.tree[st] = DOMAIN t.tree[st]
      /\ \A k \in DOMAIN t.tree[st] \ {h} : v.tree[st][k] = t.tree[st][k]
      /\ v.tree[st][h] = new
  BY <1>1, NewSize
<1>3. PopulateObjectInfo(t, st, h) = RequestSamples(v, st, {h})
  BY DEF PopulateObjectInfo
<1> HIDE DEF v
<1>4. ItemGood(old, DOMAIN t.tree[st])
  BY <1>1, RootIsNone
<1>5. /\ ItemGood(new, DOMAIN t.tree[st]) /\ new.on = old.on /\ new.name = old.name
      /\ new.parent = old.parent /\ new.content = old.content /\ new.size = old.content
  BY <1>4 DEF ItemGood, ItemFields
<1>6. old.size # old.content => <<h, "content">> \in Y /\ h \in W
  OBVIOUS
<1>7. old = t.tree[st][h]
  OBVIOUS
<1> HIDE DEF new, old
<1>8a. /\ new.name # old.name \/ new.parent # old.parent => \A k \in Subtree(t, st, h) : <<k, "sample">> \in Y
       /\ new.name # old.name => <<h, "name">> \in Y
       /\ new.parent # old.parent => <<h, "parent">> \in Y
       /\ new.size # old.size => <<h, "content">> \in Y
       /\ v.dirty \subseteq t.dirty \cup {<<st, h>>} /\ t.dirty \subseteq v.dirty \cup {<<st, h>>}
       /\ h \in W \/ (<<st, h>> \in t.dirty /\ old.size # old.content => <<st, h>> \in v.dirty /\ new.size # new.content)
  BY <1>2, <1>5, <1>6
<1>8b. ItemGood(new, DOMAIN t.tree[st]) /\ (old.on => new.on) /\ new = v.tree[st][h]
  BY <1>2, <1>5
<1>8. Valid(v, Y, W, F)
  BY <1>2, <1>7, <1>8a, <1>8b, ItemStep
<1> DEFINE u == RequestSamples(v, st, {h})
<1>9. Valid(u, Y, W, F) /\ u.tree = v.tree /\ u.next = v.next /\ u.torn = v.torn /\ u.asked = v.asked
  BY <1>8, RequestSamplesValid
<1> HIDE DEF u
<1>10. \A to \in AllStores : DOMAIN u.tree[to] = DOMAIN t.tree[to]
  BY <1>2, <1>9
<1> QED
  BY <1>2, <1>3, <1>9, <1>10 DEF u

-----------------------------------------------------------------------------
(* Objects that go and come.                                               *)

\* h and what is in it go from storage st.
LEMMA RemoveItemsValid ==
    ASSUME NEW t, NEW X, NEW U, NEW F, Valid(t, X, U, F), NEW st \in AllStores, NEW h \in DOMAIN t.tree[st],
           NEW H, H = Subtree(t, st, h)
    PROVE  LET u == RemoveItems(t, st, H)
           IN  /\ Valid(u, X \cup (H \X Props), U \cup H, F)
               /\ u.torn = t.torn /\ u.next = t.next /\ u.asked = t.asked /\ u.untold = t.untold
               /\ H \subseteq 1 .. t.next - 1
<1> DEFINE u == RemoveItems(t, st, H)
           Y == X \cup (H \X Props)
           K == [to \in AllStores |-> DOMAIN u.tree[to]]
<1>1. /\ Sound(t, F) /\ EntriesTrue(t, X) /\ ChangesWait(t, U) /\ DOMAIN t = Fields
      /\ RecordGood(t) /\ ItemsGood(t) /\ CacheGood(t) /\ DOMAIN t.tree = AllStores
  BY FieldsOf DEF Valid
<1>2. H \subseteq DOMAIN t.tree[st] /\ Closed(t, st, H)
  BY SubtreeFacts
<1>3. /\ DOMAIN u = Fields /\ u.events = t.events /\ u.cache = t.cache /\ u.next = t.next /\ u.torn = t.torn
      /\ u.stale = t.stale /\ u.thumb = t.thumb /\ u.asked = t.asked /\ u.untold = t.untold
      /\ u.tree = [t.tree EXCEPT ![st] = Without(t.tree[st], H)]
      /\ u.dirty = t.dirty \ ({st} \X H)
  BY <1>1 DEF RemoveItems, Fields
<1> HIDE DEF u
<1>4. /\ DOMAIN u.tree = AllStores /\ u.tree[st] = Without(t.tree[st], H)
      /\ \A to \in AllStores \ {st} : u.tree[to] = t.tree[to]
  BY <1>1, <1>3
<1>5. DOMAIN u.tree[st] = DOMAIN t.tree[st] \ H /\ \A k \in DOMAIN t.tree[st] \ H : u.tree[st][k] = t.tree[st][k]
  BY <1>4 DEF Without
<1>6. \A to \in AllStores : /\ DOMAIN u.tree[to] \subseteq DOMAIN t.tree[to]
                            /\ \A k \in DOMAIN u.tree[to] : u.tree[to][k] = t.tree[to][k]
  BY <1>4, <1>5
<1>7. \A to \in AllStores : \A k \in DOMAIN u.tree[to] : t.tree[to][k].parent \in DOMAIN u.tree[to] \cup {Root}
  <2> SUFFICES ASSUME NEW to \in AllStores, NEW k \in DOMAIN u.tree[to]
               PROVE  t.tree[to][k].parent \in DOMAIN u.tree[to] \cup {Root}
    OBVIOUS
  <2>1. k \in DOMAIN t.tree[to] /\ t.tree[to][k].parent \in DOMAIN t.tree[to] \cup {Root}
    BY <1>1, <1>6 DEF ItemsGood, ItemGood
  <2>2. CASE to # st
    BY <1>4, <2>1, <2>2
  <2>3. CASE to = st
    BY <1>2, <1>5, <2>1, <2>3 DEF Closed
  <2> QED
    BY <2>2, <2>3
<1>8. RecordGood(u)
  BY <1>1, <1>3, <1>4 DEF RecordGood
<1>9. ItemsGood(u)
  <2> SUFFICES ASSUME NEW to \in AllStores, NEW k \in DOMAIN u.tree[to]
               PROVE  k \in 1 .. u.next - 1 /\ ItemGood(u.tree[to][k], DOMAIN u.tree[to])
    BY DEF ItemsGood
  <2>1. k \in 1 .. t.next - 1 /\ ItemGood(t.tree[to][k], DOMAIN t.tree[to]) /\ u.tree[to][k] = t.tree[to][k]
    BY <1>1, <1>6 DEF ItemsGood
  <2> QED
    BY <1>3, <1>7, <2>1 DEF ItemGood
<1>10. InOneStore(u)
  BY <1>1, <1>3, <1>6 DEF Sound, InOneStore
<1>11. DirtyGood(u)
  <2> SUFFICES ASSUME NEW d \in u.dirty PROVE \E to \in AllStores : \E k \in DOMAIN u.tree[to] : d = <<to, k>>
    BY DEF DirtyGood
  <2>0. PICK to \in AllStores : \E k \in DOMAIN t.tree[to] : d = <<to, k>>
    BY <1>1, <1>3 DEF Sound, DirtyGood
  <2>1. PICK k \in DOMAIN t.tree[to] : d = <<to, k>>
    BY <2>0
  <2>2. to = st => k \notin H
    BY <1>3, <2>1
  <2>3. k \in DOMAIN u.tree[to]
    BY <1>4, <1>5, <2>1, <2>2
  <2> QED
    BY <2>1, <2>3
<1>12. EventsGood(u) /\ CacheGood(u) /\ AskedGood(u) /\ ThumbsGood(u, F)
  BY <1>1, <1>3 DEF Sound, EventsGood, CacheGood, AskedGood, ThumbsGood
<1>13. AskedNoted(u)
  BY <1>1, <1>3, <1>6 DEF Sound, AskedNoted, Has
<1>14. \A k, p : Drops(u, k, p) <=> Drops(t, k, p)
  BY <1>3 DEF Drops
<1>15. ChangesWait(u, U \cup H)
  <2> SUFFICES ASSUME NEW k \in u.untold \ (u.torn \cup U \cup H) PROVE ChangeWaits(u, k)
    BY DEF ChangesWait
  <2>1. ChangeWaits(t, k)
    BY <1>1, <1>3 DEF ChangesWait
  <2>2. ASSUME NEW to \in AllStores, <<to, k>> \in t.dirty, t.tree[to][k].size # t.tree[to][k].content
        PROVE  <<to, k>> \in u.dirty /\ u.tree[to][k].size # u.tree[to][k].content
    <3>1. <<to, k>> \in u.dirty
      BY <1>3, <2>2
    <3>2. k \in DOMAIN u.tree[to]
      BY <1>11, <3>1 DEF DirtyGood
    <3> QED
      BY <1>6, <2>2, <3>1, <3>2
  <2> QED
    BY <1>14, <2>1, <2>2 DEF ChangeWaits
<1>16. ASSUME NEW to \in AllStores
       PROVE  /\ K[to] \subseteq DOMAIN t.tree[to] /\ K[to] \subseteq DOMAIN u.tree[to]
              /\ \A k \in K[to] :
                    /\ u.tree[to][k].parent = t.tree[to][k].parent
                    /\ t.tree[to][k].parent \in K[to] \cup {Root}
                    /\ u.tree[to][k].name = t.tree[to][k].name
                    /\ u.tree[to][k].size = t.tree[to][k].size \/ <<k, "content">> \in Y
              /\ \A k \in DOMAIN t.tree[to] \ (K[to] \cup u.torn) : \A p \in Props :
                    <<k, p>> \in Y \/ \E x \in AllStores : Same(t, to, u, x, k, p)
  <2>1. K[to] = DOMAIN u.tree[to]
    OBVIOUS
  <2>2. \A k \in DOMAIN t.tree[to] \ K[to] : k \in H
    BY <1>4, <1>5, <2>1
  <2> HIDE DEF K
  <2> QED
    BY <1>6, <1>7, <2>1, <2>2
<1>17. X \subseteq Y /\ t.torn \subseteq u.torn
  BY <1>3
<1> HIDE DEF K, Y
<1>18. EntriesTrue(u, Y)
  BY <1>1, <1>3, <1>8, <1>9, <1>16, <1>17, EntriesKept
<1>19. H \subseteq 1 .. t.next - 1
  BY <1>1, <1>2 DEF ItemsGood
<1> QED
  BY <1>3, <1>8, <1>9, <1>10, <1>11, <1>12, <1>13, <1>15, <1>18, <1>19 DEF Valid, Sound, u, Y

LEMMA DeleteItemValid ==
    ASSUME NEW t, NEW X, NEW U, NEW F, Valid(t, X, U, F), NEW h, StorageOfHandle(t, h) # NoStore
    PROVE  Valid(DeleteItem(t, h), X, U, F)
<1> DEFINE st == StorageOfHandle(t, h)
           H == Subtree(t, st, h)
           u == RemoveItems(t, st, H)
           v == Forget(u, H)
           w == OutOfDate(v, H \X Props)
<1>1. st \in AllStores /\ h \in DOMAIN t.tree[st]
  BY StorageFound DEF Has
<1>2. DeleteItem(t, h) = CacheRemove(w, h)
  BY DEF DeleteItem
<1>3. H = Subtree(t, st, h)
  OBVIOUS
<1> HIDE DEF st, H
<1>4. Valid(u, X \cup (H \X Props), U \cup H, F)
  BY <1>1, <1>3, RemoveItemsValid
<1> HIDE DEF u
<1>5. Valid(v, X \cup (H \X Props), U, F)
  BY <1>4, ForgetValid
<1> HIDE DEF v
<1>6. \A k, p : <<k, p>> \in X \cup (H \X Props) => <<k, p>> \in X \/ <<k, p>> \in H \X Props
  OBVIOUS
<1>7. Valid(w, X, U, F)
  BY <1>5, <1>6, OutOfDateValid
<1> HIDE DEF w
<1>8. Valid(CacheRemove(w, h), X, U, F)
  BY <1>7, CacheRemoveValid
<1> QED
  BY <1>2, <1>8

\* DeleteObject of all objects
LEMMA AllGone ==
    ASSUME NEW t, NEW X, NEW U, NEW F, Valid(t, X, U, F)
    PROVE  LET u == [t EXCEPT !.tree = [st \in DOMAIN t.tree |-> <<>>], !.dirty = {}]
           IN  Valid(OutOfDate(Forget(u, Live(t)), Live(t) \X Props), X, U, F)
<1> DEFINE u == [t EXCEPT !.tree = [st \in DOMAIN t.tree |-> <<>>], !.dirty = {}]
           H == Live(t)
           Y == X \cup (H \X Props)
           K == [to \in AllStores |-> {}]
<1>1. /\ Sound(t, F) /\ EntriesTrue(t, X) /\ ChangesWait(t, U) /\ DOMAIN t = Fields
      /\ RecordGood(t) /\ ItemsGood(t) /\ CacheGood(t) /\ DOMAIN t.tree = AllStores
  BY FieldsOf DEF Valid
<1>2. /\ DOMAIN u = Fields /\ u.events = t.events /\ u.cache = t.cache /\ u.next = t.next /\ u.torn = t.torn
      /\ u.stale = t.stale /\ u.thumb = t.thumb /\ u.asked = t.asked /\ u.untold = t.untold
      /\ u.tree = [st \in AllStores |-> <<>>] /\ u.dirty = {}
  BY <1>1 DEF Fields
<1> HIDE DEF u
<1>3. DOMAIN u.tree = AllStores /\ \A st \in AllStores : DOMAIN u.tree[st] = {}
  BY <1>2
<1>4. \A st \in AllStores : DOMAIN t.tree[st] \subseteq H
  BY DEF Live
<1> HIDE DEF H
<1>5. RecordGood(u) /\ ItemsGood(u) /\ InOneStore(u) /\ DirtyGood(u)
  BY <1>1, <1>2, <1>3 DEF RecordGood, ItemsGood, InOneStore, DirtyGood
<1>6. EventsGood(u) /\ CacheGood(u) /\ AskedGood(u) /\ ThumbsGood(u, F)
  BY <1>1, <1>2 DEF Sound, EventsGood, CacheGood, AskedGood, ThumbsGood
<1>7. AskedNoted(u)
  BY <1>3 DEF AskedNoted, Has
<1>8. ChangesWait(u, U \cup H)
  <2> SUFFICES ASSUME NEW k \in u.untold \ (u.torn \cup U \cup H) PROVE ChangeWaits(u, k)
    BY DEF ChangesWait
  <2>1. ChangeWaits(t, k)
    BY <1>1, <1>2 DEF ChangesWait
  <2>2. \A to \in AllStores : <<to, k>> \notin t.dirty
    BY <1>1, <1>4 DEF Sound, DirtyGood
  <2>3. Drops(t, k, "name")
    BY <2>1, <2>2 DEF ChangeWaits
  <2>4. Drops(u, k, "name")
    BY <1>2, <2>3 DEF Drops
  <2> QED
    BY <2>4 DEF ChangeWaits
<1>9. ASSUME NEW to \in AllStores
      PROVE  /\ K[to] \subseteq DOMAIN t.tree[to] /\ K[to] \subseteq DOMAIN u.tree[to]
             /\ \A k \in K[to] :
                   /\ u.tree[to][k].parent = t.tree[to][k].parent
                   /\ t.tree[to][k].parent \in K[to] \cup {Root}
                   /\ u.tree[to][k].name = t.tree[to][k].name
                   /\ u.tree[to][k].size = t.tree[to][k].size \/ <<k, "content">> \in Y
             /\ \A k \in DOMAIN t.tree[to] \ (K[to] \cup u.torn) : \A p \in Props :
                   <<k, p>> \in Y \/ \E x \in AllStores : Same(t, to, u, x, k, p)
  BY <1>4
<1>10. X \subseteq Y /\ t.torn \subseteq u.torn
  BY <1>2
<1> HIDE DEF K, Y
<1>11. EntriesTrue(u, Y)
  BY <1>1, <1>2, <1>5, <1>9, <1>10, EntriesKept
<1>12. Valid(u, Y, U \cup H, F)
  BY <1>5, <1>6, <1>7, <1>8, <1>11 DEF Valid, Sound
<1> DEFINE v == Forget(u, H)
<1>13. Valid(v, Y, U, F)
  BY <1>12, ForgetValid
<1> HIDE DEF v
<1>14. \A k, p : <<k, p>> \in Y => <<k, p>> \in X \/ <<k, p>> \in H \X Props
  BY DEF Y
<1>15. Valid(OutOfDate(v, H \X Props), X, U, F)
  BY <1>13, <1>14, OutOfDateValid
<1> QED
  BY <1>15 DEF v, u, H

\* Objects come into storage st: new ones, or copies of objects in another.
LEMMA AddStep ==
    ASSUME NEW t, NEW u, NEW X, NEW U, NEW F, Valid(t, X, U, F), NEW st \in AllStores,
           NEW new, NEW N, DOMAIN new = N, N \cap DOMAIN t.tree[st] = {},
           \A k \in N : ItemGood(new[k], N \cup DOMAIN t.tree[st]),
           DOMAIN u = Fields, u.events = t.events, u.cache = t.cache, u.stale = t.stale, u.thumb = t.thumb,
           u.asked = t.asked, u.untold = t.untold, t.torn \subseteq u.torn, N \cap t.asked \subseteq u.torn,
           u.next \in Nat, t.next <= u.next, N \subseteq 1 .. u.next - 1,
           \A to \in AllStores \ {st} : N \cap DOMAIN t.tree[to] \subseteq u.torn,
           u.tree = [t.tree EXCEPT ![st] = Merge(new, t.tree[st])],
           t.dirty \subseteq u.dirty, u.dirty \subseteq t.dirty \cup ({st} \X N)
    PROVE  Valid(u, X, U, F)
<1> DEFINE K == [to \in AllStores |-> DOMAIN t.tree[to]]
<1>1. /\ Sound(t, F) /\ EntriesTrue(t, X) /\ ChangesWait(t, U) /\ DOMAIN t = Fields
      /\ RecordGood(t) /\ ItemsGood(t) /\ CacheGood(t) /\ DOMAIN t.tree = AllStores /\ t.next \in Nat \ {0}
  BY FieldsOf DEF Valid
<1>2. /\ DOMAIN u.tree = AllStores /\ u.tree[st] = Merge(new, t.tree[st])
      /\ \A to \in AllStores \ {st} : u.tree[to] = t.tree[to]
  BY <1>1
<1>3. /\ DOMAIN u.tree[st] = N \cup DOMAIN t.tree[st]
      /\ \A k \in N : u.tree[st][k] = new[k]
      /\ \A k \in DOMAIN t.tree[st] : u.tree[st][k] = t.tree[st][k]
  BY <1>2 DEF Merge
<1>4. \A to \in AllStores : /\ DOMAIN t.tree[to] \subseteq DOMAIN u.tree[to]
                            /\ \A k \in DOMAIN t.tree[to] : u.tree[to][k] = t.tree[to][k]
  BY <1>2, <1>3
<1>5. \A x \in 1 .. t.next - 1 : x \in 1 .. u.next - 1
  BY <1>1
<1>6. RecordGood(u)
  BY <1>1, <1>2 DEF RecordGood
<1>7. ItemsGood(u)
  <2> SUFFICES ASSUME NEW to \in AllStores, NEW k \in DOMAIN u.tree[to]
               PROVE  k \in 1 .. u.next - 1 /\ ItemGood(u.tree[to][k], DOMAIN u.tree[to])
    BY DEF ItemsGood
  <2>1. CASE k \in DOMAIN t.tree[to]
    <3>1. k \in 1 .. t.next - 1 /\ ItemGood(t.tree[to][k], DOMAIN t.tree[to]) /\ u.tree[to][k] = t.tree[to][k]
      BY <1>1, <1>4, <2>1 DEF ItemsGood
    <3>2. DOMAIN t.tree[to] \subseteq DOMAIN u.tree[to]
      BY <1>4
    <3>3. k \in 1 .. u.next - 1
      BY <1>5, <3>1
    <3> QED
      BY <3>1, <3>2, <3>3 DEF ItemGood
  <2>2. CASE k \notin DOMAIN t.tree[to]
    <3>1. to = st /\ k \in N
      BY <1>2, <1>3, <2>2
    <3> QED
      BY <1>3, <3>1
  <2> QED
    BY <2>1, <2>2
<1>8. InOneStore(u)
  <2> SUFFICES ASSUME NEW x \in AllStores, NEW y \in AllStores, x # y, NEW k \in DOMAIN u.tree[x], k \in DOMAIN u.tree[y],
                      k \notin u.torn
               PROVE  FALSE
    BY DEF InOneStore
  <2>1. CASE x # st /\ y # st
    BY <1>1, <1>2, <2>1 DEF Sound, InOneStore
  <2>2. CASE x = st
    BY <1>1, <1>2, <1>3, <2>2 DEF Sound, InOneStore
  <2>3. CASE y = st
    BY <1>1, <1>2, <1>3, <2>3 DEF Sound, InOneStore
  <2> QED
    BY <2>1, <2>2, <2>3
<1>9. DirtyGood(u)
  <2> SUFFICES ASSUME NEW d \in u.dirty PROVE \E to \in AllStores : \E k \in DOMAIN u.tree[to] : d = <<to, k>>
    BY DEF DirtyGood
  <2>1. CASE d \in t.dirty
    BY <1>1, <1>4, <2>1 DEF Sound, DirtyGood
  <2>2. CASE d \in {st} \X N
    BY <1>3, <2>2
  <2> QED
    BY <2>1, <2>2
<1>10. EventsGood(u) /\ CacheGood(u) /\ AskedGood(u) /\ ThumbsGood(u, F)
  BY <1>1, <1>5 DEF Sound, EventsGood, CacheGood, AskedGood, ThumbsGood
<1>11. AskedNoted(u)
  <2> SUFFICES ASSUME NEW k \in u.asked \ u.torn, NEW to \in AllStores, Has(u, to, k)
               PROVE  u.tree[to][k].on
    BY DEF AskedNoted
  <2>1. k \in DOMAIN t.tree[to]
    BY <1>2, <1>3 DEF Has
  <2> QED
    BY <1>1, <1>4, <2>1 DEF Sound, AskedNoted, Has
<1>12. \A k, p : Drops(u, k, p) <=> Drops(t, k, p)
  BY DEF Drops
<1>13. ChangesWait(u, U)
  <2> SUFFICES ASSUME NEW k \in u.untold \ (u.torn \cup U) PROVE ChangeWaits(u, k)
    BY DEF ChangesWait
  <2>1. ChangeWaits(t, k)
    BY <1>1 DEF ChangesWait
  <2>2. ASSUME NEW to \in AllStores, <<to, k>> \in t.dirty, t.tree[to][k].size # t.tree[to][k].content
        PROVE  <<to, k>> \in u.dirty /\ u.tree[to][k].size # u.tree[to][k].content
    <3>1. k \in DOMAIN t.tree[to]
      BY <1>1, <2>2 DEF Sound, DirtyGood
    <3> QED
      BY <1>4, <2>2, <3>1
  <2> QED
    BY <1>12, <2>1, <2>2 DEF ChangeWaits
<1>14. ASSUME NEW to \in AllStores
       PROVE  /\ K[to] \subseteq DOMAIN t.tree[to] /\ K[to] \subseteq DOMAIN u.tree[to]
              /\ \A k \in K[to] :
                    /\ u.tree[to][k].parent = t.tree[to][k].parent
                    /\ t.tree[to][k].parent \in K[to] \cup {Root}
                    /\ u.tree[to][k].name = t.tree[to][k].name
                    /\ u.tree[to][k].size = t.tree[to][k].size \/ <<k, "content">> \in X
              /\ \A k \in DOMAIN t.tree[to] \ (K[to] \cup u.torn) : \A p \in Props :
                    <<k, p>> \in X \/ \E x \in AllStores : Same(t, to, u, x, k, p)
  <2>1. K[to] = DOMAIN t.tree[to]
    OBVIOUS
  <2>2. \A k \in DOMAIN t.tree[to] : t.tree[to][k].parent \in DOMAIN t.tree[to] \cup {Root}
    BY <1>1 DEF ItemsGood, ItemGood
  <2> HIDE DEF K
  <2> QED
    BY <1>4, <2>1, <2>2
<1>15. X \subseteq X
  OBVIOUS
<1> HIDE DEF K
<1>16. EntriesTrue(u, X)
  BY <1>1, <1>6, <1>7, <1>14, <1>15, EntriesKept
<1> QED
  BY <1>6, <1>7, <1>8, <1>9, <1>10, <1>11, <1>13, <1>16 DEF Valid, Sound

LEMMA FolderThere ==
    ASSUME NEW t, NEW st, NEW parent, CanHold(t, st, parent)
    PROVE  parent \in DOMAIN t.tree[st] \cup {Root}
  BY DEF CanHold, Has

LEMMA AddItemValid ==
    ASSUME NEW t, NEW X, NEW U, NEW F, Valid(t, X, U, F), NEW st \in AllStores, NEW parent, NEW name,
           CanHold(t, st, parent)
    PROVE  LET u == AddItem(t, st, parent, name)
           IN  /\ Valid(u, X, U, F) /\ t.next \in DOMAIN u.tree[st] /\ t.next \in Int
               /\ u.tree[st][t.next].size = u.tree[st][t.next].content
               /\ u.torn = t.torn /\ u.asked = t.asked
<1> DEFINE u == AddItem(t, st, parent, name)
           item == NewItem(parent, FALSE, name)
           new == Only(t.next, item)
           N == {t.next}
<1>1. /\ DOMAIN t = Fields /\ t.next \in Nat \ {0} /\ ItemsGood(t) /\ DOMAIN t.tree = AllStores /\ AskedGood(t)
  BY FieldsOf
<1>2. /\ DOMAIN u = Fields /\ u.events = t.events /\ u.cache = t.cache /\ u.torn = t.torn
      /\ u.stale = t.stale /\ u.thumb = t.thumb /\ u.asked = t.asked /\ u.untold = t.untold
      /\ u.dirty = t.dirty /\ u.next = t.next + 1
      /\ u.tree = [t.tree EXCEPT ![st] = Merge(new, t.tree[st])]
  BY <1>1 DEF AddItem, Fields
<1> HIDE DEF u
<1>3. DOMAIN new = N /\ new[t.next] = item
  BY DEF Only
<1>4. \A to \in AllStores : t.next \notin DOMAIN t.tree[to]
  BY <1>1 DEF ItemsGood
<1>5. parent \in DOMAIN t.tree[st] \cup {Root}
  BY FolderThere
<1>6. ItemGood(item, N \cup DOMAIN t.tree[st]) /\ item.size = item.content
  BY <1>5 DEF ItemGood, NewItem, ItemFields
<1> HIDE DEF new, item
<1>7. /\ N \cap DOMAIN t.tree[st] = {} /\ \A k \in N : ItemGood(new[k], N \cup DOMAIN t.tree[st])
      /\ t.torn \subseteq u.torn /\ N \cap t.asked \subseteq u.torn
      /\ \A to \in AllStores \ {st} : N \cap DOMAIN t.tree[to] \subseteq u.torn
      /\ t.dirty \subseteq u.dirty /\ u.dirty \subseteq t.dirty \cup ({st} \X N)
  BY <1>1, <1>2, <1>3, <1>4, <1>6 DEF AskedGood
<1>8. u.next \in Nat /\ t.next <= u.next /\ N \subseteq 1 .. u.next - 1
  BY <1>1, <1>2
<1> HIDE DEF N
<1>9. Valid(u, X, U, F)
  BY <1>2, <1>3, <1>7, <1>8, AddStep
<1>10. t.next \in DOMAIN u.tree[st] /\ u.tree[st][t.next] = item
  <2>1. u.tree[st] = Merge(new, t.tree[st])
    BY <1>1, <1>2
  <2>2. t.next \in DOMAIN new
    BY <1>3 DEF N
  <2> QED
    BY <2>1, <2>2, <1>3 DEF Merge
<1> QED
  BY <1>1, <1>2, <1>6, <1>9, <1>10 DEF u

\* A file is written to: its IN_CLOSE_WRITE is to come.
LEMMA DirtyValid ==
    ASSUME NEW t, NEW X, NEW U, NEW F, Valid(t, X, U, F), NEW st \in AllStores, NEW h \in DOMAIN t.tree[st]
    PROVE  Valid([t EXCEPT !.dirty = @ \cup {<<st, h>>}], X, U, F)
<1> DEFINE u == [t EXCEPT !.dirty = @ \cup {<<st, h>>}]
           old == t.tree[st][h]
<1>1. DOMAIN t = Fields /\ RecordGood(t) /\ ItemsGood(t) /\ DOMAIN t.tree = AllStores
  BY FieldsOf
<1>2. /\ DOMAIN u = Fields /\ u.events = t.events /\ u.cache = t.cache /\ u.next = t.next /\ u.torn = t.torn
      /\ u.stale = t.stale /\ u.thumb = t.thumb /\ u.asked = t.asked /\ u.untold = t.untold
      /\ u.dirty = t.dirty \cup {<<st, h>>} /\ u.tree = t.tree
  BY <1>1 DEF Fields
<1> HIDE DEF u
<1>3. ItemGood(old, DOMAIN t.tree[st])
  BY <1>1, RootIsNone
<1>4. /\ u.dirty \subseteq t.dirty \cup {<<st, h>>} /\ t.dirty \subseteq u.dirty \cup {<<st, h>>}
      /\ <<st, h>> \in u.dirty
  BY <1>2
<1>5. old = t.tree[st][h] /\ old = u.tree[st][h]
  BY <1>2
<1>6. /\ DOMAIN u.tree = AllStores /\ \A to \in AllStores \ {st} : u.tree[to] = t.tree[to]
      /\ DOMAIN u.tree[st] = DOMAIN t.tree[st]
      /\ \A k \in DOMAIN t.tree[st] \ {h} : u.tree[st][k] = t.tree[st][k]
  BY <1>1, <1>2
<1>7. X \subseteq X /\ U \subseteq U
  OBVIOUS
<1> HIDE DEF old
<1>8. Valid(u, X, U, F)
  BY <1>2, <1>3, <1>4, <1>5, <1>6, <1>7, ItemStep
<1> QED
  BY <1>8 DEF u

\* The handles of copies are new.
LEMMA NewHandles ==
    ASSUME NEW t, t.next \in Nat \ {0}, NEW H, IsFiniteSet(H)
    PROVE  /\ Cardinality(H) \in Nat
           /\ \A k \in H : NewHandle(t, H, k) \in t.next .. t.next + Cardinality(H) - 1
           /\ \A m \in t.next .. t.next + Cardinality(H) - 1 : SetToSeq(H)[m - t.next + 1] \in H
<1> DEFINE n == Cardinality(H)
           order == SetToSeq(H)
<1>1. /\ n \in Nat /\ order \in [1 .. n -> H]
      /\ \A k \in H : \E i \in 1 .. n : order[i] = k
  BY Enumerated1
<1> HIDE DEF n, order
<1>2. ASSUME NEW k \in H PROVE t.next - 1 + (CHOOSE i \in 1 .. n : order[i] = k) \in t.next .. t.next + n - 1
  <2> DEFINE i == CHOOSE j \in 1 .. n : order[j] = k
  <2>1. i \in 1 .. n
    BY <1>1
  <2> HIDE DEF i
  <2>2. t.next - 1 + i \in t.next .. t.next + n - 1
    BY <1>1, <2>1
  <2> QED
    BY <2>2 DEF i
<1>3. ASSUME NEW m \in t.next .. t.next + n - 1 PROVE order[m - t.next + 1] \in H
  <2>1. m - t.next + 1 \in 1 .. n
    BY <1>1
  <2> QED
    BY <1>1, <2>1
<1> QED
  BY <1>1, <1>2, <1>3 DEF NewHandle, n, order

LEMMA CopiesValid ==
    ASSUME NEW t, NEW X, NEW U, NEW F, Valid(t, X, U, F), NEW from \in AllStores, NEW to \in AllStores,
           NEW h \in DOMAIN t.tree[from], NEW H, H = Subtree(t, from, h), NEW parent, CanHold(t, to, parent)
    PROVE  LET u == Copies(t, from, to, H, h, parent)
           IN  Valid(u, X, U, F) /\ StorageOfHandle(u, NewHandle(t, H, h)) # NoStore
<1> DEFINE u == Copies(t, from, to, H, h, parent)
           N == t.next .. t.next + Cardinality(H) - 1
           copy(k) == [t.tree[from][k] EXCEPT !.parent = IF k = h THEN parent ELSE NewHandle(t, H, t.tree[from][k].parent),
                                              !.on = FALSE]
           new == [m \in N |-> copy(SetToSeq(H)[m - t.next + 1])]
<1>1. /\ DOMAIN t = Fields /\ t.next \in Nat \ {0} /\ ItemsGood(t) /\ RecordGood(t) /\ DOMAIN t.tree = AllStores /\ AskedGood(t)
  BY FieldsOf
<1>2. H \subseteq DOMAIN t.tree[from] /\ h \in H /\ \A k \in H : k # h => t.tree[from][k].parent \in H
  BY SubtreeFacts
<1>3. IsFiniteSet(H)
  <2>1. H \subseteq 1 .. t.next - 1
    BY <1>1, <1>2 DEF ItemsGood
  <2>2. IsFiniteSet(1 .. t.next - 1)
    BY <1>1, FS_Interval
  <2> QED
    BY <2>1, <2>2, FS_Subset
<1>4. /\ Cardinality(H) \in Nat
      /\ \A k \in H : NewHandle(t, H, k) \in N
      /\ \A m \in N : SetToSeq(H)[m - t.next + 1] \in H
  BY <1>1, <1>3, NewHandles
<1>5. /\ DOMAIN u = Fields /\ u.events = t.events /\ u.cache = t.cache /\ u.torn = t.torn
      /\ u.stale = t.stale /\ u.thumb = t.thumb /\ u.asked = t.asked /\ u.untold = t.untold
      /\ u.dirty = t.dirty /\ u.next = t.next + Cardinality(H)
      /\ u.tree = [t.tree EXCEPT ![to] = Merge(new, t.tree[to])]
  BY <1>1 DEF Copies, Fields
<1> HIDE DEF u
<1>6. parent \in DOMAIN t.tree[to] \cup {Root}
  BY FolderThere
<1>7. ASSUME NEW k \in H PROVE ItemGood(copy(k), N \cup DOMAIN t.tree[to])
  <2>1. ItemGood(t.tree[from][k], DOMAIN t.tree[from])
    BY <1>1, <1>2 DEF ItemsGood
  <2>2. copy(k).parent = IF k = h THEN parent ELSE NewHandle(t, H, t.tree[from][k].parent)
    BY <2>1 DEF ItemGood, ItemFields
  <2>3. copy(k).parent \in N \cup DOMAIN t.tree[to] \cup {Root}
    BY <1>2, <1>4, <1>6, <2>2
  <2>4. /\ DOMAIN copy(k) = ItemFields /\ copy(k).on = FALSE
        /\ copy(k).size = t.tree[from][k].size /\ copy(k).content = t.tree[from][k].content
    BY <2>1 DEF ItemGood, ItemFields
  <2> HIDE DEF N
  <2> QED
    BY <2>1, <2>3, <2>4 DEF ItemGood
<1>8. DOMAIN new = N /\ \A m \in N : ItemGood(new[m], N \cup DOMAIN t.tree[to])
  <2>1. DOMAIN new = N /\ \A m \in N : new[m] = copy(SetToSeq(H)[m - t.next + 1])
    OBVIOUS
  <2> HIDE DEF N, new, copy
  <2> QED
    BY <1>4, <1>7, <2>1
<1> HIDE DEF new
<1>9. \A m \in N : /\ \A st \in AllStores : m \notin DOMAIN t.tree[st]
                   /\ m \notin t.asked
  <2>1. \A m \in N : m \in Nat /\ t.next <= m
    BY <1>1
  <2> QED
    BY <1>1, <2>1 DEF ItemsGood, AskedGood
<1>10. u.next \in Nat /\ t.next <= u.next /\ N \subseteq 1 .. u.next - 1
  BY <1>1, <1>4, <1>5
<1> HIDE DEF N
<1>11. /\ N \cap DOMAIN t.tree[to] = {}
       /\ t.torn \subseteq u.torn /\ N \cap t.asked \subseteq u.torn
       /\ \A st \in AllStores \ {to} : N \cap DOMAIN t.tree[st] \subseteq u.torn
       /\ t.dirty \subseteq u.dirty /\ u.dirty \subseteq t.dirty \cup ({to} \X N)
  BY <1>5, <1>9
<1>12. Valid(u, X, U, F)
  BY <1>5, <1>8, <1>10, <1>11, AddStep
<1>13. Has(u, to, NewHandle(t, H, h))
  <2>1. u.tree[to] = Merge(new, t.tree[to])
    BY <1>1, <1>5
  <2>2. DOMAIN u.tree[to] = N \cup DOMAIN t.tree[to]
    BY <1>8, <2>1 DEF Merge
  <2> QED
    BY <1>2, <1>4, <2>2 DEF Has
<1>14. StorageOfHandle(u, NewHandle(t, H, h)) # NoStore
  BY <1>13, StorageFound
<1> QED
  BY <1>12, <1>14 DEF u

\* MoveObject to another storage: the copies have what the objects had, but for
\* the storage, the thumbnail and the parent of h.
LEMMA MoveAcrossValid ==
    ASSUME NEW t, NEW X, NEW U, NEW F, Valid(t, X, U, F), NEW from \in AllStores, NEW to \in AllStores, from # to,
           NEW h \in DOMAIN t.tree[from], NEW parent, CanHold(t, to, parent),
           Subtree(t, from, h) \cap DOMAIN t.tree[to] = {}
    PROVE  Valid(CacheRemoveProp(MoveAcross(t, from, to, h, parent), h, "parent"), X, U, F)
<1> DEFINE H == Subtree(t, from, h)
           v == Interested(t, from, H)
           copy(k) == [t.tree[from][k] EXCEPT !.parent = IF k = h THEN parent ELSE t.tree[from][k].parent, !.on = FALSE]
           new == [k \in H |-> copy(k)]
           written == {to} \X Files(t, from, H)
           w == Forget(RemoveItems(v, from, H), H)
           u == Forget(RemoveItems([v EXCEPT !.tree[to] = Merge(new, v.tree[to]), !.dirty = v.dirty \cup written],
                                   from, H), H)
           Y == X \cup (H \X {"store", "sample"}) \cup {<<h, "parent">>}
           K == [st \in AllStores |-> IF st = from THEN DOMAIN v.tree[from] \ H ELSE DOMAIN v.tree[st]]
<1>1. MoveAcross(t, from, to, h, parent) = OutOfDate(u, H \X {"store", "sample"})
  BY DEF MoveAcross, CopyHandle
<1>2. /\ H \subseteq DOMAIN t.tree[from] /\ h \in H /\ Closed(t, from, H)
      /\ \A k \in H : k # h => t.tree[from][k].parent \in H
  BY SubtreeFacts
<1>3. H \cap DOMAIN t.tree[to] = {}
  OBVIOUS
<1>4. H = Subtree(t, from, h)
  OBVIOUS
<1>5. /\ Valid(v, X, U, F) /\ v.next = t.next /\ v.torn = t.torn
      /\ \A st \in AllStores :
            /\ DOMAIN v.tree[st] = DOMAIN t.tree[st]
            /\ \A k \in DOMAIN t.tree[st] : /\ v.tree[st][k].parent = t.tree[st][k].parent
                                            /\ v.tree[st][k].name = t.tree[st][k].name
                                            /\ v.tree[st][k].size = t.tree[st][k].size
      /\ v.tree[to] = t.tree[to]
  BY InterestedValid
<1>6. parent \in DOMAIN t.tree[to] \cup {Root}
  BY FolderThere
<1>7. \A k \in H : /\ ItemGood(copy(k), H \cup DOMAIN t.tree[to])
                   /\ copy(k).name = t.tree[from][k].name /\ copy(k).size = t.tree[from][k].size
                   /\ k # h => copy(k).parent = t.tree[from][k].parent
  <2> SUFFICES ASSUME NEW k \in H
               PROVE  /\ ItemGood(copy(k), H \cup DOMAIN t.tree[to])
                      /\ copy(k).name = t.tree[from][k].name /\ copy(k).size = t.tree[from][k].size
                      /\ k # h => copy(k).parent = t.tree[from][k].parent
    OBVIOUS
  <2>1. ItemGood(t.tree[from][k], DOMAIN t.tree[from])
    BY <1>2, FieldsOf, RootIsNone
  <2>2. /\ copy(k).parent = IF k = h THEN parent ELSE t.tree[from][k].parent
        /\ DOMAIN copy(k) = ItemFields /\ copy(k).on = FALSE
        /\ copy(k).size = t.tree[from][k].size /\ copy(k).content = t.tree[from][k].content
        /\ copy(k).name = t.tree[from][k].name
    BY <2>1 DEF ItemGood, ItemFields
  <2>3. copy(k).parent \in H \cup DOMAIN t.tree[to] \cup {Root}
    BY <1>2, <1>6, <2>2
  <2> QED
    BY <2>1, <2>2, <2>3 DEF ItemGood
<1>8. DOMAIN new = H /\ \A k \in H : new[k] = copy(k)
  OBVIOUS
<1>9. \A x \in written : \E k \in H : x = <<to, k>>
  BY DEF Files
<1> HIDE DEF H, v, copy, new, written
<1>10. /\ DOMAIN v = Fields /\ DOMAIN v.tree = AllStores /\ RecordGood(v) /\ ItemsGood(v) /\ InOneStore(v)
       /\ CacheGood(v) /\ EntriesTrue(v, X)
  BY <1>5, FieldsOf
<1>11. H = Subtree(v, from, h) /\ h \in DOMAIN v.tree[from]
  BY <1>4, <1>5, SameContents
<1> DEFINE w0 == RemoveItems(v, from, H)
<1>12. Valid(w0, X \cup (H \X Props), U \cup H, F)
  BY <1>5, <1>11, RemoveItemsValid
<1>13. /\ w0.tree = [v.tree EXCEPT ![from] = Without(v.tree[from], H)] /\ w0.cache = v.cache
       /\ w0.stale = v.stale /\ w0.events = v.events /\ w0.thumb = v.thumb
       /\ w0.dirty = v.dirty \ ({from} \X H) /\ w0.asked = v.asked /\ w0.untold = v.untold
       /\ w0.torn = v.torn /\ w0.next = v.next
  BY <1>10 DEF RemoveItems, Fields
<1>14. w = Forget(w0, H)
  OBVIOUS
<1> HIDE DEF w0, w
<1>15. Valid(w, X \cup (H \X Props), U, F)
  <2>1. Valid(Forget(w0, H), X \cup (H \X Props), U, F)
    BY <1>12, ForgetValid
  <2> QED
    BY <1>14, <2>1
<1>16. /\ w.cache = v.cache /\ w.stale = v.stale /\ w.events = v.events /\ w.thumb = v.thumb
       /\ w.dirty = v.dirty \ ({from} \X H) /\ w.untold = v.untold \ H /\ w.asked = v.asked \ H
       /\ w.torn = v.torn /\ w.next = v.next /\ w.tree = w0.tree
  <2>1. DOMAIN w0 = Fields
    BY <1>12, FieldsOf
  <2> QED
    BY <1>13, <1>14, <2>1 DEF Forget, Fields
<1>17. /\ DOMAIN u = Fields /\ u.events = v.events /\ u.cache = v.cache /\ u.stale = v.stale /\ u.thumb = v.thumb
       /\ u.torn = v.torn /\ u.next = v.next /\ u.asked = v.asked \ H /\ u.untold = v.untold \ H
       /\ u.dirty = (v.dirty \cup written) \ ({from} \X H)
       /\ u.tree = [[v.tree EXCEPT ![to] = Merge(new, v.tree[to])] EXCEPT ![from] = Without(v.tree[from], H)]
  BY <1>10 DEF RemoveItems, Forget, Fields
<1> HIDE DEF u
<1>18. /\ DOMAIN w.tree = AllStores /\ w.tree[to] = v.tree[to] /\ DOMAIN w.tree[from] = DOMAIN v.tree[from] \ H
       /\ \A st \in AllStores \ {from} : w.tree[st] = v.tree[st]
  BY <1>10, <1>13, <1>16 DEF Without
<1>19. u.tree = [w.tree EXCEPT ![to] = Merge(new, w.tree[to])]
  BY <1>10, <1>13, <1>16, <1>17
<1>20. /\ H \cap DOMAIN w.tree[to] = {}
       /\ \A k \in H : ItemGood(new[k], H \cup DOMAIN w.tree[to])
       /\ w.torn \subseteq u.torn /\ H \cap w.asked \subseteq u.torn
       /\ w.dirty \subseteq u.dirty /\ u.dirty \subseteq w.dirty \cup ({to} \X H)
  <2>1. w.tree[to] = t.tree[to] /\ w.torn = v.torn /\ w.asked = v.asked \ H
    BY <1>5, <1>16, <1>18
  <2>2. w.dirty \subseteq u.dirty /\ u.dirty \subseteq w.dirty \cup ({to} \X H)
    <3>1. \A x \in written : x \notin {from} \X H
      BY <1>9
    <3> QED
      BY <1>9, <1>16, <1>17, <3>1
  <2> QED
    BY <1>3, <1>7, <1>8, <1>17, <2>1, <2>2
<1>21. \A st \in AllStores \ {to} : H \cap DOMAIN w.tree[st] \subseteq u.torn
  <2> SUFFICES ASSUME NEW st \in AllStores \ {to}, NEW k \in H, k \in DOMAIN w.tree[st] PROVE k \in u.torn
    OBVIOUS
  <2>1. st # from /\ k \in DOMAIN v.tree[st] /\ k \in DOMAIN v.tree[from]
    BY <1>2, <1>5, <1>18
  <2> QED
    BY <1>10, <1>17, <2>1 DEF InOneStore
<1>22. u.next \in Nat /\ w.next <= u.next /\ H \subseteq 1 .. u.next - 1
  <2>1. v.next \in Nat \ {0}
    BY <1>10 DEF RecordGood
  <2>2. H \subseteq 1 .. v.next - 1
    BY <1>2, <1>5, <1>10 DEF ItemsGood
  <2> QED
    BY <1>16, <1>17, <2>1, <2>2
<1>23. /\ u.events = w.events /\ u.cache = w.cache /\ u.stale = w.stale /\ u.thumb = w.thumb
       /\ u.asked = w.asked /\ u.untold = w.untold
  BY <1>16, <1>17
<1>24. Valid(u, X \cup (H \X Props), U, F)
  BY <1>8, <1>15, <1>17, <1>19, <1>20, <1>21, <1>22, <1>23, AddStep
<1>25. /\ DOMAIN u.tree = AllStores
       /\ DOMAIN u.tree[to] = H \cup DOMAIN v.tree[to]
       /\ \A k \in H : u.tree[to][k] = new[k]
       /\ \A k \in DOMAIN v.tree[to] : u.tree[to][k] = v.tree[to][k]
       /\ DOMAIN u.tree[from] = DOMAIN v.tree[from] \ H
       /\ \A k \in DOMAIN v.tree[from] \ H : u.tree[from][k] = v.tree[from][k]
       /\ \A st \in AllStores \ {from, to} : u.tree[st] = v.tree[st]
  <2>1. u.tree[to] = Merge(new, v.tree[to]) /\ u.tree[from] = Without(v.tree[from], H) /\ DOMAIN u.tree = AllStores
        /\ \A st \in AllStores \ {from, to} : u.tree[st] = v.tree[st]
    BY <1>10, <1>17
  <2>2. /\ DOMAIN u.tree[to] = H \cup DOMAIN v.tree[to]
        /\ \A k \in H : u.tree[to][k] = new[k]
    BY <1>8, <2>1 DEF Merge
  <2>3. \A k \in DOMAIN v.tree[to] : u.tree[to][k] = v.tree[to][k]
    BY <1>3, <1>5, <1>8, <2>1 DEF Merge
  <2>4. /\ DOMAIN u.tree[from] = DOMAIN v.tree[from] \ H
        /\ \A k \in DOMAIN v.tree[from] \ H : u.tree[from][k] = v.tree[from][k]
    BY <2>1 DEF Without
  <2> QED
    BY <2>1, <2>2, <2>3, <2>4
<1>26. X \subseteq Y /\ <<h, "parent">> \in Y /\ \A k \in H : <<k, "store">> \in Y /\ <<k, "sample">> \in Y
  OBVIOUS
<1>27. \A st \in AllStores : K[st] = IF st = from THEN DOMAIN v.tree[from] \ H ELSE DOMAIN v.tree[st]
  OBVIOUS
<1>28. \A k, p : <<k, p>> \in Y => <<k, p>> \in X \cup {<<h, "parent">>} \/ <<k, p>> \in H \X {"store", "sample"}
  OBVIOUS
<1> HIDE DEF K, Y
<1>29. ASSUME NEW st \in AllStores
       PROVE  /\ K[st] \subseteq DOMAIN v.tree[st] /\ K[st] \subseteq DOMAIN u.tree[st]
              /\ \A k \in K[st] :
                    /\ u.tree[st][k].parent = v.tree[st][k].parent
                    /\ v.tree[st][k].parent \in K[st] \cup {Root}
                    /\ u.tree[st][k].name = v.tree[st][k].name
                    /\ u.tree[st][k].size = v.tree[st][k].size \/ <<k, "content">> \in Y
              /\ \A k \in DOMAIN v.tree[st] \ (K[st] \cup u.torn) : \A p \in Props :
                    <<k, p>> \in Y \/ \E x \in AllStores : Same(v, st, u, x, k, p)
  <2>1. \A k \in DOMAIN v.tree[st] : v.tree[st][k].parent \in DOMAIN v.tree[st] \cup {Root}
    BY <1>10 DEF ItemsGood, ItemGood
  <2>2. \A k \in K[st] : u.tree[st][k] = v.tree[st][k] /\ k \in DOMAIN u.tree[st]
    BY <1>25, <1>27
  <2>3. \A k \in K[st] : v.tree[st][k].parent \in K[st] \cup {Root}
    <3>1. CASE st = from
      <4> SUFFICES ASSUME NEW k \in K[st], v.tree[st][k].parent \in H PROVE FALSE
        BY <1>27, <2>1, <3>1
      <4>1. k \in DOMAIN t.tree[from] /\ t.tree[from][k].parent \in H /\ k \notin H
        BY <1>5, <1>27, <3>1
      <4> QED
        BY <1>2, <4>1 DEF Closed
    <3>2. CASE st # from
      BY <1>27, <2>1, <3>2
    <3> QED
      BY <3>1, <3>2
  <2>4. ASSUME NEW k \in DOMAIN v.tree[st] \ (K[st] \cup u.torn), NEW p \in Props, <<k, p>> \notin Y
        PROVE  \E x \in AllStores : Same(v, st, u, x, k, p)
    <3>1. st = from /\ k \in H
      BY <1>27, <2>4
    <3>2. p # "sample" /\ p # "store" /\ (p = "parent" => k # h)
      BY <1>26, <2>4, <3>1
    <3>3. Has(u, to, k) /\ u.tree[to][k] = copy(k)
      BY <1>8, <1>25, <3>1 DEF Has
    <3>4. /\ p = "parent" => u.tree[to][k].parent = v.tree[st][k].parent
          /\ u.tree[to][k].name = v.tree[st][k].name
          /\ u.tree[to][k].size = v.tree[st][k].size
      BY <1>2, <1>5, <1>7, <3>1, <3>2, <3>3
    <3>5. p \in Props \ {"sample"}
      BY <3>2
    <3>6. Same(v, st, u, to, k, p)
      BY <3>2, <3>3, <3>4, <3>5, SameValues
    <3> QED
      BY <3>6
  <2> QED
    BY <1>27, <2>2, <2>3, <2>4
<1>30. RecordGood(u) /\ ItemsGood(u) /\ v.torn \subseteq u.torn
  BY <1>17, <1>24, FieldsOf
<1>31. EntriesTrue(u, Y)
  BY <1>10, <1>17, <1>26, <1>29, <1>30, EntriesKept
<1>32. Valid(u, Y, U, F)
  BY <1>24, <1>31 DEF Valid
<1> DEFINE z == OutOfDate(u, H \X {"store", "sample"})
<1>33. Valid(z, X \cup {<<h, "parent">>}, U, F)
  BY <1>28, <1>32, OutOfDateValid
<1>34. \A k, q : <<k, q>> \in X \cup {<<h, "parent">>} => <<k, q>> \in X \/ (k = h /\ q = "parent")
  OBVIOUS
<1>35. "parent" \in Props
  BY DEF Props, InfoProps
<1> HIDE DEF z
<1>36. Valid(CacheRemoveProp(z, h, "parent"), X, U, F)
  BY <1>33, <1>34, <1>35, CacheRemovePropValid
<1> QED
  BY <1>1, <1>36 DEF z, u

\* A copy that fails: the objects copied so far are in two storages then.
LEMMA MoveTornValid ==
    ASSUME NEW t, NEW X, NEW U, NEW F, Valid(t, X, U, F), NEW from \in AllStores, NEW to \in AllStores, from # to,
           NEW h \in DOMAIN t.tree[from], NEW parent, CanHold(t, to, parent),
           NEW C \in SUBSET (Subtree(t, from, h) \ DOMAIN t.tree[to]),
           \A k \in C : k = h \/ t.tree[from][k].parent \in C
    PROVE  Valid(MoveTorn(t, from, to, C, h, parent), X, U, F)
<1> DEFINE v == Interested(t, from, C)
           copy(k) == [t.tree[from][k] EXCEPT !.parent = IF k = h THEN parent ELSE t.tree[from][k].parent, !.on = FALSE]
           new == [k \in C |-> copy(k)]
           written == {to} \X Files(t, from, C)
           w == Forget(v, C)
           u == Forget([[v EXCEPT !.tree[to] = Merge(new, v.tree[to]), !.dirty = v.dirty \cup written]
                           EXCEPT !.torn = v.torn \cup C], C)
<1>0. DOMAIN v = Fields
  BY InterestedValid, FieldsOf
<1>1. MoveTorn(t, from, to, C, h, parent) = OutOfDate(u, C \X Props)
  <2>1. [v EXCEPT !.tree[to] = Merge(new, v.tree[to]), !.dirty = v.dirty \cup written].torn = v.torn
    BY <1>0 DEF Fields
  <2>2. CopyHandle(t, from, to, C, h, parent) = [v EXCEPT !.tree[to] = Merge(new, v.tree[to]), !.dirty = v.dirty \cup written]
    BY DEF CopyHandle
  <2> QED
    BY <2>1, <2>2 DEF MoveTorn
<1>2. C \subseteq DOMAIN t.tree[from] /\ C \cap DOMAIN t.tree[to] = {}
  BY SubtreeFacts
<1>3. parent \in DOMAIN t.tree[to] \cup {Root}
  BY FolderThere
<1>4. /\ Valid(v, X, U, F) /\ v.next = t.next /\ v.torn = t.torn
      /\ \A st \in AllStores : DOMAIN v.tree[st] = DOMAIN t.tree[st]
      /\ v.tree[to] = t.tree[to]
  BY InterestedValid
<1>5. \A k \in C : ItemGood(copy(k), C \cup DOMAIN t.tree[to])
  <2> SUFFICES ASSUME NEW k \in C PROVE ItemGood(copy(k), C \cup DOMAIN t.tree[to])
    OBVIOUS
  <2>1. ItemGood(t.tree[from][k], DOMAIN t.tree[from])
    BY <1>2, FieldsOf, RootIsNone
  <2>2. /\ copy(k).parent = IF k = h THEN parent ELSE t.tree[from][k].parent
        /\ DOMAIN copy(k) = ItemFields /\ copy(k).on = FALSE
        /\ copy(k).size = t.tree[from][k].size /\ copy(k).content = t.tree[from][k].content
    BY <2>1 DEF ItemGood, ItemFields
  <2>3. copy(k).parent \in C \cup DOMAIN t.tree[to] \cup {Root}
    BY <1>3, <2>2
  <2> QED
    BY <2>1, <2>2, <2>3 DEF ItemGood
<1>6. DOMAIN new = C /\ \A k \in C : new[k] = copy(k)
  OBVIOUS
<1>7. \A x \in written : \E k \in C : x = <<to, k>>
  BY DEF Files
<1> HIDE DEF v, copy, new, written
<1>8. /\ DOMAIN v = Fields /\ DOMAIN v.tree = AllStores /\ v.next \in Nat \ {0} /\ ItemsGood(v) /\ InOneStore(v)
  BY <1>4, FieldsOf
<1>8a. w = Forget(v, C)
  OBVIOUS
<1> HIDE DEF w
<1>9. Valid(w, X, U, F)
  <2>1. Valid(Forget(v, C), X, U, F)
    BY <1>4, ForgetValid
  <2> QED
    BY <1>8a, <2>1
<1>10. /\ w.cache = v.cache /\ w.stale = v.stale /\ w.events = v.events /\ w.dirty = v.dirty
       /\ w.untold = v.untold \ C /\ w.asked = v.asked \ C
       /\ w.tree = v.tree /\ w.thumb = v.thumb /\ w.next = v.next /\ w.torn = v.torn
  BY <1>8, <1>8a DEF Forget, Fields
<1>11. /\ DOMAIN u = Fields /\ u.events = v.events /\ u.cache = v.cache /\ u.stale = v.stale /\ u.thumb = v.thumb
       /\ u.torn = v.torn \cup C /\ u.next = v.next /\ u.asked = v.asked \ C /\ u.untold = v.untold \ C
       /\ u.dirty = v.dirty \cup written
       /\ u.tree = [v.tree EXCEPT ![to] = Merge(new, v.tree[to])]
  BY <1>8 DEF Forget, Fields
<1> HIDE DEF u
<1>12. /\ C \cap DOMAIN w.tree[to] = {}
       /\ \A k \in C : ItemGood(new[k], C \cup DOMAIN w.tree[to])
       /\ w.torn \subseteq u.torn /\ C \cap w.asked \subseteq u.torn
       /\ \A st \in AllStores \ {to} : C \cap DOMAIN w.tree[st] \subseteq u.torn
       /\ w.dirty \subseteq u.dirty /\ u.dirty \subseteq w.dirty \cup ({to} \X C)
  <2>1. w.tree[to] = t.tree[to] /\ w.torn = v.torn /\ w.asked = v.asked \ C
    BY <1>4, <1>10
  <2>2. w.dirty \subseteq u.dirty /\ u.dirty \subseteq w.dirty \cup ({to} \X C)
    BY <1>7, <1>10, <1>11
  <2> QED
    BY <1>2, <1>5, <1>6, <1>11, <2>1, <2>2
<1>13. u.next \in Nat /\ w.next <= u.next /\ C \subseteq 1 .. u.next - 1
  BY <1>2, <1>4, <1>8, <1>10, <1>11 DEF ItemsGood
<1>14. /\ u.events = w.events /\ u.cache = w.cache /\ u.stale = w.stale /\ u.thumb = w.thumb
       /\ u.asked = w.asked /\ u.untold = w.untold /\ u.tree = [w.tree EXCEPT ![to] = Merge(new, w.tree[to])]
  BY <1>10, <1>11
<1>15. Valid(u, X, U, F)
  BY <1>6, <1>9, <1>11, <1>12, <1>13, <1>14, AddStep
<1>16. \A k, p : <<k, p>> \in X => <<k, p>> \in X \/ <<k, p>> \in C \X Props
  OBVIOUS
<1>17. Valid(OutOfDate(u, C \X Props), X, U, F)
  BY <1>15, <1>16, OutOfDateValid
<1> QED
  BY <1>1, <1>17

\* MoveObject within a storage
LEMMA MoveItemValid ==
    ASSUME NEW t, NEW X, NEW U, NEW F, Valid(t, X, U, F), NEW st \in AllStores, NEW h \in DOMAIN t.tree[st],
           NEW parent, CanHold(t, st, parent)
    PROVE  Valid(CacheRemoveProp(MoveItem(t, st, h, parent), h, "parent"), X, U, F)
<1> DEFINE v == [t EXCEPT !.tree[st][h].parent = parent]
           S == Subtree(t, st, h)
           Y == X \cup {<<h, "parent">>} \cup (S \X {"sample"})
           Z == X \cup {<<h, "parent">>}
<1>1. parent \in DOMAIN t.tree[st] \cup {Root}
  BY FolderThere
<1>2. Valid(v, Y, U, F) /\ Subtree(v, st, h) = S
  BY <1>1, ReparentedValid
<1>3. MoveItem(t, st, h, parent) = Moved(v, st, h)
  BY DEF MoveItem
<1> HIDE DEF v
<1>4. \A k, p : <<k, p>> \in Y => <<k, p>> \in Z \/ (p = "sample" /\ k \in Subtree(v, st, h))
  BY <1>2
<1>5. \A k, q : <<k, q>> \in Z => <<k, q>> \in X \/ (k = h /\ q = "parent")
  OBVIOUS
<1>6. "parent" \in Props
  BY DEF Props, InfoProps
<1> HIDE DEF Y, Z
<1>7. Valid(Moved(v, st, h), Z, U, F)
  BY <1>2, <1>4, MovedValid
<1> QED
  BY <1>3, <1>5, <1>6, <1>7, CacheRemovePropValid

-----------------------------------------------------------------------------
(* Changes by the user, and the plugin as it is notified of them.          *)

LEMMA FSMoveValid ==
    ASSUME NEW t, NEW X, NEW Y, NEW U, NEW F, Valid(t, X, U, F), NEW st \in AllStores, NEW h \in DOMAIN t.tree[st],
           \A k, p : <<k, p>> \in X => <<k, p>> \in Y \/ k = h \/ (p = "sample" /\ k \in Subtree(t, st, h))
    PROVE  Valid(Changed(FSMove(t, st, h), {h}), Y, U, F)
<1> DEFINE Z == Y \cup {x \in X : \E p : x = <<h, p>>} \cup {<<h, "content">>}
           W == U \cup {h}
           m == Moved(t, st, h)
           v == PopulateObjectInfo(m, st, h)
           u == Emit(v, "info", h)
<1>1. \A k, p : <<k, p>> \in X => <<k, p>> \in Z \/ (p = "sample" /\ k \in Subtree(t, st, h))
  OBVIOUS
<1>2. <<h, "content">> \in Z /\ h \in W /\ U \subseteq W /\ Z \subseteq Z
  OBVIOUS
<1>3. \A k, p : <<k, p>> \in Z => <<k, p>> \in Y \/ ("info" \in {"info", "removed"} /\ k = h)
  OBVIOUS
<1>4. \A k \in W : k \in U \/ ("info" \in {"info", "removed"} /\ k = h)
  OBVIOUS
<1>5. h \in Int
  BY FieldsOf, RootIsNone
<1> HIDE DEF Z, W
<1>6. Valid(m, Z, U, F) /\ m.tree = t.tree
  BY <1>1, MovedValid
<1> HIDE DEF m
<1>7. h \in DOMAIN m.tree[st]
  BY <1>6
<1>8. Valid(v, Z, W, F)
  BY <1>2, <1>6, <1>7, PopulateValid
<1> HIDE DEF v
<1>9. "info" \in EventKinds /\ "info" \in {"info", "removed"}
  BY DEF EventKinds
<1>10. Valid(u, Y, U, F) /\ Drops(u, h, "name")
  BY <1>3, <1>4, <1>5, <1>8, <1>9, EmitValid
<1> HIDE DEF u
<1>11. ChangeWaits(u, h)
  BY <1>10 DEF ChangeWaits
<1>12. \A k \in {h} \cap u.asked : k \in U \/ k \in u.torn \/ ChangeWaits(u, k)
  BY <1>11
<1>13. U \subseteq U
  OBVIOUS
<1>14. Valid(Changed(u, {h}), Y, U, F)
  BY <1>10, <1>12, <1>13, ChangedValid
<1> QED
  BY <1>14 DEF FSMove, m, v, u

LEMMA UserRenamesValid ==
    ASSUME NEW t, NEW X, NEW U, NEW F, Valid(t, X, U, F), NEW st \in AllStores, NEW h \in DOMAIN t.tree[st], NEW name
    PROVE  Valid(Changed(FSMove([t EXCEPT !.tree[st][h].name = name], st, h), {h}), X, U, F)
<1> DEFINE v == Renamed(t, st, h, name)
           S == Subtree(t, st, h)
           Y == X \cup {<<h, "name">>} \cup (S \X {"sample"})
<1>1. Valid(v, Y, U, F) /\ Subtree(v, st, h) = S /\ h \in DOMAIN v.tree[st]
  BY NewNameValid
<1> HIDE DEF v, Y
<1>2. \A k, p : <<k, p>> \in Y => <<k, p>> \in X \/ k = h \/ (p = "sample" /\ k \in Subtree(v, st, h))
  BY <1>1 DEF Y
<1>3. Valid(Changed(FSMove(v, st, h), {h}), X, U, F)
  BY <1>1, <1>2, FSMoveValid
<1> QED
  BY <1>3 DEF v, Renamed

LEMMA UserMovesValid ==
    ASSUME NEW t, NEW X, NEW U, NEW F, Valid(t, X, U, F), NEW st \in AllStores, NEW h \in DOMAIN t.tree[st],
           NEW parent, CanHold(t, st, parent), NEW heirs
    PROVE  Valid(Changed(FSMove(Interested([t EXCEPT !.tree[st][h].parent = parent], st, heirs), st, h), {h}), X, U, F)
<1> DEFINE v == [t EXCEPT !.tree[st][h].parent = parent]
           S == Subtree(t, st, h)
           Y == X \cup {<<h, "parent">>} \cup (S \X {"sample"})
           u == Interested(v, st, heirs)
<1>1. parent \in DOMAIN t.tree[st] \cup {Root}
  BY FolderThere
<1>2. /\ Valid(v, Y, U, F) /\ Subtree(v, st, h) = S
      /\ \A to \in AllStores : DOMAIN v.tree[to] = DOMAIN t.tree[to]
  BY <1>1, ReparentedValid
<1> HIDE DEF v, S, Y
<1>3. /\ Valid(u, Y, U, F)
      /\ DOMAIN u.tree[st] = DOMAIN v.tree[st]
      /\ \A k \in DOMAIN v.tree[st] : u.tree[st][k].parent = v.tree[st][k].parent
  BY <1>2, InterestedValid
<1> HIDE DEF u
<1>4. Subtree(u, st, h) = Subtree(v, st, h)
  BY <1>3, SameContents
<1>5. h \in DOMAIN u.tree[st]
  BY <1>2, <1>3
<1>6. \A k, p : <<k, p>> \in Y => <<k, p>> \in X \/ k = h \/ (p = "sample" /\ k \in Subtree(u, st, h))
  BY <1>2, <1>4 DEF Y
<1>7. Valid(Changed(FSMove(u, st, h), {h}), X, U, F)
  BY <1>3, <1>5, <1>6, FSMoveValid
<1> QED
  BY <1>7 DEF u, v

\* The file has content the object info was not made from: IN_CLOSE_WRITE will tell.
LEMMA UserWritesValid ==
    ASSUME NEW t, NEW X, NEW U, NEW F, Valid(t, X, U, F), NEW st \in AllStores, NEW h \in DOMAIN t.tree[st]
    PROVE  Valid(Changed([t EXCEPT !.tree[st][h].content = @ + 1, !.dirty = @ \cup {<<st, h>>}], {h}), X, U, F)
<1> DEFINE u == [t EXCEPT !.tree[st][h].content = @ + 1, !.dirty = @ \cup {<<st, h>>}]
           old == t.tree[st][h]
           new == [old EXCEPT !.content = old.content + 1]
<1>1. DOMAIN t = Fields /\ DOMAIN t.tree = AllStores /\ ItemGood(old, DOMAIN t.tree[st])
  BY FieldsOf, RootIsNone
<1>2. /\ DOMAIN u = Fields /\ u.events = t.events /\ u.cache = t.cache /\ u.next = t.next /\ u.torn = t.torn
      /\ u.stale = t.stale /\ u.thumb = t.thumb /\ u.asked = t.asked /\ u.untold = t.untold
      /\ u.dirty = t.dirty \cup {<<st, h>>}
      /\ DOMAIN u.tree = AllStores /\ \A to \in AllStores \ {st} : u.tree[to] = t.tree[to]
      /\ DOMAIN u.tree[st] = DOMAIN t.tree[st]
      /\ \A k \in DOMAIN t.tree[st] \ {h} : u.tree[st][k] = t.tree[st][k]
      /\ u.tree[st][h] = new
  BY <1>1 DEF Fields
<1> HIDE DEF u
<1>3. /\ new.on = old.on /\ new.name = old.name /\ new.parent = old.parent /\ new.size = old.size
      /\ new.content = old.content + 1 /\ DOMAIN new = ItemFields
  BY <1>1 DEF ItemGood, ItemFields
<1>4. old = t.tree[st][h]
  OBVIOUS
<1> HIDE DEF new, old
<1>5. ItemGood(new, DOMAIN t.tree[st]) /\ new.size # new.content /\ new = u.tree[st][h]
  BY <1>1, <1>2, <1>3 DEF ItemGood
<1>6. /\ new.name # old.name \/ new.parent # old.parent => \A k \in Subtree(t, st, h) : <<k, "sample">> \in X
      /\ new.name # old.name => <<h, "name">> \in X
      /\ new.parent # old.parent => <<h, "parent">> \in X
      /\ new.size # old.size => <<h, "content">> \in X
      /\ u.dirty \subseteq t.dirty \cup {<<st, h>>} /\ t.dirty \subseteq u.dirty \cup {<<st, h>>}
      /\ h \in U \/ (<<st, h>> \in t.dirty /\ old.size # old.content => <<st, h>> \in u.dirty /\ new.size # new.content)
  BY <1>2, <1>3, <1>5
<1>7. (old.on => new.on) /\ X \subseteq X /\ U \subseteq U
  BY <1>3
<1>8. Valid(u, X, U, F)
  BY <1>2, <1>4, <1>5, <1>6, <1>7, ItemStep
<1>9. ChangeWaits(u, h)
  BY <1>2, <1>5 DEF ChangeWaits
<1>10. \A k \in {h} \cap u.asked : k \in U \/ k \in u.torn \/ ChangeWaits(u, k)
  BY <1>9
<1>11. Valid(Changed(u, {h}), X, U, F)
  BY <1>7, <1>8, <1>10, ChangedValid
<1> QED
  BY <1>11 DEF u

\* IN_CLOSE_WRITE of a file is handled.
LEMMA CleanValid ==
    ASSUME NEW t, NEW X, NEW U, NEW W, NEW F, Valid(t, X, U, F), NEW st \in AllStores, NEW h \in DOMAIN t.tree[st],
           U \subseteq W, t.tree[st][h].size # t.tree[st][h].content => h \in W
    PROVE  LET u == [t EXCEPT !.dirty = @ \ {<<st, h>>}]
           IN  Valid(u, X, W, F) /\ u.tree = t.tree
<1> DEFINE u == [t EXCEPT !.dirty = @ \ {<<st, h>>}]
           old == t.tree[st][h]
<1>1. DOMAIN t = Fields /\ DOMAIN t.tree = AllStores /\ ItemGood(old, DOMAIN t.tree[st])
  BY FieldsOf, RootIsNone
<1>2. /\ DOMAIN u = Fields /\ u.events = t.events /\ u.cache = t.cache /\ u.next = t.next /\ u.torn = t.torn
      /\ u.stale = t.stale /\ u.thumb = t.thumb /\ u.asked = t.asked /\ u.untold = t.untold
      /\ u.dirty = t.dirty \ {<<st, h>>} /\ u.tree = t.tree
  BY <1>1 DEF Fields
<1> HIDE DEF u
<1>3. /\ DOMAIN u.tree = AllStores /\ \A to \in AllStores \ {st} : u.tree[to] = t.tree[to]
      /\ DOMAIN u.tree[st] = DOMAIN t.tree[st]
      /\ \A k \in DOMAIN t.tree[st] \ {h} : u.tree[st][k] = t.tree[st][k]
  BY <1>1, <1>2
<1>4. old = t.tree[st][h] /\ old = u.tree[st][h] /\ X \subseteq X
  BY <1>2
<1>5. /\ u.dirty \subseteq t.dirty \cup {<<st, h>>} /\ t.dirty \subseteq u.dirty \cup {<<st, h>>}
      /\ h \in W \/ (<<st, h>> \in t.dirty /\ old.size # old.content => <<st, h>> \in u.dirty /\ old.size # old.content)
  BY <1>2
<1> HIDE DEF old
<1>6. Valid(u, X, W, F)
  BY <1>1, <1>2, <1>3, <1>4, <1>5, ItemStep
<1> QED
  BY <1>2, <1>6 DEF u

LEMMA FSModifyValid ==
    ASSUME NEW t, NEW X, NEW U, NEW F, Valid(t, X, U, F), NEW st \in AllStores, NEW h, <<st, h>> \in t.dirty
    PROVE  LET u == PopulateObjectInfo([t EXCEPT !.dirty = @ \ {<<st, h>>}], st, h)
           IN  Valid(IF t.tree[st][h].size # t.tree[st][h].content THEN Emit(u, "info", h) ELSE u, X, U, F)
<1> DEFINE v == [t EXCEPT !.dirty = @ \ {<<st, h>>}]
           u == PopulateObjectInfo(v, st, h)
           differ == t.tree[st][h].size # t.tree[st][h].content
<1>1. h \in DOMAIN t.tree[st]
  BY FieldsOf DEF DirtyGood
<1>2. h \in Int
  BY <1>1, FieldsOf, RootIsNone
<1>3. CASE differ
  <2> DEFINE Y == X \cup {<<h, "content">>}
             W == U \cup {h}
  <2>1. X \subseteq X /\ X \subseteq Y /\ U \subseteq W /\ W \subseteq W /\ h \in W /\ <<h, "content">> \in Y
    OBVIOUS
  <2>2. \A k, p : <<k, p>> \in Y => <<k, p>> \in X \/ ("info" \in {"info", "removed"} /\ k = h)
    OBVIOUS
  <2>3. \A k \in W : k \in U \/ ("info" \in {"info", "removed"} /\ k = h)
    OBVIOUS
  <2> HIDE DEF Y, W
  <2>4. Valid(v, X, W, F) /\ v.tree = t.tree
    BY <1>1, <2>1, CleanValid
  <2> HIDE DEF v
  <2>5. h \in DOMAIN v.tree[st]
    BY <1>1, <2>4
  <2>6. Valid(u, Y, W, F)
    BY <2>1, <2>4, <2>5, PopulateValid
  <2> HIDE DEF u
  <2>7. "info" \in EventKinds
    BY DEF EventKinds
  <2>8. Valid(Emit(u, "info", h), X, U, F)
    BY <1>2, <2>2, <2>3, <2>6, <2>7, EmitValid
  <2> QED
    BY <1>3, <2>8 DEF u, v
<1>4. CASE ~differ
  <2>1. U \subseteq U /\ X \subseteq X
    OBVIOUS
  <2>2. Valid(v, X, U, F) /\ v.tree = t.tree
    <3>1. t.tree[st][h].size # t.tree[st][h].content => h \in U
      BY <1>4
    <3> HIDE DEF differ
    <3> QED
      BY <1>1, <2>1, <3>1, CleanValid
  <2> HIDE DEF v
  <2>3. h \in DOMAIN v.tree[st] /\ v.tree[st][h].size = v.tree[st][h].content
    BY <1>1, <1>4, <2>2
  <2>4. Valid(u, X, U, F)
    BY <2>1, <2>2, <2>3, PopulateValid
  <2> HIDE DEF u
  <2> QED
    BY <1>4, <2>4 DEF u, v
<1> QED
  BY <1>3, <1>4

\* The handles of what goes are told, each after those in it.
LEMMA UserDeletesValid ==
    ASSUME NEW t, NEW X, NEW U, NEW F, Valid(t, X, U, F), NEW st \in AllStores, NEW h \in DOMAIN t.tree[st],
           NEW H, H = Subtree(t, st, h), NEW order \in BottomUp(t, st, H)
    PROVE  Valid(Changed(EmitAll(RemoveItems(t, st, H), "removed", order), H), X, U, F)
<1> DEFINE v == RemoveItems(t, st, H)
           u == EmitAll(v, "removed", order)
           n == Cardinality(H)
<1>1. Valid(v, X \cup (H \X Props), U \cup H, F) /\ H \subseteq 1 .. t.next - 1
  BY RemoveItemsValid
<1> HIDE DEF v
<1>2. n \in Nat
  <2>1. IsFiniteSet(1 .. t.next - 1)
    BY FieldsOf, FS_Interval
  <2> QED
    BY <1>1, <2>1, FS_Subset, FS_CardinalityType
<1>3. order \in [1 .. n -> H] /\ \A k \in H : \E i \in DOMAIN order : order[i] = k
  BY DEF BottomUp
<1> HIDE DEF n
<1>4. order \in Seq(Int)
  <2>1. \A k \in H : k \in Int
    BY <1>1
  <2>2. order \in [1 .. n -> Int]
    BY <1>3, <2>1
  <2> QED
    BY <1>2, <2>2
<1>5. "removed" \in EventKinds /\ "removed" \in {"info", "removed"}
  BY DEF EventKinds
<1>6. \A k, p : <<k, p>> \in X \cup (H \X Props) =>
         <<k, p>> \in X \/ ("removed" \in {"info", "removed"} /\ \E i \in DOMAIN order : order[i] = k)
  BY <1>3
<1>7. \A k \in U \cup H : k \in U \/ ("removed" \in {"info", "removed"} /\ \E i \in DOMAIN order : order[i] = k)
  BY <1>3
<1>8. Valid(u, X, U, F)
  BY <1>1, <1>4, <1>5, <1>6, <1>7, EmitAllValid
<1>9. \A k \in H : Drops(u, k, "name")
  <2>1. DOMAIN v = Fields /\ EventsGood(v)
    BY <1>1, FieldsOf
  <2>2. \A i \in DOMAIN order : Drops(u, order[i], "name")
    BY <1>4, <1>5, <2>1, EmitAllFacts
  <2> QED
    BY <1>3, <2>2
<1> HIDE DEF u
<1>10. \A k \in H \cap u.asked : k \in U \/ k \in u.torn \/ ChangeWaits(u, k)
  BY <1>9 DEF ChangeWaits
<1>11. U \subseteq U
  OBVIOUS
<1>12. Valid(Changed(u, H), X, U, F)
  BY <1>8, <1>10, <1>11, ChangedValid
<1> QED
  BY <1>12 DEF u, v

LEMMA UserCreatesValid ==
    ASSUME NEW t, NEW X, NEW U, NEW F, Valid(t, X, U, F), NEW st \in AllStores, NEW parent, NEW name,
           CanHold(t, st, parent)
    PROVE  Valid(Emit(PopulateObjectInfo(AddItem(t, st, parent, name), st, t.next), "added", t.next), X, U, F)
<1> DEFINE v == AddItem(t, st, parent, name)
           u == PopulateObjectInfo(v, st, t.next)
<1>1. /\ Valid(v, X, U, F) /\ t.next \in DOMAIN v.tree[st] /\ t.next \in Int
      /\ v.tree[st][t.next].size = v.tree[st][t.next].content
  BY AddItemValid
<1> HIDE DEF v
<1>2. X \subseteq X /\ U \subseteq U
  OBVIOUS
<1>3. Valid(u, X, U, F)
  BY <1>1, <1>2, PopulateValid
<1> HIDE DEF u
<1>4. "added" \in EventKinds
  BY DEF EventKinds
<1>5. Valid(Emit(u, "added", t.next), X, U, F)
  BY <1>1, <1>3, <1>4, EmitValid
<1> QED
  BY <1>5 DEF u, v

-----------------------------------------------------------------------------
(* Operations of the initiator.                                            *)

LEMMA SetObjectPropValid ==
    ASSUME NEW t, NEW X, NEW U, NEW F, Valid(t, X, U, F), NEW h, StorageOfHandle(t, h) # NoStore,
           NEW p \in {"name", "title"}, NEW v, NEW fails \in BOOLEAN
    PROVE  LET st == StorageOfHandle(t, h)
               i == Interested(t, st, {h})
               r == IF p = "name" THEN RenameItem(i, st, h, v, fails) ELSE [t |-> i, ok |-> TRUE]
               u == CacheSet(r, h, p, v)
           IN  Valid(IF fails \/ p = "title" THEN OutOfDate(u, {<<h, p>>}) ELSE u, X, U, F)
<1> DEFINE st == StorageOfHandle(t, h)
           i == Interested(t, st, {h})
           r == IF p = "name" THEN RenameItem(i, st, h, v, fails) ELSE [t |-> i, ok |-> TRUE]
           u == CacheSet(r, h, p, v)
           m == Moved(Renamed(i, st, h, v), st, h)
           Y == X \cup {<<h, p>>}
<1>1. st \in AllStores /\ Has(t, st, h)
  BY StorageFound
<1> HIDE DEF st
<1>2. Valid(i, X, U, F) /\ Has(i, st, h)
  BY <1>1, InterestedValid DEF Has
<1>3. CASE r = [t |-> i, ok |-> FALSE]
  <2>1. u = i
    BY <1>3 DEF CacheSet
  <2>2. \A k, q : <<k, q>> \in X => <<k, q>> \in X \/ <<k, q>> \in {<<h, p>>}
    OBVIOUS
  <2> HIDE DEF u, r, i
  <2>3. Valid(OutOfDate(i, {<<h, p>>}), X, U, F)
    BY <1>2, <2>2, OutOfDateValid
  <2> QED
    BY <1>2, <2>1, <2>3 DEF u, r, i, st
<1>4. ASSUME r = [t |-> i, ok |-> TRUE], fails \/ p = "title"
      PROVE  Valid(OutOfDate(u, {<<h, p>>}), X, U, F)
  <2>1. u = CacheAdd(i, Only(h, Only(p, v)))
    BY <1>4 DEF CacheSet
  <2>2. \A k, q : <<k, q>> \in X => <<k, q>> \in Y \/ (k = h /\ q = p)
    OBVIOUS
  <2>3. \A k, q : <<k, q>> \in Y => <<k, q>> \in X \/ <<k, q>> \in {<<h, p>>}
    OBVIOUS
  <2>4. <<h, p>> \in Y /\ p \in Props \ {"sample"}
    BY DEF Props, InfoProps
  <2> HIDE DEF u, r, i, Y
  <2>5. Valid(u, Y, U, F)
    BY <1>1, <1>2, <2>1, <2>2, <2>4, CacheAddValid
  <2> QED
    BY <2>3, <2>5, OutOfDateValid
<1>5. ASSUME r = [t |-> m, ok |-> TRUE], p = "name"
      PROVE  Valid(u, X, U, F)
  <2>1. u = CacheAdd(m, Only(h, Only(p, v)))
    BY <1>5 DEF CacheSet
  <2> HIDE DEF u, r, i
  <2> DEFINE Z == X \cup {<<h, "name">>}
  <2>2. Valid(m, Z, U, F) /\ h \in DOMAIN m.tree[st] /\ m.tree[st][h].name = v
    BY <1>1, <1>2, RenamedValid DEF Has
  <2> HIDE DEF m
  <2>3. \A k, q : <<k, q>> \in Z => <<k, q>> \in X \/ (k = h /\ q = p)
    BY <1>5
  <2> HIDE DEF Z
  <2>4. p \in Props \ {"sample"} /\ Has(m, st, h)
    BY <1>5, <2>2 DEF Props, InfoProps, Has
  <2>5. v = ValueFromStorage(m, st, h, p) \/ <<h, p>> \in X
    BY <1>5, <2>2 DEF ValueFromStorage
  <2>6. Valid(m, Z, U, F)
    BY <2>2
  <2> QED
    BY <1>1, <2>1, <2>3, <2>4, <2>5, <2>6, CacheAddValid
<1>6. CASE p = "title"
  <2>1. r = [t |-> i, ok |-> TRUE]
    BY <1>6
  <2> HIDE DEF u, r, i
  <2> QED
    BY <1>4, <1>6, <2>1 DEF u, r, i, st
<1>7. CASE p = "name"
  <2>1. r = RenameItem(i, st, h, v, fails)
    BY <1>7
  <2>2. \/ r = [t |-> i, ok |-> FALSE]
        \/ fails /\ r = [t |-> i, ok |-> TRUE]
        \/ ~fails /\ r = [t |-> m, ok |-> TRUE]
    BY <2>1 DEF RenameItem, Renamed
  <2>3. p # "title"
    BY <1>7
  <2> HIDE DEF u, r, i, m
  <2>4. CASE fails /\ r = [t |-> i, ok |-> TRUE]
    BY <1>4, <2>4 DEF u, r, i, st
  <2>5. CASE ~fails /\ r = [t |-> m, ok |-> TRUE]
    BY <1>5, <1>7, <2>3, <2>5 DEF u, r, i, st
  <2> QED
    BY <1>3, <2>2, <2>4, <2>5
<1> QED
  BY <1>6, <1>7

LEMMA SendObjectValid ==
    ASSUME NEW t, NEW X, NEW U, NEW F, Valid(t, X, U, F), NEW st \in AllStores, NEW parent, NEW name,
           CanHold(t, st, parent)
    PROVE  Valid([AddItem(t, st, parent, name) EXCEPT !.dirty = @ \cup {<<st, t.next>>}], X, U, F)
<1> DEFINE v == AddItem(t, st, parent, name)
<1>1. Valid(v, X, U, F) /\ t.next \in DOMAIN v.tree[st]
  BY AddItemValid
<1> HIDE DEF v
<1>2. Valid([v EXCEPT !.dirty = @ \cup {<<st, t.next>>}], X, U, F)
  BY <1>1, DirtyValid
<1> QED
  BY <1>2 DEF v

\* The object in edit: its content may not be what is cached, and nothing is told of it.
LEMMA BeginEditValid ==
    ASSUME NEW t, NEW e, NEW F, Valid(t, {<<e, "content">>}, {}, F), NEW h
    PROVE  Valid(SetEventsEnabled(Forget(OutOfDate(t, {e} \X {"content"}), {h}), h, FALSE), {<<h, "content">>}, {}, F)
<1> DEFINE u == OutOfDate(t, {e} \X {"content"})
           v == Forget(u, {h})
           w == SetEventsEnabled(v, h, FALSE)
<1>1. \A k, p : <<k, p>> \in {<<e, "content">>} => <<k, p>> \in {} \/ <<k, p>> \in {e} \X {"content"}
  OBVIOUS
<1>2. Valid(u, {}, {}, F)
  BY <1>1, OutOfDateValid
<1> HIDE DEF u
<1>3. Valid(v, {}, {}, F) /\ h \notin v.asked
  <2>1. DOMAIN u = Fields
    BY <1>2, FieldsOf
  <2>2. v.asked = u.asked \ {h}
    BY <2>1 DEF Forget, Fields
  <2>3. Valid(v, {}, {}, F)
    BY <1>2, ForgetValid
  <2> QED
    BY <2>2, <2>3
<1> HIDE DEF v
<1>4. Valid(w, {}, {}, F)
  BY <1>3, SetEventsEnabledValid
<1> HIDE DEF w
<1>5. {} \subseteq {<<h, "content">>} /\ {} \subseteq {}
  OBVIOUS
<1>6. Valid(w, {<<h, "content">>}, {}, F)
  BY <1>4, <1>5, Weaker
<1> QED
  BY <1>6 DEF w, v, u

LEMMA EndEditValid ==
    ASSUME NEW t, NEW h, NEW F, Valid(t, {<<h, "content">>}, {}, F)
    PROVE  Valid(IF StorageOfHandle(t, h) = NoStore THEN CacheRemove(t, h) ELSE Ask(EndEdit(t, h), h),
                 {<<Root, "content">>}, {}, F)
<1> DEFINE u == CacheRemove(t, h)
           v == EndEdit(t, h)
           w == IF StorageOfHandle(t, h) = NoStore THEN u ELSE Ask(v, h)
<1>1. \A k, p : <<k, p>> \in {<<h, "content">>} => <<k, p>> \in {} \/ k = h
  OBVIOUS
<1>2. Valid(u, {}, {}, F)
  BY <1>1, CacheRemoveValid
<1>3. u.tree = t.tree /\ u.next = t.next
  BY FieldsOf DEF CacheRemove, Fields
<1>4. v = SetEventsEnabled(u, h, TRUE)
  BY DEF EndEdit
<1> HIDE DEF u, v
<1>5. ASSUME StorageOfHandle(t, h) # NoStore PROVE Valid(Ask(v, h), {}, {}, F)
  <2>1. /\ Valid(v, {}, {}, F) /\ v.next = u.next /\ v.torn = u.torn
        /\ h \notin u.torn => \A st \in AllStores : Has(v, st, h) => v.tree[st][h].on
    BY <1>2, <1>4, SetEventsEnabledValid
  <2>2. h \in 1 .. t.next - 1
    BY <1>5, StorageFound, FieldsOf, RootIsNone DEF Has
  <2>3. h \in 1 .. v.next - 1 /\ (h \notin v.torn => \A st \in AllStores : Has(v, st, h) => v.tree[st][h].on)
    BY <1>3, <2>1, <2>2
  <2> QED
    BY <2>1, <2>3, AskValid
<1>6. Valid(w, {}, {}, F)
  BY <1>2, <1>5
<1> HIDE DEF w
<1>7. {} \subseteq {<<Root, "content">>} /\ {} \subseteq {}
  OBVIOUS
<1>8. Valid(w, {<<Root, "content">>}, {}, F)
  BY <1>6, <1>7, Weaker
<1> QED
  BY <1>8 DEF w, v, u

\* SendPartialObject and TruncateObject change the content and the info of the object in edit.
LEMMA EditValid ==
    ASSUME NEW t, NEW h, NEW F, Valid(t, {<<h, "content">>}, {}, F), NEW st \in AllStores, Has(t, st, h)
    PROVE  Valid([Forget(t, {h}) EXCEPT !.tree[st][h].content = @ + 1,
                                        !.tree[st][h].size = t.tree[st][h].content + 1,
                                        !.dirty = @ \cup {<<st, h>>}], {<<h, "content">>}, {}, F)
<1> DEFINE X == {<<h, "content">>}
           v == Forget(t, {h})
           old == t.tree[st][h]
           u == [v EXCEPT !.tree[st][h].content = @ + 1, !.tree[st][h].size = old.content + 1,
                          !.dirty = @ \cup {<<st, h>>}]
           new == [old EXCEPT !.content = old.content + 1, !.size = old.content + 1]
           None == {}
           W == {h}
<1>0. X \subseteq X /\ <<h, "content">> \in X /\ None \subseteq W /\ h \in W
  OBVIOUS
<1> HIDE DEF X, None, W
<1>1. DOMAIN t = Fields /\ DOMAIN t.tree = AllStores /\ h \in DOMAIN t.tree[st] /\ ItemGood(old, DOMAIN t.tree[st])
  BY FieldsOf, RootIsNone DEF Has, X
<1>2. Valid(v, X, None, F)
  BY ForgetValid DEF X, None
<1>3. DOMAIN v = Fields /\ v.tree = t.tree /\ v.untold = t.untold \ {h}
  BY <1>1 DEF Forget, Fields
<1> HIDE DEF v
<1>4. /\ DOMAIN u = Fields /\ u.events = v.events /\ u.cache = v.cache /\ u.next = v.next /\ u.torn = v.torn
      /\ u.stale = v.stale /\ u.thumb = v.thumb /\ u.asked = v.asked /\ u.untold = v.untold
      /\ u.dirty = v.dirty \cup {<<st, h>>}
      /\ DOMAIN u.tree = AllStores /\ \A to \in AllStores \ {st} : u.tree[to] = v.tree[to]
      /\ DOMAIN u.tree[st] = DOMAIN v.tree[st]
      /\ \A k \in DOMAIN v.tree[st] \ {h} : u.tree[st][k] = v.tree[st][k]
      /\ u.tree[st][h] = new
  BY <1>1, <1>3 DEF Fields
<1> HIDE DEF u
<1>5. /\ new.on = old.on /\ new.name = old.name /\ new.parent = old.parent
      /\ new.size = old.content + 1 /\ new.content = old.content + 1 /\ DOMAIN new = ItemFields
  BY <1>1 DEF ItemGood, ItemFields
<1>6. old = v.tree[st][h]
  BY <1>3
<1> HIDE DEF new, old
<1>7. ItemGood(new, DOMAIN v.tree[st]) /\ new = u.tree[st][h] /\ h \in DOMAIN v.tree[st]
  BY <1>1, <1>3, <1>4, <1>5 DEF ItemGood
<1>8. /\ new.name # old.name \/ new.parent # old.parent => \A k \in Subtree(v, st, h) : <<k, "sample">> \in X
      /\ new.name # old.name => <<h, "name">> \in X
      /\ new.parent # old.parent => <<h, "parent">> \in X
      /\ new.size # old.size => <<h, "content">> \in X
      /\ u.dirty \subseteq v.dirty \cup {<<st, h>>} /\ v.dirty \subseteq u.dirty \cup {<<st, h>>}
      /\ (old.on => new.on)
  BY <1>0, <1>4, <1>5
<1>9. h \in W \/ (<<st, h>> \in v.dirty /\ old.size # old.content => <<st, h>> \in u.dirty /\ new.size # new.content)
  BY <1>0
<1>10. Valid(u, X, W, F)
  BY <1>0, <1>2, <1>4, <1>6, <1>7, <1>8, <1>9, ItemStep
<1>11. Valid(u, X, {}, F)
  <2>1. h \notin u.untold
    BY <1>3, <1>4
  <2> QED
    BY <1>10, <2>1 DEF Valid, ChangesWait, W
<1> QED
  BY <1>11 DEF u, v, X, old

LEMMA GetThumbValid ==
    ASSUME NEW t, NEW X, NEW U, NEW F, Valid(t, X, U, F), NEW h,
           GetObjectPropertyValue(t, h, {"sample"}).ok
    PROVE  LET q == GetObjectPropertyValue(t, h, {"sample"})
           IN  Valid(IF InCache(t, h, "sample") THEN q.t ELSE Ask(q.t, h), X, U, F)
<1> DEFINE P == {"sample"}
           q == GetObjectPropertyValue(t, h, P)
           st == StorageOfHandle(t, h)
<1>1. P \in SUBSET Props
  BY DEF Props
<1>2. ~InCache(t, h, "sample") => \E p \in P : ~InCache(t, h, p)
  OBVIOUS
<1>2a. q.ok
  OBVIOUS
<1> HIDE DEF P
<1>3. /\ Valid(q.t, X, U, F) /\ Noting(t, q.t)
      /\ ~InCache(t, h, "sample") => st # NoStore /\ q.t.tree[st][h].on
  BY <1>1, <1>2, <1>2a, GetObjectPropertyValueValid
<1> HIDE DEF q
<1>4. StorageOfHandle(q.t, h) = st
  BY <1>3, FieldsOf, NotingFacts
<1>5. ASSUME ~InCache(t, h, "sample") PROVE Valid(Ask(q.t, h), X, U, F)
  BY <1>3, <1>4, <1>5, AskNoted
<1> QED
  BY <1>3, <1>5 DEF q, P

-----------------------------------------------------------------------------
(* The event loop.                                                         *)

\* What the notification that is handled would have dropped, and told
DroppedBy(e) ==
    CASE e.kind \in {"info", "removed"} -> {e.handle} \X Props
      [] e.kind = "sample" -> {<<e.handle, "sample">>}
      [] OTHER -> {}
ToldBy(e) == IF e.kind \in {"info", "removed"} THEN {e.handle} ELSE {}

LEMMA PopValid ==
    ASSUME NEW t, NEW X, NEW U, NEW F, Valid(t, X, U, F), t.events # <<>>
    PROVE  /\ Valid([t EXCEPT !.events = Tail(@)], X \cup DroppedBy(Head(t.events)), U \cup ToldBy(Head(t.events)), F)
           /\ Head(t.events) \in [kind : EventKinds, handle : Int]
<1> DEFINE Event == [kind : EventKinds, handle : Int]
           e == Head(t.events)
           u == [t EXCEPT !.events = Tail(@)]
           Y == X \cup DroppedBy(e)
           W == U \cup ToldBy(e)
<1>1. /\ Sound(t, F) /\ EntriesTrue(t, X) /\ ChangesWait(t, U) /\ DOMAIN t = Fields /\ CacheGood(t)
      /\ t.events \in Seq(Event)
  BY FieldsOf DEF Valid, EventsGood
<1>2. /\ DOMAIN u = Fields /\ u.tree = t.tree /\ u.dirty = t.dirty /\ u.cache = t.cache
      /\ u.next = t.next /\ u.thumb = t.thumb /\ u.torn = t.torn /\ u.asked = t.asked
      /\ u.untold = t.untold /\ u.stale = t.stale
      /\ u.events = Tail(t.events)
  BY <1>1 DEF Fields
<1> HIDE DEF u
<1>3. /\ e \in Event /\ Tail(t.events) \in Seq(Event)
      /\ Len(t.events) \in Nat \ {0} /\ Len(Tail(t.events)) = Len(t.events) - 1
      /\ e = t.events[1]
      /\ \A i \in 1 .. Len(t.events) - 1 : Tail(t.events)[i] = t.events[i + 1]
  <2> HIDE DEF Event
  <2>1. Len(t.events) \in Nat /\ Len(t.events) # 0
    BY <1>1, EmptySeq
  <2> QED
    BY <1>1, <2>1, HeadTailProperties
<1> HIDE DEF e
<1>4. /\ DOMAIN t.events = 1 .. Len(t.events) /\ DOMAIN u.events = 1 .. Len(t.events) - 1
  <2> HIDE DEF Event
  <2>1. DOMAIN t.events = 1 .. Len(t.events)
    BY <1>1
  <2>2. DOMAIN u.events = 1 .. Len(u.events)
    BY <1>2, <1>3
  <2> QED
    BY <1>2, <1>3, <2>1, <2>2
<1>5. ASSUME NEW h, NEW p \in Props, Drops(t, h, p), <<h, p>> \notin DroppedBy(e)
      PROVE  Drops(u, h, p)
  <2>1. PICK i \in DOMAIN t.events : 
           /\ t.events[i].handle = h
           /\ t.events[i].kind \in {"info", "removed"} \/ (t.events[i].kind = "sample" /\ p = "sample")
    BY <1>5 DEF Drops
  <2>2. CASE i = 1
    <3>1. e.handle = h /\ (e.kind \in {"info", "removed"} \/ (e.kind = "sample" /\ p = "sample"))
      BY <1>3, <2>1, <2>2
    <3> QED
      BY <1>5, <3>1 DEF DroppedBy
  <2>3. CASE i # 1
    <3>1. i - 1 \in 1 .. Len(t.events) - 1 /\ i - 1 + 1 = i
      BY <1>3, <1>4, <2>1, <2>3
    <3>2. u.events[i - 1] = t.events[i] /\ i - 1 \in DOMAIN u.events
      BY <1>2, <1>3, <1>4, <3>1
    <3> QED
      BY <2>1, <3>2 DEF Drops
  <2> QED
    BY <2>2, <2>3
<1>6. \A st, h : Has(u, st, h) <=> Has(t, st, h)
  BY <1>2, SameTree
<1>7. Sound(u, F)
  <2>1. EventsGood(u)
    BY <1>2, <1>3 DEF EventsGood
  <2> QED
    BY <1>1, <1>2, <1>6, <2>1 DEF Sound, RecordGood, ItemsGood, InOneStore, DirtyGood, CacheGood, AskedGood,
                                  ThumbsGood, AskedNoted
<1>8. EntriesTrue(u, Y)
  <2> SUFFICES ASSUME NEW h \in DOMAIN u.cache \ u.torn, NEW p \in DOMAIN u.cache[h]
               PROVE  EntryTrue(u, Y, h, p)
    BY DEF EntriesTrue
  <2>1. EntryTrue(t, X, h, p) /\ p \in Props
    BY <1>1, <1>2 DEF EntriesTrue, CacheGood
  <2>2. \A st \in AllStores : \A v : TrueIn(t, st, h, p, v) => TrueIn(u, st, h, p, v)
    BY <1>2, <2>1, TrueStays
  <2>3. Drops(t, h, p) => <<h, p>> \in Y \/ Drops(u, h, p)
    BY <1>5, <2>1
  <2>4. <<h, p>> \in X => <<h, p>> \in Y
    OBVIOUS
  <2> HIDE DEF Y
  <2> QED
    BY <1>2, <2>1, <2>2, <2>3, <2>4 DEF EntryTrue
<1>9. ChangesWait(u, W)
  <2> SUFFICES ASSUME NEW h \in u.untold \ (u.torn \cup W) PROVE ChangeWaits(u, h)
    BY DEF ChangesWait
  <2>1. ChangeWaits(t, h)
    BY <1>1, <1>2 DEF ChangesWait
  <2>2. Drops(t, h, "name") => Drops(u, h, "name")
    <3>1. "name" \in Props
      BY DEF Props, InfoProps
    <3>2. <<h, "name">> \notin DroppedBy(e)
      BY DEF DroppedBy, ToldBy
    <3> QED
      BY <1>5, <3>1, <3>2
  <2> QED
    BY <1>2, <2>1, <2>2 DEF ChangeWaits
<1> QED
  BY <1>3, <1>7, <1>8, <1>9 DEF Valid, u, e

LEMMA OnStorageEventValid ==
    ASSUME NEW t, NEW X, NEW U, NEW F, NEW e \in [kind : EventKinds, handle : Int],
           Valid(t, X \cup DroppedBy(e), U, F)
    PROVE  Valid(OnStorageEvent(t, e), X, U, F)
<1> DEFINE h == e.handle
           Y == X \cup DroppedBy(e)
<1>1. \A k, p : <<k, p>> \in Y => \/ <<k, p>> \in X
                                  \/ k = h /\ (e.kind \in {"info", "removed"} \/ (e.kind = "sample" /\ p = "sample"))
  BY DEF DroppedBy
<1>2. Valid(t, Y, U, F)
  OBVIOUS
<1> HIDE DEF Y, h
<1>3. CASE e.kind = "info"
  <2>1. \A k, p : <<k, p>> \in Y => <<k, p>> \in X \/ k = h
    BY <1>1
  <2>2. Valid(CacheRemove(t, h), X, U, F)
    BY <1>2, <2>1, CacheRemoveValid
  <2> QED
    BY <1>3, <2>2 DEF OnStorageEvent, h
<1>4. CASE e.kind = "sample"
  <2>1. \A k, p : <<k, p>> \in Y => <<k, p>> \in X \/ (k = h /\ p = "sample")
    BY <1>1, <1>4
  <2>2. "sample" \in Props
    BY DEF Props
  <2>3. Valid(CacheRemoveProp(t, h, "sample"), X, U, F)
    BY <1>2, <2>1, <2>2, CacheRemovePropValid
  <2> QED
    BY <1>4, <2>3 DEF OnStorageEvent, h
<1>5. CASE e.kind = "removed"
  <2> DEFINE v == [t EXCEPT !.mass = t.mass \ {h}]
  <2>1. Valid(v, Y, U, F)
    BY <1>2, MassValid
  <2> HIDE DEF v
  <2>2. \A k, p : <<k, p>> \in Y => <<k, p>> \in X \/ k = h
    BY <1>1
  <2>3. Valid(CacheRemove(v, h), X, U, F)
    BY <2>1, <2>2, CacheRemoveValid
  <2> QED
    BY <1>5, <2>3 DEF OnStorageEvent, h, v
<1>6. CASE e.kind = "added"
  <2>1. X \cup DroppedBy(e) = X
    BY <1>6 DEF DroppedBy
  <2> QED
    BY <1>6, <2>1 DEF OnStorageEvent
<1> QED
  BY <1>3, <1>4, <1>5, <1>6 DEF EventKinds

\* An event is filtered only of an object the initiator has not asked about.
LEMMA DispatchEventValid ==
    ASSUME NEW t, NEW X, NEW U, NEW F, NEW e \in [kind : EventKinds, handle : Int],
           Valid(t, X, U \cup ToldBy(e), F)
    PROVE  Valid(DispatchEvent(t, e), X, U, F)
<1> DEFINE h == e.handle
           st == StorageOfHandle(t, h)
           u == [t EXCEPT !.untold = @ \ {h}]
           told == e.kind = "added" \/ st = NoStore \/ t.tree[st][h].on
<1>1. DOMAIN t = Fields /\ AskedGood(t) /\ AskedNoted(t) /\ ChangesWait(t, U \cup ToldBy(e)) /\ InOneStore(t)
  BY FieldsOf
<1>2. ToldBy(e) \subseteq {h}
  BY DEF ToldBy
<1>3. Sound(t, F) /\ EntriesTrue(t, X)
  BY DEF Valid
<1>4. Valid(u, X, U, F)
  <2> DEFINE W == U \cup ToldBy(e)
  <2>1. /\ DOMAIN u = Fields /\ u.tree = t.tree /\ u.dirty = t.dirty /\ u.events = t.events /\ u.cache = t.cache
        /\ u.next = t.next /\ u.thumb = t.thumb /\ u.torn = t.torn /\ u.stale = t.stale
        /\ u.asked = t.asked /\ u.untold = t.untold \ {h}
    BY <1>1 DEF Fields
  <2> HIDE DEF u, h
  <2>2. AskedGood(u) /\ AskedNoted(u)
    BY <1>1, <2>1 DEF AskedGood, AskedNoted, Has
  <2>3. \A k \in u.untold \ (u.torn \cup U) : k \in t.untold \ W \/ ChangeWaits(t, k)
    BY <1>2, <2>1
  <2>4. Valid(t, X, W, F)
    OBVIOUS
  <2> HIDE DEF W
  <2> QED
    BY <2>1, <2>2, <2>3, <2>4, InterestStep
<1>5. ASSUME ~told PROVE Valid(t, X, U, F)
  <2>1. st \in AllStores /\ Has(t, st, h) /\ ~t.tree[st][h].on
    BY <1>5, StorageFound
  <2>2. h \notin t.asked \ t.torn
    BY <1>1, <2>1 DEF AskedNoted
  <2>3. h \notin t.untold \ t.torn
    BY <1>1, <2>2 DEF AskedGood
  <2>4. ChangesWait(t, U)
    BY <1>1, <1>2, <2>3 DEF ChangesWait
  <2> QED
    BY <1>3, <2>4 DEF Valid
<1>6. DispatchEvent(t, e) = IF told THEN u ELSE t
  BY DEF DispatchEvent
<1> HIDE DEF told, u
<1> QED
  BY <1>4, <1>5, <1>6

LEMMA HandleEventValid ==
    ASSUME NEW t, NEW X, NEW U, NEW F, Valid(t, X, U, F), t.events # <<>>
    PROVE  LET e == Head(t.events)
           IN  Valid(DispatchEvent(OnStorageEvent([t EXCEPT !.events = Tail(@)], e), e), X, U, F)
<1> DEFINE e == Head(t.events)
           u == [t EXCEPT !.events = Tail(@)]
<1>1. Valid(u, X \cup DroppedBy(e), U \cup ToldBy(e), F) /\ e \in [kind : EventKinds, handle : Int]
  BY PopValid
<1> HIDE DEF u, e
<1>2. Valid(OnStorageEvent(u, e), X, U \cup ToldBy(e), F)
  BY <1>1, OnStorageEventValid
<1>3. Valid(DispatchEvent(OnStorageEvent(u, e), e), X, U, F)
  BY <1>1, <1>2, DispatchEventValid
<1> QED
  BY <1>3 DEF u, e

LEMMA ThumbnailTimerValid ==
    ASSUME NEW t, NEW X, NEW U, NEW F, Valid(t, X, U, F), NEW st \in AllStores, t.thumb[st].timer,
           \A x \in AllStores : F[x] = t.thumb[x].fetching
    PROVE  LET u == [t EXCEPT !.thumb[st] = ThumbnailDelayTimeout(@)]
           IN  \E G : (\A x \in AllStores : G[x] = u.thumb[x].fetching) /\ Valid(u, X, U, G)
<1> DEFINE u == [t EXCEPT !.thumb[st] = ThumbnailDelayTimeout(@)]
           G == [x \in AllStores |-> u.thumb[x].fetching]
<1>1. DOMAIN t = Fields /\ DOMAIN t.thumb = AllStores /\ ThumbsGood(t, F)
  BY FieldsOf
<1>2. /\ DOMAIN u = Fields /\ u.tree = t.tree /\ u.dirty = t.dirty /\ u.events = t.events /\ u.cache = t.cache
      /\ u.next = t.next /\ u.torn = t.torn /\ u.stale = t.stale /\ u.asked = t.asked /\ u.untold = t.untold
      /\ DOMAIN u.thumb = AllStores /\ u.thumb[st] = ThumbnailDelayTimeout(t.thumb[st])
      /\ \A x \in AllStores \ {st} : u.thumb[x] = t.thumb[x]
  BY <1>1 DEF Fields
<1> HIDE DEF u
<1>3. \A x \in AllStores : G[x] = u.thumb[x].fetching
  OBVIOUS
<1> HIDE DEF G
<1>4. ThumbGood(u.thumb[st], G[st]) /\ u.thumb[st].requested = t.thumb[st].requested
  <2>1. ThumbGood(t.thumb[st], F[st])
    BY <1>1 DEF ThumbsGood
  <2> QED
    BY <1>2, <1>3, <2>1, TimeoutGood
<1>5. ThumbsGood(u, G) /\ \A x \in AllStores : t.thumb[x].requested \subseteq u.thumb[x].requested
  <2> SUFFICES ASSUME NEW x \in AllStores
               PROVE  ThumbGood(u.thumb[x], G[x]) /\ t.thumb[x].requested \subseteq u.thumb[x].requested
    BY DEF ThumbsGood
  <2>1. CASE x = st
    BY <1>4, <2>1
  <2>2. CASE x # st
    <3>1. G[x] = F[x] /\ u.thumb[x] = t.thumb[x]
      BY <1>2, <1>3, <2>2
    <3> QED
      BY <1>1, <3>1 DEF ThumbsGood
  <2> QED
    BY <2>1, <2>2
<1>6. Valid(u, X, U, G)
  BY <1>2, <1>5, ThumbStep
<1> QED
  BY <1>3, <1>6 DEF u

\* The service is done with a file, which was not asked for or stays asked for.
LEMMA SlotValid ==
    ASSUME NEW t, NEW X, NEW U, NEW F, Valid(t, X, U, F), NEW st \in AllStores, NEW th,
           ThumbGood(th, F[st]), th.requested = t.thumb[st].requested
    PROVE  Valid([t EXCEPT !.thumb[st] = th], X, U, F)
<1> DEFINE u == [t EXCEPT !.thumb[st] = th]
<1>1. DOMAIN t = Fields /\ DOMAIN t.thumb = AllStores /\ ThumbsGood(t, F)
  BY FieldsOf
<1>2. /\ DOMAIN u = Fields /\ u.tree = t.tree /\ u.dirty = t.dirty /\ u.events = t.events /\ u.cache = t.cache
      /\ u.next = t.next /\ u.torn = t.torn /\ u.stale = t.stale /\ u.asked = t.asked /\ u.untold = t.untold
      /\ DOMAIN u.thumb = AllStores /\ u.thumb[st] = th
      /\ \A x \in AllStores \ {st} : u.thumb[x] = t.thumb[x]
  BY <1>1 DEF Fields
<1> HIDE DEF u
<1>3. ThumbsGood(u, F) /\ \A x \in AllStores : t.thumb[x].requested \subseteq u.thumb[x].requested
  BY <1>1, <1>2 DEF ThumbsGood
<1>4. Valid(u, X, U, F)
  BY <1>2, <1>3, ThumbStep
<1> QED
  BY <1>4 DEF u

\* A thumbnail that was asked for is there: its objects are those at the path by now.
LEMMA ReceiveValid ==
    ASSUME NEW t, NEW X, NEW U, NEW F, Valid(t, X, U, F), NEW st \in AllStores, NEW f
    PROVE  Valid(ReceiveThumbnail([t EXCEPT !.thumb[st] = SlotReady(@, f)], st, f), X, U, F)
<1> DEFINE u == [t EXCEPT !.thumb[st] = SlotReady(@, f)]
           H == {h \in DOMAIN t.tree[st] : Path(t, st, h) = f}
           order == SetToSeq(H)
           Y == X \cup (H \X {"sample"})
           W == U \cup H
<1>1. /\ Sound(t, F) /\ EntriesTrue(t, X) /\ ChangesWait(t, U) /\ DOMAIN t = Fields /\ DOMAIN t.thumb = AllStores
      /\ ThumbsGood(t, F) /\ ItemsGood(t) /\ CacheGood(t) /\ t.next \in Nat \ {0}
  BY FieldsOf DEF Valid
<1>2. /\ DOMAIN u = Fields /\ u.tree = t.tree /\ u.dirty = t.dirty /\ u.events = t.events /\ u.cache = t.cache
      /\ u.next = t.next /\ u.torn = t.torn /\ u.stale = t.stale /\ u.asked = t.asked /\ u.untold = t.untold
      /\ DOMAIN u.thumb = AllStores /\ u.thumb[st] = SlotReady(t.thumb[st], f)
      /\ \A x \in AllStores \ {st} : u.thumb[x] = t.thumb[x]
  BY <1>1 DEF Fields
<1> HIDE DEF u
<1>3. /\ ThumbGood(u.thumb[st], F[st])
      /\ t.thumb[st].requested \subseteq u.thumb[st].requested \cup {f}
  <2>1. ThumbGood(t.thumb[st], F[st])
    BY <1>1 DEF ThumbsGood
  <2> QED
    BY <1>2, <2>1, SlotGood
<1>4. ThumbsGood(u, F) /\ \A x \in AllStores \ {st} : t.thumb[x].requested = u.thumb[x].requested
  BY <1>1, <1>2, <1>3 DEF ThumbsGood
<1>5. /\ \A x, h : Has(u, x, h) <=> Has(t, x, h)
      /\ \A x, h : Path(u, x, h) = Path(t, x, h)
  BY <1>2, SameTree
<1>6. Sound(u, F)
  BY <1>1, <1>2, <1>4, <1>5 DEF Sound, RecordGood, ItemsGood, InOneStore, DirtyGood, EventsGood, CacheGood,
                               AskedGood, AskedNoted
<1>7. \A h, p : Drops(u, h, p) <=> Drops(t, h, p)
  BY <1>2 DEF Drops
<1>8. ChangesWait(u, U)
  <2> SUFFICES ASSUME NEW h \in u.untold \ (u.torn \cup U) PROVE ChangeWaits(u, h)
    BY DEF ChangesWait
  <2>1. ChangeWaits(t, h)
    BY <1>1, <1>2 DEF ChangesWait
  <2> QED
    BY <1>2, <1>7, <2>1 DEF ChangeWaits
<1>9. X \subseteq Y /\ \A h \in H : <<h, "sample">> \in Y
  OBVIOUS
<1>10. \A h, p : <<h, p>> \in Y => <<h, p>> \in X \/ h \in H
  OBVIOUS
<1>11. H = {h \in DOMAIN t.tree[st] : Path(t, st, h) = f}
  OBVIOUS
<1> HIDE DEF Y, H
<1>12. EntriesTrue(u, Y)
  <2> SUFFICES ASSUME NEW h \in DOMAIN u.cache \ u.torn, NEW p \in DOMAIN u.cache[h]
               PROVE  EntryTrue(u, Y, h, p)
    BY DEF EntriesTrue
  <2>1. EntryTrue(t, X, h, p) /\ p \in Props
    BY <1>1, <1>2 DEF EntriesTrue, CacheGood
  <2>2. ASSUME NEW x \in AllStores, TrueIn(t, x, h, p, u.cache[h][p])
        PROVE  TrueIn(u, x, h, p, u.cache[h][p]) \/ <<h, p>> \in Y
    <3>1. CASE p = "sample"
      <4>1. CASE Path(t, x, h) = f /\ x = st
        BY <1>9, <1>11, <2>2, <3>1, <4>1 DEF TrueIn, Has
      <4>2. CASE ~(Path(t, x, h) = f /\ x = st)
        <5>1. Path(t, x, h) \in t.thumb[x].requested => Path(u, x, h) \in u.thumb[x].requested
          BY <1>3, <1>4, <1>5, <4>2
        <5> QED
          BY <1>2, <1>5, <2>2, <3>1, <5>1 DEF TrueIn
      <4> QED
        BY <4>1, <4>2
    <3>2. CASE p # "sample"
      <4>1. ValueFromStorage(u, x, h, p) = ValueFromStorage(t, x, h, p)
        BY <1>2, <2>1, <3>2, SameTree
      <4> QED
        BY <1>5, <2>2, <3>2, <4>1 DEF TrueIn
    <3> QED
      BY <3>1, <3>2
  <2> QED
    BY <1>2, <1>7, <1>9, <2>1, <2>2 DEF EntryTrue
<1>13. Valid(u, Y, U, F)
  BY <1>6, <1>8, <1>12 DEF Valid
<1> DEFINE v == Changed(u, H)
           w == EmitAll(v, "info", order)
<1>14. U \subseteq W /\ H \subseteq W /\ \A k \in W : k \in U \/ k \in H
  OBVIOUS
<1> HIDE DEF W
<1>15. Valid(v, Y, W, F)
  BY <1>13, <1>14, ChangedValid
<1> HIDE DEF v
<1>16. IsFiniteSet(H) /\ \A k \in H : k \in Int
  <2>1. H \subseteq 1 .. t.next - 1
    BY <1>1, <1>11 DEF ItemsGood
  <2>2. IsFiniteSet(1 .. t.next - 1)
    BY <1>1, FS_Interval
  <2>3. IsFiniteSet(H)
    BY <2>1, <2>2, FS_Subset
  <2>4. \A k \in H : k \in Int
    BY <2>1
  <2> QED
    BY <2>3, <2>4
<1>17. /\ Cardinality(H) \in Nat /\ order \in [1 .. Cardinality(H) -> H]
       /\ \A k \in H : \E i \in 1 .. Cardinality(H) : order[i] = k
  BY <1>16, Enumerated1
<1> HIDE DEF order
<1>18. order \in Seq(Int)
  <2>1. order \in [1 .. Cardinality(H) -> Int]
    BY <1>16, <1>17
  <2> QED
    BY <1>17, <2>1
<1>19. "info" \in EventKinds /\ "info" \in {"info", "removed"} /\ "sample" \in EventKinds
  BY DEF EventKinds
<1>20. \A k \in H : \E i \in DOMAIN order : order[i] = k
  BY <1>17
<1>21. \A h, p : <<h, p>> \in Y => <<h, p>> \in X \/ ("info" \in {"info", "removed"} /\ \E i \in DOMAIN order : order[i] = h)
  BY <1>10, <1>20
<1>22. \A h \in W : h \in U \/ ("info" \in {"info", "removed"} /\ \E i \in DOMAIN order : order[i] = h)
  BY <1>14, <1>20
<1>23. Valid(w, X, U, F)
  BY <1>15, <1>18, <1>19, <1>21, <1>22, EmitAllValid
<1> HIDE DEF w
<1>24. /\ \A h, p : <<h, p>> \in X =>
             <<h, p>> \in X \/ ("sample" \in {"info", "removed"} /\ \E i \in DOMAIN order : order[i] = h)
       /\ \A h \in U : h \in U \/ ("sample" \in {"info", "removed"} /\ \E i \in DOMAIN order : order[i] = h)
  OBVIOUS
<1>25. Valid(EmitAll(w, "sample", order), X, U, F)
  BY <1>18, <1>19, <1>23, <1>24, EmitAllValid
<1>26. H = {h \in DOMAIN u.tree[st] : Path(u, st, h) = f}
  BY <1>2, <1>5, <1>11
<1>27. ReceiveThumbnail(u, st, f) = EmitAll(w, "sample", order)
  BY <1>26 DEF ReceiveThumbnail, w, v, order
<1> QED
  BY <1>25, <1>27 DEF u

-----------------------------------------------------------------------------
(* The steps.                                                              *)

LEMMA AnsweredValid ==
    ASSUME NEW t, NEW F, Valid(t, Exempt', {}, F), Answered(t)
    PROVE  Valid(s', Exempt', {}, F)
<1> DEFINE X == Exempt'
<1>1. Valid(t, X, {}, F)
  OBVIOUS
<1> HIDE DEF X
<1>2. Valid(Thumbs(t, SuspendThumbnailing), X, {}, F)
  BY <1>1, SuspendValid
<1>3. s' = Thumbs(t, SuspendThumbnailing)
  BY DEF Answered
<1> QED
  BY <1>2, <1>3 DEF X

LEMMA SameExempt == edit' = edit => Exempt' = Exempt
  BY DEF Exempt

LEMMA QueryKeeps ==
    ASSUME NEW F, Valid(s, Exempt, {}, F), Query
    PROVE  Valid(s', Exempt', {}, F)
<1> SUFFICES ASSUME NEW t, Valid(t, Exempt, {}, F), Answered(t), edit' = edit
             PROVE  Valid(s', Exempt', {}, F)
  <2>1. ASSUME NEW h, GetObjectInfo(h)
        PROVE  Valid(Ask(Interested(s, StorageOfHandle(s, h), {h}), h), Exempt, {}, F)
    <3> DEFINE st == StorageOfHandle(s, h)
               u == Interested(s, st, {h})
    <3>1. st # NoStore /\ st \in AllStores /\ Has(s, st, h)
      BY <2>1, StorageFound DEF GetObjectInfo
    <3> HIDE DEF st
    <3>2. Valid(u, Exempt, {}, F) /\ Noting(s, u) /\ u.tree[st][h].on
      BY <3>1, Interested1 DEF Has
    <3> HIDE DEF u
    <3>3. StorageOfHandle(u, h) = st
      BY <3>2, FieldsOf, NotingFacts DEF st
    <3>4. Valid(Ask(u, h), Exempt, {}, F)
      BY <3>1, <3>2, <3>3, AskNoted
    <3> QED
      BY <3>4 DEF u, st
  <2>2. ASSUME NEW h, NEW p \in Single, GetObjectPropValue(h, p)
        PROVE  Valid(Ask(GetObjectPropertyValue(Interested(s, StorageOfHandle(s, h), {h}), h, {p}).t, h), Exempt, {}, F)
    <3>1. {p} \in SUBSET Props
      BY QueriesAssumption DEF Props, InfoProps
    <3>2. StorageOfHandle(s, h) # NoStore
      BY <2>2 DEF GetObjectPropValue
    <3> QED
      BY <3>1, <3>2, QueryValid
  <2>3. ASSUME NEW H, GetObjectPropList(H)
        PROVE  Valid(QueryObjects(s, H), Exempt, {}, F)
    <3>1. H \in SUBSET Live(s)
      BY <2>3 DEF GetObjectPropList
    <3> QED
      BY <3>1, QueryObjectsValid
  <2>4. ASSUME NEW h, GetThumb(h)
        PROVE  LET q == GetObjectPropertyValue(s, h, {"sample"})
               IN  Valid(IF InCache(s, h, "sample") THEN q.t ELSE Ask(q.t, h), Exempt, {}, F)
    <3>1. GetObjectPropertyValue(s, h, {"sample"}).ok
      BY <2>4 DEF GetThumb
    <3> QED
      BY <3>1, GetThumbValid
  <2>5. \/ \E h : GetObjectInfo(h)
        \/ \E h : GetThumb(h)
        \/ \E h : \E p \in Single : GetObjectPropValue(h, p)
        \/ \E H : GetObjectPropList(H)
    BY DEF Query
  <2>6. ASSUME NEW t, Valid(t, Exempt, {}, F), Answered(t), edit' = edit PROVE Valid(s', Exempt', {}, F)
    BY <2>6
  <2> QED
    BY <2>1, <2>2, <2>3, <2>4, <2>5, <2>6 DEF GetObjectInfo, GetThumb, GetObjectPropValue, GetObjectPropList
<1>1. Valid(t, Exempt', {}, F)
  BY SameExempt
<1> QED
  BY <1>1, AnsweredValid

LEMMA HostKeeps ==
    ASSUME NEW F, Valid(s, Exempt, {}, F), Host
    PROVE  Valid(s', Exempt', {}, F)
<1>1. ASSUME NEW t, NEW fails, Valid(t, Exempt, {}, F), Change(t, fails), edit' = edit
      PROVE  Valid(s', Exempt', {}, F)
  <2>1. Valid(t, Exempt', {}, F)
    BY <1>1, SameExempt
  <2> QED
    BY <1>1, <2>1, AnsweredValid DEF Change
<1>2. ASSUME NEW h, NEW p \in Settable, NEW fails \in BOOLEAN, NEW v, SetObjectProp(h, p, v, fails)
      PROVE  Valid(s', Exempt', {}, F)
  <2>1. p \in {"name", "title"}
    BY QueriesAssumption
  <2>2. StorageOfHandle(s, h) # NoStore
    BY <1>2 DEF SetObjectProp
  <2>3. LET st == StorageOfHandle(s, h)
            i == Interested(s, st, {h})
            r == IF p = "name" THEN RenameItem(i, st, h, v, fails) ELSE [t |-> i, ok |-> TRUE]
            u == CacheSet(r, h, p, v)
        IN  Valid(IF fails \/ p = "title" THEN OutOfDate(u, {<<h, p>>}) ELSE u, Exempt, {}, F)
    BY <2>1, <2>2, SetObjectPropValid
  <2> QED
    BY <1>1, <1>2, <2>3 DEF SetObjectProp
<1>3. ASSUME NEW h, DeleteObject(h)
      PROVE  Valid(s', Exempt', {}, F)
  <2>1. StorageOfHandle(s, h) # NoStore
    BY <1>3 DEF DeleteObject
  <2>2. Valid(DeleteItem(s, h), Exempt, {}, F)
    BY <2>1, DeleteItemValid
  <2> QED
    BY <1>1, <1>3, <2>2 DEF DeleteObject
<1>4. ASSUME NEW h, NEW to \in AllStores, NEW parent, MoveObject(h, to, parent)
      PROVE  Valid(s', Exempt', {}, F)
  <2> DEFINE from == StorageOfHandle(s, h)
             H == Subtree(s, from, h)
  <2>1. from \in AllStores /\ h \in DOMAIN s.tree[from] /\ CanHold(s, to, parent) /\ edit' = edit
    BY <1>4, StorageFound DEF MoveObject, Has
  <2>2. \/ from = to /\ Change(CacheRemoveProp(MoveItem(s, to, h, parent), h, "parent"), FALSE)
        \/ /\ from # to /\ H \cap DOMAIN s.tree[to] = {}
           /\ Change(CacheRemoveProp(MoveAcross(s, from, to, h, parent), h, "parent"), FALSE)
        \/ /\ from # to
           /\ \E C \in SUBSET (H \ DOMAIN s.tree[to]) :
                 /\ \A k \in C : k = h \/ s.tree[from][k].parent \in C
                 /\ Change(MoveTorn(s, from, to, C, h, parent), TRUE)
    BY <1>4 DEF MoveObject
  <2> HIDE DEF from
  <2>3. CASE from = to /\ Change(CacheRemoveProp(MoveItem(s, to, h, parent), h, "parent"), FALSE)
    <3>1. Valid(CacheRemoveProp(MoveItem(s, to, h, parent), h, "parent"), Exempt, {}, F)
      BY <2>1, <2>3, MoveItemValid
    <3> QED
      BY <1>1, <2>1, <2>3, <3>1
  <2>4. CASE /\ from # to /\ H \cap DOMAIN s.tree[to] = {}
             /\ Change(CacheRemoveProp(MoveAcross(s, from, to, h, parent), h, "parent"), FALSE)
    <3>1. Valid(CacheRemoveProp(MoveAcross(s, from, to, h, parent), h, "parent"), Exempt, {}, F)
      BY <2>1, <2>4, MoveAcrossValid
    <3> QED
      BY <1>1, <2>1, <2>4, <3>1
  <2>5. CASE /\ from # to
             /\ \E C \in SUBSET (H \ DOMAIN s.tree[to]) :
                   /\ \A k \in C : k = h \/ s.tree[from][k].parent \in C
                   /\ Change(MoveTorn(s, from, to, C, h, parent), TRUE)
    <3>1. PICK C \in SUBSET (H \ DOMAIN s.tree[to]) :
                   /\ \A k \in C : k = h \/ s.tree[from][k].parent \in C
                   /\ Change(MoveTorn(s, from, to, C, h, parent), TRUE)
      BY <2>5
    <3>2. Valid(MoveTorn(s, from, to, C, h, parent), Exempt, {}, F)
      BY <2>1, <2>5, <3>1, MoveTornValid
    <3> QED
      BY <1>1, <2>1, <3>1, <3>2
  <2> QED
    BY <2>2, <2>3, <2>4, <2>5
<1>5. ASSUME NEW h, NEW to \in AllStores, NEW parent, NEW full \in BOOLEAN, CopyObject(h, to, parent, full)
      PROVE  Valid(s', Exempt', {}, F)
  <2> DEFINE from == StorageOfHandle(s, h)
             H == Subtree(s, from, h)
             t == Copies(s, from, to, H, h, parent)
             u == IF full THEN DeleteItem(t, NewHandle(s, H, h)) ELSE t
  <2>1. /\ from \in AllStores /\ h \in DOMAIN s.tree[from] /\ CanHold(s, to, parent) /\ edit' = edit
        /\ Change(u, full)
    BY <1>5, StorageFound DEF CopyObject, Has
  <2>2. H = Subtree(s, from, h)
    OBVIOUS
  <2> HIDE DEF from, H
  <2>3. Valid(t, Exempt, {}, F) /\ StorageOfHandle(t, NewHandle(s, H, h)) # NoStore
    BY <2>1, <2>2, CopiesValid
  <2> HIDE DEF t
  <2>4. Valid(DeleteItem(t, NewHandle(s, H, h)), Exempt, {}, F)
    BY <2>3, DeleteItemValid
  <2>5. Valid(u, Exempt, {}, F)
    BY <2>3, <2>4
  <2> HIDE DEF u
  <2> QED
    BY <1>1, <2>1, <2>5
<1>6. ASSUME NEW st \in AllStores, NEW parent, NEW name, SendObject(st, parent, name)
      PROVE  Valid(s', Exempt', {}, F)
  <2>1. CanHold(s, st, parent)
    BY <1>6 DEF SendObject
  <2>2. Valid([AddItem(s, st, parent, name) EXCEPT !.dirty = @ \cup {<<st, s.next>>}], Exempt, {}, F)
    BY <2>1, SendObjectValid
  <2> QED
    BY <1>1, <1>6, <2>2 DEF SendObject
<1>7. ASSUME DeleteAll
      PROVE  Valid(s', Exempt', {}, F)
  <2> DEFINE empty == [s EXCEPT !.tree = [st \in DOMAIN @ |-> <<>>], !.dirty = {}]
  <2>1. Valid(OutOfDate(Forget(empty, Live(s)), Live(s) \X Props), Exempt, {}, F)
    BY AllGone
  <2>2. Change(OutOfDate(Forget(empty, Live(s)), Live(s) \X Props), FALSE) /\ edit' = edit
    BY <1>7 DEF DeleteAll
  <2> HIDE DEF empty
  <2> QED
    BY <1>1, <2>1, <2>2
<1>8. ASSUME CloseSession
      PROVE  Valid(s', Exempt', {}, F)
  <2>1. edit' = edit /\ Answered(DisableObjectEvents(s))
    BY <1>8 DEF CloseSession
  <2>2. Valid(DisableObjectEvents(s), Exempt', {}, F)
    BY <2>1, DisableObjectEventsValid, SameExempt
  <2> QED
    BY <2>1, <2>2, AnsweredValid
<1> QED
  BY <1>2, <1>3, <1>4, <1>5, <1>6, <1>7, <1>8 DEF Host

LEMMA EditingKeeps ==
    ASSUME NEW F, Valid(s, Exempt, {}, F), Editing
    PROVE  Valid(s', Exempt', {}, F)
<1>1. ASSUME NEW h, BeginEditObject(h)
      PROVE  Valid(s', Exempt', {}, F)
  <2> DEFINE t == SetEventsEnabled(Forget(OutOfDate(s, {edit} \X {"content"}), {h}), h, FALSE)
  <2>1. Valid(t, {<<h, "content">>}, {}, F)
    BY BeginEditValid DEF Exempt
  <2>2. Answered(t) /\ edit' = h
    BY <1>1 DEF BeginEditObject
  <2> HIDE DEF t
  <2>3. Valid(t, Exempt', {}, F)
    BY <2>1, <2>2 DEF Exempt
  <2> QED
    BY <2>2, <2>3, AnsweredValid
<1>2. ASSUME EditObject
      PROVE  Valid(s', Exempt', {}, F)
  <2> DEFINE st == StorageOfHandle(s, edit)
             t == [Forget(s, {edit}) EXCEPT !.tree[st][edit].content = @ + 1,
                                            !.tree[st][edit].size = s.tree[st][edit].content + 1,
                                            !.dirty = @ \cup {<<st, edit>>}]
  <2>1. st \in AllStores /\ Has(s, st, edit) /\ Answered(t) /\ edit' = edit
    BY <1>2, StorageFound DEF EditObject
  <2> HIDE DEF st
  <2>2. Valid(t, {<<edit, "content">>}, {}, F)
    BY <2>1, EditValid DEF Exempt
  <2> HIDE DEF t
  <2>3. Valid(t, Exempt', {}, F)
    BY <2>1, <2>2 DEF Exempt
  <2> QED
    BY <2>1, <2>3, AnsweredValid
<1>3. ASSUME EndEditObject
      PROVE  Valid(s', Exempt', {}, F)
  <2> DEFINE t == IF StorageOfHandle(s, edit) = NoStore THEN CacheRemove(s, edit) ELSE Ask(EndEdit(s, edit), edit)
  <2>1. Valid(t, {<<Root, "content">>}, {}, F)
    BY EndEditValid DEF Exempt
  <2>2. Answered(t) /\ edit' = Root
    BY <1>3 DEF EndEditObject
  <2> HIDE DEF t
  <2>3. Valid(t, Exempt', {}, F)
    BY <2>1, <2>2 DEF Exempt
  <2> QED
    BY <2>2, <2>3, AnsweredValid
<1> QED
  BY <1>1, <1>2, <1>3 DEF Editing

LEMMA UserKeeps ==
    ASSUME NEW F, Valid(s, Exempt, {}, F), DeviceUser
    PROVE  Valid(s', Exempt', {}, F)
<1>1. ASSUME NEW t, User(t), Valid(t, Exempt, {}, F) PROVE Valid(s', Exempt', {}, F)
  BY <1>1, SameExempt DEF User
<1>2. ASSUME NEW st \in AllStores, NEW h, UserWrites(st, h) PROVE Valid(s', Exempt', {}, F)
  <2>1. h \in DOMAIN s.tree[st]
    BY <1>2 DEF UserWrites, Has
  <2>2. Valid(Changed([s EXCEPT !.tree[st][h].content = @ + 1, !.dirty = @ \cup {<<st, h>>}], {h}), Exempt, {}, F)
    BY <2>1, UserWritesValid
  <2> QED
    BY <1>1, <1>2, <2>2 DEF UserWrites
<1>3. ASSUME NEW st \in AllStores, NEW h, UserDeletes(st, h) PROVE Valid(s', Exempt', {}, F)
  <2> DEFINE H == Subtree(s, st, h)
  <2>1. h \in DOMAIN s.tree[st]
    BY <1>3 DEF UserDeletes, Has
  <2>2. PICK order \in BottomUp(s, st, H) : User(Changed(EmitAll(RemoveItems(s, st, H), "removed", order), H))
    BY <1>3 DEF UserDeletes
  <2>3. H = Subtree(s, st, h)
    OBVIOUS
  <2> HIDE DEF H
  <2>4. Valid(Changed(EmitAll(RemoveItems(s, st, H), "removed", order), H), Exempt, {}, F)
    BY <2>1, <2>3, UserDeletesValid
  <2> QED
    BY <1>1, <2>2, <2>4
<1>4. ASSUME NEW st \in AllStores, NEW h, NEW name, UserRenames(st, h, name) PROVE Valid(s', Exempt', {}, F)
  <2> DEFINE t == Changed(FSMove([s EXCEPT !.tree[st][h].name = name], st, h), {h})
  <2>1. h \in DOMAIN s.tree[st] /\ User(t)
    BY <1>4 DEF UserRenames, Has
  <2>2. Valid(t, Exempt, {}, F)
    BY <2>1, UserRenamesValid
  <2> HIDE DEF t
  <2> QED
    BY <1>1, <2>1, <2>2
<1>5. ASSUME NEW st \in AllStores, NEW h, NEW parent, UserMoves(st, h, parent) PROVE Valid(s', Exempt', {}, F)
  <2> DEFINE from == s.tree[st][h].parent
             heirs == {parent} \cap {k \in DOMAIN s.tree[st] : from # Root /\ s.tree[st][from].on}
             t == Changed(FSMove(Interested([s EXCEPT !.tree[st][h].parent = parent], st, heirs), st, h), {h})
  <2>1. h \in DOMAIN s.tree[st] /\ CanHold(s, st, parent) /\ User(t)
    BY <1>5 DEF UserMoves, Has
  <2> HIDE DEF heirs
  <2>2. Valid(t, Exempt, {}, F)
    BY <2>1, UserMovesValid
  <2> HIDE DEF t
  <2> QED
    BY <1>1, <2>1, <2>2
<1>6. ASSUME NEW st \in AllStores, NEW parent, NEW name, UserCreates(st, parent, name) PROVE Valid(s', Exempt', {}, F)
  <2>1. CanHold(s, st, parent)
    BY <1>6 DEF UserCreates
  <2>2. Valid(Emit(PopulateObjectInfo(AddItem(s, st, parent, name), st, s.next), "added", s.next), Exempt, {}, F)
    BY <2>1, UserCreatesValid
  <2> QED
    BY <1>1, <1>6, <2>2 DEF UserCreates
<1> QED
  BY <1>2, <1>3, <1>4, <1>5, <1>6 DEF DeviceUser

\* All of the event loop but the timers of the thumbnailers
LEMMA LoopKeeps ==
    ASSUME NEW F, Valid(s, Exempt, {}, F), Loop
    PROVE  Valid(s', Exempt', {}, F) \/ \E st \in AllStores : ThumbnailTimer(st)
<1>1. ASSUME HandleStorageEvent PROVE Valid(s', Exempt', {}, F)
  <2>1. s.events # <<>> /\ edit' = edit
    BY <1>1 DEF HandleStorageEvent
  <2>2. Valid(s', Exempt, {}, F)
    BY <1>1, <2>1, HandleEventValid DEF HandleStorageEvent
  <2> QED
    BY <2>1, <2>2, SameExempt
<1>2. ASSUME Idle PROVE Valid(s', Exempt', {}, F)
  <2>1. Valid(Thumbs(s, ResumeThumbnailing), Exempt, {}, F)
    BY ResumeValid
  <2>2. s' = Thumbs(s, ResumeThumbnailing) /\ edit' = edit
    BY <1>2 DEF Idle
  <2> QED
    BY <2>1, <2>2, SameExempt
<1>3. ASSUME NEW st \in AllStores, NEW h, FSModify(st, h) PROVE Valid(s', Exempt', {}, F)
  <2> DEFINE u == PopulateObjectInfo([s EXCEPT !.dirty = @ \ {<<st, h>>}], st, h)
  <2>1. <<st, h>> \in s.dirty
    BY <1>3 DEF FSModify
  <2>2. Valid(IF s.tree[st][h].size # s.tree[st][h].content THEN Emit(u, "info", h) ELSE u, Exempt, {}, F)
    BY <2>1, FSModifyValid
  <2>3. s' = (IF s.tree[st][h].size # s.tree[st][h].content THEN Emit(u, "info", h) ELSE u) /\ edit' = edit
    BY <1>3 DEF FSModify, FSModifyTells
  <2> HIDE DEF u
  <2> QED
    BY <2>2, <2>3, SameExempt
<1>4. ASSUME NEW st \in AllStores, NEW f, ThumbnailReady(st, f) PROVE Valid(s', Exempt', {}, F)
  <2> DEFINE t == [s EXCEPT !.thumb[st] = SlotReady(@, f)]
  <2>1. s' = (IF Expected(s.thumb[st], f) THEN ReceiveThumbnail(t, st, f) ELSE t) /\ edit' = edit
    BY <1>4 DEF ThumbnailReady
  <2>2. Valid(ReceiveThumbnail(t, st, f), Exempt, {}, F)
    BY ReceiveValid
  <2>3. ASSUME ~Expected(s.thumb[st], f) PROVE Valid(t, Exempt, {}, F)
    <3> DEFINE th == SlotReady(s.thumb[st], f)
    <3>1. ThumbGood(s.thumb[st], F[st])
      BY FieldsOf DEF ThumbsGood
    <3>2. ThumbGood(th, F[st]) /\ th.requested = s.thumb[st].requested
      BY <2>3, <3>1, SlotGood
    <3> HIDE DEF th
    <3>3. Valid([s EXCEPT !.thumb[st] = th], Exempt, {}, F)
      BY <3>2, SlotValid
    <3> QED
      BY <3>3 DEF th
  <2> HIDE DEF t
  <2> QED
    BY <2>1, <2>2, <2>3, SameExempt
<1>5. ASSUME NEW st \in AllStores, NEW f, ThumbnailFailed(st, f) PROVE Valid(s', Exempt', {}, F)
  <2> DEFINE th == SlotFailed(s.thumb[st], f)
  <2>1. ThumbGood(s.thumb[st], F[st])
    BY FieldsOf DEF ThumbsGood
  <2>2. ThumbGood(th, F[st]) /\ th.requested = s.thumb[st].requested
    BY <2>1, SlotGood
  <2>3. s' = [s EXCEPT !.thumb[st] = th] /\ edit' = edit
    BY <1>5 DEF ThumbnailFailed
  <2> HIDE DEF th
  <2>4. Valid([s EXCEPT !.thumb[st] = th], Exempt, {}, F)
    BY <2>2, SlotValid
  <2> QED
    BY <2>3, <2>4, SameExempt
<1> QED
  BY <1>1, <1>2, <1>3, <1>4, <1>5 DEF Loop

LEMMA StutterKeeps ==
    ASSUME NEW F, Valid(s, Exempt, {}, F), OpenSession \/ UNCHANGED vars
    PROVE  Valid(s', Exempt', {}, F)
<1>1. CASE OpenSession
  <2>1. edit' = edit /\ Answered(s)
    BY <1>1 DEF OpenSession
  <2>2. Valid(s, Exempt', {}, F)
    BY <2>1, SameExempt
  <2> QED
    BY <2>1, <2>2, AnsweredValid
<1>2. CASE UNCHANGED vars
  BY <1>2, SameExempt DEF vars
<1> QED
  BY <1>1, <1>2

LEMMA StepKeeps ==
    ASSUME NEW F, Valid(s, Exempt, {}, F), [Next]_vars
    PROVE  Valid(s', Exempt', {}, F) \/ \E st \in AllStores : ThumbnailTimer(st)
  BY QueryKeeps, HostKeeps, EditingKeeps, UserKeeps, LoopKeeps, StutterKeeps DEF Next

\* Files under way are known again after each step.
LEMMA Refit ==
    ASSUME NEW t, NEW X, NEW U, NEW F, Valid(t, X, U, F)
    PROVE  \E G : (\A st \in AllStores : G[st] = t.thumb[st].fetching) /\ Valid(t, X, U, G)
<1> DEFINE G == [st \in AllStores |-> t.thumb[st].fetching]
<1>1. \A st \in AllStores : G[st] = t.thumb[st].fetching
  OBVIOUS
<1> HIDE DEF G
<1>2. ThumbsGood(t, G)
  BY <1>1 DEF Valid, Sound, ThumbsGood, ThumbGood
<1>3. Valid(t, X, U, G)
  BY <1>2 DEF Valid, Sound
<1> QED
  BY <1>1, <1>3

LEMMA InitIInv == Init => IInv
<1> SUFFICES ASSUME Init PROVE IInv
  OBVIOUS
<1> DEFINE tree == [st \in AllStores |-> [h \in DOMAIN AtFirst[st] |->
                        NewItem(AtFirst[st][h].parent, AtFirst[st][h].dir, AtFirst[st][h].name)]]
           All == UNION {DOMAIN AtFirst[st] : st \in AllStores}
           F == [st \in AllStores |-> {}]
           th == EnableThumbnailing(NewThumbnailer)
<1>1. /\ DOMAIN s = Fields /\ s.tree = tree /\ s.dirty = {} /\ s.events = <<>> /\ s.cache = <<>>
      /\ s.stale = {} /\ s.torn = {} /\ s.asked = {} /\ s.untold = {}
      /\ s.next = 1 + Cardinality(UNION {DOMAIN tree[st] : st \in AllStores})
      /\ DOMAIN s.thumb = AllStores
      /\ \A st \in AllStores : \E f : s.thumb[st] = RequestThumbnails(th, f)
  BY DEF Init, Fields
<1>2. /\ DOMAIN tree = AllStores
      /\ \A st \in AllStores :
            /\ DOMAIN tree[st] = DOMAIN AtFirst[st]
            /\ \A h \in DOMAIN tree[st] :
                  tree[st][h] = NewItem(AtFirst[st][h].parent, AtFirst[st][h].dir, AtFirst[st][h].name)
  OBVIOUS
<1> HIDE DEF tree
<1>3. UNION {DOMAIN tree[st] : st \in AllStores} = All
  BY <1>2
<1>4. Cardinality(All) \in Nat /\ All = 1 .. Cardinality(All)
  BY AtFirstAssumption, FS_CardinalityType
<1>5. \A st \in AllStores : DOMAIN tree[st] \subseteq All
  BY <1>2
<1> HIDE DEF All
<1>6. s.next \in Nat \ {0} /\ All \subseteq 1 .. s.next - 1
  <2> DEFINE n == Cardinality(All)
  <2>1. s.next = 1 + n
    BY <1>1, <1>3
  <2>2. n \in Nat /\ All = 1 .. n
    BY <1>4
  <2> HIDE DEF n
  <2>3. s.next \in Nat \ {0} /\ s.next - 1 = n
    BY <2>1, <2>2
  <2> QED
    BY <2>2, <2>3
<1>7. RecordGood(s)
  BY <1>1, <1>2, <1>6 DEF RecordGood
<1>8. ItemsGood(s)
  <2> SUFFICES ASSUME NEW st \in AllStores, NEW h \in DOMAIN tree[st]
               PROVE  h \in 1 .. s.next - 1 /\ ItemGood(tree[st][h], DOMAIN tree[st])
    BY <1>1 DEF ItemsGood
  <2>1. AtFirst[st][h].parent \in DOMAIN tree[st] \cup {Root}
    BY <1>2, AtFirstAssumption
  <2>2. ItemGood(tree[st][h], DOMAIN tree[st])
    <3> DEFINE i == tree[st][h]
    <3>1. i = NewItem(AtFirst[st][h].parent, AtFirst[st][h].dir, AtFirst[st][h].name)
      BY <1>2
    <3> HIDE DEF i
    <3>2. /\ DOMAIN i = ItemFields /\ i.parent = AtFirst[st][h].parent /\ i.on = FALSE
          /\ i.size = 1 /\ i.content = 1
      BY <3>1 DEF NewItem, ItemFields
    <3>3. i.parent \in DOMAIN tree[st] \cup {Root} /\ i.on \in BOOLEAN
      BY <2>1, <3>2
    <3>4. i.size \in Nat /\ i.content \in Nat /\ i.size <= i.content
      BY <3>2
    <3>5. ItemGood(i, DOMAIN tree[st])
      BY <3>2, <3>3, <3>4 DEF ItemGood
    <3> QED
      BY <3>5 DEF i
  <2> QED
    BY <1>5, <1>6, <2>2
<1>9. InOneStore(s)
  BY <1>1, <1>2, AtFirstAssumption DEF InOneStore
<1>10. DirtyGood(s) /\ EventsGood(s) /\ CacheGood(s) /\ AskedGood(s) /\ AskedNoted(s)
  BY <1>1 DEF DirtyGood, EventsGood, CacheGood, AskedGood, AskedNoted
<1>11. ThumbsGood(s, F)
  <2> SUFFICES ASSUME NEW st \in AllStores PROVE ThumbGood(s.thumb[st], {})
    BY DEF ThumbsGood
  <2>1. ThumbGood(th, {})
    BY DEF ThumbGood, ThumbFields, EnableThumbnailing, NewThumbnailer, ScheduleThumbnailing
  <2>2. PICK f : s.thumb[st] = RequestThumbnails(th, f)
    BY <1>1
  <2> HIDE DEF th
  <2> QED
    BY <2>1, <2>2, RequestGood
<1>12. EntriesTrue(s, Exempt) /\ ChangesWait(s, {})
  BY <1>1 DEF EntriesTrue, ChangesWait
<1>13. Valid(s, Exempt, {}, F)
  BY <1>7, <1>8, <1>9, <1>10, <1>11, <1>12 DEF Valid, Sound
<1> QED
  BY <1>13, Refit DEF IInv

LEMMA StepIInv == IInv /\ [Next]_vars => IInv'
<1> SUFFICES ASSUME IInv, [Next]_vars PROVE IInv'
  OBVIOUS
<1>1. PICK F : (\A st \in AllStores : F[st] = s.thumb[st].fetching) /\ Valid(s, Exempt, {}, F)
  BY DEF IInv
<1> DEFINE X == Exempt'
<1>2. CASE Valid(s', X, {}, F)
  <2> HIDE DEF X
  <2>1. \E G : (\A st \in AllStores : G[st] = s'.thumb[st].fetching) /\ Valid(s', X, {}, G)
    BY <1>2, Refit
  <2> QED
    BY <2>1 DEF IInv, X
<1>3. CASE \E st \in AllStores : ThumbnailTimer(st)
  <2>1. PICK st \in AllStores : ThumbnailTimer(st)
    BY <1>3
  <2>2. s.thumb[st].timer /\ s' = [s EXCEPT !.thumb[st] = ThumbnailDelayTimeout(@)] /\ X = Exempt
    BY <2>1, SameExempt DEF ThumbnailTimer
  <2> HIDE DEF X
  <2>3. \E G : (\A x \in AllStores : G[x] = s'.thumb[x].fetching) /\ Valid(s', X, {}, G)
    BY <1>1, <2>2, ThumbnailTimerValid
  <2> QED
    BY <2>3 DEF IInv, X
<1> QED
  BY <1>1, <1>2, <1>3, StepKeeps

-----------------------------------------------------------------------------
(* Theorems.                                                               *)

\* Of each entry of the cache that is not true a notification is under way, and
\* of each change of an object asked about one that will not be filtered, always.
THEOREM Inductive == Spec => []IInv
  BY InitIInv, StepIInv, PTL DEF Spec

LEMMA IInvCacheTruthful == IInv => CacheTruthful
<1> SUFFICES ASSUME IInv, Quiet, NEW h \in DOMAIN s.cache \ s.torn, NEW p \in DOMAIN s.cache[h],
                    <<h, p>> \notin s.stale, ~(h = edit /\ p = "content")
             PROVE  Truth(h, p, s.cache[h][p])
  BY DEF CacheTruthful
<1>1. PICK F : Valid(s, Exempt, {}, F)
  BY DEF IInv
<1>2. EntriesTrue(s, Exempt) /\ InOneStore(s)
  BY <1>1, FieldsOf
<1>3. EntryTrue(s, Exempt, h, p)
  BY <1>2 DEF EntriesTrue
<1>4. ~Drops(s, h, p)
  BY DEF Drops, Quiet
<1>5. <<h, p>> \notin Exempt
  BY DEF Exempt
<1>6. PICK st \in AllStores : TrueIn(s, st, h, p, s.cache[h][p])
  BY <1>3, <1>4, <1>5 DEF EntryTrue
<1>7. StorageOfHandle(s, h) = st /\ st # NoStore
  BY <1>2, <1>6, StorageUnique DEF TrueIn
<1> QED
  BY <1>6, <1>7 DEF TrueIn, Truth

\* CacheTruthful, for any storages and objects, and whatever fails on the way:
\* what StorageFactory answers from its cache is what the storage would give,
\* once onStorageEvent() has handled what the plugin has told.
THEOREM CacheAlwaysTruthful == Spec => []CacheTruthful
  BY Inductive, IInvCacheTruthful, PTL

LEMMA IInvChangesTold == IInv => ChangesTold
<1> SUFFICES ASSUME IInv, Quiet, NEW h \in s.untold, h \notin s.torn PROVE FALSE
  BY DEF ChangesTold
<1>1. PICK F : Valid(s, Exempt, {}, F)
  BY DEF IInv
<1>2. ChangesWait(s, {})
  BY <1>1, FieldsOf
<1>3. ChangeWaits(s, h)
  BY <1>2 DEF ChangesWait
<1> QED
  BY <1>3 DEF ChangeWaits, Drops, Quiet

\* ChangesTold, likewise: the filter of dispatchEvent() by m_eventsEnabled holds
\* back no change of an object the initiator has been answered about.
THEOREM ChangesAlwaysTold == Spec => []ChangesTold
  BY Inductive, IInvChangesTold, PTL

LEMMA StepNoFetch ==
    ASSUME IInv, [Next]_vars, NEW st \in AllStores, s.thumb[st].suspended
    PROVE  s'.thumb[st].fetching \subseteq s.thumb[st].fetching
<1>1. PICK F : (\A x \in AllStores : F[x] = s.thumb[x].fetching) /\ Valid(s, Exempt, {}, F)
  BY DEF IInv
<1>2. CASE Valid(s', Exempt', {}, F)
  <2> DEFINE X == Exempt'
  <2>1. Valid(s', X, {}, F)
    BY <1>2
  <2> HIDE DEF X
  <2>2. ThumbsGood(s', F)
    BY <2>1, FieldsOf
  <2> QED
    BY <1>1, <2>2 DEF ThumbsGood, ThumbGood
<1>3. CASE \E x \in AllStores : ThumbnailTimer(x)
  <2>1. PICK x \in AllStores : ThumbnailTimer(x)
    BY <1>3
  <2>2. s.thumb[x].timer /\ s' = [s EXCEPT !.thumb[x] = ThumbnailDelayTimeout(@)]
    BY <2>1 DEF ThumbnailTimer
  <2>3. DOMAIN s = Fields /\ DOMAIN s.thumb = AllStores /\ ThumbsGood(s, F)
    BY <1>1, FieldsOf
  <2>4. st # x
    BY <2>2, <2>3 DEF ThumbsGood, ThumbGood
  <2>5. s'.thumb[st] = s.thumb[st]
    BY <2>2, <2>3, <2>4 DEF Fields
  <2> QED
    BY <2>5
<1> QED
  BY <1>1, <1>2, <1>3, StepKeeps

\* NoFetchAtWork, likewise: a Thumbnailer suspended while the responder is at
\* work hands no file to the service, whichever of its methods is called.
THEOREM NeverFetchesAtWork == Spec => NoFetchAtWork
<1>1. IInv /\ [Next]_vars =>
         [\A st \in AllStores : s.thumb[st].suspended => s'.thumb[st].fetching \subseteq s.thumb[st].fetching]_vars
  BY StepNoFetch
<1> QED
  BY <1>1, Inductive, PTL DEF Spec, NoFetchAtWork
=============================================================================
