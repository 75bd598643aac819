--------------------------- MODULE NvsBlobProofs ---------------------------
(***************************************************************************)
(* Proofs about NvsBlob, for every number of pages and entries and every   *)
(* set of keys and blobs: between calls every chunk is counted by an index *)
(* and every index has its chunks, no page is overfilled, and the blobs    *)
(* implement the abstract key store, but for the blob a mount may forget   *)
(* (Forgotten). All but the pages excepts the time between a write given   *)
(* up in the middle and the next clean mount.                              *)
(***************************************************************************)
EXTENDS NvsBlob, FiniteSetTheorems, SequenceTheorems, WellFoundedInduction, TLAPS

-----------------------------------------------------------------------------
(* Pages and calls.                                                        *)

Unit == UNION {{v[i] : i \in DOMAIN v} : v \in Values}
Item ==
  [kind : {"index"}, key : Keys, ver : Version, count : Nat, size : Nat]
    \cup [kind : {"data"}, key : Keys, ver : Version, index : Nat, data : Seq(Unit)]
PageType ==
  [st : {"uninit", "active", "full", "freeing"}, seq : Nat, items : Seq(Item), used : Nat, next : Nat,
   live : BOOLEAN]
Locals ==
  [ver : Version, off : Nat, pages : Seq(Page), prev : Version \cup {-1}, tail : Nat \cup {-1},
   count : Nat, i : Nat]

Mount   == {"off", "load", "list", "dup", "recover", "match", "orphan", "failed"}
WritePcs == {"chunk", "close", "new_page"}
Moves   == {"copy", "reclaim"}
Late    == {"old_index", "old_chunks"}
Steps   == Mount \cup WritePcs \cup Moves \cup Late \cup {"idle", "find", "return", "cleanup", "purge"}

FlashOK == flash \in [Page -> PageType]
TypeOK ==
  /\ FlashOK
  /\ pc \in Steps
  /\ cur \in 0 .. PageCount /\ free \in Seq(Page) /\ nextSeq \in Nat /\ gc \in 0 .. PageCount
  /\ op \in Requests \cup {NoRequest} \cup {ReadRequest(k) : k \in Keys}
  /\ loc \in Locals /\ res \in Results /\ gaveUp \in BOOLEAN

\* What a page counts is what is on it.
Filled ==
  \A p \in Page :
    /\ StateOf(p) = "uninit" => flash[p] = ErasedPage
    /\ flash[p].used = Entries(Items(p))
    /\ flash[p].used <= NextFree(p) /\ NextFree(p) <= EntryCount
    /\ \A i \in DOMAIN Items(p) : Span(Items(p)[i]) <= EntryCount

Ordered ==
  /\ \A p, q \in InUse : flash[p].seq = flash[q].seq => p = q
  /\ \A p, q \in InUse : StateOf(p) = "active" => flash[q].seq <= flash[p].seq
  /\ \A p, q \in Freeing : p = q

Mounted == pc \notin {"off", "load", "list"}

Listing ==
  Mounted =>
    /\ cur \in Page /\ nextSeq >= 1
    /\ \A p \in InUse : flash[p].seq < nextSeq /\ (p # cur => flash[p].seq < nextSeq - 1)
    /\ cur \in InUse => flash[cur].seq = nextSeq - 1
    /\ \A p \in Page : StateOf(p) = "active" => p = cur
    /\ \A i \in DOMAIN free : StateOf(free[i]) = "uninit" /\ (pc # "copy" => free[i] # cur)
    /\ \A i, j \in DOMAIN free : free[i] = free[j] => i = j

MoveKnown ==
  /\ pc \in {"dup", "recover"} => cur \in InUse
  /\ Mounted /\ pc \notin {"dup", "recover"} \cup Moves => Freeing = {}
  /\ pc \in Moves => gc \in Freeing
  /\ pc \in {"copy", "new_page"} => \A p \in Page : StateOf(p) # "active"
  /\ pc = "reclaim" => Items(cur) = Items(gc) /\ StateOf(cur) \in {"uninit", "active"}
  /\ pc \in {"close", "new_page"} => cur \in InUse
  /\ pc = "failed" => Freeing = {}

Room ==
  /\ pc = "chunk" /\ Count > 0 => StateOf(cur) # "full" /\ NextFree(cur) < EntryCount
  /\ pc = "copy" /\ op # NoRequest => Unused(gc) > 0
  /\ pc = "reclaim" /\ op # NoRequest => NextFree(cur) < EntryCount

Called ==
  /\ pc \in Mount \cup {"idle"} => op = NoRequest
  /\ pc \in Mount \cup {"idle", "find"} => loc = NoLocals
  /\ pc = "find" => op \in Requests
  /\ pc \in WritePcs \cup {"return", "cleanup"} => op.kind = "write"
  /\ pc \in Moves => (op = NoRequest /\ loc = NoLocals) \/ op.kind = "write"
  /\ pc \in Late => op.kind \in {"write", "erase"} /\ loc.prev # -1
  /\ pc = "purge" => op.kind = "read"
  /\ pc \in WritePcs \cup Moves /\ op.kind = "write" =>
       loc.off <= Len(op.val) /\ (loc.prev # -1 => loc.prev # loc.ver)

PagesInv == TypeOK /\ Filled /\ Ordered /\ Listing /\ MoveKnown /\ Room /\ Called

-----------------------------------------------------------------------------
(* Blobs, while no write was given up.                                     *)

\* A page begun for one that is being freed holds copies.
RealPlaces == {a \in Places : StateOf(a[1]) = "active" => Freeing = {}}
Stored == {At(a) : a \in RealPlaces}
IndexesIn == {x \in Stored : x.kind = "index"}
ChunksIn  == {x \in Stored : x.kind = "data"}

SameItem(x, y) ==
  x.kind = y.kind /\ x.key = y.key /\ x.ver = y.ver /\ (x.kind = "data" => x.index = y.index)
Distinct == \A a, b \in RealPlaces : SameItem(At(a), At(b)) => a = b

Copies ==
  \A g, p \in Page : StateOf(g) = "freeing" /\ StateOf(p) = "active" =>
    /\ \A i \in DOMAIN Items(p) : \E j \in DOMAIN Items(g) : Items(p)[i] = Items(g)[j]
    /\ \A i, j \in DOMAIN Items(p) : SameItem(Items(p)[i], Items(p)[j]) => i = j

IsLast(a) == StateOf(a[1]) = "active" /\ a[2] = Len(Items(a[1]))
PairAllowed(a, b) ==
  /\ pc \in {"off", "load", "list", "dup", "old_index"} /\ Freeing = {}
  /\ IsLast(a) \/ IsLast(b)
  /\ pc \in {"list", "dup"} => a[1] # b[1]
  /\ pc = "old_index" => op.kind = "write" /\ At(a).key = op.key
Pairs ==
  \A a, b \in RealPlaces :
    At(a).kind = "index" /\ At(b).kind = "index" /\ At(a).key = At(b).key => a = b \/ PairAllowed(a, b)

OfBlob(y, k, v) == y.kind = "data" /\ y.key = k /\ y.ver = v
Sized(k, v, n, size) ==
  \E s \in [0 .. n -> 0 .. size] :
    /\ s[0] = 0 /\ s[n] = size
    /\ \A y \in Stored : OfBlob(y, k, v) /\ y.index < n => Len(y.data) = s[y.index + 1] - s[y.index]
All(k, v, from, to) == \A i \in from .. to - 1 : \E y \in Stored : OfBlob(y, k, v) /\ y.index = i

\* The chunks below n put together are the first size units of d.
Spells(k, v, n, size, d) ==
  \E s \in [0 .. n -> 0 .. size] :
    /\ s[0] = 0 /\ s[n] = size
    /\ \A y \in Stored : OfBlob(y, k, v) /\ y.index < n =>
         /\ Len(y.data) = s[y.index + 1] - s[y.index]
         /\ \A j \in 1 .. Len(y.data) : y.data[j] = d[s[y.index] + j]
Holds(x, d) ==
  /\ d \in Seq(Unit) /\ Len(d) = x.size
  /\ All(x.key, x.ver, 0, x.count) /\ Spells(x.key, x.ver, x.count, x.size, d)

Counts == \A x \in IndexesIn, y \in ChunksIn : OfBlob(y, x.key, x.ver) => y.index < x.count
Sizes  == \A x \in IndexesIn : Sized(x.key, x.ver, x.count, x.size)

Unchecked == pc \in {"off", "load", "list", "dup", "recover", "match", "failed"} \/ (pc \in Moves /\ op = NoRequest)
Emptied(x) == pc = "find" /\ op.kind = "erase_all" /\ NsOf[x.key] = op.ns
Storing == pc \in WritePcs \cup Moves /\ op.kind = "write"

Whole ==
  \A x \in IndexesIn : Unchecked \/ Emptied(x) \/ All(x.key, x.ver, 0, x.count)
Owned ==
  \A y \in ChunksIn :
    \/ Unchecked \/ pc = "orphan" \/ Emptied(y)
    \/ Storing /\ OfBlob(y, op.key, loc.ver)
    \/ pc = "old_chunks" /\ OfBlob(y, op.key, loc.prev)
    \/ \E x \in IndexesIn : OfBlob(y, x.key, x.ver)

Begun ==
  Storing =>
    /\ \A x \in IndexesIn : x.key = op.key => x.ver = loc.prev
    /\ \A y \in ChunksIn : OfBlob(y, op.key, loc.ver) => y.index < Count
    /\ All(op.key, loc.ver, 0, Count)
    /\ Sized(op.key, loc.ver, Count, loc.off)
Ended ==
  pc = "old_chunks" =>
    /\ loc.i <= loc.count
    /\ \A x \in IndexesIn : x.key = op.key => x.ver # loc.prev
    /\ \A y \in ChunksIn : OfBlob(y, op.key, loc.prev) => loc.i <= y.index /\ y.index < loc.count
    /\ All(op.key, loc.prev, loc.i, loc.count)
Untouched == pc \notin {"cleanup", "purge"}

BlobsInv ==
  /\ Distinct /\ Copies /\ Pairs /\ Counts /\ Sizes /\ Whole /\ Owned /\ Begun /\ Ended /\ Untouched

IInv == PagesInv /\ (~gaveUp => BlobsInv)

-----------------------------------------------------------------------------
(* Least elements.                                                         *)

LEMMA LeastNatural ==
  ASSUME NEW T, T \subseteq Nat, T # {}
  PROVE  \E x \in T : \A y \in T : x <= y
<1>1. PICK x \in T : \A y \in T : ~ (<<y, x>> \in OpToRel(<, Nat))
  BY WFMin, NatLessThanWellFounded, Zenon
<1>2. ASSUME NEW y \in T PROVE x <= y
  <2>1. x \in Nat /\ y \in Nat
    OBVIOUS
  <2>2. <<y, x>> \in Nat \X Nat /\ <<y, x>>[1] = y /\ <<y, x>>[2] = x
    BY <2>1
  <2>3. y < x => <<y, x>> \in OpToRel(<, Nat)
    BY <2>2 DEF OpToRel
  <2>4. ~ (y < x)
    BY <1>1, <2>3
  <2> QED BY <2>1, <2>4
<1> QED BY <1>2

LEMMA GreatestNatural ==
  ASSUME NEW T, T \subseteq Nat, T # {}, NEW b \in Nat, \A x \in T : x <= b
  PROVE  \E x \in T : \A y \in T : y <= x
<1> DEFINE D == {b - x : x \in T}
<1>0. \A x \in T : x \in Nat /\ b - x \in Nat
  OBVIOUS
<1>1. D \subseteq Nat /\ D # {}
  BY <1>0
<1>2. PICK d \in D : \A e \in D : d <= e
  BY <1>1, LeastNatural
<1>3. PICK x \in T : d = b - x
  OBVIOUS
<1>4. ASSUME NEW y \in T PROVE y <= x
  <2>1. b - x <= b - y
    BY <1>2, <1>3
  <2> QED BY <2>1
<1> QED BY <1>4

-----------------------------------------------------------------------------
(* Sequences: an element less, an element more.                            *)

\* What stands at j once the element at i is gone stood here.
Was(i, j) == IF j < i THEN j ELSE j + 1

LEMMA RemoveAtFacts ==
  ASSUME NEW S, NEW s \in Seq(S), NEW i \in DOMAIN s
  PROVE  /\ RemoveAt(s, i) \in Seq(S)
         /\ DOMAIN RemoveAt(s, i) = 1 .. Len(s) - 1 /\ Len(RemoveAt(s, i)) = Len(s) - 1
         /\ \A j \in 1 .. Len(s) - 1 : RemoveAt(s, i)[j] = s[Was(i, j)]
<1>1. i \in Nat /\ 1 <= i /\ i <= Len(s) /\ Len(s) \in Nat
  OBVIOUS
<1>2. SubSeq(s, 1, i - 1) \in Seq(S) /\ Len(SubSeq(s, 1, i - 1)) = i - 1
      /\ \A j \in 1 .. i - 1 : SubSeq(s, 1, i - 1)[j] = s[j]
  BY <1>1
<1>3. SubSeq(s, i + 1, Len(s)) \in Seq(S) /\ Len(SubSeq(s, i + 1, Len(s))) = Len(s) - i
      /\ \A j \in 1 .. Len(s) - i : SubSeq(s, i + 1, Len(s))[j] = s[i + j]
  BY <1>1
<1> DEFINE a == SubSeq(s, 1, i - 1)
           b == SubSeq(s, i + 1, Len(s))
<1>4. RemoveAt(s, i) = a \o b
  BY DEF RemoveAt
<1> HIDE DEF a, b
<1>A. a \in Seq(S) /\ Len(a) = i - 1 /\ \A j \in 1 .. i - 1 : a[j] = s[j]
  BY <1>2 DEF a
<1>B. b \in Seq(S) /\ Len(b) = Len(s) - i /\ \A j \in 1 .. Len(s) - i : b[j] = s[i + j]
  BY <1>3 DEF b
<1>C. a \o b \in Seq(S) /\ Len(a \o b) = Len(a) + Len(b)
      /\ \A j \in 1 .. Len(a) + Len(b) : (a \o b)[j] = IF j <= Len(a) THEN a[j] ELSE b[j - Len(a)]
  BY <1>A, <1>B, ConcatProperties
<1>5. a \o b \in Seq(S) /\ Len(a \o b) = Len(s) - 1
  BY <1>1, <1>A, <1>B, <1>C
<1>6. ASSUME NEW j \in 1 .. Len(s) - 1 PROVE (a \o b)[j] = s[Was(i, j)]
  <2>1. j \in Nat /\ j \in 1 .. Len(a) + Len(b) /\ Len(a) = i - 1
    BY <1>1, <1>A, <1>B
  <2>2. (a \o b)[j] = IF j <= Len(a) THEN a[j] ELSE b[j - Len(a)]
    BY <1>C, <2>1
  <2>3. CASE j < i
    <3>1. j \in 1 .. i - 1 /\ j <= Len(a)
      BY <1>1, <2>1, <2>3
    <3> QED BY <1>A, <2>2, <2>3, <3>1 DEF Was
  <2>4. CASE ~(j < i)
    <3>1. ~(j <= Len(a)) /\ j - Len(a) \in 1 .. Len(s) - i /\ i + (j - Len(a)) = j + 1
      BY <1>1, <2>1, <2>4
    <3> QED BY <1>B, <2>2, <2>4, <3>1 DEF Was
  <2> QED BY <2>3, <2>4
<1> QED BY <1>4, <1>5, <1>6, LenProperties

LEMMA AppendFacts ==
  ASSUME NEW S, NEW s \in Seq(S), NEW x \in S
  PROVE  /\ Append(s, x) \in Seq(S)
         /\ DOMAIN Append(s, x) = 1 .. Len(s) + 1 /\ Len(Append(s, x)) = Len(s) + 1
         /\ Append(s, x)[Len(s) + 1] = x
         /\ \A j \in 1 .. Len(s) : Append(s, x)[j] = s[j]
OBVIOUS

-----------------------------------------------------------------------------
(* Entries.                                                                *)

LEMMA DisjointAreAdded ==
  ASSUME NEW S, NEW T, IsFiniteSet(S), IsFiniteSet(T), S \cap T = {}
  PROVE  IsFiniteSet(S \cup T) /\ Cardinality(S \cup T) = Cardinality(S) + Cardinality(T)
<1>1. /\ IsFiniteSet(S \cup T)
      /\ Cardinality(S \cup T) = Cardinality(S) + Cardinality(T) - Cardinality(S \cap T)
  BY FS_Union
<1>2. Cardinality(S \cap T) = 0 /\ Cardinality(S) \in Nat /\ Cardinality(T) \in Nat
  BY FS_EmptySet, FS_CardinalityType
<1> QED BY <1>1, <1>2

LEMMA SpanIsPositive == ASSUME NEW x \in Item PROVE Span(x) \in Nat /\ Span(x) >= 1
<1>1. x.kind = "data" => x.data \in Seq(Unit)
  BY DEF Item
<1>2. x.kind = "data" => Len(x.data) \in Nat
  BY <1>1, LenProperties
<1> QED BY <1>2 DEF Span

Taken(items) == {e \in (DOMAIN items) \X (1 .. EntryCount) : e[2] <= Span(items[e[1]])}

LEMMA TakenIsFinite ==
  ASSUME NEW s \in Seq(Item)
  PROVE  IsFiniteSet(Taken(s)) /\ Entries(s) = Cardinality(Taken(s)) /\ Entries(s) \in Nat
<1>1. IsFiniteSet(DOMAIN s) /\ IsFiniteSet(1 .. EntryCount)
  <2>1. DOMAIN s = 1 .. Len(s) /\ Len(s) \in Nat
    BY LenProperties
  <2> QED BY <2>1, FS_Interval, SizeAssumption
<1>2. IsFiniteSet((DOMAIN s) \X (1 .. EntryCount))
  BY <1>1, FS_Product
<1>3. IsFiniteSet(Taken(s))
  BY <1>2, FS_Subset DEF Taken
<1> QED BY <1>3, FS_CardinalityType DEF Entries, Taken

LEMMA NoEntries == Entries(<<>>) = 0
<1>1. Taken(<<>>) = {}
  BY DEF Taken
<1> QED BY <1>1, FS_EmptySet DEF Entries, Taken

\* The entries one item takes.
LEMMA EntriesOfOne ==
  ASSUME NEW i, NEW n \in 0 .. EntryCount, n \in Nat
  PROVE  LET R == {e \in {i} \X (1 .. EntryCount) : e[2] <= n}
         IN  IsFiniteSet(R) /\ Cardinality(R) = n
<1> DEFINE R == {e \in {i} \X (1 .. EntryCount) : e[2] <= n}
           f == [j \in 1 .. n |-> <<i, j>>]
<1>1. EntryCount \in Nat
  BY SizeAssumption
<1>2. f \in Bijection(1 .. n, R)
  <2>1. ASSUME NEW j \in 1 .. n PROVE f[j] = <<i, j>> /\ <<i, j>> \in R
    BY <1>1
  <2>2. f \in [1 .. n -> R]
    BY <2>1
  <2>3. \A j, l \in 1 .. n : f[j] = f[l] => j = l
    BY <2>1
  <2>4. ASSUME NEW e \in R PROVE \E j \in 1 .. n : f[j] = e
    <3>1. e = <<i, e[2]>> /\ e[2] \in 1 .. n
      BY <1>1
    <3> QED BY <2>1, <3>1
  <2> QED BY <2>2, <2>3, <2>4 DEF Bijection, Injection, Surjection, IsInjective
<1>3. IsFiniteSet(1 .. n) /\ Cardinality(1 .. n) = n
  BY FS_Interval
<1>4. ExistsBijection(1 .. n, R)
  BY <1>2 DEF ExistsBijection
<1> QED BY <1>3, <1>4, FS_Bijection

LEMMA EntriesOfMore ==
  ASSUME NEW s \in Seq(Item), NEW x \in Item, Span(x) <= EntryCount
  PROVE  Entries(Append(s, x)) = Entries(s) + Span(x)
<1> DEFINE R == {e \in {Len(s) + 1} \X (1 .. EntryCount) : e[2] <= Span(x)}
           t == Append(s, x)
<1>1. /\ t \in Seq(Item) /\ DOMAIN t = 1 .. Len(s) + 1
      /\ t[Len(s) + 1] = x /\ \A j \in 1 .. Len(s) : t[j] = s[j]
  BY AppendFacts
<1>2. DOMAIN s = 1 .. Len(s) /\ Len(s) \in Nat
  BY LenProperties
<1>3. Span(x) \in 0 .. EntryCount /\ Span(x) \in Nat
  BY SpanIsPositive, SizeAssumption
<1>4. IsFiniteSet(R) /\ Cardinality(R) = Span(x)
  BY <1>3, EntriesOfOne
<1> HIDE DEF t
<1>5. Taken(t) = Taken(s) \cup R
  <2>1. ASSUME NEW e PROVE e \in Taken(t) <=> e \in Taken(s) \cup R
    <3>1. CASE e \in (DOMAIN s) \X (1 .. EntryCount)
      BY <1>1, <1>2, <3>1 DEF Taken
    <3>2. CASE e \in {Len(s) + 1} \X (1 .. EntryCount)
      BY <1>1, <1>2, <3>2 DEF Taken
    <3>3. CASE e \notin (DOMAIN t) \X (1 .. EntryCount)
      BY <1>1, <1>2, <3>3 DEF Taken
    <3> QED BY <1>1, <1>2, <3>1, <3>2, <3>3
  <2> QED BY <2>1
<1>6. Taken(s) \cap R = {}
  BY <1>2 DEF Taken
<1>7. Cardinality(Taken(t)) = Cardinality(Taken(s)) + Cardinality(R)
  BY <1>4, <1>5, <1>6, TakenIsFinite, DisjointAreAdded
<1> QED BY <1>1, <1>4, <1>7, TakenIsFinite DEF t

LEMMA EntriesOfFewer ==
  ASSUME NEW s \in Seq(Item), NEW i \in DOMAIN s, Span(s[i]) <= EntryCount
  PROVE  Entries(RemoveAt(s, i)) = Entries(s) - Span(s[i])
<1> DEFINE R == {e \in {i} \X (1 .. EntryCount) : e[2] <= Span(s[i])}
           O == {e \in Taken(s) : e[1] # i}
           t == RemoveAt(s, i)
           f == [e \in Taken(t) |-> <<Was(i, e[1]), e[2]>>]
<1>1. /\ t \in Seq(Item) /\ DOMAIN t = 1 .. Len(s) - 1
      /\ \A j \in 1 .. Len(s) - 1 : t[j] = s[Was(i, j)]
  BY RemoveAtFacts
<1>2. DOMAIN s = 1 .. Len(s) /\ Len(s) \in Nat /\ i \in 1 .. Len(s) /\ s[i] \in Item
  BY LenProperties, ElementOfSeq
<1>3. Span(s[i]) \in 0 .. EntryCount /\ Span(s[i]) \in Nat
  BY <1>2, SpanIsPositive, SizeAssumption
<1>4. IsFiniteSet(R) /\ Cardinality(R) = Span(s[i])
  BY <1>3, EntriesOfOne
<1> HIDE DEF t
<1>5. Taken(s) = O \cup R /\ O \cap R = {}
  BY <1>2 DEF Taken
<1>6. f \in Bijection(Taken(t), O)
  <2>1. ASSUME NEW e \in Taken(t) PROVE f[e] = <<Was(i, e[1]), e[2]>> /\ f[e] \in O
    <3>1. e[1] \in 1 .. Len(s) - 1 /\ e[2] \in 1 .. EntryCount /\ e[2] <= Span(t[e[1]])
      BY <1>1 DEF Taken
    <3>2. Was(i, e[1]) \in 1 .. Len(s) /\ Was(i, e[1]) # i
      BY <1>2, <3>1 DEF Was
    <3>3. t[e[1]] = s[Was(i, e[1])]
      BY <1>1, <3>1
    <3> QED BY <1>2, <3>1, <3>2, <3>3 DEF Taken
  <2>2. f \in [Taken(t) -> O]
    BY <2>1
  <2>3. ASSUME NEW d \in Taken(t), NEW e \in Taken(t), f[d] = f[e] PROVE d = e
    <3>1. d = <<d[1], d[2]>> /\ e = <<e[1], e[2]>> /\ d[1] \in Int /\ e[1] \in Int
      BY <1>1, <1>2 DEF Taken
    <3>2. Was(i, d[1]) = Was(i, e[1]) /\ d[2] = e[2]
      BY <2>1, <2>3
    <3>3. d[1] = e[1]
      BY <1>2, <3>1, <3>2 DEF Was
    <3> QED BY <3>1, <3>2, <3>3
  <2>4. ASSUME NEW e \in O PROVE \E d \in Taken(t) : f[d] = e
    <3> DEFINE j == IF e[1] < i THEN e[1] ELSE e[1] - 1
    <3>1. e = <<e[1], e[2]>> /\ e[1] \in 1 .. Len(s) /\ e[1] # i /\ e[2] \in 1 .. EntryCount
          /\ e[2] <= Span(s[e[1]])
      BY <1>2 DEF Taken
    <3>2. j \in 1 .. Len(s) - 1 /\ Was(i, j) = e[1]
      BY <1>2, <3>1 DEF Was
    <3>3. t[j] = s[e[1]]
      BY <1>1, <3>2
    <3> HIDE DEF j
    <3>4. <<j, e[2]>> \in Taken(t)
      BY <1>1, <3>1, <3>2, <3>3 DEF Taken
    <3> QED BY <2>1, <3>1, <3>2, <3>4
  <2> QED BY <2>2, <2>3, <2>4 DEF Bijection, Injection, Surjection, IsInjective
<1>7. IsFiniteSet(O) /\ Cardinality(O) = Cardinality(Taken(t))
  <2>1. ExistsBijection(Taken(t), O)
    BY <1>6 DEF ExistsBijection
  <2> QED BY <1>1, <2>1, TakenIsFinite, FS_Bijection
<1>8. Cardinality(Taken(s)) = Cardinality(O) + Cardinality(R)
  BY <1>4, <1>5, <1>7, DisjointAreAdded
<1>9. Entries(t) = Cardinality(Taken(t)) /\ Entries(t) \in Nat /\ Entries(s) = Cardinality(Taken(s))
  BY <1>1, TakenIsFinite
<1> QED BY <1>3, <1>4, <1>7, <1>8, <1>9 DEF t

LEMMA EntriesOfPart ==
  ASSUME NEW s \in Seq(Item), NEW n \in 1 .. Len(s)
  PROVE  SubSeq(s, 1, n) \in Seq(Item) /\ Entries(SubSeq(s, 1, n)) <= Entries(s)
<1> DEFINE t == SubSeq(s, 1, n)
<1>1. DOMAIN s = 1 .. Len(s) /\ Len(s) \in Nat
  BY LenProperties
<1>2. t \in Seq(Item) /\ DOMAIN t = 1 .. n /\ \A j \in 1 .. n : t[j] = s[j]
  BY <1>1, SubSeqProperties
<1> HIDE DEF t
<1>3. Taken(t) \subseteq Taken(s)
  BY <1>1, <1>2 DEF Taken
<1>4. Cardinality(Taken(t)) <= Cardinality(Taken(s))
  BY <1>3, TakenIsFinite, FS_Subset
<1> QED BY <1>2, <1>4, TakenIsFinite DEF t

-----------------------------------------------------------------------------
(* Places.                                                                 *)

PageFactsD ==
  FlashOK =>
    \A p \in Page :
      /\ flash[p] \in PageType
      /\ StateOf(p) \in {"uninit", "active", "full", "freeing"}
      /\ flash[p].seq \in Nat /\ flash[p].used \in Nat /\ NextFree(p) \in Nat
      /\ Items(p) \in Seq(Item) /\ DOMAIN Items(p) = 1 .. Len(Items(p)) /\ Len(Items(p)) \in Nat
LEMMA PageFacts == PageFactsD
<1> SUFFICES ASSUME FlashOK, NEW p \in Page
             PROVE /\ flash[p] \in PageType
                   /\ StateOf(p) \in {"uninit", "active", "full", "freeing"}
                   /\ flash[p].seq \in Nat /\ flash[p].used \in Nat /\ NextFree(p) \in Nat
                   /\ Items(p) \in Seq(Item) /\ DOMAIN Items(p) = 1 .. Len(Items(p))
                   /\ Len(Items(p)) \in Nat
  BY DEF PageFactsD
<1>1. flash[p] \in PageType
  BY DEF FlashOK
<1>2. Items(p) \in Seq(Item)
  BY <1>1 DEF PageType, Items
<1> QED BY <1>1, <1>2, LenProperties DEF PageType, StateOf, NextFree, Items

PlaceFactsD ==
  FlashOK =>
    \A a \in Places :
      /\ a = <<a[1], a[2]>> /\ a[1] \in Page /\ a[2] \in DOMAIN Items(a[1])
      /\ a[2] \in 1 .. Len(Items(a[1])) /\ a[2] \in Nat
      /\ At(a) = Items(a[1])[a[2]] /\ At(a) \in Item
LEMMA PlaceFacts == PlaceFactsD
<1> SUFFICES ASSUME FlashOK, NEW a \in Places
             PROVE /\ a = <<a[1], a[2]>> /\ a[1] \in Page /\ a[2] \in DOMAIN Items(a[1])
                   /\ a[2] \in 1 .. Len(Items(a[1])) /\ a[2] \in Nat
                   /\ At(a) = Items(a[1])[a[2]] /\ At(a) \in Item
  BY DEF PlaceFactsD
<1>1. PICK p \in Page : a \in {<<p, i>> : i \in DOMAIN Items(p)}
  BY DEF Places
<1>2. PICK i \in DOMAIN Items(p) : a = <<p, i>>
  BY <1>1
<1>3. a[1] = p /\ a[2] = i
  BY <1>2
<1>4. DOMAIN Items(p) = 1 .. Len(Items(p)) /\ Len(Items(p)) \in Nat /\ Items(p) \in Seq(Item)
  BY PageFacts DEF PageFactsD
<1>5. Items(p)[i] \in Item
  BY <1>4, ElementOfSeq
<1> QED BY <1>2, <1>3, <1>4, <1>5 DEF At, Items

IsPlaceD ==
  \A p \in Page : \A i \in DOMAIN Items(p) : <<p, i>> \in Places /\ At(<<p, i>>) = Items(p)[i]
LEMMA IsPlace == IsPlaceD
<1> SUFFICES ASSUME NEW p \in Page, NEW i \in DOMAIN Items(p)
             PROVE  <<p, i>> \in Places /\ At(<<p, i>>) = Items(p)[i]
  BY DEF IsPlaceD
<1>1. <<p, i>> \in {<<p, j>> : j \in DOMAIN Items(p)}
  OBVIOUS
<1> QED BY <1>1 DEF Places, At, Items

LEMMA ItemKinds ==
  ASSUME NEW x \in Item
  PROVE  /\ x.kind \in {"index", "data"} /\ x.key \in Keys /\ x.ver \in Version
         /\ x.kind = "index" => x.count \in Nat /\ x.size \in Nat
         /\ x.kind = "data" => x.index \in Nat /\ x.data \in Seq(Unit) /\ Len(x.data) \in Nat
<1>1. x.kind = "data" => x.index \in Nat /\ x.data \in Seq(Unit)
  BY DEF Item
<1> QED BY <1>1, LenProperties DEF Item

\* A page with items is in use, and pages in use are told apart by their number.
PlacesAreInUseD == FlashOK /\ Filled => \A a \in Places : a[1] \in InUse
LEMMA PlacesAreInUse == PlacesAreInUseD
<1> SUFFICES ASSUME FlashOK, Filled, NEW a \in Places PROVE a[1] \in InUse
  BY DEF PlacesAreInUseD
<1>1. a[1] \in Page /\ a[2] \in DOMAIN Items(a[1])
  BY PlaceFacts DEF PlaceFactsD
<1>2. ASSUME StateOf(a[1]) = "uninit" PROVE FALSE
  <2>1. Items(a[1]) = <<>>
    BY <1>1, <1>2 DEF Filled, ErasedPage, Items
  <2> QED BY <1>1, <2>1
<1> QED BY <1>1, <1>2 DEF InUse

LEMMA EarliestIn ==
  ASSUME FlashOK, Filled, Ordered, NEW S, S \subseteq Places, S # {}
  PROVE  Earliest(S) \in S /\ \A b \in S \ {Earliest(S)} : Before(Earliest(S), b)
<1> DEFINE T == {flash[a[1]].seq : a \in S}
<1>1. \A a \in S : a[1] \in Page /\ a[1] \in InUse /\ flash[a[1]].seq \in Nat
  BY PlaceFacts, PlacesAreInUse, PageFacts DEF PlaceFactsD, PlacesAreInUseD, PageFactsD
<1>2. PICK n \in T : \A m \in T : n <= m
  <2>1. T \subseteq Nat /\ T # {}
    BY <1>1
  <2> QED BY <2>1, LeastNatural
<1>3. PICK b \in S : n = flash[b[1]].seq
  OBVIOUS
<1> DEFINE U == {a[2] : a \in {c \in S : c[1] = b[1]}}
<1>4. PICK i \in U : \A j \in U : i <= j
  <2>1. U \subseteq Nat
    BY PlaceFacts DEF PlaceFactsD
  <2>2. b[2] \in U
    OBVIOUS
  <2> QED BY <2>1, <2>2, LeastNatural
<1>5. PICK a \in S : a[1] = b[1] /\ a[2] = i
  OBVIOUS
<1>6. ASSUME NEW c \in S \ {a} PROVE Before(a, c)
  <2>1. flash[a[1]].seq <= flash[c[1]].seq
    BY <1>2, <1>3, <1>5
  <2>2. CASE a[1] = c[1]
    <3>1. a[2] <= c[2] /\ a[2] \in Nat /\ c[2] \in Nat
      BY <1>4, <1>5, <2>2, PlaceFacts DEF PlaceFactsD
    <3>2. a[2] # c[2]
      <4>1. a = <<a[1], a[2]>> /\ c = <<c[1], c[2]>>
        BY PlaceFacts DEF PlaceFactsD
      <4> QED BY <2>2, <4>1
    <3> QED BY <2>2, <3>1, <3>2 DEF Before
  <2>3. CASE a[1] # c[1]
    <3>1. flash[a[1]].seq # flash[c[1]].seq
      BY <1>1, <2>3 DEF Ordered
    <3> QED BY <1>1, <2>1, <3>1 DEF Before
  <2> QED BY <2>2, <2>3
<1> QED BY <1>6 DEF Earliest

-----------------------------------------------------------------------------
(* Erasing an item.                                                        *)

\* Where the item at b was before the one at a was erased.
Origin(a, b) == IF b[1] = a[1] THEN <<b[1], Was(a[2], b[2])>> ELSE b

LEMMA ErasedPages ==
  ASSUME FlashOK, Filled, NEW a \in Places, Erase(a)
  PROVE  /\ flash' \in [Page -> PageType] /\ Filled'
         /\ \A p \in Page : /\ flash'[p].st = flash[p].st /\ flash'[p].seq = flash[p].seq
                            /\ flash'[p].next = flash[p].next
                            /\ flash'[p].used <= flash[p].used
         /\ flash'[a[1]].items = RemoveAt(Items(a[1]), a[2])
         /\ \A p \in Page \ {a[1]} : flash'[p] = flash[p]
<1> DEFINE p == a[1]
           s == Items(p)
<1>1. /\ p \in Page /\ a[2] \in DOMAIN s /\ At(a) = s[a[2]] /\ At(a) \in Item
      /\ a[2] \in 1 .. Len(s)
  BY PlaceFacts DEF PlaceFactsD
<1>2. /\ flash[p] \in PageType /\ s \in Seq(Item) /\ flash[p].used \in Nat /\ NextFree(p) \in Nat
      /\ DOMAIN s = 1 .. Len(s) /\ Len(s) \in Nat /\ flash[p].seq \in Nat
  BY <1>1, PageFacts DEF PageFactsD
<1> DEFINE alive == flash[p].live /\ a[2] # Len(s)
<1>3. /\ flash' = [flash EXCEPT ![p].items = RemoveAt(s, a[2]), ![p].used = flash[p].used - Span(At(a)),
                             ![p].live = alive]
      /\ DOMAIN flash = Page
  BY DEF Erase, Items, FlashOK
<1> DEFINE fewer == [flash EXCEPT ![p].items = RemoveAt(s, a[2])]
           h == [flash[p] EXCEPT !.items = RemoveAt(s, a[2])]
           less == [fewer EXCEPT ![p].used = flash[p].used - Span(At(a))]
           h2 == [h EXCEPT !.used = flash[p].used - Span(At(a))]
           g == [h2 EXCEPT !.live = alive]
<1>4. flash'[p] = g /\ \A q \in Page \ {p} : flash'[q] = flash[q]
  <2>1. flash' = [less EXCEPT ![p].live = alive]
    BY <1>3, Zenon
  <2>2. DOMAIN fewer = Page /\ fewer[p] = h /\ \A q \in Page \ {p} : fewer[q] = flash[q]
    BY <1>1, <1>3
  <2> HIDE DEF fewer, h, alive
  <2>3. DOMAIN less = Page /\ less[p] = h2 /\ \A q \in Page \ {p} : less[q] = fewer[q]
    BY <1>1, <2>2
  <2> HIDE DEF less, h2
  <2>4. flash'[p] = [less[p] EXCEPT !.live = alive] /\ \A q \in Page \ {p} : flash'[q] = less[q]
    BY <1>1, <2>1, <2>3
  <2> QED BY <2>2, <2>3, <2>4
<1>5. /\ RemoveAt(s, a[2]) \in Seq(Item) /\ DOMAIN RemoveAt(s, a[2]) = 1 .. Len(s) - 1
      /\ \A j \in 1 .. Len(s) - 1 : RemoveAt(s, a[2])[j] = s[Was(a[2], j)]
  BY <1>1, <1>2, RemoveAtFacts
<1>6. Span(At(a)) <= EntryCount /\ flash[p].used = Entries(s) /\ NextFree(p) <= EntryCount
      /\ flash[p].used <= NextFree(p) /\ StateOf(p) # "uninit"
  BY <1>1, PlacesAreInUse DEF PlacesAreInUseD, Filled, InUse
<1>7. Entries(RemoveAt(s, a[2])) = flash[p].used - Span(At(a)) /\ Entries(RemoveAt(s, a[2])) \in Nat
  BY <1>1, <1>2, <1>5, <1>6, EntriesOfFewer, TakenIsFinite
<1>8. Span(At(a)) \in Nat
  BY <1>1, SpanIsPositive
<1>9. /\ flash'[p].items = RemoveAt(s, a[2]) /\ flash'[p].used = Entries(RemoveAt(s, a[2]))
      /\ flash'[p].st = flash[p].st /\ flash'[p].seq = flash[p].seq /\ flash'[p].next = flash[p].next
      /\ flash'[p] \in PageType
  <2>1. flash[p].used - Span(At(a)) = Entries(RemoveAt(s, a[2]))
    BY <1>7
  <2>2. h \in PageType /\ h.items = RemoveAt(s, a[2])
        /\ h.st = flash[p].st /\ h.seq = flash[p].seq /\ h.next = flash[p].next
    BY <1>2, <1>5 DEF PageType
  <2> HIDE DEF h
  <2>3. h2 \in PageType /\ h2.items = h.items /\ h2.used = Entries(RemoveAt(s, a[2]))
        /\ h2.st = h.st /\ h2.seq = h.seq /\ h2.next = h.next
    BY <1>7, <2>1, <2>2 DEF PageType
  <2>4. alive \in BOOLEAN
    BY <1>2 DEF PageType
  <2> HIDE DEF h2, alive
  <2>5. g \in PageType /\ g.items = h2.items /\ g.used = h2.used
        /\ g.st = h2.st /\ g.seq = h2.seq /\ g.next = h2.next
    BY <2>3, <2>4 DEF PageType
  <2> HIDE DEF g
  <2> QED BY <1>4, <2>2, <2>3, <2>5
<1>10. flash'[p].used <= flash[p].used
  BY <1>2, <1>7, <1>8, <1>9
<1>11. flash' \in [Page -> PageType]
  <2>1. DOMAIN flash' = Page /\ \E f : flash' = [q \in DOMAIN f |-> flash'[q]]
    BY <1>3
  <2>2. \A q \in Page : flash'[q] \in PageType
    BY <1>4, <1>9 DEF FlashOK
  <2> QED BY <1>3, <2>2 DEF FlashOK
<1>12. ASSUME NEW q \in Page
       PROVE /\ flash'[q].st = "uninit" => flash'[q] = ErasedPage
             /\ flash'[q].used = Entries(flash'[q].items)
             /\ flash'[q].used <= flash'[q].next /\ flash'[q].next <= EntryCount
             /\ \A i \in DOMAIN flash'[q].items : Span(flash'[q].items[i]) <= EntryCount
  <2>1. CASE q # p
    BY <1>4, <2>1 DEF Filled, StateOf, Items, NextFree
  <2>2. CASE q = p
    <3>1. flash'[q].st # "uninit"
      BY <1>6, <1>9, <2>2 DEF StateOf
    <3>2. flash'[q].used <= flash'[q].next /\ flash'[q].next <= EntryCount
      BY <1>2, <1>6, <1>7, <1>9, <1>10, <2>2, SizeAssumption DEF NextFree
    <3>3. ASSUME NEW i \in DOMAIN flash'[q].items PROVE Span(flash'[q].items[i]) <= EntryCount
      <4>1. i \in 1 .. Len(s) - 1 /\ flash'[q].items[i] = s[Was(a[2], i)]
        BY <1>5, <1>9, <2>2, <3>3
      <4>2. Was(a[2], i) \in DOMAIN s
        BY <1>1, <1>2, <4>1 DEF Was
      <4> QED BY <1>1, <4>1, <4>2 DEF Filled
    <3> QED BY <1>9, <2>2, <3>1, <3>2, <3>3
  <2> QED BY <2>1, <2>2
<1>13. Filled'
  BY <1>12 DEF Filled, StateOf, Items, NextFree
<1>14. ASSUME NEW q \in Page
       PROVE /\ flash'[q].st = flash[q].st /\ flash'[q].seq = flash[q].seq
             /\ flash'[q].next = flash[q].next /\ flash'[q].used <= flash[q].used
  <2>1. flash[q].used \in Nat
    BY PageFacts DEF PageFactsD
  <2>2. CASE q = p
    BY <1>9, <1>10, <2>2
  <2>3. CASE q # p
    BY <1>4, <2>1, <2>3
  <2> QED BY <2>2, <2>3
<1> QED BY <1>4, <1>9, <1>11, <1>13, <1>14

LEMMA FactsThen == PageFactsD' /\ PlaceFactsD' /\ IsPlaceD' /\ PlacesAreInUseD'
BY PageFacts, PlaceFacts, IsPlace, PlacesAreInUse, PTL

\* The places that are left are those there were without the one erased.
LEMMA ErasedPlaces ==
  ASSUME FlashOK, Filled, NEW a \in Places, Erase(a)
  PROVE  /\ \A b \in Places' :
              /\ Origin(a, b) \in Places /\ Origin(a, b) # a /\ Origin(a, b)[1] = b[1]
              /\ At(b)' = At(Origin(a, b))
              /\ b[1] = a[1] => Origin(a, b)[2] = Was(a[2], b[2])
              /\ b[1] # a[1] => Origin(a, b) = b
         /\ \A c \in Places : c # a => \E b \in Places' : Origin(a, b) = c
         /\ \A b, d \in Places' : Origin(a, b) = Origin(a, d) => b = d
<1> DEFINE s == Items(a[1])
<1>1. /\ a[1] \in Page /\ a[2] \in 1 .. Len(s) /\ DOMAIN s = 1 .. Len(s) /\ Len(s) \in Nat
      /\ s \in Seq(Item) /\ a = <<a[1], a[2]>>
  BY PlaceFacts, PageFacts DEF PlaceFactsD, PageFactsD
<1>2. /\ FlashOK'
      /\ \A p \in Page \ {a[1]} : Items(p)' = Items(p)
      /\ Items(a[1])' = RemoveAt(s, a[2])
  BY ErasedPages DEF FlashOK, Items
<1>3. /\ DOMAIN RemoveAt(s, a[2]) = 1 .. Len(s) - 1
      /\ \A j \in 1 .. Len(s) - 1 : RemoveAt(s, a[2])[j] = s[Was(a[2], j)]
  BY <1>1, RemoveAtFacts
<1>4. ASSUME NEW b \in Places'
      PROVE  /\ Origin(a, b) \in Places /\ Origin(a, b) # a /\ Origin(a, b)[1] = b[1]
             /\ At(b)' = At(Origin(a, b))
             /\ b[1] = a[1] => Origin(a, b)[2] = Was(a[2], b[2]) /\ b[2] \in 1 .. Len(s) - 1
             /\ b[1] # a[1] => Origin(a, b) = b
             /\ b = <<b[1], b[2]>>
  <2>1. /\ b = <<b[1], b[2]>> /\ b[1] \in Page /\ b[2] \in DOMAIN (Items(b[1])') /\ At(b)' = (Items(b[1])')[b[2]]
    BY <1>2, FactsThen DEF PlaceFactsD, Page
  <2>2. CASE b[1] = a[1]
    <3>1. /\ b[2] \in 1 .. Len(s) - 1 /\ At(b)' = s[Was(a[2], b[2])]
      BY <1>2, <1>3, <2>1, <2>2
    <3>2. Was(a[2], b[2]) \in DOMAIN s /\ Was(a[2], b[2]) # a[2]
      BY <1>1, <3>1 DEF Was
    <3>3. Origin(a, b) = <<a[1], Was(a[2], b[2])>>
      BY <2>2 DEF Origin
    <3>4. Origin(a, b) \in Places /\ At(Origin(a, b)) = s[Was(a[2], b[2])]
      BY <1>1, <3>2, <3>3, IsPlace DEF IsPlaceD
    <3>5. Origin(a, b) # a /\ Origin(a, b)[2] = Was(a[2], b[2]) /\ Origin(a, b)[1] = b[1]
      BY <1>1, <3>2, <3>3, <2>2
    <3> QED BY <2>1, <2>2, <3>1, <3>4, <3>5
  <2>3. CASE b[1] # a[1]
    <3>1. Origin(a, b) = b
      BY <2>3 DEF Origin
    <3>2. b[2] \in DOMAIN Items(b[1]) /\ At(b)' = Items(b[1])[b[2]]
      BY <1>2, <2>1, <2>3
    <3>3. b \in Places /\ At(b) = Items(b[1])[b[2]]
      BY <2>1, <3>2, IsPlace DEF IsPlaceD
    <3> QED BY <2>1, <2>3, <3>1, <3>2, <3>3
  <2> QED BY <2>2, <2>3
<1>5. ASSUME NEW c \in Places, c # a PROVE \E b \in Places' : Origin(a, b) = c
  <2>1. c = <<c[1], c[2]>> /\ c[1] \in Page /\ c[2] \in DOMAIN Items(c[1]) /\ c[2] \in Nat
    BY PlaceFacts DEF PlaceFactsD
  <2>2. CASE c[1] # a[1]
    <3>1. c[2] \in DOMAIN (Items(c[1])')
      BY <1>2, <2>1, <2>2
    <3>2. <<c[1], c[2]>> \in Places'
      BY <2>1, <3>1, FactsThen DEF IsPlaceD, Page
    <3> QED BY <2>1, <2>2, <3>2 DEF Origin
  <2>3. CASE c[1] = a[1]
    <3> DEFINE j == IF c[2] < a[2] THEN c[2] ELSE c[2] - 1
    <3>1. c[2] # a[2] /\ c[2] \in 1 .. Len(s)
      BY <1>1, <1>5, <2>1, <2>3
    <3>2. j \in 1 .. Len(s) - 1 /\ Was(a[2], j) = c[2]
      BY <1>1, <3>1 DEF Was
    <3> HIDE DEF j
    <3>3. j \in DOMAIN (Items(a[1])')
      BY <1>2, <1>3, <3>2
    <3>4. <<a[1], j>> \in Places'
      BY <1>1, <3>3, FactsThen DEF IsPlaceD, Page
    <3>5. Origin(a, <<a[1], j>>) = c
      BY <2>1, <2>3, <3>2 DEF Origin
    <3> QED BY <3>4, <3>5
  <2> QED BY <2>2, <2>3
<1>6. ASSUME NEW b \in Places', NEW d \in Places', Origin(a, b) = Origin(a, d) PROVE b = d
  <2>1. b = <<b[1], b[2]>> /\ d = <<d[1], d[2]>> /\ b[1] = d[1]
    BY <1>4, <1>6
  <2>2. CASE b[1] # a[1]
    BY <1>4, <1>6, <2>1, <2>2
  <2>3. CASE b[1] = a[1]
    <3>1. Was(a[2], b[2]) = Was(a[2], d[2]) /\ b[2] \in 1 .. Len(s) - 1 /\ d[2] \in 1 .. Len(s) - 1
      BY <1>4, <1>6, <2>1, <2>3
    <3>2. b[2] = d[2]
      BY <1>1, <3>1 DEF Was
    <3> QED BY <2>1, <3>2
  <2> QED BY <2>2, <2>3
<1> QED BY <1>4, <1>5, <1>6

-----------------------------------------------------------------------------
(* Writing an item, and changing no item.                                  *)

LEMMA SameItems ==
  ASSUME FlashOK, FlashOK', \A p \in Page : flash'[p].items = flash[p].items
  PROVE  Places' = Places /\ \A a \in Places : At(a)' = At(a)
<1>1. \A p \in Page : Items(p)' = Items(p)
  BY DEF Items
<1>2. ASSUME NEW a \in Places PROVE a \in Places' /\ At(a)' = At(a)
  <2>1. a = <<a[1], a[2]>> /\ a[1] \in Page /\ a[2] \in DOMAIN Items(a[1]) /\ At(a) = Items(a[1])[a[2]]
    BY PlaceFacts DEF PlaceFactsD
  <2>2. a[2] \in DOMAIN (Items(a[1])')
    BY <1>1, <2>1
  <2>3. <<a[1], a[2]>> \in Places'
    BY <2>1, <2>2, FactsThen DEF IsPlaceD, Page
  <2> QED BY <2>1, <2>3, <1>1 DEF At
<1>3. ASSUME NEW a \in Places' PROVE a \in Places
  <2>1. a = <<a[1], a[2]>> /\ a[1] \in Page /\ a[2] \in DOMAIN (Items(a[1])')
    BY FactsThen DEF PlaceFactsD, Page
  <2>2. a[2] \in DOMAIN Items(a[1])
    BY <1>1, <2>1
  <2> QED BY <2>1, <2>2, IsPlace DEF IsPlaceD
<1> QED BY <1>2, <1>3

LEMMA PutPages ==
  ASSUME FlashOK, Filled, cur \in Page, nextSeq \in Nat, nextSeq >= 1,
         StateOf(cur) \in {"uninit", "active"},
         NEW x \in Item, NextFree(cur) + Span(x) <= EntryCount, Put(x)
  PROVE  /\ FlashOK' /\ Filled'
         /\ flash'[cur].st = "active" /\ flash'[cur].items = Append(Items(cur), x)
         /\ flash'[cur].seq = IF StateOf(cur) = "uninit" THEN nextSeq - 1 ELSE flash[cur].seq
         /\ flash'[cur].next = NextFree(cur) + Span(x)
         /\ \A p \in Page \ {cur} : flash'[p] = flash[p]
<1> DEFINE s == Items(cur)
<1>1. /\ flash[cur] \in PageType /\ s \in Seq(Item) /\ flash[cur].used \in Nat
      /\ NextFree(cur) \in Nat /\ flash[cur].seq \in Nat
      /\ DOMAIN s = 1 .. Len(s) /\ Len(s) \in Nat
  BY PageFacts DEF PageFactsD
<1>2. Span(x) \in Nat /\ Span(x) >= 1
  BY SpanIsPositive
<1> DEFINE sq == IF StateOf(cur) = "uninit" THEN nextSeq - 1 ELSE flash[cur].seq
           pg == [st |-> "active", seq |-> sq, items |-> Append(s, x),
                  used |-> flash[cur].used + Span(x), next |-> NextFree(cur) + Span(x),
                  live |-> TRUE]
<1>3. flash'[cur] = pg /\ \A p \in Page \ {cur} : flash'[p] = flash[p]
  <2>1. flash' = [flash EXCEPT ![cur] = pg]
    BY DEF Put, Items, NextFree
  <2> HIDE DEF pg
  <2> QED BY <2>1 DEF FlashOK
<1>4. /\ Append(s, x) \in Seq(Item) /\ DOMAIN Append(s, x) = 1 .. Len(s) + 1
      /\ Append(s, x)[Len(s) + 1] = x /\ \A j \in 1 .. Len(s) : Append(s, x)[j] = s[j]
  BY <1>1, AppendFacts
<1>5. sq \in Nat
  BY <1>1
<1> HIDE DEF sq
<1>6. /\ flash'[cur].st = "active" /\ flash'[cur].seq = sq /\ flash'[cur].items = Append(s, x)
      /\ flash'[cur].used = flash[cur].used + Span(x) /\ flash'[cur].next = NextFree(cur) + Span(x)
      /\ flash'[cur] \in PageType
  <2>1. flash[cur].used + Span(x) \in Nat /\ NextFree(cur) + Span(x) \in Nat
    BY <1>1, <1>2
  <2>2. pg \in PageType /\ pg.st = "active" /\ pg.seq = sq /\ pg.items = Append(s, x)
        /\ pg.used = flash[cur].used + Span(x) /\ pg.next = NextFree(cur) + Span(x)
    BY <1>1, <1>4, <1>5, <2>1 DEF PageType
  <2> HIDE DEF pg
  <2> QED BY <1>3, <2>2
<1>7. FlashOK'
  <2>1. \A q \in Page : flash'[q] \in PageType
    BY <1>3, <1>6 DEF FlashOK
  <2> QED BY <2>1 DEF FlashOK, Put, Page
<1>8. Span(x) <= EntryCount
  BY <1>1, <1>2, SizeAssumption
<1>9. Entries(Append(s, x)) = flash[cur].used + Span(x)
  BY <1>1, <1>8, EntriesOfMore DEF Filled
<1>10. ASSUME NEW q \in Page
       PROVE /\ flash'[q].st = "uninit" => flash'[q] = ErasedPage
             /\ flash'[q].used = Entries(flash'[q].items)
             /\ flash'[q].used <= flash'[q].next /\ flash'[q].next <= EntryCount
             /\ \A i \in DOMAIN flash'[q].items : Span(flash'[q].items[i]) <= EntryCount
  <2>1. CASE q # cur
    BY <1>3, <2>1 DEF Filled, StateOf, Items, NextFree
  <2>2. CASE q = cur
    <3>1. flash[cur].used <= NextFree(cur)
      BY DEF Filled
    <3>2. flash'[q].used <= flash'[q].next /\ flash'[q].next <= EntryCount
      BY <1>1, <1>2, <1>6, <2>2, <3>1, SizeAssumption
    <3>3. ASSUME NEW i \in DOMAIN flash'[q].items PROVE Span(flash'[q].items[i]) <= EntryCount
      <4>1. i \in 1 .. Len(s) + 1 /\ flash'[q].items[i] = Append(s, x)[i]
        BY <1>4, <1>6, <2>2
      <4>2. CASE i = Len(s) + 1
        BY <1>4, <1>8, <4>1, <4>2
      <4>3. CASE i # Len(s) + 1
        BY <1>1, <1>4, <4>1, <4>3 DEF Filled
      <4> QED BY <4>2, <4>3
    <3> QED BY <1>6, <1>9, <2>2, <3>2, <3>3
  <2> QED BY <2>1, <2>2
<1>11. Filled'
  BY <1>10 DEF Filled, StateOf, Items, NextFree, Page
<1> QED BY <1>3, <1>6, <1>7, <1>11 DEF sq

LEMMA PutPlaces ==
  ASSUME FlashOK, Filled, cur \in Page, nextSeq \in Nat, nextSeq >= 1,
         StateOf(cur) \in {"uninit", "active"},
         NEW x \in Item, NextFree(cur) + Span(x) <= EntryCount, Put(x)
  PROVE  \E n \in Places' :
           /\ Places' = Places \cup {n} /\ n \notin Places
           /\ n[1] = cur /\ n[2] = Len(Items(cur)) + 1 /\ At(n)' = x
           /\ \A a \in Places : At(a)' = At(a)
<1> PICK c \in Page : c = cur
  OBVIOUS
<1> DEFINE s == Items(c)
<1>1. /\ FlashOK' /\ flash'[c].items = Append(s, x)
      /\ \A p \in Page \ {c} : flash'[p] = flash[p]
  BY PutPages
<1>2. /\ Items(c)' = Append(s, x)
      /\ \A p \in Page \ {c} : Items(p)' = Items(p)
  BY <1>1 DEF Items
<1>3. s \in Seq(Item) /\ DOMAIN s = 1 .. Len(s) /\ Len(s) \in Nat
  BY PageFacts DEF PageFactsD
<1>4. /\ DOMAIN Append(s, x) = 1 .. Len(s) + 1 /\ Append(s, x)[Len(s) + 1] = x
      /\ \A j \in 1 .. Len(s) : Append(s, x)[j] = s[j]
  BY <1>3, AppendFacts
<1> PICK n : n = <<c, Len(s) + 1>>
  OBVIOUS
<1>5. n[1] = c /\ n[2] = Len(s) + 1
  OBVIOUS
<1>6. n \in Places' /\ At(n)' = x
  <2>1. n[2] \in DOMAIN (Items(c)')
    BY <1>2, <1>3, <1>4, <1>5
  <2>2. <<c, n[2]>> \in Places' /\ At(<<c, n[2]>>)' = (Items(c)')[n[2]]
    BY <2>1, FactsThen DEF IsPlaceD, Page
  <2> QED BY <1>2, <1>4, <1>5, <2>2
<1>7. n \notin Places
  <2>1. n \in Places => n[2] \in 1 .. Len(s)
    BY <1>5, PlaceFacts DEF PlaceFactsD
  <2> QED BY <1>3, <1>5, <2>1
<1>8. ASSUME NEW a \in Places PROVE a \in Places' /\ At(a)' = At(a)
  <2>1. a = <<a[1], a[2]>> /\ a[1] \in Page /\ a[2] \in DOMAIN Items(a[1]) /\ At(a) = Items(a[1])[a[2]]
    BY PlaceFacts DEF PlaceFactsD
  <2>2. a[2] \in DOMAIN (Items(a[1])') /\ (Items(a[1])')[a[2]] = Items(a[1])[a[2]]
    <3>1. CASE a[1] = c
      <4>1. a[2] \in 1 .. Len(s) /\ a[2] \in 1 .. Len(s) + 1
        BY <1>3, <2>1, <3>1
      <4> QED BY <1>2, <1>4, <3>1, <4>1
    <3>2. CASE a[1] # c
      BY <1>2, <2>1, <3>2
    <3> QED BY <3>1, <3>2
  <2>3. <<a[1], a[2]>> \in Places' /\ At(<<a[1], a[2]>>)' = (Items(a[1])')[a[2]]
    BY <2>1, <2>2, FactsThen DEF IsPlaceD, Page
  <2> QED BY <2>1, <2>2, <2>3
<1>9. ASSUME NEW a \in Places', a # n PROVE a \in Places
  <2>1. a = <<a[1], a[2]>> /\ a[1] \in Page /\ a[2] \in DOMAIN (Items(a[1])')
    BY <1>1, FactsThen DEF PlaceFactsD, Page
  <2>2. a[2] \in DOMAIN Items(a[1])
    BY <1>2, <1>3, <1>4, <1>9, <2>1
  <2> QED BY <2>1, <2>2, IsPlace DEF IsPlaceD
<1>10. Places' = Places \cup {n}
  BY <1>6, <1>8, <1>9
<1> QED BY <1>5, <1>6, <1>7, <1>8, <1>10

-----------------------------------------------------------------------------
(* Pages that keep their states.                                           *)

SamePages == \A p \in Page : flash'[p].st = flash[p].st /\ flash'[p].seq = flash[p].seq

LEMMA PagesStay ==
  ASSUME SamePages
  PROVE  /\ InUse' = InUse /\ Freeing' = Freeing /\ Blank' = Blank
         /\ \A p \in Page : StateOf(p)' = StateOf(p)
         /\ Ordered => Ordered'
<1>1. \A p \in Page : StateOf(p)' = StateOf(p) /\ flash'[p].seq = flash[p].seq
  BY DEF SamePages, StateOf
<1>2. InUse' = InUse /\ Freeing' = Freeing /\ Blank' = Blank
  BY <1>1 DEF InUse, Freeing, Blank, Page
<1>3. InUse \subseteq Page
  BY DEF InUse
<1>4. ASSUME Ordered PROVE Ordered'
  BY <1>1, <1>2, <1>3, <1>4 DEF Ordered
<1> QED BY <1>1, <1>2, <1>4

LEMMA ListingStays ==
  ASSUME Listing, free \in Seq(Page), SamePages, UNCHANGED <<cur, free, nextSeq, gc>>, Mounted, pc # "copy"
  PROVE  Listing'
<1>1. /\ \A p \in Page : StateOf(p)' = StateOf(p) /\ flash'[p].seq = flash[p].seq
      /\ InUse' = InUse /\ InUse \subseteq Page
  BY PagesStay DEF SamePages, InUse
<1>2. \A i \in DOMAIN free : free[i] \in Page
  BY ElementOfSeq, LenProperties
<1> QED BY <1>1, <1>2 DEF Listing, Page

Quiet == {"match", "orphan", "failed", "idle", "find", "old_index", "old_chunks", "return", "cleanup", "purge"}

LEMMA QuietPages ==
  ASSUME PagesInv, SamePages, UNCHANGED <<cur, free, nextSeq, gc>>,
         Mounted, pc # "copy", Freeing = {}, pc' \in Quiet
  PROVE  Ordered' /\ Listing' /\ MoveKnown' /\ Room' /\ Freeing' = {}
<1>1. Ordered' /\ Listing'
  BY PagesStay, ListingStays DEF PagesInv, TypeOK
<1>2. Freeing' = {}
  BY PagesStay
<1>3. MoveKnown'
  BY <1>2 DEF MoveKnown, Quiet, Moves
<1>4. Room'
  BY DEF Room, Quiet
<1> QED BY <1>1, <1>2, <1>3, <1>4

-----------------------------------------------------------------------------
(* Calls.                                                                  *)

LEMMA ValueFacts ==
  ASSUME NEW v \in Values
  PROVE  v \in Seq(Unit) /\ Len(v) \in Nat /\ DOMAIN v = 1 .. Len(v)
<1>1. v \in Seq({v[i] : i \in DOMAIN v})
  BY ValueAssumption
<1>2. Len(v) \in Nat /\ DOMAIN v = 1 .. Len(v)
  BY <1>1, LenProperties
<1>3. {v[i] : i \in DOMAIN v} \subseteq Unit
  BY DEF Unit
<1> QED BY <1>1, <1>2, <1>3, SeqMonotonic

LEMMA OpFacts ==
  ASSUME TypeOK
  PROVE  /\ op.kind \in {"none", "write", "erase", "erase_all", "read"}
         /\ op.kind = "write" => op.key \in Keys /\ op.val \in Values /\ Len(op.val) \in Nat
                                 /\ DOMAIN op.val = 1 .. Len(op.val)
         /\ op.kind \in {"erase", "read"} => op.key \in Keys
         /\ op = NoRequest <=> op.kind = "none"
         /\ op \in Requests <=> op.kind \in {"write", "erase", "erase_all"}
BY ValueFacts
DEF TypeOK, Requests, NoRequest, ReadRequest, Request, WriteRequest, EraseRequest, EraseAllRequest

LEMMA NoLocalsFacts ==
  /\ NoLocals \in Locals /\ NoLocals.pages = <<>> /\ NoLocals.off = 0 /\ NoLocals.prev = -1
  /\ NoLocals.ver = 0 /\ NoLocals.count = 0 /\ NoLocals.i = 0 /\ Len(NoLocals.pages) = 0
BY DEF NoLocals, Locals, Version

LEMMA QuietCalls ==
  ASSUME PagesInv, pc' \in Quiet, Mounted, pc # "copy", Freeing = {},
         UNCHANGED <<cur, free, nextSeq, gc>>,
         (UNCHANGED flash) \/ (\E a \in Places : Erase(a)),
         op' \in Requests \cup {NoRequest} \cup {ReadRequest(k) : k \in Keys},
         loc' \in Locals, res' \in Results, gaveUp' \in BOOLEAN, Called'
  PROVE  PagesInv'
<1>1. FlashOK' /\ Filled' /\ SamePages
  <2>1. CASE UNCHANGED flash
    BY <2>1 DEF PagesInv, TypeOK, FlashOK, Filled, SamePages, Page, PageType, StateOf, Items, NextFree
  <2>2. CASE \E a \in Places : Erase(a)
    <3>1. PICK a \in Places : Erase(a)
      BY <2>2
    <3> QED BY <3>1, ErasedPages DEF PagesInv, TypeOK, FlashOK, SamePages, Page, PageType
  <2> QED BY <2>1, <2>2
<1>2. Ordered' /\ Listing' /\ MoveKnown' /\ Room'
  BY <1>1, QuietPages
<1>3. TypeOK'
  BY <1>1 DEF PagesInv, TypeOK, Page, Steps, Quiet, Mount, WritePcs, Late, Moves
<1> QED BY <1>1, <1>2, <1>3 DEF PagesInv

LEMMA ReturnIsQuiet ==
  ASSUME PagesInv, Mounted, pc # "copy", Freeing = {}, NEW r \in Results, Return(r)
  PROVE  PagesInv'
<1>1. /\ op' = NoRequest /\ loc' = NoLocals /\ res' = r /\ pc' = "idle"
      /\ UNCHANGED <<flash, cur, free, nextSeq, gc, gaveUp>>
  BY DEF Return
<1>2. Called'
  BY <1>1, NoLocalsFacts DEF Called, Mount, WritePcs, Moves, Late
<1> QED BY <1>1, <1>2, QuietCalls, NoLocalsFacts DEF Quiet, PagesInv, TypeOK

LEMMA NotMoving ==
  ASSUME PagesInv, pc \notin {"off", "load", "list", "dup", "recover"} \cup Moves
  PROVE  Freeing = {} /\ Mounted /\ pc # "copy"
BY DEF PagesInv, MoveKnown, Mounted, Moves

LEMMA QuietMounting ==
  ASSUME PagesInv, NothingToRecover \/ EraseMismatched \/ EraseOrphans
  PROVE  PagesInv'
<1>1. Places \subseteq Places /\ FlashOK /\ Filled /\ Ordered
  BY DEF PagesInv, TypeOK
<1>2. CASE NothingToRecover
  <2>1. Freeing = {} /\ Mounted /\ pc # "copy" /\ pc' \in {"failed", "match"} /\ UNCHANGED <<flash, ram>>
    BY <1>2 DEF NothingToRecover, Mounted
  <2>2. Called'
    BY <1>2, <2>1 DEF NothingToRecover, PagesInv, Called, Mount, WritePcs, Moves, Late, ram
  <2> QED BY <2>1, <2>2, QuietCalls DEF ram, PagesInv, TypeOK, Quiet
<1>3. CASE EraseMismatched
  <2>1. /\ UNCHANGED ram /\ pc = "match" /\ pc' \in {"match", "orphan"}
        /\ UNCHANGED flash \/ \E a \in Places : Erase(a)
    <3>1. CASE Mismatched = {}
      BY <1>3, <3>1 DEF EraseMismatched
    <3>2. CASE Mismatched # {}
      <4> DEFINE m == Earliest(Mismatched)
      <4>1. m \in Mismatched
        BY <1>1, <3>2, EarliestIn DEF Mismatched
      <4>2. m \in IndexOf(At(m).key, At(m).ver) /\ IndexOf(At(m).key, At(m).ver) \subseteq Places
        BY <4>1 DEF Mismatched, IndexOf, Indexes
      <4>3. Earliest(IndexOf(At(m).key, At(m).ver)) \in Places
        BY <1>1, <4>2, EarliestIn
      <4> HIDE DEF m
      <4> QED BY <1>3, <3>2, <4>3 DEF EraseMismatched, m
    <3> QED BY <3>1, <3>2
  <2>2. Freeing = {} /\ Mounted /\ pc # "copy"
    BY <2>1, NotMoving DEF Moves
  <2>3. Called'
    BY <2>1 DEF PagesInv, Called, Mount, WritePcs, Moves, Late, ram
  <2> QED BY <2>1, <2>2, <2>3, QuietCalls DEF ram, PagesInv, TypeOK, Quiet
<1>4. CASE EraseOrphans
  <2>1. /\ UNCHANGED <<cur, free, nextSeq, gc, op, loc, res>> /\ gaveUp' \in BOOLEAN
        /\ pc = "orphan" /\ pc' \in {"orphan", "idle"}
        /\ UNCHANGED flash \/ \E a \in Places : Erase(a)
    <3>1. CASE Orphans = {}
      BY <1>4, <3>1 DEF EraseOrphans, PagesInv, TypeOK
    <3>2. CASE Orphans # {}
      <4>1. Earliest(Orphans) \in Places
        BY <1>1, <3>2, EarliestIn DEF Orphans
      <4> QED BY <1>4, <3>2, <4>1 DEF EraseOrphans, PagesInv, TypeOK
    <3> QED BY <3>1, <3>2
  <2>2. Freeing = {} /\ Mounted /\ pc # "copy"
    BY <2>1, NotMoving DEF Moves
  <2>3. Called'
    BY <2>1 DEF PagesInv, Called, Mount, WritePcs, Moves, Late
  <2> QED BY <2>1, <2>2, <2>3, QuietCalls DEF PagesInv, TypeOK, Quiet
<1> QED BY <1>2, <1>3, <1>4

LEMMA QuietBegin ==
  ASSUME PagesInv, BeginCall
  PROVE  PagesInv'
<1>1. /\ pc = "idle" /\ res' = "none" /\ UNCHANGED <<flash, cur, free, nextSeq, gc, loc, gaveUp>>
      /\ \/ op' \in Requests /\ pc' = "find"
         \/ pc' = "purge" /\ \E k \in Keys : op' = ReadRequest(k)
  BY DEF BeginCall
<1>2. Freeing = {} /\ Mounted /\ pc # "copy"
  BY <1>1, NotMoving DEF Moves
<1>3. Called'
  BY <1>1 DEF PagesInv, Called, Mount, WritePcs, Moves, Late, ReadRequest, Request
<1> QED BY <1>1, <1>2, <1>3, QuietCalls DEF PagesInv, TypeOK, Quiet, Results

LEMMA QuietWriting ==
  ASSUME PagesInv, WriteNothing \/ NoImprovement \/ NoRoom \/ NoNewPage \/ CleanUp \/ CleanedUp
  PROVE  PagesInv'
<1>1. FlashOK /\ Filled /\ Ordered
  BY DEF PagesInv, TypeOK
<1>2. CASE WriteNothing
  <2>1. pc = "find" /\ Return("ok")
    BY <1>2 DEF WriteNothing
  <2> QED BY <2>1, NotMoving, ReturnIsQuiet DEF Moves, Results
<1>3. CASE NoImprovement
  <2>1. pc = "chunk" /\ Return("no_space")
    BY <1>3 DEF NoImprovement
  <2> QED BY <2>1, NotMoving, ReturnIsQuiet DEF Moves, Results
<1>4. CASE NoRoom \/ NoNewPage
  <2>1. pc \in {"chunk", "new_page"} /\ pc' = "cleanup" /\ gaveUp' = TRUE
        /\ UNCHANGED <<flash, cur, free, nextSeq, gc, op, loc, res>>
    BY <1>4 DEF NoRoom, NoNewPage, GiveUp
  <2>2. Freeing = {} /\ Mounted /\ pc # "copy"
    BY <2>1, NotMoving DEF Moves
  <2>3. Called'
    BY <2>1 DEF PagesInv, Called, Mount, WritePcs, Moves, Late
  <2> QED BY <2>1, <2>2, <2>3, QuietCalls DEF PagesInv, TypeOK, Quiet
<1>5. CASE CleanUp
  <2>1. /\ pc = "cleanup" /\ pc' = "cleanup" /\ loc' = [loc EXCEPT !.i = @ + 1]
        /\ UNCHANGED <<cur, free, nextSeq, gc, op, res, gaveUp>>
        /\ UNCHANGED flash \/ \E a \in Places : Erase(a)
    <3> DEFINE hits == {a \in ChunksOf(op.key, 0, loc.i) : a[1] = loc.pages[loc.i + 1]}
    <3>1. hits \subseteq Places
      BY DEF ChunksOf
    <3>2. hits = {} => UNCHANGED flash
      BY <1>5 DEF CleanUp
    <3>3. hits # {} => Erase(Earliest(hits)) /\ Earliest(hits) \in Places
      BY <1>1, <1>5, <3>1, EarliestIn DEF CleanUp
    <3> HIDE DEF hits
    <3>4. UNCHANGED flash \/ \E a \in Places : Erase(a)
      BY <3>2, <3>3
    <3> QED BY <1>5, <3>4 DEF CleanUp
  <2>2. Freeing = {} /\ Mounted /\ pc # "copy"
    BY <2>1, NotMoving DEF Moves
  <2>3. loc' \in Locals
    BY <2>1 DEF PagesInv, TypeOK, Locals
  <2>4. Called'
    BY <2>1 DEF PagesInv, Called, Mount, WritePcs, Moves, Late
  <2> QED BY <2>1, <2>2, <2>3, <2>4, QuietCalls DEF PagesInv, TypeOK, Quiet
<1>6. CASE CleanedUp
  <2>1. pc = "cleanup" /\ Return("no_space")
    BY <1>6 DEF CleanedUp
  <2> QED BY <2>1, NotMoving, ReturnIsQuiet DEF Moves, Results
<1> QED BY <1>2, <1>3, <1>4, <1>5, <1>6

LEMMA QuietErasing ==
  ASSUME PagesInv, Erasing
  PROVE  PagesInv'
<1>1. FlashOK /\ Filled /\ Ordered /\ loc \in Locals /\ TypeOK
  BY DEF PagesInv, TypeOK
<1>r. ASSUME NEW r \in Results, Return(r), pc \in {"find", "old_index", "old_chunks", "return", "purge"}
      PROVE  PagesInv'
  BY <1>r, NotMoving, ReturnIsQuiet DEF Moves
<1>l. \A k \in Nat : [loc EXCEPT !.i = k] \in Locals
  BY <1>1 DEF Locals
<1>i. loc.i + 1 \in Nat
  BY <1>1 DEF Locals
<1>2. CASE EraseFind
  <2> DEFINE a == Earliest(Existing)
  <2>1. a \in Places
    BY <1>1, <1>2, EarliestIn DEF EraseFind, Existing, Indexes
  <2>2. At(a).ver \in Version
    BY <1>1, <2>1, PlaceFacts, ItemKinds DEF PlaceFactsD
  <2>3. /\ pc = "find" /\ pc' = "old_index" /\ op.kind = "erase"
        /\ loc' = [loc EXCEPT !.prev = At(a).ver]
        /\ UNCHANGED <<flash, cur, free, nextSeq, gc, op, res, gaveUp>>
    BY <1>2 DEF EraseFind
  <2> HIDE DEF a
  <2>4. loc' \in Locals /\ loc'.prev # -1
    BY <1>1, <2>2, <2>3 DEF Locals, Version
  <2>5. Called'
    BY <2>3, <2>4 DEF Called, Mount, WritePcs, Moves, Late
  <2> QED BY <2>3, <2>4, <2>5, NotMoving, QuietCalls DEF PagesInv, TypeOK, Quiet, Moves
<1>3. CASE EraseMissing
  BY <1>3, <1>r DEF EraseMissing, Results
<1>4. CASE EraseOldIndex
  <2> DEFINE S == IndexOf(op.key, loc.prev)
             a == Earliest(S)
  <2>1. CASE S = {}
    BY <1>4, <1>r, <2>1 DEF EraseOldIndex, Results
  <2>2. CASE S # {}
    <3>1. a \in S /\ a \in Places
      BY <1>1, <2>2, EarliestIn DEF IndexOf, Indexes
    <3>2. At(a).count \in Nat
      BY <1>1, <3>1, PlaceFacts, ItemKinds DEF PlaceFactsD, IndexOf, Indexes
    <3>3. /\ pc = "old_index" /\ pc' = "old_chunks" /\ Erase(a)
          /\ loc' = [loc EXCEPT !.count = At(a).count, !.i = 0]
          /\ UNCHANGED <<cur, free, nextSeq, gc, op, res, gaveUp>>
      BY <1>4, <2>2 DEF EraseOldIndex
    <3> HIDE DEF a
    <3>4. loc' \in Locals /\ loc'.prev = loc.prev
      BY <1>1, <3>2, <3>3 DEF Locals
    <3>5. Called'
      BY <3>3, <3>4 DEF PagesInv, Called, Mount, WritePcs, Moves, Late
    <3> QED BY <3>1, <3>3, <3>4, <3>5, NotMoving, QuietCalls DEF PagesInv, TypeOK, Quiet, Moves
  <2> QED BY <2>1, <2>2
<1>5. CASE EraseOldChunk
  <2>1. CASE OldChunk = {}
    BY <1>5, <1>r, <2>1 DEF EraseOldChunk, Results
  <2>2. CASE OldChunk # {}
    <3>1. Earliest(OldChunk) \in Places
      BY <1>1, <2>2, EarliestIn DEF OldChunk, ChunksOf
    <3>2. /\ pc = "old_chunks" /\ pc' = "old_chunks" /\ Erase(Earliest(OldChunk))
          /\ loc' = [loc EXCEPT !.i = loc.i + 1]
          /\ UNCHANGED <<cur, free, nextSeq, gc, op, res, gaveUp>>
      BY <1>5, <2>2 DEF EraseOldChunk
    <3>3. loc' \in Locals /\ loc'.prev = loc.prev
      BY <1>1, <1>i, <1>l, <3>2 DEF Locals
    <3>4. Called'
      BY <3>2, <3>3 DEF PagesInv, Called, Mount, WritePcs, Moves, Late
    <3> QED BY <3>1, <3>2, <3>3, <3>4, NotMoving, QuietCalls DEF PagesInv, TypeOK, Quiet, Moves
  <2> QED BY <2>1, <2>2
<1>6. CASE Finish
  BY <1>6, <1>r DEF Finish, Results
<1>7. CASE EraseAll
  <2>1. CASE InNamespace = {}
    BY <1>7, <1>r, <2>1 DEF EraseAll, Results
  <2>2. CASE InNamespace # {}
    <3>1. Earliest(InNamespace) \in Places
      BY <1>1, <2>2, EarliestIn DEF InNamespace
    <3>2. pc = "find" /\ Erase(Earliest(InNamespace)) /\ UNCHANGED <<pc, ram>>
      BY <1>7, <2>2 DEF EraseAll
    <3>3. Called'
      BY <3>2 DEF PagesInv, Called, Mount, WritePcs, Moves, Late, ram
    <3> QED BY <3>1, <3>2, <3>3, NotMoving, QuietCalls DEF PagesInv, TypeOK, Quiet, Moves, ram
  <2> QED BY <2>1, <2>2
<1>8. CASE Purge
  <2>1. CASE loc.i < 2 /\ Indexes(op.key) # {}
    <3>1. Earliest(Indexes(op.key)) \in Places
      BY <1>1, <2>1, EarliestIn DEF Indexes
    <3>2. /\ pc = "purge" /\ pc' = "purge" /\ Erase(Earliest(Indexes(op.key)))
          /\ loc' = [loc EXCEPT !.i = loc.i + 1]
          /\ UNCHANGED <<cur, free, nextSeq, gc, op, res, gaveUp>>
      BY <1>8, <2>1 DEF Purge
    <3>3. loc' \in Locals
      BY <1>1, <1>i, <1>l, <3>2
    <3>4. Called'
      BY <3>2, <3>3 DEF PagesInv, Called, Mount, WritePcs, Moves, Late
    <3> QED BY <3>1, <3>2, <3>3, <3>4, NotMoving, QuietCalls DEF PagesInv, TypeOK, Quiet, Moves
  <2>2. CASE ~(loc.i < 2 /\ Indexes(op.key) # {}) /\ Chunks(op.key) # {}
    <3>1. Earliest(Chunks(op.key)) \in Places
      BY <1>1, <2>2, EarliestIn DEF Chunks
    <3>2. pc = "purge" /\ Erase(Earliest(Chunks(op.key))) /\ UNCHANGED <<pc, ram>>
      BY <1>8, <2>2 DEF Purge
    <3>3. Called'
      BY <3>2 DEF PagesInv, Called, Mount, WritePcs, Moves, Late, ram
    <3> QED BY <3>1, <3>2, <3>3, NotMoving, QuietCalls DEF PagesInv, TypeOK, Quiet, Moves, ram
  <2>3. CASE ~(loc.i < 2 /\ Indexes(op.key) # {}) /\ Chunks(op.key) = {}
    BY <1>8, <1>r, <2>3 DEF Purge, Results
  <2> QED BY <2>1, <2>2, <2>3
<1> QED BY <1>2, <1>3, <1>4, <1>5, <1>6, <1>7, <1>8 DEF Erasing

-----------------------------------------------------------------------------
(* Writing.                                                                *)

LEMMA TailroomFacts ==
  ASSUME FlashOK, Filled, NEW p \in Page
  PROVE  /\ Tailroom(p) \in Nat
         /\ StateOf(p) = "uninit" => Tailroom(p) >= SmallTail
         /\ Tailroom(p) > 0 => StateOf(p) # "full" /\ NextFree(p) + 1 + Tailroom(p) <= EntryCount
<1>1. /\ StateOf(p) \in {"uninit", "active", "full", "freeing"} /\ NextFree(p) \in Nat
      /\ NextFree(p) <= EntryCount
  BY PageFacts DEF PageFactsD, Filled
<1>2. StateOf(p) = "uninit" => NextFree(p) = 0
  BY DEF Filled, NextFree, ErasedPage
<1> QED BY <1>1, <1>2, SizeAssumption DEF Tailroom

LEMMA PieceFacts ==
  ASSUME TypeOK, Filled, op.kind = "write", loc.off <= Len(op.val), cur \in Page
  PROVE  /\ Rest \in Nat /\ Piece \in Seq(Unit) /\ Len(Piece) \in Nat
         /\ Len(Piece) <= Rest /\ Len(Piece) <= Tailroom(cur)
         /\ loc.off + Len(Piece) <= Len(op.val)
         /\ Rest <= Tailroom(cur) => Len(Piece) = Rest
<1>1. op.val \in Seq(Unit) /\ Len(op.val) \in Nat /\ loc.off \in Nat /\ Tailroom(cur) \in Nat
  BY OpFacts, ValueFacts, TailroomFacts DEF TypeOK, Locals
<1>2. Rest \in Nat /\ Rest = Len(op.val) - loc.off
  BY <1>1 DEF Rest
<1> DEFINE n == IF Rest > Tailroom(cur) THEN Tailroom(cur) ELSE Rest
<1>3. n \in Nat /\ n <= Rest /\ n <= Tailroom(cur) /\ (Rest <= Tailroom(cur) => n = Rest)
  BY <1>1, <1>2
<1>4. Piece = SubSeq(op.val, loc.off + 1, loc.off + n)
  BY DEF Piece
<1> HIDE DEF n
<1>5. loc.off + n <= Len(op.val) /\ loc.off + n \in Nat
  BY <1>1, <1>2, <1>3
<1>6. Piece \in Seq(Unit) /\ Len(Piece) = n
  <2>1. loc.off + 1 \in Int /\ loc.off + n \in Int
    BY <1>1, <1>3
  <2>2. \A i \in loc.off + 1 .. loc.off + n : op.val[i] \in Unit
    BY <1>1, <1>3, <1>5, ElementOfSeq
  <2>3. ASSUME NEW s \in Seq(Unit), NEW m \in Int, NEW k \in Int, \A i \in m .. k : s[i] \in Unit
        PROVE  SubSeq(s, m, k) \in Seq(Unit) /\ Len(SubSeq(s, m, k)) = IF m <= k THEN k - m + 1 ELSE 0
    BY <2>3, SubSeqProperties
  <2>4. /\ SubSeq(op.val, loc.off + 1, loc.off + n) \in Seq(Unit)
        /\ Len(SubSeq(op.val, loc.off + 1, loc.off + n)) =
             IF loc.off + 1 <= loc.off + n THEN (loc.off + n) - (loc.off + 1) + 1 ELSE 0
    BY <1>1, <2>1, <2>2, <2>3, Zenon
  <2>5. (IF loc.off + 1 <= loc.off + n THEN (loc.off + n) - (loc.off + 1) + 1 ELSE 0) = n
    BY <1>1, <1>3
  <2> QED BY <1>4, <2>4, <2>5
<1> QED BY <1>2, <1>3, <1>5, <1>6

LEMMA ChunkIsItem ==
  ASSUME TypeOK, Filled, op.kind = "write", loc.off <= Len(op.val), cur \in Page
  PROVE  LET c == Chunk(op.key, loc.ver, Count, Piece)
         IN  c \in Item /\ Span(c) = 1 + Len(Piece)
<1>1. op.key \in Keys /\ loc.ver \in Version /\ Count \in Nat /\ Piece \in Seq(Unit)
  BY OpFacts, PieceFacts, LenProperties DEF TypeOK, Locals, Count
<1> QED BY <1>1 DEF Chunk, Item, Span

LEMMA IndexIsItem ==
  ASSUME TypeOK, op.kind = "write"
  PROVE  LET c == Index(op.key, loc.ver, Count, Len(op.val))
         IN  c \in Item /\ Span(c) = 1
<1>1. op.key \in Keys /\ loc.ver \in Version /\ Count \in Nat /\ Len(op.val) \in Nat
  BY OpFacts, LenProperties DEF TypeOK, Locals, Count
<1> QED BY <1>1 DEF Index, Item, Span

LEMMA PagesOfWriteFind ==
  ASSUME PagesInv, WriteFind
  PROVE  PagesInv'
<1>1. Freeing = {} /\ Mounted /\ pc # "copy" /\ pc = "find" /\ op.kind = "write"
  BY NotMoving DEF WriteFind, Moves
<1>2. CASE Len(op.val) > (PageCount - 1) * (EntryCount - 1)
  BY <1>1, <1>2, ReturnIsQuiet DEF WriteFind, Results
<1>3. CASE ~(Len(op.val) > (PageCount - 1) * (EntryCount - 1))
  <2> DEFINE v == At(Earliest(Existing)).ver
  <2>1. Existing # {} => v \in Version /\ NextVersion(v) \in Version /\ NextVersion(v) # v /\ v # -1
    <3>1. Existing # {} => Earliest(Existing) \in Places
      BY EarliestIn DEF Existing, Indexes, PagesInv, TypeOK
    <3>2. Existing # {} => v \in Version
      BY <3>1, PlaceFacts, ItemKinds DEF PlaceFactsD, PagesInv, TypeOK
    <3> HIDE DEF v
    <3> QED BY <3>2 DEF Version, NextVersion
  <2>2. /\ pc' = "chunk" /\ UNCHANGED <<flash, cur, free, nextSeq, gc, op, res, gaveUp>>
        /\ loc' = IF Existing = {} THEN NoLocals ELSE [NoLocals EXCEPT !.ver = NextVersion(v), !.prev = v]
    BY <1>3 DEF WriteFind
  <2> HIDE DEF v
  <2>3. /\ loc' \in Locals /\ loc'.off = 0 /\ loc'.pages = <<>>
        /\ (loc'.prev # -1 => loc'.prev # loc'.ver)
    BY <2>1, <2>2, NoLocalsFacts DEF Locals
  <2>4. Called'
    <3>1. 0 <= Len(op.val)
      BY <1>1, OpFacts DEF PagesInv, TypeOK
    <3> QED BY <1>1, <2>2, <2>3, <3>1 DEF Called, Mount, WritePcs, Moves, Late
  <2>5. FlashOK' /\ Filled' /\ SamePages
    BY <2>2 DEF PagesInv, TypeOK, FlashOK, Filled, SamePages, Page, PageType, StateOf, Items, NextFree
  <2>6. Ordered' /\ Listing' /\ Freeing' = {}
    BY <1>1, <2>2, <2>5, PagesStay, ListingStays DEF PagesInv, TypeOK
  <2>7. MoveKnown'
    BY <2>2, <2>6 DEF MoveKnown, Moves
  <2>8. Room'
    BY <2>2, <2>3 DEF Room, Count
  <2>9. TypeOK'
    BY <2>2, <2>3, <2>5 DEF PagesInv, TypeOK, Page, Steps, WritePcs
  <2> QED BY <2>4, <2>5, <2>6, <2>7, <2>8, <2>9 DEF PagesInv
<1> QED BY <1>2, <1>3

LEMMA PagesOfSkipPage ==
  ASSUME PagesInv, SkipPage
  PROVE  PagesInv'
<1>1. /\ pc = "chunk" /\ TooSmall /\ pc' = "close" /\ loc' = [loc EXCEPT !.tail = Tailroom(cur)]
      /\ UNCHANGED <<flash, cur, free, nextSeq, gc, op, res, gaveUp>>
  BY DEF SkipPage
<1>2. Freeing = {} /\ Mounted /\ pc # "copy"
  BY <1>1, NotMoving DEF Moves
<1>3. cur \in Page /\ FlashOK /\ Filled
  BY <1>2 DEF PagesInv, TypeOK, Listing
<1>4. Tailroom(cur) \in Nat /\ cur \in InUse
  BY <1>1, <1>3, TailroomFacts, SizeAssumption DEF TooSmall, InUse
<1>5. loc' \in Locals /\ loc'.off = loc.off /\ loc'.prev = loc.prev /\ loc'.ver = loc.ver
  BY <1>1, <1>4 DEF PagesInv, TypeOK, Locals
<1>6. Called'
  BY <1>1, <1>5 DEF PagesInv, Called, Mount, WritePcs, Moves, Late
<1>7. FlashOK' /\ Filled' /\ SamePages
  BY <1>1 DEF PagesInv, TypeOK, FlashOK, Filled, SamePages, Page, PageType, StateOf, Items, NextFree
<1>8. Ordered' /\ Listing' /\ Freeing' = {} /\ InUse' = InUse
  BY <1>1, <1>2, <1>7, PagesStay, ListingStays DEF PagesInv, TypeOK
<1>9. MoveKnown' /\ Room'
  BY <1>1, <1>4, <1>8 DEF MoveKnown, Moves, Room
<1>10. TypeOK'
  BY <1>1, <1>5, <1>7 DEF PagesInv, TypeOK, Page, Steps, WritePcs
<1> QED BY <1>6, <1>7, <1>8, <1>9, <1>10 DEF PagesInv

\* What a step does to the pages when it writes to the current one.
LEMMA PagesOfCurrent ==
  ASSUME PagesInv, pc = "chunk", UNCHANGED <<cur, free, nextSeq, gc>>,
         StateOf(cur) \in {"uninit", "active"}, FlashOK',
         flash'[cur].st = "active",
         flash'[cur].seq = IF StateOf(cur) = "uninit" THEN nextSeq - 1 ELSE flash[cur].seq,
         \A p \in Page \ {cur} : flash'[p] = flash[p]
  PROVE  Ordered' /\ Listing' /\ Freeing' = {} /\ cur \in InUse'
<1>1. Freeing = {} /\ Mounted /\ cur \in Page /\ Listing /\ Ordered /\ FlashOK
  BY NotMoving DEF PagesInv, Moves, Listing, TypeOK
<1>2. flash'[cur].seq = nextSeq - 1 /\ nextSeq \in Nat /\ nextSeq >= 1
  BY <1>1 DEF Listing, InUse, PagesInv, TypeOK
<1>3. InUse' = InUse \cup {cur} /\ Freeing' = {}
  BY <1>1 DEF InUse, Freeing, StateOf, Page
<1>4. \A p \in Page \ {cur} : StateOf(p)' = StateOf(p) /\ flash'[p].seq = flash[p].seq
                              /\ flash[p].seq \in Nat /\ (p \in InUse => flash[p].seq < nextSeq - 1)
  BY <1>1, PageFacts DEF StateOf, PageFactsD, Listing
<1>5. \A p \in Page \ {cur} : StateOf(p) # "active"
  BY <1>1 DEF Listing
<1>6. StateOf(cur)' = "active" /\ cur' = cur
  BY DEF StateOf
<1>7. InUse \subseteq Page /\ \A p \in InUse' : p \in InUse \/ p = cur
  BY <1>3 DEF InUse
<1>8. Ordered'
  <2>1. \A p, q \in InUse' : flash'[p].seq = flash'[q].seq => p = q
    BY <1>1, <1>2, <1>4, <1>7 DEF Ordered
  <2>2. \A p, q \in InUse' : StateOf(p)' = "active" => flash'[q].seq <= flash'[p].seq
    BY <1>1, <1>2, <1>4, <1>5, <1>7
  <2> QED BY <1>3, <2>1, <2>2 DEF Ordered
<1>9. Listing'
  <2>1. \A i \in DOMAIN free : free[i] \in Page /\ StateOf(free[i]) = "uninit" /\ free[i] # cur
    BY <1>1, ElementOfSeq, LenProperties DEF Listing, PagesInv, TypeOK
  <2>2. \A i \in DOMAIN free : StateOf(free[i])' = "uninit"
    BY <1>4, <2>1
  <2>3. \A p \in InUse' : flash'[p].seq < nextSeq /\ (p # cur => flash'[p].seq < nextSeq - 1)
    BY <1>2, <1>4, <1>7
  <2>4. \A p \in Page : StateOf(p)' = "active" => p = cur
    BY <1>4, <1>5
  <2> QED BY <1>1, <1>2, <2>1, <2>2, <2>3, <2>4 DEF Listing, Page
<1> QED BY <1>1, <1>3, <1>8, <1>9

LEMMA PagesOfWriteChunk ==
  ASSUME PagesInv, WriteChunk
  PROVE  PagesInv'
<1> DEFINE x == Chunk(op.key, loc.ver, Count, Piece)
<1>1. /\ pc = "chunk" /\ Tailroom(cur) > 0 /\ Put(x)
      /\ loc' = [loc EXCEPT !.off = @ + Len(Piece), !.pages = Append(@, cur)]
      /\ pc' = IF Rest > Len(Piece) \/ Tailroom(cur) = Len(Piece) THEN "close" ELSE "chunk"
      /\ UNCHANGED <<cur, free, nextSeq, gc, op, res, gaveUp>>
  BY DEF WriteChunk
<1>2. /\ Freeing = {} /\ Mounted /\ cur \in Page /\ FlashOK /\ Filled /\ TypeOK
      /\ nextSeq \in Nat /\ nextSeq >= 1 /\ loc \in Locals
      /\ op.kind = "write" /\ loc.off <= Len(op.val) /\ (loc.prev # -1 => loc.prev # loc.ver)
  BY <1>1, NotMoving DEF PagesInv, Moves, Listing, TypeOK, Called, WritePcs
<1>3. x \in Item /\ Span(x) = 1 + Len(Piece)
  BY <1>2, ChunkIsItem
<1>4. /\ Len(Piece) \in Nat /\ Len(Piece) <= Tailroom(cur) /\ loc.off + Len(Piece) <= Len(op.val)
      /\ Tailroom(cur) \in Nat /\ NextFree(cur) + 1 + Tailroom(cur) <= EntryCount /\ StateOf(cur) # "full"
      /\ NextFree(cur) \in Nat
  BY <1>1, <1>2, PieceFacts, TailroomFacts, PageFacts DEF PageFactsD
<1>5. StateOf(cur) \in {"uninit", "active"}
  BY <1>2, <1>4, PageFacts DEF PageFactsD, Freeing
<1>6. NextFree(cur) + Span(x) <= EntryCount
  BY <1>3, <1>4, SizeAssumption
<1> HIDE DEF x
<1>7. /\ FlashOK' /\ Filled'
      /\ flash'[cur].st = "active"
      /\ flash'[cur].seq = IF StateOf(cur) = "uninit" THEN nextSeq - 1 ELSE flash[cur].seq
      /\ flash'[cur].next = NextFree(cur) + Span(x)
      /\ \A p \in Page \ {cur} : flash'[p] = flash[p]
  BY <1>1, <1>2, <1>3, <1>5, <1>6, PutPages
<1>8. Ordered' /\ Listing' /\ Freeing' = {} /\ cur \in InUse'
  BY <1>1, <1>5, <1>7, PagesOfCurrent
<1>9. /\ loc' \in Locals /\ loc'.off = loc.off + Len(Piece) /\ loc'.prev = loc.prev
      /\ loc'.ver = loc.ver
  <2>1. loc.off + Len(Piece) \in Nat /\ Append(loc.pages, cur) \in Seq(Page)
    BY <1>2, <1>4 DEF Locals
  <2> QED BY <1>1, <1>2, <2>1 DEF Locals
<1>10. Called'
  BY <1>1, <1>2, <1>4, <1>9 DEF Called, Mount, WritePcs, Moves, Late
<1>11. MoveKnown'
  BY <1>1, <1>8 DEF MoveKnown, Moves
<1>12. Room'
  <2>1. pc' = "chunk" => flash'[cur].next < EntryCount
    BY <1>1, <1>3, <1>4, <1>7, SizeAssumption
  <2> QED BY <1>1, <1>7, <2>1 DEF Room, Moves, NextFree, StateOf
<1>13. TypeOK'
  BY <1>1, <1>2, <1>7, <1>9 DEF TypeOK, Page, Steps, WritePcs
<1> QED BY <1>7, <1>8, <1>10, <1>11, <1>12, <1>13 DEF PagesInv

LEMMA PagesOfWriteIndex ==
  ASSUME PagesInv, WriteIndex
  PROVE  PagesInv'
<1> DEFINE x == Index(op.key, loc.ver, Count, Len(op.val))
<1>1. /\ pc = "chunk" /\ Count > 0 /\ Put(x)
      /\ pc' = IF loc.prev = -1 THEN "return" ELSE "old_index"
      /\ UNCHANGED ram
  BY DEF WriteIndex
<1>2. /\ Freeing = {} /\ Mounted /\ cur \in Page /\ FlashOK /\ Filled /\ TypeOK
      /\ nextSeq \in Nat /\ nextSeq >= 1
      /\ op.kind = "write" /\ StateOf(cur) # "full" /\ NextFree(cur) < EntryCount
  BY <1>1, NotMoving DEF PagesInv, Moves, Listing, TypeOK, Called, WritePcs, Room
<1>3. x \in Item /\ Span(x) = 1
  BY <1>2, IndexIsItem
<1>5. StateOf(cur) \in {"uninit", "active"} /\ NextFree(cur) \in Nat
  BY <1>2, PageFacts DEF PageFactsD, Freeing
<1>6. NextFree(cur) + Span(x) <= EntryCount
  BY <1>2, <1>3, <1>5, SizeAssumption
<1> HIDE DEF x
<1>7. /\ FlashOK' /\ Filled'
      /\ flash'[cur].st = "active"
      /\ flash'[cur].seq = IF StateOf(cur) = "uninit" THEN nextSeq - 1 ELSE flash[cur].seq
      /\ \A p \in Page \ {cur} : flash'[p] = flash[p]
  BY <1>1, <1>2, <1>3, <1>5, <1>6, PutPages
<1>8. Ordered' /\ Listing' /\ Freeing' = {} /\ cur \in InUse'
  BY <1>1, <1>5, <1>7, PagesOfCurrent DEF ram
<1>10. Called'
  BY <1>1, <1>2 DEF Called, Mount, WritePcs, Moves, Late, ram
<1>11. MoveKnown' /\ Room'
  BY <1>1, <1>8 DEF MoveKnown, Moves, Room
<1>13. TypeOK'
  BY <1>1, <1>2, <1>7 DEF TypeOK, Page, Steps, WritePcs, Late, ram
<1> QED BY <1>7, <1>8, <1>10, <1>11, <1>13 DEF PagesInv

-----------------------------------------------------------------------------
(* Moving on to another page.                                              *)

LEMMA PagesOfClosePage ==
  ASSUME PagesInv, ClosePage
  PROVE  PagesInv'
<1>1. /\ pc = "close" /\ pc' = "new_page" /\ UNCHANGED ram
      /\ flash' = IF StateOf(cur) = "full" THEN flash ELSE [flash EXCEPT ![cur].st = "full"]
  BY DEF ClosePage
<1>2. /\ Freeing = {} /\ Mounted /\ cur \in Page /\ FlashOK /\ Filled /\ TypeOK /\ Ordered /\ Listing
      /\ cur \in InUse /\ nextSeq \in Nat
  BY <1>1, NotMoving DEF PagesInv, Moves, Listing, TypeOK, MoveKnown
<1>3. /\ FlashOK'
      /\ \A p \in Page : /\ flash'[p].seq = flash[p].seq /\ flash'[p].items = flash[p].items
                         /\ flash'[p].used = flash[p].used /\ flash'[p].next = flash[p].next
                         /\ flash'[p].st = IF p = cur THEN "full" ELSE flash[p].st
                         /\ p # cur => flash'[p] = flash[p]
  <2>1. CASE StateOf(cur) = "full"
    BY <1>1, <1>2, <2>1 DEF FlashOK, StateOf, PageType, Page
  <2>2. CASE StateOf(cur) # "full"
    BY <1>1, <1>2, <2>2 DEF FlashOK, StateOf, PageType, Page
  <2> QED BY <2>1, <2>2
<1>4. \A p \in Page : StateOf(p)' = IF p = cur THEN "full" ELSE StateOf(p)
  BY <1>3 DEF StateOf
<1>5. Filled'
  BY <1>2, <1>3, <1>4 DEF Filled, Items, NextFree, Page, StateOf
<1>6. InUse' = InUse /\ Freeing' = {} /\ InUse \subseteq Page
  BY <1>2, <1>4 DEF InUse, Freeing, Page
<1>7. \A p \in Page : StateOf(p)' # "active"
  BY <1>2, <1>4 DEF Listing
<1>8. Ordered'
  BY <1>2, <1>3, <1>6, <1>7 DEF Ordered
<1>9. Listing'
  <2>1. \A i \in DOMAIN free : free[i] \in Page /\ StateOf(free[i]) = "uninit" /\ free[i] # cur
    BY <1>1, <1>2, ElementOfSeq, LenProperties DEF Listing, TypeOK
  <2>2. \A i \in DOMAIN free : StateOf(free[i])' = "uninit"
    BY <1>1, <1>4, <2>1 DEF ram
  <2>3. \A p \in InUse' : flash'[p].seq < nextSeq /\ (p # cur => flash'[p].seq < nextSeq - 1)
    BY <1>2, <1>3, <1>6 DEF Listing
  <2> QED BY <1>1, <1>2, <1>3, <1>7, <2>1, <2>2, <2>3 DEF Listing, Page, ram
<1>10. MoveKnown'
  BY <1>1, <1>2, <1>6, <1>7 DEF MoveKnown, Moves, ram
<1>11. Room' /\ Called'
  BY <1>1 DEF PagesInv, Room, Called, Mount, WritePcs, Moves, Late, ram
<1>12. TypeOK'
  BY <1>1, <1>2, <1>3 DEF TypeOK, Page, Steps, WritePcs, ram
<1> QED BY <1>3, <1>5, <1>8, <1>9, <1>10, <1>11, <1>12 DEF PagesInv

LEMMA HeadAndTail ==
  ASSUME free \in Seq(Page), free # <<>>
  PROVE  /\ Head(free) \in Page /\ Head(free) = free[1] /\ 1 \in DOMAIN free
         /\ Tail(free) \in Seq(Page) /\ DOMAIN Tail(free) = 1 .. Len(free) - 1
         /\ \A i \in 1 .. Len(free) - 1 : Tail(free)[i] = free[i + 1] /\ i + 1 \in DOMAIN free
         /\ \A i \in DOMAIN free : free[i] \in Page /\ i \in Nat
<1>1. DOMAIN free = 1 .. Len(free) /\ Len(free) \in Nat /\ Len(free) >= 1
  BY EmptySeq, LenProperties
<1> QED BY <1>1, HeadTailProperties, ElementOfSeq, LenProperties

LEMMA PagesOfTakeFreePage ==
  ASSUME PagesInv, TakeFreePage
  PROVE  PagesInv'
<1>1. /\ pc = "new_page" /\ Len(free) >= 2 /\ pc' = "chunk"
      /\ cur' = Head(free) /\ free' = Tail(free) /\ nextSeq' = nextSeq + 1
      /\ UNCHANGED <<flash, gc, op, loc, res, gaveUp>>
  BY DEF TakeFreePage, Activate
<1>2. /\ Freeing = {} /\ Mounted /\ FlashOK /\ Filled /\ TypeOK /\ Ordered /\ Listing
      /\ nextSeq \in Nat /\ nextSeq >= 1 /\ free \in Seq(Page) /\ free # <<>>
      /\ \A p \in Page : StateOf(p) # "active"
  BY <1>1, NotMoving DEF PagesInv, Moves, Listing, TypeOK, MoveKnown
<1>3. FlashOK' /\ Filled' /\ SamePages
  BY <1>1, <1>2 DEF FlashOK, Filled, SamePages, Page, PageType, StateOf, Items, NextFree
<1>4. Ordered' /\ Freeing' = {} /\ InUse' = InUse /\ \A p \in Page : StateOf(p)' = StateOf(p)
  BY <1>2, <1>3, PagesStay
<1>5. StateOf(Head(free)) = "uninit" /\ Head(free) \in Page /\ Head(free) \notin InUse
  BY <1>1, <1>2, HeadAndTail DEF Listing, InUse
<1>6. Listing'
  <2>1. \A i \in DOMAIN free' : StateOf(free'[i]) = "uninit" /\ free'[i] # cur' /\ free'[i] \in Page
    BY <1>1, <1>2, HeadAndTail DEF Listing
  <2>2. \A i, j \in DOMAIN free' : free'[i] = free'[j] => i = j
    <3>1. /\ DOMAIN free' = 1 .. Len(free) - 1
          /\ \A i \in 1 .. Len(free) - 1 : free'[i] = free[i + 1] /\ i + 1 \in DOMAIN free
      BY <1>1, <1>2, HeadAndTail
    <3>2. ASSUME NEW i \in DOMAIN free', NEW j \in DOMAIN free', free'[i] = free'[j] PROVE i = j
      <4>1. i + 1 = j + 1 /\ i \in Int /\ j \in Int
        BY <1>2, <3>1, <3>2 DEF Listing
      <4> QED BY <4>1
    <3> QED BY <3>2
  <2>3. \A p \in InUse' : flash'[p].seq < nextSeq' - 1 /\ flash'[p].seq < nextSeq' /\ p # cur'
    <3>1. \A p \in InUse : flash[p].seq \in Nat /\ flash[p].seq < nextSeq
      BY <1>2, PageFacts DEF PageFactsD, Listing, InUse
    <3> QED BY <1>1, <1>2, <1>4, <1>5, <3>1
  <2>4. \A i \in DOMAIN free' : (StateOf(free[i]))' = "uninit"
    BY <1>1, <2>1 DEF StateOf
  <2> QED BY <1>1, <1>2, <1>4, <1>5, <2>1, <2>2, <2>3, <2>4 DEF Listing, Page
<1>7. MoveKnown'
  BY <1>1, <1>4 DEF MoveKnown, Moves
<1>8. Room'
  <2>1. NextFree(Head(free)) = 0
    BY <1>2, <1>5 DEF Filled, NextFree, ErasedPage
  <2>2. StateOf(cur)' = "uninit" /\ NextFree(cur)' = 0
    BY <1>1, <1>5, <2>1 DEF StateOf, NextFree
  <2> QED BY <1>1, <2>2, SizeAssumption DEF Room
<1>9. Called'
  BY <1>1 DEF PagesInv, Called, Mount, WritePcs, Moves, Late
<1>10. TypeOK'
  BY <1>1, <1>2, <1>3, <1>5, HeadAndTail DEF TypeOK, Page, Steps, WritePcs
<1> QED BY <1>3, <1>4, <1>6, <1>7, <1>8, <1>9, <1>10 DEF PagesInv

LEMMA VictimIsInUse ==
  ASSUME FlashOK, Filled, InUse # {}
  PROVE  Victim \in InUse
<1> DEFINE U == {Unused(p) : p \in InUse}
           most == {p \in InUse : \A q \in InUse : Unused(q) <= Unused(p)}
           T == {flash[p].seq : p \in most}
<1>1. \A p \in InUse : Unused(p) \in Nat /\ Unused(p) <= EntryCount /\ flash[p].seq \in Nat
  <2>1. \A p \in InUse : flash[p].used \in Nat /\ flash[p].used <= EntryCount /\ flash[p].seq \in Nat
    BY PageFacts, SizeAssumption DEF PageFactsD, InUse, Filled
  <2> QED BY <2>1, SizeAssumption DEF Unused
<1>2. U \subseteq Nat /\ U # {} /\ \A u \in U : u <= EntryCount
  BY <1>1
<1>3. PICK u \in U : \A w \in U : w <= u
  BY <1>2, GreatestNatural, SizeAssumption
<1>4. most # {}
  BY <1>3
<1>5. T \subseteq Nat /\ T # {}
  BY <1>1, <1>4
<1>6. PICK t \in T : \A w \in T : t <= w
  BY <1>5, LeastNatural
<1>7. \E p \in most : \A q \in most : flash[p].seq <= flash[q].seq
  BY <1>6
<1> QED BY <1>7 DEF Victim

LEMMA PagesOfStartFreeing ==
  ASSUME PagesInv, StartFreeing
  PROVE  PagesInv'
<1>1. /\ pc = "new_page" /\ Unused(Victim) > 0 /\ pc' = "copy"
      /\ flash' = [flash EXCEPT ![Victim].st = "freeing"] /\ gc' = Victim
      /\ UNCHANGED <<cur, free, nextSeq, op, loc, res, gaveUp>>
  BY DEF StartFreeing
<1>2. /\ Freeing = {} /\ Mounted /\ FlashOK /\ Filled /\ TypeOK /\ Ordered /\ Listing
      /\ nextSeq \in Nat /\ nextSeq >= 1 /\ free \in Seq(Page)
      /\ \A p \in Page : StateOf(p) # "active"
      /\ cur \in InUse
  BY <1>1, NotMoving DEF PagesInv, Moves, Listing, TypeOK, MoveKnown
<1> DEFINE v == Victim
<1>3. v \in InUse /\ v \in Page
  BY <1>2, VictimIsInUse DEF InUse
<1>4. /\ FlashOK'
      /\ \A p \in Page : /\ flash'[p].seq = flash[p].seq /\ flash'[p].items = flash[p].items
                         /\ flash'[p].used = flash[p].used /\ flash'[p].next = flash[p].next
                         /\ flash'[p].st = IF p = v THEN "freeing" ELSE flash[p].st
                         /\ p # v => flash'[p] = flash[p]
  <2> HIDE DEF v
  <2>1. flash' = [flash EXCEPT ![v].st = "freeing"]
    BY <1>1 DEF v
  <2> QED BY <1>2, <1>3, <2>1 DEF FlashOK, PageType, Page
<1> PICK w \in Page : w = v
  BY <1>3
<1> HIDE DEF v
<1>5. \A p \in Page : StateOf(p)' = IF p = w THEN "freeing" ELSE StateOf(p)
  BY <1>4 DEF StateOf
<1>6. Filled'
  BY <1>2, <1>3, <1>4, <1>5 DEF Filled, Items, NextFree, Page, StateOf
<1>7. InUse' = InUse /\ Freeing' = {w} /\ InUse \subseteq Page
  <2>1. StateOf(w) # "uninit"
    BY <1>3 DEF InUse
  <2> QED BY <1>2, <1>5, <2>1 DEF InUse, Freeing, Page
<1>8. \A p \in Page : StateOf(p)' # "active"
  BY <1>2, <1>5
<1>9. Ordered'
  BY <1>2, <1>4, <1>7, <1>8 DEF Ordered
<1>10. Listing'
  <2>1. \A i \in DOMAIN free : free[i] \in Page /\ StateOf(free[i]) = "uninit"
    BY <1>2, ElementOfSeq, LenProperties DEF Listing
  <2>2. \A i \in DOMAIN free : StateOf(free[i])' = "uninit"
    BY <1>1, <1>3, <1>5, <2>1 DEF InUse
  <2>3. \A p \in InUse' : flash'[p].seq < nextSeq /\ (p # cur => flash'[p].seq < nextSeq - 1)
    BY <1>2, <1>4, <1>7 DEF Listing
  <2>4. cur \in InUse' => flash'[cur].seq = nextSeq - 1
    BY <1>2, <1>4, <1>7 DEF Listing
  <2> QED BY <1>1, <1>2, <1>8, <2>2, <2>3, <2>4 DEF Listing, Page
<1>11. MoveKnown'
  BY <1>1, <1>7, <1>8 DEF MoveKnown, Moves, v
<1>12. Room'
  <2>1. Unused(w)' = Unused(w)
    BY <1>4 DEF Unused
  <2>2. Unused(w)' > 0
    BY <1>1, <2>1 DEF v
  <2>3. Unused(gc)' > 0
    BY <1>1, <2>2 DEF v, Unused
  <2> QED BY <1>1, <2>3 DEF Room
<1>13. Called'
  BY <1>1 DEF PagesInv, Called, Mount, WritePcs, Moves, Late
<1>14. TypeOK'
  BY <1>1, <1>2, <1>3, <1>4, SizeAssumption DEF TypeOK, Page, Steps, WritePcs, Moves, v
<1> QED BY <1>4, <1>6, <1>9, <1>10, <1>11, <1>12, <1>13, <1>14 DEF PagesInv

\* A page filled with the first items of another.
LEMMA CopyFacts ==
  ASSUME NEW s \in Seq(Item), NEW sq \in Nat, Entries(s) <= EntryCount,
         \A i \in DOMAIN s : Span(s[i]) <= EntryCount
  PROVE  LET c == CopyOf(s, sq)
         IN  /\ c \in PageType /\ c.items = s /\ c.next \in Nat
             /\ c.st \in {"uninit", "active"} /\ (c.st = "uninit" => c = ErasedPage)
             /\ c.st = "active" => c.seq = sq
             /\ c.used = Entries(c.items) /\ c.used <= c.next /\ c.next <= Entries(s)
             /\ c.next <= EntryCount
             /\ \A i \in DOMAIN c.items : Span(c.items[i]) <= EntryCount
<1>1. Entries(s) \in Nat
  BY TakenIsFinite
<1>2. CASE s = <<>>
  <2>1. ErasedPage \in PageType
    BY EmptySeq DEF ErasedPage, PageType
  <2>2. CopyOf(s, sq) = ErasedPage
    BY <1>2 DEF CopyOf
  <2>3. /\ ErasedPage.items = <<>> /\ ErasedPage.next = 0 /\ ErasedPage.st = "uninit"
        /\ ErasedPage.used = 0
    BY DEF ErasedPage
  <2> QED BY <1>2, <2>1, <2>2, <2>3, NoEntries, SizeAssumption
<1>3. CASE s # <<>>
  BY <1>1, <1>3 DEF CopyOf, PageType
<1> QED BY <1>2, <1>3

\* A page that was erased is filled with copies of the first items of gc.
LEMMA CopiedPages ==
  ASSUME PagesInv, pc = "copy", free # <<>>, NEW s \in Seq(Item), Entries(s) <= EntryCount,
         \A i \in DOMAIN s : Span(s[i]) <= EntryCount,
         flash' = [flash EXCEPT ![Head(free)] = CopyOf(s, nextSeq)]
  PROVE  /\ FlashOK' /\ Filled' /\ Ordered' /\ Freeing' = Freeing
         /\ Head(free) \in Page /\ StateOf(Head(free)) = "uninit" /\ Head(free) \notin InUse
         /\ flash'[Head(free)] = CopyOf(s, nextSeq)
         /\ InUse' = IF CopyOf(s, nextSeq).st = "active" THEN InUse \cup {Head(free)} ELSE InUse
         /\ \A p \in Page \ {Head(free)} : flash'[p] = flash[p] /\ StateOf(p)' = StateOf(p)
<1> DEFINE h == Head(free)
           c == CopyOf(s, nextSeq)
<1>1. /\ FlashOK /\ Filled /\ Ordered /\ Listing /\ nextSeq \in Nat /\ free \in Seq(Page)
      /\ Mounted /\ \A p \in Page : StateOf(p) # "active"
  BY DEF PagesInv, TypeOK, MoveKnown, Mounted
<1>2. h \in Page /\ StateOf(h) = "uninit" /\ h \notin InUse
  BY <1>1, HeadAndTail DEF Listing, InUse
<1>3. /\ c \in PageType /\ c.items = s /\ c.st \in {"uninit", "active"}
      /\ (c.st = "uninit" => c = ErasedPage) /\ (c.st = "active" => c.seq = nextSeq)
      /\ c.used = Entries(c.items) /\ c.used <= c.next /\ c.next <= EntryCount
      /\ \A i \in DOMAIN c.items : Span(c.items[i]) <= EntryCount
  BY <1>1, CopyFacts
<1> PICK w \in Page : w = h
  BY <1>2
<1> HIDE DEF c, h
<1>4. /\ flash'[w] = c /\ \A p \in Page \ {w} : flash'[p] = flash[p]
      /\ FlashOK'
  <2>1. flash' = [flash EXCEPT ![w] = c]
    BY DEF h, c
  <2> QED BY <1>1, <1>3, <2>1 DEF FlashOK, Page
<1>5. /\ StateOf(w)' = c.st /\ \A p \in Page \ {w} : StateOf(p)' = StateOf(p)
  BY <1>4 DEF StateOf
<1>6. Filled'
  <2>1. ASSUME NEW q \in Page
        PROVE /\ flash'[q].st = "uninit" => flash'[q] = ErasedPage
              /\ flash'[q].used = Entries(flash'[q].items)
              /\ flash'[q].used <= flash'[q].next /\ flash'[q].next <= EntryCount
              /\ \A i \in DOMAIN flash'[q].items : Span(flash'[q].items[i]) <= EntryCount
    <3>1. CASE q = w
      BY <1>3, <1>4, <3>1
    <3>2. CASE q # w
      BY <1>1, <1>4, <3>2 DEF Filled, StateOf, Items, NextFree
    <3> QED BY <3>1, <3>2
  <2> QED BY <2>1 DEF Filled, StateOf, Items, NextFree, Page
<1>7. /\ Freeing' = Freeing /\ InUse' = IF c.st = "active" THEN InUse \cup {w} ELSE InUse
      /\ InUse \subseteq Page
  BY <1>2, <1>3, <1>5 DEF Freeing, InUse, Page
<1>8. \A p \in InUse : flash'[p] = flash[p] /\ StateOf(p)' = StateOf(p) /\ flash[p].seq \in Nat
                       /\ flash[p].seq < nextSeq /\ StateOf(p) # "active" /\ p # w
  BY <1>1, <1>2, <1>4, <1>5, PageFacts DEF InUse, PageFactsD, Listing
<1>9. Ordered'
  <2>1. CASE c.st # "active"
    <3>1. InUse' = InUse
      BY <1>7, <2>1
    <3> QED BY <1>1, <1>5, <1>7, <1>8, <2>1, <3>1 DEF Ordered
  <2>2. CASE c.st = "active"
    <3>1. InUse' = InUse \cup {w} /\ flash'[w].seq = nextSeq
      BY <1>3, <1>4, <1>7, <2>2
    <3>2. \A p, q \in InUse' : flash'[p].seq = flash'[q].seq => p = q
      BY <1>1, <1>8, <3>1 DEF Ordered
    <3>3. \A p, q \in InUse' : StateOf(p)' = "active" => flash'[q].seq <= flash'[p].seq
      BY <1>1, <1>8, <3>1
    <3> QED BY <1>1, <1>7, <3>2, <3>3 DEF Ordered
  <2> QED BY <2>1, <2>2
<1> QED BY <1>2, <1>4, <1>5, <1>6, <1>7, <1>9 DEF c, h

LEMMA PagesOfCopy ==
  ASSUME PagesInv, Copy
  PROVE  PagesInv'
<1> DEFINE s == Items(gc)
           h == Head(free)
           c == CopyOf(s, nextSeq)
<1>1. /\ pc = "copy" /\ free # <<>> /\ pc' = "reclaim"
      /\ cur' = Head(free) /\ free' = Tail(free) /\ nextSeq' = nextSeq + 1
      /\ flash' = [flash EXCEPT ![h] = c]
      /\ UNCHANGED <<gc, op, loc, res, gaveUp>>
  BY DEF Copy, Activate
<1>2. /\ Mounted /\ FlashOK /\ Filled /\ TypeOK /\ Ordered /\ Listing
      /\ nextSeq \in Nat /\ nextSeq >= 1 /\ free \in Seq(Page)
      /\ \A p \in Page : StateOf(p) # "active"
      /\ gc \in Freeing /\ gc \in Page /\ (op # NoRequest => Unused(gc) > 0)
  BY <1>1 DEF PagesInv, Moves, Listing, TypeOK, MoveKnown, Mounted, Room, Freeing
<1>3. /\ s \in Seq(Item) /\ Entries(s) \in Nat /\ Entries(s) = flash[gc].used /\ Entries(s) <= EntryCount
      /\ \A i \in DOMAIN s : Span(s[i]) <= EntryCount
  <2>1. s \in Seq(Item) /\ flash[gc].used \in Nat /\ NextFree(gc) \in Nat
    BY <1>2, PageFacts DEF PageFactsD
  <2> QED BY <1>2, <2>1, SizeAssumption DEF Filled
<1>4. /\ FlashOK' /\ Filled' /\ Ordered' /\ Freeing' = Freeing
      /\ h \in Page /\ StateOf(h) = "uninit" /\ h \notin InUse /\ flash'[h] = c
      /\ InUse' = IF c.st = "active" THEN InUse \cup {h} ELSE InUse
      /\ \A p \in Page \ {h} : flash'[p] = flash[p] /\ StateOf(p)' = StateOf(p)
  BY <1>1, <1>3, CopiedPages
<1>5. /\ c.items = s /\ c.st \in {"uninit", "active"} /\ (c.st = "active" => c.seq = nextSeq)
      /\ c.next <= Entries(s) /\ c.next \in Nat
  BY <1>2, <1>3, CopyFacts
<1>6. h # gc
  BY <1>2, <1>4 DEF Freeing
<1> PICK w \in Page : w = h
  BY <1>4
<1> HIDE DEF c, h
<1>7. StateOf(w)' = c.st /\ Items(w)' = s /\ Items(gc)' = s /\ w = cur'
  <2>1. Items(gc)' = flash'[gc].items
    BY <1>1 DEF Items
  <2> QED BY <1>1, <1>2, <1>4, <1>5, <1>6, <2>1 DEF StateOf, Items, h
<1>8. Listing'
  <2>1. \A i \in DOMAIN free' : StateOf(free'[i]) = "uninit" /\ free'[i] # w /\ free'[i] \in Page
    <3>1. /\ DOMAIN free' = 1 .. Len(free) - 1 /\ w = free[1]
          /\ \A i \in 1 .. Len(free) - 1 : free'[i] = free[i + 1]
      BY <1>1, <1>2, HeadAndTail DEF h
    <3>2. ASSUME NEW i \in 1 .. Len(free) - 1
          PROVE  /\ free[i + 1] # free[1] /\ free[i + 1] \in Page /\ StateOf(free[i + 1]) = "uninit"
      <4>1. i + 1 \in DOMAIN free /\ 1 \in DOMAIN free /\ i + 1 # 1 /\ free[i + 1] \in Page
        BY <1>1, <1>2, HeadAndTail, LenProperties
      <4> QED BY <1>2, <4>1 DEF Listing
    <3> QED BY <3>1, <3>2
  <2>2. \A i, j \in DOMAIN free' : free'[i] = free'[j] => i = j
    <3>1. /\ DOMAIN free' = 1 .. Len(free) - 1
          /\ \A i \in 1 .. Len(free) - 1 : free'[i] = free[i + 1] /\ i + 1 \in DOMAIN free
      BY <1>1, <1>2, HeadAndTail
    <3>2. ASSUME NEW i \in DOMAIN free', NEW j \in DOMAIN free', free'[i] = free'[j] PROVE i = j
      <4>1. i + 1 = j + 1 /\ i \in Int /\ j \in Int
        BY <1>2, <3>1, <3>2 DEF Listing
      <4> QED BY <4>1
    <3> QED BY <3>2
  <2>3. \A p \in InUse' : flash'[p].seq < nextSeq' /\ (p # w => flash'[p].seq < nextSeq' - 1)
    <3>1. \A p \in InUse : flash[p].seq \in Nat /\ flash[p].seq < nextSeq /\ p \in Page /\ p # w
      BY <1>2, <1>4, PageFacts DEF PageFactsD, Listing, InUse
    <3>2. w \in InUse' => flash'[w].seq = nextSeq
      BY <1>4, <1>5
    <3>3. \A p \in InUse' : p = w \/ (p \in InUse /\ flash'[p] = flash[p])
      BY <1>4, <3>1
    <3> QED BY <1>1, <1>2, <3>1, <3>2, <3>3
  <2>4. \A i \in DOMAIN free' : (StateOf(free[i]))' = "uninit"
    <3>1. \A p \in Page \ {w} : flash'[p].st = StateOf(p)
      BY <1>4 DEF StateOf
    <3> QED BY <2>1, <3>1 DEF StateOf
  <2>5. w \in InUse' => flash'[w].seq = nextSeq' - 1
    BY <1>1, <1>2, <1>4, <1>5
  <2>6. \A p \in Page : StateOf(p)' = "active" => p = w
    BY <1>2, <1>4
  <2> QED BY <1>1, <1>2, <1>7, <2>1, <2>2, <2>3, <2>4, <2>5, <2>6 DEF Listing, Page
<1>9. MoveKnown'
  <2>1. Items(cur)' = Items(gc)' /\ StateOf(cur)' \in {"uninit", "active"}
    BY <1>5, <1>7 DEF Items, StateOf
  <2> QED BY <1>1, <1>2, <1>4, <2>1 DEF MoveKnown, Moves
<1>10. Room'
  <2>1. op # NoRequest => c.next < EntryCount
    BY <1>2, <1>3, <1>5, SizeAssumption DEF Unused
  <2>2. NextFree(cur)' = c.next
    BY <1>4, <1>7 DEF NextFree
  <2> QED BY <1>1, <2>1, <2>2 DEF Room
<1>11. Called'
  BY <1>1 DEF PagesInv, Called, Mount, WritePcs, Moves, Late
<1>12. TypeOK'
  BY <1>1, <1>2, <1>4, <1>7, HeadAndTail, SizeAssumption DEF TypeOK, Page, Steps, WritePcs, Moves
<1> QED BY <1>4, <1>8, <1>9, <1>10, <1>11, <1>12 DEF PagesInv

LEMMA PagesOfReclaim ==
  ASSUME PagesInv, Reclaim
  PROVE  PagesInv'
<1>1. /\ pc = "reclaim" /\ pc' = IF op = NoRequest THEN "match" ELSE "chunk"
      /\ free' = Append(free, gc) /\ gc' = 0
      /\ flash' = [flash EXCEPT ![gc] = ErasedPage]
      /\ UNCHANGED <<cur, nextSeq, op, loc, res, gaveUp>>
  BY DEF Reclaim
<1>2. /\ Mounted /\ FlashOK /\ Filled /\ TypeOK /\ Ordered /\ Listing
      /\ nextSeq \in Nat /\ nextSeq >= 1 /\ free \in Seq(Page) /\ cur \in Page
      /\ gc \in Freeing /\ gc \in Page /\ (op # NoRequest => NextFree(cur) < EntryCount)
      /\ StateOf(cur) \in {"uninit", "active"} /\ cur # gc /\ StateOf(gc) = "freeing"
  BY <1>1 DEF PagesInv, Moves, Listing, TypeOK, MoveKnown, Mounted, Room, Freeing
<1> PICK g \in Page : g = gc
  BY <1>2
<1>3. /\ FlashOK' /\ flash'[g] = ErasedPage /\ \A p \in Page \ {g} : flash'[p] = flash[p]
  <2>1. ErasedPage \in PageType
    BY EmptySeq DEF ErasedPage, PageType
  <2> QED BY <1>1, <1>2, <2>1 DEF FlashOK, Page
<1>4. StateOf(g)' = "uninit" /\ \A p \in Page \ {g} : StateOf(p)' = StateOf(p)
  BY <1>3 DEF StateOf, ErasedPage
<1>5. Filled'
  <2>1. ASSUME NEW q \in Page
        PROVE /\ flash'[q].st = "uninit" => flash'[q] = ErasedPage
              /\ flash'[q].used = Entries(flash'[q].items)
              /\ flash'[q].used <= flash'[q].next /\ flash'[q].next <= EntryCount
              /\ \A i \in DOMAIN flash'[q].items : Span(flash'[q].items[i]) <= EntryCount
    <3>1. CASE q = g
      BY <1>3, <3>1, NoEntries, SizeAssumption DEF ErasedPage
    <3>2. CASE q # g
      BY <1>2, <1>3, <3>2 DEF Filled, StateOf, Items, NextFree
    <3> QED BY <3>1, <3>2
  <2> QED BY <2>1 DEF Filled, StateOf, Items, NextFree, Page
<1>6. InUse' = InUse \ {g} /\ InUse \subseteq Page /\ Freeing' = {}
  <2>1. \A p \in Freeing : p = g
    BY <1>2 DEF Ordered
  <2>2. Freeing' = Freeing \ {g}
    BY <1>4 DEF Freeing, Page
  <2> QED BY <1>4, <2>1, <2>2 DEF InUse, Page
<1>7. Ordered'
  BY <1>2, <1>3, <1>4, <1>6 DEF Ordered
<1>8. Listing'
  <2>1. \A i \in DOMAIN free : free[i] \in Page /\ StateOf(free[i]) = "uninit" /\ free[i] # cur /\ free[i] # g
    BY <1>1, <1>2, HeadAndTail, ElementOfSeq, LenProperties DEF Listing
  <2>2. /\ DOMAIN free' = 1 .. Len(free) + 1 /\ free'[Len(free) + 1] = g /\ Len(free) \in Nat
        /\ \A j \in 1 .. Len(free) : free'[j] = free[j] /\ j \in DOMAIN free
    BY <1>1, <1>2, AppendFacts, LenProperties
  <2>3. ASSUME NEW i \in DOMAIN free' PROVE free'[i] \in Page /\ flash'[free'[i]].st = "uninit" /\ free'[i] # cur
    <3>1. CASE i = Len(free) + 1
      BY <1>2, <1>4, <2>2, <3>1 DEF StateOf
    <3>2. CASE i # Len(free) + 1
      <4>1. i \in 1 .. Len(free)
        BY <2>2, <3>2
      <4> QED BY <1>3, <2>1, <2>2, <4>1 DEF StateOf
    <3> QED BY <3>1, <3>2
  <2>4. ASSUME NEW i \in DOMAIN free', NEW j \in DOMAIN free', free'[i] = free'[j] PROVE i = j
    <3>1. \A k \in 1 .. Len(free) : free'[k] = free[k] /\ free[k] # g
      BY <2>1, <2>2
    <3>2. i \in 1 .. Len(free) \/ i = Len(free) + 1
      BY <2>2
    <3>3. j \in 1 .. Len(free) \/ j = Len(free) + 1
      BY <2>2
    <3> QED BY <1>2, <2>2, <2>4, <3>1, <3>2, <3>3 DEF Listing
  <2>5. \A p \in InUse' : flash'[p].seq < nextSeq /\ (p # cur => flash'[p].seq < nextSeq - 1)
    BY <1>2, <1>3, <1>6 DEF Listing
  <2>6. cur \in InUse' => flash'[cur].seq = nextSeq - 1
    BY <1>2, <1>3, <1>6 DEF Listing
  <2>7. \A p \in Page : StateOf(p)' = "active" => p = cur
    BY <1>2, <1>4 DEF Listing
  <2> QED BY <1>1, <1>2, <2>3, <2>4, <2>5, <2>6, <2>7 DEF Listing, Page, StateOf
<1>9. MoveKnown'
  BY <1>1, <1>6 DEF MoveKnown, Moves
<1>10. Room'
  <2>1. StateOf(cur)' \in {"uninit", "active"} /\ NextFree(cur)' = NextFree(cur)
    BY <1>1, <1>2, <1>3 DEF StateOf, NextFree
  <2> QED BY <1>1, <1>2, <2>1 DEF Room
<1>11. Called'
  <2>1. op = NoRequest => op.kind # "write"
    BY DEF NoRequest, Request
  <2> QED BY <1>1, <2>1 DEF PagesInv, Called, Mount, WritePcs, Moves, Late
<1>12. TypeOK'
  <2>1. Append(free, gc) \in Seq(Page)
    BY <1>2
  <2> QED BY <1>1, <1>2, <1>3, <2>1, SizeAssumption DEF TypeOK, Page, Steps, WritePcs, Moves, Mount
<1> QED BY <1>3, <1>5, <1>7, <1>8, <1>9, <1>10, <1>11, <1>12 DEF PagesInv

-----------------------------------------------------------------------------
(* Mounting.                                                               *)

LEMMA NumbersAreBounded ==
  ASSUME FlashOK
  PROVE  \E b \in Nat : \A p \in Page : flash[p].seq <= b
<1> DEFINE Bounded(n) == \E b \in Nat : \A p \in Page : p <= n => flash[p].seq <= b
           Bad == {n \in Nat : ~Bounded(n)}
<1>0. \A p \in Page : flash[p].seq \in Nat /\ p \in Nat /\ p >= 1 /\ p <= PageCount
  BY PageFacts, SizeAssumption DEF PageFactsD, Page
<1>1. ASSUME Bad # {} PROVE FALSE
  <2>1. PICK n \in Bad : \A m \in Bad : n <= m
    BY <1>1, LeastNatural
  <2>2. n # 0
    <3>1. \A p \in Page : p <= 0 => flash[p].seq <= 0
      BY <1>0
    <3> QED BY <2>1, <3>1
  <2>3. n - 1 \in Nat /\ n - 1 \notin Bad
    BY <2>1, <2>2
  <2>4. PICK b \in Nat : \A p \in Page : p <= n - 1 => flash[p].seq <= b
    BY <2>3
  <2>5. CASE n \in Page
    <3>0. flash[n].seq \in Nat /\ b + flash[n].seq \in Nat
      BY <1>0, <2>5
    <3>1. PICK c \in Nat : b <= c /\ flash[n].seq <= c
      BY <3>0
    <3>2. \A p \in Page : p <= n => flash[p].seq <= c
      <4> SUFFICES ASSUME NEW p \in Page, p <= n PROVE flash[p].seq <= c
        OBVIOUS
      <4>1. CASE p = n
        BY <3>1, <4>1
      <4>2. CASE p # n
        <5>1. p <= n - 1
          BY <1>0, <2>1, <4>2
        <5> QED BY <1>0, <2>4, <3>1, <5>1
      <4> QED BY <4>1, <4>2
    <3> QED BY <2>1, <3>2
  <2>6. CASE n \notin Page
    <3>1. \A p \in Page : p <= n => p <= n - 1
      BY <1>0, <2>1, <2>6
    <3> QED BY <2>1, <2>4, <3>1
  <2> QED BY <2>5, <2>6
<1>2. PageCount \in Nat /\ Bounded(PageCount)
  BY <1>1, SizeAssumption
<1> QED BY <1>0, <1>2

LEMMA LatestPage ==
  ASSUME FlashOK, InUse # {}
  PROVE  BySeq(InUse) \in InUse /\ \A q \in InUse : flash[q].seq <= flash[BySeq(InUse)].seq
<1> DEFINE T == {flash[p].seq : p \in InUse}
<1>1. PICK b \in Nat : \A p \in Page : flash[p].seq <= b
  BY NumbersAreBounded
<1>2. T \subseteq Nat /\ T # {} /\ \A t \in T : t <= b
  BY <1>1, PageFacts DEF PageFactsD, InUse
<1>3. PICK t \in T : \A w \in T : w <= t
  BY <1>2, GreatestNatural
<1>4. \E p \in InUse : \A q \in InUse : flash[q].seq <= flash[p].seq
  BY <1>3
<1> QED BY <1>4 DEF BySeq

LEMMA FreedFacts ==
  ASSUME NEW freed \in Freed
  PROVE  /\ freed \in Seq(Page) /\ DOMAIN freed = 1 .. Len(freed) /\ Len(freed) \in Nat
         /\ \A i \in DOMAIN freed : freed[i] \in Page /\ StateOf(freed[i]) = "uninit"
         /\ \A i, j \in DOMAIN freed : freed[i] = freed[j] => i = j
         /\ InUse = {} => freed # <<>>
<1>1. IsFiniteSet(Page) /\ Cardinality(Page) = PageCount
  <2>1. PageCount \in Int /\ 1 \in Int /\ 1 <= PageCount
    BY SizeAssumption
  <2>2. IsFiniteSet(1 .. PageCount) /\ Cardinality(1 .. PageCount) = PageCount
    BY <2>1, FS_Interval, SizeAssumption
  <2> QED BY <2>2 DEF Page
<1>2. Blank \subseteq Page /\ IsFiniteSet(Blank) /\ Cardinality(Blank) \in Nat
  BY <1>1, FS_Subset, FS_CardinalityType DEF Blank
<1>3. /\ freed \in [1 .. Cardinality(Blank) -> Blank]
      /\ \A i, j \in DOMAIN freed : i < j => freed[i] < freed[j]
  BY DEF Freed
<1>4. freed \in Seq(Page) /\ DOMAIN freed = 1 .. Cardinality(Blank)
  BY <1>2, <1>3
<1>5. Len(freed) = Cardinality(Blank)
  BY <1>2, <1>4, LenProperties
<1>6. \A i \in DOMAIN freed : freed[i] \in Blank /\ freed[i] \in Page /\ i \in Nat
  BY <1>2, <1>3
<1>7. ASSUME NEW i \in DOMAIN freed, NEW j \in DOMAIN freed, freed[i] = freed[j] PROVE i = j
  <2>1. freed[i] \in Int
    BY <1>6 DEF Page
  <2>2. ~(i < j) /\ ~(j < i)
    BY <1>3, <1>7, <2>1
  <2> QED BY <1>6, <2>2
<1>8. ASSUME InUse = {} PROVE freed # <<>>
  <2>1. Blank = Page
    BY <1>8 DEF Blank, InUse
  <2>2. Len(freed) >= 2
    BY <1>1, <1>5, <2>1, SizeAssumption
  <2> QED BY <2>2
<1> QED BY <1>2, <1>4, <1>5, <1>6, <1>7, <1>8 DEF Blank

LEMMA PagesOfRepairs ==
  ASSUME PagesInv, PowerOn \/ RepairPage \/ CheckLast \/ DropDuplicate
  PROVE  PagesInv'
<1>1. /\ pc \in {"off", "load", "dup"} /\ UNCHANGED ram /\ (pc = "dup" => pc' = "recover")
      /\ pc # "dup" => pc' \in {"load", "list"}
      /\ UNCHANGED flash \/ \E a \in Places : Erase(a)
  <2>1. CASE PowerOn
    BY <2>1 DEF PowerOn
  <2>2. CASE RepairPage
    BY <2>2 DEF RepairPage, Shadowed
  <2>3. CASE DropDuplicate
    <3>1. Superseded # {} => Earliest(Superseded) \in Places
      BY EarliestIn DEF PagesInv, TypeOK, Superseded
    <3> QED BY <2>3, <3>1 DEF DropDuplicate
  <2>4. CASE CheckLast
    <3>1. FoundAgain # {} => Earliest(FoundAgain) \in Places
      BY EarliestIn DEF PagesInv, TypeOK, FoundAgain
    <3> QED BY <2>4, <3>1 DEF CheckLast
  <2> QED BY <2>1, <2>2, <2>3, <2>4
<1>2. FlashOK' /\ Filled' /\ SamePages
  <2>1. CASE UNCHANGED flash
    BY <2>1 DEF PagesInv, TypeOK, FlashOK, Filled, SamePages, Page, PageType, StateOf, Items, NextFree
  <2>2. CASE \E a \in Places : Erase(a)
    <3>1. PICK a \in Places : Erase(a)
      BY <2>2
    <3> QED BY <3>1, ErasedPages DEF PagesInv, TypeOK, FlashOK, SamePages, Page, PageType
  <2> QED BY <1>1, <2>1, <2>2
<1>3. Ordered' /\ InUse' = InUse
  BY <1>2, PagesStay DEF PagesInv
<1>4. Listing'
  <2>1. CASE pc = "dup"
    BY <1>1, <1>2, <2>1, ListingStays DEF PagesInv, TypeOK, Mounted, ram
  <2>2. CASE pc # "dup"
    BY <1>1, <2>2 DEF Listing, Mounted
  <2> QED BY <2>1, <2>2
<1>5. MoveKnown' /\ Room' /\ Called'
  BY <1>1, <1>3 DEF PagesInv, MoveKnown, Moves, Mounted, Room, Called, Mount, WritePcs, Late, ram
<1>6. TypeOK'
  BY <1>1, <1>2 DEF PagesInv, TypeOK, Page, Steps, Mount, ram
<1> QED BY <1>2, <1>3, <1>4, <1>5, <1>6 DEF PagesInv

LEMMA PagesOfLoad ==
  ASSUME PagesInv, Load
  PROVE  PagesInv'
<1>1. /\ pc = "list" /\ UNCHANGED <<flash, gc, op, loc, res, gaveUp>> /\ TypeOK /\ FlashOK /\ Ordered
  BY DEF Load, PagesInv, TypeOK
<1>2. PICK freed \in Freed :
       IF InUse = {}
       THEN cur' = Head(freed) /\ free' = Tail(freed) /\ nextSeq' = 1 /\ pc' = "match"
       ELSE /\ cur' = BySeq(InUse) /\ free' = freed
            /\ nextSeq' = flash[BySeq(InUse)].seq + 1
            /\ pc' = "dup"
  BY DEF Load
<1>3. /\ freed \in Seq(Page) /\ DOMAIN freed = 1 .. Len(freed) /\ Len(freed) \in Nat
      /\ \A i \in DOMAIN freed : freed[i] \in Page /\ StateOf(freed[i]) = "uninit"
      /\ \A i, j \in DOMAIN freed : freed[i] = freed[j] => i = j
      /\ InUse = {} => freed # <<>>
  BY FreedFacts
<1>4. FlashOK' /\ Filled' /\ SamePages
  BY <1>1 DEF PagesInv, TypeOK, FlashOK, Filled, SamePages, Page, PageType, StateOf, Items, NextFree
<1>5. Ordered' /\ InUse' = InUse /\ Freeing' = Freeing /\ \A p \in Page : StateOf(p)' = StateOf(p)
  BY <1>1, <1>4, PagesStay
<1>6. CASE InUse = {}
  <2>1. /\ Head(freed) = freed[1] /\ 1 \in DOMAIN freed
        /\ Tail(freed) \in Seq(Page) /\ DOMAIN Tail(freed) = 1 .. Len(freed) - 1
        /\ \A i \in 1 .. Len(freed) - 1 : Tail(freed)[i] = freed[i + 1] /\ i + 1 \in DOMAIN freed
    <3>1. Len(freed) >= 1
      BY <1>3, <1>6, EmptySeq
    <3> QED BY <1>3, <3>1, HeadTailProperties, LenProperties
  <2>2. /\ cur' = freed[1] /\ cur' \in Page /\ free' \in Seq(Page) /\ nextSeq' = 1 /\ pc' = "match"
        /\ DOMAIN free' = 1 .. Len(freed) - 1
        /\ \A i \in 1 .. Len(freed) - 1 : free'[i] = freed[i + 1] /\ i + 1 \in DOMAIN freed
    BY <1>2, <1>3, <1>6, <2>1
  <2>3. Freeing' = {} /\ \A p \in Page : StateOf(p)' # "active"
    BY <1>5, <1>6 DEF InUse, Freeing
  <2>4. ASSUME NEW i \in DOMAIN free'
        PROVE  free'[i] \in Page /\ StateOf(free'[i]) = "uninit" /\ free'[i] # cur'
    <3>1. free'[i] = freed[i + 1] /\ i + 1 \in DOMAIN freed /\ i + 1 # 1
      BY <1>3, <2>2
    <3> QED BY <1>3, <2>1, <2>2, <3>1
  <2>5. ASSUME NEW i \in DOMAIN free', NEW j \in DOMAIN free', free'[i] = free'[j] PROVE i = j
    <3>1. i + 1 = j + 1 /\ i \in Int /\ j \in Int
      BY <1>3, <2>2, <2>5
    <3> QED BY <3>1
  <2>6. \A i \in DOMAIN free' : (StateOf(free[i]))' = "uninit"
    BY <1>1, <2>4 DEF StateOf
  <2>7. Listing'
    BY <1>5, <1>6, <2>2, <2>3, <2>4, <2>5, <2>6 DEF Listing, Page
  <2>8. MoveKnown' /\ Room' /\ Called'
    BY <1>1, <2>2, <2>3 DEF PagesInv, MoveKnown, Moves, Mounted, Room, Called, Mount, WritePcs, Late
  <2>9. TypeOK'
    BY <1>1, <1>4, <2>2, SizeAssumption DEF TypeOK, Page, Steps, Mount
  <2> QED BY <1>4, <1>5, <2>7, <2>8, <2>9 DEF PagesInv
<1>7. CASE InUse # {}
  <2> PICK c : c = BySeq(InUse)
    OBVIOUS
  <2>1. c \in InUse /\ c \in Page /\ \A q \in InUse : flash[q].seq <= flash[c].seq
    BY <1>1, <1>7, LatestPage DEF InUse
  <2>2. /\ cur' = c /\ free' = freed /\ nextSeq' = flash[c].seq + 1 /\ pc' = "dup"
        /\ flash[c].seq \in Nat
    BY <1>1, <1>2, <1>7, <2>1, PageFacts DEF PageFactsD
  <2>3. \A p \in InUse : p \in Page /\ flash[p].seq \in Nat
    BY <1>1, PageFacts DEF PageFactsD, InUse
  <2>4. \A p \in InUse : p # c => flash[p].seq < flash[c].seq
    BY <1>1, <2>1, <2>2, <2>3 DEF Ordered
  <2>5. ASSUME NEW p \in Page, StateOf(p) = "active" PROVE p = c
    <3>1. p \in InUse
      BY <2>5 DEF InUse
    <3> QED BY <1>1, <2>1, <2>2, <2>3, <2>4, <2>5, <3>1 DEF Ordered
  <2>6. \A i \in DOMAIN free' : (StateOf(free[i]))' = "uninit" /\ free'[i] # cur'
    BY <1>1, <1>3, <2>1, <2>2 DEF StateOf, InUse
  <2>7. Listing'
    <3>1. \A p \in InUse' : flash'[p].seq < nextSeq' /\ (p # cur' => flash'[p].seq < nextSeq' - 1)
      BY <1>1, <1>5, <2>1, <2>2, <2>3, <2>4
    <3>2. flash'[cur'].seq = nextSeq' - 1 /\ nextSeq' >= 1
      BY <1>1, <2>2
    <3> QED BY <1>3, <1>5, <2>1, <2>2, <2>5, <2>6, <3>1, <3>2 DEF Listing, Page
  <2>8. MoveKnown' /\ Room' /\ Called'
    BY <1>1, <1>5, <2>1, <2>2 DEF PagesInv, MoveKnown, Moves, Mounted, Room, Called, Mount, WritePcs, Late
  <2>9. TypeOK'
    <3>1. free' \in Seq(Page) /\ cur' \in Page /\ nextSeq' \in Nat
      BY <1>3, <2>1, <2>2
    <3> QED BY <1>1, <1>4, <2>2, <3>1, SizeAssumption DEF TypeOK, Page, Steps, Mount
  <2> QED BY <1>4, <1>5, <2>7, <2>8, <2>9 DEF PagesInv
<1> QED BY <1>6, <1>7

LEMMA PagesOfRecover ==
  ASSUME PagesInv, Recover
  PROVE  PagesInv'
<1>1. /\ pc = "recover" /\ pc' = "copy" /\ Freeing # {} /\ gc' = CHOOSE p \in Freeing : TRUE
      /\ IF StateOf(cur) = "active"
           THEN flash' = [flash EXCEPT ![cur] = ErasedPage] /\ free' = Append(free, cur)
           ELSE UNCHANGED <<flash, free>>
      /\ UNCHANGED <<cur, nextSeq, op, loc, res, gaveUp>>
  BY DEF Recover
<1>2. /\ Mounted /\ FlashOK /\ Filled /\ TypeOK /\ Ordered /\ Listing
      /\ nextSeq \in Nat /\ nextSeq >= 1 /\ free \in Seq(Page) /\ cur \in Page
      /\ gc' \in Freeing /\ gc' \in Page /\ op = NoRequest
  BY <1>1 DEF PagesInv, Moves, Listing, TypeOK, MoveKnown, Mounted, Freeing, Called, Mount
<1>3. /\ FlashOK'
      /\ \A p \in Page : flash'[p] = IF p = cur /\ StateOf(cur) = "active" THEN ErasedPage ELSE flash[p]
  <2>1. ErasedPage \in PageType
    BY EmptySeq DEF ErasedPage, PageType
  <2> QED BY <1>1, <1>2, <2>1 DEF FlashOK, Page
<1>4. \A p \in Page : StateOf(p)' = IF StateOf(p) = "active" THEN "uninit" ELSE StateOf(p)
  <2>1. \A p \in Page : StateOf(p) = "active" => p = cur
    BY <1>2 DEF Listing
  <2> QED BY <1>3, <2>1 DEF StateOf, ErasedPage
<1>5. Filled'
  <2>1. ASSUME NEW q \in Page
        PROVE /\ flash'[q].st = "uninit" => flash'[q] = ErasedPage
              /\ flash'[q].used = Entries(flash'[q].items)
              /\ flash'[q].used <= flash'[q].next /\ flash'[q].next <= EntryCount
              /\ \A i \in DOMAIN flash'[q].items : Span(flash'[q].items[i]) <= EntryCount
    <3>1. CASE q = cur /\ StateOf(cur) = "active"
      BY <1>3, <3>1, NoEntries, SizeAssumption DEF ErasedPage
    <3>2. CASE ~(q = cur /\ StateOf(cur) = "active")
      BY <1>2, <1>3, <3>2 DEF Filled, StateOf, Items, NextFree
    <3> QED BY <3>1, <3>2
  <2> QED BY <2>1 DEF Filled, StateOf, Items, NextFree, Page
<1>6. /\ InUse' = {p \in InUse : StateOf(p) # "active"} /\ Freeing' = Freeing /\ InUse \subseteq Page
      /\ \A p \in InUse' : flash'[p] = flash[p]
  <2>1. InUse' = {p \in InUse : StateOf(p) # "active"} /\ Freeing' = Freeing /\ InUse \subseteq Page
    BY <1>4 DEF InUse, Freeing, Page
  <2> QED BY <1>3, <2>1
<1>7. Ordered'
  BY <1>2, <1>3, <1>4, <1>6 DEF Ordered
<1>8. Listing'
  <2>1. \A i \in DOMAIN free : free[i] \in Page /\ StateOf(free[i]) = "uninit" /\ free[i] # cur
    BY <1>1, <1>2, ElementOfSeq, LenProperties DEF Listing
  <2>2. /\ \A i \in DOMAIN free' : free'[i] \in Page /\ flash'[free'[i]].st = "uninit"
        /\ \A i, j \in DOMAIN free' : free'[i] = free'[j] => i = j
    <3>1. CASE StateOf(cur) = "active"
      <4>1. /\ DOMAIN free' = 1 .. Len(free) + 1 /\ free'[Len(free) + 1] = cur /\ Len(free) \in Nat
            /\ \A j \in 1 .. Len(free) : free'[j] = free[j] /\ j \in DOMAIN free /\ free[j] # cur
        BY <1>1, <1>2, <2>1, <3>1, AppendFacts, LenProperties
      <4>2. ASSUME NEW i \in DOMAIN free' PROVE free'[i] \in Page /\ flash'[free'[i]].st = "uninit"
        <5>1. CASE i = Len(free) + 1
          BY <1>2, <1>4, <3>1, <4>1, <5>1 DEF StateOf
        <5>2. CASE i # Len(free) + 1
          <6>1. i \in 1 .. Len(free)
            BY <4>1, <5>2
          <6> QED BY <1>4, <2>1, <4>1, <6>1 DEF StateOf
        <5> QED BY <5>1, <5>2
      <4>3. ASSUME NEW i \in DOMAIN free', NEW j \in DOMAIN free', free'[i] = free'[j] PROVE i = j
        <5>2. i \in 1 .. Len(free) \/ i = Len(free) + 1
          BY <4>1
        <5>3. j \in 1 .. Len(free) \/ j = Len(free) + 1
          BY <4>1
        <5> QED BY <1>2, <4>1, <4>3, <5>2, <5>3 DEF Listing
      <4> QED BY <4>2, <4>3
    <3>2. CASE StateOf(cur) # "active"
      BY <1>1, <1>2, <1>4, <2>1, <3>2 DEF Listing, StateOf
    <3> QED BY <3>1, <3>2
  <2>3. \A p \in InUse' : flash'[p].seq < nextSeq /\ (p # cur => flash'[p].seq < nextSeq - 1)
    BY <1>2, <1>6 DEF Listing
  <2>4. cur \in InUse' => flash'[cur].seq = nextSeq - 1
    BY <1>2, <1>6 DEF Listing
  <2>5. \A p \in Page : StateOf(p)' # "active"
    BY <1>4
  <2> QED BY <1>1, <1>2, <2>2, <2>3, <2>4, <2>5 DEF Listing, Page, StateOf
<1>9. MoveKnown'
  BY <1>1, <1>2, <1>4, <1>6 DEF MoveKnown, Moves
<1>10. Room'
  BY <1>1, <1>2 DEF Room
<1>11. Called'
  <2>1. op = NoRequest => op.kind # "write"
    BY DEF NoRequest, Request
  <2> QED BY <1>1, <1>2, <2>1 DEF PagesInv, Called, Mount, WritePcs, Moves, Late
<1>12. TypeOK'
  <2>1. Append(free, cur) \in Seq(Page)
    BY <1>2
  <2>2. free' \in Seq(Page) /\ gc' \in 0 .. PageCount
    <3>1. free' \in Seq(Page)
      BY <1>1, <1>2, <2>1
    <3>2. Page \subseteq 0 .. PageCount
      BY SizeAssumption DEF Page
    <3> QED BY <1>2, <3>1, <3>2
  <2> QED BY <1>1, <1>2, <1>3, <2>2 DEF TypeOK, Page, Steps, Moves
<1> QED BY <1>3, <1>5, <1>7, <1>8, <1>9, <1>10, <1>11, <1>12 DEF PagesInv

-----------------------------------------------------------------------------
(* Losing power.                                                           *)

LEMMA PendingFacts ==
  ASSUME PagesInv, Pending > 0
  PROVE  /\ pc = "chunk" /\ cur \in Page /\ StateOf(cur) \in {"uninit", "active"}
         /\ Pending \in Nat /\ NextFree(cur) + Pending <= EntryCount /\ NextFree(cur) \in Nat
<1>1. pc = "chunk"
  BY DEF Pending
<1>2. /\ Freeing = {} /\ Mounted /\ cur \in Page /\ FlashOK /\ Filled /\ TypeOK
      /\ op.kind = "write" /\ loc.off <= Len(op.val)
      /\ (Count > 0 => StateOf(cur) # "full" /\ NextFree(cur) < EntryCount)
  BY <1>1, NotMoving DEF PagesInv, Moves, Listing, TypeOK, Called, WritePcs, Room
<1>3. NextFree(cur) \in Nat /\ StateOf(cur) \in {"uninit", "active", "full"}
  BY <1>2, PageFacts DEF PageFactsD, Freeing
<1>4. CASE Count > 0 /\ Rest = 0
  <2>1. Pending = 1
    BY <1>1, <1>2, <1>4, PieceFacts DEF Pending
  <2> QED BY <1>1, <1>2, <1>3, <1>4, <2>1, SizeAssumption
<1>5. CASE ~(Count > 0 /\ Rest = 0)
  <2>1. Pending = 1 + Len(Piece) /\ Tailroom(cur) > 0
    BY <1>1, <1>5 DEF Pending
  <2>2. Len(Piece) \in Nat /\ Len(Piece) <= Tailroom(cur) /\ Tailroom(cur) \in Nat
        /\ NextFree(cur) + 1 + Tailroom(cur) <= EntryCount /\ StateOf(cur) # "full"
    BY <1>2, <2>1, PieceFacts, TailroomFacts
  <2> QED BY <1>1, <1>2, <1>3, <2>1, <2>2, SizeAssumption
<1> QED BY <1>4, <1>5

LEMMA PagesOfPowerLoss ==
  ASSUME PagesInv, PowerLoss
  PROVE  PagesInv'
<1>1. /\ Torn /\ pc' = "off" /\ cur' = 0 /\ free' = <<>> /\ nextSeq' = 0 /\ gc' = 0
      /\ op' = NoRequest /\ loc' = NoLocals /\ res' = "none" /\ UNCHANGED gaveUp
  BY DEF PowerLoss
<1>2. FlashOK /\ Filled /\ Ordered /\ TypeOK
  BY DEF PagesInv, TypeOK
<1>3. FlashOK' /\ Filled' /\ Ordered'
  <2>1. CASE UNCHANGED flash
    <3>1. FlashOK' /\ Filled' /\ SamePages
      BY <1>2, <2>1 DEF FlashOK, Filled, SamePages, Page, PageType, StateOf, Items, NextFree
    <3> QED BY <1>2, <3>1, PagesStay
  <2>2. ASSUME Pending > 0, NEW n \in {0, Pending},
               flash' = [flash EXCEPT ![cur] =
                           [st |-> "active",
                            seq |-> IF StateOf(cur) = "uninit" THEN nextSeq - 1 ELSE @.seq,
                            items |-> @.items, used |-> @.used, next |-> @.next + n,
                            live |-> @.live /\ n = 0]]
        PROVE  FlashOK' /\ Filled' /\ Ordered'
    <3>1. /\ pc = "chunk" /\ cur \in Page /\ StateOf(cur) \in {"uninit", "active"}
          /\ n \in Nat /\ NextFree(cur) + n <= EntryCount /\ NextFree(cur) \in Nat
      BY <1>2, <2>2, PendingFacts, PageFacts, SizeAssumption DEF PageFactsD, Filled
    <3>2. /\ Freeing = {} /\ Listing /\ Mounted /\ nextSeq \in Nat /\ nextSeq >= 1
      BY <1>2, <3>1, NotMoving DEF PagesInv, Moves, Listing, TypeOK
    <3> PICK c \in Page : c = cur
      BY <3>1
    <3> DEFINE sq == IF StateOf(c) = "uninit" THEN nextSeq - 1 ELSE flash[c].seq
               lv == flash[c].live /\ n = 0
               pg == [st |-> "active", seq |-> sq, items |-> Items(c), used |-> flash[c].used,
                      next |-> NextFree(c) + n, live |-> lv]
    <3>3. /\ flash[c] \in PageType /\ flash[c].seq \in Nat /\ Items(c) \in Seq(Item)
          /\ flash[c].used \in Nat
      BY <1>2, PageFacts DEF PageFactsD
    <3>4. sq = nextSeq - 1 /\ sq \in Nat
      BY <3>1, <3>2 DEF Listing, InUse
    <3>5. flash' = [flash EXCEPT ![c] = pg]
      BY <2>2 DEF Items, NextFree
    <3>L. lv \in BOOLEAN
      OBVIOUS
    <3> HIDE DEF sq, lv
    <3>6. pg \in PageType
      BY <3>1, <3>3, <3>4, <3>L DEF PageType
    <3>7. /\ FlashOK' /\ flash'[c].seq = nextSeq - 1 /\ flash'[c].st = "active"
          /\ flash'[c].items = Items(c) /\ flash'[c].used = flash[c].used
          /\ flash'[c].next = NextFree(c) + n
          /\ \A p \in Page \ {c} : flash'[p] = flash[p]
      BY <1>2, <3>4, <3>5, <3>6 DEF FlashOK, Page
    <3>8. ASSUME NEW q \in Page
          PROVE /\ flash'[q].st = "uninit" => flash'[q] = ErasedPage
                /\ flash'[q].used = Entries(flash'[q].items)
                /\ flash'[q].used <= flash'[q].next /\ flash'[q].next <= EntryCount
                /\ \A i \in DOMAIN flash'[q].items : Span(flash'[q].items[i]) <= EntryCount
      <4>1. CASE q = c
        <5>1. /\ flash[c].used = Entries(Items(c)) /\ flash[c].used <= NextFree(c)
              /\ \A i \in DOMAIN Items(c) : Span(Items(c)[i]) <= EntryCount
          BY <1>2 DEF Filled
        <5>2. flash[c].used <= NextFree(c) + n
          BY <3>1, <3>3, <5>1
        <5> QED BY <3>1, <3>7, <4>1, <5>1, <5>2
      <4>2. CASE q # c
        BY <1>2, <3>7, <4>2 DEF Filled, StateOf, Items, NextFree
      <4> QED BY <4>1, <4>2
    <3>9. Filled'
      BY <3>8 DEF Filled, StateOf, Items, NextFree, Page
    <3>10. /\ InUse' = InUse \cup {c} /\ Freeing' = {} /\ InUse \subseteq Page
      BY <3>1, <3>2, <3>7 DEF InUse, Freeing, Page, StateOf
    <3>11. \A p \in InUse : flash[p].seq \in Nat /\ (p # c => flash'[p] = flash[p] /\ flash[p].seq < nextSeq - 1
                                                             /\ flash[p].st # "active")
      BY <1>2, <3>2, <3>7, PageFacts DEF InUse, PageFactsD, Listing, StateOf
    <3>12. \A p, q \in InUse' : flash'[p].seq = flash'[q].seq => p = q
      BY <1>2, <3>2, <3>7, <3>10, <3>11 DEF Ordered
    <3>13. \A p, q \in InUse' : flash'[p].st = "active" => flash'[q].seq <= flash'[p].seq
      BY <3>2, <3>7, <3>10, <3>11
    <3>14. Ordered'
      BY <3>10, <3>12, <3>13 DEF Ordered, StateOf
    <3> QED BY <3>7, <3>9, <3>14
  <2>3. ASSUME pc = "copy", free # <<>>, NEW n \in 1 .. Len(Items(gc)),
               flash' = [flash EXCEPT ![Head(free)] = CopyOf(SubSeq(Items(gc), 1, n), nextSeq)]
        PROVE  FlashOK' /\ Filled' /\ Ordered'
    <3>1. gc \in Page
      BY <2>3 DEF PagesInv, MoveKnown, Moves, Freeing
    <3>2. Items(gc) \in Seq(Item) /\ flash[gc].used \in Nat /\ NextFree(gc) \in Nat
          /\ Len(Items(gc)) \in Nat /\ DOMAIN Items(gc) = 1 .. Len(Items(gc))
      BY <1>2, <3>1, PageFacts DEF PageFactsD
    <3> DEFINE s == SubSeq(Items(gc), 1, n)
    <3>3. s \in Seq(Item) /\ Entries(s) <= Entries(Items(gc)) /\ Entries(s) \in Nat
      BY <3>2, EntriesOfPart, TakenIsFinite
    <3>4. Entries(Items(gc)) <= EntryCount /\ Entries(Items(gc)) \in Nat
      BY <1>2, <3>1, <3>2, SizeAssumption DEF Filled
    <3>5. Entries(s) <= EntryCount
      BY <3>3, <3>4, SizeAssumption
    <3>6. \A i \in DOMAIN s : Span(s[i]) <= EntryCount
      <4>1. DOMAIN s = 1 .. n /\ \A j \in 1 .. n : s[j] = Items(gc)[j] /\ j \in DOMAIN Items(gc)
        BY <3>2, SubSeqProperties
      <4> QED BY <1>2, <3>1, <4>1 DEF Filled
    <3> HIDE DEF s
    <3>7. flash' = [flash EXCEPT ![Head(free)] = CopyOf(s, nextSeq)]
      BY <2>3 DEF s
    <3> QED BY <2>3, <3>3, <3>5, <3>6, <3>7, CopiedPages
  <2> QED BY <1>1, <2>1, <2>2, <2>3 DEF Torn
<1>4. Listing' /\ MoveKnown' /\ Room' /\ Called'
  BY <1>1, NoLocalsFacts
  DEF Listing, Mounted, MoveKnown, Moves, Room, Called, Mount, WritePcs, Late
<1>5. TypeOK'
  BY <1>1, <1>2, <1>3, NoLocalsFacts, EmptySeq, SizeAssumption DEF TypeOK, Page, Steps, Mount, Results
<1> QED BY <1>3, <1>4, <1>5 DEF PagesInv

-----------------------------------------------------------------------------
(* No page is overfilled, whatever was given up.                           *)

LEMMA PagesInit == Init => PagesInv
<1> SUFFICES ASSUME Init PROVE PagesInv
  OBVIOUS
<1>1. /\ flash = [p \in Page |-> ErasedPage] /\ pc = "off" /\ cur = 0 /\ free = <<>> /\ nextSeq = 0
      /\ gc = 0 /\ op = NoRequest /\ loc = NoLocals /\ res = "none" /\ gaveUp = FALSE
  BY DEF Init
<1>2. FlashOK
  <2>1. ErasedPage \in PageType
    BY EmptySeq DEF ErasedPage, PageType
  <2> QED BY <1>1, <2>1 DEF FlashOK
<1>3. TypeOK
  <2>1. 0 \in 0 .. PageCount /\ <<>> \in Seq(Page)
    BY EmptySeq, SizeAssumption
  <2> QED BY <1>1, <1>2, <2>1, NoLocalsFacts DEF TypeOK, Steps, Mount, Results
<1>4. Filled
  BY <1>1, NoEntries, SizeAssumption DEF Filled, StateOf, Items, NextFree, ErasedPage
<1>5. InUse = {} /\ Freeing = {}
  BY <1>1 DEF InUse, Freeing, StateOf, ErasedPage
<1>6. Ordered /\ Listing /\ MoveKnown /\ Room /\ Called
  BY <1>1, <1>5
  DEF Ordered, Listing, Mounted, MoveKnown, Moves, Room, Called, Mount, WritePcs, Late
<1> QED BY <1>3, <1>4, <1>6 DEF PagesInv

LEMMA PagesStep ==
  ASSUME PagesInv, [Next]_vars
  PROVE  PagesInv'
<1>1. CASE Mounting
  BY <1>1, PagesOfRepairs, PagesOfLoad, PagesOfRecover, QuietMounting DEF Mounting
<1>2. CASE Moving
  BY <1>2, PagesOfTakeFreePage, PagesOfStartFreeing, QuietWriting, PagesOfCopy, PagesOfReclaim DEF Moving
<1>3. CASE Writing
  BY <1>3, QuietWriting, PagesOfWriteFind, PagesOfSkipPage, PagesOfWriteChunk, PagesOfClosePage,
     PagesOfWriteIndex DEF Writing
<1>4. CASE Erasing
  BY <1>4, QuietErasing
<1>5. CASE BeginCall
  BY <1>5, QuietBegin
<1>6. CASE PowerLoss
  BY <1>6, PagesOfPowerLoss
<1>7. CASE UNCHANGED vars
  BY <1>7 DEF PagesInv, TypeOK, FlashOK, Filled, Ordered, Listing, Mounted, MoveKnown, Room, Called,
     StateOf, Items, NextFree, InUse, Freeing, Count, Unused, vars, ram, Page, PageType
<1> QED BY <1>1, <1>2, <1>3, <1>4, <1>5, <1>6, <1>7 DEF Next, Step

-----------------------------------------------------------------------------
(* What is stored.                                                         *)

\* One index for each key.
Single == \A x, y \in IndexesIn : x.key = y.key => x = y

StoredFactsD ==
  FlashOK =>
    /\ \A x \in Stored : x \in Item /\ \E a \in RealPlaces : At(a) = x
    /\ \A a \in RealPlaces : a \in Places /\ At(a) \in Stored
    /\ Freeing = {} => RealPlaces = Places
LEMMA StoredFacts == StoredFactsD
BY PlaceFacts DEF StoredFactsD, PlaceFactsD, Stored, RealPlaces

SinglePairsD == FlashOK /\ Distinct /\ Single => Pairs
LEMMA SinglePairs == SinglePairsD
<1> SUFFICES ASSUME FlashOK, Distinct, Single, NEW a \in RealPlaces, NEW b \in RealPlaces,
                    At(a).kind = "index", At(b).kind = "index", At(a).key = At(b).key
             PROVE  a = b
  BY DEF SinglePairsD, Pairs
<1>1. At(a) \in IndexesIn /\ At(b) \in IndexesIn
  BY StoredFacts DEF StoredFactsD, IndexesIn
<1>2. At(a) = At(b)
  BY <1>1 DEF Single
<1> QED BY <1>2 DEF Distinct, SameItem

PairsSingleD ==
  FlashOK /\ Pairs /\ (pc \notin {"off", "load", "list", "dup", "old_index"} \/ Freeing # {}) => Single
LEMMA PairsSingle == PairsSingleD
<1> SUFFICES ASSUME FlashOK, Pairs, pc \notin {"off", "load", "list", "dup", "old_index"} \/ Freeing # {},
                    NEW x \in IndexesIn, NEW y \in IndexesIn, x.key = y.key
             PROVE  x = y
  BY DEF PairsSingleD, Single
<1>1. PICK a \in RealPlaces : At(a) = x
  BY StoredFacts DEF StoredFactsD, IndexesIn
<1>2. PICK b \in RealPlaces : At(b) = y
  BY StoredFacts DEF StoredFactsD, IndexesIn
<1>3. a = b \/ PairAllowed(a, b)
  BY <1>1, <1>2 DEF Pairs, IndexesIn
<1> QED BY <1>1, <1>2, <1>3 DEF PairAllowed

\* The same is stored, and one index for each key.
StoredStays == Single /\ IndexesIn' = IndexesIn /\ ChunksIn' = ChunksIn

LEMMA StoredThen == StoredFactsD' /\ SinglePairsD' /\ PairsSingleD'
BY StoredFacts, SinglePairs, PairsSingle, PTL

\* The same blobs.
LEMMA SameBlobs ==
  ASSUME RealPlaces' = RealPlaces, \A a \in RealPlaces : At(a)' = At(a)
  PROVE  /\ Stored' = Stored /\ IndexesIn' = IndexesIn /\ ChunksIn' = ChunksIn
         /\ Distinct => Distinct'
         /\ Counts => Counts'
         /\ Sizes => Sizes'
         /\ Single => Single'
         /\ \A k, v, m, n : All(k, v, m, n) => All(k, v, m, n)'
         /\ \A k, v, m, n : Sized(k, v, m, n) => Sized(k, v, m, n)'
<1>1. Stored' = Stored
  BY DEF Stored
<1>2. IndexesIn' = IndexesIn /\ ChunksIn' = ChunksIn
  BY <1>1 DEF IndexesIn, ChunksIn
<1>3. Distinct => Distinct'
  BY DEF Distinct, SameItem
<1>4. \A k, v, m, n : All(k, v, m, n) => All(k, v, m, n)'
  BY <1>1 DEF All, OfBlob
<1>5. \A k, v, m, n : Sized(k, v, m, n) => Sized(k, v, m, n)'
  BY <1>1 DEF Sized, OfBlob
<1>6. Counts => Counts'
  BY <1>2 DEF Counts, OfBlob
<1>7. Sizes => Sizes'
  BY <1>2, <1>5 DEF Sizes
<1>8. Single => Single'
  BY <1>2 DEF Single
<1> QED BY <1>1, <1>2, <1>3, <1>4, <1>5, <1>6, <1>7, <1>8

\* One item less.
LEMMA FewerBlobs ==
  ASSUME NEW x, Stored' = Stored \ {x}
  PROVE  /\ IndexesIn' = IndexesIn \ {x} /\ ChunksIn' = ChunksIn \ {x}
         /\ Counts => Counts'
         /\ Sizes => Sizes'
         /\ Single => Single'
         /\ \A k, v, m, n : Sized(k, v, m, n) => Sized(k, v, m, n)'
         /\ \A k, v, m, n : All(k, v, m, n) /\ (OfBlob(x, k, v) => x.index \notin m .. n - 1)
                            => All(k, v, m, n)'
<1>1. IndexesIn' = IndexesIn \ {x} /\ ChunksIn' = ChunksIn \ {x}
  BY DEF IndexesIn, ChunksIn
<1>2. \A k, v, m, n : Sized(k, v, m, n) => Sized(k, v, m, n)'
  BY DEF Sized, OfBlob
<1>3. \A k, v, m, n : All(k, v, m, n) /\ (OfBlob(x, k, v) => x.index \notin m .. n - 1)
                      => All(k, v, m, n)'
  BY DEF All, OfBlob
<1>4. Counts => Counts'
  BY <1>1 DEF Counts, OfBlob
<1>5. Sizes => Sizes'
  BY <1>1, <1>2 DEF Sizes
<1>6. Single => Single'
  BY <1>1 DEF Single
<1> QED BY <1>1, <1>2, <1>3, <1>4, <1>5, <1>6

LEMMA ErasedBlobs ==
  ASSUME FlashOK, Filled, Distinct, Freeing = {}, NEW a \in Places, Erase(a)
  PROVE  Stored' = Stored \ {At(a)} /\ Distinct' /\ Copies' /\ Freeing' = {} /\ FlashOK'
<1>1. /\ FlashOK' /\ SamePages
  BY ErasedPages DEF FlashOK, SamePages, Page, PageType
<1>2. Freeing' = {}
  BY <1>1, PagesStay
<1>3. RealPlaces = Places /\ RealPlaces' = Places'
  BY <1>1, <1>2, StoredFacts, StoredThen DEF StoredFactsD
<1>4. /\ \A b \in Places' : /\ Origin(a, b) \in Places /\ Origin(a, b) # a
                            /\ At(b)' = At(Origin(a, b))
      /\ \A c \in Places : c # a => \E b \in Places' : Origin(a, b) = c
      /\ \A b, d \in Places' : Origin(a, b) = Origin(a, d) => b = d
  BY ErasedPlaces
<1>5. \A b, c \in Places : At(b) = At(c) => b = c
  BY <1>3 DEF Distinct, SameItem
<1>6. ASSUME NEW x PROVE x \in Stored' <=> x \in Stored \ {At(a)}
  <2>1. ASSUME x \in Stored' PROVE x \in Stored \ {At(a)}
    <3>1. PICK b \in Places' : At(b)' = x
      BY <1>3, <2>1 DEF Stored
    <3>2. Origin(a, b) \in Places /\ Origin(a, b) # a /\ At(Origin(a, b)) = x
      BY <1>4, <3>1
    <3>3. x # At(a)
      BY <1>5, <3>2
    <3> QED BY <1>3, <3>2, <3>3 DEF Stored
  <2>2. ASSUME x \in Stored, x # At(a) PROVE x \in Stored'
    <3>1. PICK c \in Places : At(c) = x
      BY <1>3, <2>2 DEF Stored
    <3>2. PICK b \in Places' : Origin(a, b) = c
      BY <1>4, <2>2, <3>1
    <3>3. At(b)' = x
      BY <1>4, <3>1, <3>2
    <3> QED BY <1>3, <3>3 DEF Stored
  <2> QED BY <2>1, <2>2
<1>7. Distinct'
  <2> SUFFICES ASSUME NEW b \in Places', NEW c \in Places', SameItem(At(b)', At(c)') PROVE b = c
    BY <1>3 DEF Distinct, SameItem
  <2>1. SameItem(At(Origin(a, b)), At(Origin(a, c)))
    BY <1>4
  <2>2. Origin(a, b) = Origin(a, c)
    BY <1>3, <1>4, <2>1 DEF Distinct
  <2> QED BY <1>4, <2>2
<1>8. Copies'
  <2>1. \A g \in Page : StateOf(g)' # "freeing"
    BY <1>2 DEF Freeing, Page
  <2> QED BY <2>1 DEF Copies, Page
<1> QED BY <1>1, <1>2, <1>6, <1>7, <1>8

LEMMA OneLess ==
  ASSUME PagesInv, BlobsInv, Freeing = {}, Single, NEW a \in Places, Erase(a)
  PROVE  /\ Stored' = Stored \ {At(a)} /\ At(a) \in Stored /\ At(a) \in Item
         /\ IndexesIn' = IndexesIn \ {At(a)} /\ ChunksIn' = ChunksIn \ {At(a)}
         /\ Distinct' /\ Copies' /\ Pairs' /\ Counts' /\ Sizes'
         /\ \A k, v, m, n : All(k, v, m, n) /\ (OfBlob(At(a), k, v) => At(a).index \notin m .. n - 1)
                            => All(k, v, m, n)'
<1>1. FlashOK /\ Filled /\ Distinct /\ Counts /\ Sizes
  BY DEF PagesInv, TypeOK, BlobsInv
<1>2. Stored' = Stored \ {At(a)} /\ Distinct' /\ Copies' /\ Freeing' = {} /\ FlashOK'
  BY <1>1, ErasedBlobs
<1> PICK x : x = At(a)
  OBVIOUS
<1>3. Stored' = Stored \ {x}
  BY <1>2
<1>4. /\ IndexesIn' = IndexesIn \ {x} /\ ChunksIn' = ChunksIn \ {x}
      /\ Counts' /\ Sizes' /\ Single'
      /\ \A k, v, m, n : All(k, v, m, n) /\ (OfBlob(x, k, v) => x.index \notin m .. n - 1)
                            => All(k, v, m, n)'
  BY <1>1, <1>3, FewerBlobs
<1>5. Pairs'
  BY <1>2, <1>4, StoredThen DEF SinglePairsD
<1>6. At(a) \in Stored /\ At(a) \in Item
  BY <1>1, StoredFacts DEF StoredFactsD
<1> QED BY <1>2, <1>4, <1>5, <1>6

\* What a page holds that is begun for one being freed is stored on that one, too.
LEMMA CopyIsReal ==
  ASSUME FlashOK, Copies, NEW a \in Places, StateOf(a[1]) = "active", NEW g \in Freeing
  PROVE  \E c \in RealPlaces : c[1] = g /\ At(c) = At(a)
<1>1. /\ a[1] \in Page /\ a[2] \in DOMAIN Items(a[1]) /\ At(a) = Items(a[1])[a[2]]
  BY PlaceFacts DEF PlaceFactsD
<1>2. g \in Page /\ StateOf(g) = "freeing"
  BY DEF Freeing
<1>3. PICK j \in DOMAIN Items(g) : Items(a[1])[a[2]] = Items(g)[j]
  BY <1>1, <1>2 DEF Copies
<1>4. <<g, j>> \in Places /\ At(<<g, j>>) = At(a)
  BY <1>1, <1>2, <1>3, IsPlace DEF IsPlaceD
<1>5. <<g, j>> \in RealPlaces
  BY <1>2, <1>4 DEF RealPlaces
<1>6. <<g, j>>[1] = g
  OBVIOUS
<1> QED BY <1>4, <1>5, <1>6

LEMMA CopiesAreStored == ASSUME FlashOK, Copies, NEW a \in Places PROVE At(a) \in Stored
<1>1. CASE a \in RealPlaces
  BY <1>1, StoredFacts DEF StoredFactsD
<1>2. CASE a \notin RealPlaces
  <2>1. StateOf(a[1]) = "active"
    BY <1>2 DEF RealPlaces
  <2>2. PICK g \in Freeing : TRUE
    BY <1>2 DEF RealPlaces
  <2>3. PICK c \in RealPlaces : At(c) = At(a)
    BY <2>1, <2>2, CopyIsReal
  <2> QED BY <2>3, StoredFacts DEF StoredFactsD
<1> QED BY <1>1, <1>2

\* Lookups by key and version, by place and by content.
LEMMA Lookups ==
  ASSUME FlashOK, Copies \/ Freeing = {}
  PROVE  /\ \A k : \A a \in Indexes(k) : a \in Places /\ At(a) \in IndexesIn /\ At(a).key = k
         /\ \A k, v : \A a \in IndexOf(k, v) : a \in Indexes(k) /\ At(a).ver = v
         /\ \A k : \A a \in Chunks(k) : a \in Places /\ At(a) \in ChunksIn /\ At(a).key = k
         /\ \A x \in IndexesIn : \E a \in IndexOf(x.key, x.ver) : At(a) = x
         /\ \A y \in ChunksIn : \E a \in Chunks(y.key) : At(a) = y
         /\ \A k, v, i : \A a \in ChunksOf(k, v, i) :
              a \in Places /\ At(a) \in ChunksIn /\ OfBlob(At(a), k, v) /\ At(a).index = i
         /\ \A y \in ChunksIn : \E a \in ChunksOf(y.key, y.ver, y.index) : At(a) = y
<1>1. \A a \in Places : At(a) \in Stored
  BY StoredFacts, CopiesAreStored DEF StoredFactsD
<1>2. \A x \in Stored : \E a \in Places : At(a) = x
  BY StoredFacts DEF StoredFactsD
<1> QED BY <1>1, <1>2 DEF Indexes, IndexOf, Chunks, ChunksOf, IndexesIn, ChunksIn, OfBlob

LEMMA BlobsOfEraseOrphans ==
  ASSUME PagesInv, BlobsInv, EraseOrphans
  PROVE  BlobsInv'
<1>1. /\ pc = "orphan" /\ Freeing = {} /\ Single /\ FlashOK /\ Filled /\ Ordered
  <2>1. pc = "orphan" /\ Freeing = {}
    BY NotMoving DEF EraseOrphans, Moves
  <2> QED BY <2>1, PairsSingle DEF PairsSingleD, BlobsInv, PagesInv, TypeOK
<1>2. CASE Orphans = {}
  <2>1. pc' = "idle" /\ UNCHANGED <<flash, op, loc>>
    BY <1>2 DEF EraseOrphans
  <2>2. RealPlaces' = RealPlaces /\ \A a \in RealPlaces : At(a)' = At(a)
    BY <2>1 DEF RealPlaces, Places, Items, StateOf, Freeing, At
  <2>3. /\ Stored' = Stored /\ IndexesIn' = IndexesIn /\ ChunksIn' = ChunksIn
        /\ Distinct' /\ Counts' /\ Sizes' /\ Single'
        /\ \A k, v, m, n : All(k, v, m, n) => All(k, v, m, n)'
    BY <1>1, <2>2, SameBlobs DEF BlobsInv
  <2>4. FlashOK' /\ Copies'
    BY <1>1, <2>1 DEF FlashOK, Page, PageType, BlobsInv, Copies, StateOf, Items
  <2>5. Pairs'
    BY <2>3, <2>4, StoredThen DEF SinglePairsD
  <2>6. Whole'
    BY <1>1, <2>1, <2>3 DEF BlobsInv, Whole, Unchecked, Emptied, Moves
  <2>7. Owned'
    <3>1. ASSUME NEW y \in ChunksIn PROVE \E x \in IndexesIn : OfBlob(y, x.key, x.ver)
      <4>1. PICK a \in Chunks(y.key) : At(a) = y
        BY <1>1, Lookups
      <4>2. a \in Places /\ At(a).kind = "data"
        BY DEF Chunks
      <4>3. PICK b \in IndexOf(y.key, y.ver) : TRUE
        BY <1>2, <4>1, <4>2 DEF Orphans
      <4>4. At(b) \in IndexesIn /\ At(b).key = y.key /\ At(b).ver = y.ver
        BY <1>1, Lookups
      <4> QED BY <4>4 DEF OfBlob, ChunksIn
    <3> QED BY <2>1, <2>3, <3>1 DEF Owned, OfBlob
  <2>8. Begun' /\ Ended' /\ Untouched'
    BY <2>1 DEF Begun, Ended, Untouched, Storing, WritePcs, Moves
  <2> QED BY <2>3, <2>4, <2>5, <2>6, <2>7, <2>8 DEF BlobsInv
<1>3. CASE Orphans # {}
  <2> PICK a : a = Earliest(Orphans)
    OBVIOUS
  <2>1. pc' = "orphan" /\ UNCHANGED <<op, loc>> /\ Erase(a)
    BY <1>1, <1>3 DEF EraseOrphans
  <2>2. a \in Orphans /\ a \in Places
    BY <1>1, <1>3, EarliestIn DEF Orphans
  <2>3. /\ IndexesIn' = IndexesIn \ {At(a)} /\ ChunksIn' = ChunksIn \ {At(a)}
        /\ Distinct' /\ Copies' /\ Pairs' /\ Counts' /\ Sizes' /\ At(a) \in Item
        /\ \A k, v, m, n : All(k, v, m, n) /\ (OfBlob(At(a), k, v) => At(a).index \notin m .. n - 1)
                            => All(k, v, m, n)'
    BY <1>1, <2>1, <2>2, OneLess
  <2>4. Whole'
    <3>1. ASSUME NEW x \in IndexesIn PROVE All(x.key, x.ver, 0, x.count)'
      <4>1. All(x.key, x.ver, 0, x.count)
        BY <1>1 DEF BlobsInv, Whole, Unchecked, Emptied, Moves
      <4>2. ASSUME OfBlob(At(a), x.key, x.ver) PROVE At(a).index \notin 0 .. x.count - 1
        <5>1. PICK b \in IndexOf(x.key, x.ver) : At(b) = x
          BY <1>1, Lookups
        <5>2. At(a).index >= x.count
          BY <2>2, <4>2, <5>1 DEF OfBlob, Orphans
        <5>3. x \in Item /\ x.count \in Nat /\ At(a).index \in Nat
          BY <1>1, <2>3, <4>2, ItemKinds, StoredFacts DEF OfBlob, IndexesIn, StoredFactsD
        <5> QED BY <5>2, <5>3
      <4> QED BY <2>3, <4>1, <4>2
    <3> QED BY <2>3, <3>1 DEF Whole
  <2>5. Owned'
    BY <2>1 DEF Owned
  <2>6. Begun' /\ Ended' /\ Untouched'
    BY <2>1 DEF Begun, Ended, Untouched, Storing, WritePcs, Moves
  <2> QED BY <2>3, <2>4, <2>5, <2>6 DEF BlobsInv
<1> QED BY <1>2, <1>3

\* Nothing on flash changes.
LEMMA FlashStays ==
  ASSUME PagesInv, BlobsInv, UNCHANGED flash
  PROVE  /\ Stored' = Stored /\ IndexesIn' = IndexesIn /\ ChunksIn' = ChunksIn
         /\ Distinct' /\ Copies' /\ Counts' /\ Sizes' /\ (Single => Pairs') /\ Freeing' = Freeing
         /\ \A k, v, m, n : All(k, v, m, n) => All(k, v, m, n)'
         /\ \A k, v, m, n : Sized(k, v, m, n) => Sized(k, v, m, n)'
<1>1. RealPlaces' = RealPlaces /\ (\A a \in RealPlaces : At(a)' = At(a)) /\ Freeing' = Freeing
  BY DEF RealPlaces, Places, Items, StateOf, Freeing, At
<1>2. /\ Stored' = Stored /\ IndexesIn' = IndexesIn /\ ChunksIn' = ChunksIn
      /\ Distinct' /\ Counts' /\ Sizes' /\ (Single => Single')
      /\ \A k, v, m, n : All(k, v, m, n) => All(k, v, m, n)'
      /\ \A k, v, m, n : Sized(k, v, m, n) => Sized(k, v, m, n)'
  BY <1>1, SameBlobs DEF BlobsInv
<1>3. FlashOK' /\ Copies'
  BY DEF PagesInv, TypeOK, FlashOK, Page, PageType, BlobsInv, Copies, StateOf, Items
<1>4. Single => Pairs'
  BY <1>2, <1>3, StoredThen DEF SinglePairsD
<1> QED BY <1>1, <1>2, <1>3, <1>4

LEMMA QuietSingle ==
  ASSUME PagesInv, BlobsInv, pc \notin {"off", "load", "list", "dup", "recover", "old_index"} \cup Moves
  PROVE  Freeing = {} /\ Single /\ FlashOK /\ Filled /\ Ordered /\ TypeOK
BY NotMoving, PairsSingle DEF PairsSingleD, BlobsInv, PagesInv, TypeOK

\* As many chunks as an index counts, of different numbers below its count, are all of them.
LEMMA AllAreThere ==
  ASSUME FlashOK, Freeing = {}, Distinct, Counts, NEW x \in IndexesIn,
         Cardinality(Observed(x)) = x.count
  PROVE  All(x.key, x.ver, 0, x.count)
<1> DEFINE O == Observed(x)
           N == 0 .. x.count - 1
           f == [a \in O |-> At(a).index]
<1>1. x \in Item /\ x.kind = "index" /\ x.count \in Nat
  BY StoredFacts, ItemKinds DEF StoredFactsD, IndexesIn
<1>2. IsFiniteSet(N) /\ Cardinality(N) = x.count
  <2>1. 0 \in Int /\ x.count - 1 \in Int
    BY <1>1
  <2>2. IsFiniteSet(N) /\ Cardinality(N) = IF 0 <= x.count - 1 THEN x.count - 1 - 0 + 1 ELSE 0
    BY <2>1, FS_Interval
  <2> QED BY <1>1, <2>2
<1>3. \A a \in O : a \in RealPlaces /\ At(a) \in ChunksIn /\ OfBlob(At(a), x.key, x.ver)
                   /\ At(a).index \in N
  <2> SUFFICES ASSUME NEW a \in O
               PROVE  a \in RealPlaces /\ At(a) \in ChunksIn /\ OfBlob(At(a), x.key, x.ver)
                      /\ At(a).index \in N
    OBVIOUS
  <2>1. a \in Chunks(x.key) /\ At(a).ver = x.ver
    BY DEF Observed
  <2>2. a \in Places /\ At(a) \in ChunksIn /\ OfBlob(At(a), x.key, x.ver)
    BY <2>1, Lookups DEF OfBlob, ChunksIn
  <2>3. At(a).index < x.count
    BY <2>2 DEF Counts
  <2>4. At(a).index \in Nat
    BY <2>2, StoredFacts, ItemKinds DEF StoredFactsD, ChunksIn
  <2> QED BY <1>1, <2>2, <2>3, <2>4, StoredFacts DEF StoredFactsD
<1>4. f \in Injection(O, N)
  <2>1. f \in [O -> N]
    BY <1>3
  <2>2. \A a, b \in O : f[a] = f[b] => a = b
    BY <1>3 DEF Distinct, SameItem, OfBlob
  <2> QED BY <2>1, <2>2 DEF Injection, IsInjective
<1> HIDE DEF O, N, f
<1>5. f \in Surjection(O, N)
  BY <1>2, <1>4, FS_Injection DEF O
<1>6. \A i \in N : \E a \in O : f[a] = i
  BY <1>5 DEF Surjection
<1> USE DEF O, N, f
<1> QED
  <2> SUFFICES ASSUME NEW i \in N PROVE \E y \in Stored : OfBlob(y, x.key, x.ver) /\ y.index = i
    BY DEF All
  <2>1. PICK a \in O : At(a).index = i
    BY <1>6
  <2> QED BY <1>3, <2>1 DEF ChunksIn

LEMMA BlobsOfEraseMismatched ==
  ASSUME PagesInv, BlobsInv, EraseMismatched
  PROVE  BlobsInv'
<1>1. /\ pc = "match" /\ Freeing = {} /\ Single /\ FlashOK /\ Filled /\ Ordered /\ UNCHANGED ram
  BY QuietSingle DEF EraseMismatched, Moves
<1>2. CASE Mismatched = {}
  <2>1. pc' = "orphan" /\ UNCHANGED <<flash, op, loc>>
    BY <1>1, <1>2 DEF EraseMismatched, ram
  <2>2. Whole'
    <3>1. ASSUME NEW x \in IndexesIn PROVE All(x.key, x.ver, 0, x.count)
      <4>1. PICK a \in IndexOf(x.key, x.ver) : At(a) = x
        BY <1>1, Lookups
      <4>2. a \in Places /\ At(a).kind = "index"
        BY DEF IndexOf, Indexes
      <4>3. Cardinality(Observed(x)) = x.count
        BY <1>2, <4>1, <4>2 DEF Mismatched
      <4> QED BY <1>1, <4>3, AllAreThere DEF BlobsInv
    <3> QED BY <2>1, <3>1, FlashStays DEF Whole
  <2>3. Owned' /\ Begun' /\ Ended' /\ Untouched'
    BY <2>1 DEF Owned, Begun, Ended, Untouched, Storing, WritePcs, Moves
  <2> QED BY <1>1, <2>1, <2>2, <2>3, FlashStays DEF BlobsInv
<1>3. CASE Mismatched # {}
  <2> PICK m : m = Earliest(Mismatched)
    OBVIOUS
  <2>1. m \in Mismatched
    BY <1>1, <1>3, EarliestIn DEF Mismatched
  <2>2. m \in IndexOf(At(m).key, At(m).ver) /\ IndexOf(At(m).key, At(m).ver) \subseteq Places
    BY <2>1 DEF Mismatched, IndexOf, Indexes
  <2> PICK a : a = Earliest(IndexOf(At(m).key, At(m).ver))
    OBVIOUS
  <2>3. a \in Places
    BY <1>1, <2>2, EarliestIn
  <2>4. Erase(a) /\ pc' = "match" /\ UNCHANGED <<op, loc>>
    BY <1>1, <1>3 DEF EraseMismatched, ram
  <2>5. Distinct' /\ Copies' /\ Pairs' /\ Counts' /\ Sizes'
    BY <1>1, <2>3, <2>4, OneLess
  <2>6. Whole' /\ Owned' /\ Begun' /\ Ended' /\ Untouched'
    BY <2>4 DEF Whole, Owned, Begun, Ended, Untouched, Storing, WritePcs, Moves, Unchecked
  <2> QED BY <2>5, <2>6 DEF BlobsInv
<1> QED BY <1>2, <1>3

LEMMA BlobsOfEraseAll ==
  ASSUME PagesInv, BlobsInv, EraseAll
  PROVE  BlobsInv'
<1>1. /\ pc = "find" /\ op.kind = "erase_all"
      /\ Freeing = {} /\ Single /\ FlashOK /\ Filled /\ Ordered
  BY QuietSingle DEF EraseAll, Moves
<1>2. CASE InNamespace = {}
  <2>1. pc' = "idle" /\ UNCHANGED flash
    BY <1>2 DEF EraseAll, Return
  <2>2. \A z \in Stored : NsOf[z.key] # op.ns
    <3>1. \A z \in Stored : \E a \in Places : At(a) = z
      BY <1>1, StoredFacts DEF StoredFactsD
    <3> QED BY <1>2, <3>1 DEF InNamespace
  <2>3. Whole'
    <3>1. \A x \in IndexesIn : All(x.key, x.ver, 0, x.count)
      BY <1>1, <2>2 DEF BlobsInv, Whole, Unchecked, Emptied, Moves, IndexesIn
    <3> QED BY <3>1, FlashStays, <2>1 DEF Whole
  <2>4. Owned'
    <3>1. \A y \in ChunksIn : \E x \in IndexesIn : OfBlob(y, x.key, x.ver)
      BY <1>1, <2>2 DEF BlobsInv, Owned, Unchecked, Emptied, Storing, WritePcs, Moves, ChunksIn
    <3> QED BY <3>1, FlashStays, <2>1 DEF Owned, OfBlob
  <2>5. Begun' /\ Ended' /\ Untouched'
    BY <2>1 DEF Begun, Ended, Untouched, Storing, WritePcs, Moves
  <2> QED BY <1>1, <2>1, <2>3, <2>4, <2>5, FlashStays DEF BlobsInv
<1>3. CASE InNamespace # {}
  <2> PICK a : a = Earliest(InNamespace)
    OBVIOUS
  <2>1. pc' = "find" /\ UNCHANGED <<op, loc>> /\ Erase(a)
    BY <1>1, <1>3 DEF EraseAll, ram
  <2>2. a \in InNamespace /\ a \in Places
    BY <1>1, <1>3, EarliestIn DEF InNamespace
  <2>3. /\ IndexesIn' = IndexesIn \ {At(a)} /\ ChunksIn' = ChunksIn \ {At(a)}
        /\ Distinct' /\ Copies' /\ Pairs' /\ Counts' /\ Sizes'
        /\ \A k, v, m, n : All(k, v, m, n) /\ (OfBlob(At(a), k, v) => At(a).index \notin m .. n - 1)
                            => All(k, v, m, n)'
        /\ NsOf[At(a).key] = op.ns
    BY <1>1, <2>1, <2>2, OneLess DEF InNamespace
  <2>4. Whole'
    <3>1. ASSUME NEW x \in IndexesIn, NsOf[x.key] # op.ns PROVE All(x.key, x.ver, 0, x.count)'
      <4>1. All(x.key, x.ver, 0, x.count)
        BY <1>1, <3>1 DEF BlobsInv, Whole, Unchecked, Emptied, Moves
      <4>2. ~OfBlob(At(a), x.key, x.ver)
        BY <2>3, <3>1 DEF OfBlob
      <4> QED BY <2>3, <4>1, <4>2
    <3> QED BY <1>1, <2>1, <2>3, <3>1 DEF Whole, Emptied
  <2>5. Owned'
    <3>1. ASSUME NEW y \in ChunksIn, NsOf[y.key] # op.ns
          PROVE  \E x \in IndexesIn' : OfBlob(y, x.key, x.ver)
      <4>1. PICK x \in IndexesIn : OfBlob(y, x.key, x.ver)
        BY <1>1, <3>1 DEF BlobsInv, Owned, Unchecked, Emptied, Storing, WritePcs, Moves
      <4>2. x # At(a)
        BY <2>3, <3>1, <4>1 DEF OfBlob
      <4> QED BY <2>3, <4>1, <4>2
    <3> QED BY <1>1, <2>1, <2>3, <3>1 DEF Owned, Emptied, OfBlob
  <2>6. Begun' /\ Ended' /\ Untouched'
    BY <2>1 DEF Begun, Ended, Untouched, Storing, WritePcs, Moves
  <2> QED BY <2>3, <2>4, <2>5, <2>6 DEF BlobsInv
<1> QED BY <1>2, <1>3

\* Every index has its chunks and every chunk its index: what a call leaves when it returns.
Complete ==
  /\ Single
  /\ \A x \in IndexesIn : All(x.key, x.ver, 0, x.count)
  /\ \A y \in ChunksIn : \E x \in IndexesIn : OfBlob(y, x.key, x.ver)

LEMMA BlobsOfReturn ==
  ASSUME PagesInv, BlobsInv, Complete, UNCHANGED flash, pc' \in {"idle", "find"}
  PROVE  BlobsInv'
<1>1. Whole' /\ Owned'
  BY FlashStays DEF Complete, Whole, Owned, OfBlob
<1>2. Begun' /\ Ended' /\ Untouched'
  BY DEF Begun, Ended, Untouched, Storing, WritePcs, Moves
<1> QED BY <1>1, <1>2, FlashStays DEF BlobsInv, Complete

LEMMA CompleteBlobs ==
  ASSUME PagesInv, BlobsInv,
         \/ pc \in {"idle", "return"}
         \/ pc = "find" /\ op.kind # "erase_all"
         \/ pc = "old_index" /\ Single
         \/ pc = "chunk" /\ Count = 0
         \/ pc = "old_chunks" /\ loc.i = loc.count
  PROVE  Complete
<1>1. Single
  BY QuietSingle DEF Moves
<1>2. Whole /\ Owned /\ Begun /\ Ended /\ FlashOK
  BY DEF BlobsInv, PagesInv, TypeOK
<1>3. \A x \in IndexesIn : All(x.key, x.ver, 0, x.count)
  BY <1>2 DEF Whole, Unchecked, Emptied, Moves
<1>4. ASSUME NEW y \in ChunksIn PROVE \E x \in IndexesIn : OfBlob(y, x.key, x.ver)
  <2>1. y.index \in Nat
    BY <1>2, StoredFacts, ItemKinds DEF StoredFactsD, ChunksIn
  <2>2. loc.count \in Nat
    BY DEF PagesInv, TypeOK, Locals
  <2>3. CASE pc \in {"idle", "return", "find", "old_index"}
    BY <1>2, <2>3 DEF Owned, Unchecked, Emptied, Storing, WritePcs, Moves
  <2>4. CASE pc = "chunk" /\ Count = 0
    <3>1. Storing
      BY <2>4 DEF Storing, WritePcs, PagesInv, Called
    <3>2. ~OfBlob(y, op.key, loc.ver)
      BY <1>2, <2>1, <2>4, <3>1 DEF Begun
    <3> QED BY <1>2, <2>4, <3>2 DEF Owned, Unchecked, Emptied, Moves
  <2>5. CASE pc = "old_chunks" /\ loc.i = loc.count
    <3>1. ~OfBlob(y, op.key, loc.prev)
      BY <1>2, <2>1, <2>2, <2>5 DEF Ended
    <3> QED BY <1>2, <2>5, <3>1 DEF Owned, Unchecked, Emptied, Storing, WritePcs, Moves
  <2> QED BY <2>3, <2>4, <2>5
<1> QED BY <1>1, <1>3, <1>4 DEF Complete

LEMMA BlobsOfReturns ==
  ASSUME PagesInv, BlobsInv,
         WriteNothing \/ NoImprovement \/ EraseMissing \/ Finish
           \/ (WriteFind /\ pc' = "idle") \/ (BeginCall /\ pc' = "find")
  PROVE  BlobsInv'
<1>1. /\ UNCHANGED flash /\ pc' \in {"idle", "find"}
      /\ \/ pc \in {"idle", "return"}
         \/ pc = "find" /\ op.kind # "erase_all"
         \/ pc = "chunk" /\ Count = 0
         \/ pc = "old_chunks" /\ loc.i = loc.count
  BY DEF WriteNothing, NoImprovement, NoGain, EraseMissing, Finish, WriteFind, BeginCall, Return
<1> QED BY <1>1, CompleteBlobs, BlobsOfReturn

LEMMA BlobsOfEraseFind ==
  ASSUME PagesInv, BlobsInv, EraseFind
  PROVE  BlobsInv'
<1>1. /\ pc = "find" /\ op.kind = "erase" /\ pc' = "old_index" /\ UNCHANGED flash
  BY DEF EraseFind
<1>2. Complete
  BY <1>1, CompleteBlobs
<1>3. Whole' /\ Owned'
  BY <1>2, <1>1, FlashStays DEF Complete, Whole, Owned, OfBlob
<1>4. Begun' /\ Ended' /\ Untouched'
  BY <1>1 DEF Begun, Ended, Untouched, Storing, WritePcs, Moves
<1> QED BY <1>1, <1>2, <1>3, <1>4, FlashStays DEF BlobsInv, Complete

\* While the old index of a write is there, the key has two.
LEMMA TwoIndexes ==
  ASSUME PagesInv, BlobsInv, pc = "old_index"
  PROVE  /\ \A x, y \in IndexesIn : x.key = y.key /\ x # y => x.key = op.key /\ x.ver # y.ver
         /\ Freeing = {} /\ FlashOK /\ Filled /\ Ordered /\ loc.prev \in Version
         /\ \A x, y \in IndexesIn : x.key = y.key /\ x.ver = y.ver => x = y
<1>1. Freeing = {} /\ FlashOK /\ Filled /\ Ordered /\ TypeOK
  BY NotMoving DEF Moves, PagesInv, TypeOK
<1>2. \A x \in IndexesIn : \E a \in RealPlaces : At(a) = x
  BY <1>1, StoredFacts DEF StoredFactsD, IndexesIn
<1>3. \A x, y \in IndexesIn : x.key = y.key /\ x.ver = y.ver => x = y
  BY <1>2 DEF BlobsInv, Distinct, SameItem, IndexesIn
<1>4. \A x, y \in IndexesIn : x.key = y.key /\ x # y => x.key = op.key
  BY <1>2 DEF BlobsInv, Pairs, PairAllowed, IndexesIn
<1>5. loc.prev \in Version
  BY <1>1 DEF PagesInv, Called, Late, TypeOK, Locals
<1> QED BY <1>1, <1>3, <1>4, <1>5

LEMMA BlobsOfEraseOldIndex ==
  ASSUME PagesInv, BlobsInv, EraseOldIndex
  PROVE  BlobsInv'
<1>1. pc = "old_index"
  BY DEF EraseOldIndex
<1>2. /\ \A x, y \in IndexesIn : x.key = y.key /\ x # y => x.key = op.key /\ x.ver # y.ver
      /\ Freeing = {} /\ FlashOK /\ Filled /\ Ordered /\ loc.prev \in Version
      /\ \A x, y \in IndexesIn : x.key = y.key /\ x.ver = y.ver => x = y
  BY <1>1, TwoIndexes
<1>3. \A x \in IndexesIn : x.ver \in Version /\ x.count \in Nat
  BY <1>2, StoredFacts, ItemKinds DEF StoredFactsD, IndexesIn
<1>4. CASE IndexOf(op.key, loc.prev) = {}
  <2>1. UNCHANGED flash /\ pc' = "idle"
    BY <1>4 DEF EraseOldIndex, Return
  <2>2. \A x \in IndexesIn : x.key = op.key => x.ver # loc.prev
    BY <1>2, <1>4, Lookups
  <2>3. Single
    BY <1>2, <1>3, <2>2 DEF Single, Version
  <2> QED BY <1>1, <2>1, <2>3, CompleteBlobs, BlobsOfReturn
<1>5. CASE IndexOf(op.key, loc.prev) # {}
  <2> PICK a : a = Earliest(IndexOf(op.key, loc.prev))
    OBVIOUS
  <2>1. /\ Erase(a) /\ pc' = "old_chunks" /\ UNCHANGED op
        /\ loc' = [loc EXCEPT !.count = At(a).count, !.i = 0]
    BY <1>5 DEF EraseOldIndex
  <2>2. a \in IndexOf(op.key, loc.prev) /\ a \in Places
    BY <1>2, <1>5, EarliestIn DEF IndexOf, Indexes
  <2> PICK o : o = At(a)
    OBVIOUS
  <2>3. o \in IndexesIn /\ o.key = op.key /\ o.ver = loc.prev /\ o.count \in Nat
    BY <1>2, <1>3, <2>2, Lookups
  <2>4. loc'.count = o.count /\ loc'.i = 0 /\ loc'.prev = loc.prev
    BY <2>1 DEF PagesInv, TypeOK, Locals
  <2>5. Stored' = Stored \ {o} /\ Distinct' /\ Copies' /\ FlashOK'
    BY <1>2, <2>1, <2>2, ErasedBlobs DEF BlobsInv
  <2>6. /\ IndexesIn' = IndexesIn \ {o} /\ ChunksIn' = ChunksIn \ {o}
        /\ Counts' /\ Sizes'
        /\ \A k, v, m, n : All(k, v, m, n) /\ (OfBlob(o, k, v) => o.index \notin m .. n - 1)
                            => All(k, v, m, n)'
    BY <2>5, FewerBlobs DEF BlobsInv
  <2>7. ~OfBlob(o, op.key, loc.prev) /\ \A k, v : ~OfBlob(o, k, v)
    BY <2>3 DEF OfBlob, IndexesIn
  <2>8. Single'
    <3>1. \A x \in IndexesIn : x.key = op.key /\ x # o => x.ver # loc.prev
      BY <1>2, <2>3
    <3> QED BY <1>2, <1>3, <2>6, <3>1 DEF Single, Version
  <2>9. Pairs'
    BY <2>5, <2>8, StoredThen DEF SinglePairsD
  <2>10. \A x \in IndexesIn : All(x.key, x.ver, 0, x.count)
    BY <1>1 DEF BlobsInv, Whole, Unchecked, Emptied, Moves
  <2>11. Whole'
    BY <2>6, <2>7, <2>10 DEF Whole
  <2>12. Owned'
    <3>1. ASSUME NEW y \in ChunksIn, ~OfBlob(y, op.key, loc.prev)
          PROVE  \E x \in IndexesIn' : OfBlob(y, x.key, x.ver)
      <4>1. PICK x \in IndexesIn : OfBlob(y, x.key, x.ver)
        BY <1>1 DEF BlobsInv, Owned, Unchecked, Emptied, Storing, WritePcs, Moves
      <4> QED BY <2>3, <2>6, <3>1, <4>1
    <3> QED BY <2>1, <2>4, <2>6, <3>1 DEF Owned, OfBlob
  <2>13. Ended'
    <3>1. \A x \in IndexesIn' : x.key = op.key => x.ver # loc.prev
      BY <1>2, <2>3, <2>6
    <3>2. ASSUME NEW y \in ChunksIn, OfBlob(y, op.key, loc.prev) PROVE 0 <= y.index /\ y.index < o.count
      <4>1. y.index \in Nat
        BY <1>2, StoredFacts, ItemKinds DEF StoredFactsD, ChunksIn
      <4>2. y.index < o.count
        BY <2>3, <3>2 DEF BlobsInv, Counts, OfBlob
      <4> QED BY <4>1, <4>2
    <3>3. All(o.key, o.ver, 0, o.count)'
      BY <2>3, <2>6, <2>7, <2>10
    <3>4. 0 <= o.count
      BY <2>3
    <3>5. \A y \in ChunksIn' : OfBlob(y, op.key, loc.prev) => 0 <= y.index /\ y.index < o.count
      BY <2>6, <3>2
    <3>6. loc'.prev = o.ver /\ op'.key = o.key
      BY <2>1, <2>3, <2>4
    <3> QED BY <2>1, <2>3, <2>4, <3>1, <3>3, <3>4, <3>5, <3>6 DEF Ended, All, OfBlob
  <2>14. Begun' /\ Untouched'
    BY <2>1 DEF Begun, Untouched, Storing, WritePcs, Moves
  <2> QED BY <2>5, <2>6, <2>9, <2>11, <2>12, <2>13, <2>14 DEF BlobsInv
<1> QED BY <1>4, <1>5

LEMMA BlobsOfEraseOldChunk ==
  ASSUME PagesInv, BlobsInv, EraseOldChunk
  PROVE  BlobsInv'
<1>1. /\ pc = "old_chunks" /\ loc.i < loc.count
      /\ Freeing = {} /\ Single /\ FlashOK /\ Filled /\ Ordered
  BY QuietSingle DEF EraseOldChunk, Moves
<1>2. loc.i \in Nat /\ loc.count \in Nat
  BY DEF PagesInv, TypeOK, Locals
<1>3. Ended /\ All(op.key, loc.prev, loc.i, loc.count)
  BY <1>1 DEF BlobsInv, Ended
<1>4. PICK z \in Stored : OfBlob(z, op.key, loc.prev) /\ z.index = loc.i
  BY <1>1, <1>2, <1>3 DEF All
<1>5. OldChunk # {}
  BY <1>1, <1>4, Lookups DEF OldChunk, OfBlob, ChunksIn
<1> PICK a : a = Earliest(OldChunk)
  OBVIOUS
<1>6. /\ Erase(a) /\ UNCHANGED <<pc, op>> /\ loc' = [loc EXCEPT !.i = @ + 1]
  BY <1>5 DEF EraseOldChunk
<1>7. a \in OldChunk /\ a \in Places
  BY <1>1, <1>5, EarliestIn DEF OldChunk, ChunksOf
<1> PICK o : o = At(a)
  OBVIOUS
<1>8. o \in ChunksIn /\ OfBlob(o, op.key, loc.prev) /\ o.index = loc.i
  BY <1>1, <1>7, Lookups DEF OldChunk
<1>9. loc'.i = loc.i + 1 /\ loc'.prev = loc.prev /\ loc'.count = loc.count
  BY <1>6 DEF PagesInv, TypeOK, Locals
<1>10. /\ IndexesIn' = IndexesIn \ {o} /\ ChunksIn' = ChunksIn \ {o}
       /\ Distinct' /\ Copies' /\ Pairs' /\ Counts' /\ Sizes'
       /\ \A k, v, m, n : All(k, v, m, n) /\ (OfBlob(o, k, v) => o.index \notin m .. n - 1)
                            => All(k, v, m, n)'
  BY <1>1, <1>6, <1>7, OneLess
<1>11. Whole'
  <2>1. \A x \in IndexesIn : All(x.key, x.ver, 0, x.count) /\ ~OfBlob(o, x.key, x.ver)
    BY <1>1, <1>3, <1>8 DEF BlobsInv, Whole, Unchecked, Emptied, Moves, Ended, OfBlob
  <2> QED BY <1>10, <2>1 DEF Whole
<1>12. Owned'
  <2>1. ASSUME NEW y \in ChunksIn, ~OfBlob(y, op.key, loc.prev)
        PROVE  \E x \in IndexesIn' : OfBlob(y, x.key, x.ver)
    <3>1. PICK x \in IndexesIn : OfBlob(y, x.key, x.ver)
      BY <1>1, <2>1 DEF BlobsInv, Owned, Unchecked, Emptied, Storing, WritePcs, Moves
    <3>2. x # o
      BY <1>8 DEF IndexesIn, ChunksIn
    <3> QED BY <1>10, <3>1, <3>2
  <2> QED BY <1>1, <1>6, <1>9, <1>10, <2>1 DEF Owned, OfBlob
<1>13. Ended'
  <2>1. \A x \in IndexesIn' : x.key = op.key => x.ver # loc.prev
    BY <1>1, <1>3, <1>10 DEF Ended
  <2>2. ASSUME NEW y \in ChunksIn', OfBlob(y, op.key, loc.prev)
        PROVE  loc.i + 1 <= y.index /\ y.index < loc.count
    <3>1. y \in ChunksIn /\ y # o /\ y.index \in Nat
      BY <1>1, <1>10, StoredFacts, ItemKinds DEF StoredFactsD, ChunksIn
    <3>2. loc.i <= y.index /\ y.index < loc.count
      BY <1>1, <1>3, <2>2, <3>1 DEF Ended
    <3>3. y.index # loc.i
      <4>1. PICK b \in RealPlaces : At(b) = y
        BY <1>1, <3>1, StoredFacts DEF StoredFactsD, ChunksIn
      <4>2. PICK c \in RealPlaces : At(c) = o
        BY <1>1, <1>8, StoredFacts DEF StoredFactsD, ChunksIn
      <4>3. y.index = o.index => SameItem(At(b), At(c))
        BY <1>8, <2>2, <4>1, <4>2 DEF SameItem, OfBlob
      <4> QED BY <1>8, <3>1, <4>1, <4>2, <4>3 DEF BlobsInv, Distinct
    <3> QED BY <1>2, <3>1, <3>2, <3>3
  <2> PICK n : n = loc.count
    OBVIOUS
  <2>3. All(o.key, o.ver, o.index + 1, n)'
    <3>1. All(o.key, o.ver, o.index + 1, n)
      BY <1>2, <1>3, <1>8 DEF All, OfBlob
    <3>2. o.index \notin o.index + 1 .. n - 1
      BY <1>2, <1>8
    <3> QED BY <1>10, <3>1, <3>2
  <2>4. loc.i + 1 <= loc.count
    BY <1>1, <1>2
  <2>5. loc'.prev = o.ver /\ op'.key = o.key /\ loc'.i = o.index + 1 /\ loc'.count = n
    BY <1>6, <1>8, <1>9 DEF OfBlob
  <2>6. o.ver = loc.prev /\ o.key = op.key
    BY <1>8 DEF OfBlob
  <2> QED BY <1>6, <1>9, <2>1, <2>2, <2>3, <2>4, <2>5, <2>6 DEF Ended, All, OfBlob
<1>14. Begun' /\ Untouched'
  BY <1>1, <1>6 DEF Begun, Untouched, Storing, WritePcs, Moves
<1> QED BY <1>10, <1>11, <1>12, <1>13, <1>14 DEF BlobsInv

\* While the blobs are not checked yet, only what the pages hold is told apart.
LEMMA BlobsUnchecked ==
  ASSUME Unchecked', Distinct', Copies', Pairs', Counts', Sizes',
         pc' \in {"off", "load", "list", "dup", "recover", "match", "failed"}
           \/ (pc' \in Moves /\ op' = NoRequest)
  PROVE  BlobsInv'
<1>1. Whole' /\ Owned'
  BY DEF Whole, Owned
<1>2. NoRequest.kind # "write"
  BY DEF NoRequest, Request
<1>3. Begun' /\ Ended' /\ Untouched'
  BY <1>2 DEF Begun, Ended, Untouched, Storing, WritePcs, Moves
<1> QED BY <1>1, <1>3 DEF BlobsInv

LEMMA BlobsOfPowerOn ==
  ASSUME PagesInv, BlobsInv, PowerOn
  PROVE  BlobsInv'
<1>1. pc = "off" /\ pc' = "load" /\ UNCHANGED flash
  BY DEF PowerOn
<1>2. RealPlaces' = RealPlaces /\ \A a \in RealPlaces : At(a)' = At(a)
  BY <1>1 DEF RealPlaces, Places, At, Items, Freeing, StateOf
<1>3. Pairs'
  BY <1>1, <1>2 DEF BlobsInv, Pairs, PairAllowed, IsLast, At, Items, StateOf, Freeing
<1>4. Unchecked'
  BY <1>1 DEF Unchecked
<1> QED BY <1>1, <1>3, <1>4, FlashStays, BlobsUnchecked

LEMMA BlobsOfNothingToRecover ==
  ASSUME PagesInv, BlobsInv, NothingToRecover
  PROVE  BlobsInv'
<1>1. pc = "recover" /\ pc' \in {"failed", "match"} /\ UNCHANGED flash /\ FlashOK
  BY DEF NothingToRecover, PagesInv, TypeOK
<1>2. Single
  BY <1>1, PairsSingle DEF PairsSingleD, BlobsInv
<1>3. Unchecked'
  BY <1>1 DEF Unchecked
<1> QED BY <1>1, <1>2, <1>3, FlashStays, BlobsUnchecked

\* Two items of one page that are twins are two indexes, the later one the last item,
\* and no page is being freed.
LEMMA TwinsOnAPage ==
  ASSUME PagesInv, BlobsInv, NEW a \in Places, NEW b \in Places,
         a[1] = b[1], a[2] < b[2], StateOf(a[1]) = "active", Twin(At(a), At(b))
  PROVE  Freeing = {} /\ At(a).kind = "index" /\ At(b).kind = "index" /\ At(a).key = At(b).key
<1>1. FlashOK
  BY DEF PagesInv, TypeOK
<1>2. /\ a[1] \in Page /\ a[2] \in DOMAIN Items(a[1]) /\ At(a) = Items(a[1])[a[2]] /\ At(a) \in Item
      /\ b[2] \in DOMAIN Items(a[1]) /\ At(b) = Items(a[1])[b[2]] /\ At(b) \in Item
      /\ a[2] \in Nat /\ b[2] \in Nat /\ a # b
  BY <1>1, PlaceFacts DEF PlaceFactsD
<1>3. Freeing = {}
  <2>1. SUFFICES ASSUME NEW g \in Freeing PROVE FALSE
    OBVIOUS
  <2>2. g \in Page /\ StateOf(g) = "freeing"
    BY DEF Freeing
  <2>3. PICK c \in RealPlaces : At(c) = At(a)
    BY <1>1, CopyIsReal DEF BlobsInv
  <2>4. StateOf(b[1]) = "active"
    OBVIOUS
  <2>5. PICK d \in RealPlaces : At(d) = At(b)
    BY <1>1, <2>4, CopyIsReal DEF BlobsInv
  <2>6. ~SameItem(At(a), At(b))
    <3>1. a[2] # b[2]
      BY <1>2
    <3> QED BY <1>2, <2>2, <3>1 DEF BlobsInv, Copies
  <2>7. CASE At(a).kind = "data"
    BY <2>6, <2>7 DEF SameItem, Twin
  <2>8. CASE At(a).kind = "index"
    <3>1. c # d
      BY <2>3, <2>5, <2>6 DEF SameItem
    <3>2. PairAllowed(c, d)
      BY <2>3, <2>5, <2>8, <3>1 DEF BlobsInv, Pairs, Twin
    <3> QED BY <2>1, <3>2 DEF PairAllowed
  <2> QED BY <1>2, <2>7, <2>8, ItemKinds
<1>4. a \in RealPlaces /\ b \in RealPlaces
  BY <1>3 DEF RealPlaces
<1>5. At(a).kind # "data"
  BY <1>2, <1>4 DEF BlobsInv, Distinct, SameItem, Twin
<1> QED BY <1>2, <1>3, <1>5, ItemKinds DEF Twin

LEMMA BlobsOfRepairPage ==
  ASSUME PagesInv, BlobsInv, RepairPage
  PROVE  BlobsInv'
<1>1. pc = "load" /\ pc' = "load" /\ FlashOK /\ Filled
  BY DEF RepairPage, PagesInv, TypeOK
<1>2. PICK a \in Shadowed : Erase(a)
  BY DEF RepairPage
<1>3. a \in Places /\ StateOf(a[1]) = "active"
      /\ \E b \in Places : b[1] = a[1] /\ b[2] > a[2] /\ Twin(At(a), At(b))
  BY <1>2 DEF Shadowed
<1>4. Freeing = {}
  <2>1. PICK b \in Places : b[1] = a[1] /\ b[2] > a[2] /\ Twin(At(a), At(b))
    BY <1>3
  <2>2. a[2] \in Nat /\ b[2] \in Nat
    BY <1>1, <1>3, PlaceFacts DEF PlaceFactsD
  <2> QED BY <1>3, <2>1, <2>2, TwinsOnAPage
<1>5. Stored' = Stored \ {At(a)} /\ Distinct' /\ Copies' /\ Freeing' = {} /\ FlashOK'
  BY <1>1, <1>2, <1>3, <1>4, ErasedBlobs DEF BlobsInv
<1>6. Counts' /\ Sizes'
  BY <1>5, FewerBlobs DEF BlobsInv
<1>7. /\ \A b \in Places' :
           /\ Origin(a, b) \in Places /\ Origin(a, b) # a /\ Origin(a, b)[1] = b[1]
           /\ At(b)' = At(Origin(a, b))
           /\ b[1] = a[1] => Origin(a, b)[2] = Was(a[2], b[2])
           /\ b[1] # a[1] => Origin(a, b) = b
      /\ \A b, d \in Places' : Origin(a, b) = Origin(a, d) => b = d
  BY <1>1, <1>2, <1>3, ErasedPlaces
<1>8. /\ \A p \in Page : flash'[p].st = flash[p].st
      /\ flash'[a[1]].items = RemoveAt(Items(a[1]), a[2])
      /\ \A p \in Page \ {a[1]} : flash'[p] = flash[p]
  BY <1>1, <1>2, <1>3, ErasedPages
<1>9. \A b \in Places' : b[1] \in Page /\ b[2] \in Nat
  BY <1>5, FactsThen DEF PlaceFactsD
<1>10. ASSUME NEW b \in Places', IsLast(Origin(a, b)) PROVE IsLast(b)'
  <2>1. StateOf(b[1])' = "active" /\ Origin(a, b)[1] = b[1] /\ b[1] \in Page
    BY <1>7, <1>8, <1>9, <1>10 DEF IsLast, StateOf
  <2>2. CASE b[1] = a[1]
    <3>1. Was(a[2], b[2]) = Len(Items(a[1]))
      BY <1>7, <1>10, <2>2 DEF IsLast
    <3>2. Items(a[1]) \in Seq(Item) /\ a[2] \in DOMAIN Items(a[1]) /\ a[2] \in 1 .. Len(Items(a[1]))
          /\ Len(Items(a[1])) \in Nat
      BY <1>1, <1>3, PlaceFacts, PageFacts DEF PlaceFactsD, PageFactsD
    <3>3. Len(flash'[a[1]].items) = Len(Items(a[1])) - 1
      BY <1>8, <3>2, RemoveAtFacts
    <3>4. b[2] = Len(Items(a[1])) - 1
      <4>1. Origin(a, b) # a /\ a = <<a[1], a[2]>> /\ Origin(a, b) = <<b[1], Was(a[2], b[2])>>
        BY <1>1, <1>3, <1>7, <2>2, PlaceFacts DEF PlaceFactsD, Origin
      <4>2. Was(a[2], b[2]) # a[2]
        BY <2>2, <4>1
      <4> QED BY <1>9, <3>1, <3>2, <4>2 DEF Was
    <3> QED BY <2>1, <2>2, <3>3, <3>4 DEF IsLast, Items
  <2>3. CASE b[1] # a[1]
    BY <1>7, <1>8, <1>9, <1>10, <2>1, <2>3 DEF IsLast, Items
  <2> QED BY <2>2, <2>3
<1>11. Pairs'
  <2>1. SUFFICES ASSUME NEW b \in RealPlaces', NEW d \in RealPlaces',
                        At(b)'.kind = "index", At(d)'.kind = "index", At(b)'.key = At(d)'.key, b # d
                 PROVE  PairAllowed(b, d)'
    BY DEF Pairs
  <2>2. b \in Places' /\ d \in Places'
    BY DEF RealPlaces
  <2>3. Origin(a, b) \in RealPlaces /\ Origin(a, d) \in RealPlaces /\ Origin(a, b) # Origin(a, d)
    BY <1>4, <1>7, <2>1, <2>2 DEF RealPlaces
  <2>4. PairAllowed(Origin(a, b), Origin(a, d))
    BY <1>7, <2>1, <2>2, <2>3 DEF BlobsInv, Pairs
  <2>5. IsLast(b)' \/ IsLast(d)'
    BY <1>10, <2>2, <2>4 DEF PairAllowed
  <2> QED BY <1>1, <1>5, <2>5 DEF PairAllowed
<1>12. Unchecked'
  BY <1>1 DEF Unchecked
<1> QED BY <1>1, <1>5, <1>6, <1>11, <1>12, BlobsUnchecked

\* A copy erased on a page that is begun for one being freed changes nothing.
LEMMA ErasedCopy ==
  ASSUME FlashOK, Filled, Copies, NEW a \in Places, StateOf(a[1]) = "active", Freeing # {}, Erase(a)
  PROVE  /\ RealPlaces' = RealPlaces /\ \A b \in RealPlaces : At(b)' = At(b)
         /\ Copies' /\ FlashOK' /\ Freeing' = Freeing
<1>1. /\ FlashOK' /\ \A p \in Page : flash'[p].st = flash[p].st
      /\ flash'[a[1]].items = RemoveAt(Items(a[1]), a[2])
      /\ \A p \in Page \ {a[1]} : flash'[p] = flash[p]
  <2>1. FlashOK'
    BY ErasedPages DEF FlashOK, Page, PageType
  <2> QED BY <2>1, ErasedPages
<1>2. a[1] \in Page /\ a[2] \in DOMAIN Items(a[1]) /\ Items(a[1]) \in Seq(Item)
  BY PlaceFacts, PageFacts DEF PlaceFactsD, PageFactsD
<1>3. Freeing' = Freeing
  BY <1>1 DEF Freeing, StateOf, Page
<1>4. ASSUME NEW b PROVE b \in RealPlaces <=> b \in RealPlaces'
  <2>1. ASSUME b \in RealPlaces PROVE b \in RealPlaces'
    <3>1. b = <<b[1], b[2]>> /\ b[1] \in Page /\ b[2] \in DOMAIN Items(b[1]) /\ b[1] # a[1]
      BY <2>1, PlaceFacts DEF RealPlaces, PlaceFactsD
    <3>2. b \in Places'
      <4>1. b[2] \in DOMAIN (Items(b[1])')
        BY <1>1, <3>1 DEF Items
      <4>2. <<b[1], b[2]>> \in Places'
        BY <1>1, <3>1, <4>1, FactsThen DEF IsPlaceD, Page
      <4> QED BY <3>1, <4>2
    <3> QED BY <1>1, <1>3, <2>1, <3>1, <3>2 DEF RealPlaces, StateOf
  <2>2. ASSUME b \in RealPlaces' PROVE b \in RealPlaces
    <3>1. b = <<b[1], b[2]>> /\ b[1] \in Page /\ b[2] \in DOMAIN (Items(b[1])')
      BY <1>1, <2>2, FactsThen DEF RealPlaces, PlaceFactsD, Page
    <3>2. b[1] # a[1]
      BY <1>1, <1>2, <1>3, <2>2 DEF RealPlaces, StateOf
    <3>3. b \in Places
      BY <1>1, <3>1, <3>2, IsPlace DEF IsPlaceD, Items
    <3> QED BY <1>1, <1>3, <2>2, <3>1, <3>3 DEF RealPlaces, StateOf
  <2> QED BY <2>1, <2>2
<1>5. ASSUME NEW b \in RealPlaces PROVE At(b)' = At(b)
  <2>1. b[1] \in Page /\ b[1] # a[1]
    BY <1>5, PlaceFacts DEF RealPlaces, PlaceFactsD
  <2> QED BY <1>1, <2>1 DEF At
<1>6. Copies'
  <2> SUFFICES ASSUME NEW g \in Page, NEW p \in Page, StateOf(g)' = "freeing", StateOf(p)' = "active"
               PROVE  /\ \A i \in DOMAIN (Items(p)') : \E j \in DOMAIN (Items(g)') :
                           (Items(p)')[i] = (Items(g)')[j]
                      /\ \A i, j \in DOMAIN (Items(p)') : SameItem((Items(p)')[i], (Items(p)')[j]) => i = j
    BY DEF Copies, Page, SameItem
  <2>1. StateOf(g) = "freeing" /\ StateOf(p) = "active" /\ Items(g)' = Items(g)
    BY <1>1 DEF StateOf, Items
  <2>2. /\ \A i \in DOMAIN Items(p) : \E j \in DOMAIN Items(g) : Items(p)[i] = Items(g)[j]
        /\ \A i, j \in DOMAIN Items(p) : SameItem(Items(p)[i], Items(p)[j]) => i = j
    BY <2>1 DEF Copies
  <2>3. CASE p # a[1]
    <3>1. Items(p)' = Items(p)
      BY <1>1, <2>3 DEF Items
    <3> QED BY <2>1, <2>2, <3>1
  <2>4. CASE p = a[1]
    <3> DEFINE t == Items(p)'
    <3>1. t = RemoveAt(Items(p), a[2])
      BY <1>1, <2>4 DEF Items
    <3>2. a[2] \in 1 .. Len(Items(p)) /\ Len(Items(p)) \in Nat /\ DOMAIN Items(p) = 1 .. Len(Items(p))
      BY <1>2, <2>4
    <3>3. /\ DOMAIN t = 1 .. Len(Items(p)) - 1
          /\ \A j \in 1 .. Len(Items(p)) - 1 : t[j] = Items(p)[Was(a[2], j)]
      BY <1>2, <2>4, <3>1, RemoveAtFacts
    <3>4. /\ \A j \in DOMAIN t : Was(a[2], j) \in DOMAIN Items(p) /\ t[j] = Items(p)[Was(a[2], j)]
          /\ \A i, j \in DOMAIN t : Was(a[2], i) = Was(a[2], j) => i = j
      BY <3>2, <3>3 DEF Was
    <3> HIDE DEF t
    <3>5. \A i \in DOMAIN t : \E j \in DOMAIN Items(g) : t[i] = Items(g)[j]
      BY <2>2, <3>4
    <3>6. \A i, j \in DOMAIN t : SameItem(t[i], t[j]) => i = j
      BY <2>2, <3>4
    <3> QED BY <2>1, <3>5, <3>6 DEF t
  <2> QED BY <2>3, <2>4
<1> QED BY <1>1, <1>3, <1>4, <1>5, <1>6

\* What is found of the last item lies before it on the active page. With no twins left
\* there both are chunks.
LEMMA FoundAgainFacts ==
  ASSUME PagesInv, BlobsInv, Shadowed = {}, NEW a \in FoundAgain
  PROVE  /\ a \in Places /\ StateOf(a[1]) = "active" /\ At(a).kind = "data"
         /\ Freeing = {} => Single
<1>1. FlashOK /\ Filled /\ Ordered
  BY DEF PagesInv, TypeOK
<1> DEFINE L == <<a[1], Len(Items(a[1]))>>
<1>2. /\ a \in Places /\ StateOf(a[1]) = "active" /\ a[2] < Len(Items(a[1]))
      /\ At(a).key = At(L).key /\ At(a).kind = At(L).kind
  BY DEF FoundAgain
<1>3. /\ a[1] \in Page /\ a[2] \in 1 .. Len(Items(a[1])) /\ Len(Items(a[1])) \in Nat
      /\ DOMAIN Items(a[1]) = 1 .. Len(Items(a[1])) /\ At(a) \in Item
  BY <1>1, <1>2, PlaceFacts, PageFacts DEF PlaceFactsD, PageFactsD
<1>4. L \in Places /\ L[1] = a[1] /\ L[2] > a[2]
  BY <1>1, <1>2, <1>3, IsPlace DEF IsPlaceD
<1> HIDE DEF L
<1>5. At(a).kind = "data"
  <2>1. CASE At(a).kind = "index"
    <3>1. Twin(At(a), At(L))
      BY <1>2, <2>1 DEF Twin
    <3>2. a \in Shadowed
      BY <1>2, <1>4, <3>1 DEF Shadowed
    <3> QED BY <3>2
  <2> QED BY <1>3, <2>1, ItemKinds
<1>6. ASSUME Freeing = {} PROVE Single
  <2>1. ASSUME NEW c \in RealPlaces, At(c).kind = "index", IsLast(c) PROVE FALSE
    <3>1. c \in Places /\ StateOf(c[1]) = "active" /\ c[2] = Len(Items(c[1]))
      BY <2>1 DEF RealPlaces, IsLast
    <3>2. c = <<c[1], c[2]>> /\ c[1] \in Page
      BY <1>1, <3>1, PlaceFacts DEF PlaceFactsD
    <3>3. c[1] \in InUse /\ a[1] \in InUse
      BY <1>1, <1>2, <3>1, PlacesAreInUse DEF PlacesAreInUseD
    <3>4. c[1] = a[1]
      <4>1. flash[c[1]].seq \in Nat /\ flash[a[1]].seq \in Nat
        BY <1>1, <1>3, <3>2, PageFacts DEF PageFactsD
      <4>2. flash[c[1]].seq = flash[a[1]].seq
        BY <1>1, <1>2, <3>1, <3>3, <4>1 DEF Ordered
      <4> QED BY <1>1, <3>3, <4>2 DEF Ordered
    <3>5. c = L
      BY <3>1, <3>2, <3>4 DEF L
    <3> QED BY <1>2, <1>5, <2>1, <3>5
  <2>2. SUFFICES ASSUME NEW x \in IndexesIn, NEW y \in IndexesIn, x.key = y.key, x # y PROVE FALSE
    BY DEF Single
  <2>3. PICK c \in RealPlaces : At(c) = x
    BY <1>1, StoredFacts DEF StoredFactsD, IndexesIn
  <2>4. PICK d \in RealPlaces : At(d) = y
    BY <1>1, StoredFacts DEF StoredFactsD, IndexesIn
  <2>5. x.kind = "index" /\ y.kind = "index" /\ c # d
    BY <2>2, <2>3, <2>4 DEF IndexesIn
  <2>6. PairAllowed(c, d)
    BY <2>2, <2>3, <2>4, <2>5 DEF BlobsInv, Pairs
  <2> QED BY <2>1, <2>3, <2>4, <2>5, <2>6 DEF PairAllowed
<1> QED BY <1>2, <1>5, <1>6

LEMMA BlobsOfCheckLast ==
  ASSUME PagesInv, BlobsInv, CheckLast
  PROVE  BlobsInv'
<1>1. pc = "load" /\ pc' = "list" /\ Shadowed = {} /\ FlashOK /\ Filled
  BY DEF CheckLast, PagesInv, TypeOK
<1>2. Unchecked'
  BY <1>1 DEF Unchecked
<1>3. CASE FoundAgain = {}
  <2>1. UNCHANGED flash
    BY <1>3 DEF CheckLast
  <2>2. RealPlaces' = RealPlaces /\ \A a \in RealPlaces : At(a)' = At(a)
    BY <2>1 DEF RealPlaces, Places, At, Items, Freeing, StateOf
  <2>3. \A a, b : IsLast(a)' <=> IsLast(a)
    BY <2>1 DEF IsLast, StateOf, Items
  <2>4. Freeing' = Freeing
    BY <2>1 DEF Freeing, StateOf
  <2>5. ASSUME NEW a \in RealPlaces, NEW b \in RealPlaces, IsLast(b), a[1] = b[1], a # b,
               At(a).kind = "index", At(b).kind = "index", At(a).key = At(b).key
        PROVE  FALSE
    <3>1. a \in Places /\ b \in Places
      BY DEF RealPlaces
    <3>2. /\ a = <<a[1], a[2]>> /\ b = <<b[1], b[2]>> /\ a[2] \in Nat /\ b[2] \in Nat
          /\ a[2] \in 1 .. Len(Items(a[1])) /\ Len(Items(a[1])) \in Nat
      BY <1>1, <3>1, PlaceFacts, PageFacts DEF PlaceFactsD, PageFactsD
    <3>3. b[2] > a[2] /\ StateOf(a[1]) = "active"
      BY <2>5, <3>2 DEF IsLast
    <3>4. Twin(At(a), At(b))
      BY <2>5 DEF Twin
    <3> QED BY <1>1, <2>5, <3>1, <3>3, <3>4 DEF Shadowed
  <2>6. Pairs'
    <3>1. SUFFICES ASSUME NEW a \in RealPlaces, NEW b \in RealPlaces,
                          At(a).kind = "index", At(b).kind = "index", At(a).key = At(b).key, a # b
                   PROVE  PairAllowed(a, b)'
      BY <2>2 DEF Pairs
    <3>2. Freeing = {} /\ (IsLast(a) \/ IsLast(b))
      BY <3>1 DEF BlobsInv, Pairs, PairAllowed
    <3>3. a[1] # b[1]
      BY <2>5, <3>1, <3>2
    <3> QED BY <1>1, <2>3, <2>4, <3>2, <3>3 DEF PairAllowed
  <2> QED BY <1>1, <1>2, <2>1, <2>6, FlashStays, BlobsUnchecked
<1>4. CASE FoundAgain # {}
  <2> DEFINE e == Earliest(FoundAgain)
  <2>1. e \in FoundAgain /\ Erase(e)
    <3>1. FoundAgain \subseteq Places
      BY DEF FoundAgain
    <3> QED BY <1>1, <1>4, <3>1, EarliestIn DEF CheckLast, PagesInv
  <2> HIDE DEF e
  <2>2. /\ e \in Places /\ StateOf(e[1]) = "active" /\ At(e).kind = "data"
        /\ Freeing = {} => Single
    BY <1>1, <2>1, FoundAgainFacts
  <2>3. CASE Freeing = {}
    <3>1. Single
      BY <2>2, <2>3
    <3>2. Distinct' /\ Copies' /\ Pairs' /\ Counts' /\ Sizes'
      BY <2>1, <2>2, <2>3, <3>1, OneLess
    <3> QED BY <1>1, <1>2, <3>2, BlobsUnchecked
  <2>4. CASE Freeing # {}
    <3>1. Single
      BY <1>1, <2>4, PairsSingle DEF PairsSingleD, BlobsInv
    <3>2. /\ RealPlaces' = RealPlaces /\ \A b \in RealPlaces : At(b)' = At(b)
          /\ Copies' /\ FlashOK'
      BY <1>1, <2>1, <2>2, <2>4, ErasedCopy DEF BlobsInv
    <3>3. Distinct' /\ Counts' /\ Sizes' /\ Single'
      BY <3>1, <3>2, SameBlobs DEF BlobsInv
    <3>4. Pairs'
      BY <3>2, <3>3, StoredThen DEF SinglePairsD
    <3> QED BY <1>1, <1>2, <3>2, <3>3, <3>4, BlobsUnchecked
  <2> QED BY <2>3, <2>4
<1> QED BY <1>3, <1>4

LEMMA BlobsOfLoad ==
  ASSUME PagesInv, BlobsInv, Load
  PROVE  BlobsInv'
<1>1. pc = "list" /\ UNCHANGED flash /\ FlashOK /\ Filled
  BY DEF Load, PagesInv, TypeOK
<1>2. (pc' = "match" /\ InUse = {}) \/ pc' = "dup"
  BY DEF Load
<1>3. Unchecked'
  BY <1>2 DEF Unchecked
<1>4. CASE pc' = "match" /\ InUse = {}
  <2>1. IndexesIn = {}
    BY <1>1, <1>4, PlacesAreInUse DEF PlacesAreInUseD, RealPlaces, Stored, IndexesIn
  <2>2. Single
    BY <2>1 DEF Single
  <2> QED BY <1>1, <1>3, <1>4, <2>2, FlashStays, BlobsUnchecked
<1>5. CASE pc' = "dup"
  <2>1. RealPlaces' = RealPlaces /\ \A a \in RealPlaces : At(a)' = At(a)
    BY <1>1 DEF RealPlaces, Places, At, Items, Freeing, StateOf
  <2>2. Pairs'
    BY <1>1, <1>5, <2>1 DEF BlobsInv, Pairs, PairAllowed, IsLast, At, Items, StateOf, Freeing
  <2> QED BY <1>1, <1>3, <1>5, <2>2, FlashStays, BlobsUnchecked
<1> QED BY <1>2, <1>4, <1>5

\* The item written last and a twin of it on another page, no page of which is being freed,
\* are indexes, and no page is being freed at all.
LEMMA TwinsOnTwoPages ==
  ASSUME PagesInv, BlobsInv, pc = "dup", NEW e \in Places, NEW last \in Places,
         last[1] = cur, last[2] = Len(Items(cur)),
         e[1] # cur, StateOf(e[1]) # "freeing", Twin(At(e), At(last))
  PROVE  Freeing = {} /\ At(e).kind = "index" /\ At(last).kind = "index" /\ At(e).key = At(last).key
<1>1. FlashOK /\ Filled /\ Listing /\ MoveKnown /\ Mounted /\ Ordered
  BY DEF PagesInv, TypeOK, Mounted
<1>2. /\ last = <<cur, last[2]>> /\ last[2] \in DOMAIN Items(cur) /\ At(last) = Items(cur)[last[2]]
      /\ last[2] \in Nat /\ cur \in Page /\ e[1] \in Page /\ e = <<e[1], e[2]>> /\ e # last
      /\ At(e) \in Item /\ At(last) \in Item
  BY <1>1, PlaceFacts DEF PlaceFactsD
<1>3. StateOf(e[1]) # "active"
  BY <1>1, <1>2 DEF Listing
<1>4. e \in RealPlaces
  BY <1>3 DEF RealPlaces
<1>5. ASSUME NEW l \in RealPlaces, l # e, At(l) = At(last)
      PROVE  Freeing = {} /\ At(e).kind # "data"
  <2>1. At(e).kind # "data"
    BY <1>4, <1>5 DEF BlobsInv, Distinct, SameItem, Twin
  <2>2. At(e).kind = "index"
    BY <1>2, <2>1, ItemKinds
  <2>3. PairAllowed(e, l)
    BY <1>4, <1>5, <2>2 DEF BlobsInv, Pairs, Twin
  <2> QED BY <2>1, <2>3 DEF PairAllowed
<1>6. Freeing = {} /\ At(e).kind # "data"
  <2>1. CASE Freeing = {} \/ StateOf(cur) # "active"
    <3>1. last \in RealPlaces
      BY <1>2, <2>1 DEF RealPlaces
    <3> QED BY <1>2, <1>5, <3>1
  <2>2. CASE Freeing # {} /\ StateOf(cur) = "active"
    <3>1. PICK g \in Freeing : TRUE
      BY <2>2
    <3>2. StateOf(g) = "freeing" /\ StateOf(last[1]) = "active"
      BY <2>2 DEF Freeing
    <3>3. PICK c \in RealPlaces : c[1] = g /\ At(c) = At(last)
      BY <1>1, <3>2, CopyIsReal DEF BlobsInv
    <3>4. c # e
      BY <3>2, <3>3
    <3> QED BY <1>5, <3>3, <3>4
  <2> QED BY <2>1, <2>2
<1> QED BY <1>2, <1>6, ItemKinds DEF Twin

LEMMA BlobsOfDropDuplicate ==
  ASSUME PagesInv, BlobsInv, DropDuplicate
  PROVE  BlobsInv'
<1>1. /\ pc = "dup" /\ pc' = "recover" /\ FlashOK /\ Filled /\ Ordered
      /\ Listing /\ Mounted /\ cur \in Page
  BY DEF DropDuplicate, PagesInv, TypeOK, Listing, Mounted
<1>2. Unchecked'
  BY <1>1 DEF Unchecked
<1> DEFINE L == <<cur, Len(Items(cur))>>
\* Of two indexes of a key the one is the last item and the other is superseded.
<1>3. ASSUME NEW a \in RealPlaces, NEW b \in RealPlaces, a # b,
             At(a).kind = "index", At(b).kind = "index", At(a).key = At(b).key
      PROVE  (a = L /\ b \in Superseded) \/ (b = L /\ a \in Superseded)
  <2>1. PairAllowed(a, b)
    BY <1>3 DEF BlobsInv, Pairs
  <2>2. a \in Places /\ b \in Places /\ Freeing = {} /\ a[1] # b[1] /\ (IsLast(a) \/ IsLast(b))
    BY <1>1, <2>1 DEF PairAllowed, RealPlaces
  <2>3. ASSUME NEW c \in Places, NEW d \in Places, IsLast(c), d[1] # c[1],
               At(c).kind = "index", At(d).kind = "index", At(c).key = At(d).key
        PROVE  c = L /\ d \in Superseded
    <3>1. /\ c[1] \in Page /\ c = <<c[1], c[2]>> /\ c[2] \in DOMAIN Items(c[1])
          /\ c[2] \in 1 .. Len(Items(c[1])) /\ d[1] \in Page
      BY <1>1, PlaceFacts DEF PlaceFactsD
    <3>2. c[1] = cur /\ c[2] = Len(Items(cur))
      BY <1>1, <2>3, <3>1 DEF IsLast, Listing
    <3>3. Items(cur) # <<>>
      BY <3>1, <3>2
    <3>4. StateOf(d[1]) # "freeing"
      BY <2>2, <3>1 DEF Freeing
    <3>5. Twin(At(d), At(L))
      BY <2>3, <3>1, <3>2 DEF Twin
    <3> QED BY <2>3, <3>1, <3>2, <3>3, <3>4, <3>5 DEF Superseded
  <2> QED BY <1>3, <2>2, <2>3
<1>4. CASE Superseded = {}
  <2>1. UNCHANGED flash
    BY <1>4 DEF DropDuplicate
  <2>2. Single
    <3>1. \A x \in IndexesIn : \E a \in RealPlaces : At(a) = x
      BY <1>1, StoredFacts DEF StoredFactsD, IndexesIn
    <3> QED BY <1>3, <1>4, <3>1 DEF Single, IndexesIn
  <2> QED BY <1>1, <1>2, <2>1, <2>2, FlashStays, BlobsUnchecked
<1>5. CASE Superseded # {}
  <2> PICK e : e = Earliest(Superseded)
    OBVIOUS
  <2> PICK last : last = L
    OBVIOUS
  <2>1. Erase(e)
    BY <1>5 DEF DropDuplicate
  <2>2. Superseded \subseteq Places
    BY DEF Superseded
  <2>3. e \in Superseded
    BY <1>1, <1>5, <2>2, EarliestIn
  <2>4. /\ e \in Places /\ e[1] # cur /\ StateOf(e[1]) # "freeing" /\ Twin(At(e), At(last))
        /\ Items(cur) # <<>>
    BY <2>3 DEF Superseded
  <2>5. last \in Places /\ last[1] = cur /\ last[2] = Len(Items(cur))
    <3>1. DOMAIN Items(cur) = 1 .. Len(Items(cur)) /\ Items(cur) \in Seq(Item)
      BY <1>1, PageFacts DEF PageFactsD
    <3>2. Len(Items(cur)) \in DOMAIN Items(cur)
      BY <2>4, <3>1, EmptySeq
    <3> QED BY <1>1, <3>2, IsPlace DEF IsPlaceD
  <2>6. Freeing = {} /\ At(e).kind = "index" /\ At(last).kind = "index" /\ At(e).key = At(last).key
    BY <1>1, <2>4, <2>5, TwinsOnTwoPages
  <2>7. Stored' = Stored \ {At(e)} /\ Distinct' /\ Copies' /\ Freeing' = {} /\ FlashOK'
    BY <1>1, <2>1, <2>4, <2>6, ErasedBlobs DEF BlobsInv
  <2>8. Counts' /\ Sizes'
    BY <2>7, FewerBlobs DEF BlobsInv
  <2>9. RealPlaces = Places /\ RealPlaces' = Places'
    BY <2>6, <2>7 DEF RealPlaces
  <2>10. /\ \A b \in Places' : /\ Origin(e, b) \in Places /\ Origin(e, b) # e
                               /\ At(b)' = At(Origin(e, b))
         /\ \A b, d \in Places' : Origin(e, b) = Origin(e, d) => b = d
    BY <1>1, <2>1, <2>4, ErasedPlaces
  \* e is the only one that is superseded and an index of its key.
  <2>11. ASSUME NEW a \in RealPlaces, NEW b \in RealPlaces, a # b, a # e, b # e,
                At(a).kind = "index", At(b).kind = "index", At(a).key = At(b).key
         PROVE  FALSE
    <3>1. ASSUME NEW d \in Superseded, d # e, At(d).kind = "index", At(d).key = At(last).key
          PROVE  FALSE
      <4>1. d \in Places /\ d[1] # cur
        BY <3>1 DEF Superseded
      <4>2. (e = L /\ d \in Superseded) \/ (d = L /\ e \in Superseded)
        BY <1>3, <2>4, <2>6, <2>9, <3>1, <4>1
      <4> QED BY <2>4, <2>5, <4>1, <4>2
    <3>2. (a = last /\ b \in Superseded) \/ (b = last /\ a \in Superseded)
      BY <1>3, <2>11
    <3> QED BY <2>11, <3>1, <3>2
  <2>12. Pairs'
    <3>1. SUFFICES ASSUME NEW b \in RealPlaces', NEW d \in RealPlaces',
                          At(b)'.kind = "index", At(d)'.kind = "index", At(b)'.key = At(d)'.key, b # d
                   PROVE  FALSE
      BY DEF Pairs
    <3> QED BY <2>9, <2>10, <2>11, <3>1
  <2> QED BY <1>1, <1>2, <2>7, <2>8, <2>12, BlobsUnchecked
<1> QED BY <1>4, <1>5

\* No page but the current one is active, and while one is freed its items are not counted.
LEMMA BlobsOfRecover ==
  ASSUME PagesInv, BlobsInv, Recover
  PROVE  BlobsInv' /\ StoredStays
<1>1. /\ pc = "recover" /\ pc' = "copy" /\ FlashOK /\ FlashOK' /\ Filled /\ Freeing # {}
      /\ Listing /\ Mounted /\ cur \in Page /\ op' = op /\ op = NoRequest
      /\ \A p \in Page : StateOf(p) = "active" => p = cur
  <2>1. PagesInv'
    BY PagesOfRecover
  <2> QED BY <2>1 DEF Recover, PagesInv, TypeOK, Listing, Mounted, Called, Mount
<1>2. Single
  BY <1>1, PairsSingle DEF PairsSingleD, BlobsInv
<1>3. /\ \A p \in Page \ {cur} : flash'[p] = flash[p]
      /\ StateOf(cur) = "active" => flash'[cur] = ErasedPage
      /\ StateOf(cur) # "active" => flash'[cur] = flash[cur]
  BY <1>1 DEF Recover, FlashOK
<1>4. ErasedPage.st = "uninit" /\ ErasedPage.items = <<>>
  BY DEF ErasedPage
<1>5. Freeing' = Freeing /\ \A p \in Page : StateOf(p)' # "active"
  BY <1>1, <1>3, <1>4 DEF Freeing, StateOf
<1>6. \A p \in Page : StateOf(p) # "active" => Items(p)' = Items(p)
  BY <1>3 DEF Items
<1>7. ASSUME NEW a \in RealPlaces PROVE a \in RealPlaces' /\ At(a)' = At(a)
  <2>1. /\ a \in Places /\ a[1] \in Page /\ a = <<a[1], a[2]>> /\ a[2] \in DOMAIN Items(a[1])
        /\ At(a) = Items(a[1])[a[2]]
    BY <1>1, PlaceFacts DEF PlaceFactsD, RealPlaces
  <2>2. StateOf(a[1]) # "active"
    BY <1>1 DEF RealPlaces
  <2>3. a \in Places' /\ At(a)' = At(a)
    BY <1>6, <2>1, <2>2, FactsThen DEF IsPlaceD
  <2> QED BY <1>5, <2>1, <2>3 DEF RealPlaces
<1>8. ASSUME NEW a \in RealPlaces' PROVE a \in RealPlaces
  <2>1. a \in Places' /\ a[1] \in Page /\ a = <<a[1], a[2]>> /\ a[2] \in DOMAIN Items(a[1])'
    BY <1>1, FactsThen DEF PlaceFactsD, RealPlaces
  <2>2. StateOf(a[1]) # "active"
    BY <1>1, <1>3, <1>4, <2>1 DEF Items
  <2>3. a \in Places
    BY <1>6, <2>1, <2>2, IsPlace DEF IsPlaceD
  <2> QED BY <2>2, <2>3 DEF RealPlaces
<1>9. RealPlaces' = RealPlaces
  BY <1>7, <1>8
<1>10. Distinct' /\ Counts' /\ Sizes' /\ Single' /\ StoredStays
  BY <1>2, <1>7, <1>9, SameBlobs DEF BlobsInv, StoredStays
<1>11. Pairs'
  BY <1>1, <1>10, StoredThen DEF SinglePairsD
<1>12. Copies'
  BY <1>5 DEF Copies
<1>13. Unchecked' /\ pc' \in Moves /\ op' = NoRequest
  BY <1>1 DEF Unchecked, Moves
<1> QED BY <1>10, <1>11, <1>12, <1>13, BlobsUnchecked

\* A write that goes on: the same is stored, and it has written the same.
LEMMA BlobsOfGoingOn ==
  ASSUME BlobsInv, Storing, pc' \in WritePcs \cup Moves, op' = op,
         loc'.ver = loc.ver, loc'.off = loc.off, loc'.pages = loc.pages, loc'.prev = loc.prev,
         IndexesIn' = IndexesIn, ChunksIn' = ChunksIn,
         \A k, v, m, n : All(k, v, m, n) => All(k, v, m, n)',
         \A k, v, m, n : Sized(k, v, m, n) => Sized(k, v, m, n)',
         Distinct', Copies', Pairs', Counts', Sizes'
  PROVE  BlobsInv'
<1>1. /\ pc \in WritePcs \cup Moves /\ op.kind = "write" /\ Storing'
      /\ NoRequest.kind # "write"
  BY DEF Storing, NoRequest, Request
<1>2. ~Unchecked /\ ~Unchecked' /\ pc # "orphan" /\ pc # "old_chunks" /\ pc # "find"
  BY <1>1 DEF Unchecked, WritePcs, Moves
<1>3. \A x \in IndexesIn : All(x.key, x.ver, 0, x.count)
  BY <1>2 DEF BlobsInv, Whole, Emptied
<1>4. Whole'
  BY <1>3 DEF Whole
<1>5. Owned'
  BY <1>1, <1>2 DEF BlobsInv, Owned, Emptied, OfBlob
<1>6. Begun'
  <2> PICK k : k = op.key
    OBVIOUS
  <2> PICK v : v = loc.ver
    OBVIOUS
  <2> PICK n : n = Count
    OBVIOUS
  <2> PICK w : w = loc.off
    OBVIOUS
  <2>1. /\ \A x \in IndexesIn : x.key = k => x.ver = loc.prev
        /\ \A y \in ChunksIn : OfBlob(y, k, v) => y.index < n
        /\ All(k, v, 0, n) /\ Sized(k, v, n, w)
    BY DEF BlobsInv, Begun
  <2>2. All(k, v, 0, n)' /\ Sized(k, v, n, w)'
    BY <2>1
  <2>3. op'.key = k /\ loc'.ver = v /\ Count' = n /\ loc'.off = w
    BY DEF Count
  <2>4. \A x \in IndexesIn' : x.key = op'.key => x.ver = loc'.prev
    BY <2>1, <2>3
  <2>5. \A y \in ChunksIn' : OfBlob(y, op'.key, loc'.ver) => y.index < Count'
    BY <2>1, <2>3
  <2>6. (All(op.key, loc.ver, 0, Count))'
    BY <2>2, <2>3
  <2>7. (Sized(op.key, loc.ver, Count, loc.off))'
    BY <2>2, <2>3
  <2> QED BY <2>4, <2>5, <2>6, <2>7 DEF Begun, OfBlob
<1>7. Ended' /\ Untouched'
  BY DEF Ended, Untouched, WritePcs, Moves
<1> QED BY <1>4, <1>5, <1>6, <1>7 DEF BlobsInv

\* Writing and moving change no place: only the states of pages change.
LEMMA SamePlaces ==
  ASSUME PagesInv, BlobsInv, FlashOK', Places' = Places, \A a \in Places : At(a)' = At(a),
         RealPlaces = Places, RealPlaces' = Places', Single
  PROVE  /\ Stored' = Stored /\ IndexesIn' = IndexesIn /\ ChunksIn' = ChunksIn
         /\ Distinct' /\ Pairs' /\ Counts' /\ Sizes'
         /\ \A k, v, m, n : All(k, v, m, n) => All(k, v, m, n)'
         /\ \A k, v, m, n : Sized(k, v, m, n) => Sized(k, v, m, n)'
<1>1. RealPlaces' = RealPlaces /\ \A a \in RealPlaces : At(a)' = At(a)
  OBVIOUS
<1>2. Distinct' /\ Single'
  BY <1>1, SameBlobs DEF BlobsInv
<1>3. Pairs'
  BY <1>2, StoredThen DEF SinglePairsD
<1> QED BY <1>1, <1>2, <1>3, SameBlobs DEF BlobsInv

LEMMA BlobsOfWriteMoves ==
  ASSUME PagesInv, BlobsInv, SkipPage \/ ClosePage \/ TakeFreePage \/ StartFreeing
  PROVE  BlobsInv' /\ StoredStays
<1>1. /\ pc \in WritePcs /\ pc' \in WritePcs \cup Moves /\ op' = op
      /\ loc'.ver = loc.ver /\ loc'.off = loc.off /\ loc'.pages = loc.pages /\ loc'.prev = loc.prev
  <2>1. CASE SkipPage
    <3>1. loc \in Locals
      BY DEF PagesInv, TypeOK
    <3> QED BY <2>1, <3>1 DEF SkipPage, WritePcs, Locals
  <2>2. CASE ClosePage \/ TakeFreePage \/ StartFreeing
    BY <2>2 DEF ClosePage, TakeFreePage, StartFreeing, WritePcs, Moves, ram
  <2> QED BY <2>1, <2>2
<1>2. Freeing = {} /\ Single /\ FlashOK /\ Filled /\ Listing /\ Mounted
  BY <1>1, QuietSingle, NotMoving DEF WritePcs, Moves, PagesInv
<1>3. Storing
  BY <1>1 DEF Storing, PagesInv, Called
<1>4. PagesInv'
  BY PagesStep DEF Next, Step, Writing, Moving
<1>5. FlashOK'
  BY <1>4 DEF PagesInv, TypeOK
<1>6. ASSUME NEW p \in Page PROVE Items(p)' = Items(p) /\ (StateOf(p)' = "active" => StateOf(p) = "active")
  <2>1. CASE UNCHANGED flash
    BY <2>1 DEF Items, StateOf
  <2>2. CASE ClosePage
    BY <1>2, <2>2 DEF ClosePage, Items, StateOf, FlashOK, PageType
  <2>3. CASE StartFreeing
    BY <1>2, <2>3 DEF StartFreeing, Items, StateOf, FlashOK, PageType
  <2> QED BY <2>1, <2>2, <2>3 DEF SkipPage, TakeFreePage
<1>7. Places' = Places /\ \A a \in Places : At(a)' = At(a)
  BY <1>2, <1>5, <1>6, SameItems DEF Items
<1>8. RealPlaces = Places
  BY <1>2 DEF RealPlaces
<1>9. RealPlaces' = Places' /\ Copies'
  <2>1. CASE StartFreeing
    <3>1. \A p \in Page : StateOf(p)' # "active"
      BY <1>6, <2>1 DEF StartFreeing, PagesInv, MoveKnown
    <3>2. \A a \in Places' : a[1] \in Page
      BY <1>5, FactsThen DEF PlaceFactsD
    <3> QED BY <3>1, <3>2 DEF RealPlaces, Copies
  <2>2. CASE ~StartFreeing
    <3>1. \A p \in Page : StateOf(p)' = "freeing" => StateOf(p) = "freeing"
      <4>1. CASE UNCHANGED flash
        BY <4>1 DEF StateOf
      <4>2. CASE ClosePage
        BY <1>2, <4>2 DEF ClosePage, StateOf, FlashOK, PageType
      <4> QED BY <2>2, <4>1, <4>2 DEF SkipPage, TakeFreePage
    <3>2. Freeing' = {}
      BY <1>2, <3>1 DEF Freeing
    <3> QED BY <3>2 DEF RealPlaces, Copies, Freeing
  <2> QED BY <2>1, <2>2
<1>10. /\ IndexesIn' = IndexesIn /\ ChunksIn' = ChunksIn
       /\ Distinct' /\ Pairs' /\ Counts' /\ Sizes'
       /\ \A k, v, m, n : All(k, v, m, n) => All(k, v, m, n)'
       /\ \A k, v, m, n : Sized(k, v, m, n) => Sized(k, v, m, n)'
  BY <1>2, <1>5, <1>7, <1>8, <1>9, SamePlaces
<1>11. StoredStays
  BY <1>2, <1>10 DEF StoredStays
<1> QED BY <1>1, <1>3, <1>9, <1>10, <1>11, BlobsOfGoingOn

\* A page begun for the one that is freed adds nothing.
LEMMA CopiedBlobs ==
  ASSUME PagesInv, BlobsInv, pc = "copy", free # <<>>,
         NEW n \in 0 .. Len(Items(gc)), NEW s, s = SubSeq(Items(gc), 1, n), gc \in Page,
         flash' = [flash EXCEPT ![Head(free)] = CopyOf(s, nextSeq)]
  PROVE  /\ IndexesIn' = IndexesIn /\ ChunksIn' = ChunksIn /\ StoredStays
         /\ Distinct' /\ Copies' /\ Pairs' /\ Counts' /\ Sizes'
         /\ \A k, v, m, l : All(k, v, m, l) => All(k, v, m, l)'
         /\ \A k, v, m, l : Sized(k, v, m, l) => Sized(k, v, m, l)'
<1>1. /\ FlashOK /\ Filled /\ Ordered /\ gc \in Freeing /\ nextSeq \in Nat
      /\ \A p \in Page : StateOf(p) # "active"
  BY DEF PagesInv, TypeOK, MoveKnown, Moves
<1>2. Items(gc) \in Seq(Item) /\ Len(Items(gc)) \in Nat /\ DOMAIN Items(gc) = 1 .. Len(Items(gc))
  BY <1>1, PageFacts DEF PageFactsD
<1>3. /\ s \in Seq(Item) /\ Len(s) = n /\ Entries(s) <= EntryCount
      /\ \A i \in 1 .. n : s[i] = Items(gc)[i] /\ i \in DOMAIN Items(gc)
  <2>1. CASE n = 0
    <3>1. s = <<>>
      BY <1>2, <2>1
    <3>2. s \in Seq(Item) /\ Len(s) = 0
      BY <3>1
    <3>3. Entries(s) <= EntryCount
      <4>1. Entries(s) = 0
        BY <3>1, NoEntries, Zenon
      <4>2. EntryCount \in Nat
        BY SizeAssumption
      <4> QED BY <4>1, <4>2
    <3> QED BY <2>1, <3>2, <3>3
  <2>2. CASE n # 0
    <3>1. n \in 1 .. Len(Items(gc))
      BY <1>2, <2>2
    <3>2. s \in Seq(Item) /\ Entries(s) <= Entries(Items(gc))
      BY <1>2, <3>1, EntriesOfPart
    <3>3. Entries(Items(gc)) <= EntryCount /\ Entries(Items(gc)) \in Nat
      <4>1. Entries(Items(gc)) = flash[gc].used /\ flash[gc].used <= NextFree(gc) /\ NextFree(gc) <= EntryCount
        BY <1>1 DEF Filled
      <4>2. NextFree(gc) \in Nat /\ flash[gc].used \in Nat
        BY <1>1, PageFacts DEF PageFactsD
      <4> QED BY <4>1, <4>2, SizeAssumption
    <3>4. Entries(s) \in Nat
      BY <3>2, TakenIsFinite
    <3>5. Len(s) = n /\ \A i \in 1 .. n : s[i] = Items(gc)[i] /\ i \in DOMAIN Items(gc)
      BY <1>2, <3>1
    <3> QED BY <3>2, <3>3, <3>4, <3>5, SizeAssumption
  <2> QED BY <2>1, <2>2
<1>4. \A i \in DOMAIN s : Span(s[i]) <= EntryCount
  BY <1>1, <1>3 DEF Filled
<1> PICK h : h = Head(free)
  OBVIOUS
<1>5. /\ FlashOK' /\ Filled' /\ Ordered' /\ Freeing' = Freeing
      /\ h \in Page /\ StateOf(h) = "uninit"
      /\ flash'[h] = CopyOf(s, nextSeq)
      /\ \A p \in Page \ {h} : flash'[p] = flash[p] /\ StateOf(p)' = StateOf(p)
  BY <1>1, <1>3, <1>4, CopiedPages
<1>6. Items(h)' = s /\ StateOf(h)' \in {"uninit", "active"} /\ (StateOf(h)' = "uninit" => Items(h)' = <<>>)
  <2> DEFINE c == CopyOf(s, nextSeq)
  <2>1. c.items = s /\ c.st \in {"uninit", "active"} /\ (c.st = "uninit" => c = ErasedPage)
    BY <1>1, <1>3, <1>4, CopyFacts
  <2>2. ErasedPage.items = <<>>
    BY DEF ErasedPage
  <2> HIDE DEF c
  <2>3. flash'[h] = c
    BY <1>5 DEF c
  <2> QED BY <2>1, <2>2, <2>3 DEF Items, StateOf
<1>7. Items(h) = <<>>
  BY <1>1, <1>5 DEF Filled, ErasedPage, Items
<1>8. \A p \in Page \ {h} : Items(p)' = Items(p) /\ StateOf(p)' # "active"
  BY <1>1, <1>5 DEF Items
<1>9. ASSUME NEW a \in RealPlaces PROVE a \in RealPlaces' /\ At(a)' = At(a)
  <2>1. /\ a \in Places /\ a[1] \in Page /\ a = <<a[1], a[2]>> /\ a[2] \in DOMAIN Items(a[1])
        /\ At(a) = Items(a[1])[a[2]]
    BY <1>1, PlaceFacts DEF PlaceFactsD, RealPlaces
  <2>2. a[1] # h
    BY <1>7, <2>1
  <2>3. a \in Places' /\ At(a)' = At(a)
    BY <1>8, <2>1, <2>2, FactsThen DEF IsPlaceD
  <2> QED BY <1>8, <2>1, <2>2, <2>3 DEF RealPlaces
<1>10. ASSUME NEW a \in RealPlaces' PROVE a \in RealPlaces
  <2>1. a \in Places' /\ a[1] \in Page /\ a = <<a[1], a[2]>> /\ a[2] \in DOMAIN Items(a[1])'
    BY <1>5, FactsThen DEF PlaceFactsD, RealPlaces
  <2>2. StateOf(a[1])' # "active"
    BY <1>1, <1>5 DEF RealPlaces
  <2>3. a[1] # h
    BY <1>6, <2>1, <2>2
  <2>4. a \in Places
    BY <1>8, <2>1, <2>3, IsPlace DEF IsPlaceD
  <2> QED BY <1>1, <2>1, <2>4 DEF RealPlaces
<1>11. RealPlaces' = RealPlaces
  BY <1>9, <1>10
<1>12. Single
  BY <1>1, PairsSingle DEF PairsSingleD, BlobsInv
<1>13. Distinct' /\ Single'
  BY <1>9, <1>11, <1>12, SameBlobs DEF BlobsInv
<1>14. Pairs'
  BY <1>5, <1>13, StoredThen DEF SinglePairsD
<1>15. Copies'
  <2>1. SUFFICES ASSUME NEW g \in Page, NEW p \in Page, StateOf(g)' = "freeing", StateOf(p)' = "active"
                 PROVE  /\ \A i \in DOMAIN (Items(p)') : \E j \in DOMAIN (Items(g)') :
                             (Items(p)')[i] = (Items(g)')[j]
                        /\ \A i, j \in DOMAIN (Items(p)') :
                             SameItem((Items(p)')[i], (Items(p)')[j]) => i = j
    BY DEF Copies, Page, SameItem
  <2>2. p = h /\ g # h
    BY <1>6, <1>8, <2>1
  <2>3. g \in Freeing
    BY <1>5, <2>1, <2>2 DEF Freeing
  <2>4. g = gc
    BY <1>1, <2>3 DEF Ordered
  <2>5. Items(g)' = Items(gc) /\ Items(p)' = s
    BY <1>6, <1>8, <2>2, <2>4
  <2>6. \A i \in DOMAIN s : i \in 1 .. n /\ i \in DOMAIN Items(gc) /\ s[i] = Items(gc)[i]
    BY <1>3
  <2>7. ASSUME NEW i \in DOMAIN Items(gc) PROVE <<gc, i>> \in RealPlaces /\ At(<<gc, i>>) = Items(gc)[i]
    <3>1. <<gc, i>> \in Places /\ At(<<gc, i>>) = Items(gc)[i]
      BY <1>1, IsPlace DEF IsPlaceD
    <3>2. StateOf(gc) = "freeing"
      BY <1>1 DEF Freeing
    <3> QED BY <3>1, <3>2 DEF RealPlaces
  <2>8. ASSUME NEW i \in DOMAIN s, NEW j \in DOMAIN s, SameItem(s[i], s[j]) PROVE i = j
    <3>1. SameItem(At(<<gc, i>>), At(<<gc, j>>))
      BY <2>6, <2>7, <2>8
    <3>2. <<gc, i>> = <<gc, j>>
      BY <2>6, <2>7, <3>1 DEF BlobsInv, Distinct
    <3> QED BY <3>2
  <2> QED BY <2>5, <2>6, <2>8
<1> QED BY <1>9, <1>11, <1>12, <1>13, <1>14, <1>15, SameBlobs DEF BlobsInv, StoredStays

\* What a call has begun does not change while its page is moved.
LEMMA BlobsOfMoving ==
  ASSUME BlobsInv, PagesInv, pc \in Moves, pc' \in Moves \/ (pc' = "chunk" /\ op # NoRequest)
           \/ (pc' = "match" /\ op = NoRequest),
         UNCHANGED <<op, loc>>, IndexesIn' = IndexesIn, ChunksIn' = ChunksIn,
         \A k, v, m, n : All(k, v, m, n) => All(k, v, m, n)',
         \A k, v, m, n : Sized(k, v, m, n) => Sized(k, v, m, n)',
         Distinct', Copies', Pairs', Counts', Sizes'
  PROVE  BlobsInv'
<1>1. CASE op = NoRequest
  <2>1. Unchecked' /\ (pc' \in {"match"} \/ (pc' \in Moves /\ op' = NoRequest))
    BY <1>1 DEF Unchecked
  <2> QED BY <2>1, BlobsUnchecked
<1>2. CASE op # NoRequest
  <2>1. op.kind = "write" /\ Storing
    BY <1>2 DEF PagesInv, Called, Storing
  <2>2. pc' \in WritePcs \cup Moves
    BY <1>2 DEF WritePcs
  <2> QED BY <2>1, <2>2, BlobsOfGoingOn
<1> QED BY <1>1, <1>2

LEMMA BlobsOfCopy ==
  ASSUME PagesInv, BlobsInv, Copy
  PROVE  BlobsInv' /\ StoredStays
<1>1. /\ pc = "copy" /\ pc' = "reclaim" /\ free # <<>> /\ UNCHANGED <<op, loc>> /\ gc \in Page /\ FlashOK
      /\ flash' = [flash EXCEPT ![Head(free)] = CopyOf(Items(gc), nextSeq)]
  BY DEF Copy, PagesInv, MoveKnown, Moves, Freeing, TypeOK
<1>2. Items(gc) \in Seq(Item) /\ Len(Items(gc)) \in 0 .. Len(Items(gc))
  BY <1>1, PageFacts DEF PageFactsD
<1>3. Items(gc) = SubSeq(Items(gc), 1, Len(Items(gc)))
  BY <1>2
<1>4. /\ IndexesIn' = IndexesIn /\ ChunksIn' = ChunksIn /\ StoredStays
      /\ Distinct' /\ Copies' /\ Pairs' /\ Counts' /\ Sizes'
      /\ \A k, v, m, l : All(k, v, m, l) => All(k, v, m, l)'
      /\ \A k, v, m, l : Sized(k, v, m, l) => Sized(k, v, m, l)'
  <2>1. flash' = [flash EXCEPT ![Head(free)] = CopyOf(SubSeq(Items(gc), 1, Len(Items(gc))), nextSeq)]
    BY <1>1, <1>3, Zenon
  <2> QED BY <1>1, <1>2, <2>1, CopiedBlobs
<1> QED BY <1>1, <1>4, BlobsOfMoving DEF Moves

\* The items of the freed page are those of the current one.
LEMMA BlobsOfReclaim ==
  ASSUME PagesInv, BlobsInv, Reclaim
  PROVE  BlobsInv' /\ StoredStays
<1>1. /\ pc = "reclaim" /\ UNCHANGED <<op, loc>> /\ FlashOK /\ Filled /\ Ordered
      /\ flash' = [flash EXCEPT ![gc] = ErasedPage]
      /\ pc' = IF op = NoRequest THEN "match" ELSE "chunk"
      /\ gc \in Freeing /\ gc \in Page /\ cur \in Page /\ Items(cur) = Items(gc)
      /\ StateOf(cur) \in {"uninit", "active"} /\ StateOf(gc) = "freeing"
      /\ \A p \in Page : StateOf(p) = "active" => p = cur
  BY DEF Reclaim, PagesInv, TypeOK, MoveKnown, Moves, Freeing, Listing, Mounted
<1>2. FlashOK'
  <2>1. PagesInv'
    BY PagesOfReclaim
  <2> QED BY <2>1 DEF PagesInv, TypeOK
<1> PICK g : g = gc
  OBVIOUS
<1> PICK h : h = cur
  OBVIOUS
<1>0. /\ flash' = [flash EXCEPT ![g] = ErasedPage]
      /\ g \in Freeing /\ g \in Page /\ h \in Page /\ Items(h) = Items(g)
      /\ StateOf(h) \in {"uninit", "active"} /\ StateOf(g) = "freeing"
      /\ \A p \in Page : StateOf(p) = "active" => p = h
  BY <1>1
<1>3. g # h
  BY <1>0
<1>4. /\ Items(g)' = <<>>
      /\ \A p \in Page \ {g} : Items(p)' = Items(p) /\ StateOf(p)' = StateOf(p)
      /\ StateOf(g)' = "uninit"
  BY <1>0, <1>1 DEF Items, StateOf, ErasedPage, FlashOK
<1>5. Freeing' = {}
  <2>1. \A p \in Page : StateOf(p) = "freeing" => p = g
    BY <1>0, <1>1 DEF Ordered, Freeing
  <2> QED BY <1>4, <2>1 DEF Freeing
<1>6. RealPlaces' = Places'
  BY <1>5 DEF RealPlaces
<1> DEFINE From(a) == IF a[1] = h THEN <<g, a[2]>> ELSE a
<1>7. ASSUME NEW a \in Places'
      PROVE  /\ From(a) \in RealPlaces /\ At(a)' = At(From(a)) /\ a[1] # g /\ a = <<a[1], a[2]>>
             /\ From(a)[2] = a[2] /\ (a[1] # h => From(a)[1] = a[1] /\ a[1] # g)
             /\ (a[1] = h => From(a)[1] = g)
  <2>1. /\ a[1] \in Page /\ a = <<a[1], a[2]>> /\ a[2] \in DOMAIN Items(a[1])'
        /\ At(a)' = Items(a[1])'[a[2]]
    BY <1>2, FactsThen DEF PlaceFactsD
  <2>2. a[1] # g
    BY <1>4, <2>1
  <2>3. Items(a[1])' = Items(a[1])
    BY <1>4, <2>1, <2>2
  <2>4. CASE a[1] = h
    <3>1. <<g, a[2]>> \in Places /\ At(<<g, a[2]>>) = At(a)'
      BY <1>0, <1>1, <2>1, <2>3, <2>4, IsPlace DEF IsPlaceD
    <3>2. <<g, a[2]>> \in RealPlaces
      BY <1>0, <1>1, <3>1 DEF RealPlaces
    <3> QED BY <2>1, <2>2, <2>4, <3>1, <3>2
  <2>5. CASE a[1] # h
    <3>1. a \in Places /\ At(a) = At(a)'
      BY <2>1, <2>3, IsPlace DEF IsPlaceD
    <3>2. a \in RealPlaces
      BY <1>0, <1>1, <2>1, <2>5, <3>1 DEF RealPlaces
    <3> QED BY <2>1, <2>2, <2>5, <3>1, <3>2
  <2> QED BY <2>4, <2>5
<1>8. ASSUME NEW c \in RealPlaces PROVE \E a \in Places' : From(a) = c
  <2>1. /\ c \in Places /\ c[1] \in Page /\ c = <<c[1], c[2]>> /\ c[2] \in DOMAIN Items(c[1])
    BY <1>0, <1>1, PlaceFacts DEF PlaceFactsD, RealPlaces
  <2>2. c[1] # h
    <3>1. StateOf(c[1]) # "active"
      BY <1>0, <1>1 DEF RealPlaces
    <3>2. c[1] \in InUse
      BY <1>0, <1>1, <2>1, PlacesAreInUse DEF PlacesAreInUseD
    <3> QED BY <1>0, <1>1, <3>1, <3>2 DEF InUse
  <2>3. CASE c[1] = g
    <3>1. c[2] \in DOMAIN Items(h)'
      BY <1>0, <1>1, <1>3, <1>4, <2>1, <2>3
    <3>2. <<h, c[2]>> \in Places'
      <4> PICK q : q = h
        OBVIOUS
      <4>1. c[2] \in DOMAIN Items(q)' /\ q \in Page
        BY <1>0, <1>1, <1>3, <1>4, <2>1, <2>3
      <4> QED BY <4>1, FactsThen DEF IsPlaceD
    <3>3. From(<<h, c[2]>>) = c
      BY <2>1, <2>3
    <3> QED BY <3>2, <3>3
  <2>4. CASE c[1] # g
    <3>1. c[2] \in DOMAIN Items(c[1])'
      BY <1>4, <2>1, <2>4
    <3>2. c \in Places'
      BY <2>1, <3>1, FactsThen DEF IsPlaceD
    <3> QED BY <2>2, <3>2
  <2> QED BY <2>3, <2>4
<1> HIDE DEF From
<1>9. Stored' = Stored
  <2>1. \A x : x \in Stored' <=> \E a \in Places' : At(a)' = x
    BY <1>6 DEF Stored
  <2>2. \A x : x \in Stored <=> \E a \in RealPlaces : At(a) = x
    BY DEF Stored
  <2>3. \A x : x \in Stored' <=> x \in Stored
    BY <1>7, <1>8, <2>1, <2>2
  <2> QED BY <2>3
<1>10. Distinct'
  <2>1. SUFFICES ASSUME NEW a \in RealPlaces', NEW b \in RealPlaces', SameItem(At(a)', At(b)')
                 PROVE  a = b
    BY DEF Distinct, SameItem
  <2>2. a \in Places' /\ b \in Places'
    BY <1>6
  <2>3. From(a) = From(b)
    BY <1>7, <2>1, <2>2 DEF BlobsInv, Distinct
  <2> QED BY <1>3, <1>7, <2>2, <2>3
<1>11. Single
  BY <1>0, <1>1, PairsSingle DEF PairsSingleD, BlobsInv
<1>12. IndexesIn' = IndexesIn /\ ChunksIn' = ChunksIn
  BY <1>9 DEF IndexesIn, ChunksIn
<1>13. /\ Counts' /\ Sizes' /\ Single'
       /\ \A k, v, m, n : All(k, v, m, n) => All(k, v, m, n)'
       /\ \A k, v, m, n : Sized(k, v, m, n) => Sized(k, v, m, n)'
  <2>1. \A k, v, m, n : All(k, v, m, n) => All(k, v, m, n)'
    BY <1>9 DEF All
  <2>2. \A k, v, m, n : Sized(k, v, m, n) => Sized(k, v, m, n)'
    BY <1>9 DEF Sized
  <2> QED BY <1>11, <1>12, <2>1, <2>2 DEF BlobsInv, Counts, Sizes, Single
<1>14. Pairs'
  BY <1>2, <1>10, <1>13, StoredThen DEF SinglePairsD
<1>15. Copies'
  BY <1>5 DEF Copies, Freeing
<1>16. StoredStays
  BY <1>11, <1>12 DEF StoredStays
<1> QED BY <1>0, <1>1, <1>16, <1>10, <1>12, <1>13, <1>14, <1>15, BlobsOfMoving DEF Moves

LEMMA BlobsOfPowerLoss ==
  ASSUME PagesInv, BlobsInv, PowerLoss
  PROVE  BlobsInv' /\ (UNCHANGED flash \/ StoredStays)
<1>1. /\ pc' = "off" /\ Torn /\ FlashOK /\ Filled /\ Listing /\ PagesInv'
  BY PagesOfPowerLoss DEF PowerLoss, PagesInv, TypeOK
<1>2. Unchecked'
  BY <1>1 DEF Unchecked
<1>3. FlashOK'
  BY <1>1 DEF PagesInv, TypeOK
<1>4. CASE UNCHANGED flash
  <2>1. RealPlaces' = RealPlaces /\ \A a \in RealPlaces : At(a)' = At(a)
    BY <1>4 DEF RealPlaces, Places, At, Items, Freeing, StateOf
  <2>2. \A a : IsLast(a)' <=> IsLast(a)
    BY <1>4 DEF IsLast, StateOf, Items
  <2>3. Freeing' = Freeing
    BY <1>4 DEF Freeing, StateOf
  <2>4. Pairs'
    <3>1. SUFFICES ASSUME NEW a \in RealPlaces, NEW b \in RealPlaces,
                          At(a).kind = "index", At(b).kind = "index", At(a).key = At(b).key, a # b
                   PROVE  PairAllowed(a, b)'
      BY <2>1 DEF Pairs
    <3>2. Freeing = {} /\ (IsLast(a) \/ IsLast(b))
      BY <3>1 DEF BlobsInv, Pairs, PairAllowed
    <3> QED BY <1>1, <2>2, <2>3, <3>2 DEF PairAllowed
  <2> QED BY <1>1, <1>2, <1>4, <2>4, FlashStays, BlobsUnchecked
<1>5. CASE /\ Pending > 0
           /\ \E n \in {0, Pending} :
                flash' = [flash EXCEPT ![cur] =
                            [st |-> "active",
                             seq |-> IF StateOf(cur) = "uninit" THEN nextSeq - 1 ELSE @.seq,
                             items |-> @.items, used |-> @.used, next |-> @.next + n,
                             live |-> @.live /\ n = 0]]
  <2>1. pc = "chunk" /\ cur \in Page
    BY <1>5, PendingFacts
  <2>2. Freeing = {} /\ Single
    BY <2>1, QuietSingle DEF Moves
  <2>3. /\ \A p \in Page \ {cur} : flash'[p] = flash[p]
        /\ flash'[cur].items = flash[cur].items /\ flash'[cur].st = "active"
    <3>1. PICK n \in {0, Pending} :
             flash' = [flash EXCEPT ![cur] =
                         [st |-> "active",
                          seq |-> IF StateOf(cur) = "uninit" THEN nextSeq - 1 ELSE @.seq,
                          items |-> @.items, used |-> @.used, next |-> @.next + n,
                          live |-> @.live /\ n = 0]]
      BY <1>5
    <3> DEFINE lv == flash[cur].live /\ n = 0
               pg == [st |-> "active",
                      seq |-> IF StateOf(cur) = "uninit" THEN nextSeq - 1 ELSE flash[cur].seq,
                      items |-> flash[cur].items, used |-> flash[cur].used,
                      next |-> flash[cur].next + n, live |-> lv]
    <3>2. flash' = [flash EXCEPT ![cur] = pg]
      BY <3>1
    <3> HIDE DEF lv
    <3>3. pg.items = flash[cur].items /\ pg.st = "active"
      OBVIOUS
    <3> HIDE DEF pg
    <3> QED BY <1>1, <2>1, <3>2, <3>3 DEF FlashOK
  <2>4. Places' = Places /\ \A a \in Places : At(a)' = At(a)
    <3>1. \A p \in Page : flash'[p].items = flash[p].items
      BY <2>3
    <3> QED BY <1>1, <1>3, <3>1, SameItems
  <2>5. Freeing' = {}
    BY <2>2, <2>3 DEF Freeing, StateOf
  <2>6. RealPlaces = Places /\ RealPlaces' = Places'
    BY <2>2, <2>5 DEF RealPlaces
  <2>7. Copies'
    BY <2>5 DEF Copies, Freeing
  <2>8. StoredStays
    BY <1>3, <2>2, <2>4, <2>6, SamePlaces DEF StoredStays
  <2> QED BY <1>1, <1>2, <1>3, <2>2, <2>4, <2>6, <2>7, <2>8, SamePlaces, BlobsUnchecked
<1>6. CASE /\ pc = "copy" /\ free # <<>>
           /\ \E n \in 1 .. Len(Items(gc)) :
                flash' = [flash EXCEPT ![Head(free)] = CopyOf(SubSeq(Items(gc), 1, n), nextSeq)]
  <2>1. PICK n \in 1 .. Len(Items(gc)) :
           flash' = [flash EXCEPT ![Head(free)] = CopyOf(SubSeq(Items(gc), 1, n), nextSeq)]
    BY <1>6
  <2>2. gc \in Page
    BY <1>6 DEF PagesInv, MoveKnown, Moves, Freeing
  <2>3. n \in 0 .. Len(Items(gc))
    BY <1>1, <2>1, <2>2, PageFacts DEF PageFactsD
  <2>4. Distinct' /\ Copies' /\ Pairs' /\ Counts' /\ Sizes' /\ StoredStays
    BY <1>6, <2>1, <2>2, <2>3, CopiedBlobs
  <2> QED BY <1>1, <1>2, <2>4, BlobsUnchecked
<1> QED BY <1>1, <1>4, <1>5, <1>6 DEF Torn

LEMMA BlobsOfWriteFind ==
  ASSUME PagesInv, BlobsInv, WriteFind
  PROVE  BlobsInv'
<1>1. CASE Len(op.val) > (PageCount - 1) * (EntryCount - 1)
  <2>1. pc' = "idle"
    BY <1>1 DEF WriteFind, Return
  <2> QED BY <2>1, BlobsOfReturns
<1>2. CASE ~(Len(op.val) > (PageCount - 1) * (EntryCount - 1))
  <2> DEFINE v == At(Earliest(Existing)).ver
  <2>1. /\ pc = "find" /\ op.kind = "write" /\ pc' = "chunk" /\ UNCHANGED flash /\ op' = op
        /\ loc' = IF Existing = {} THEN NoLocals ELSE [NoLocals EXCEPT !.ver = NextVersion(v), !.prev = v]
    BY <1>2 DEF WriteFind
  <2>2. Freeing = {} /\ Single /\ FlashOK /\ Filled /\ Ordered
    BY <2>1, QuietSingle DEF Moves
  <2>3. Complete
    BY <2>1, CompleteBlobs
  <2>4. \A x \in IndexesIn : x.ver \in Version
    BY <2>2, StoredFacts, ItemKinds DEF StoredFactsD, IndexesIn
  <2>5. Existing # {} => v \in Version /\ \A x \in IndexesIn : x.key = op.key => x.ver = v
    <3>1. Existing # {} => Earliest(Existing) \in Existing
      BY <2>2, EarliestIn DEF Existing, Indexes
    <3>2. Existing # {} => At(Earliest(Existing)) \in IndexesIn /\ At(Earliest(Existing)).key = op.key
      BY <2>2, <3>1, Lookups DEF Existing
    <3> QED BY <2>2, <2>4, <3>2 DEF Single
  <2>6. Existing = {} => \A x \in IndexesIn : x.key # op.key
    BY <2>2, Lookups DEF Existing, IndexOf
  <2> HIDE DEF v
  <2>7. /\ loc'.off = 0 /\ Count' = 0
        /\ \A x \in IndexesIn : x.key = op.key => x.ver = loc'.prev /\ x.ver # loc'.ver
    <3>1. CASE Existing = {}
      BY <2>1, <2>6, <3>1, NoLocalsFacts DEF Count
    <3>2. CASE Existing # {}
      <4>1. loc'.off = 0 /\ loc'.pages = <<>> /\ loc'.prev = v /\ loc'.ver = NextVersion(v)
        BY <2>1, <3>2, NoLocalsFacts DEF Locals
      <4>2. NextVersion(v) # v
        BY <2>5, <3>2 DEF NextVersion, Version
      <4>3. Count' = 0
        BY <4>1 DEF Count
      <4> QED BY <2>5, <3>2, <4>1, <4>2, <4>3
    <3> QED BY <3>1, <3>2
  <2>8. Whole' /\ Owned'
    BY <2>3, <2>1, FlashStays DEF Complete, Whole, Owned, OfBlob
  <2>9. Begun'
    <3>1. \A x \in IndexesIn' : x.key = op'.key => x.ver = loc'.prev
      BY <2>1, <2>7, FlashStays
    <3>2. ASSUME NEW y \in ChunksIn', OfBlob(y, op'.key, loc'.ver) PROVE FALSE
      BY <2>1, <2>3, <2>7, <3>2, FlashStays DEF Complete, OfBlob
    <3>3. \A k, w : All(k, w, 0, 0)'
      BY DEF All
    <3>4. ASSUME NEW y \in Stored', OfBlob(y, op'.key, loc'.ver) PROVE FALSE
      <4>1. y \in ChunksIn'
        BY <3>4 DEF OfBlob, ChunksIn
      <4> QED BY <3>2, <3>4, <4>1
    <3>5. (Sized(op.key, loc.ver, Count, loc.off))'
      <4> DEFINE s == [i \in 0 .. 0 |-> 0]
      <4>1. s \in [0 .. 0 -> 0 .. 0] /\ s[0] = 0
        OBVIOUS
      <4> HIDE DEF s
      <4>2. /\ s \in [0 .. Count' -> 0 .. loc'.off] /\ s[0] = 0 /\ s[Count'] = loc'.off
        BY <2>7, <4>1
      <4>3. \A y \in Stored' : OfBlob(y, op'.key, loc'.ver) /\ y.index < Count'
                                => Len(y.data) = s[y.index + 1] - s[y.index]
        BY <3>4
      <4> QED BY <4>2, <4>3 DEF Sized, OfBlob
    <3>6. (All(op.key, loc.ver, 0, Count))'
      BY <2>7, <3>3
    <3> QED BY <3>1, <3>2, <3>5, <3>6 DEF Begun, OfBlob
  <2>10. Ended' /\ Untouched'
    BY <2>1 DEF Ended, Untouched
  <2> QED BY <2>1, <2>2, <2>8, <2>9, <2>10, FlashStays DEF BlobsInv
<1> QED BY <1>1, <1>2

\* A new item on the current page.
LEMMA PutBlobs ==
  ASSUME PagesInv, BlobsInv, pc = "chunk",
         StateOf(cur) \in {"uninit", "active"},
         NEW x \in Item, NextFree(cur) + Span(x) <= EntryCount, Put(x),
         \A y \in Stored : ~SameItem(y, x) /\ ~SameItem(x, y)
  PROVE  /\ Stored' = Stored \cup {x} /\ Distinct' /\ Copies' /\ Freeing' = {} /\ FlashOK'
         /\ \E n \in RealPlaces' :
              /\ At(n)' = x /\ n[1] = cur /\ n[2] = Len(Items(cur)) + 1
              /\ flash'[n[1]].st = "active" /\ Len(flash'[n[1]].items) = n[2]
              /\ RealPlaces' = RealPlaces \cup {n}
              /\ \A a \in RealPlaces : At(a)' = At(a)
<1>1. /\ Freeing = {} /\ FlashOK /\ Filled /\ cur \in Page /\ nextSeq \in Nat /\ nextSeq >= 1
  BY NotMoving DEF PagesInv, TypeOK, Listing, Moves
<1>2. /\ FlashOK' /\ flash'[cur].st = "active" /\ flash'[cur].items = Append(Items(cur), x)
      /\ \A p \in Page \ {cur} : flash'[p] = flash[p]
  BY <1>1, PutPages
<1>3. Freeing' = {}
  BY <1>1, <1>2 DEF Freeing, StateOf
<1>4. RealPlaces = Places /\ RealPlaces' = Places'
  BY <1>1, <1>3 DEF RealPlaces
<1>5. PICK n \in Places' : /\ Places' = Places \cup {n} /\ n \notin Places
                           /\ n[1] = cur /\ n[2] = Len(Items(cur)) + 1 /\ At(n)' = x
                           /\ \A a \in Places : At(a)' = At(a)
  BY <1>1, PutPlaces
<1>6. Len(flash'[n[1]].items) = n[2]
  <2>1. Items(cur) \in Seq(Item)
    BY <1>1, PageFacts DEF PageFactsD
  <2> QED BY <1>2, <1>5, <2>1, AppendFacts
<1>7. Stored' = Stored \cup {x}
  <2>1. \A y : y \in Stored' <=> \E a \in Places \cup {n} : At(a)' = y
    BY <1>4, <1>5 DEF Stored
  <2>2. \A y : y \in Stored <=> \E a \in Places : At(a) = y
    BY <1>4 DEF Stored
  <2>3. \A y : y \in Stored' <=> y \in Stored \/ y = x
    BY <1>5, <2>1, <2>2
  <2> QED BY <2>3
<1>8. Distinct'
  <2>1. SUFFICES ASSUME NEW a \in Places', NEW b \in Places', SameItem(At(a)', At(b)')
                 PROVE  a = b
    BY <1>4 DEF Distinct, SameItem
  <2>2. \A a1 \in Places : At(a1) \in Stored /\ At(a1)' = At(a1)
    BY <1>4, <1>5 DEF Stored
  <2>3. CASE a \in Places /\ b \in Places
    BY <1>4, <2>1, <2>2, <2>3 DEF BlobsInv, Distinct
  <2>4. CASE a = n /\ b \in Places
    BY <1>5, <2>1, <2>2, <2>4
  <2>5. CASE a \in Places /\ b = n
    BY <1>5, <2>1, <2>2, <2>5
  <2> QED BY <1>5, <2>3, <2>4, <2>5
<1>9. Copies'
  BY <1>3 DEF Copies, Freeing
<1> QED BY <1>2, <1>3, <1>4, <1>5, <1>6, <1>7, <1>8, <1>9

LEMMA BlobsOfWriteChunk ==
  ASSUME PagesInv, BlobsInv, WriteChunk
  PROVE  /\ BlobsInv' /\ Single /\ IndexesIn' = IndexesIn
         /\ Stored' = Stored \cup {Chunk(op.key, loc.ver, Count, Piece)}
         /\ \A i \in IndexesIn : ~(i.key = op.key /\ i.ver = loc.ver)
<1> DEFINE c == Chunk(op.key, loc.ver, Count, Piece)
<1>1. /\ pc = "chunk" /\ Tailroom(cur) > 0 /\ Put(c)
      /\ loc' = [loc EXCEPT !.off = @ + Len(Piece), !.pages = Append(@, cur)]
      /\ pc' \in {"close", "chunk"} /\ op' = op
  BY DEF WriteChunk
<1>2. /\ Freeing = {} /\ Single /\ Mounted /\ cur \in Page /\ FlashOK /\ Filled /\ TypeOK
      /\ loc \in Locals /\ op.kind = "write" /\ loc.off <= Len(op.val)
      /\ (loc.prev # -1 => loc.prev # loc.ver) /\ Storing
  BY <1>1, QuietSingle, NotMoving
  DEF PagesInv, Moves, Listing, TypeOK, Called, WritePcs, Storing
<1>3. c \in Item /\ Span(c) = 1 + Len(Piece)
  BY <1>2, ChunkIsItem
<1>4. /\ Len(Piece) \in Nat /\ Len(Piece) <= Tailroom(cur)
      /\ Tailroom(cur) \in Nat /\ NextFree(cur) + 1 + Tailroom(cur) <= EntryCount /\ StateOf(cur) # "full"
      /\ NextFree(cur) \in Nat
  BY <1>1, <1>2, PieceFacts, TailroomFacts, PageFacts DEF PageFactsD
<1>5. StateOf(cur) \in {"uninit", "active"}
  BY <1>2, <1>4, PageFacts DEF PageFactsD, Freeing
<1>6. NextFree(cur) + Span(c) <= EntryCount
  BY <1>3, <1>4, SizeAssumption
<1>7. /\ c.kind = "data" /\ c.key = op.key /\ c.ver = loc.ver /\ c.index = Count /\ c.data = Piece
  BY DEF Chunk
<1> HIDE DEF c
<1> PICK x : x = c
  OBVIOUS
<1> PICK k : k = op.key
  OBVIOUS
<1> PICK v : v = loc.ver
  OBVIOUS
<1> PICK n : n = Count
  OBVIOUS
<1> PICK w : w = loc.off
  OBVIOUS
<1> PICK l : l = Len(Piece)
  OBVIOUS
<1>8. /\ x.kind = "data" /\ x.key = k /\ x.ver = v /\ x.index = n /\ Len(x.data) = l /\ x \in Item
      /\ v \in Version /\ n \in Nat /\ w \in Nat /\ l \in Nat /\ loc.pages \in Seq(Page)
  <2>1. loc.pages \in Seq(Page) /\ loc.ver \in Version /\ loc.off \in Nat
    BY <1>2 DEF Locals
  <2> QED BY <1>3, <1>4, <1>7, <2>1 DEF Count
<1>9. /\ \A i \in IndexesIn : i.key = k => i.ver = loc.prev
      /\ \A y \in ChunksIn : OfBlob(y, k, v) => y.index < n
      /\ All(k, v, 0, n) /\ Sized(k, v, n, w)
  BY <1>2 DEF BlobsInv, Begun
<1>10. \A y \in Stored : ~SameItem(y, x) /\ ~SameItem(x, y)
  <2>1. ASSUME NEW y \in Stored, SameItem(y, x) \/ SameItem(x, y) PROVE FALSE
    <3>1. y \in ChunksIn /\ OfBlob(y, k, v) /\ y.index = n
      BY <1>8, <2>1 DEF SameItem, OfBlob, ChunksIn
    <3> QED BY <1>8, <1>9, <3>1
  <2> QED BY <2>1
<1>11. Stored' = Stored \cup {x} /\ Distinct' /\ Copies' /\ Freeing' = {} /\ FlashOK'
  BY <1>1, <1>3, <1>5, <1>6, <1>10, PutBlobs
<1>12. IndexesIn' = IndexesIn /\ ChunksIn' = ChunksIn \cup {x}
  BY <1>8, <1>11 DEF IndexesIn, ChunksIn
<1>13. Single' /\ Pairs'
  BY <1>2, <1>11, <1>12, StoredThen DEF Single, SinglePairsD
<1>14. loc'.off = w + l /\ loc'.prev = loc.prev /\ loc'.ver = v /\ Count' = n + 1
  <2>1. loc.off + Len(Piece) \in Nat /\ Append(loc.pages, cur) \in Seq(Page)
    BY <1>2, <1>8 DEF Locals
  <2>2. loc'.off = loc.off + Len(Piece) /\ loc'.prev = loc.prev /\ loc'.ver = loc.ver
        /\ loc'.pages = Append(loc.pages, cur)
    BY <1>1, <1>2, <2>1 DEF Locals
  <2>3. Len(Append(loc.pages, cur)) = Len(loc.pages) + 1
    BY <1>2, <1>8
  <2> QED BY <2>2, <2>3 DEF Count
<1>15. \A i \in IndexesIn : ~OfBlob(x, i.key, i.ver)
  <2>1. ASSUME NEW i \in IndexesIn, i.key = k, i.ver = v PROVE FALSE
    <3>1. loc.prev # -1
      BY <1>8, <1>9, <2>1 DEF Version
    <3> QED BY <1>2, <1>9, <2>1, <3>1
  <2> QED BY <1>8, <2>1 DEF OfBlob
<1>16. Counts'
  BY <1>12, <1>15 DEF BlobsInv, Counts
<1>17. Sizes'
  <2>1. \A p, q, m, r : Sized(p, q, m, r) /\ ~OfBlob(x, p, q) => Sized(p, q, m, r)'
    BY <1>11 DEF Sized
  <2> QED BY <1>12, <1>15, <2>1 DEF BlobsInv, Sizes
<1>18. \A p, q, m, r : All(p, q, m, r) => All(p, q, m, r)'
  BY <1>11 DEF All
<1>19. Whole'
  <2>1. \A i \in IndexesIn : All(i.key, i.ver, 0, i.count)
    BY <1>1, <1>2 DEF BlobsInv, Whole, Unchecked, Emptied, Moves
  <2> QED BY <1>12, <1>18, <2>1 DEF Whole
<1>20. Storing'
  BY <1>1, <1>2 DEF Storing, WritePcs
<1>21. Owned'
  <2>1. \A y \in ChunksIn : OfBlob(y, k, v) \/ \E i \in IndexesIn : OfBlob(y, i.key, i.ver)
    BY <1>1, <1>2 DEF BlobsInv, Owned, Unchecked, Emptied, Moves
  <2>2. OfBlob(x, k, v)
    BY <1>8 DEF OfBlob
  <2> QED BY <1>1, <1>12, <1>14, <1>20, <2>1, <2>2 DEF Owned, OfBlob
<1>22. Begun'
  <2>1. \A y \in ChunksIn' : OfBlob(y, k, v) => y.index < n + 1
    <3>1. \A y \in ChunksIn : y.index \in Nat
      BY <1>2, StoredFacts, ItemKinds DEF StoredFactsD, ChunksIn
    <3> QED BY <1>8, <1>9, <1>12, <3>1
  <2>2. All(k, v, 0, n + 1)'
    <3>1. ASSUME NEW i \in 0 .. n PROVE \E y \in Stored' : OfBlob(y, k, v) /\ y.index = i
      <4>1. CASE i = n
        BY <1>8, <1>11, <4>1 DEF OfBlob
      <4>2. CASE i # n
        <5>1. i \in 0 .. n - 1
          BY <1>8, <4>2
        <5> QED BY <1>9, <1>11, <5>1 DEF All
      <4> QED BY <4>1, <4>2
    <3>2. 0 .. (n + 1) - 1 = 0 .. n
      BY <1>8
    <3> QED BY <3>1, <3>2 DEF All
  <2>3. Sized(k, v, n + 1, w + l)'
    <3>1. PICK s \in [0 .. n -> 0 .. w] :
            /\ s[0] = 0 /\ s[n] = w
            /\ \A y \in Stored : OfBlob(y, k, v) /\ y.index < n => Len(y.data) = s[y.index + 1] - s[y.index]
      BY <1>9 DEF Sized
    <3> DEFINE t == [i \in 0 .. n + 1 |-> IF i = n + 1 THEN w + l ELSE s[i]]
    <3>2. t \in [0 .. n + 1 -> 0 .. w + l]
      BY <1>8
    <3>3. t[0] = 0 /\ t[n + 1] = w + l /\ t[n] = w
      BY <1>8, <3>1
    <3>4. \A i \in 0 .. n : t[i] = s[i]
      BY <1>8
    <3> HIDE DEF t
    <3>5. ASSUME NEW y \in Stored', OfBlob(y, k, v), y.index < n + 1
          PROVE  Len(y.data) = t[y.index + 1] - t[y.index]
      <4>1. CASE y = x
        BY <1>8, <3>3, <4>1
      <4>2. CASE y # x
        <5>1. y \in Stored /\ y \in ChunksIn
          BY <1>11, <3>5, <4>2 DEF OfBlob, ChunksIn
        <5>2. y.index < n /\ y.index \in Nat
          BY <1>2, <1>9, <3>5, <5>1, StoredFacts, ItemKinds DEF StoredFactsD, ChunksIn
        <5>3. y.index \in 0 .. n /\ y.index + 1 \in 0 .. n
          BY <1>8, <5>2
        <5> QED BY <3>1, <3>4, <3>5, <5>1, <5>2, <5>3
      <4> QED BY <4>1, <4>2
    <3> QED BY <3>2, <3>3, <3>5 DEF Sized
  <2>4. (All(op.key, loc.ver, 0, Count))'
    BY <1>1, <1>14, <2>2
  <2>5. (Sized(op.key, loc.ver, Count, loc.off))'
    BY <1>1, <1>14, <2>3
  <2>6. \A i \in IndexesIn' : i.key = op'.key => i.ver = loc'.prev
    BY <1>1, <1>9, <1>12, <1>14
  <2>7. \A y \in ChunksIn' : OfBlob(y, op'.key, loc'.ver) => y.index < Count'
    BY <1>1, <1>14, <2>1
  <2> QED BY <2>4, <2>5, <2>6, <2>7 DEF Begun, OfBlob
<1>23. Ended' /\ Untouched'
  BY <1>1 DEF Ended, Untouched
<1>24. Stored' = Stored \cup {c} /\ \A i \in IndexesIn : ~(i.key = op.key /\ i.ver = loc.ver)
  BY <1>8, <1>11, <1>15 DEF OfBlob
<1> QED BY <1>2, <1>12, <1>24, <1>11, <1>13, <1>16, <1>17, <1>19, <1>21, <1>22, <1>23 DEF BlobsInv, c

LEMMA BlobsOfWriteIndex ==
  ASSUME PagesInv, BlobsInv, WriteIndex
  PROVE  /\ BlobsInv' /\ Single /\ loc.off = Len(op.val)
         /\ Stored' = Stored \cup {Index(op.key, loc.ver, Count, Len(op.val))}
         /\ \A i \in IndexesIn : i.key = op.key => i.ver = loc.prev
         /\ \E a \in RealPlaces' : /\ (At(a) = Index(op.key, loc.ver, Count, Len(op.val)))'
                                   /\ IsLast(a)'
<1> DEFINE c == Index(op.key, loc.ver, Count, Len(op.val))
<1>1. /\ pc = "chunk" /\ Count > 0 /\ Rest = 0 /\ Put(c) /\ op' = op /\ loc' = loc
      /\ pc' = IF loc.prev = -1 THEN "return" ELSE "old_index"
  BY DEF WriteIndex, ram
<1>2. /\ Freeing = {} /\ Single /\ Mounted /\ cur \in Page /\ FlashOK /\ Filled /\ TypeOK
      /\ loc \in Locals /\ op.kind = "write" /\ loc.off <= Len(op.val)
      /\ StateOf(cur) # "full" /\ NextFree(cur) < EntryCount
      /\ (loc.prev # -1 => loc.prev # loc.ver) /\ Storing
  BY <1>1, QuietSingle, NotMoving
  DEF PagesInv, Moves, Listing, TypeOK, Called, WritePcs, Storing, Room
<1>3. c \in Item /\ Span(c) = 1
  BY <1>2, IndexIsItem
<1>4. StateOf(cur) \in {"uninit", "active"} /\ NextFree(cur) \in Nat
  BY <1>2, PageFacts DEF PageFactsD, Freeing
<1>5. NextFree(cur) + Span(c) <= EntryCount
  BY <1>2, <1>3, <1>4, SizeAssumption
<1>6. c.kind = "index" /\ c.key = op.key /\ c.ver = loc.ver /\ c.count = Count /\ c.size = Len(op.val)
  BY DEF Index
<1>7. Len(op.val) \in Nat /\ loc.off = Len(op.val)
  <2>1. Len(op.val) \in Nat /\ loc.off \in Nat
    BY <1>2, OpFacts DEF Locals
  <2> QED BY <1>1, <2>1 DEF Rest
<1> HIDE DEF c
<1> PICK x : x = c
  OBVIOUS
<1> PICK k : k = op.key
  OBVIOUS
<1> PICK v : v = loc.ver
  OBVIOUS
<1> PICK n : n = Count
  OBVIOUS
<1> PICK w : w = loc.off
  OBVIOUS
<1>8. x.kind = "index" /\ x.key = k /\ x.ver = v /\ x.count = n /\ x.size = w /\ x \in Item /\ v \in Version
  BY <1>2, <1>3, <1>6, <1>7 DEF Locals
<1>9. /\ \A i \in IndexesIn : i.key = k => i.ver = loc.prev
      /\ \A y \in ChunksIn : OfBlob(y, k, v) => y.index < n
      /\ All(k, v, 0, n) /\ Sized(k, v, n, w)
  BY <1>2 DEF BlobsInv, Begun
<1>10. \A i \in IndexesIn : i.key = k => i.ver # v /\ loc.prev # -1
  <2>1. \A i \in IndexesIn : i.ver \in Version
    BY <1>2, StoredFacts, ItemKinds DEF StoredFactsD, IndexesIn
  <2>2. -1 \notin Version
    BY DEF Version
  <2> QED BY <1>2, <1>9, <2>1, <2>2
<1>11. \A y \in Stored : ~SameItem(y, x) /\ ~SameItem(x, y)
  BY <1>8, <1>10 DEF SameItem, IndexesIn
<1>12. /\ Stored' = Stored \cup {x} /\ Distinct' /\ Copies' /\ Freeing' = {} /\ FlashOK'
       /\ \E a \in RealPlaces' :
              /\ At(a)' = x /\ a[1] = cur /\ a[2] = Len(Items(cur)) + 1
              /\ flash'[a[1]].st = "active" /\ Len(flash'[a[1]].items) = a[2]
              /\ RealPlaces' = RealPlaces \cup {a}
              /\ \A b \in RealPlaces : At(b)' = At(b)
  BY <1>1, <1>3, <1>4, <1>5, <1>11, PutBlobs
<1>13. IndexesIn' = IndexesIn \cup {x} /\ ChunksIn' = ChunksIn
  BY <1>8, <1>12 DEF IndexesIn, ChunksIn
<1>14. Pairs'
  <2>1. CASE loc.prev = -1
    <3>1. Single'
      BY <1>2, <1>8, <1>10, <1>13, <2>1 DEF Single
    <3> QED BY <1>12, <3>1, StoredThen DEF SinglePairsD
  <2>2. CASE loc.prev # -1
    <3>1. PICK a \in RealPlaces' :
              /\ At(a)' = x
              /\ flash'[a[1]].st = "active" /\ Len(flash'[a[1]].items) = a[2]
              /\ RealPlaces' = RealPlaces \cup {a}
              /\ \A b \in RealPlaces : At(b)' = At(b)
      BY <1>12
    <3>2. IsLast(a)'
      BY <3>1 DEF IsLast, StateOf, Items
    <3>3. \A b \in RealPlaces : At(b) \in Stored
      BY DEF Stored
    <3>4. \A b, d \in RealPlaces :
            At(b)'.kind = "index" /\ At(d)'.kind = "index" /\ At(b)'.key = At(d)'.key => At(b) = At(d)
      BY <1>2, <3>1, <3>3 DEF Single, IndexesIn
    <3>5. \A b, d \in RealPlaces :
            At(b)'.kind = "index" /\ At(d)'.kind = "index" /\ At(b)'.key = At(d)'.key => b = d
      BY <3>1, <3>4 DEF BlobsInv, Distinct, SameItem
    <3>6. ASSUME NEW b \in RealPlaces', NEW d \in RealPlaces', b # d,
                 At(b)'.kind = "index", At(d)'.kind = "index", At(b)'.key = At(d)'.key
          PROVE  PairAllowed(b, d)'
      <4>1. b = a \/ d = a
        BY <3>1, <3>5, <3>6
      <4>2. At(b)'.key = op'.key
        BY <1>1, <1>8, <3>1, <3>6, <4>1
      <4>3. pc' = "old_index" /\ op'.kind = "write"
        BY <1>1, <1>2, <2>2
      <4> QED BY <1>12, <3>2, <4>1, <4>2, <4>3 DEF PairAllowed
    <3> QED BY <3>6 DEF Pairs
  <2> QED BY <2>1, <2>2
<1>15. Counts'
  BY <1>8, <1>9, <1>13 DEF BlobsInv, Counts
<1>16. \A p, q, m, r : Sized(p, q, m, r) => Sized(p, q, m, r)'
  BY <1>8, <1>12 DEF Sized, OfBlob
<1>17. \A p, q, m, r : All(p, q, m, r) => All(p, q, m, r)'
  BY <1>12 DEF All
<1>18. Sizes'
  BY <1>8, <1>9, <1>13, <1>16 DEF BlobsInv, Sizes
<1>19. Whole'
  <2>1. \A i \in IndexesIn : All(i.key, i.ver, 0, i.count)
    BY <1>1, <1>2 DEF BlobsInv, Whole, Unchecked, Emptied, Moves
  <2> QED BY <1>8, <1>9, <1>13, <1>17, <2>1 DEF Whole
<1>20. Owned'
  <2>1. \A y \in ChunksIn : OfBlob(y, k, v) \/ \E i \in IndexesIn : OfBlob(y, i.key, i.ver)
    BY <1>1, <1>2 DEF BlobsInv, Owned, Unchecked, Emptied, Moves
  <2>2. \A y \in ChunksIn' : \E i \in IndexesIn' : OfBlob(y, i.key, i.ver)
    BY <1>8, <1>13, <2>1
  <2> QED BY <2>2 DEF Owned, OfBlob
<1>21. Begun' /\ Ended' /\ Untouched'
  BY <1>1 DEF Begun, Ended, Untouched, Storing, WritePcs, Moves
<1>22. \E a \in RealPlaces' : At(a)' = x /\ IsLast(a)'
  BY <1>12 DEF IsLast, StateOf, Items
<1>23. x = c /\ c = Index(op.key, loc.ver, Count, Len(op.val))'
  <2>1. loc'.ver = loc.ver /\ Count' = Count /\ op' = op
    BY <1>1 DEF Count
  <2> QED BY <2>1 DEF c
<1>24. \E a \in RealPlaces' : /\ (At(a) = Index(op.key, loc.ver, Count, Len(op.val)))'
                              /\ IsLast(a)'
  BY <1>22, <1>23
<1>25. Stored' = Stored \cup {Index(op.key, loc.ver, Count, Len(op.val))}
  BY <1>12 DEF c
<1> QED BY <1>2, <1>7, <1>9, <1>24, <1>25, <1>12, <1>14, <1>15, <1>18, <1>19, <1>20, <1>21 DEF BlobsInv

\* What the first chunks of an index hold together, as Blob builds it up.
Joined(x) ==
  CHOOSE upto : upto = [i \in 0 .. x.count |-> IF i = 0 THEN <<>> ELSE upto[i - 1] \o Part(x, i - 1)]

LEMMA BlobIs ==
  ASSUME NEW a \in Places
  PROVE  /\ Blob[a].whole <=> \A i \in 0 .. At(a).count - 1 : ChunksOf(At(a).key, At(a).ver, i) # {}
         /\ Blob[a].data = Joined(At(a))[At(a).count]
         /\ Blob[a].size = At(a).size
  BY DEF Blob, Joined

LEMMA JoinedExists ==
  ASSUME NEW x, x.count \in Nat
  PROVE  Joined(x) = [i \in 0 .. x.count |-> IF i = 0 THEN <<>> ELSE Joined(x)[i - 1] \o Part(x, i - 1)]
<1> DEFINE Good(n) == \E f : f = [i \in 0 .. n |-> IF i = 0 THEN <<>> ELSE f[i - 1] \o Part(x, i - 1)]
           Bad == {n \in Nat : ~Good(n)}
<1>1. SUFFICES Bad = {}
  <2>1. Bad = {} => Good(x.count)
    OBVIOUS
  <2> HIDE DEF Bad
  <2> QED BY <2>1 DEF Joined
<1>2. SUFFICES ASSUME Bad # {} PROVE FALSE
  OBVIOUS
<1> HIDE DEF Good
<1>3. PICK n \in Bad : \A m \in Bad : n <= m
  BY <1>2, LeastNatural
<1>4. n \in Nat /\ ~Good(n)
  BY <1>3
<1>5. CASE n = 0
  <2> DEFINE f == [i \in 0 .. 0 |-> <<>>]
  <2>1. f = [i \in 0 .. 0 |-> IF i = 0 THEN <<>> ELSE f[i - 1] \o Part(x, i - 1)]
    OBVIOUS
  <2> QED BY <1>4, <1>5, <2>1 DEF Good
<1>6. CASE n # 0
  <2>1. n - 1 \in Nat /\ n - 1 \notin Bad
    BY <1>3, <1>4, <1>6
  <2>2. Good(n - 1)
    BY <2>1
  <2>3. PICK f : f = [i \in 0 .. n - 1 |-> IF i = 0 THEN <<>> ELSE f[i - 1] \o Part(x, i - 1)]
    BY <2>2 DEF Good
  <2> DEFINE g == [i \in 0 .. n |-> IF i = n THEN f[n - 1] \o Part(x, n - 1) ELSE f[i]]
  <2>4. \A i \in 0 .. n - 1 : g[i] = f[i] /\ f[i] = IF i = 0 THEN <<>> ELSE f[i - 1] \o Part(x, i - 1)
    <3>1. \A i \in 0 .. n - 1 : i \in 0 .. n /\ i # n
      BY <1>4
    <3>2. \A i \in 0 .. n - 1 : f[i] = IF i = 0 THEN <<>> ELSE f[i - 1] \o Part(x, i - 1)
      BY <2>3
    <3> QED BY <3>1, <3>2
  <2>5. g[n] = f[n - 1] \o Part(x, n - 1)
    <3>1. n \in 0 .. n
      BY <1>4
    <3> QED BY <3>1
  <2>6. ASSUME NEW i \in 0 .. n PROVE g[i] = IF i = 0 THEN <<>> ELSE g[i - 1] \o Part(x, i - 1)
    <3> HIDE DEF g
    <3>1. CASE i = n
      <4>1. n - 1 \in 0 .. n - 1
        BY <1>4, <1>6
      <4> QED BY <1>6, <2>4, <2>5, <3>1, <4>1
    <3>2. CASE i # n /\ i # 0
      <4>1. i \in 0 .. n - 1 /\ i - 1 \in 0 .. n - 1
        BY <1>4, <3>2
      <4> QED BY <2>4, <3>2, <4>1
    <3>3. CASE i = 0
      <4>1. i \in 0 .. n - 1
        BY <1>4, <1>6, <3>3
      <4> QED BY <2>4, <3>3, <4>1
    <3> QED BY <3>1, <3>2, <3>3
  <2>7. g = [i \in 0 .. n |-> IF i = 0 THEN <<>> ELSE g[i - 1] \o Part(x, i - 1)]
    BY <2>6
  <2> HIDE DEF g
  <2> QED BY <1>4, <2>7 DEF Good
<1> QED BY <1>5, <1>6

LEMMA JoinedFacts ==
  ASSUME FlashOK, Filled, Ordered, NEW x, x.count \in Nat
  PROVE  /\ \A i \in Nat : Part(x, i) \in Seq(Unit)
         /\ \A i \in 0 .. x.count : Joined(x)[i] \in Seq(Unit) /\ Len(Joined(x)[i]) \in Nat
         /\ Len(Joined(x)[0]) = 0
         /\ \A i \in 0 .. x.count - 1 : /\ Joined(x)[i + 1] = Joined(x)[i] \o Part(x, i)
                                        /\ Len(Joined(x)[i + 1]) = Len(Joined(x)[i]) + Len(Part(x, i))
<1> DEFINE J == Joined(x)
<1>1. J = [i \in 0 .. x.count |-> IF i = 0 THEN <<>> ELSE J[i - 1] \o Part(x, i - 1)]
  BY JoinedExists, Zenon
<1>2. \A i : Part(x, i) \in Seq(Unit)
  <2>1. SUFFICES ASSUME NEW i PROVE Part(x, i) \in Seq(Unit)
    OBVIOUS
  <2> DEFINE hits == ChunksOf(x.key, x.ver, i)
  <2>2. CASE hits = {}
    <3>1. Part(x, i) = <<>>
      BY <2>2 DEF Part
    <3> QED BY <3>1
  <2>3. CASE hits # {}
    <3>1. hits \subseteq Places /\ \A a \in hits : At(a).kind = "data"
      BY DEF ChunksOf
    <3> HIDE DEF hits
    <3>2. Earliest(hits) \in hits
      BY <2>3, <3>1, EarliestIn
    <3>3. At(Earliest(hits)) \in Item /\ At(Earliest(hits)).kind = "data"
      BY <3>1, <3>2, PlaceFacts DEF PlaceFactsD
    <3>4. At(Earliest(hits)).data \in Seq(Unit)
      BY <3>3, ItemKinds
    <3>5. Part(x, i) = At(Earliest(hits)).data
      BY <2>3 DEF Part, hits
    <3> QED BY <3>4, <3>5
  <2> QED BY <2>2, <2>3
<1> HIDE DEF J
<1>3. 0 \in 0 .. x.count /\ \A i \in 0 .. x.count : i # 0 => i - 1 \in 0 .. x.count
  OBVIOUS
<1>4. J[0] = <<>> /\ \A i \in 0 .. x.count : i # 0 => J[i] = J[i - 1] \o Part(x, i - 1)
  BY <1>1, <1>3
<1>5. \A i \in 0 .. x.count : J[i] \in Seq(Unit)
  <2> DEFINE Bad == {i \in 0 .. x.count : J[i] \notin Seq(Unit)}
  <2>1. SUFFICES ASSUME Bad # {} PROVE FALSE
    OBVIOUS
  <2>2. Bad \subseteq Nat
    OBVIOUS
  <2>3. PICK n \in Bad : \A m \in Bad : n <= m
    BY <2>1, <2>2, LeastNatural
  <2>4. n \in 0 .. x.count /\ n \in Nat /\ n # 0
    <3>1. <<>> \in Seq(Unit)
      OBVIOUS
    <3>2. J[n] \notin Seq(Unit)
      BY <2>3
    <3>3. n # 0
      BY <1>4, <3>1, <3>2
    <3> QED BY <2>3, <3>3
  <2>5. n - 1 \in 0 .. x.count /\ n - 1 \notin Bad
    BY <2>3, <2>4
  <2>6. J[n - 1] \in Seq(Unit)
    BY <2>5
  <2>7. J[n] \in Seq(Unit)
    <3>1. J[n] = J[n - 1] \o Part(x, n - 1)
      BY <1>4, <2>4
    <3>2. Part(x, n - 1) \in Seq(Unit)
      BY <1>2
    <3> QED BY <2>6, <3>1, <3>2, ConcatProperties
  <2> QED BY <2>3, <2>7
<1>6. ASSUME NEW i \in 0 .. x.count - 1
      PROVE  J[i + 1] = J[i] \o Part(x, i) /\ Len(J[i + 1]) = Len(J[i]) + Len(Part(x, i))
  <2>1. i + 1 \in 0 .. x.count /\ i + 1 # 0 /\ (i + 1) - 1 = i /\ i \in 0 .. x.count
    OBVIOUS
  <2>2. J[i + 1] = J[i] \o Part(x, i)
    BY <1>4, <2>1
  <2>3. J[i] \in Seq(Unit) /\ Part(x, i) \in Seq(Unit)
    BY <1>2, <1>5, <2>1
  <2> QED BY <2>2, <2>3, ConcatProperties
<1>7. \A i \in 0 .. x.count : Len(J[i]) \in Nat
  BY <1>5, LenProperties
<1>8. Len(J[0]) = 0
  BY <1>4
<1> QED BY <1>2, <1>5, <1>6, <1>7, <1>8 DEF J

\* Chunk i of x, for a stored index x, is what a lookup finds.
LEMMA PartIs ==
  ASSUME FlashOK, Filled, Ordered, Copies \/ Freeing = {}, Distinct,
         NEW x, NEW y \in ChunksIn, OfBlob(y, x.key, x.ver)
  PROVE  Part(x, y.index) = y.data
<1> DEFINE hits == ChunksOf(x.key, x.ver, y.index)
<1>1. /\ hits # {} /\ hits \subseteq Places
      /\ \A b \in hits : At(b) \in ChunksIn /\ OfBlob(At(b), x.key, x.ver) /\ At(b).index = y.index
  BY Lookups DEF OfBlob
<1>2. \A z \in ChunksIn : \E b \in RealPlaces : At(b) = z
  BY StoredFacts DEF StoredFactsD, ChunksIn
<1>3. ASSUME NEW b \in hits PROVE At(b) = y
  <2>1. PICK c \in RealPlaces : At(c) = At(b)
    BY <1>1, <1>2
  <2>2. PICK d \in RealPlaces : At(d) = y
    BY <1>2
  <2>3. SameItem(At(c), At(d))
    BY <1>1, <2>1, <2>2 DEF SameItem, OfBlob
  <2> QED BY <2>1, <2>2, <2>3 DEF Distinct
<1> HIDE DEF hits
<1>4. At(Earliest(hits)) = y
  <2>1. Earliest(hits) \in hits
    BY <1>1, EarliestIn
  <2> QED BY <1>3, <2>1
<1>5. Part(x, y.index) = At(Earliest(hits)).data
  BY <1>1 DEF Part, hits
<1> QED BY <1>4, <1>5

LEMMA LessIsAtMost ==
  ASSUME NEW u \in Nat, NEW v \in Nat, NEW w \in Nat, u + v <= w
  PROVE  u <= w
OBVIOUS

LEMMA PastTheEnd ==
  ASSUME NEW u \in Nat, NEW v \in Nat, NEW j \in 1 .. v
  PROVE  u + j \in 1 .. u + v /\ ~(u + j <= u) /\ (u + j) - u = j
OBVIOUS

LEMMA SumsAndRests ==
  ASSUME NEW u \in Nat, NEW v \in Nat, NEW w, w = u + v
  PROVE  v = w - u
OBVIOUS

\* s is where the chunks of x begin, and ends.
Offsets(x, s) ==
  /\ s \in [0 .. x.count -> 0 .. x.size] /\ s[0] = 0 /\ s[x.count] = x.size
  /\ \A y \in Stored : OfBlob(y, x.key, x.ver) /\ y.index < x.count
                        => Len(y.data) = s[y.index + 1] - s[y.index]

\* The offsets at which the chunks of x begin are the lengths of what comes before.
LEMMA JoinedOffsets ==
  ASSUME FlashOK, Filled, Ordered, Copies \/ Freeing = {}, Distinct,
         NEW x, x.count \in Nat, x.size \in Nat, All(x.key, x.ver, 0, x.count), NEW s, Offsets(x, s)
  PROVE  /\ \A i \in 0 .. x.count - 1 : ChunksOf(x.key, x.ver, i) # {}
         /\ \A i \in 0 .. x.count - 1 :
              \E y \in ChunksIn : OfBlob(y, x.key, x.ver) /\ y.index = i /\ Part(x, i) = y.data
         /\ \A i \in 0 .. x.count : Len(Joined(x)[i]) = s[i]
<1>0. /\ s \in [0 .. x.count -> 0 .. x.size] /\ s[0] = 0
      /\ \A y \in Stored : OfBlob(y, x.key, x.ver) /\ y.index < x.count
                            => Len(y.data) = s[y.index + 1] - s[y.index]
  BY DEF Offsets
<1>1. ASSUME NEW i \in 0 .. x.count - 1
      PROVE  /\ ChunksOf(x.key, x.ver, i) # {} /\ Len(Part(x, i)) = s[i + 1] - s[i]
             /\ \E y \in ChunksIn : OfBlob(y, x.key, x.ver) /\ y.index = i /\ Part(x, i) = y.data
  <2>1. PICK y \in Stored : OfBlob(y, x.key, x.ver) /\ y.index = i
    BY DEF All
  <2>2. y \in ChunksIn
    BY <2>1 DEF OfBlob, ChunksIn
  <2>3. Part(x, i) = y.data
    BY <2>1, <2>2, PartIs
  <2>4. \E b \in ChunksOf(x.key, x.ver, i) : At(b) = y
    BY <2>1, <2>2, Lookups DEF OfBlob
  <2> QED BY <1>0, <2>1, <2>2, <2>3, <2>4
<1> DEFINE J == Joined(x)
<1>2. /\ \A i \in 0 .. x.count : Len(J[i]) \in Nat
      /\ Len(J[0]) = 0
      /\ \A i \in 0 .. x.count - 1 : Len(J[i + 1]) = Len(J[i]) + Len(Part(x, i))
  BY JoinedFacts
<1> HIDE DEF J
<1>3. \A i \in 0 .. x.count : Len(J[i]) = s[i]
  <2> DEFINE Bad == {i \in 0 .. x.count : Len(J[i]) # s[i]}
  <2>1. SUFFICES ASSUME Bad # {} PROVE FALSE
    OBVIOUS
  <2>2. Bad \subseteq Nat
    OBVIOUS
  <2>3. PICK n \in Bad : \A m \in Bad : n <= m
    BY <2>1, <2>2, LeastNatural
  <2>4. n \in 0 .. x.count /\ n \in Nat /\ n # 0
    BY <1>0, <1>2, <2>3
  <2>5. n - 1 \in 0 .. x.count - 1 /\ n - 1 \notin Bad /\ n - 1 \in 0 .. x.count /\ (n - 1) + 1 = n
    BY <2>3, <2>4
  <2>6. Len(J[n - 1]) = s[n - 1]
    BY <2>5
  <2>7. Len(J[n]) = Len(J[n - 1]) + Len(Part(x, n - 1)) /\ Len(Part(x, n - 1)) = s[n] - s[n - 1]
    BY <1>1, <1>2, <2>5
  <2>8. s[n] \in 0 .. x.size /\ s[n - 1] \in 0 .. x.size
    BY <1>0, <2>4, <2>5
  <2> QED BY <2>3, <2>6, <2>7, <2>8
<1> QED BY <1>1, <1>3 DEF J

LEMMA SizedIsIntact ==
  ASSUME FlashOK, Filled, Ordered, Copies \/ Freeing = {}, Distinct, NEW a \in Places, At(a).kind = "index",
         All(At(a).key, At(a).ver, 0, At(a).count), Sized(At(a).key, At(a).ver, At(a).count, At(a).size)
  PROVE  Intact(Blob[a]) /\ ~Purged(Blob[a])
<1> PICK x : x = At(a)
  OBVIOUS
<1>1. x.count \in Nat /\ x.size \in Nat
  <2>1. x \in Item
    BY PlaceFacts DEF PlaceFactsD
  <2> QED BY <2>1, ItemKinds
<1>2. PICK s : Offsets(x, s)
  BY DEF Sized, Offsets
<1>3. /\ \A i \in 0 .. x.count - 1 : ChunksOf(x.key, x.ver, i) # {}
      /\ \A i \in 0 .. x.count - 1 :
           \E y \in ChunksIn : OfBlob(y, x.key, x.ver) /\ y.index = i /\ Part(x, i) = y.data
      /\ \A i \in 0 .. x.count : Len(Joined(x)[i]) = s[i]
  <2>1. All(x.key, x.ver, 0, x.count)
    OBVIOUS
  <2> QED BY <1>1, <1>2, <2>1, JoinedOffsets
<1>4. Len(Joined(x)[x.count]) = x.size
  BY <1>1, <1>2, <1>3 DEF Offsets
<1>5. Blob[a].whole /\ Blob[a].data = Joined(x)[x.count] /\ Blob[a].size = x.size
  BY <1>3, BlobIs
<1> QED BY <1>1, <1>4, <1>5 DEF Intact, Purged

\* A blob whose chunks spell d reads as d.
LEMMA HoldsIsRead ==
  ASSUME FlashOK, Filled, Ordered, Copies \/ Freeing = {}, Distinct, NEW a \in Places, At(a).kind = "index",
         NEW d, Holds(At(a), d)
  PROVE  Intact(Blob[a]) /\ Blob[a].data = d
<1> PICK x : x = At(a)
  OBVIOUS
<1>1. x.count \in Nat /\ x.size \in Nat
  <2>1. x \in Item
    BY PlaceFacts DEF PlaceFactsD
  <2> QED BY <2>1, ItemKinds
<1>2. PICK s \in [0 .. x.count -> 0 .. x.size] :
        /\ s[0] = 0 /\ s[x.count] = x.size
        /\ \A y \in Stored : OfBlob(y, x.key, x.ver) /\ y.index < x.count =>
             /\ Len(y.data) = s[y.index + 1] - s[y.index]
             /\ \A j \in 1 .. Len(y.data) : y.data[j] = d[s[y.index] + j]
  BY DEF Holds, Spells
<1>3. d \in Seq(Unit) /\ Len(d) = x.size /\ All(x.key, x.ver, 0, x.count)
  BY DEF Holds
<1> DEFINE J == Joined(x)
<1>4. /\ \A i \in 0 .. x.count - 1 : ChunksOf(x.key, x.ver, i) # {}
      /\ \A i \in 0 .. x.count - 1 :
           \E y \in ChunksIn : OfBlob(y, x.key, x.ver) /\ y.index = i /\ Part(x, i) = y.data
      /\ \A i \in 0 .. x.count : Len(J[i]) = s[i]
  <2>1. Offsets(x, s)
    BY <1>2 DEF Offsets
  <2> QED BY <1>1, <1>3, <2>1, JoinedOffsets DEF J
<1>5. /\ \A i \in 0 .. x.count : J[i] \in Seq(Unit)
      /\ \A i \in 0 .. x.count - 1 : J[i + 1] = J[i] \o Part(x, i) /\ Part(x, i) \in Seq(Unit)
  <2>1. /\ \A i \in Nat : Part(x, i) \in Seq(Unit)
        /\ \A i \in 0 .. x.count : J[i] \in Seq(Unit)
        /\ \A i \in 0 .. x.count - 1 : J[i + 1] = J[i] \o Part(x, i)
    BY <1>1, JoinedFacts
  <2>2. \A i \in 0 .. x.count - 1 : i \in Nat
    BY <1>1
  <2> QED BY <2>1, <2>2
<1>6. Blob[a].whole /\ Blob[a].data = J[x.count] /\ Blob[a].size = x.size
  BY <1>4, BlobIs
<1> HIDE DEF J
<1> DEFINE Bad == {i \in 0 .. x.count : \E m \in 1 .. s[i] : J[i][m] # d[m]}
<1>7. Bad = {}
  <2>1. SUFFICES ASSUME Bad # {} PROVE FALSE
    OBVIOUS
  <2>2. Bad \subseteq Nat
    OBVIOUS
  <2>3. PICK n \in Bad : \A m \in Bad : n <= m
    BY <2>1, <2>2, LeastNatural
  <2>4. n \in 0 .. x.count /\ n \in Nat
    BY <2>3
  <2>5. PICK m \in 1 .. s[n] : J[n][m] # d[m]
    BY <2>3
  <2>6. n # 0
    BY <1>2, <2>5
  <2>7. n - 1 \in 0 .. x.count - 1 /\ n - 1 \in 0 .. x.count /\ n - 1 \notin Bad /\ (n - 1) + 1 = n
    BY <1>1, <2>3, <2>4, <2>6
  <2>8. \A l \in 1 .. s[n - 1] : J[n - 1][l] = d[l]
    BY <2>7
  <2>9. PICK y \in ChunksIn : OfBlob(y, x.key, x.ver) /\ y.index = n - 1 /\ Part(x, n - 1) = y.data
    BY <1>4, <2>7
  <2>10. /\ Len(y.data) = s[n] - s[n - 1]
         /\ \A j \in 1 .. Len(y.data) : y.data[j] = d[s[n - 1] + j]
    <3>1. y \in Stored /\ y.index < x.count
      BY <1>1, <2>4, <2>9 DEF ChunksIn
    <3> QED BY <1>2, <2>7, <2>9, <3>1
  <2>11. /\ J[n] = J[n - 1] \o y.data /\ J[n - 1] \in Seq(Unit) /\ y.data \in Seq(Unit)
         /\ Len(J[n - 1]) = s[n - 1]
    BY <1>4, <1>5, <2>7, <2>9
  <2>12. s[n] \in Nat /\ s[n - 1] \in Nat /\ m \in Nat
    BY <1>1, <1>2, <2>4, <2>5, <2>7
  <2>13. J[n][m] = IF m <= s[n - 1] THEN J[n - 1][m] ELSE y.data[m - s[n - 1]]
    <3>1. m \in 1 .. Len(J[n - 1]) + Len(y.data)
      BY <2>5, <2>10, <2>11, <2>12
    <3> DEFINE u == J[n - 1]
               w == y.data
    <3>2. u \in Seq(Unit) /\ w \in Seq(Unit) /\ J[n] = u \o w /\ Len(u) = s[n - 1] /\ m \in 1 .. Len(u) + Len(w)
      BY <2>11, <3>1
    <3> HIDE DEF u, w
    <3>3. (u \o w)[m] = IF m <= Len(u) THEN u[m] ELSE w[m - Len(u)]
      BY <3>2, ConcatProperties
    <3>4. J[n][m] = IF m <= s[n - 1] THEN u[m] ELSE w[m - s[n - 1]]
      BY <3>2, <3>3
    <3> QED BY <3>4 DEF u, w
  <2>14. CASE m <= s[n - 1]
    BY <2>5, <2>8, <2>12, <2>13, <2>14
  <2>15. CASE ~(m <= s[n - 1])
    <3>1. m - s[n - 1] \in 1 .. Len(y.data) /\ s[n - 1] + (m - s[n - 1]) = m
      BY <2>5, <2>10, <2>12, <2>15
    <3> QED BY <2>5, <2>10, <2>13, <2>15, <3>1
  <2> QED BY <2>14, <2>15
<1>8. x.count \in 0 .. x.count
  BY <1>1
<1>9. J[x.count] \in Seq(Unit) /\ Len(J[x.count]) = x.size /\ \A m \in 1 .. x.size : J[x.count][m] = d[m]
  BY <1>2, <1>4, <1>5, <1>7, <1>8
<1>10. J[x.count] = d
  BY <1>3, <1>9, SeqEqual
<1> QED BY <1>3, <1>6, <1>10 DEF Intact

\* What is read of a blob is what its chunks spell.
LEMMA IntactHolds ==
  ASSUME FlashOK, Filled, Ordered, Copies \/ Freeing = {}, Distinct, NEW a \in Places, At(a).kind = "index",
         Intact(Blob[a])
  PROVE  Holds(At(a), Blob[a].data)
<1> PICK x : x = At(a)
  OBVIOUS
<1>1. x.count \in Nat /\ x.size \in Nat
  <2>1. x \in Item
    BY PlaceFacts DEF PlaceFactsD
  <2> QED BY <2>1, ItemKinds
<1> DEFINE J == Joined(x)
<1>2. /\ \A i \in 0 .. x.count - 1 : ChunksOf(x.key, x.ver, i) # {}
      /\ Len(J[x.count]) = x.size /\ Blob[a].data = J[x.count]
  BY BlobIs DEF Intact
<1>3. /\ \A i \in Nat : Part(x, i) \in Seq(Unit)
      /\ \A i \in 0 .. x.count : Len(J[i]) \in Nat
      /\ Len(J[0]) = 0
      /\ \A i \in 0 .. x.count - 1 : /\ Len(J[i + 1]) = Len(J[i]) + Len(Part(x, i))
                                     /\ J[i + 1] = J[i] \o Part(x, i)
      /\ \A i \in 0 .. x.count : J[i] \in Seq(Unit)
  BY <1>1, JoinedFacts
<1> HIDE DEF J
<1>4. All(x.key, x.ver, 0, x.count)
  <2>1. ASSUME NEW i \in 0 .. x.count - 1 PROVE \E y \in Stored : OfBlob(y, x.key, x.ver) /\ y.index = i
    <3>1. PICK b \in ChunksOf(x.key, x.ver, i) : TRUE
      BY <1>2
    <3>2. At(b) \in ChunksIn /\ OfBlob(At(b), x.key, x.ver) /\ At(b).index = i
      BY Lookups
    <3> QED BY <3>2 DEF ChunksIn
  <2> QED BY <2>1 DEF All
<1>5. \A i \in 0 .. x.count : Len(J[i]) <= x.size
  <2> DEFINE Bad == {i \in Nat : i <= x.count /\ ~(Len(J[x.count - i]) <= x.size)}
  <2>1. Bad = {}
    <3>1. SUFFICES ASSUME Bad # {} PROVE FALSE
      OBVIOUS
    <3>2. PICK n \in Bad : \A m \in Bad : n <= m
      BY <3>1, LeastNatural
    <3>3. n \in Nat /\ n <= x.count /\ ~(Len(J[x.count - n]) <= x.size)
      BY <3>2
    <3>4. n # 0
      BY <1>1, <1>2, <3>3
    <3>5. n - 1 \in Nat /\ n - 1 <= x.count /\ n - 1 \notin Bad
      BY <1>1, <3>2, <3>3, <3>4
    <3>6. Len(J[x.count - (n - 1)]) <= x.size
      BY <3>5
    <3>7. x.count - n \in 0 .. x.count - 1 /\ x.count - (n - 1) = (x.count - n) + 1 /\ x.count - n \in Nat
          /\ x.count - n \in 0 .. x.count
      BY <1>1, <3>3, <3>4
    <3>8. Len(J[x.count - n]) \in Nat /\ Len(Part(x, x.count - n)) \in Nat
      BY <1>3, <3>7, LenProperties
    <3>9. Len(J[(x.count - n) + 1]) = Len(J[x.count - n]) + Len(Part(x, x.count - n))
      BY <1>3, <3>7
    <3>10. Len(J[(x.count - n) + 1]) <= x.size
      BY <3>6, <3>7
    <3>11. Len(J[x.count - n]) + Len(Part(x, x.count - n)) <= x.size
      BY <3>9, <3>10
    <3>12. Len(J[x.count - n]) <= x.size
      BY <1>1, <3>8, <3>11, LessIsAtMost
    <3> QED BY <3>3, <3>12
  <2>2. ASSUME NEW i \in 0 .. x.count PROVE Len(J[i]) <= x.size
    <3>1. x.count - i \in Nat /\ x.count - i <= x.count /\ x.count - (x.count - i) = i
      BY <1>1
    <3> QED BY <2>1, <3>1
  <2> QED BY <2>2
<1>6. \A i \in 0 .. x.count : \A m \in 1 .. Len(J[i]) : J[x.count][m] = J[i][m]
  <2> DEFINE Bad == {i \in Nat : i <= x.count /\ \E m \in 1 .. Len(J[x.count - i]) :
                                   J[x.count][m] # J[x.count - i][m]}
  <2>1. Bad = {}
    <3>1. SUFFICES ASSUME Bad # {} PROVE FALSE
      OBVIOUS
    <3>2. PICK n \in Bad : \A m \in Bad : n <= m
      BY <3>1, LeastNatural
    <3>3. n \in Nat /\ n <= x.count
      BY <3>2
    <3>4. PICK m \in 1 .. Len(J[x.count - n]) : J[x.count][m] # J[x.count - n][m]
      BY <3>2
    <3>5. n # 0
      BY <1>1, <3>4
    <3>6. n - 1 \in Nat /\ n - 1 <= x.count /\ n - 1 \notin Bad
      BY <1>1, <3>2, <3>3, <3>5
    <3> DEFINE i == x.count - n
    <3>7. i \in 0 .. x.count - 1 /\ x.count - (n - 1) = i + 1 /\ i \in Nat
          /\ i \in 0 .. x.count
      BY <1>1, <3>3, <3>5
    <3>8. \A l \in 1 .. Len(J[i + 1]) : J[x.count][l] = J[i + 1][l]
      BY <3>6, <3>7
    <3> HIDE DEF i
    <3>9. /\ J[i] \in Seq(Unit) /\ Part(x, i) \in Seq(Unit) /\ Len(J[i]) \in Nat /\ Len(Part(x, i)) \in Nat
          /\ J[i + 1] = J[i] \o Part(x, i) /\ Len(J[i + 1]) = Len(J[i]) + Len(Part(x, i))
      BY <1>3, <3>7, LenProperties
    <3>10. m \in 1 .. Len(J[i]) /\ J[x.count][m] # J[i][m]
      BY <3>4 DEF i
    <3>11. m \in 1 .. Len(J[i]) + Len(Part(x, i)) /\ m <= Len(J[i])
      BY <3>9, <3>10
    <3>12. J[i + 1][m] = J[i][m]
      BY <3>9, <3>11, ConcatProperties
    <3> QED BY <3>8, <3>9, <3>10, <3>11, <3>12
  <2>2. ASSUME NEW i \in 0 .. x.count PROVE \A m \in 1 .. Len(J[i]) : J[x.count][m] = J[i][m]
    <3>1. x.count - i \in Nat /\ x.count - i <= x.count /\ x.count - (x.count - i) = i
      BY <1>1
    <3> QED BY <2>1, <3>1
  <2> QED BY <2>2
<1>7. Spells(x.key, x.ver, x.count, x.size, J[x.count])
  <2> DEFINE s == [i \in 0 .. x.count |-> Len(J[i])]
  <2>1. s \in [0 .. x.count -> 0 .. x.size]
    <3>1. \A i \in 0 .. x.count : Len(J[i]) \in 0 .. x.size
      BY <1>1, <1>3, <1>5
    <3> QED BY <3>1
  <2>2. s[0] = 0 /\ s[x.count] = x.size /\ \A i \in 0 .. x.count : s[i] = Len(J[i])
    <3>1. 0 \in 0 .. x.count /\ x.count \in 0 .. x.count
      BY <1>1
    <3> QED BY <1>2, <1>3, <3>1
  <2> HIDE DEF s
  <2>3. ASSUME NEW y \in Stored, OfBlob(y, x.key, x.ver), y.index < x.count
        PROVE  /\ Len(y.data) = s[y.index + 1] - s[y.index]
               /\ \A j \in 1 .. Len(y.data) : y.data[j] = J[x.count][s[y.index] + j]
    <3>1. y \in ChunksIn /\ y.index \in Nat /\ Len(y.data) \in Nat
      BY <2>3, StoredFacts, ItemKinds DEF StoredFactsD, OfBlob, ChunksIn
    <3>2. Part(x, y.index) = y.data
      BY <2>3, <3>1, PartIs
    <3>3. y.index \in 0 .. x.count - 1 /\ y.index \in 0 .. x.count /\ y.index + 1 \in 0 .. x.count
      BY <1>1, <2>3, <3>1
    <3>4. /\ Len(J[y.index + 1]) = Len(J[y.index]) + Len(y.data)
          /\ J[y.index + 1] = J[y.index] \o y.data
          /\ J[y.index] \in Seq(Unit) /\ y.data \in Seq(Unit)
      BY <1>3, <3>1, <3>2, <3>3
    <3>5. Len(J[y.index]) \in Nat
      BY <1>3, <3>3
    <3>6. s[y.index] = Len(J[y.index]) /\ s[y.index + 1] = Len(J[y.index + 1])
      BY <2>2, <3>3
    <3>7. ASSUME NEW j \in 1 .. Len(y.data) PROVE y.data[j] = J[x.count][s[y.index] + j]
      <4> DEFINE m == Len(J[y.index]) + j
      <4>1. /\ m \in 1 .. Len(J[y.index]) + Len(y.data) /\ ~(m <= Len(J[y.index]))
            /\ m - Len(J[y.index]) = j
        BY <3>1, <3>5, PastTheEnd
      <4> HIDE DEF m
      <4>2. J[y.index + 1][m] = y.data[j]
        BY <3>4, <4>1, ConcatProperties
      <4>3. J[x.count][m] = J[y.index + 1][m]
        BY <1>6, <3>3, <3>4, <4>1
      <4> QED BY <3>6, <4>2, <4>3 DEF m
    <3>8. Len(y.data) = s[y.index + 1] - s[y.index]
      <4>1. Len(J[y.index + 1]) = Len(J[y.index]) + Len(y.data)
        BY <3>4
      <4>2. Len(y.data) = Len(J[y.index + 1]) - Len(J[y.index])
        BY <3>1, <3>5, <4>1, SumsAndRests
      <4> QED BY <3>6, <4>2
    <3> QED BY <3>7, <3>8
  <2> QED BY <2>1, <2>2, <2>3 DEF Spells
<1>8. J[x.count] \in Seq(Unit)
  BY <1>1, <1>3
<1> QED BY <1>2, <1>4, <1>7, <1>8 DEF Holds

LEMMA HoldsIsSized ==
  ASSUME NEW x, NEW d, Holds(x, d)
  PROVE  All(x.key, x.ver, 0, x.count) /\ Sized(x.key, x.ver, x.count, x.size)
BY DEF Holds, Spells, Sized

LEMMA IntactIsSized ==
  ASSUME FlashOK, Filled, Ordered, Copies \/ Freeing = {}, Distinct, NEW a \in Places, At(a).kind = "index",
         Intact(Blob[a])
  PROVE  /\ All(At(a).key, At(a).ver, 0, At(a).count)
         /\ Sized(At(a).key, At(a).ver, At(a).count, At(a).size)
BY IntactHolds, HoldsIsSized

\* What Clean says of the pages, and what is stored, are the same.
LEMMA CompleteIsClean ==
  ASSUME PagesInv, BlobsInv, Complete, Freeing = {}
  PROVE  Clean /\ \A k \in Keys : \A a \in Indexes(k) : ~Purged(Blob[a])
<1>1. FlashOK /\ Filled /\ Ordered /\ Distinct /\ RealPlaces = Places
  BY StoredFacts DEF PagesInv, TypeOK, BlobsInv, StoredFactsD
<1> SUFFICES ASSUME NEW k \in Keys
             PROVE  /\ \A a, b \in Indexes(k) : a = b
                    /\ \A a, b \in Chunks(k) : At(a).ver = At(b).ver /\ At(a).index = At(b).index => a = b
                    /\ \A a \in Chunks(k) : \E b \in IndexOf(k, At(a).ver) : At(a).index < At(b).count
                    /\ \A a \in Indexes(k) : Intact(Blob[a]) /\ ~Purged(Blob[a])
  BY DEF Clean
<1>2. ASSUME NEW a \in Indexes(k), NEW b \in Indexes(k) PROVE a = b
  <2>1. /\ a \in Places /\ At(a) \in IndexesIn /\ At(a).key = k
        /\ b \in Places /\ At(b) \in IndexesIn /\ At(b).key = k
    BY <1>1, Lookups
  <2>2. At(a) = At(b)
    BY <2>1 DEF Complete, Single
  <2>3. SameItem(At(a), At(b))
    BY <2>1, <2>2 DEF SameItem, IndexesIn
  <2> QED BY <1>1, <2>1, <2>3 DEF Distinct
<1>3. ASSUME NEW a \in Chunks(k), NEW b \in Chunks(k), At(a).ver = At(b).ver, At(a).index = At(b).index
      PROVE  a = b
  <2>1. /\ a \in Places /\ At(a) \in ChunksIn /\ At(a).key = k
        /\ b \in Places /\ At(b) \in ChunksIn /\ At(b).key = k
    BY <1>1, Lookups
  <2>2. SameItem(At(a), At(b))
    BY <1>3, <2>1 DEF SameItem, ChunksIn
  <2> QED BY <1>1, <2>1, <2>2 DEF Distinct
<1>4. ASSUME NEW a \in Chunks(k)
      PROVE  \E b \in IndexOf(k, At(a).ver) : At(a).index < At(b).count
  <2>1. a \in Places /\ At(a) \in ChunksIn /\ At(a).key = k
    BY <1>1, Lookups
  <2>2. PICK x \in IndexesIn : OfBlob(At(a), x.key, x.ver)
    BY <2>1 DEF Complete
  <2>3. PICK b \in IndexOf(x.key, x.ver) : At(b) = x
    BY <1>1, <2>2, Lookups
  <2>4. At(a).index < x.count
    BY <2>1, <2>2 DEF BlobsInv, Counts
  <2> QED BY <2>1, <2>2, <2>3, <2>4 DEF OfBlob
<1>5. ASSUME NEW a \in Indexes(k) PROVE Intact(Blob[a]) /\ ~Purged(Blob[a])
  <2>1. a \in Places /\ At(a) \in IndexesIn /\ At(a).kind = "index"
    BY <1>1, Lookups DEF IndexesIn
  <2>2. All(At(a).key, At(a).ver, 0, At(a).count) /\ Sized(At(a).key, At(a).ver, At(a).count, At(a).size)
    BY <2>1 DEF Complete, BlobsInv, Sizes
  <2> QED BY <1>1, <2>1, <2>2, SizedIsIntact
<1> QED BY <1>2, <1>3, <1>4, <1>5

LEMMA CleanIsComplete ==
  ASSUME PagesInv, Freeing = {}, Clean
  PROVE  Distinct /\ Copies /\ Counts /\ Sizes /\ Complete
<1>1. FlashOK /\ Filled /\ Ordered /\ RealPlaces = Places
  BY StoredFacts DEF PagesInv, TypeOK, StoredFactsD
<1>2. \A a \in Places : /\ At(a) \in Item /\ At(a).key \in Keys /\ At(a).kind \in {"index", "data"}
                        /\ At(a).kind = "index" => a \in Indexes(At(a).key)
                        /\ At(a).kind = "data" => a \in Chunks(At(a).key)
  BY <1>1, PlaceFacts, ItemKinds DEF PlaceFactsD, Indexes, Chunks
<1>3. Distinct
  <2>1. SUFFICES ASSUME NEW a \in Places, NEW b \in Places, SameItem(At(a), At(b)) PROVE a = b
    BY <1>1 DEF Distinct
  <2>2. CASE At(a).kind = "index"
    <3>1. a \in Indexes(At(a).key) /\ b \in Indexes(At(a).key) /\ At(a).key \in Keys
      BY <1>2, <2>1, <2>2 DEF SameItem
    <3> QED BY <3>1 DEF Clean
  <2>3. CASE At(a).kind = "data"
    BY <1>2, <2>1, <2>3 DEF SameItem, Clean
  <2> QED BY <1>2, <2>2, <2>3
<1>4. Copies
  BY DEF Copies, Freeing
<1>5. \A x \in Stored : \E a \in Places : At(a) = x
  BY <1>1 DEF Stored
<1>6. Single
  <2>1. SUFFICES ASSUME NEW x \in IndexesIn, NEW y \in IndexesIn, x.key = y.key PROVE x = y
    BY DEF Single
  <2>2. PICK a \in Places : At(a) = x
    BY <1>5 DEF IndexesIn
  <2>3. PICK b \in Places : At(b) = y
    BY <1>5 DEF IndexesIn
  <2>4. a \in Indexes(x.key) /\ b \in Indexes(x.key) /\ x.key \in Keys
    BY <1>2, <2>1, <2>2, <2>3 DEF IndexesIn
  <2> QED BY <2>2, <2>3, <2>4 DEF Clean
<1>7. ASSUME NEW y \in ChunksIn
      PROVE  \E x \in IndexesIn : OfBlob(y, x.key, x.ver) /\ y.index < x.count
  <2>1. PICK a \in Places : At(a) = y
    BY <1>5 DEF ChunksIn
  <2>2. a \in Chunks(y.key) /\ y.key \in Keys /\ y.kind = "data"
    BY <1>2, <2>1 DEF ChunksIn
  <2>3. PICK b \in IndexOf(y.key, y.ver) : y.index < At(b).count
    BY <2>1, <2>2 DEF Clean
  <2>4. At(b) \in IndexesIn /\ At(b).key = y.key /\ At(b).ver = y.ver
    BY <1>1, Lookups
  <2> QED BY <2>2, <2>3, <2>4 DEF OfBlob
<1>8. Counts
  <2>1. SUFFICES ASSUME NEW x \in IndexesIn, NEW y \in ChunksIn, OfBlob(y, x.key, x.ver)
                 PROVE  y.index < x.count
    BY DEF Counts
  <2>2. PICK z \in IndexesIn : OfBlob(y, z.key, z.ver) /\ y.index < z.count
    BY <1>7
  <2>3. z = x
    BY <1>6, <2>1, <2>2 DEF Single, OfBlob
  <2> QED BY <2>2, <2>3
<1>9. ASSUME NEW x \in IndexesIn
      PROVE  All(x.key, x.ver, 0, x.count) /\ Sized(x.key, x.ver, x.count, x.size)
  <2>1. PICK a \in Places : At(a) = x
    BY <1>5 DEF IndexesIn
  <2>2. Intact(Blob[a]) /\ At(a).kind = "index"
    BY <1>2, <2>1 DEF Clean, IndexesIn
  <2> QED BY <1>1, <1>3, <2>1, <2>2, IntactIsSized
<1> QED BY <1>3, <1>4, <1>6, <1>7, <1>8, <1>9 DEF Complete, Sizes

\* A mount that leaves the blobs clean makes good what a write left that was given up.
LEMMA BlobsOfCleanMount ==
  ASSUME PagesInv, EraseOrphans, gaveUp, ~gaveUp'
  PROVE  BlobsInv'
<1>1. /\ pc = "orphan" /\ pc' = "idle" /\ UNCHANGED flash /\ Clean /\ FlashOK
  BY DEF EraseOrphans, PagesInv, TypeOK
<1>2. Freeing = {}
  BY <1>1, NotMoving DEF Moves
<1>3. Distinct /\ Copies /\ Counts /\ Sizes /\ Complete
  BY <1>1, <1>2, CleanIsComplete
<1>4. RealPlaces' = RealPlaces /\ \A a \in RealPlaces : At(a)' = At(a)
  BY <1>1 DEF RealPlaces, Places, At, Items, Freeing, StateOf
<1>5. /\ Stored' = Stored /\ IndexesIn' = IndexesIn /\ ChunksIn' = ChunksIn
      /\ Distinct' /\ Counts' /\ Sizes' /\ Single'
      /\ \A k, v, m, n : All(k, v, m, n) => All(k, v, m, n)'
  BY <1>3, <1>4, SameBlobs DEF Complete
<1>6. FlashOK' /\ Copies'
  BY <1>1, <1>3 DEF FlashOK, PageType, Page, Copies, StateOf, Items
<1>7. Pairs'
  BY <1>5, <1>6, StoredThen DEF SinglePairsD
<1>8. Whole' /\ Owned'
  BY <1>3, <1>5 DEF Complete, Whole, Owned, OfBlob
<1>9. Begun' /\ Ended' /\ Untouched'
  BY <1>1 DEF Begun, Ended, Untouched, Storing, WritePcs, Moves
<1> QED BY <1>5, <1>6, <1>7, <1>8, <1>9 DEF BlobsInv

\* A read finds nothing to erase.
LEMMA NothingIsPurged ==
  ASSUME PagesInv, BlobsInv, BeginCall
  PROVE  pc' = "find"
<1>1. pc = "idle" /\ FlashOK /\ Filled /\ Ordered
  BY DEF BeginCall, PagesInv, TypeOK
<1>2. Freeing = {} /\ Complete
  BY <1>1, NotMoving, CompleteBlobs DEF Moves
<1>3. \A k \in Keys : \A a \in Indexes(k) : ~Purged(Blob[a])
  BY <1>2, CompleteIsClean
<1>4. \A k \in Keys : Indexes(k) # {} => Earliest(Indexes(k)) \in Indexes(k)
  BY <1>1, EarliestIn DEF Indexes
<1> QED BY <1>3, <1>4 DEF BeginCall

LEMMA BlobsStep ==
  ASSUME PagesInv, BlobsInv, ~gaveUp', Next
  PROVE  BlobsInv'
<1>1. ASSUME Mounting PROVE BlobsInv'
  BY <1>1, BlobsOfPowerOn, BlobsOfRepairPage, BlobsOfCheckLast,
     BlobsOfLoad, BlobsOfDropDuplicate, BlobsOfRecover,
     BlobsOfNothingToRecover, BlobsOfEraseMismatched, BlobsOfEraseOrphans DEF Mounting
<1>2. ASSUME Moving PROVE BlobsInv'
  <2>1. ~NoNewPage
    BY DEF NoNewPage, GiveUp
  <2> QED BY <1>2, <2>1, BlobsOfWriteMoves, BlobsOfCopy, BlobsOfReclaim DEF Moving
<1>3. ASSUME Writing PROVE BlobsInv'
  <2>1. ~NoRoom
    BY DEF NoRoom, GiveUp
  <2>2. ~CleanUp /\ ~CleanedUp
    BY DEF CleanUp, CleanedUp, BlobsInv, Untouched
  <2> QED BY <1>3, <2>1, <2>2, BlobsOfReturns, BlobsOfWriteFind, BlobsOfWriteMoves, BlobsOfWriteChunk,
             BlobsOfWriteIndex DEF Writing
<1>4. ASSUME Erasing PROVE BlobsInv'
  <2>1. ~Purge
    BY DEF Purge, BlobsInv, Untouched
  <2> QED BY <1>4, <2>1, BlobsOfEraseFind, BlobsOfReturns, BlobsOfEraseOldIndex, BlobsOfEraseOldChunk,
             BlobsOfEraseAll DEF Erasing
<1>5. ASSUME BeginCall PROVE BlobsInv'
  BY <1>5, NothingIsPurged, BlobsOfReturns
<1>6. ASSUME PowerLoss PROVE BlobsInv'
  BY <1>6, BlobsOfPowerLoss
<1> QED BY <1>1, <1>2, <1>3, <1>4, <1>5, <1>6 DEF Next, Step

\* Only a mount takes back that a write was given up.
LEMMA GivenUp ==
  ASSUME PagesInv, gaveUp, ~gaveUp', Next
  PROVE  EraseOrphans
BY DEF Next, Step, Mounting, Moving, Writing, Erasing, PowerOn, RepairPage, CheckLast, Load, DropDuplicate, Recover,
       NothingToRecover, EraseMismatched, EraseOrphans, TakeFreePage, StartFreeing, NoNewPage, Copy, Reclaim,
       GiveUp, WriteNothing, WriteFind, SkipPage, NoImprovement, NoRoom, WriteChunk, ClosePage, WriteIndex,
       CleanUp, CleanedUp, EraseFind, EraseMissing, EraseOldIndex, EraseOldChunk, Finish, EraseAll, Purge,
       Return, BeginCall, PowerLoss, ram, vars

LEMMA InitBlobs == Init => BlobsInv
<1>1. SUFFICES ASSUME Init PROVE BlobsInv
  OBVIOUS
<1>2. pc = "off" /\ \A p \in Page : StateOf(p) = "uninit" /\ Items(p) = <<>>
  BY <1>1 DEF Init, StateOf, Items, ErasedPage
<1>3. Places = {}
  BY <1>2 DEF Places
<1>4. RealPlaces = {} /\ Stored = {}
  BY <1>3 DEF RealPlaces, Stored
<1>5. IndexesIn = {} /\ ChunksIn = {}
  BY <1>4 DEF IndexesIn, ChunksIn
<1>6. Copies
  BY <1>2 DEF Copies
<1>7. Begun /\ Ended /\ Untouched
  BY <1>2 DEF Begun, Ended, Untouched, Storing, WritePcs, Moves
<1> QED BY <1>4, <1>5, <1>6, <1>7 DEF BlobsInv, Distinct, Pairs, Counts, Sizes, Whole, Owned

LEMMA StutteringBlobs == ASSUME BlobsInv, UNCHANGED vars PROVE BlobsInv'
<1>1. UNCHANGED <<flash, pc, op, loc>>
  BY DEF vars, ram
<1>2. /\ \A p : StateOf(p)' = StateOf(p) /\ Items(p)' = Items(p)
      /\ \A a : At(a)' = At(a)
      /\ Places' = Places /\ Freeing' = Freeing /\ Count' = Count
  BY <1>1 DEF StateOf, Items, At, Places, Freeing, Count
<1>3. RealPlaces' = RealPlaces
  BY <1>2 DEF RealPlaces
<1>4. /\ Stored' = Stored /\ IndexesIn' = IndexesIn /\ ChunksIn' = ChunksIn
      /\ Distinct' /\ Counts' /\ Sizes'
      /\ \A k, v, m, n : All(k, v, m, n) => All(k, v, m, n)'
      /\ \A k, v, m, n : Sized(k, v, m, n) => Sized(k, v, m, n)'
  BY <1>2, <1>3, SameBlobs DEF BlobsInv
<1>5. Copies'
  BY <1>2 DEF BlobsInv, Copies
<1>6. Pairs'
  BY <1>1, <1>2, <1>3 DEF BlobsInv, Pairs, PairAllowed, IsLast
<1>7. Unchecked' <=> Unchecked
  BY <1>1 DEF Unchecked
<1>8. Storing' <=> Storing
  BY <1>1 DEF Storing
<1>9. Whole'
  BY <1>1, <1>4, <1>7 DEF BlobsInv, Whole, Emptied
<1>10. Owned'
  BY <1>1, <1>4, <1>7, <1>8 DEF BlobsInv, Owned, Emptied, OfBlob
<1> PICK k : k = op.key
  OBVIOUS
<1> PICK v : v = loc.ver
  OBVIOUS
<1> PICK u : u = loc.prev
  OBVIOUS
<1> PICK n : n = Count
  OBVIOUS
<1> PICK w : w = loc.off
  OBVIOUS
<1> PICK i : i = loc.i
  OBVIOUS
<1> PICK c : c = loc.count
  OBVIOUS
<1>11. op'.key = k /\ loc'.ver = v /\ loc'.prev = u /\ Count' = n /\ loc'.off = w /\ loc'.i = i /\ loc'.count = c
  BY <1>1, <1>2
<1>12. Begun'
  <2>1. SUFFICES ASSUME Storing' PROVE Begun'
    BY DEF Begun
  <2>2. /\ \A x \in IndexesIn : x.key = k => x.ver = u
        /\ \A y \in ChunksIn : OfBlob(y, k, v) => y.index < n
        /\ All(k, v, 0, n) /\ Sized(k, v, n, w)
    BY <1>8, <2>1 DEF BlobsInv, Begun
  <2>3. All(k, v, 0, n)' /\ Sized(k, v, n, w)'
    BY <1>4, <2>2
  <2>4. (All(op.key, loc.ver, 0, Count))'
    BY <1>11, <2>3
  <2>5. (Sized(op.key, loc.ver, Count, loc.off))'
    BY <1>11, <2>3
  <2> QED BY <1>4, <1>11, <2>2, <2>4, <2>5 DEF Begun, OfBlob
<1>13. Ended'
  <2>1. SUFFICES ASSUME pc = "old_chunks" PROVE Ended'
    BY <1>1 DEF Ended
  <2>2. /\ i <= c
        /\ \A x \in IndexesIn : x.key = k => x.ver # u
        /\ \A y \in ChunksIn : OfBlob(y, k, u) => i <= y.index /\ y.index < c
        /\ All(k, u, i, c)
    BY <2>1 DEF BlobsInv, Ended
  <2>3. All(k, u, i, c)'
    BY <1>4, <2>2
  <2>4. (All(op.key, loc.prev, loc.i, loc.count))'
    BY <1>11, <2>3
  <2> QED BY <1>4, <1>11, <2>2, <2>4 DEF Ended, OfBlob
<1>14. Untouched'
  BY <1>1 DEF BlobsInv, Untouched
<1> QED BY <1>4, <1>5, <1>6, <1>9, <1>10, <1>12, <1>13, <1>14 DEF BlobsInv

\* The inductive invariant: of the pages always, of the blobs unless a write was given up in
\* the middle and no mount has left the blobs clean since.
THEOREM BlobInvariance == Spec => []IInv
<1>1. Init => IInv
  BY PagesInit, InitBlobs DEF IInv
<1>2. IInv /\ [Next]_vars => IInv'
  <2> SUFFICES ASSUME IInv, [Next]_vars PROVE IInv'
    OBVIOUS
  <2>1. PagesInv'
    BY PagesStep DEF IInv
  <2>2. CASE Next
    <3>1. ASSUME ~gaveUp' PROVE BlobsInv'
      <4>1. CASE ~gaveUp
        BY <2>2, <3>1, <4>1, BlobsStep DEF IInv
      <4>2. CASE gaveUp
        <5>1. EraseOrphans
          BY <2>2, <3>1, <4>2, GivenUp DEF IInv
        <5> QED BY <3>1, <4>2, <5>1, BlobsOfCleanMount DEF IInv
      <4> QED BY <4>1, <4>2
    <3> QED BY <2>1, <3>1 DEF IInv
  <2>3. CASE UNCHANGED vars
    <3>1. ~gaveUp' => BlobsInv'
      <4>1. ~gaveUp' => BlobsInv
        BY <2>3 DEF IInv, vars, ram
      <4>2. BlobsInv => BlobsInv'
        BY <2>3, StutteringBlobs
      <4> QED BY <4>1, <4>2
    <3> QED BY <2>1, <3>1 DEF IInv
  <2> QED BY <2>2, <2>3
<1> QED BY <1>1, <1>2, PTL DEF Spec

\* Between calls every chunk on flash is counted by exactly one index and every index has
\* exactly the chunks it counts, in the length it says, unless a write was given up in the
\* middle (writeMultiPageBlob) and no mount has cleaned up after it; and no page is ever
\* overfilled (Page::writeItem).
THEOREM BlobsAreClean == Spec => []CleanWhenIdle
<1>1. IInv => CleanWhenIdle
  <2> SUFFICES ASSUME IInv PROVE CleanWhenIdle
    OBVIOUS
  <2>1. \A p \in Page : NextFree(p) <= EntryCount
    BY DEF IInv, PagesInv, Filled
  <2>2. ASSUME pc = "idle", ~gaveUp PROVE Clean
    <3>1. PagesInv /\ BlobsInv
      BY <2>2 DEF IInv
    <3>2. Freeing = {} /\ Complete
      BY <2>2, <3>1, NotMoving, CompleteBlobs DEF Moves
    <3> QED BY <3>1, <3>2, CompleteIsClean
  <2> QED BY <2>1, <2>2 DEF CleanWhenIdle
<1> QED BY <1>1, BlobInvariance, PTL

-----------------------------------------------------------------------------
(* What a key reads as, in terms of what is stored.                        *)

\* Of two indexes of a key, the one written last.
Newest(x) ==
  \A y \in IndexesIn : y.key = x.key => y = x \/ \E a \in RealPlaces : IsLast(a) /\ At(a) = x
Reads(k, d) == \E x \in IndexesIn : x.key = k /\ Newest(x) /\ Holds(x, d)

PairsKnown ==
  \A a, b \in RealPlaces :
    At(a).kind = "index" /\ At(b).kind = "index" /\ At(a).key = At(b).key => a = b \/ IsLast(a) \/ IsLast(b)
Readable == FlashOK /\ Filled /\ Ordered /\ Distinct /\ Copies /\ PairsKnown

LEMMA LatestIn ==
  ASSUME FlashOK, Filled, Ordered, NEW S, S \subseteq Places, S # {}
  PROVE  Latest(S) \in S /\ \A b \in S \ {Latest(S)} : Before(b, Latest(S))
<1> DEFINE T == {flash[a[1]].seq : a \in S}
<1>1. \A a \in S : a[1] \in Page /\ a[1] \in InUse /\ flash[a[1]].seq \in Nat
  BY PlaceFacts, PlacesAreInUse, PageFacts DEF PlaceFactsD, PlacesAreInUseD, PageFactsD
<1>2. PICK n \in T : \A m \in T : m <= n
  <2>1. T \subseteq Nat /\ T # {}
    BY <1>1
  <2>2. PICK b \in Nat : \A p \in Page : flash[p].seq <= b
    BY NumbersAreBounded
  <2>3. \A m \in T : m <= b
    BY <1>1, <2>2
  <2> QED BY <2>1, <2>3, GreatestNatural
<1>3. PICK b \in S : n = flash[b[1]].seq
  OBVIOUS
<1> DEFINE U == {a[2] : a \in {c \in S : c[1] = b[1]}}
<1>4. PICK i \in U : \A j \in U : j <= i
  <2>1. U \subseteq Nat /\ \A j \in U : j <= Len(Items(b[1]))
    BY PlaceFacts DEF PlaceFactsD
  <2>2. b[2] \in U
    OBVIOUS
  <2>3. Len(Items(b[1])) \in Nat
    BY <1>1, PageFacts DEF PageFactsD
  <2> HIDE DEF U
  <2> QED BY <2>1, <2>2, <2>3, GreatestNatural
<1>5. PICK a \in S : a[1] = b[1] /\ a[2] = i
  OBVIOUS
<1>6. ASSUME NEW c \in S \ {a} PROVE Before(c, a)
  <2>1. flash[c[1]].seq <= flash[a[1]].seq
    BY <1>2, <1>3, <1>5
  <2>2. CASE a[1] = c[1]
    <3>1. c[2] <= a[2] /\ a[2] \in Nat /\ c[2] \in Nat
      BY <1>4, <1>5, <2>2, PlaceFacts DEF PlaceFactsD
    <3>2. a[2] # c[2]
      <4>1. a = <<a[1], a[2]>> /\ c = <<c[1], c[2]>>
        BY PlaceFacts DEF PlaceFactsD
      <4> QED BY <2>2, <4>1
    <3> QED BY <2>2, <3>1, <3>2 DEF Before
  <2>3. CASE a[1] # c[1]
    <3>1. flash[a[1]].seq # flash[c[1]].seq
      BY <1>1, <2>3 DEF Ordered
    <3> QED BY <1>1, <2>1, <3>1 DEF Before
  <2> QED BY <2>2, <2>3
<1> QED BY <1>6 DEF Latest

\* There is one last item.
LEMMA OneIsLast ==
  ASSUME FlashOK, Filled, Ordered, NEW a \in Places, NEW b \in Places, IsLast(a), IsLast(b)
  PROVE  a = b
<1>1. /\ a = <<a[1], a[2]>> /\ b = <<b[1], b[2]>>
      /\ a[1] \in InUse /\ b[1] \in InUse /\ a[1] \in Page /\ b[1] \in Page
      /\ flash[a[1]].seq \in Nat /\ flash[b[1]].seq \in Nat
  BY PlaceFacts, PlacesAreInUse, PageFacts DEF PlaceFactsD, PlacesAreInUseD, PageFactsD
<1>2. flash[a[1]].seq <= flash[b[1]].seq /\ flash[b[1]].seq <= flash[a[1]].seq
  BY <1>1 DEF Ordered, IsLast
<1>3. a[1] = b[1]
  BY <1>1, <1>2 DEF Ordered
<1> QED BY <1>1, <1>3 DEF IsLast

\* The last item comes after all others.
LEMMA LastIsLatest ==
  ASSUME FlashOK, Filled, Ordered, NEW a \in Places, NEW b \in Places, IsLast(a)
  PROVE  ~Before(a, b)
<1>1. /\ a[1] \in InUse /\ b[1] \in InUse /\ a[1] \in Page /\ b[1] \in Page
      /\ flash[a[1]].seq \in Nat /\ flash[b[1]].seq \in Nat
      /\ a[2] \in Nat /\ b[2] \in 1 .. Len(Items(b[1])) /\ b[2] \in Nat
  BY PlaceFacts, PlacesAreInUse, PageFacts DEF PlaceFactsD, PlacesAreInUseD, PageFactsD
<1>2. flash[b[1]].seq <= flash[a[1]].seq
  BY <1>1 DEF Ordered, IsLast
<1>3. a[1] = b[1] => b[2] <= a[2]
  BY <1>1 DEF IsLast
<1> QED BY <1>1, <1>2, <1>3 DEF Before

LEMMA LatestIsNewest ==
  ASSUME Readable, NEW k, Indexes(k) # {}
  PROVE  /\ Latest(Indexes(k)) \in Places /\ At(Latest(Indexes(k))) \in IndexesIn
         /\ At(Latest(Indexes(k))).key = k /\ Newest(At(Latest(Indexes(k))))
<1>1. FlashOK /\ Filled /\ Ordered /\ Distinct /\ Copies
  BY DEF Readable
<1> DEFINE S == Indexes(k)
<1>2. S \subseteq Places /\ \A b \in S : At(b) \in IndexesIn /\ At(b).key = k
  BY <1>1, Lookups
<1> PICK a : a = Latest(S)
  OBVIOUS
<1>3. \A b \in Places : At(b).kind = "index" /\ At(b).key = k => b \in S
  BY DEF Indexes
<1> HIDE DEF S
<1>4. a \in S /\ \A b \in S \ {a} : Before(b, a)
  <2>1. S # {}
    BY DEF S
  <2> QED BY <1>1, <1>2, <2>1, LatestIn
<1>5. a \in Places /\ At(a) \in IndexesIn /\ At(a).key = k
  BY <1>2, <1>4
<1>6. Newest(At(a))
  <2> SUFFICES ASSUME NEW y \in IndexesIn, y.key = k, y # At(a)
               PROVE  \E c \in RealPlaces : IsLast(c) /\ At(c) = At(a)
    BY <1>5 DEF Newest
  <2>1. PICK c \in RealPlaces : At(c) = At(a)
    BY <1>1, <1>5, StoredFacts DEF StoredFactsD, IndexesIn
  <2>2. PICK b \in RealPlaces : At(b) = y
    BY <1>1, StoredFacts DEF StoredFactsD, IndexesIn
  <2>3. IsLast(c) \/ IsLast(b)
    BY <1>5, <2>1, <2>2 DEF Readable, PairsKnown, IndexesIn
  <2>4. ASSUME IsLast(b) PROVE FALSE
    <3>1. b \in Places /\ b \in S
      BY <1>3, <2>2 DEF RealPlaces, IndexesIn
    <3>2. b # a
      BY <2>2
    <3>3. Before(b, a)
      BY <1>4, <3>1, <3>2
    <3> QED BY <1>1, <1>5, <2>4, <3>1, <3>3, LastIsLatest
  <2> QED BY <2>1, <2>3, <2>4
<1> QED BY <1>5, <1>6 DEF S

LEMMA NewestIsOne ==
  ASSUME FlashOK, Filled, Ordered, NEW x \in IndexesIn, NEW y \in IndexesIn, x.key = y.key, Newest(x), Newest(y)
  PROVE  x = y
<1>1. SUFFICES ASSUME x # y PROVE FALSE
  OBVIOUS
<1>2. PICK a \in RealPlaces : IsLast(a) /\ At(a) = x
  BY <1>1 DEF Newest
<1>3. PICK b \in RealPlaces : IsLast(b) /\ At(b) = y
  BY <1>1 DEF Newest
<1>4. a = b
  BY <1>2, <1>3, OneIsLast DEF RealPlaces
<1> QED BY <1>1, <1>2, <1>3, <1>4

\* Content is what is read of the newest index.
ContentReadsD ==
  Readable =>
    \A k \in Keys : /\ \A d : Reads(k, d) => Content[k] = d
                    /\ (\A d : ~Reads(k, d)) => Content[k] = None
                    /\ Indexes(k) = {} => \A d : ~Reads(k, d)
LEMMA ContentReads == ContentReadsD
<1> SUFFICES ASSUME Readable, NEW k \in Keys
             PROVE  /\ \A d : Reads(k, d) => Content[k] = d
                    /\ (\A d : ~Reads(k, d)) => Content[k] = None
                    /\ Indexes(k) = {} => \A d : ~Reads(k, d)
  BY DEF ContentReadsD
<1>1. FlashOK /\ Filled /\ Ordered /\ Distinct /\ Copies
  BY DEF Readable
<1>2. CASE Indexes(k) = {}
  <2>1. Content[k] = None
    BY <1>2 DEF Content
  <2>2. \A x \in IndexesIn : x.key # k
    BY <1>1, <1>2, Lookups DEF IndexOf
  <2> QED BY <2>1, <2>2 DEF Reads
<1>3. CASE Indexes(k) # {}
  <2> PICK a : a = Latest(Indexes(k))
    OBVIOUS
  <2> PICK x : x = At(a)
    OBVIOUS
  <2>1. a \in Places /\ x \in IndexesIn /\ x.key = k /\ Newest(x) /\ x.kind = "index"
    BY <1>3, LatestIsNewest DEF IndexesIn
  <2>2. Content[k] = IF Intact(Blob[a]) THEN Blob[a].data ELSE None
    BY <1>3 DEF Content
  <2>3. ASSUME NEW d, Reads(k, d) PROVE Content[k] = d
    <3>1. PICK y \in IndexesIn : y.key = k /\ Newest(y) /\ Holds(y, d)
      BY <2>3 DEF Reads
    <3>2. y = x
      BY <1>1, <2>1, <3>1, NewestIsOne
    <3>3. Intact(Blob[a]) /\ Blob[a].data = d
      BY <1>1, <2>1, <3>1, <3>2, HoldsIsRead
    <3> QED BY <2>2, <3>3
  <2>4. ASSUME \A d : ~Reads(k, d) PROVE ~Intact(Blob[a])
    <3>1. ASSUME Intact(Blob[a]) PROVE Holds(x, Blob[a].data)
      BY <1>1, <2>1, <3>1, IntactHolds
    <3> QED BY <2>1, <2>4, <3>1 DEF Reads
  <2> QED BY <1>3, <2>2, <2>3, <2>4
<1> QED BY <1>2, <1>3

LEMMA ContentReadsThen == ContentReadsD'
BY ContentReads, PTL

LEMMA SameReads ==
  ASSUME Readable, Readable', NEW k \in Keys, \A d : Reads(k, d) <=> Reads(k, d)'
  PROVE  Content'[k] = Content[k]
<1>1. /\ \A d : Reads(k, d) => Content[k] = d
      /\ (\A d : ~Reads(k, d)) => Content[k] = None
  BY ContentReads DEF ContentReadsD
<1>2. /\ \A d : Reads(k, d)' => Content'[k] = d
      /\ (\A d : ~Reads(k, d)') => Content'[k] = None
  BY ContentReadsThen DEF ContentReadsD
<1> QED BY <1>1, <1>2

LEMMA SameContent ==
  ASSUME \A k \in Keys : Content'[k] = Content[k]
  PROVE  Content' = Content
<1>1. Content = [k \in Keys |-> Content[k]]
  BY DEF Content
<1>2. Content' = [k \in Keys |-> Content'[k]]
  BY DEF Content
<1> QED BY <1>1, <1>2

ReadableNowD == PagesInv /\ BlobsInv => Readable
LEMMA ReadableNow == ReadableNowD
<1> SUFFICES ASSUME PagesInv, BlobsInv PROVE PairsKnown
  BY DEF ReadableNowD, Readable, PagesInv, TypeOK, BlobsInv
<1> QED BY DEF BlobsInv, Pairs, PairAllowed, PairsKnown

LEMMA ReadableThen == ReadableNowD'
BY ReadableNow, PTL

\* The newest index of a key decides what it reads as.
NewestReadsD ==
  Readable =>
    /\ \A x \in IndexesIn : Newest(x) =>
         /\ x.key \in Keys
         /\ \A d : Holds(x, d) => Content[x.key] = d
         /\ (\A d : ~Holds(x, d)) => Content[x.key] = None
    /\ \A k \in Keys : (\A x \in IndexesIn : x.key # k) => Content[k] = None
LEMMA NewestReads == NewestReadsD
<1> SUFFICES ASSUME Readable
             PROVE  /\ \A x \in IndexesIn : Newest(x) =>
                         /\ x.key \in Keys
                         /\ \A d : Holds(x, d) => Content[x.key] = d
                         /\ (\A d : ~Holds(x, d)) => Content[x.key] = None
                    /\ \A k \in Keys : (\A x \in IndexesIn : x.key # k) => Content[k] = None
  BY DEF NewestReadsD
<1>1. FlashOK /\ Filled /\ Ordered
  BY DEF Readable
<1>2. \A k \in Keys : /\ \A d : Reads(k, d) => Content[k] = d
                      /\ (\A d : ~Reads(k, d)) => Content[k] = None
  BY ContentReads DEF ContentReadsD
<1>3. ASSUME NEW x \in IndexesIn, Newest(x)
      PROVE  x.key \in Keys /\ \A d : Reads(x.key, d) <=> Holds(x, d)
  <2>1. x.key \in Keys
    BY <1>1, StoredFacts, ItemKinds DEF StoredFactsD, IndexesIn
  <2>2. ASSUME NEW d, Reads(x.key, d) PROVE Holds(x, d)
    <3>1. PICK y \in IndexesIn : y.key = x.key /\ Newest(y) /\ Holds(y, d)
      BY <2>2 DEF Reads
    <3>2. y = x
      BY <1>1, <1>3, <3>1, NewestIsOne
    <3> QED BY <3>1, <3>2
  <2> QED BY <1>3, <2>1, <2>2 DEF Reads
<1>4. ASSUME NEW k \in Keys, \A x \in IndexesIn : x.key # k PROVE Content[k] = None
  <2>1. \A d : ~Reads(k, d)
    BY <1>4 DEF Reads
  <2> QED BY <1>2, <2>1
<1> QED BY <1>2, <1>3, <1>4

LEMMA NewestReadsThen == NewestReadsD'
BY NewestReads, PTL

\* A blob holds the same while its chunks stay.
LEMMA SameHolds ==
  ASSUME NEW x, \A y : OfBlob(y, x.key, x.ver) => (y \in Stored <=> y \in Stored'), NEW d
  PROVE  Holds(x, d) <=> Holds(x, d)'
<1>1. All(x.key, x.ver, 0, x.count) <=> All(x.key, x.ver, 0, x.count)'
  BY DEF All
<1>2. Spells(x.key, x.ver, x.count, x.size, d) <=> Spells(x.key, x.ver, x.count, x.size, d)'
  BY DEF Spells
<1> QED BY <1>1, <1>2 DEF Holds

LEMMA ReadsAsBefore ==
  ASSUME Readable, Readable', NEW x \in IndexesIn, x \in IndexesIn', Newest(x), Newest(x)',
         \A y : OfBlob(y, x.key, x.ver) => (y \in Stored <=> y \in Stored')
  PROVE  Content'[x.key] = Content[x.key]
<1>1. \A d : Holds(x, d) <=> Holds(x, d)'
  BY SameHolds
<1>2. /\ \A d : Holds(x, d) => Content[x.key] = d
      /\ (\A d : ~Holds(x, d)) => Content[x.key] = None
  BY NewestReads DEF NewestReadsD
<1>3. /\ \A d : Holds(x, d)' => Content'[x.key] = d
      /\ (\A d : ~Holds(x, d)') => Content'[x.key] = None
  BY NewestReadsThen DEF NewestReadsD
<1> QED BY <1>1, <1>2, <1>3

OnlyIsNewestD == \A x \in IndexesIn : (\A y \in IndexesIn : y.key = x.key => y = x) => Newest(x)
LEMMA OnlyIsNewest == OnlyIsNewestD /\ OnlyIsNewestD'
<1>1. OnlyIsNewestD
  BY DEF OnlyIsNewestD, Newest
<1> QED BY <1>1, PTL

\* A key that has one index at most reads as before while that index and its chunks stay.
LEMMA OnlyStays ==
  ASSUME Readable, Readable', NEW k \in Keys,
         \A x, y \in IndexesIn : x.key = k /\ y.key = k => x = y,
         \A x : x.key = k => (x \in IndexesIn <=> x \in IndexesIn'),
         \A x \in IndexesIn : \A y : x.key = k /\ OfBlob(y, x.key, x.ver) => (y \in Stored <=> y \in Stored')
  PROVE  Content'[k] = Content[k]
<1>1. CASE \A x \in IndexesIn : x.key # k
  <2>1. Content[k] = None
    BY <1>1, NewestReads DEF NewestReadsD
  <2>2. \A x \in IndexesIn' : x.key # k
    BY <1>1
  <2>3. Content'[k] = None
    BY <2>2, NewestReadsThen DEF NewestReadsD
  <2> QED BY <2>1, <2>3
<1>2. CASE \E x \in IndexesIn : x.key = k
  <2>1. PICK x \in IndexesIn : x.key = k
    BY <1>2
  <2>2. x \in IndexesIn'
    BY <2>1
  <2>3. Newest(x)
    BY <2>1, OnlyIsNewest DEF OnlyIsNewestD
  <2>4. \A y \in IndexesIn' : y.key = x.key => y = x
    BY <2>1
  <2>5. Newest(x)'
    BY <2>2, <2>4, OnlyIsNewest DEF OnlyIsNewestD
  <2>6. \A y : OfBlob(y, x.key, x.ver) => (y \in Stored <=> y \in Stored')
    BY <2>1
  <2>7. Content'[x.key] = Content[x.key]
    BY <2>1, <2>2, <2>3, <2>5, <2>6, ReadsAsBefore
  <2> QED BY <2>1, <2>7
<1> QED BY <1>1, <1>2

LEMMA BlobsAsBefore ==
  ASSUME Readable, Readable', Single, IndexesIn' = IndexesIn,
         \A x \in IndexesIn : \A y : OfBlob(y, x.key, x.ver) => (y \in Stored <=> y \in Stored')
  PROVE  Content' = Content
<1>1. ASSUME NEW k \in Keys PROVE Content'[k] = Content[k]
  <2>1. \A x, y \in IndexesIn : x.key = k /\ y.key = k => x = y
    BY DEF Single
  <2> QED BY <2>1, OnlyStays
<1> QED BY <1>1, SameContent

LEMMA StoredStaysRead ==
  ASSUME Readable, Readable', StoredStays
  PROVE  Content' = Content
<1>1. Single /\ IndexesIn' = IndexesIn /\ ChunksIn' = ChunksIn
  BY DEF StoredStays
<1>2. \A y, k, v : OfBlob(y, k, v) => (y \in Stored <=> y \in Stored')
  BY <1>1 DEF OfBlob, ChunksIn
<1> QED BY <1>1, <1>2, BlobsAsBefore

LEMMA FlashStaysRead ==
  ASSUME Readable, Readable', UNCHANGED flash
  PROVE  Content' = Content
<1>1. /\ RealPlaces' = RealPlaces /\ \A a : At(a)' = At(a)
      /\ \A a : IsLast(a)' <=> IsLast(a)
  BY DEF RealPlaces, Places, Items, StateOf, Freeing, At, IsLast
<1>2. Stored' = Stored
  BY <1>1 DEF Stored
<1>3. IndexesIn' = IndexesIn
  BY <1>2 DEF IndexesIn
<1>4. ASSUME NEW k \in Keys PROVE Content'[k] = Content[k]
  <2>1. ASSUME NEW x \in IndexesIn PROVE Newest(x) <=> Newest(x)'
    BY <1>1, <1>3 DEF Newest
  <2>2. ASSUME NEW x, NEW d PROVE Holds(x, d) <=> Holds(x, d)'
    BY <1>2, SameHolds
  <2>3. \A d : Reads(k, d) <=> Reads(k, d)'
    BY <1>3, <2>1, <2>2 DEF Reads
  <2> QED BY <2>3, SameReads
<1> QED BY <1>4, SameContent

\* Of two indexes of a key the earlier is erased: nothing reads differently.
LEMMA OldIndexErased ==
  ASSUME Readable, Readable', NEW a \in RealPlaces, IsLast(a), At(a).kind = "index",
         NEW o \in IndexesIn, o.key = At(a).key, o # At(a), Stored' = Stored \ {o}
  PROVE  Content' = Content
<1>1. FlashOK /\ Filled /\ Ordered /\ PairsKnown
  BY DEF Readable
<1> PICK x : x = At(a)
  OBVIOUS
<1>2. x \in IndexesIn /\ x # o /\ o.key = x.key
  BY <1>1, StoredFacts DEF StoredFactsD, IndexesIn
<1>3. IndexesIn' = IndexesIn \ {o} /\ \A y, k, v : OfBlob(y, k, v) => (y \in Stored <=> y \in Stored')
  BY DEF IndexesIn, OfBlob
<1>4. ASSUME NEW y \in IndexesIn, NEW z \in IndexesIn, y.key = z.key, y # z PROVE y = x \/ z = x
  <2>1. PICK b \in RealPlaces : At(b) = y
    BY <1>1, StoredFacts DEF StoredFactsD, IndexesIn
  <2>2. PICK c \in RealPlaces : At(c) = z
    BY <1>1, StoredFacts DEF StoredFactsD, IndexesIn
  <2>3. IsLast(b) \/ IsLast(c)
    BY <1>1, <1>4, <2>1, <2>2 DEF PairsKnown, IndexesIn
  <2> QED BY <1>1, <2>1, <2>2, <2>3, OneIsLast DEF RealPlaces
<1>5. Content'[x.key] = Content[x.key]
  <2>1. Newest(x)
    BY DEF Newest
  <2>2. \A y \in IndexesIn' : y.key = x.key => y = x
    BY <1>2, <1>3, <1>4
  <2>3. x \in IndexesIn' /\ Newest(x)'
    <3>1. x \in IndexesIn'
      BY <1>2, <1>3
    <3> QED BY <2>2, <3>1, OnlyIsNewest DEF OnlyIsNewestD
  <2> QED BY <1>2, <1>3, <2>1, <2>3, ReadsAsBefore
<1>6. ASSUME NEW k \in Keys, k # x.key PROVE Content'[k] = Content[k]
  <2>1. \A y, z \in IndexesIn : y.key = k /\ z.key = k => y = z
    BY <1>4, <1>6
  <2>2. \A y : y.key = k => (y \in IndexesIn <=> y \in IndexesIn')
    BY <1>2, <1>3, <1>6
  <2> QED BY <1>3, <2>1, <2>2, OnlyStays
<1> QED BY <1>5, <1>6, SameContent

-----------------------------------------------------------------------------
(* What populateBlobIndices observes of a blob that is there.              *)

\* The offsets s of n pieces that fill 1 .. m.
Splits(s, n, m) ==
  /\ n \in Nat /\ m \in Nat /\ s \in [0 .. n -> 0 .. m] /\ s[0] = 0 /\ s[n] = m
  /\ \A i \in 0 .. n - 1 : s[i] <= s[i + 1]

LEMMA SplitsRise ==
  ASSUME NEW s, NEW n, NEW m, Splits(s, n, m), NEW i \in 0 .. n, NEW j \in 0 .. n, i <= j
  PROVE  s[i] <= s[j]
<1> DEFINE Bad == {l \in 0 .. n : i <= l /\ ~(s[i] <= s[l])}
<1>1. n \in Nat /\ m \in Nat /\ \A l \in 0 .. n : s[l] \in 0 .. m /\ s[l] \in Nat
  BY DEF Splits
<1>2. Bad = {}
  <2>1. SUFFICES ASSUME Bad # {} PROVE FALSE
    OBVIOUS
  <2>2. Bad \subseteq Nat
    OBVIOUS
  <2>3. PICK l \in Bad : \A k \in Bad : l <= k
    BY <2>1, <2>2, LeastNatural
  <2>4. l \in 0 .. n /\ i <= l /\ ~(s[i] <= s[l]) /\ l # i
    BY <1>1, <2>3
  <2>5. l - 1 \in 0 .. n - 1 /\ l - 1 \in 0 .. n /\ i <= l - 1 /\ (l - 1) + 1 = l /\ ~(l <= l - 1)
    BY <1>1, <2>4
  <2>6. l - 1 \notin Bad
    BY <2>3, <2>5
  <2>7. s[i] <= s[l - 1]
    BY <2>5, <2>6
  <2>8. s[l - 1] <= s[l]
    BY <2>5 DEF Splits
  <2> QED BY <1>1, <2>4, <2>5, <2>7, <2>8
<1> QED BY <1>2

LEMMA SplitsCover ==
  ASSUME NEW s, NEW n, NEW m, Splits(s, n, m), NEW z \in 1 .. m
  PROVE  \E i \in 0 .. n - 1 : z - s[i] \in 1 .. s[i + 1] - s[i] /\ s[i] + (z - s[i]) = z
<1> DEFINE Good == {l \in 0 .. n : z <= s[l]}
<1>1. n \in Nat /\ m \in Nat /\ \A l \in 0 .. n : s[l] \in 0 .. m /\ s[l] \in Nat
  BY DEF Splits
<1>2. n \in Good /\ 0 \notin Good
  BY <1>1 DEF Splits
<1>3. Good \subseteq Nat /\ Good # {}
  BY <1>2
<1>4. PICK l \in Good : \A k \in Good : l <= k
  BY <1>3, LeastNatural
<1>5. l \in 0 .. n /\ z <= s[l] /\ l # 0
  BY <1>2, <1>4
<1>6. l - 1 \in 0 .. n - 1 /\ l - 1 \in 0 .. n /\ (l - 1) + 1 = l /\ ~(l <= l - 1)
  BY <1>1, <1>5
<1>7. ~(z <= s[l - 1])
  BY <1>4, <1>6
<1>8. z - s[l - 1] \in 1 .. s[(l - 1) + 1] - s[l - 1] /\ s[l - 1] + (z - s[l - 1]) = z
  BY <1>1, <1>5, <1>6, <1>7
<1> QED BY <1>6, <1>8

LEMMA ObservedFacts ==
  ASSUME FlashOK, Filled, Freeing = {}, Distinct, Counts, NEW x \in IndexesIn
  PROVE  /\ x.count \in Nat /\ x.size \in Nat
         /\ \A a \in Observed(x) :
              /\ At(a) \in ChunksIn /\ OfBlob(At(a), x.key, x.ver) /\ At(a).index \in 0 .. x.count - 1
              /\ Len(At(a).data) \in Nat /\ Len(At(a).data) <= EntryCount
         /\ \A a, b \in Observed(x) : At(a).index = At(b).index => a = b
         /\ \A y \in ChunksIn : OfBlob(y, x.key, x.ver) => \E a \in Observed(x) : At(a) = y
<1>1. x.count \in Nat /\ x.size \in Nat
  BY StoredFacts, ItemKinds DEF StoredFactsD, IndexesIn
<1>2. ASSUME NEW a \in Observed(x)
      PROVE  /\ a \in RealPlaces /\ At(a) \in ChunksIn /\ OfBlob(At(a), x.key, x.ver)
             /\ At(a).index \in 0 .. x.count - 1
             /\ Len(At(a).data) \in Nat /\ Len(At(a).data) <= EntryCount
  <2>1. a \in Chunks(x.key) /\ At(a).ver = x.ver
    BY DEF Observed
  <2>2. a \in Places /\ At(a) \in ChunksIn /\ OfBlob(At(a), x.key, x.ver)
    BY <2>1, Lookups DEF OfBlob, ChunksIn
  <2>3. At(a).index < x.count
    BY <2>2 DEF Counts
  <2>4. At(a).index \in Nat /\ Len(At(a).data) \in Nat
    BY <2>2, StoredFacts, ItemKinds DEF StoredFactsD, ChunksIn
  <2>5. Span(At(a)) <= EntryCount
    BY <2>2, PlaceFacts DEF PlaceFactsD, Filled
  <2>6. Len(At(a).data) <= EntryCount
    BY <2>2, <2>4, <2>5, SizeAssumption DEF Span, ChunksIn
  <2> QED BY <1>1, <2>2, <2>3, <2>4, <2>6, StoredFacts DEF StoredFactsD
<1>3. \A a, b \in Observed(x) : At(a).index = At(b).index => a = b
  BY <1>2 DEF Distinct, SameItem, OfBlob
<1>4. \A y \in ChunksIn : OfBlob(y, x.key, x.ver) => \E a \in Observed(x) : At(a) = y
  BY Lookups DEF Observed, OfBlob
<1> QED BY <1>1, <1>2, <1>3, <1>4

LEMMA ObservedCount ==
  ASSUME FlashOK, Filled, Freeing = {}, Distinct, Counts, NEW x \in IndexesIn, All(x.key, x.ver, 0, x.count)
  PROVE  Cardinality(Observed(x)) = x.count
<1> DEFINE O == Observed(x)
           N == 0 .. x.count - 1
           f == [a \in O |-> At(a).index]
<1>1. /\ x.count \in Nat
      /\ \A a \in O : At(a).index \in N
      /\ \A a, b \in O : At(a).index = At(b).index => a = b
      /\ \A y \in ChunksIn : OfBlob(y, x.key, x.ver) => \E a \in O : At(a) = y
  BY ObservedFacts
<1>2. IsFiniteSet(N) /\ Cardinality(N) = x.count
  <2>1. 0 \in Int /\ x.count - 1 \in Int
    BY <1>1
  <2>2. IsFiniteSet(N) /\ Cardinality(N) = IF 0 <= x.count - 1 THEN x.count - 1 - 0 + 1 ELSE 0
    BY <2>1, FS_Interval
  <2> QED BY <1>1, <2>2
<1>3. ASSUME NEW i \in N PROVE \E a \in O : At(a).index = i
  <2>1. PICK y \in Stored : OfBlob(y, x.key, x.ver) /\ y.index = i
    BY DEF All
  <2>2. y \in ChunksIn
    BY <2>1 DEF OfBlob, ChunksIn
  <2> QED BY <1>1, <2>1, <2>2
<1> HIDE DEF O, N
<1>4. f \in Injection(O, N) /\ f \in Surjection(O, N)
  BY <1>1, <1>3 DEF Injection, IsInjective, Surjection
<1> HIDE DEF f
<1>5. Cardinality(O) = Cardinality(N)
  BY <1>2, <1>4, FS_Injection
<1> QED BY <1>2, <1>5 DEF O

LEMMA ObservedSize ==
  ASSUME FlashOK, Filled, Freeing = {}, Distinct, Counts, NEW x \in IndexesIn,
         All(x.key, x.ver, 0, x.count), Sized(x.key, x.ver, x.count, x.size)
  PROVE  SizeOf(Observed(x)) = x.size
<1> DEFINE O == Observed(x)
           E == {e \in O \X (1 .. EntryCount) : e[2] <= Len(At(e[1]).data)}
           N == 1 .. x.size
<1>1. /\ x.count \in Nat /\ x.size \in Nat
      /\ \A a \in O : /\ At(a) \in ChunksIn /\ OfBlob(At(a), x.key, x.ver) /\ At(a).index \in 0 .. x.count - 1
                      /\ Len(At(a).data) \in Nat /\ Len(At(a).data) <= EntryCount
      /\ \A a, b \in O : At(a).index = At(b).index => a = b
      /\ \A y \in ChunksIn : OfBlob(y, x.key, x.ver) => \E a \in O : At(a) = y
  BY ObservedFacts
<1>2. PICK s : Offsets(x, s)
  BY DEF Sized, Offsets
<1>3. /\ s \in [0 .. x.count -> 0 .. x.size] /\ s[0] = 0 /\ s[x.count] = x.size
      /\ \A a \in O : Len(At(a).data) = s[At(a).index + 1] - s[At(a).index]
  BY <1>1, <1>2 DEF Offsets, ChunksIn
<1>4. ASSUME NEW i \in 0 .. x.count - 1 PROVE \E a \in O : At(a).index = i
  <2>1. PICK y \in Stored : OfBlob(y, x.key, x.ver) /\ y.index = i
    BY DEF All
  <2>2. y \in ChunksIn
    BY <2>1 DEF OfBlob, ChunksIn
  <2> QED BY <1>1, <2>1, <2>2
<1>5. Splits(s, x.count, x.size)
  <2>1. ASSUME NEW i \in 0 .. x.count - 1 PROVE s[i] <= s[i + 1]
    <3>1. PICK a \in O : At(a).index = i
      BY <1>4
    <3>2. s[i + 1] - s[i] \in Nat
      BY <1>1, <1>3, <3>1
    <3>3. i \in 0 .. x.count /\ i + 1 \in 0 .. x.count
      BY <1>1
    <3>4. s[i] \in 0 .. x.size /\ s[i + 1] \in 0 .. x.size
      BY <1>3, <3>3
    <3>5. s[i] \in Nat /\ s[i + 1] \in Nat
      BY <1>1, <3>4
    <3> QED BY <3>2, <3>5
  <2> QED BY <1>1, <1>3, <2>1 DEF Splits
<1> HIDE DEF O
<1>6. ASSUME NEW e \in E
      PROVE  /\ e[1] \in O /\ e[2] \in Nat /\ e = <<e[1], e[2]>>
             /\ At(e[1]).index \in 0 .. x.count - 1
             /\ At(e[1]).index \in 0 .. x.count /\ At(e[1]).index + 1 \in 0 .. x.count
             /\ s[At(e[1]).index] \in Nat /\ s[At(e[1]).index + 1] \in Nat
             /\ 1 <= e[2] /\ s[At(e[1]).index] + e[2] <= s[At(e[1]).index + 1]
  <2>1. e[1] \in O /\ e[2] \in 1 .. EntryCount /\ e = <<e[1], e[2]>> /\ e[2] <= Len(At(e[1]).data)
    OBVIOUS
  <2> PICK i : i = At(e[1]).index
    OBVIOUS
  <2>2. i \in 0 .. x.count - 1 /\ Len(At(e[1]).data) = s[i + 1] - s[i]
    BY <1>1, <1>3, <2>1
  <2>3. i \in 0 .. x.count /\ i + 1 \in 0 .. x.count
    BY <1>1, <2>2
  <2>4. s[i] \in Nat /\ s[i + 1] \in Nat
    BY <1>1, <1>3, <2>3
  <2>5. e[2] <= s[i + 1] - s[i] /\ e[2] \in Nat /\ 1 <= e[2]
    BY <2>1, <2>2, SizeAssumption
  <2> QED BY <2>1, <2>2, <2>3, <2>4, <2>5
<1> DEFINE f == [e \in E |-> s[At(e[1]).index] + e[2]]
<1>7. ASSUME NEW e \in E PROVE f[e] = s[At(e[1]).index] + e[2]
  OBVIOUS
<1>8. ASSUME NEW e \in E PROVE f[e] \in N
  <2> PICK i : i = At(e[1]).index
    OBVIOUS
  <2>1. i + 1 \in 0 .. x.count /\ s[i] \in Nat /\ 1 <= e[2] /\ e[2] \in Nat /\ s[i] + e[2] <= s[i + 1]
    BY <1>6
  <2>2. s[i + 1] \in 0 .. x.size
    BY <1>3, <2>1
  <2>3. f[e] = s[i] + e[2]
    BY <1>7
  <2> QED BY <1>1, <2>1, <2>2, <2>3
<1>9. ASSUME NEW d \in E, NEW e \in E, At(d[1]).index < At(e[1]).index PROVE f[d] # f[e]
  <2> PICK i : i = At(d[1]).index
    OBVIOUS
  <2> PICK j : j = At(e[1]).index
    OBVIOUS
  <2>1. /\ i \in 0 .. x.count /\ i + 1 \in 0 .. x.count /\ s[i] + d[2] <= s[i + 1] /\ s[i] \in Nat /\ d[2] \in Nat
        /\ s[i + 1] \in Nat
    BY <1>6
  <2>2. j \in 0 .. x.count /\ s[j] \in Nat /\ e[2] \in Nat /\ 1 <= e[2]
    BY <1>6
  <2>3. i + 1 <= j
    BY <1>9, <2>1, <2>2
  <2>4. s[i + 1] <= s[j]
    BY <1>5, <2>1, <2>2, <2>3, SplitsRise
  <2>5. f[d] = s[i] + d[2] /\ f[e] = s[j] + e[2]
    BY <1>7
  <2> QED BY <2>1, <2>2, <2>4, <2>5
<1>10. ASSUME NEW d \in E, NEW e \in E, f[d] = f[e] PROVE d = e
  <2>1. /\ At(d[1]).index \in 0 .. x.count /\ At(e[1]).index \in 0 .. x.count
        /\ d[1] \in O /\ e[1] \in O /\ d = <<d[1], d[2]>> /\ e = <<e[1], e[2]>>
        /\ d[2] \in Nat /\ e[2] \in Nat /\ s[At(d[1]).index] \in Nat
    BY <1>6
  <2>2. At(d[1]).index = At(e[1]).index
    BY <1>9, <1>10, <2>1
  <2>3. d[1] = e[1]
    BY <1>1, <2>1, <2>2 DEF O
  <2>4. s[At(d[1]).index] + d[2] = s[At(d[1]).index] + e[2]
    BY <1>7, <1>10, <2>3
  <2>5. d[2] = e[2]
    BY <2>1, <2>4
  <2> QED BY <2>1, <2>3, <2>5
<1>11. ASSUME NEW z \in N PROVE \E e \in E : f[e] = z
  <2>1. PICK i \in 0 .. x.count - 1 : z - s[i] \in 1 .. s[i + 1] - s[i] /\ s[i] + (z - s[i]) = z
    BY <1>5, SplitsCover
  <2>2. PICK a \in O : At(a).index = i
    BY <1>4 DEF O
  <2>3. Len(At(a).data) = s[i + 1] - s[i] /\ Len(At(a).data) \in Nat /\ Len(At(a).data) <= EntryCount
    BY <1>1, <1>3, <2>2 DEF O
  <2> PICK w : w = z - s[i]
    OBVIOUS
  <2>4. w \in 1 .. EntryCount /\ w <= Len(At(a).data)
    BY <2>1, <2>3, SizeAssumption
  <2>5. <<a, w>> \in E
    BY <2>2, <2>4
  <2>6. f[<<a, w>>] = s[i] + w
    BY <1>7, <2>2, <2>5
  <2> QED BY <2>1, <2>5, <2>6
<1>12. IsFiniteSet(N) /\ Cardinality(N) = x.size
  <2>1. 1 \in Int /\ x.size \in Int
    BY <1>1
  <2>2. IsFiniteSet(N) /\ Cardinality(N) = IF 1 > x.size THEN 0 ELSE x.size - 1 + 1
    BY <2>1, FS_Interval
  <2> QED BY <1>1, <2>2
<1>13. f \in [E -> N]
  BY <1>8
<1> HIDE DEF f, E, N
<1>14. f \in Injection(E, N) /\ f \in Surjection(E, N)
  BY <1>10, <1>11, <1>13 DEF Injection, IsInjective, Surjection
<1>15. Cardinality(E) = Cardinality(N)
  BY <1>12, <1>14, FS_Injection
<1>16. SizeOf(Observed(x)) = Cardinality(E)
  BY DEF SizeOf, E, O
<1> QED BY <1>12, <1>15, <1>16

-----------------------------------------------------------------------------
(* What steps do to what is read.                                          *)

LEMMA StrayChunk ==
  ASSUME Readable, Readable', Single, NEW z, z.kind = "data", \A x \in IndexesIn : ~OfBlob(z, x.key, x.ver),
         Stored' = Stored \ {z} \/ Stored' = Stored \cup {z}
  PROVE  Content' = Content
<1>1. IndexesIn' = IndexesIn
  BY DEF IndexesIn
<1>2. \A x \in IndexesIn : \A y : OfBlob(y, x.key, x.ver) => (y \in Stored <=> y \in Stored')
  OBVIOUS
<1> QED BY <1>1, <1>2, BlobsAsBefore

LEMMA IndexErased ==
  ASSUME Readable, Readable', Single, NEW o \in IndexesIn, Stored' = Stored \ {o}
  PROVE  Content' = [Content EXCEPT ![o.key] = None] /\ o.key \in Keys
<1>1. o.key \in Keys /\ o.kind = "index"
  BY StoredFacts, ItemKinds DEF StoredFactsD, IndexesIn, Readable
<1>2. IndexesIn' = IndexesIn \ {o} /\ \A y, k, v : OfBlob(y, k, v) => (y \in Stored <=> y \in Stored')
  BY <1>1 DEF IndexesIn, OfBlob
<1>3. Content'[o.key] = None
  <2>1. \A x \in IndexesIn' : x.key # o.key
    BY <1>2 DEF Single
  <2> QED BY <1>1, <2>1, NewestReadsThen DEF NewestReadsD
<1>4. ASSUME NEW k \in Keys, k # o.key PROVE Content'[k] = Content[k]
  <2>1. \A x, y \in IndexesIn : x.key = k /\ y.key = k => x = y
    BY DEF Single
  <2>2. \A x : x.key = k => (x \in IndexesIn <=> x \in IndexesIn')
    BY <1>2, <1>4
  <2> QED BY <1>2, <2>1, <2>2, OnlyStays
<1>5. Content' = [k \in Keys |-> Content'[k]] /\ Content = [k \in Keys |-> Content[k]]
  BY DEF Content
<1> QED BY <1>1, <1>3, <1>4, <1>5

LEMMA ReadOfRepairPage ==
  ASSUME PagesInv, BlobsInv, Readable, Readable', RepairPage
  PROVE  Content' = Content
<1>1. pc = "load" /\ FlashOK /\ Filled
  BY DEF RepairPage, PagesInv, TypeOK
<1>2. PICK a \in Shadowed : Erase(a)
  BY DEF RepairPage
<1>3. a \in Places /\ StateOf(a[1]) = "active"
  BY <1>2 DEF Shadowed
<1>4. PICK b \in Places : b[1] = a[1] /\ b[2] > a[2] /\ Twin(At(a), At(b))
  BY <1>2 DEF Shadowed
<1>5. /\ a[2] \in Nat /\ b[2] \in Nat /\ b[2] \in 1 .. Len(Items(b[1])) /\ b[1] \in Page
      /\ Len(Items(b[1])) \in Nat
  BY <1>1, <1>3, <1>4, PlaceFacts, PageFacts DEF PlaceFactsD, PageFactsD
<1>6. Freeing = {} /\ At(a).kind = "index" /\ At(b).kind = "index" /\ At(a).key = At(b).key
  BY <1>3, <1>4, <1>5, TwinsOnAPage
<1>7. a \in RealPlaces /\ b \in RealPlaces /\ a # b
  BY <1>3, <1>4, <1>5, <1>6 DEF RealPlaces
<1>8. IsLast(b)
  <2>1. IsLast(a) \/ IsLast(b)
    BY <1>6, <1>7 DEF Readable, PairsKnown
  <2> QED BY <1>4, <1>5, <2>1 DEF IsLast
<1>9. Stored' = Stored \ {At(a)}
  BY <1>1, <1>2, <1>3, <1>6, ErasedBlobs DEF BlobsInv
<1>10. At(a) \in IndexesIn /\ At(a) # At(b)
  <2>1. At(a) \in IndexesIn
    BY <1>1, <1>6, <1>7, StoredFacts DEF StoredFactsD, IndexesIn
  <2>2. At(a) = At(b) => a = b
    BY <1>7 DEF BlobsInv, Distinct, SameItem
  <2> QED BY <1>7, <2>1, <2>2
<1> PICK o : o = At(a)
  OBVIOUS
<1> QED BY <1>6, <1>7, <1>8, <1>9, <1>10, OldIndexErased

\* A chunk of a blob is erased: the key has no blob any more, and no other key is touched.
LEMMA ChunkErased ==
  ASSUME Readable, Readable', Single, Distinct, NEW x \in IndexesIn, NEW z \in Stored,
         OfBlob(z, x.key, x.ver), z.index \in 0 .. x.count - 1, Stored' = Stored \ {z}
  PROVE  Content' = [Content EXCEPT ![z.key] = None]
<1>1. z.kind = "data" /\ z.key = x.key /\ z.ver = x.ver
  BY DEF OfBlob
<1>2. IndexesIn' = IndexesIn
  BY <1>1 DEF IndexesIn
<1>3. Content'[x.key] = None /\ x.key \in Keys
  <2>1. \A y \in IndexesIn' : y.key = x.key => y = x
    BY <1>2 DEF Single
  <2>2. x \in IndexesIn' /\ Newest(x)'
    BY <1>2, <2>1, OnlyIsNewest DEF OnlyIsNewestD
  <2>3. ASSUME NEW d, Holds(x, d)' PROVE FALSE
    <3>1. All(x.key, x.ver, 0, x.count)'
      BY <2>3 DEF Holds
    <3>2. PICK y \in Stored' : OfBlob(y, x.key, x.ver) /\ y.index = z.index
      BY <3>1 DEF All, OfBlob
    <3>3. y \in Stored /\ y # z /\ SameItem(y, z)
      BY <1>1, <3>2 DEF OfBlob, SameItem
    <3>4. PICK a \in RealPlaces : At(a) = y
      BY <3>3 DEF Stored
    <3>5. PICK b \in RealPlaces : At(b) = z
      BY DEF Stored
    <3>6. a = b
      BY <3>3, <3>4, <3>5 DEF Distinct
    <3> QED BY <3>3, <3>4, <3>5, <3>6
  <2> QED BY <2>2, <2>3, NewestReadsThen DEF NewestReadsD
<1>4. ASSUME NEW k \in Keys, k # x.key PROVE Content'[k] = Content[k]
  <2>1. \A u, w \in IndexesIn : u.key = k /\ w.key = k => u = w
    BY DEF Single
  <2>2. \A u \in IndexesIn : \A y : u.key = k /\ OfBlob(y, u.key, u.ver) => (y \in Stored <=> y \in Stored')
    BY <1>1, <1>4 DEF OfBlob
  <2> QED BY <1>2, <2>1, <2>2, OnlyStays
<1>5. Content' = [k \in Keys |-> Content'[k]] /\ Content = [k \in Keys |-> Content[k]]
  BY DEF Content
<1> QED BY <1>1, <1>3, <1>4, <1>5

LEMMA ReadOfCheckLast ==
  ASSUME PagesInv, BlobsInv, Readable, Readable', CheckLast
  PROVE  Content' = Content \/ Forgotten
<1>1. Shadowed = {} /\ FlashOK /\ Filled /\ Ordered /\ Distinct /\ Copies /\ Counts
  BY DEF CheckLast, PagesInv, TypeOK, BlobsInv
<1>2. CASE FoundAgain = {}
  BY <1>2, FlashStaysRead DEF CheckLast
<1>3. CASE FoundAgain # {}
  <2> PICK e : e = Earliest(FoundAgain)
    OBVIOUS
  <2>1. e \in FoundAgain /\ Erase(e)
    <3>1. FoundAgain \subseteq Places
      BY DEF FoundAgain
    <3> QED BY <1>1, <1>3, <3>1, EarliestIn DEF CheckLast
  <2>2. /\ e \in Places /\ StateOf(e[1]) = "active" /\ At(e).kind = "data"
        /\ Freeing = {} => Single
    BY <1>1, <2>1, FoundAgainFacts
  <2>3. CASE Freeing # {}
    <3>1. Single
      BY <1>1, <2>3, PairsSingle DEF PairsSingleD, BlobsInv
    <3>2. RealPlaces' = RealPlaces /\ \A b \in RealPlaces : At(b)' = At(b)
      BY <1>1, <2>1, <2>2, <2>3, ErasedCopy
    <3>3. StoredStays
      BY <3>1, <3>2, SameBlobs DEF StoredStays
    <3> QED BY <3>3, StoredStaysRead
  <2>4. CASE Freeing = {}
    <3>1. Single
      BY <2>2, <2>4
    <3> PICK z : z = At(e)
      OBVIOUS
    <3>2. Stored' = Stored \ {z} /\ z \in Stored /\ z.kind = "data" /\ z \in Item
      BY <2>1, <2>2, <2>4, <3>1, OneLess
    <3>3. CASE \A x \in IndexesIn : ~OfBlob(z, x.key, x.ver)
      BY <3>1, <3>2, <3>3, StrayChunk
    <3>4. CASE \E x \in IndexesIn : OfBlob(z, x.key, x.ver)
      <4>1. PICK x \in IndexesIn : OfBlob(z, x.key, x.ver)
        BY <3>4
      <4>2. z.index < x.count /\ z.index \in Nat /\ x.count \in Nat
        <5>1. z \in ChunksIn /\ x.kind = "index" /\ x \in Item
          BY <1>1, <3>2, StoredFacts DEF StoredFactsD, ChunksIn, IndexesIn
        <5>2. z.index < x.count
          BY <1>1, <4>1, <5>1 DEF Counts
        <5> QED BY <3>2, <5>1, <5>2, ItemKinds
      <4>3. z.index \in 0 .. x.count - 1
        BY <4>2
      <4>4. Content' = [Content EXCEPT ![z.key] = None]
        BY <1>1, <3>1, <3>2, <4>1, <4>3, ChunkErased
      <4> QED BY <2>1, <2>2, <4>4 DEF Forgotten
    <3> QED BY <3>3, <3>4
  <2> QED BY <2>3, <2>4
<1> QED BY <1>2, <1>3

LEMMA ReadOfDropDuplicate ==
  ASSUME PagesInv, BlobsInv, Readable, Readable', DropDuplicate
  PROVE  Content' = Content
<1>1. /\ pc = "dup" /\ FlashOK /\ Filled /\ Ordered /\ Listing /\ Mounted /\ cur \in Page
  BY DEF DropDuplicate, PagesInv, TypeOK, Listing, Mounted
<1>2. CASE Superseded = {}
  BY <1>2, FlashStaysRead DEF DropDuplicate
<1>3. CASE Superseded # {}
  <2> PICK e : e = Earliest(Superseded)
    OBVIOUS
  <2> PICK last : last = <<cur, Len(Items(cur))>>
    OBVIOUS
  <2>1. Erase(e)
    BY <1>3 DEF DropDuplicate
  <2>2. Superseded \subseteq Places
    BY DEF Superseded
  <2>3. e \in Superseded
    BY <1>1, <1>3, <2>2, EarliestIn
  <2>4. /\ e \in Places /\ e[1] # cur /\ StateOf(e[1]) # "freeing" /\ Twin(At(e), At(last))
        /\ Items(cur) # <<>> /\ e[1] \in Page
    BY <1>1, <2>3, PlaceFacts DEF Superseded, PlaceFactsD
  <2>5. last \in Places /\ last[1] = cur /\ last[2] = Len(Items(cur))
    <3>1. DOMAIN Items(cur) = 1 .. Len(Items(cur)) /\ Items(cur) \in Seq(Item)
      BY <1>1, PageFacts DEF PageFactsD
    <3>2. Len(Items(cur)) \in DOMAIN Items(cur)
      BY <2>4, <3>1, EmptySeq
    <3> QED BY <1>1, <3>2, IsPlace DEF IsPlaceD
  <2>6. Freeing = {} /\ At(e).kind = "index" /\ At(last).kind = "index" /\ At(e).key = At(last).key
    BY <1>1, <2>4, <2>5, TwinsOnTwoPages
  <2>7. Stored' = Stored \ {At(e)}
    BY <1>1, <2>1, <2>4, <2>6, ErasedBlobs DEF BlobsInv
  <2>8. e \in RealPlaces /\ last \in RealPlaces /\ e # last
    BY <2>4, <2>5, <2>6 DEF RealPlaces
  <2>9. IsLast(last)
    <3>1. IsLast(e) \/ IsLast(last)
      BY <2>6, <2>8 DEF Readable, PairsKnown
    <3> QED BY <1>1, <2>4, <3>1 DEF IsLast, Listing
  <2>10. At(e) \in IndexesIn /\ At(e) # At(last)
    <3>1. At(e) \in IndexesIn
      BY <1>1, <2>6, <2>8, StoredFacts DEF StoredFactsD, IndexesIn
    <3>2. At(e) = At(last) => e = last
      BY <2>8 DEF BlobsInv, Distinct, SameItem
    <3> QED BY <2>8, <3>1, <3>2
  <2> PICK o : o = At(e)
    OBVIOUS
  <2> QED BY <2>6, <2>7, <2>8, <2>9, <2>10, OldIndexErased
<1> QED BY <1>2, <1>3

LEMMA ReadOfEraseMismatched ==
  ASSUME PagesInv, BlobsInv, Readable, Readable', EraseMismatched
  PROVE  Content' = Content
<1>1. /\ pc = "match" /\ Freeing = {} /\ Single /\ FlashOK /\ Filled /\ Ordered /\ Distinct /\ Counts
  BY QuietSingle DEF EraseMismatched, Moves, BlobsInv
<1>2. CASE Mismatched = {}
  BY <1>2, FlashStaysRead DEF EraseMismatched
<1>3. CASE Mismatched # {}
  <2> PICK m : m = Earliest(Mismatched)
    OBVIOUS
  <2>1. m \in Mismatched
    BY <1>1, <1>3, EarliestIn DEF Mismatched
  <2> PICK x : x = At(m)
    OBVIOUS
  <2>2. m \in IndexOf(x.key, x.ver) /\ IndexOf(x.key, x.ver) \subseteq Places
    BY <2>1 DEF Mismatched, IndexOf, Indexes
  <2> PICK a : a = Earliest(IndexOf(x.key, x.ver))
    OBVIOUS
  <2>3. a \in IndexOf(x.key, x.ver) /\ a \in Places
    BY <1>1, <2>2, EarliestIn
  <2>4. Erase(a)
    BY <1>3 DEF EraseMismatched
  <2>5. x \in IndexesIn /\ At(a) \in IndexesIn /\ At(a).key = x.key
    BY <1>1, <2>2, <2>3, Lookups
  <2>6. At(a) = x
    BY <1>1, <2>5 DEF Single
  <2>7. Stored' = Stored \ {x}
    BY <1>1, <2>3, <2>4, <2>6, ErasedBlobs
  <2>8. Content' = [Content EXCEPT ![x.key] = None] /\ x.key \in Keys
    BY <1>1, <2>5, <2>7, IndexErased
  <2>9. ASSUME NEW d, Holds(x, d) PROVE FALSE
    <3>1. All(x.key, x.ver, 0, x.count) /\ Sized(x.key, x.ver, x.count, x.size)
      BY <2>9, HoldsIsSized
    <3>2. Cardinality(Observed(x)) = x.count
      BY <1>1, <2>5, <3>1, ObservedCount
    <3>3. SizeOf(Observed(x)) = x.size
      BY <1>1, <2>5, <3>1, ObservedSize
    <3> QED BY <2>1, <3>2, <3>3 DEF Mismatched
  <2>10. Newest(x)
    BY <1>1, <2>5 DEF Single, Newest
  <2>11. Content[x.key] = None
    BY <2>5, <2>9, <2>10, NewestReads DEF NewestReadsD
  <2>12. Content = [k \in Keys |-> Content[k]]
    BY DEF Content
  <2> QED BY <2>8, <2>11, <2>12
<1> QED BY <1>2, <1>3

LEMMA ReadOfEraseOrphans ==
  ASSUME PagesInv, BlobsInv, Readable, Readable', EraseOrphans
  PROVE  Content' = Content
<1>1. /\ pc = "orphan" /\ Freeing = {} /\ Single /\ FlashOK /\ Filled /\ Ordered
  BY QuietSingle DEF EraseOrphans, Moves
<1>2. CASE Orphans = {}
  BY <1>2, FlashStaysRead DEF EraseOrphans
<1>3. CASE Orphans # {}
  <2> PICK a : a = Earliest(Orphans)
    OBVIOUS
  <2>1. Erase(a)
    BY <1>3 DEF EraseOrphans
  <2>2. a \in Orphans /\ a \in Places
    BY <1>1, <1>3, EarliestIn DEF Orphans
  <2> PICK z : z = At(a)
    OBVIOUS
  <2>3. Stored' = Stored \ {z} /\ z.kind = "data" /\ z \in ChunksIn /\ z.index \in Nat
    <3>1. Stored' = Stored \ {z}
      BY <1>1, <2>1, <2>2, OneLess
    <3>2. z.kind = "data"
      BY <2>2 DEF Orphans
    <3> QED BY <1>1, <2>2, <3>1, <3>2, StoredFacts, ItemKinds DEF StoredFactsD, ChunksIn
  <2>4. ASSUME NEW x \in IndexesIn, OfBlob(z, x.key, x.ver) PROVE FALSE
    <3>1. PICK b \in IndexOf(x.key, x.ver) : At(b) = x
      BY <1>1, Lookups
    <3>2. z.index >= x.count
      BY <2>2, <2>4, <3>1 DEF Orphans, OfBlob
    <3>3. z.index < x.count
      BY <2>3, <2>4 DEF BlobsInv, Counts
    <3>4. x.count \in Nat
      BY <1>1, StoredFacts, ItemKinds DEF StoredFactsD, IndexesIn
    <3> QED BY <2>3, <3>2, <3>3, <3>4
  <2> QED BY <1>1, <2>3, <2>4, StrayChunk
<1> QED BY <1>2, <1>3

-----------------------------------------------------------------------------
(* What a running call has done so far.                                    *)

\* The chunks written so far are the beginning of the new blob.
Written == Storing => Spells(op.key, loc.ver, Count, loc.off, op.val)
\* The old blob is found again when the new one is complete.
OldIsThere ==
  (Storing \/ pc = "old_index") /\ loc.prev # -1 =>
    \E x \in IndexesIn : x.key = op.key /\ x.ver = loc.prev
NewIsLast ==
  pc = "old_index" /\ op.kind = "write" =>
    \E a \in RealPlaces :
      IsLast(a) /\ At(a).kind = "index" /\ At(a).key = op.key /\ At(a).ver # loc.prev
\* A call that has taken effect.
Effect ==
  /\ pc \in {"return"} \cup Late /\ op.kind = "write" => Content[op.key] = op.val
  /\ pc = "old_chunks" /\ op.kind = "erase" => Content[op.key] = None

Promised == Written /\ OldIsThere /\ NewIsLast /\ Effect

LEMMA ReadOfEraseOldChunk ==
  ASSUME PagesInv, BlobsInv, Readable, Readable', EraseOldChunk
  PROVE  Content' = Content /\ OldChunk # {}
<1>1. /\ pc = "old_chunks" /\ loc.i < loc.count
      /\ Freeing = {} /\ Single /\ FlashOK /\ Filled /\ Ordered
  BY QuietSingle DEF EraseOldChunk, Moves
<1>2. loc.i \in Nat /\ loc.count \in Nat
  BY DEF PagesInv, TypeOK, Locals
<1>3. /\ All(op.key, loc.prev, loc.i, loc.count)
      /\ \A x \in IndexesIn : x.key = op.key => x.ver # loc.prev
  BY <1>1 DEF BlobsInv, Ended
<1>4. PICK z \in Stored : OfBlob(z, op.key, loc.prev) /\ z.index = loc.i
  BY <1>1, <1>2, <1>3 DEF All
<1>5. OldChunk # {}
  BY <1>1, <1>4, Lookups DEF OldChunk, OfBlob, ChunksIn
<1> PICK a : a = Earliest(OldChunk)
  OBVIOUS
<1>6. Erase(a)
  BY <1>5 DEF EraseOldChunk
<1>7. a \in OldChunk /\ a \in Places
  BY <1>1, <1>5, EarliestIn DEF OldChunk, ChunksOf
<1> PICK o : o = At(a)
  OBVIOUS
<1>8. o.kind = "data" /\ OfBlob(o, op.key, loc.prev)
  BY <1>1, <1>7, Lookups DEF OldChunk, OfBlob
<1>9. Stored' = Stored \ {o}
  BY <1>1, <1>6, <1>7, OneLess
<1>10. \A x \in IndexesIn : ~OfBlob(o, x.key, x.ver)
  BY <1>3, <1>8 DEF OfBlob
<1>11. Content' = Content
  BY <1>1, <1>8, <1>9, <1>10, StrayChunk
<1> QED BY <1>5, <1>11

LEMMA ReadOfEraseOldIndex ==
  ASSUME PagesInv, BlobsInv, Readable, Readable', OldIsThere, NewIsLast, EraseOldIndex
  PROVE  /\ pc = "old_index" /\ pc' = "old_chunks" /\ UNCHANGED <<op, res>>
         /\ op.kind = "write" => Content' = Content
         /\ op.kind = "erase" => Content' = [Content EXCEPT ![op.key] = None]
<1>1. pc = "old_index" /\ loc.prev # -1
  BY DEF EraseOldIndex, PagesInv, Called, Late
<1>2. /\ Freeing = {} /\ FlashOK /\ Filled /\ Ordered
      /\ \A x, y \in IndexesIn : x.key = y.key /\ x.ver = y.ver => x = y
  BY <1>1, TwoIndexes
<1>3. PICK x \in IndexesIn : x.key = op.key /\ x.ver = loc.prev
  BY <1>1 DEF OldIsThere
<1>4. IndexOf(op.key, loc.prev) # {}
  BY <1>2, <1>3, Lookups
<1> PICK a : a = Earliest(IndexOf(op.key, loc.prev))
  OBVIOUS
<1>5. Erase(a) /\ pc' = "old_chunks" /\ UNCHANGED <<op, res>>
  BY <1>4 DEF EraseOldIndex
<1>6. a \in IndexOf(op.key, loc.prev) /\ a \in Places
  BY <1>2, <1>4, EarliestIn DEF IndexOf, Indexes
<1>7. At(a) = x
  BY <1>2, <1>3, <1>6, Lookups
<1>8. Stored' = Stored \ {x}
  BY <1>2, <1>5, <1>6, <1>7, ErasedBlobs DEF BlobsInv
<1>9. ASSUME op.kind = "write" PROVE Content' = Content
  <2>1. PICK b \in RealPlaces :
          IsLast(b) /\ At(b).kind = "index" /\ At(b).key = op.key /\ At(b).ver # loc.prev
    BY <1>1, <1>9 DEF NewIsLast
  <2>2. x.key = At(b).key /\ x # At(b)
    BY <1>3, <2>1
  <2> QED BY <1>8, <2>1, <2>2, OldIndexErased
<1>10. ASSUME op.kind = "erase" PROVE Content' = [Content EXCEPT ![op.key] = None]
  <2>1. Single
    <3>1. \A y \in IndexesIn : \E b \in RealPlaces : At(b) = y
      BY <1>2, StoredFacts DEF StoredFactsD, IndexesIn
    <3> QED BY <1>1, <1>10, <3>1 DEF BlobsInv, Pairs, PairAllowed, Single, IndexesIn
  <2>2. Content' = [Content EXCEPT ![x.key] = None]
    BY <1>8, <2>1, IndexErased
  <2> QED BY <1>3, <2>2
<1> QED BY <1>1, <1>5, <1>9, <1>10

LEMMA ReadOfWriteChunk ==
  ASSUME PagesInv, BlobsInv, Readable, Readable', WriteChunk
  PROVE  Content' = Content
<1> PICK c : c = Chunk(op.key, loc.ver, Count, Piece)
  OBVIOUS
<1>1. Single /\ Stored' = Stored \cup {c} /\ \A i \in IndexesIn : ~(i.key = op.key /\ i.ver = loc.ver)
  BY BlobsOfWriteChunk
<1>2. c.kind = "data" /\ c.key = op.key /\ c.ver = loc.ver
  BY DEF Chunk
<1>3. \A x \in IndexesIn : ~OfBlob(c, x.key, x.ver)
  BY <1>1, <1>2 DEF OfBlob
<1> QED BY <1>1, <1>2, <1>3, StrayChunk

\* An item of a namespace is erased: at most one key is left without a value.
LEMMA ReadOfEraseAll ==
  ASSUME PagesInv, BlobsInv, Readable, Readable', EraseAll, InNamespace # {}
  PROVE  /\ pc' = pc /\ UNCHANGED <<op, res>>
         /\ \/ Content' = Content
            \/ \E k \in Keys : NsOf[k] = op.ns /\ Content' = [Content EXCEPT ![k] = None]
<1>1. /\ pc = "find" /\ Freeing = {} /\ Single /\ FlashOK /\ Filled /\ Ordered
  BY QuietSingle DEF EraseAll, Moves
<1> PICK a : a = Earliest(InNamespace)
  OBVIOUS
<1>2. Erase(a) /\ UNCHANGED <<pc, op, res>>
  BY DEF EraseAll, ram
<1>3. a \in InNamespace /\ a \in Places
  BY <1>1, EarliestIn DEF InNamespace
<1> PICK z : z = At(a)
  OBVIOUS
<1>4. /\ Stored' = Stored \ {z} /\ z \in Stored /\ z \in Item /\ NsOf[z.key] = op.ns
      /\ IndexesIn' = IndexesIn \ {z}
  BY <1>1, <1>2, <1>3, OneLess DEF InNamespace
<1>5. CASE z.kind = "index"
  BY <1>1, <1>2, <1>4, <1>5, IndexErased DEF IndexesIn
<1>6. CASE z.kind = "data" /\ \A x \in IndexesIn : ~OfBlob(z, x.key, x.ver)
  BY <1>1, <1>2, <1>4, <1>6, StrayChunk
<1>7. CASE z.kind = "data" /\ \E x \in IndexesIn : OfBlob(z, x.key, x.ver)
  <2>1. PICK x \in IndexesIn : OfBlob(z, x.key, x.ver)
    BY <1>7
  <2>2. x \in IndexesIn' /\ x.key = z.key /\ x.key \in Keys /\ x.count \in Nat /\ z.index \in Nat
    <3>1. x \in Item /\ x.kind = "index"
      BY <1>1, StoredFacts DEF StoredFactsD, IndexesIn
    <3> QED BY <1>4, <1>7, <2>1, <3>1, ItemKinds DEF OfBlob
  <2>3. Newest(x)'
    <3>1. \A y \in IndexesIn' : y.key = x.key => y = x
      BY <1>1, <1>4 DEF Single
    <3> QED BY <2>2, <3>1, OnlyIsNewest DEF OnlyIsNewestD
  <2>4. z.index \in 0 .. x.count - 1
    <3>1. z \in ChunksIn
      BY <1>4, <1>7 DEF ChunksIn
    <3>2. z.index < x.count
      BY <2>1, <3>1 DEF BlobsInv, Counts
    <3> QED BY <2>2, <3>2
  <2>5. ASSUME NEW y \in Stored', OfBlob(y, x.key, x.ver), y.index = z.index PROVE FALSE
    <3>1. y \in Stored /\ y # z /\ SameItem(y, z)
      BY <1>4, <1>7, <2>1, <2>5 DEF OfBlob, SameItem
    <3>2. PICK b \in RealPlaces : At(b) = y
      BY <1>1, <3>1, StoredFacts DEF StoredFactsD
    <3>3. PICK c \in RealPlaces : At(c) = z
      BY <1>1, <1>4, StoredFacts DEF StoredFactsD
    <3> QED BY <3>1, <3>2, <3>3 DEF BlobsInv, Distinct
  <2>6. \A d : ~Holds(x, d)'
    BY <2>4, <2>5 DEF Holds, All
  <2>7. Content'[x.key] = None
    BY <2>2, <2>3, <2>6, NewestReadsThen DEF NewestReadsD
  <2>8. ASSUME NEW k \in Keys, k # x.key PROVE Content'[k] = Content[k]
    <3>1. \A u, v \in IndexesIn : u.key = k /\ v.key = k => u = v
      BY <1>1 DEF Single
    <3>2. \A u : u.key = k => (u \in IndexesIn <=> u \in IndexesIn')
      BY <1>4, <2>2, <2>8
    <3>3. \A u \in IndexesIn : \A y : u.key = k /\ OfBlob(y, u.key, u.ver) => (y \in Stored <=> y \in Stored')
      BY <1>4, <2>2, <2>8 DEF OfBlob
    <3> QED BY <3>1, <3>2, <3>3, OnlyStays
  <2>9. Content' = [Content EXCEPT ![x.key] = None]
    <3>1. Content' = [k \in Keys |-> Content'[k]] /\ Content = [k \in Keys |-> Content[k]]
      BY DEF Content
    <3> QED BY <2>7, <2>8, <3>1
  <2> QED BY <1>2, <1>4, <2>2, <2>9
<1>8. z.kind \in {"index", "data"}
  BY <1>4, ItemKinds
<1> QED BY <1>5, <1>6, <1>7, <1>8

LEMMA PiecesEnd ==
  ASSUME NEW w \in Nat, NEW l \in Nat, NEW m \in Int, NEW k \in Int, m = w + 1, k = w + l
  PROVE  /\ k - m + 1 = l
         /\ m <= k <=> l # 0
         /\ \A i \in 1 .. l : m + i - 1 = w + i
OBVIOUS

LEMMA SubSeqIs ==
  ASSUME NEW S, NEW s \in Seq(S), NEW w \in Nat, NEW l \in Nat, w + l <= Len(s)
  PROVE  /\ Len(SubSeq(s, w + 1, w + l)) = l
         /\ \A i \in 1 .. l : SubSeq(s, w + 1, w + l)[i] = s[w + i]
<1> PICK m \in Int : m = w + 1
  OBVIOUS
<1> PICK k \in Int : k = w + l
  OBVIOUS
<1>1. /\ k - m + 1 = l
      /\ m <= k <=> l # 0
      /\ \A i \in 1 .. l : m + i - 1 = w + i
  BY PiecesEnd
<1>2. \A i \in m .. k : s[i] \in S
  <2>1. Len(s) \in Nat
    BY LenProperties
  <2>2. \A i \in m .. k : i \in 1 .. Len(s)
    BY <2>1
  <2> QED BY <2>2, ElementOfSeq
<1>3. /\ Len(SubSeq(s, m, k)) = IF m <= k THEN k - m + 1 ELSE 0
      /\ \A i \in 1 .. k - m + 1 : SubSeq(s, m, k)[i] = s[m + i - 1]
  BY <1>2, SubSeqProperties
<1>4. Len(SubSeq(s, m, k)) = l
  BY <1>1, <1>3
<1>5. ASSUME NEW i \in 1 .. l PROVE SubSeq(s, m, k)[i] = s[w + i]
  BY <1>1, <1>3
<1> QED BY <1>4, <1>5

LEMMA PieceIs ==
  ASSUME TypeOK, Filled, op.kind = "write", loc.off <= Len(op.val), cur \in Page
  PROVE  \A j \in 1 .. Len(Piece) : Piece[j] = op.val[loc.off + j]
<1>1. op.val \in Seq(Unit) /\ Len(op.val) \in Nat /\ loc.off \in Nat /\ Tailroom(cur) \in Nat
  BY OpFacts, ValueFacts, TailroomFacts DEF TypeOK, Locals
<1>2. Rest \in Nat /\ Rest = Len(op.val) - loc.off
  BY <1>1 DEF Rest
<1> PICK l : l = IF Rest > Tailroom(cur) THEN Tailroom(cur) ELSE Rest
  OBVIOUS
<1>3. l \in Nat /\ l <= Rest
  BY <1>1, <1>2
<1>4. Piece = SubSeq(op.val, loc.off + 1, loc.off + l)
  BY DEF Piece
<1>5. loc.off + l <= Len(op.val)
  BY <1>1, <1>2, <1>3
<1>6. /\ Len(Piece) = l
      /\ \A i \in 1 .. l : Piece[i] = op.val[loc.off + i]
  <2> PICK s : s = op.val
    OBVIOUS
  <2> PICK w : w = loc.off
    OBVIOUS
  <2>1. s \in Seq(Unit) /\ w \in Nat /\ w + l <= Len(s)
    BY <1>1, <1>5
  <2>2. /\ Len(SubSeq(s, w + 1, w + l)) = l
        /\ \A i \in 1 .. l : SubSeq(s, w + 1, w + l)[i] = s[w + i]
    <3>1. l \in Nat /\ s \in Seq(Unit) /\ w \in Nat /\ w + l <= Len(s)
      BY <1>3, <2>1
    <3> QED BY ONLY <3>1, SubSeqIs, Zenon
  <2> QED BY <1>4, <2>2
<1> QED BY <1>6

LEMMA WrittenOfWriteChunk ==
  ASSUME PagesInv, BlobsInv, Written, WriteChunk
  PROVE  Written'
<1>1. /\ pc = "chunk" /\ op.kind = "write" /\ Storing /\ op' = op
      /\ loc' = [loc EXCEPT !.off = @ + Len(Piece), !.pages = Append(@, cur)]
      /\ cur \in Page /\ FlashOK /\ Filled /\ TypeOK /\ loc \in Locals /\ loc.off <= Len(op.val)
  BY DEF WriteChunk, PagesInv, TypeOK, Called, WritePcs, Storing, Listing, Mounted, Moves
<1>2. /\ Stored' = Stored \cup {Chunk(op.key, loc.ver, Count, Piece)}
      /\ \A y \in ChunksIn : OfBlob(y, op.key, loc.ver) => y.index < Count
  BY <1>1, BlobsOfWriteChunk DEF BlobsInv, Begun
<1> PICK x : x = Chunk(op.key, loc.ver, Count, Piece)
  OBVIOUS
<1> PICK k : k = op.key
  OBVIOUS
<1> PICK v : v = loc.ver
  OBVIOUS
<1> PICK n : n = Count
  OBVIOUS
<1> PICK w : w = loc.off
  OBVIOUS
<1> PICK l : l = Len(Piece)
  OBVIOUS
<1> PICK d : d = op.val
  OBVIOUS
<1>3. /\ x.kind = "data" /\ x.key = k /\ x.ver = v /\ x.index = n /\ x.data = Piece
  BY DEF Chunk
<1>4. loc.pages \in Seq(Page) /\ loc.ver \in Version /\ loc.off \in Nat /\ Len(Piece) \in Nat
  BY <1>1, PieceFacts DEF Locals
<1>5. n \in Nat /\ w \in Nat /\ l \in Nat /\ Len(x.data) = l
  BY <1>3, <1>4 DEF Count
<1>6. \A j \in 1 .. l : x.data[j] = d[w + j]
  BY <1>1, <1>3, PieceIs
<1>7. loc'.off = w + l /\ loc'.ver = v /\ Count' = n + 1 /\ op'.key = k /\ op'.val = d
  <2>1. loc.off + Len(Piece) \in Nat /\ Append(loc.pages, cur) \in Seq(Page)
    BY <1>1, <1>4
  <2>2. loc'.off = loc.off + Len(Piece) /\ loc'.ver = loc.ver /\ loc'.pages = Append(loc.pages, cur)
    BY <1>1, <2>1 DEF Locals
  <2>3. Len(Append(loc.pages, cur)) = Len(loc.pages) + 1
    BY <1>1, <1>4
  <2> QED BY <1>1, <2>2, <2>3 DEF Count
<1>8. Spells(k, v, n, w, d)
  BY <1>1 DEF Written
<1>9. PICK s \in [0 .. n -> 0 .. w] :
        /\ s[0] = 0 /\ s[n] = w
        /\ \A y \in Stored : OfBlob(y, k, v) /\ y.index < n =>
             /\ Len(y.data) = s[y.index + 1] - s[y.index]
             /\ \A j \in 1 .. Len(y.data) : y.data[j] = d[s[y.index] + j]
  BY <1>8 DEF Spells
<1> DEFINE t == [i \in 0 .. n + 1 |-> IF i = n + 1 THEN w + l ELSE s[i]]
<1>10. t \in [0 .. n + 1 -> 0 .. w + l]
  BY <1>5
<1>11. t[0] = 0 /\ t[n + 1] = w + l /\ t[n] = w
  BY <1>5, <1>9
<1>12. \A i \in 0 .. n : t[i] = s[i]
  BY <1>5
<1> HIDE DEF t
<1>13. ASSUME NEW y \in Stored', OfBlob(y, k, v), y.index < n + 1
       PROVE  /\ Len(y.data) = t[y.index + 1] - t[y.index]
              /\ \A j \in 1 .. Len(y.data) : y.data[j] = d[t[y.index] + j]
  <2>1. CASE y = x
    <3>1. Len(y.data) = l /\ t[y.index] = w /\ t[y.index + 1] = w + l
      BY <1>3, <1>5, <1>11, <2>1
    <3>2. l = (w + l) - w
      BY <1>5
    <3> QED BY <1>6, <2>1, <3>1, <3>2
  <2>2. CASE y # x
    <3>1. y \in Stored /\ y \in ChunksIn
      BY <1>2, <1>13, <2>2 DEF OfBlob, ChunksIn
    <3>2. y.index < n /\ y.index \in Nat
      BY <1>1, <1>2, <1>13, <3>1, StoredFacts, ItemKinds DEF StoredFactsD, ChunksIn
    <3>3. y.index \in 0 .. n /\ y.index + 1 \in 0 .. n
      BY <1>5, <3>2
    <3>4. t[y.index] = s[y.index] /\ t[y.index + 1] = s[y.index + 1]
      BY <1>12, <3>3
    <3> QED BY <1>9, <1>13, <3>1, <3>2, <3>4
  <2> QED BY <2>1, <2>2
<1>14. Spells(k, v, n + 1, w + l, d)'
  BY <1>10, <1>11, <1>13 DEF Spells
<1>15. (Spells(op.key, loc.ver, Count, loc.off, op.val))'
  BY <1>7, <1>14
<1> QED BY <1>15 DEF Written

\* The write of the index is the instant at which the new blob is the blob.
LEMMA ReadOfWriteIndex ==
  ASSUME PagesInv, BlobsInv, Readable, Readable', Written, OldIsThere, WriteIndex
  PROVE  /\ Content' = [Content EXCEPT ![op.key] = op.val] /\ op.key \in Keys /\ UNCHANGED <<op, loc, res>>
         /\ pc' = IF loc.prev = -1 THEN "return" ELSE "old_index"
         /\ OldIsThere' /\ NewIsLast'
<1>1. /\ pc = "chunk" /\ op' = op /\ loc' = loc /\ res' = res /\ Storing /\ op.kind = "write"
      /\ pc' = IF loc.prev = -1 THEN "return" ELSE "old_index"
      /\ FlashOK /\ TypeOK /\ loc \in Locals /\ (loc.prev # -1 => loc.prev # loc.ver)
  BY DEF WriteIndex, ram, PagesInv, TypeOK, Called, WritePcs, Storing, Moves
<1> PICK x : x = Index(op.key, loc.ver, Count, Len(op.val))
  OBVIOUS
<1> PICK k : k = op.key
  OBVIOUS
<1> PICK v : v = loc.ver
  OBVIOUS
<1> PICK n : n = Count
  OBVIOUS
<1> PICK d : d = op.val
  OBVIOUS
<1> PICK p : p = loc.prev
  OBVIOUS
<1>2. /\ Single /\ loc.off = Len(d) /\ Stored' = Stored \cup {x}
      /\ \A i \in IndexesIn : i.key = k => i.ver = p
  BY BlobsOfWriteIndex
<1>3. x.kind = "index" /\ x.key = k /\ x.ver = v /\ x.count = n /\ x.size = Len(d)
  BY DEF Index
<1>4. k \in Keys /\ d \in Seq(Unit)
  BY <1>1, OpFacts, ValueFacts
<1>5. IndexesIn' = IndexesIn \cup {x} /\ \A y, b, c : OfBlob(y, b, c) => (y \in Stored <=> y \in Stored')
  BY <1>2, <1>3 DEF IndexesIn, OfBlob
<1>6. Count' = Count
  BY <1>1 DEF Count
<1>7. PICK a \in RealPlaces' : At(a)' = x /\ IsLast(a)'
  <2>1. \E a \in RealPlaces' : /\ (At(a) = Index(op.key, loc.ver, Count, Len(op.val)))'
                               /\ IsLast(a)'
    BY BlobsOfWriteIndex
  <2>2. Index(op.key, loc.ver, Count, Len(op.val))' = x
    BY <1>1, <1>6
  <2> QED BY <2>1, <2>2
<1>8. Holds(x, d)
  <2>1. All(k, v, 0, n) /\ Spells(k, v, n, Len(d), d)
    BY <1>1, <1>2 DEF Written, BlobsInv, Begun
  <2> QED BY <1>3, <1>4, <2>1 DEF Holds
<1>9. Holds(x, d)'
  BY <1>5, <1>8, SameHolds
<1>10. Newest(x)' /\ x \in IndexesIn'
  BY <1>5, <1>7 DEF Newest
<1>11. Content'[k] = d
  BY <1>3, <1>9, <1>10, NewestReadsThen DEF NewestReadsD
<1>12. ASSUME NEW b \in Keys, b # k PROVE Content'[b] = Content[b]
  <2>1. \A u, z \in IndexesIn : u.key = b /\ z.key = b => u = z
    BY <1>2 DEF Single
  <2>2. \A u : u.key = b => (u \in IndexesIn <=> u \in IndexesIn')
    BY <1>3, <1>5, <1>12
  <2> QED BY <1>5, <2>1, <2>2, OnlyStays
<1>13. Content' = [Content EXCEPT ![k] = d]
  <2>1. Content' = [b \in Keys |-> Content'[b]] /\ Content = [b \in Keys |-> Content[b]]
    BY DEF Content
  <2> QED BY <1>11, <1>12, <2>1
<1>14. OldIsThere'
  <2>1. p # -1 => \E u \in IndexesIn : u.key = k /\ u.ver = p
    BY <1>1 DEF OldIsThere
  <2>2. p # -1 => \E u \in IndexesIn' : u.key = k /\ u.ver = p
    BY <1>5, <2>1
  <2> QED BY <1>1, <2>2 DEF OldIsThere
<1>15. NewIsLast'
  <2>1. ASSUME p # -1 PROVE IsLast(a)' /\ At(a)'.kind = "index" /\ At(a)'.key = op'.key /\ At(a)'.ver # loc'.prev
    BY <1>1, <1>3, <1>7, <2>1
  <2> QED BY <1>1, <1>7, <2>1 DEF NewIsLast
<1> QED BY <1>1, <1>4, <1>13, <1>14, <1>15

\* No write is under way, and no call that has taken effect.
LEMMA NothingPromised ==
  ASSUME pc' \notin {"return"} \cup Late, pc' \notin WritePcs \cup Moves \/ op'.kind # "write"
  PROVE  Promised'
BY DEF Promised, Written, OldIsThere, NewIsLast, Effect, Storing, Late

LEMMA SameSpells ==
  ASSUME NEW k, NEW v, NEW n, NEW w, NEW d, \A y : OfBlob(y, k, v) => (y \in Stored <=> y \in Stored'),
         Spells(k, v, n, w, d)
  PROVE  Spells(k, v, n, w, d)'
BY DEF Spells

\* A step of a write that stores nothing.
LEMMA StillStoring ==
  ASSUME Promised, Storing, pc' \in WritePcs \cup Moves, StoredStays, op' = op,
         loc'.off = loc.off, loc'.pages = loc.pages, loc'.ver = loc.ver, loc'.prev = loc.prev
  PROVE  Promised'
<1> PICK k : k = op.key
  OBVIOUS
<1> PICK v : v = loc.ver
  OBVIOUS
<1> PICK n : n = Count
  OBVIOUS
<1> PICK w : w = loc.off
  OBVIOUS
<1> PICK d : d = op.val
  OBVIOUS
<1>1. op'.key = k /\ loc'.ver = v /\ Count' = n /\ loc'.off = w /\ op'.val = d
  BY DEF Count
<1>2. \A y, b, c : OfBlob(y, b, c) => (y \in Stored <=> y \in Stored')
  BY DEF StoredStays, OfBlob, ChunksIn
<1>3. Spells(k, v, n, w, d)
  BY DEF Promised, Written
<1>4. Spells(k, v, n, w, d)'
  BY <1>2, <1>3, SameSpells
<1>5. (Spells(op.key, loc.ver, Count, loc.off, op.val))'
  BY <1>1, <1>4
<1>6. OldIsThere'
  BY DEF Promised, OldIsThere, StoredStays
<1>7. NewIsLast' /\ Effect'
  BY DEF NewIsLast, Effect, WritePcs, Moves, Late
<1> QED BY <1>5, <1>6, <1>7 DEF Promised, Written

LEMMA OpIsCall ==
  ASSUME PagesInv, BlobsInv
  PROVE  op.kind # "read"
BY OpFacts DEF PagesInv, Called, BlobsInv, Untouched, TypeOK, Steps, Mount, WritePcs, Moves, Late, NoRequest, Request

LEMMA OpIsCallThen == (PagesInv /\ BlobsInv => op.kind # "read")'
<1>1. PagesInv /\ BlobsInv => op.kind # "read"
  BY OpIsCall
<1> QED BY <1>1, PTL

\* The existing blob of the key is the one index of it.
LEMMA ExistingIs ==
  ASSUME PagesInv, BlobsInv, pc = "find"
  PROVE  /\ Existing = {} => \A x \in IndexesIn : x.key # op.key
         /\ Existing # {} =>
              /\ Earliest(Existing) \in Places /\ At(Earliest(Existing)) \in IndexesIn
              /\ At(Earliest(Existing)).key = op.key
              /\ \A x \in IndexesIn : x.key = op.key => x = At(Earliest(Existing))
<1>1. Freeing = {} /\ Single /\ FlashOK /\ Filled /\ Ordered
  BY QuietSingle DEF Moves
<1>2. Existing = {} => \A x \in IndexesIn : x.key # op.key
  BY <1>1, Lookups DEF Existing, IndexOf
<1>3. Existing # {} => Earliest(Existing) \in Existing
  BY <1>1, EarliestIn DEF Existing, Indexes
<1>4. Existing # {} => /\ Earliest(Existing) \in Places /\ At(Earliest(Existing)) \in IndexesIn
                       /\ At(Earliest(Existing)).key = op.key
  BY <1>1, <1>3, Lookups DEF Existing
<1> QED BY <1>1, <1>2, <1>4 DEF Single

LEMMA PromisedOfWriteFind ==
  ASSUME PagesInv, BlobsInv, WriteFind, pc' = "chunk"
  PROVE  Promised' /\ UNCHANGED <<flash, op, res>>
<1> PICK z : z = At(Earliest(Existing))
  OBVIOUS
<1>1. /\ pc = "find" /\ op.kind = "write" /\ UNCHANGED <<flash, op, res>>
      /\ loc' = IF Existing = {} THEN NoLocals
                ELSE [NoLocals EXCEPT !.ver = NextVersion(z.ver), !.prev = z.ver]
  BY DEF WriteFind, Return
<1>2. Existing # {} => z \in IndexesIn /\ z.key = op.key
  BY <1>1, ExistingIs
<1>3. /\ loc'.off = 0 /\ Count' = 0 /\ (loc'.prev # -1 => Existing # {} /\ loc'.prev = z.ver)
      /\ Existing # {} => loc'.prev = z.ver /\ loc'.ver = NextVersion(z.ver)
      /\ Existing = {} => loc'.ver = 0
  <2>1. CASE Existing = {}
    BY <1>1, <2>1, NoLocalsFacts DEF Count
  <2>2. CASE Existing # {}
    <3>1. loc'.off = 0 /\ loc'.pages = <<>> /\ loc'.prev = z.ver /\ loc'.ver = NextVersion(z.ver)
      BY <1>1, <2>2, NoLocalsFacts DEF Locals
    <3>2. Count' = 0
      BY <3>1 DEF Count
    <3> QED BY <2>2, <3>1, <3>2
  <2> QED BY <2>1, <2>2
<1>4. OldIsThere'
  BY <1>1, <1>2, <1>3, FlashStays DEF OldIsThere
<1>5. Written'
  <2>1. BlobsInv'
    BY BlobsOfWriteFind
  <2>2. Storing'
    BY <1>1 DEF Storing, WritePcs
  <2>3. \A y \in ChunksIn' : OfBlob(y, op'.key, loc'.ver) => y.index < 0
    BY <1>3, <2>1, <2>2 DEF BlobsInv, Begun, OfBlob
  <2>4. ASSUME NEW y \in Stored', OfBlob(y, op'.key, loc'.ver), y.index < 0 PROVE FALSE
    <3>1. FlashOK'
      BY <1>1 DEF PagesInv, TypeOK, FlashOK, PageType, Page
    <3>2. y \in Item /\ y.kind = "data"
      BY <2>4, <3>1, StoredThen DEF StoredFactsD, OfBlob
    <3> QED BY <2>4, <3>2, ItemKinds
  <2>5. ASSUME NEW y \in Stored', OfBlob(y, op'.key, loc'.ver) PROVE FALSE
    <3>1. y \in ChunksIn'
      BY <2>5 DEF OfBlob, ChunksIn
    <3> QED BY <2>3, <2>4, <2>5, <3>1
  <2> DEFINE s == [i \in 0 .. 0 |-> 0]
  <2>6. s \in [0 .. 0 -> 0 .. 0] /\ s[0] = 0
    OBVIOUS
  <2> HIDE DEF s
  <2>7. s \in [0 .. Count' -> 0 .. loc'.off] /\ s[0] = 0 /\ s[Count'] = loc'.off
    BY <1>3, <2>6
  <2>8. (Spells(op.key, loc.ver, Count, loc.off, op.val))'
    BY <2>5, <2>7 DEF Spells, OfBlob
  <2> QED BY <2>8 DEF Written
<1>6. NewIsLast' /\ Effect'
  BY DEF NewIsLast, Effect, Late
<1> QED BY <1>1, <1>4, <1>5, <1>6 DEF Promised

-----------------------------------------------------------------------------
(* What cmpMultiPageBlob finds equal is equal.                             *)

LEMMA EndsAt ==
  ASSUME NEW u \in Nat, NEW e \in Nat, NEW l, NEW m \in Nat, u <= e, e <= m, l = e - u
  PROVE  l \in Nat /\ e = u + l /\ u + l <= m
OBVIOUS

LEMMA UptoIs ==
  ASSUME NEW a \in Places
  PROVE  Blob[a].upto = Joined(At(a))
BY DEF Blob, Joined

LEMMA SameIsEqual ==
  ASSUME FlashOK, Filled, Ordered, Copies \/ Freeing = {}, Distinct, NEW a \in Places, At(a).kind = "index",
         NEW v \in Seq(Unit), Same(Blob[a], v)
  PROVE  Blob[a].data = v
<1> PICK x : x = At(a)
  OBVIOUS
<1> PICK d : d = Blob[a].data
  OBVIOUS
<1>1. x.count \in Nat /\ x.size \in Nat
  <2>1. x \in Item
    BY PlaceFacts DEF PlaceFactsD
  <2> QED BY <2>1, ItemKinds
<1>2. Intact(Blob[a]) /\ Blob[a].size = x.size /\ x.size = Len(v) /\ Len(d) = x.size
  BY BlobIs DEF Same, Intact
<1>3. All(x.key, x.ver, 0, x.count) /\ Sized(x.key, x.ver, x.count, x.size)
  BY <1>2, IntactIsSized
<1>4. PICK s : Offsets(x, s)
  BY <1>3 DEF Sized, Offsets
<1> DEFINE J == Joined(x)
<1>5. /\ \A i \in 0 .. x.count : Len(J[i]) = s[i]
      /\ \A i \in 0 .. x.count : J[i] \in Seq(Unit) /\ Len(J[i]) \in Nat
      /\ \A i \in 0 .. x.count - 1 : Len(J[i + 1]) = Len(J[i]) + Len(Part(x, i)) /\ Part(x, i) \in Seq(Unit)
  <2>1. \A i \in 0 .. x.count : Len(J[i]) = s[i]
    BY <1>1, <1>3, <1>4, JoinedOffsets
  <2>2. /\ \A i \in 0 .. x.count : J[i] \in Seq(Unit) /\ Len(J[i]) \in Nat
        /\ \A i \in 0 .. x.count - 1 : Len(J[i + 1]) = Len(J[i]) + Len(Part(x, i))
        /\ \A i \in Nat : Part(x, i) \in Seq(Unit)
    BY <1>1, JoinedFacts
  <2>3. \A i \in 0 .. x.count - 1 : i \in Nat
    BY <1>1
  <2> HIDE DEF J
  <2> QED BY <2>1, <2>2, <2>3
<1>6. d = J[x.count] /\ Blob[a].upto = J /\ DOMAIN J = 0 .. x.count
  <2>1. J = [i \in 0 .. x.count |-> IF i = 0 THEN <<>> ELSE J[i - 1] \o Part(x, i - 1)]
    BY <1>1, JoinedExists, Zenon
  <2>2. d = J[x.count] /\ Blob[a].upto = J
    BY BlobIs, UptoIs
  <2> HIDE DEF J
  <2> QED BY <2>1, <2>2
<1> HIDE DEF J
<1>7. d \in Seq(Unit)
  BY <1>1, <1>5, <1>6
<1>8. Splits(s, x.count, x.size)
  <2>1. s \in [0 .. x.count -> 0 .. x.size] /\ s[0] = 0 /\ s[x.count] = x.size
    BY <1>4 DEF Offsets
  <2>2. ASSUME NEW i \in 0 .. x.count - 1 PROVE s[i] <= s[i + 1]
    <3>1. i \in 0 .. x.count /\ i + 1 \in 0 .. x.count
      BY <1>1
    <3>2. Len(Part(x, i)) \in Nat
      BY <1>5, LenProperties
    <3>3. Len(J[i + 1]) = Len(J[i]) + Len(Part(x, i)) /\ Len(J[i]) \in Nat
      BY <1>5, <3>1
    <3>4. Len(J[i]) <= Len(J[i + 1])
      BY <3>2, <3>3
    <3> QED BY <1>5, <3>1, <3>4
  <2> QED BY <1>1, <2>1, <2>2 DEF Splits
<1>9. ASSUME NEW m \in 1 .. x.size PROVE v[m] = d[m]
  <2>1. PICK i \in 0 .. x.count - 1 : m - s[i] \in 1 .. s[i + 1] - s[i] /\ s[i] + (m - s[i]) = m
    BY <1>8, SplitsCover
  <2>2. i \in 0 .. x.count /\ i + 1 \in 0 .. x.count /\ i + 1 # 0 /\ (i + 1) - 1 = i
    BY <1>1
  <2>3. s[i] \in 0 .. x.size /\ s[i + 1] \in 0 .. x.size /\ s[i] <= s[i + 1]
    BY <1>8, <2>2 DEF Splits
  <2> PICK u : u = s[i]
    OBVIOUS
  <2> PICK e : e = s[i + 1]
    OBVIOUS
  <2> PICK l : l = e - u
    OBVIOUS
  <2> PICK j : j = m - u
    OBVIOUS
  <2>4. u \in Nat /\ l \in Nat /\ e = u + l /\ u + l <= x.size /\ j \in 1 .. l /\ u + j = m
    <3>1. u \in Nat /\ e \in Nat /\ u <= e /\ e <= x.size
      BY <1>1, <2>3
    <3>2. j \in 1 .. e - u /\ u + j = m
      BY <2>1
    <3>3. l \in Nat /\ e = u + l /\ u + l <= x.size
      <4>1. u \in Nat /\ e \in Nat /\ l = e - u /\ x.size \in Nat /\ u <= e /\ e <= x.size
        BY <1>1, <3>1
      <4> QED BY ONLY <4>1, EndsAt
    <3> QED BY <3>1, <3>2, <3>3
  <2> PICK part : part = SubSeq(d, u + 1, e)
    OBVIOUS
  <2>5. SubSeq(v, u + 1, u + Len(part)) = part
    <3>1. i + 1 \in DOMAIN Blob[a].upto \ {0}
      BY <1>6, <2>2
    <3>2. Len(J[i]) = u /\ Len(J[i + 1]) = e
      BY <1>5, <2>2
    <3>3. LET start == Len(Blob[a].upto[(i + 1) - 1])
              piece == SubSeq(Blob[a].data, start + 1, Len(Blob[a].upto[i + 1]))
          IN  SubSeq(v, start + 1, start + Len(piece)) = piece
      BY <3>1 DEF Same
    <3> QED BY <1>6, <2>2, <3>2, <3>3
  <2>6. v[u + j] = d[u + j]
    <3>1. Len(SubSeq(d, u + 1, u + l)) = l /\ \A q \in 1 .. l : SubSeq(d, u + 1, u + l)[q] = d[u + q]
      <4>1. u \in Nat /\ l \in Nat /\ u + l <= Len(d) /\ d \in Seq(Unit)
        BY <1>2, <1>7, <2>4
      <4> QED BY ONLY <4>1, SubSeqIs, Zenon
    <3>2. \A q \in 1 .. l : SubSeq(v, u + 1, u + l)[q] = v[u + q]
      <4>1. u \in Nat /\ l \in Nat /\ u + l <= Len(v) /\ v \in Seq(Unit)
        BY <1>2, <2>4
      <4> QED BY ONLY <4>1, SubSeqIs, Zenon
    <3>3. part = SubSeq(d, u + 1, u + l) /\ Len(part) = l
      BY <2>4, <3>1
    <3>4. part = SubSeq(v, u + 1, u + l)
      BY <2>5, <3>3
    <3>5. part[j] = d[u + j]
      BY <2>4, <3>1, <3>3
    <3>6. part[j] = v[u + j]
      BY <2>4, <3>2, <3>4
    <3> QED BY <3>5, <3>6
  <2> QED BY <2>4, <2>6
<1>10. d = v
  <2>1. Len(d) = Len(v) /\ \A m \in 1 .. Len(v) : v[m] = d[m]
    BY <1>2, <1>9
  <2> QED BY <1>7, <2>1, SeqEqual
<1> QED BY <1>10

-----------------------------------------------------------------------------
(* The blobs are a key store, step by step.                                *)

LEMMA ReadOfWriteNothing ==
  ASSUME PagesInv, BlobsInv, WriteNothing
  PROVE  Content[op.key] = op.val
<1>1. pc = "find" /\ op.kind = "write" /\ Existing # {} /\ Same(Blob[Earliest(Existing)], op.val)
  BY DEF WriteNothing
<1>2. Freeing = {} /\ FlashOK /\ Filled /\ Ordered /\ Distinct /\ TypeOK /\ Readable
  BY <1>1, QuietSingle, ReadableNow DEF Moves, BlobsInv, ReadableNowD
<1> PICK a : a = Earliest(Existing)
  OBVIOUS
<1> PICK x : x = At(a)
  OBVIOUS
<1>3. a \in Places /\ x \in IndexesIn /\ x.key = op.key /\ \A y \in IndexesIn : y.key = op.key => y = x
  BY <1>1, ExistingIs
<1>4. x.kind = "index" /\ Newest(x)
  BY <1>3, OnlyIsNewest DEF OnlyIsNewestD, IndexesIn
<1>5. Intact(Blob[a]) /\ op.val \in Seq(Unit)
  BY <1>1, <1>2, OpFacts, ValueFacts DEF Same
<1>6. Blob[a].data = op.val
  BY <1>1, <1>2, <1>3, <1>4, <1>5, SameIsEqual
<1>7. Holds(x, Blob[a].data)
  BY <1>2, <1>3, <1>4, <1>5, IntactHolds
<1> QED BY <1>2, <1>3, <1>4, <1>6, <1>7, NewestReads DEF NewestReadsD

LEMMA ReadOfEraseMissing ==
  ASSUME PagesInv, BlobsInv, EraseMissing
  PROVE  Content[op.key] = None
<1>1. pc = "find" /\ op.kind = "erase" /\ Existing = {}
  BY DEF EraseMissing
<1>2. Readable /\ op.key \in Keys
  BY <1>1, ReadableNow, OpFacts DEF ReadableNowD, PagesInv
<1>3. \A x \in IndexesIn : x.key # op.key
  BY <1>1, ExistingIs
<1> QED BY <1>2, <1>3, NewestReads DEF NewestReadsD

LEMMA ReadOfNothing ==
  ASSUME PagesInv, BlobsInv, pc = "find", InNamespace = {}, NEW k \in Keys, NsOf[k] = op.ns
  PROVE  Content[k] = None
<1>1. Freeing = {} /\ FlashOK /\ Readable
  BY QuietSingle, ReadableNow DEF Moves, ReadableNowD
<1>2. \A x \in IndexesIn : x.key # k
  <2>1. \A x \in IndexesIn : \E a \in Places : At(a) = x
    BY <1>1, StoredFacts DEF StoredFactsD, IndexesIn
  <2> QED BY <2>1 DEF InNamespace
<1> QED BY <1>1, <1>2, NewestReads DEF NewestReadsD

Refines == Abstract!Next \/ Refused \/ Forgotten \/ UNCHANGED <<Content, op, res>>

LEMMA RefinesBy ==
  ASSUME Content' = Content, UNCHANGED <<op, res>>
  PROVE  Refines
BY DEF Refines

\* The running call has taken effect.
Done ==
  CASE op.kind = "write"     -> Content[op.key] = op.val
    [] op.kind = "erase"     -> Content[op.key] = None
    [] op.kind = "erase_all" -> \A k \in Keys : NsOf[k] = op.ns => Content[k] = None
    [] OTHER                 -> FALSE

LEMMA AbstractSteps ==
  ASSUME op.kind # "read", op'.kind # "read"
  PROVE
  /\ op = NoRequest /\ op' \in Requests /\ res' = "none" /\ Content' = Content => Abstract!Begin
  /\ op' = NoRequest /\ res' = "none" /\ Content' = Content => Abstract!PowerLoss
  /\ op # NoRequest /\ Done /\ op' = NoRequest /\ res' = "ok" /\ Content' = Content => Abstract!Succeed
  /\ /\ op.kind = "erase" /\ Done /\ res' = "not_found"
     /\ op' = NoRequest /\ Content' = Content
     => Abstract!Refuse
  /\ /\ ~Done
     /\ \/ op.kind = "write" /\ Content' = [Content EXCEPT ![op.key] = op.val]
        \/ op.kind = "erase" /\ Content' = [Content EXCEPT ![op.key] = None]
        \/ /\ op.kind = "erase_all"
           /\ \E k \in Keys : /\ NsOf[k] = op.ns /\ Content[k] # None
                              /\ Content' = [Content EXCEPT ![k] = None]
     /\ UNCHANGED <<op, res>>
     => Abstract!Apply
<1>1. Abstract!NoRequest = NoRequest /\ Abstract!Requests = Requests
  BY DEF Abstract!NoRequest, NoRequest,
       Abstract!Requests, Requests, Abstract!Request, Request, Abstract!WriteRequest, WriteRequest,
       Abstract!EraseRequest, EraseRequest, Abstract!EraseAllRequest, EraseAllRequest
<1>2. \A n : Abstract!InNamespace(n) = {k \in Keys : NsOf[k] = n /\ Content[k] # None}
  BY DEF Abstract!InNamespace
<1>3. Abstract!Applied <=> Done
  BY <1>2 DEF Abstract!Applied, Done
<1>4. op = NoRequest /\ op' \in Requests /\ res' = "none" /\ Content' = Content => Abstract!Begin
  BY <1>1 DEF Abstract!Begin
<1>5. op' = NoRequest /\ res' = "none" /\ Content' = Content => Abstract!PowerLoss
  BY <1>1 DEF Abstract!PowerLoss
<1>6. op # NoRequest /\ Done /\ op' = NoRequest /\ res' = "ok" /\ Content' = Content => Abstract!Succeed
  BY <1>1, <1>3 DEF Abstract!Succeed
<1>7. /\ op.kind = "erase" /\ Done /\ res' = "not_found"
      /\ op' = NoRequest /\ Content' = Content
      => Abstract!Refuse
  BY <1>1, <1>3 DEF Abstract!Refuse
<1>8. /\ ~Done
      /\ \/ op.kind = "write" /\ Content' = [Content EXCEPT ![op.key] = op.val]
         \/ op.kind = "erase" /\ Content' = [Content EXCEPT ![op.key] = None]
         \/ /\ op.kind = "erase_all"
            /\ \E k \in Keys : /\ NsOf[k] = op.ns /\ Content[k] # None
                               /\ Content' = [Content EXCEPT ![k] = None]
      /\ UNCHANGED <<op, res>>
      => Abstract!Apply
  BY <1>2, <1>3 DEF Abstract!Apply
<1> QED BY <1>4, <1>5, <1>6, <1>7, <1>8

LEMMA MountRefines ==
  ASSUME PagesInv, BlobsInv, PagesInv', BlobsInv', Mounting
  PROVE  Refines /\ Promised'
<1>1. Readable /\ Readable'
  BY ReadableNow, ReadableThen DEF ReadableNowD
<1>2. /\ UNCHANGED <<op, res>> /\ pc \in Mount /\ pc' \in Mount \cup {"copy", "idle"}
  BY DEF Mounting, PowerOn, RepairPage, CheckLast, Load, DropDuplicate, Recover, NothingToRecover, EraseMismatched,
         EraseOrphans, ram, Mount
<1>3. op' = NoRequest
  BY <1>2 DEF PagesInv, Called
<1>4. Promised'
  BY <1>2, <1>3, NothingPromised DEF NoRequest, Request, Mount, Late
<1>5. CASE PowerOn \/ Load \/ NothingToRecover
  <2>1. UNCHANGED flash
    BY <1>5 DEF PowerOn, Load, NothingToRecover
  <2>2. Content' = Content
    BY <1>1, <2>1, FlashStaysRead
  <2> QED BY <1>2, <1>4, <2>2, RefinesBy
<1>6. CASE Recover
  <2>1. Content' = Content
    BY <1>1, <1>6, BlobsOfRecover, StoredStaysRead
  <2> QED BY <1>2, <1>4, <2>1, RefinesBy
<1>7. CASE RepairPage \/ DropDuplicate \/ EraseMismatched \/ EraseOrphans
  <2>1. Content' = Content
    BY <1>1, <1>7, ReadOfRepairPage, ReadOfDropDuplicate, ReadOfEraseMismatched, ReadOfEraseOrphans
  <2> QED BY <1>2, <1>4, <2>1, RefinesBy
<1>8. CASE CheckLast
  <2>1. Content' = Content \/ Forgotten
    BY <1>1, <1>8, ReadOfCheckLast
  <2> QED BY <1>2, <1>4, <2>1, RefinesBy DEF Refines
<1> QED BY <1>5, <1>6, <1>7, <1>8 DEF Mounting

LEMMA MoveRefines ==
  ASSUME PagesInv, BlobsInv, PagesInv', BlobsInv', Promised,
         \/ SkipPage \/ ClosePage \/ TakeFreePage \/ StartFreeing
         \/ Copy \/ Reclaim
  PROVE  Refines /\ Promised'
<1>1. Readable /\ Readable'
  BY ReadableNow, ReadableThen DEF ReadableNowD
<1>2. StoredStays
  BY BlobsOfWriteMoves, BlobsOfCopy, BlobsOfReclaim
<1>3. Content' = Content
  BY <1>1, <1>2, StoredStaysRead
<1>4. /\ UNCHANGED <<op, res>> /\ pc \in WritePcs \cup Moves
      /\ loc'.off = loc.off /\ loc'.pages = loc.pages /\ loc'.ver = loc.ver /\ loc'.prev = loc.prev
      /\ pc' \in WritePcs \cup Moves \/ (pc = "reclaim" /\ pc' = "match" /\ op = NoRequest)
  <2>1. CASE SkipPage
    BY <2>1 DEF SkipPage, PagesInv, TypeOK, Locals, WritePcs, Moves
  <2>2. CASE ClosePage \/ TakeFreePage \/ StartFreeing \/ Copy \/ Reclaim
    BY <2>2 DEF ClosePage, TakeFreePage, StartFreeing, Copy, Reclaim, ram, WritePcs, Moves
  <2> QED BY <2>1, <2>2
<1>5. CASE op.kind = "write"
  <2>1. Storing /\ pc' \in WritePcs \cup Moves
    BY <1>4, <1>5 DEF Storing, NoRequest, Request
  <2>2. Promised'
    BY <1>2, <1>4, <2>1, StillStoring
  <2> QED BY <1>3, <1>4, <2>2, RefinesBy
<1>6. CASE op.kind # "write"
  <2>1. Promised'
    BY <1>4, <1>6, NothingPromised DEF WritePcs, Moves, Late
  <2> QED BY <1>3, <1>4, <2>1, RefinesBy
<1> QED BY <1>5, <1>6

LEMMA CallRefines ==
  ASSUME PagesInv, BlobsInv, PagesInv', BlobsInv', BeginCall \/ PowerLoss
  PROVE  Refines /\ Promised'
<1>1. Readable /\ Readable'
  BY ReadableNow, ReadableThen DEF ReadableNowD
<1>2. op.kind # "read" /\ op'.kind # "read"
  BY OpIsCall, OpIsCallThen
<1>3. CASE BeginCall
  <2>1. pc = "idle" /\ pc' = "find" /\ UNCHANGED flash /\ res' = "none" /\ op' \in Requests
    BY <1>3, NothingIsPurged DEF BeginCall
  <2>2. op = NoRequest
    BY <2>1 DEF PagesInv, Called
  <2>3. Content' = Content
    BY <1>1, <2>1, FlashStaysRead
  <2>4. Promised'
    BY <2>1, NothingPromised DEF WritePcs, Moves, Late
  <2> QED BY <1>2, <2>1, <2>2, <2>3, <2>4, AbstractSteps DEF Refines, Abstract!Next
<1>4. CASE PowerLoss
  <2>1. pc' = "off" /\ op' = NoRequest /\ res' = "none"
    BY <1>4 DEF PowerLoss
  <2>2. Content' = Content
    BY <1>1, <1>4, BlobsOfPowerLoss, FlashStaysRead, StoredStaysRead
  <2>3. Promised'
    BY <2>1, NothingPromised DEF WritePcs, Moves, Late
  <2> QED BY <1>2, <2>1, <2>2, <2>3, AbstractSteps DEF Refines, Abstract!Next
<1> QED BY <1>3, <1>4

LEMMA ReturnRefines ==
  ASSUME PagesInv, BlobsInv, PagesInv', BlobsInv', Promised,
         \/ WriteNothing \/ NoImprovement \/ EraseMissing \/ Finish
         \/ (WriteFind /\ pc' = "idle") \/ (EraseAll /\ InNamespace = {})
  PROVE  Refines /\ Promised'
<1>1. Readable /\ Readable'
  BY ReadableNow, ReadableThen DEF ReadableNowD
<1>2. op.kind # "read" /\ op'.kind # "read"
  BY OpIsCall, OpIsCallThen
<1>3. UNCHANGED flash /\ pc' = "idle" /\ op' = NoRequest
  BY DEF WriteNothing, NoImprovement, EraseMissing, Finish, WriteFind, EraseAll, Return
<1>4. Content' = Content
  BY <1>1, <1>3, FlashStaysRead
<1>5. Promised'
  BY <1>3, NothingPromised DEF WritePcs, Moves, Late
<1>6. \A c : c.kind # "none" => c # NoRequest
  BY DEF NoRequest, Request
<1>7. CASE WriteNothing
  <2>1. op.kind = "write" /\ res' = "ok" /\ Content[op.key] = op.val
    BY <1>7, ReadOfWriteNothing DEF WriteNothing, Return
  <2>2. op # NoRequest /\ Done
    BY <1>6, <2>1 DEF Done
  <2> QED BY <1>2, <1>3, <1>4, <1>5, <2>1, <2>2, AbstractSteps DEF Refines, Abstract!Next
<1>8. CASE NoImprovement \/ (WriteFind /\ pc' = "idle")
  <2>1. res' = "no_space"
    BY <1>8 DEF NoImprovement, WriteFind, Return
  <2> QED BY <1>4, <1>5, <2>1 DEF Refines, Refused
<1>9. CASE EraseMissing
  <2>1. op.kind = "erase" /\ res' = "not_found" /\ Content[op.key] = None
    BY <1>9, ReadOfEraseMissing DEF EraseMissing, Return
  <2>2. Done
    BY <2>1 DEF Done
  <2> QED BY <1>2, <1>3, <1>4, <1>5, <2>1, <2>2, AbstractSteps DEF Refines, Abstract!Next
<1>10. CASE Finish
  <2>1. res' = "ok" /\ (pc = "return" \/ pc = "old_chunks")
    BY <1>10 DEF Finish, Return
  <2>2. op.kind = "write" \/ (pc = "old_chunks" /\ op.kind = "erase")
    BY <2>1 DEF PagesInv, Called, Late
  <2>3. /\ op.kind = "write" => Content[op.key] = op.val
        /\ op.kind = "erase" => Content[op.key] = None
    BY <2>1, <2>2 DEF Promised, Effect, Late
  <2>4. op # NoRequest /\ Done
    BY <1>6, <2>2, <2>3 DEF Done
  <2> QED BY <1>2, <1>3, <1>4, <1>5, <2>1, <2>4, AbstractSteps DEF Refines, Abstract!Next
<1>11. CASE EraseAll /\ InNamespace = {}
  <2>1. op.kind = "erase_all" /\ res' = "ok" /\ pc = "find"
    BY <1>11 DEF EraseAll, Return
  <2>2. \A k \in Keys : NsOf[k] = op.ns => Content[k] = None
    BY <1>11, <2>1, ReadOfNothing
  <2>3. op # NoRequest /\ Done
    BY <1>6, <2>1, <2>2 DEF Done
  <2> QED BY <1>2, <1>3, <1>4, <1>5, <2>1, <2>3, AbstractSteps DEF Refines, Abstract!Next
<1> QED BY <1>7, <1>8, <1>9, <1>10, <1>11

LEMMA TakesEffect ==
  ASSUME NEW k \in Keys, NEW d, Content' = [Content EXCEPT ![k] = d]
  PROVE  Content'[k] = d /\ (Content[k] = d => Content' = Content)
<1>1. Content = [b \in Keys |-> Content[b]]
  BY DEF Content
<1> QED BY <1>1

LEMMA WriteRefines ==
  ASSUME PagesInv, BlobsInv, PagesInv', BlobsInv', Promised,
         (WriteFind /\ pc' = "chunk") \/ WriteChunk \/ WriteIndex
  PROVE  Refines /\ Promised'
<1>1. Readable /\ Readable'
  BY ReadableNow, ReadableThen DEF ReadableNowD
<1>2. CASE WriteFind /\ pc' = "chunk"
  <2>1. Promised' /\ UNCHANGED <<flash, op, res>>
    BY <1>2, PromisedOfWriteFind
  <2>2. Content' = Content
    BY <1>1, <2>1, FlashStaysRead
  <2> QED BY <2>1, <2>2, RefinesBy
<1>3. CASE WriteChunk
  <2>1. Content' = Content
    BY <1>1, <1>3, ReadOfWriteChunk
  <2>2. Written'
    BY <1>3, WrittenOfWriteChunk DEF Promised
  <2>3. /\ UNCHANGED <<op, res>> /\ pc = "chunk" /\ pc' \in {"close", "chunk"}
        /\ loc' = [loc EXCEPT !.off = @ + Len(Piece), !.pages = Append(@, cur)]
    BY <1>3 DEF WriteChunk
  <2>4. loc'.prev = loc.prev /\ op.kind = "write"
    BY <2>3 DEF PagesInv, TypeOK, Locals, Called, WritePcs
  <2>5. IndexesIn' = IndexesIn
    BY <1>3, BlobsOfWriteChunk
  <2>6. OldIsThere'
    BY <2>3, <2>4, <2>5 DEF Promised, OldIsThere, Storing, WritePcs
  <2>7. NewIsLast' /\ Effect'
    BY <2>3 DEF NewIsLast, Effect, Late
  <2> QED BY <2>1, <2>2, <2>3, <2>6, <2>7, RefinesBy DEF Promised
<1>4. CASE WriteIndex
  <2> PICK k : k = op.key
    OBVIOUS
  <2> PICK d : d = op.val
    OBVIOUS
  <2>1. /\ Content' = [Content EXCEPT ![k] = d] /\ k \in Keys /\ UNCHANGED <<op, loc, res>>
        /\ pc' \in {"return", "old_index"} /\ OldIsThere' /\ NewIsLast'
    BY <1>1, <1>4, ReadOfWriteIndex DEF Promised
  <2>2. Content'[k] = d /\ (Content[k] = d => Content' = Content)
    BY <2>1, TakesEffect
  <2>3. op.kind = "write"
    BY <1>4 DEF WriteIndex, PagesInv, Called, WritePcs
  <2>4. Effect'
    BY <2>1, <2>2, <2>3 DEF Effect
  <2>5. Written'
    BY <2>1 DEF Written, Storing, WritePcs, Moves
  <2>6. CASE Content[k] = d
    BY <2>1, <2>2, <2>4, <2>5, <2>6, RefinesBy DEF Promised
  <2>7. CASE Content[k] # d
    <3>1. op.kind # "read" /\ op'.kind # "read"
      BY <2>1, <2>3
    <3>2. ~Done
      BY <2>3, <2>7 DEF Done
    <3>3. Abstract!Apply
      BY <2>1, <2>3, <3>1, <3>2, AbstractSteps
    <3> QED BY <2>1, <2>4, <2>5, <3>3 DEF Promised, Refines, Abstract!Next
  <2> QED BY <2>6, <2>7
<1> QED BY <1>2, <1>3, <1>4

LEMMA EraseRefines ==
  ASSUME PagesInv, BlobsInv, PagesInv', BlobsInv', Promised,
         EraseFind \/ EraseOldIndex \/ EraseOldChunk
  PROVE  Refines /\ Promised'
<1>1. Readable /\ Readable'
  BY ReadableNow, ReadableThen DEF ReadableNowD
<1>2. CASE EraseFind
  <2> PICK z : z = At(Earliest(Existing))
    OBVIOUS
  <2>1. /\ pc = "find" /\ op.kind = "erase" /\ Existing # {} /\ UNCHANGED <<flash, op, res>> /\ pc' = "old_index"
        /\ loc' = [loc EXCEPT !.prev = z.ver]
    BY <1>2 DEF EraseFind
  <2>2. Content' = Content
    BY <1>1, <2>1, FlashStaysRead
  <2>3. z \in IndexesIn /\ z.key = op.key
    BY <2>1, ExistingIs
  <2>4. z \in IndexesIn'
    BY <2>1, <2>3, FlashStays
  <2>5. loc'.prev = z.ver
    BY <2>1 DEF PagesInv, TypeOK, Locals
  <2>6. OldIsThere'
    BY <2>1, <2>3, <2>4, <2>5 DEF OldIsThere
  <2>7. Written' /\ NewIsLast' /\ Effect'
    BY <2>1 DEF Written, NewIsLast, Effect, Storing
  <2> QED BY <2>1, <2>2, <2>6, <2>7, RefinesBy DEF Promised
<1>3. CASE EraseOldIndex
  <2> PICK k : k = op.key
    OBVIOUS
  <2>1. /\ pc = "old_index" /\ pc' = "old_chunks" /\ UNCHANGED <<op, res>>
        /\ op.kind = "write" => Content' = Content
        /\ op.kind = "erase" => Content' = [Content EXCEPT ![k] = None]
    BY <1>1, <1>3, ReadOfEraseOldIndex DEF Promised
  <2>2. op.kind \in {"write", "erase"} /\ k \in Keys
    BY <2>1, OpFacts DEF PagesInv, Called, Late
  <2>3. Written' /\ OldIsThere' /\ NewIsLast'
    BY <2>1 DEF Written, OldIsThere, NewIsLast, Storing, WritePcs, Moves
  <2>4. CASE op.kind = "write"
    <3>1. Effect'
      BY <2>1, <2>4 DEF Promised, Effect, Late
    <3> QED BY <2>1, <2>3, <2>4, <3>1, RefinesBy DEF Promised
  <2>5. CASE op.kind = "erase"
    <3>1. Content'[k] = None /\ (Content[k] = None => Content' = Content)
      BY <2>1, <2>2, <2>5, TakesEffect
    <3>2. Effect'
      BY <2>1, <2>5, <3>1 DEF Effect
    <3>3. CASE Content[k] = None
      BY <2>1, <2>3, <3>1, <3>2, <3>3, RefinesBy DEF Promised
    <3>4. CASE Content[k] # None
      <4>1. op.kind # "read" /\ op'.kind # "read"
        BY <2>1, <2>5
      <4>2. ~Done
        BY <2>5, <3>4 DEF Done
      <4>3. Abstract!Apply
        BY <2>1, <2>5, <4>1, <4>2, AbstractSteps
      <4> QED BY <2>3, <3>2, <4>3 DEF Promised, Refines, Abstract!Next
    <3> QED BY <3>3, <3>4
  <2> QED BY <2>2, <2>4, <2>5
<1>4. CASE EraseOldChunk
  <2>1. Content' = Content /\ OldChunk # {}
    BY <1>1, <1>4, ReadOfEraseOldChunk
  <2>2. pc = "old_chunks" /\ UNCHANGED <<pc, op, res>>
    BY <1>4, <2>1 DEF EraseOldChunk
  <2>3. Written' /\ OldIsThere' /\ NewIsLast'
    BY <2>2 DEF Written, OldIsThere, NewIsLast, Storing, WritePcs, Moves
  <2>4. Effect'
    BY <2>1, <2>2 DEF Promised, Effect
  <2> QED BY <2>1, <2>2, <2>3, <2>4, RefinesBy DEF Promised
<1> QED BY <1>2, <1>3, <1>4

LEMMA EraseAllRefines ==
  ASSUME PagesInv, BlobsInv, PagesInv', BlobsInv', Promised, EraseAll, InNamespace # {}
  PROVE  Refines /\ Promised'
<1>1. Readable /\ Readable'
  BY ReadableNow, ReadableThen DEF ReadableNowD
<1>2. pc = "find" /\ op.kind = "erase_all"
  BY DEF EraseAll
<1>3. /\ UNCHANGED <<pc, op, res>>
      /\ \/ Content' = Content
         \/ \E k \in Keys : NsOf[k] = op.ns /\ Content' = [Content EXCEPT ![k] = None]
  BY <1>1, ReadOfEraseAll
<1>4. Promised'
  BY <1>2, <1>3, NothingPromised DEF WritePcs, Moves, Late
<1>5. CASE Content' = Content
  BY <1>3, <1>4, <1>5, RefinesBy
<1>6. CASE Content' # Content
  <2>1. PICK k \in Keys : NsOf[k] = op.ns /\ Content' = [Content EXCEPT ![k] = None]
    BY <1>3, <1>6
  <2>2. Content[k] # None
    BY <1>6, <2>1, TakesEffect
  <2>3. ~Done
    BY <1>2, <2>1, <2>2 DEF Done
  <2>4. op.kind # "read" /\ op'.kind # "read"
    BY <1>2, <1>3
  <2>5. Abstract!Apply
    BY <1>2, <1>3, <2>1, <2>2, <2>3, <2>4, AbstractSteps
  <2> QED BY <1>4, <2>5 DEF Refines, Abstract!Next
<1> QED BY <1>5, <1>6

\* Every step of the library that gives no write up, and no mount that makes good a write
\* that was given up, is a step of the key store.
LEMMA StepRefines ==
  ASSUME PagesInv, BlobsInv, PagesInv', BlobsInv', Promised, ~gaveUp', Next
  PROVE  Refines /\ Promised'
<1>1. ASSUME Mounting PROVE Refines /\ Promised'
  BY <1>1, MountRefines
<1>2. ASSUME Moving PROVE Refines /\ Promised'
  <2>1. ~NoNewPage
    BY DEF NoNewPage, GiveUp
  <2> QED BY <1>2, <2>1, MoveRefines DEF Moving
<1>3. ASSUME Writing PROVE Refines /\ Promised'
  <2>1. ~NoRoom
    BY DEF NoRoom, GiveUp
  <2>2. ~CleanUp /\ ~CleanedUp
    BY DEF CleanUp, CleanedUp, BlobsInv, Untouched
  <2>3. WriteFind => pc' \in {"chunk", "idle"}
    BY DEF WriteFind, Return
  <2> QED BY <1>3, <2>1, <2>2, <2>3, ReturnRefines, MoveRefines, WriteRefines DEF Writing
<1>4. ASSUME Erasing PROVE Refines /\ Promised'
  <2>1. ~Purge
    BY DEF Purge, BlobsInv, Untouched
  <2> QED BY <1>4, <2>1, ReturnRefines, EraseRefines, EraseAllRefines DEF Erasing
<1>5. ASSUME BeginCall \/ PowerLoss PROVE Refines /\ Promised'
  BY <1>5, CallRefines
<1> QED BY <1>1, <1>2, <1>3, <1>4, <1>5 DEF Next, Step

\* The mount that makes good a write that was given up.
LEMMA CleanMountRefines ==
  ASSUME PagesInv, BlobsInv', EraseOrphans, gaveUp, ~gaveUp', PagesInv'
  PROVE  Refines /\ Promised'
<1>1. /\ pc = "orphan" /\ pc' = "idle" /\ UNCHANGED <<flash, op, res>> /\ Clean
      /\ FlashOK /\ Filled /\ Ordered
  BY DEF EraseOrphans, PagesInv, TypeOK
<1>2. Freeing = {}
  BY <1>1, NotMoving DEF Moves
<1>3. Distinct /\ Copies /\ Complete
  BY <1>1, <1>2, CleanIsComplete
<1>4. PairsKnown
  <2>1. \A a \in RealPlaces : At(a).kind = "index" => At(a) \in IndexesIn
    BY <1>1, StoredFacts DEF StoredFactsD, IndexesIn
  <2> QED BY <1>3, <2>1 DEF PairsKnown, Complete, Single, Distinct, SameItem
<1>5. Readable /\ Readable'
  BY <1>1, <1>3, <1>4, ReadableThen DEF ReadableNowD, Readable
<1>6. Content' = Content
  BY <1>1, <1>5, FlashStaysRead
<1>7. Promised'
  BY <1>1, NothingPromised DEF WritePcs, Moves, Late
<1> QED BY <1>1, <1>6, <1>7, RefinesBy

LEMMA InitRefines ==
  Init => Abstract!Init /\ Promised
<1> SUFFICES ASSUME Init PROVE Abstract!Init /\ Promised
  OBVIOUS
<1>1. PagesInv /\ BlobsInv
  BY PagesInit, InitBlobs
<1>2. Readable
  BY <1>1, ReadableNow DEF ReadableNowD
<1>3. pc = "off" /\ op = NoRequest /\ res = "none" /\ \A p \in Page : Items(p) = <<>>
  BY DEF Init, Items, ErasedPage
<1>4. IndexesIn = {}
  BY <1>3 DEF Places, RealPlaces, Stored, IndexesIn
<1>5. \A k \in Keys : Content[k] = None
  BY <1>2, <1>4, NewestReads DEF NewestReadsD
<1>6. Content = [k \in Keys |-> None]
  <2>1. Content = [k \in Keys |-> Content[k]]
    BY DEF Content
  <2> QED BY <1>5, <2>1
<1>7. Abstract!NoRequest = NoRequest
  BY DEF NoRequest, Abstract!NoRequest, Request, Abstract!Request
<1>8. Promised
  BY <1>3 DEF Promised, Written, OldIsThere, NewIsLast, Effect, Storing, WritePcs, Moves, Late
<1> QED BY <1>3, <1>6, <1>7, <1>8 DEF Abstract!Init

LEMMA PromisedDependsOn ==
  ASSUME UNCHANGED vars
  PROVE  Content' = Content /\ (Promised => Promised')
<1>1. UNCHANGED <<flash, pc, op, loc>>
  BY DEF vars, ram
<1>2. Content' = Content
  BY <1>1 DEF Content, Indexes, Places, Items, At, Blob, Part, ChunksOf, Intact, Latest, Before, Earliest
<1>3. Promised => Promised'
  BY <1>1, <1>2
  DEF Promised, Written, OldIsThere, NewIsLast, Effect, Storing, Count, Spells, OfBlob, IndexesIn, Stored,
      RealPlaces, Places, Items, At, StateOf, Freeing, IsLast
<1> QED BY <1>2, <1>3

Kept == ~gaveUp => Promised

LEMMA BlobsRefine ==
  ASSUME IInv, IInv', Kept, [Next]_vars
  PROVE  [Abstract!Next \/ Refused \/ Forgotten \/ gaveUp']_<<Content, op, res>> /\ Kept'
<1>1. CASE gaveUp'
  BY <1>1 DEF Kept
<1>2. CASE ~gaveUp' /\ Next
  <2>1. PagesInv /\ PagesInv' /\ BlobsInv'
    BY <1>2 DEF IInv
  <2>2. Refines /\ Promised'
    <3>1. CASE ~gaveUp
      BY <1>2, <2>1, <3>1, StepRefines DEF IInv, Kept
    <3>2. CASE gaveUp
      BY <1>2, <2>1, <3>2, GivenUp, CleanMountRefines
    <3> QED BY <3>1, <3>2
  <2> QED BY <2>2 DEF Refines, Kept
<1>3. CASE ~gaveUp' /\ UNCHANGED vars
  <2>1. gaveUp' = gaveUp /\ UNCHANGED <<op, res>>
    BY <1>3 DEF vars, ram
  <2>2. Content' = Content /\ (Promised => Promised')
    BY <1>3, PromisedDependsOn
  <2> QED BY <2>1, <2>2 DEF Kept
<1> QED BY <1>1, <1>2, <1>3

\* As long as no write was given up in the middle, the blobs are a key store (writeItem,
\* eraseMultiPageBlob, eraseNamespace, init): a write takes effect with its index item, also
\* when its chunks lie on several pages, an erase with the erasing of the index item; a page
\* move and a power loss at any moment change the value of no key; a mount changes none, except
\* that loading a page may forget the blob of the key whose chunk is the last item there
\* (mLoadEntryTable); and what a call returns is true of the store.
THEOREM BlobStoreImplemented == Spec => ImplementsKeyStore
<1>1. Init => Abstract!Init /\ Kept
  BY InitRefines DEF Kept
<1>2. IInv /\ IInv' /\ Kept /\ [Next]_vars
      => [Abstract!Next \/ Refused \/ Forgotten \/ gaveUp']_<<Content, op, res>> /\ Kept'
  BY BlobsRefine
<1>3. Spec => []IInv
  BY BlobInvariance
<1> QED BY <1>1, <1>2, <1>3, PTL DEF Spec, ImplementsKeyStore

\* A write that returned ESP_OK is what a read returns (nvs.h:332, "if value was set
\* successfully"), unless a write was given up in the middle since the last clean mount: the
\* counterexample of WrittenIsRead is of that kind, and no other is.
THEOREM WrittenIsReadUnlessGivenUp ==
  Spec => [][ ~gaveUp' /\ op.kind = "write" /\ op' = NoRequest /\ res' = "ok"
              => Content'[op.key] = op.val ]_vars
<1>1. ASSUME [Abstract!Next \/ Refused \/ Forgotten \/ gaveUp']_<<Content, op, res>>,
             ~gaveUp', op.kind = "write", op' = NoRequest, res' = "ok"
      PROVE  Content'[op.key] = op.val
  <2>1. NoRequest.kind = "none"
    BY DEF NoRequest, Request
  <2>2. op # NoRequest /\ op' # op
    BY <1>1, <2>1
  <2>3. Abstract!NoRequest = NoRequest
    BY DEF NoRequest, Abstract!NoRequest, Request, Abstract!Request
  <2>4. Abstract!Next
    BY <1>1, <2>1, <2>2 DEF Refused, Forgotten, CheckLast, ram
  <2>5. CASE Abstract!Begin
    BY <1>1, <2>2, <2>3, <2>5 DEF Abstract!Begin
  <2>6. CASE Abstract!Apply
    BY <1>1, <2>1, <2>2, <2>6 DEF Abstract!Apply
  <2>7. CASE Abstract!Succeed
    BY <1>1, <2>7 DEF Abstract!Succeed, Abstract!Applied
  <2>8. CASE Abstract!Refuse \/ Abstract!PowerLoss
    BY <1>1, <2>8 DEF Abstract!Refuse, Abstract!PowerLoss
  <2> QED BY <2>4, <2>5, <2>6, <2>7, <2>8 DEF Abstract!Next
<1>2. Spec => ImplementsKeyStore
  BY BlobStoreImplemented
<1>3. [Abstract!Next \/ Refused \/ Forgotten \/ gaveUp']_<<Content, op, res>>
      => (~gaveUp' /\ op.kind = "write" /\ op' = NoRequest /\ res' = "ok" => Content'[op.key] = op.val)
  BY <1>1
<1> QED BY <1>2, <1>3, PTL DEF ImplementsKeyStore

=============================================================================
