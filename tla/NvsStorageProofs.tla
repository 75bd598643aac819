-------------------------- MODULE NvsStorageProofs --------------------------
(***************************************************************************)
(* Proofs about NvsStorage, for every number of pages and entries and for  *)
(* every set of keys and values.                                           *)
(*                                                                         *)
(* The first half is about the pages: types, ReservedPage and              *)
(* AlwaysMounts. The second half is about what they store: each key is     *)
(* there once, and the library implements the abstract key store, whenever *)
(* the power goes. That holds for calls that keep the types of their keys  *)
(* and for keys with hashes of their own; without either, TLC finds the    *)
(* library lose a key (MCNvsTypeChange, MCNvsHashCollision). The last      *)
(* section, about room for a scalar, needs neither.                        *)
(***************************************************************************)
EXTENDS NvsStorage, FiniteSetTheorems, SequenceTheorems, WellFoundedInduction, TLAPS

IndInv == TypeOK /\ PagesInv

-----------------------------------------------------------------------------
(* Least elements.                                                         *)

LEMMA LeastNatural ==
  ASSUME NEW T, T \subseteq Nat, T # {}
  PROVE  \E x \in T : \A y \in T : x <= y
<1>1. PICK x \in T : \A y \in T : ~ (<<y, x>> \in OpToRel(<, Nat))
  BY WFMin, NatLessThanWellFounded, Zenon
<1>2. ASSUME NEW y \in T PROVE x <= y
  <2>1. x \in Nat /\ y \in Nat
    OBVIOUS
  <2>2. <<y, x>> \in Nat \X Nat /\ <<y, x>>[1] = y /\ <<y, x>>[2] = x
    BY <2>1
  <2>3. y < x => <<y, x>> \in OpToRel(<, Nat)
    BY <2>2 DEF OpToRel
  <2>4. ~ (y < x)
    BY <1>1, <2>3
  <2> QED BY <2>1, <2>4
<1> QED BY <1>2

LEMMA MinOfNaturals ==
  ASSUME NEW S, S \subseteq Nat, S # {}
  PROVE  Min(S) \in S /\ \A y \in S : Min(S) <= y
BY LeastNatural DEF Min

\* An integer-valued function has a least value on every set where it is
\* bounded from below, and a greatest one where it is bounded from above.
LEMMA LeastValue ==
  ASSUME NEW S, S # {}, NEW f, NEW b \in Int,
         \A p \in S : f[p] \in Int /\ b <= f[p]
  PROVE  \E p \in S : \A q \in S : f[p] <= f[q]
<1> DEFINE T == {f[p] - b : p \in S}
<1>1. T \subseteq Nat /\ T # {}
  OBVIOUS
<1>2. PICK x \in T : \A y \in T : x <= y
  BY <1>1, LeastNatural
<1>3. PICK p \in S : x = f[p] - b
  OBVIOUS
<1>4. ASSUME NEW q \in S PROVE f[p] <= f[q]
  <2>1. f[p] - b <= f[q] - b
    BY <1>2, <1>3
  <2> QED BY <2>1
<1> QED BY <1>4

LEMMA GreatestValue ==
  ASSUME NEW S, S # {}, NEW f, NEW b \in Int,
         \A p \in S : f[p] \in Int /\ f[p] <= b
  PROVE  \E p \in S : \A q \in S : f[q] <= f[p]
<1> DEFINE T == {b - f[p] : p \in S}
<1>1. T \subseteq Nat /\ T # {}
  OBVIOUS
<1>2. PICK x \in T : \A y \in T : x <= y
  BY <1>1, LeastNatural
<1>3. PICK p \in S : x = b - f[p]
  OBVIOUS
<1>4. ASSUME NEW q \in S PROVE f[q] <= f[p]
  <2>1. b - f[p] <= b - f[q]
    BY <1>2, <1>3
  <2> QED BY <2>1
<1> QED BY <1>4

-----------------------------------------------------------------------------
(* The free list.                                                          *)

Injective(s) == \A i, j \in DOMAIN s : s[i] = s[j] => i = j

LEMMA AppendRange ==
  ASSUME NEW S, NEW s \in Seq(S), NEW e \in S
  PROVE  /\ Append(s, e) \in Seq(S) /\ Append(s, e) # <<>>
         /\ Range(Append(s, e)) = Range(s) \cup {e}
         /\ Injective(s) /\ e \notin Range(s) => Injective(Append(s, e))
<1> DEFINE t == Append(s, e)
<1>1. /\ t \in Seq(S) /\ t # <<>> /\ Len(t) = Len(s) + 1 /\ Len(s) \in Nat
      /\ \A i \in 1 .. Len(s) : t[i] = s[i]
      /\ t[Len(s) + 1] = e
  BY AppendProperties
<1>2. DOMAIN s = 1 .. Len(s) /\ DOMAIN t = 1 .. (Len(s) + 1)
  BY <1>1
<1>3. Range(t) = Range(s) \cup {e}
  <2> HIDE DEF t
  <2>1. ASSUME NEW x \in Range(t) PROVE x \in Range(s) \cup {e}
    BY <1>1, <1>2 DEF Range
  <2>2. ASSUME NEW x \in Range(s) PROVE x \in Range(t)
    BY <1>1, <1>2 DEF Range
  <2>3. e \in Range(t)
    BY <1>1, <1>2 DEF Range
  <2> QED BY <2>1, <2>2, <2>3
<1>4. ASSUME Injective(s), e \notin Range(s), NEW i \in DOMAIN t, NEW j \in DOMAIN t, t[i] = t[j]
      PROVE  i = j
  <2>1. \A k \in 1 .. Len(s) : s[k] # e
    BY <1>2, <1>4 DEF Range
  <2> HIDE DEF t
  <2> QED BY <1>1, <1>2, <1>4, <2>1 DEF Injective
<1> QED BY <1>1, <1>3, <1>4 DEF Injective

LEMMA TailRange ==
  ASSUME NEW S, NEW s \in Seq(S), s # <<>>, Injective(s)
  PROVE  /\ Head(s) \in S /\ Head(s) \in Range(s)
         /\ Tail(s) \in Seq(S) /\ Len(Tail(s)) = Len(s) - 1
         /\ Range(Tail(s)) = Range(s) \ {Head(s)}
         /\ Injective(Tail(s))
<1> DEFINE t == Tail(s)
<1>1. /\ Head(s) \in S /\ t \in Seq(S) /\ Len(t) = Len(s) - 1
      /\ Len(s) \in Nat \ {0} /\ Head(s) = s[1]
      /\ \A i \in 1 .. Len(t) : t[i] = s[i + 1]
  BY HeadTailProperties, EmptySeq
<1>2. DOMAIN s = 1 .. Len(s) /\ DOMAIN t = 1 .. (Len(s) - 1)
  BY <1>1
<1> HIDE DEF t
<1>3. \A i \in DOMAIN t : i + 1 \in DOMAIN s /\ t[i] = s[i + 1] /\ i + 1 # 1
  BY <1>1, <1>2
<1>4. \A i \in DOMAIN s : i # 1 => i - 1 \in DOMAIN t /\ t[i - 1] = s[i]
  BY <1>1, <1>2
<1>5. Range(t) = Range(s) \ {Head(s)}
  <2>1. ASSUME NEW x \in Range(t) PROVE x \in Range(s) /\ x # Head(s)
    BY <1>1, <1>2, <1>3 DEF Range, Injective
  <2>2. ASSUME NEW x \in Range(s), x # Head(s) PROVE x \in Range(t)
    BY <1>1, <1>2, <1>4, <2>2 DEF Range
  <2> QED BY <2>1, <2>2
<1>6. Injective(t)
  BY <1>1, <1>2, <1>3 DEF Injective
<1>7. Head(s) \in Range(s)
  BY <1>1, <1>2 DEF Range
<1> QED BY <1>1, <1>5, <1>6, <1>7 DEF t

-----------------------------------------------------------------------------
(* The operators of the model.                                             *)

FlashType == [Page -> [st : PageState, seq : Nat, cell : [Slot -> Cells]]]

LEMMA PageAt ==
  ASSUME flash \in FlashType, NEW p \in Page
  PROVE  /\ flash[p] \in [st : PageState, seq : Nat, cell : [Slot -> Cells]]
         /\ StateOf(p) \in PageState /\ flash[p].seq \in Nat /\ flash[p].cell \in [Slot -> Cells]
         /\ \A s \in Slot : CellAt(p, s) \in Cells
BY DEF FlashType, StateOf, CellAt

LEMMA SeqOfType ==
  ASSUME flash \in FlashType, nextSeq \in Nat
  PROVE  \A p \in Page : SeqOf(p) \in Int /\ -1 <= SeqOf(p)
BY PageAt DEF SeqOf

LEMMA FirstOfIn ==
  ASSUME flash \in FlashType, nextSeq \in Nat, NEW S, S \subseteq Page, S # {}
  PROVE  FirstOf(S) \in S
<1> DEFINE f == [p \in S |-> SeqOf(p)]
<1>1. \A p \in S : f[p] \in Int /\ -1 <= f[p]
  BY SeqOfType
<1>2. PICK p \in S : \A q \in S : f[p] <= f[q]
  <2> HIDE DEF f
  <2>1. -1 \in Int
    OBVIOUS
  <2> QED BY <1>1, <2>1, LeastValue
<1>3. \A q \in S : SeqOf(p) <= SeqOf(q)
  BY <1>2
<1> QED BY <1>3 DEF FirstOf

\* The current page is a listed page with the highest sequence number.
LEMMA CurrentIn ==
  ASSUME IndInv, listed # {}
  PROVE  Current \in listed /\ \A q \in listed : SeqOf(q) <= SeqOf(Current)
<1> DEFINE f == [p \in listed |-> SeqOf(p)]
<1>0. flash \in FlashType /\ nextSeq \in Nat /\ listed \subseteq Page
  BY DEF IndInv, TypeOK, FlashType
<1>1. \A p \in listed : f[p] \in Int /\ f[p] <= nextSeq - 1
  <2>1. ASSUME NEW p \in listed PROVE SeqOf(p) \in Int /\ SeqOf(p) <= nextSeq - 1
    <3>1. HasSeq(p) => flash[p].seq < nextSeq /\ flash[p].seq \in Nat
      BY <1>0, PageAt DEF IndInv, PagesInv, Ordered
    <3> QED BY <1>0, <3>1 DEF SeqOf
  <2> QED BY <2>1
<1>2. PICK p \in listed : \A q \in listed : f[q] <= f[p]
  <2> HIDE DEF f
  <2>1. nextSeq - 1 \in Int
    BY <1>0
  <2> QED BY <1>1, <2>1, GreatestValue
<1>3. \A q \in listed : SeqOf(q) <= SeqOf(p)
  BY <1>2
<1> QED BY <1>3 DEF Current, LastOf

\* ... and the only one.
LEMMA SeqOfInjective ==
  ASSUME IndInv, NEW p \in listed, NEW q \in listed, SeqOf(p) = SeqOf(q)
  PROVE  p = q
<1>1. flash \in FlashType /\ nextSeq \in Nat /\ p \in Page /\ q \in Page
  BY DEF IndInv, TypeOK, FlashType
<1>2. flash[p].seq \in Nat /\ flash[q].seq \in Nat
  BY <1>1, PageAt
<1> QED BY <1>1, <1>2 DEF IndInv, PagesInv, Ordered, Fresh, SeqOf

LEMMA CurrentUnique ==
  ASSUME IndInv, NEW p \in listed, \A q \in listed : SeqOf(q) <= SeqOf(p)
  PROVE  p = Current
<1>1. SeqOf(p) \in Int /\ SeqOf(Current) \in Int /\ Current \in listed
  BY CurrentIn, SeqOfType DEF IndInv, TypeOK, FlashType
<1>2. SeqOf(Current) <= SeqOf(p) /\ SeqOf(p) <= SeqOf(Current)
  BY CurrentIn
<1> QED BY <1>1, <1>2, SeqOfInjective

\* An unwritten page in use is the current page, and so is an active one.
LEMMA ActiveIsCurrent ==
  ASSUME IndInv, NEW p \in listed, StateOf(p) = "active" \/ ~HasSeq(p), pc # "off", pc # "load"
  PROVE  p = Current
<1>1. flash \in FlashType /\ nextSeq \in Nat /\ listed \subseteq Page
  BY DEF IndInv, TypeOK, FlashType
<1>2. ASSUME NEW q \in listed PROVE SeqOf(q) <= SeqOf(p)
  <2>1. flash[p].seq \in Nat /\ flash[q].seq \in Nat
    BY <1>1, PageAt
  <2> QED BY <1>1, <2>1 DEF IndInv, PagesInv, Ordered, Fresh, SeqOf, HasSeq
<1> QED BY <1>2, CurrentUnique

LEMMA ItemAt ==
  ASSUME IndInv, NEW p \in Page
  PROVE  /\ Written(p) \subseteq Slot /\ Heads(p) \subseteq Slot
         /\ \A s \in Written(p) : CellAt(p, s).data \in Pieces
         /\ \A k : KeyHeads(p, k) \subseteq Heads(p)
         /\ \A k : KeyHeads(p, k) # {} => Min(KeyHeads(p, k)) \in KeyHeads(p, k)
<1>1. Written(p) \subseteq Slot /\ Heads(p) \subseteq Written(p)
  BY DEF Written, Heads
<1>2. \A s \in Written(p) : CellAt(p, s).data \in Pieces
  BY DEF Written, IndInv, PagesInv, Genuine
<1>3. Slot \subseteq Nat
  BY DEF Slot
<1>4. \A k : KeyHeads(p, k) \subseteq Heads(p)
  BY DEF KeyHeads
<1>5. ASSUME NEW k, KeyHeads(p, k) # {} PROVE Min(KeyHeads(p, k)) \in KeyHeads(p, k)
  <2>1. KeyHeads(p, k) \subseteq Nat
    BY <1>1, <1>3, <1>4
  <2> QED BY <1>5, <2>1, MinOfNaturals
<1> QED BY <1>1, <1>2, <1>4, <1>5

PlaceType == [page : Page, slot : Slot, seq : Int, type : Types]

LEMMA PlaceOfItem ==
  ASSUME IndInv, NEW p \in Page, NEW s \in Heads(p)
  PROVE  Place(p, s) \in PlaceType
<1>1. s \in Slot /\ CellAt(p, s).data \in Pieces
  BY ItemAt DEF Heads
<1>2. TypeAt(p, s) \in Types
  BY <1>1, ItemAssumption DEF TypeAt, Pieces
<1>3. SeqOf(p) \in Int
  BY SeqOfType DEF IndInv, TypeOK, FlashType
<1> QED BY <1>1, <1>2, <1>3 DEF Place, PlaceType

LEMMA FindType ==
  ASSUME IndInv, NEW k, NEW types
  PROVE  Find(k, types) \in PlaceType \cup {NoPlace}
<1> DEFINE hits == {p \in listed : HasItem(p, k, types)}
<1>1. hits \subseteq Page
  BY DEF IndInv, TypeOK
<1>2. CASE hits = {}
  BY <1>2 DEF Find
<1>3. CASE hits # {}
  <2>1. FirstOf(hits) \in hits
    BY <1>1, <1>3, FirstOfIn DEF IndInv, TypeOK, FlashType
  <2>2. Min(KeyHeads(FirstOf(hits), k)) \in Heads(FirstOf(hits))
    BY <1>1, <2>1, ItemAt DEF HasItem
  <2> HIDE DEF hits
  <2>3. Place(FirstOf(hits), Min(KeyHeads(FirstOf(hits), k))) \in PlaceType
    BY <1>1, <2>1, <2>2, PlaceOfItem
  <2> QED BY <1>3, <2>3 DEF Find, hits
<1> QED BY <1>2, <1>3

-----------------------------------------------------------------------------
(* The flash operations.                                                   *)

SameHeaders ==
  \A q \in Page : flash'[q].st = flash[q].st /\ flash'[q].seq = flash[q].seq

KeepsHeaders == flash' \in FlashType /\ Genuine' /\ SameHeaders

LEMMA UnchangedKeeps ==
  ASSUME IndInv, UNCHANGED flash
  PROVE  KeepsHeaders
BY DEF IndInv, TypeOK, PagesInv, Genuine, CellAt, KeepsHeaders, SameHeaders, FlashType

LEMMA EraseFromKeeps ==
  ASSUME IndInv, NEW p \in Page, NEW S, NEW b, EraseFrom(p, S, b)
  PROVE  KeepsHeaders
<1> DEFINE cells == [s \in Slot |-> IF s \in S /\ s >= b THEN ErasedCell ELSE flash[p].cell[s]]
<1>0. flash \in FlashType /\ Genuine
  BY DEF IndInv, TypeOK, PagesInv, FlashType
<1>1. flash' = [flash EXCEPT ![p].cell = cells]
  BY DEF EraseFrom
<1>2. \A s \in Slot : flash[p].cell[s] \in Cells
  BY <1>0, PageAt DEF CellAt
<1>3. ErasedCell \in Cells /\ ErasedCell.state # "written"
  BY DEF ErasedCell, Cells, EntryState
<1>4. cells \in [Slot -> Cells]
  BY <1>2, <1>3
<1>5. \A s \in Slot : cells[s].state = "written" => cells[s].data \in Pieces
  BY <1>0, <1>3 DEF Genuine, CellAt
<1> HIDE DEF cells
<1>6. flash' \in FlashType
  BY <1>0, <1>1, <1>4 DEF FlashType
<1>7. SameHeaders /\ \A q \in Page : flash'[q].cell = IF q = p THEN cells ELSE flash[q].cell
  BY <1>0, <1>1 DEF FlashType, SameHeaders
<1>8. Genuine'
  BY <1>0, <1>5, <1>7 DEF Genuine, CellAt
<1> QED BY <1>6, <1>7, <1>8 DEF KeepsHeaders

\* Writing an entry, or its state: what is written has to be an item.
LEMMA SetCellKeeps ==
  ASSUME IndInv, NEW p \in Page, NEW s, NEW c \in Cells, SetCell(p, s, c),
         c.state # "written"
  PROVE  KeepsHeaders
<1>0. flash \in FlashType /\ Genuine
  BY DEF IndInv, TypeOK, PagesInv, FlashType
<1>1. flash' = [flash EXCEPT ![p].cell[s] = c]
  BY DEF SetCell
<1>2. flash' \in FlashType
  BY <1>0, <1>1 DEF FlashType
<1>3. SameHeaders /\ \A q \in Page, t \in Slot :
                      flash'[q].cell[t] = IF q = p /\ t = s THEN c ELSE flash[q].cell[t]
  BY <1>0, <1>1 DEF FlashType, SameHeaders
<1>4. Genuine'
  BY <1>0, <1>3 DEF Genuine, CellAt
<1> QED BY <1>2, <1>3, <1>4 DEF KeepsHeaders

LEMMA MarkWrittenKeeps ==
  ASSUME IndInv, NEW p \in Page, NEW s, MarkWritten(p, s),
         s \in Slot => CellAt(p, s).data \in Pieces
  PROVE  KeepsHeaders
<1>0. flash \in FlashType /\ Genuine
  BY DEF IndInv, TypeOK, PagesInv, FlashType
<1>1. flash' = [flash EXCEPT ![p].cell[s].state = "written"]
  BY DEF MarkWritten
<1> DEFINE cells == [flash[p].cell EXCEPT ![s].state = "written"]
<1>2. flash' \in FlashType
  <2>1. flash[p].cell \in [Slot -> Cells]
    BY <1>0, PageAt
  <2>2. cells \in [Slot -> Cells]
    <3>1. CASE s \in Slot
      <4>1. [flash[p].cell[s] EXCEPT !.state = "written"] \in Cells
        BY <2>1, <3>1 DEF Cells, EntryState
      <4> QED BY <2>1, <4>1
    <3>2. CASE s \notin Slot
      BY <2>1, <3>2
    <3> QED BY <3>1, <3>2
  <2>3. flash' = [flash EXCEPT ![p].cell = cells]
    BY <1>1
  <2> HIDE DEF cells
  <2> QED BY <1>0, <2>2, <2>3 DEF FlashType
<1>3. SameHeaders /\ \A q \in Page, t \in Slot :
         /\ q = p /\ t = s => flash'[q].cell[t].data = flash[q].cell[t].data
         /\ q # p \/ t # s => flash'[q].cell[t] = flash[q].cell[t]
  BY <1>0, <1>1 DEF FlashType, SameHeaders, Cells
<1>4. Genuine'
  BY <1>0, <1>3 DEF Genuine, CellAt
<1> QED BY <1>2, <1>3, <1>4 DEF KeepsHeaders

\* The operations on a whole page change no other page.
OnePage(p, st, seq) ==
  /\ flash' \in FlashType /\ Genuine'
  /\ flash'[p].st = st /\ flash'[p].seq = seq
  /\ \A q \in Page \ {p} : flash'[q] = flash[q]

LEMMA BlankPage ==
  /\ ErasedPage \in [st : PageState, seq : Nat, cell : [Slot -> Cells]]
  /\ ErasedPage.st = "uninit" /\ ErasedPage.seq = 0
  /\ \A s \in Slot : ErasedPage.cell[s].state # "written"
BY DEF ErasedPage, EmptyCell, Cells, EntryState, PageState

LEMMA ErasePageDoes ==
  ASSUME IndInv, NEW p \in Page, ErasePage(p)
  PROVE  OnePage(p, "uninit", 0)
<1>0. flash \in FlashType /\ Genuine
  BY DEF IndInv, TypeOK, PagesInv, FlashType
<1>1. flash' \in FlashType /\ flash'[p] = ErasedPage /\ \A q \in Page \ {p} : flash'[q] = flash[q]
  BY <1>0, BlankPage DEF ErasePage, FlashType
<1>2. Genuine'
  BY <1>0, <1>1, BlankPage DEF Genuine, CellAt
<1> QED BY <1>1, <1>2, BlankPage DEF OnePage

LEMMA WriteHeaderDoes ==
  ASSUME IndInv, NEW p \in Page, nextSeq >= 1, WriteHeader(p)
  PROVE  OnePage(p, "active", nextSeq - 1)
<1> DEFINE blank == [ErasedPage EXCEPT !.st = "active", !.seq = nextSeq - 1]
<1>0. flash \in FlashType /\ Genuine /\ nextSeq - 1 \in Nat
  BY DEF IndInv, TypeOK, PagesInv, FlashType
<1>1. /\ blank \in [st : PageState, seq : Nat, cell : [Slot -> Cells]]
      /\ blank.st = "active" /\ blank.seq = nextSeq - 1 /\ blank.cell = ErasedPage.cell
  BY <1>0, BlankPage DEF PageState
<1>2. flash' = [flash EXCEPT ![p] = blank]
  BY DEF WriteHeader
<1> HIDE DEF blank
<1>3. flash' \in FlashType /\ flash'[p] = blank /\ \A q \in Page \ {p} : flash'[q] = flash[q]
  BY <1>0, <1>1, <1>2 DEF FlashType
<1>4. Genuine'
  BY <1>0, <1>1, <1>3, BlankPage DEF Genuine, CellAt
<1> QED BY <1>1, <1>3, <1>4 DEF OnePage

LEMMA SetStateDoes ==
  ASSUME IndInv, NEW p \in Page, NEW st \in PageState, SetState(p, st)
  PROVE  OnePage(p, st, flash[p].seq)
<1>0. flash \in FlashType /\ Genuine
  BY DEF IndInv, TypeOK, PagesInv, FlashType
<1>1. /\ flash' \in FlashType
      /\ flash'[p].st = st /\ flash'[p].seq = flash[p].seq /\ flash'[p].cell = flash[p].cell
      /\ \A q \in Page \ {p} : flash'[q] = flash[q]
  BY <1>0 DEF SetState, FlashType
<1>2. Genuine'
  BY <1>0, <1>1 DEF Genuine, CellAt
<1> QED BY <1>1, <1>2 DEF OnePage

-----------------------------------------------------------------------------
(* Steps that touch entries only, or nothing on flash.                     *)

QuietPc ==
  \/ pc' = pc
  \/ pc \in InCall /\ pc' \in InCall \ {"new_page"}
  \/ pc = "dup" /\ listed # {} /\ pc' = "recover"
  \/ pc = "copy" /\ pc' = "reclaim"

PagesKept == Listing' /\ Ordered' /\ Fresh' /\ Spare' /\ AlwaysMounts'

LEMMA QuietStep ==
  ASSUME IndInv, KeepsHeaders, UNCHANGED <<listed, free, nextSeq, scan, gc>>, QuietPc
  PROVE  PagesKept /\ flash' \in FlashType /\ Genuine'
<1>0. /\ \A q \in Page : HasSeq(q)' <=> HasSeq(q)
      /\ \A q \in Page : StateOf(q)' = StateOf(q)
      /\ \A q \in Page : flash'[q].seq = flash[q].seq
      /\ listed \subseteq Page /\ Range(free) \subseteq Page
  BY DEF KeepsHeaders, SameHeaders, HasSeq, StateOf, IndInv, TypeOK, Range
<1>1. Listing'
  BY <1>0 DEF IndInv, PagesInv, Listing, QuietPc, InCall
<1>2. Ordered'
  BY <1>0 DEF IndInv, PagesInv, Ordered
<1>3. Fresh'
  BY <1>0 DEF IndInv, PagesInv, Fresh, QuietPc, InCall, InMount
<1>4. Spare'
  BY <1>0 DEF IndInv, PagesInv, Spare, QuietPc, InCall, InMove
<1>5. AlwaysMounts'
  BY DEF IndInv, PagesInv, AlwaysMounts, QuietPc, InCall
<1> QED BY <1>1, <1>2, <1>3, <1>4, <1>5 DEF PagesKept, KeepsHeaders

LEMMA CurrentKept ==
  ASSUME IndInv, SameHeaders, UNCHANGED <<listed, nextSeq>>, listed # {}
  PROVE  Current' = Current
<1>0. flash \in FlashType /\ nextSeq \in Nat /\ listed \subseteq Page
  BY DEF IndInv, TypeOK, FlashType
<1>1. \A q \in listed : SeqOf(q)' = SeqOf(q)
  BY <1>0 DEF SameHeaders, SeqOf, HasSeq, StateOf
<1>2. PICK c \in listed : c = Current /\ \A q \in listed : SeqOf(q) <= SeqOf(c)
  BY CurrentIn
<1>3. \A q \in listed : SeqOf(q)' <= SeqOf(c)'
  BY <1>1, <1>2
<1>4. ASSUME NEW p \in listed, \A q \in listed : SeqOf(q)' <= SeqOf(p)'
      PROVE  p = c
  BY <1>1, <1>2, <1>4, CurrentUnique
<1>5. Current' = CHOOSE p \in listed : \A q \in listed : SeqOf(q)' <= SeqOf(p)'
  BY DEF Current, LastOf
<1> QED BY <1>2, <1>3, <1>4, <1>5

\* Writing the data of the next free entry leaves it the next free entry.
LEMMA NextFreeKept ==
  ASSUME IndInv, NEW p \in Page, NEW d \in Pieces,
         SetCell(p, NextFree(p), [state |-> "empty", data |-> d])
  PROVE  /\ KeepsHeaders
         /\ NextFree(p)' = NextFree(p)
         /\ NextFree(p) \in Slot => CellAt(p, NextFree(p))' = [state |-> "empty", data |-> d]
<1> DEFINE c == [state |-> "empty", data |-> d]
           n == NextFree(p)
           E == {s \in Slot : CellAt(p, s).state = "empty"}
<1>0. flash \in FlashType
  BY DEF IndInv, TypeOK, FlashType
<1>1. c \in Cells /\ c.state = "empty" /\ c.state # "written"
  BY DEF Cells, EntryState
<1>2. KeepsHeaders
  <2> HIDE DEF c, n
  <2>1. SetCell(p, n, c)
    BY DEF c, n
  <2> QED BY <1>1, <2>1, SetCellKeeps
<1>3. \A t \in Slot : CellAt(p, t)' = IF t = n THEN c ELSE CellAt(p, t)
  <2> HIDE DEF c, n
  <2>1. flash' = [flash EXCEPT ![p].cell[n] = c]
    BY DEF SetCell, c, n
  <2> QED BY <1>0, <2>1 DEF FlashType, CellAt
<1>4. n \in Slot => n \in E
  <2>1. E \cup {EntryCount + 1} \subseteq Nat /\ EntryCount + 1 \notin Slot
    BY SizeAssumption DEF Slot
  <2>2. n = Min(E \cup {EntryCount + 1})
    BY DEF NextFree
  <2>3. n \in E \cup {EntryCount + 1}
    <3> HIDE DEF n, E
    <3> QED BY <2>1, <2>2, MinOfNaturals
  <2> QED BY <2>1, <2>3
<1>5. {s \in Slot : CellAt(p, s)'.state = "empty"} = E
  <2> HIDE DEF c, n
  <2> QED BY <1>1, <1>3, <1>4
<1>6. NextFree(p)' = Min({s \in Slot : CellAt(p, s)'.state = "empty"} \cup {EntryCount + 1})
  BY DEF NextFree
<1>7. NextFree(p)' = n
  <2> HIDE DEF E
  <2> QED BY <1>5, <1>6 DEF NextFree, E
<1> QED BY <1>2, <1>3, <1>7

LEMMA EraseItemKeeps ==
  ASSUME IndInv, NEW p \in Page, NEW s, NEW whenGone, EraseItemStep(p, s, whenGone)
  PROVE  KeepsHeaders /\ (pc' = whenGone \/ pc' = pc)
<1>1. PICK b \in ItemSlots(p, s) :
        /\ EraseFrom(p, ItemSlots(p, s), b)
        /\ pc' = IF b = Min(ItemSlots(p, s)) THEN whenGone ELSE pc
  BY DEF EraseItemStep
<1> QED BY <1>1, EraseFromKeeps

LEMMA QuietMounting ==
  ASSUME IndInv, RepairPage \/ DropDuplicate \/ NoDuplicate
  PROVE  IndInv'
<1>0. listed \subseteq Page /\ flash \in FlashType /\ nextSeq \in Nat
  BY DEF IndInv, TypeOK, FlashType
<1>1. /\ KeepsHeaders /\ UNCHANGED ram
      /\ \/ pc = "load" /\ pc' = "load"
         \/ pc = "dup" /\ listed # {} /\ pc' \in {"dup", "recover"}
  <2>1. CASE RepairPage
    BY <2>1, EraseFromKeeps DEF RepairPage
  <2>2. CASE DropDuplicate
    <3>1. FirstOf(Superseded) \in Page
      BY <1>0, <2>2, FirstOfIn DEF DropDuplicate, Superseded
    <3> QED BY <2>2, <3>1, EraseItemKeeps DEF DropDuplicate
  <2>3. CASE NoDuplicate
    BY <2>3, UnchangedKeeps DEF NoDuplicate
  <2> QED BY <2>1, <2>2, <2>3
<1>2. PagesKept /\ flash' \in FlashType /\ Genuine'
  BY <1>1, QuietStep DEF QuietPc, ram
<1>3. TypeOK'
  BY <1>1, <1>2 DEF IndInv, TypeOK, FlashType, ram
<1>4. Pending'
  BY <1>1 DEF IndInv, PagesInv, Pending, InMount, InMove, ram
<1> QED BY <1>2, <1>3, <1>4 DEF IndInv, PagesInv, PagesKept

LEMMA ReturnKeeps ==
  ASSUME IndInv, pc \in InCall, NEW result \in Results, Return(result)
  PROVE  IndInv'
<1>1. PagesKept /\ flash' \in FlashType /\ Genuine'
  BY UnchangedKeeps, QuietStep DEF QuietPc, InCall, Return
<1>2. TypeOK'
  BY <1>1 DEF IndInv, TypeOK, FlashType, Return
<1>3. Pending'
  BY DEF IndInv, PagesInv, Pending, InMount, InMove, Return
<1> QED BY <1>1, <1>2, <1>3 DEF IndInv, PagesInv, PagesKept

LEMMA Returning ==
  ASSUME IndInv,
         \/ WriteNothing \/ StillFull \/ NoNewPage \/ DropNothing \/ EraseMissing
         \/ Finish \/ EraseAllDone
  PROVE  IndInv'
<1>1. pc \in InCall
  BY DEF WriteNothing, StillFull, NoNewPage, DropNothing, EraseMissing, Finish, EraseAllDone, InCall
<1>2. \E result \in Results : Return(result)
  BY DEF WriteNothing, StillFull, NoNewPage, DropNothing, EraseMissing, Finish, EraseAllDone, Results
<1> QED BY <1>1, <1>2, ReturnKeeps

LEMMA Starting ==
  ASSUME IndInv, BeginCall \/ WriteFind \/ EraseFind
  PROVE  IndInv'
<1>1. /\ UNCHANGED <<flash, listed, free, nextSeq, scan, gc, retried>>
      /\ pc \in {"idle", "find"} /\ pc' \in {"find", "put", "drop"}
  BY DEF BeginCall, WriteFind, EraseFind, Ready
<1>2. PagesKept /\ flash' \in FlashType /\ Genuine'
  BY <1>1, UnchangedKeeps, QuietStep DEF QuietPc, InCall
<1>3. TypeOK'
  <2>1. op' \in Requests \cup {NoRequest}
    BY DEF BeginCall, WriteFind, EraseFind, IndInv, TypeOK
  <2>2. old' \in PlaceType \cup {NoPlace}
    BY FindType DEF BeginCall, WriteFind, EraseFind, Existing, IndInv, TypeOK, PlaceType
  <2>3. res' \in Results
    BY DEF BeginCall, WriteFind, EraseFind, IndInv, TypeOK, Results
  <2> QED BY <1>1, <1>2, <2>1, <2>2, <2>3 DEF IndInv, TypeOK, FlashType, PlaceType
<1>4. Pending'
  BY <1>1 DEF BeginCall, WriteFind, EraseFind, Pending, InMount, InMove
<1> QED BY <1>2, <1>3, <1>4 DEF IndInv, PagesInv, PagesKept

LEMMA DroppingItems ==
  ASSUME IndInv, DropOld \/ EraseAllStep
  PROVE  IndInv'
<1>0. listed \subseteq Page /\ flash \in FlashType /\ nextSeq \in Nat
  BY DEF IndInv, TypeOK, FlashType
<1>1. CASE DropOld /\ Target = NoPlace
  BY <1>1, ReturnKeeps DEF DropOld, Results, InCall
<1>2. ASSUME \/ DropOld /\ Target # NoPlace
             \/ EraseAllStep
      PROVE  IndInv'
  <2>1. /\ KeepsHeaders /\ UNCHANGED ram
        /\ pc \in {"drop", "find"} /\ pc' \in {"drop", "return", "find"}
    <3>1. CASE DropOld /\ Target # NoPlace
      <4>1. old \in PlaceType
        BY <3>1 DEF DropOld, IndInv, TypeOK, PlaceType
      <4>2. Target \in PlaceType
        BY <3>1, <4>1, FindType DEF Target
      <4>3. Target.page \in Page
        BY <4>2 DEF PlaceType
      <4> QED BY <3>1, <4>3, EraseItemKeeps DEF DropOld
    <3>2. CASE EraseAllStep
      <4>1. FirstOf(NsPages) \in Page
        BY <1>0, <3>2, FirstOfIn DEF EraseAllStep, NsPages
      <4> QED BY <3>2, <4>1, EraseItemKeeps DEF EraseAllStep
    <3> QED BY <1>2, <3>1, <3>2
  <2>2. PagesKept /\ flash' \in FlashType /\ Genuine'
    BY <2>1, QuietStep DEF QuietPc, InCall, ram
  <2>3. TypeOK'
    BY <2>1, <2>2 DEF IndInv, TypeOK, FlashType, ram
  <2>4. Pending'
    BY <2>1 DEF IndInv, PagesInv, Pending, InMount, InMove, ram
  <2> QED BY <2>2, <2>3, <2>4 DEF IndInv, PagesInv, PagesKept
<1> QED BY <1>1, <1>2

\* Between the header and the drop of the old item: one piece at a time.
LEMMA InUse ==
  ASSUME IndInv, pc \in InCall \cup {"recover", "copy", "reclaim"}
  PROVE  listed # {} /\ Current \in listed /\ Current \in Page
<1>1. listed # {}
  BY DEF IndInv, PagesInv, Listing
<1> QED BY <1>1, CurrentIn DEF IndInv, TypeOK

LEMMA Operands ==
  ASSUME IndInv, pc \in {"put", "put_state", "data", "data_state", "new_page"}
  PROVE  op.key \in Keys /\ op.val \in Values /\ Piece(op.key, op.val, 0) \in Pieces
           /\ Piece(op.key, op.val, 1) \in Pieces
<1>1. op.kind = "write" /\ op \in Requests \cup {NoRequest}
  BY DEF IndInv, TypeOK, PagesInv, Pending
<1>2. \E k \in Keys, v \in Values : op = WriteRequest(k, v)
  BY <1>1 DEF Requests, NoRequest, WriteRequest, EraseRequest, EraseAllRequest, Request
<1> QED BY <1>2 DEF WriteRequest, Request, Piece, Pieces

LEMMA WritingPieces ==
  ASSUME IndInv, PutEntry \/ PutData
  PROVE  IndInv'
<1>0. listed # {} /\ Current \in Page
  BY InUse DEF PutEntry, PutData, InCall
<1>1. PICK c \in Page : c = Current
  BY <1>0
<1>2. PICK d \in Pieces : SetCell(c, NextFree(c), [state |-> "empty", data |-> d])
  BY <1>1, Operands DEF PutEntry, PutData
<1>3. /\ UNCHANGED ram
      /\ \/ pc = "put" /\ pc' = "put_state"
         \/ pc = "data" /\ pc' = "data_state"
  BY DEF PutEntry, PutData
<1>4. /\ KeepsHeaders /\ NextFree(c)' = NextFree(c)
      /\ NextFree(c) \in Slot => CellAt(c, NextFree(c))' = [state |-> "empty", data |-> d]
  BY <1>2, NextFreeKept
<1>5. PagesKept /\ flash' \in FlashType /\ Genuine'
  BY <1>3, <1>4, QuietStep DEF QuietPc, InCall, ram
<1>6. TypeOK'
  BY <1>3, <1>5 DEF IndInv, TypeOK, FlashType, ram
<1>7. Current' = c
  BY <1>0, <1>1, <1>3, <1>4, CurrentKept DEF KeepsHeaders, ram
<1>8. NextFree(Current)' = NextFree(c)'
  BY <1>7
<1>9. NextFree(Current)' \in Slot => CellAt(Current, NextFree(Current))'.data \in Pieces
  BY <1>4, <1>7, <1>8
<1>10. Pending'
  BY <1>3, <1>9 DEF IndInv, PagesInv, Pending, InMount, InMove, ram
<1> QED BY <1>5, <1>6, <1>10 DEF IndInv, PagesInv, PagesKept

LEMMA MarkingPieces ==
  ASSUME IndInv, PutEntryState \/ PutDataState
  PROVE  IndInv'
<1>1. Current \in Page
  BY InUse DEF PutEntryState, PutDataState, InCall
<1>2. MarkWritten(Current, NextFree(Current))
  BY DEF PutEntryState, PutDataState
<1>3. NextFree(Current) \in Slot => CellAt(Current, NextFree(Current)).data \in Pieces
  BY DEF PutEntryState, PutDataState, IndInv, PagesInv, Pending
<1>4. KeepsHeaders
  BY <1>1, <1>2, <1>3, MarkWrittenKeeps
<1>5. UNCHANGED ram /\ pc \in {"put_state", "data_state"} /\ pc' \in {"data", "drop"}
  BY DEF PutEntryState, PutDataState
<1>6. PagesKept /\ flash' \in FlashType /\ Genuine'
  BY <1>4, <1>5, QuietStep DEF QuietPc, InCall, ram
<1>7. TypeOK'
  BY <1>5, <1>6 DEF IndInv, TypeOK, FlashType, ram
<1>8. Pending'
  BY <1>5 DEF IndInv, PagesInv, Pending, InMount, InMove, ram
<1> QED BY <1>6, <1>7, <1>8 DEF IndInv, PagesInv, PagesKept

LEMMA Copying ==
  ASSUME IndInv, CopyEntry \/ CopyDone
  PROVE  IndInv'
<1>1. UNCHANGED ram /\ pc = "copy" /\ pc' \in {"copy", "reclaim"}
  BY DEF CopyEntry, CopyDone, ram
<1>2. KeepsHeaders
  <2>1. CASE CopyDone
    BY <2>1, UnchangedKeeps DEF CopyDone
  <2>2. CASE CopyEntry
    <3>0. flash \in FlashType /\ Current \in Page /\ gc \in Page
      BY <1>1, InUse DEF IndInv, TypeOK, FlashType, PagesInv, Spare, InMove
    <3> DEFINE n == NextFree(Current)
               d == CellAt(gc, Min(ToCopy)).data
    <3>1. CASE CellAt(Current, n).data = Blank
      <4>1. ToCopy \subseteq Written(gc) /\ ToCopy # {} /\ Written(gc) \subseteq Nat
        BY <2>2, <3>0, ItemAt DEF CopyEntry, ToCopy, Slot
      <4>2. Min(ToCopy) \in Written(gc)
        BY <4>1, MinOfNaturals
      <4>3. d \in Pieces
        BY <3>0, <4>2, ItemAt
      <4>4. [state |-> "empty", data |-> d] \in Cells
        BY <4>3 DEF Cells, EntryState
      <4>5. SetCell(Current, n, [state |-> "empty", data |-> d])
        BY <2>2, <3>1 DEF CopyEntry
      <4> HIDE DEF n, d
      <4> QED BY <3>0, <4>4, <4>5, SetCellKeeps
    <3>2. CASE CellAt(Current, n).data # Blank
      <4>1. MarkWritten(Current, n)
        BY <2>2, <3>2 DEF CopyEntry
      <4>2. n \in Slot => CellAt(Current, n).data \in Pieces
        <5>1. n \in Slot => CellAt(Current, n) \in Cells
          BY <3>0, PageAt
        <5> QED BY <3>2, <5>1 DEF Cells
      <4> HIDE DEF n
      <4> QED BY <3>0, <4>1, <4>2, MarkWrittenKeeps
    <3> QED BY <3>1, <3>2
  <2> QED BY <2>1, <2>2
<1>3. PagesKept /\ flash' \in FlashType /\ Genuine'
  BY <1>1, <1>2, QuietStep DEF QuietPc, ram
<1>4. TypeOK'
  BY <1>1, <1>3 DEF IndInv, TypeOK, FlashType, ram
<1>5. Pending'
  BY <1>1 DEF IndInv, PagesInv, Pending, InMount, InMove, ram
<1> QED BY <1>3, <1>4, <1>5 DEF IndInv, PagesInv, PagesKept

-----------------------------------------------------------------------------
(* Mounting and power loss.                                                *)

LEMMA PoweringOn ==
  ASSUME IndInv, PowerOn
  PROVE  IndInv'
<1>1. /\ UNCHANGED <<flash, listed, free, nextSeq, gc, op, old, retried, res>>
      /\ pc = "off" /\ pc' = "load" /\ scan' = 1 /\ listed = {} /\ free = <<>>
  BY DEF PowerOn, IndInv, PagesInv, Listing
<1>2. KeepsHeaders
  BY <1>1, UnchangedKeeps
<1>3. \A q \in Page : (HasSeq(q)' <=> HasSeq(q)) /\ StateOf(q)' = StateOf(q)
  BY <1>1 DEF HasSeq, StateOf
<1>4. Range(free) = {} /\ 1 .. (scan' - 1) = {} /\ 1 \in Page
  BY <1>1, SizeAssumption DEF Range, Page
<1>5. Listing'
  BY <1>1, <1>4 DEF IndInv, PagesInv, Listing, InCall
<1>6. Ordered' /\ Fresh'
  BY <1>1, <1>3 DEF IndInv, PagesInv, Ordered, Fresh
<1>7. Spare'
  BY <1>1, <1>3 DEF IndInv, PagesInv, Spare, InCall, InMove
<1>8. TypeOK'
  BY <1>1, SizeAssumption DEF IndInv, TypeOK
<1>9. Pending'
  BY <1>1 DEF IndInv, PagesInv, Pending, InMount, InMove
<1> QED BY <1>1, <1>2, <1>5, <1>6, <1>7, <1>8, <1>9
        DEF IndInv, PagesInv, KeepsHeaders, AlwaysMounts

LEMMA PoweringOff ==
  ASSUME IndInv, PowerLoss
  PROVE  IndInv'
<1>0. flash \in FlashType /\ Genuine /\ listed \subseteq Page /\ gc \in 0 .. PageCount
  BY DEF IndInv, TypeOK, PagesInv, FlashType
<1>1. PowerOff
  BY DEF PowerLoss
<1>2. TornPage \subseteq Page
  <2>1. CASE pc \in {"put", "copy", "recover"}
    BY <2>1, InUse DEF TornPage, InCall
  <2>2. CASE pc = "reclaim"
    BY <1>0, <2>2 DEF TornPage, IndInv, PagesInv, Spare, InMove
  <2> QED BY <2>1, <2>2 DEF TornPage
<1>3. /\ flash' \in FlashType /\ Genuine'
      /\ \A q \in Page : flash'[q] = flash[q] \/ ~HasSeq(q)'
      /\ (\A q \in Page : flash'[q] = flash[q]) \/ \E q \in Page : ~HasSeq(q)'
  <2>1. CASE UNCHANGED flash
    BY <1>0, <2>1 DEF FlashType, Genuine, CellAt
  <2>2. ASSUME NEW p \in TornPage,
               flash' = [flash EXCEPT ![p] = [ErasedPage EXCEPT !.st = "corrupt"]]
        PROVE  <1>3
    <3> DEFINE torn == [ErasedPage EXCEPT !.st = "corrupt"]
    <3>1. /\ torn \in [st : PageState, seq : Nat, cell : [Slot -> Cells]]
          /\ torn.st = "corrupt" /\ torn.cell = ErasedPage.cell
      BY BlankPage DEF PageState
    <3>2. flash' = [flash EXCEPT ![p] = torn]
      BY <2>2
    <3> HIDE DEF torn
    <3>3. p \in Page /\ flash' \in FlashType /\ flash'[p] = torn
      BY <1>0, <1>2, <3>1, <3>2 DEF FlashType
    <3>4. \A q \in Page \ {p} : flash'[q] = flash[q]
      BY <1>0, <3>2 DEF FlashType
    <3>5. ~HasSeq(p)'
      BY <3>1, <3>3 DEF HasSeq, StateOf
    <3>6. Genuine'
      BY <1>0, <3>1, <3>3, <3>4, BlankPage DEF Genuine, CellAt
    <3> QED BY <3>3, <3>4, <3>5, <3>6
  <2> QED BY <2>1, <2>2 DEF PowerLoss
<1>4. Listing'
  BY <1>1 DEF PowerOff, Listing, Range, InCall
<1>5. Ordered' /\ Fresh'
  BY <1>1, <1>3 DEF PowerOff, IndInv, PagesInv, Ordered, Fresh, HasSeq, StateOf
<1>6. Spare'
  <2>1. \/ \E p \in Page : ~HasSeq(p)'
        \/ /\ \E p \in Page : StateOf(p)' = "freeing"
           /\ \E p \in Page : StateOf(p)' = "active"
    BY <1>3 DEF IndInv, PagesInv, Spare, HasSeq, StateOf
  <2>2. \A p, q \in Page : StateOf(p)' = "freeing" /\ StateOf(q)' = "freeing" => p = q
    BY <1>3 DEF IndInv, PagesInv, Spare, HasSeq, StateOf
  <2> QED BY <1>1, <2>1, <2>2 DEF PowerOff, Spare, InCall, InMove
<1>7. TypeOK'
  <2>1. <<>> \in Seq(Page) /\ 0 \in 0 .. PageCount + 1 /\ 0 \in 0 .. PageCount /\ 0 \in Nat
    BY SizeAssumption, EmptySeq
  <2> QED BY <1>1, <1>3, <2>1 DEF PowerOff, TypeOK, FlashType, Results
<1>8. Pending' /\ AlwaysMounts'
  BY <1>1 DEF PowerOff, Pending, AlwaysMounts, InMove
<1> QED BY <1>3, <1>4, <1>5, <1>6, <1>7, <1>8 DEF IndInv, PagesInv

LEMMA Accepting ==
  ASSUME IndInv, AcceptPage
  PROVE  IndInv'
<1>0. /\ pc = "load" /\ scan \in Page /\ UNCHANGED <<flash, gc, op, old, retried, res>>
      /\ scan' = scan + 1 /\ pc' = IF scan < PageCount THEN "load" ELSE "dup"
      /\ listed \cup Range(free) = 1 .. (scan - 1) /\ free \in Seq(Page) /\ nextSeq \in Nat
      /\ flash \in FlashType /\ Genuine /\ PageCount \in Nat /\ listed \subseteq Page
  BY SizeAssumption DEF AcceptPage, IndInv, TypeOK, PagesInv, Listing, FlashType
<1>1. flash[scan].seq \in Nat
  BY <1>0, PageAt
<1>2. scan \notin listed /\ scan \notin Range(free)
  BY <1>0 DEF Page
<1>3. \A q \in Page : (HasSeq(q)' <=> HasSeq(q)) /\ StateOf(q)' = StateOf(q)
  BY <1>0 DEF HasSeq, StateOf
<1>4. Injective(free)
  BY DEF IndInv, PagesInv, Listing, Injective
<1>5. \/ /\ HasSeq(scan) /\ listed' = listed \cup {scan} /\ free' = free
         /\ nextSeq' \in Nat /\ flash[scan].seq < nextSeq' /\ nextSeq <= nextSeq'
      \/ /\ ~HasSeq(scan) /\ listed' = listed /\ nextSeq' = nextSeq
         /\ free' \in Seq(Page) /\ Range(free') = Range(free) \cup {scan} /\ Injective(free')
  <2>1. CASE HasSeq(scan)
    BY <1>0, <1>1, <2>1 DEF AcceptPage
  <2>2. CASE ~HasSeq(scan)
    <3>1. listed' = listed /\ nextSeq' = nextSeq /\ free' = Append(free, scan)
      BY <2>2 DEF AcceptPage
    <3>2. free' \in Seq(Page) /\ Range(free') = Range(free) \cup {scan} /\ Injective(free')
      BY <1>0, <1>2, <1>4, <3>1, AppendRange
    <3> QED BY <2>2, <3>1, <3>2
  <2> QED BY <2>1, <2>2
<1>6. Listing'
  <2>1. (listed \cup Range(free))' = (1 .. (scan - 1)) \cup {scan}
    BY <1>0, <1>5
  <2>2. (1 .. (scan - 1)) \cup {scan} = 1 .. scan
    BY <1>0 DEF Page
  <2>3. pc' = "load" => scan' \in Page /\ 1 .. scan = 1 .. (scan' - 1)
    BY <1>0 DEF Page
  <2>4. pc' = "dup" => 1 .. scan = Page
    BY <1>0 DEF Page
  <2>5. (listed \cap Range(free))' = {} /\ Injective(free)'
    BY <1>2, <1>4, <1>5 DEF IndInv, PagesInv, Listing
  <2>6. \A p \in Range(free)' : ~HasSeq(p)'
    <3>1. \A p \in Range(free) : ~HasSeq(p)
      BY DEF IndInv, PagesInv, Listing
    <3>2. ASSUME NEW p \in Range(free') PROVE ~HasSeq(p)
      <4>1. p \in Range(free) \/ (p = scan /\ ~HasSeq(scan))
        BY <1>5, <3>2
      <4> QED BY <3>1, <4>1
    <3> QED BY <1>0, <3>2 DEF HasSeq, StateOf
  <2>7. pc' \in {"load", "dup"}
    BY <1>0
  <2> QED BY <2>1, <2>2, <2>3, <2>4, <2>5, <2>6, <2>7 DEF Listing, InCall, Injective
<1>7. Ordered'
  <2>1. \A p \in listed' : HasSeq(p)' => flash[p].seq < nextSeq'
    <3>1. \A p \in listed : flash[p].seq \in Nat
      BY <1>0, PageAt
    <3> QED BY <1>0, <1>3, <1>5, <3>1 DEF IndInv, PagesInv, Ordered
  <2> QED BY <1>0, <1>3, <2>1 DEF IndInv, PagesInv, Ordered
<1>8. Fresh'
  BY <1>0, <1>3, <1>5 DEF IndInv, PagesInv, Fresh, InMount
<1>9. Spare'
  BY <1>0, <1>3 DEF IndInv, PagesInv, Spare, InCall, InMove
<1>10. TypeOK'
  BY <1>0, <1>5 DEF IndInv, TypeOK, Page
<1>11. Pending' /\ AlwaysMounts' /\ Genuine'
  BY <1>0 DEF IndInv, PagesInv, Pending, Genuine, CellAt, AlwaysMounts, InMount, InMove
<1> QED BY <1>6, <1>7, <1>8, <1>9, <1>10, <1>11 DEF IndInv, PagesInv

LEMMA Recovering ==
  ASSUME IndInv, NothingToRecover
  PROVE  IndInv'
<1>0. /\ pc = "recover" /\ Freeing = {} /\ UNCHANGED <<flash, ram>>
      /\ pc' = IF free = <<>> THEN "failed" ELSE "idle"
      /\ listed \cup Range(free) = Page /\ listed # {}
  BY DEF NothingToRecover, IndInv, PagesInv, Listing
<1>1. \A q \in Page : StateOf(q) # "freeing"
  <2>1. ASSUME NEW q \in Page, StateOf(q) = "freeing" PROVE q \in listed
    BY <1>0, <2>1 DEF HasSeq, IndInv, PagesInv, Listing
  <2> QED BY <1>0, <2>1 DEF Freeing
<1>2. PICK p \in Page : ~HasSeq(p)
  BY <1>1 DEF IndInv, PagesInv, Spare
<1>3. p \in Range(free)
  BY <1>0, <1>2 DEF IndInv, PagesInv, Fresh, InMount
<1>4. free # <<>>
  BY <1>3 DEF Range
<1>5. pc' = "idle"
  BY <1>0, <1>4
<1>6. KeepsHeaders
  BY <1>0, UnchangedKeeps
<1>7. \A q \in Page : (HasSeq(q)' <=> HasSeq(q)) /\ StateOf(q)' = StateOf(q)
  BY <1>0 DEF HasSeq, StateOf
<1>8. Listing' /\ Ordered'
  BY <1>0, <1>5 DEF IndInv, PagesInv, Listing, Ordered, HasSeq, StateOf, InCall, ram
<1>9. Fresh'
  BY <1>0, <1>5, <1>7 DEF IndInv, PagesInv, Fresh, InMount, ram
<1>10. Spare'
  BY <1>0, <1>1, <1>4, <1>5, <1>7 DEF IndInv, PagesInv, Spare, InMove, ram
<1>11. TypeOK'
  BY <1>0, <1>5 DEF IndInv, TypeOK, ram
<1>12. Pending' /\ AlwaysMounts'
  BY <1>0, <1>5 DEF Pending, AlwaysMounts, InMount, InMove
<1> QED BY <1>6, <1>8, <1>9, <1>10, <1>11, <1>12 DEF IndInv, PagesInv, KeepsHeaders

-----------------------------------------------------------------------------
(* Taking a page from the free list, writing its header, erasing pages.    *)

LEMMA ActivateDoes ==
  ASSUME IndInv, Activate
  PROVE  \E p \in Range(free) :
           /\ p \in Page /\ ~HasSeq(p) /\ ~HasSeq(p)'
           /\ flash' \in FlashType /\ Genuine' /\ \A q \in Page \ {p} : flash'[q] = flash[q]
           /\ listed' = listed \cup {p}
           /\ free' \in Seq(Page) /\ Injective(free') /\ Range(free') = Range(free) \ {p}
           /\ free # <<>> /\ Len(free') = Len(free) - 1
           /\ nextSeq' = nextSeq + 1
<1>0. /\ free \in Seq(Page) /\ free # <<>> /\ Injective(free)
      /\ flash \in FlashType /\ Genuine
      /\ listed' = listed \cup {Head(free)} /\ free' = Tail(free) /\ nextSeq' = nextSeq + 1
  BY DEF Activate, IndInv, TypeOK, PagesInv, Listing, Injective, FlashType
<1>1. PICK p \in Page :
         /\ p = Head(free) /\ p \in Range(free)
         /\ free' \in Seq(Page) /\ Injective(free') /\ Range(free') = Range(free) \ {p}
         /\ Len(free') = Len(free) - 1
  BY <1>0, TailRange
<1>2. ~HasSeq(p)
  BY <1>1 DEF IndInv, PagesInv, Listing
<1>3. IF StateOf(p) = "corrupt" THEN ErasePage(p) ELSE UNCHANGED flash
  BY <1>1 DEF Activate
<1>4. CASE UNCHANGED flash
  <2>1. ~HasSeq(p)'
    BY <1>2, <1>4 DEF HasSeq, StateOf
  <2> QED BY <1>0, <1>1, <1>2, <1>4, <2>1 DEF Genuine, CellAt
<1>5. CASE ErasePage(p)
  <2>1. OnePage(p, "uninit", 0)
    BY <1>1, <1>5, ErasePageDoes
  <2> QED BY <1>0, <1>1, <1>2, <2>1 DEF OnePage, HasSeq, StateOf
<1> QED BY <1>3, <1>4, <1>5

LEMMA Activating ==
  ASSUME IndInv, Activate, UNCHANGED <<scan, gc, op, old, retried, res>>,
         \/ pc = "dup" /\ listed = {} /\ pc' = "idle"
         \/ pc = "activate" /\ pc' = "copy"
         \/ pc = "new_page" /\ Len(free) >= 2 /\ pc' = "put"
  PROVE  IndInv'
<1>1. PICK p \in Range(free) :
           /\ p \in Page /\ ~HasSeq(p) /\ ~HasSeq(p)'
           /\ flash' \in FlashType /\ Genuine' /\ \A q \in Page \ {p} : flash'[q] = flash[q]
           /\ listed' = listed \cup {p}
           /\ free' \in Seq(Page) /\ Injective(free') /\ Range(free') = Range(free) \ {p}
           /\ free # <<>> /\ Len(free') = Len(free) - 1
           /\ nextSeq' = nextSeq + 1
  BY ActivateDoes
<1>2. /\ flash \in FlashType /\ nextSeq \in Nat /\ free \in Seq(Page) /\ listed \subseteq Page
      /\ listed \cup Range(free) = Page /\ listed \cap Range(free) = {}
      /\ \A q \in listed : HasSeq(q) /\ flash[q].seq < nextSeq /\ flash[q].seq \in Nat
  <2>1. flash \in FlashType /\ nextSeq \in Nat /\ free \in Seq(Page) /\ listed \subseteq Page
    BY DEF IndInv, TypeOK, FlashType
  <2> QED BY <2>1, PageAt DEF IndInv, PagesInv, Listing, Ordered, Fresh, InMount
<1>3. \A q \in Page \ {p} : /\ HasSeq(q)' <=> HasSeq(q)
                             /\ StateOf(q)' = StateOf(q) /\ flash'[q].seq = flash[q].seq
  BY <1>1 DEF HasSeq, StateOf
<1>4. StateOf(p) \notin {"active", "freeing"} /\ StateOf(p)' \notin {"active", "freeing"}
  BY <1>1 DEF HasSeq, StateOf
<1>5. \A q \in Page : StateOf(q) # "active"
  BY <1>2 DEF IndInv, PagesInv, Fresh, Listing, HasSeq
<1>6. pc = "activate" \/ free' # <<>>
  <2>1. CASE pc = "dup"
    <3>0. Range(free) = Page
      BY <1>2, <2>1
    <3>1. 1 \in Range(free) /\ 2 \in Range(free)
      BY <3>0, SizeAssumption DEF Page
    <3>2. 1 \in Range(free') \/ 2 \in Range(free')
      BY <1>1, <3>1
    <3> QED BY <3>2 DEF Range
  <2>2. CASE pc = "new_page"
    <3>1. Len(free') >= 1
      BY <1>1, <1>2, <2>2
    <3> QED BY <3>1
  <2> QED BY <2>1, <2>2
<1>7. Listing'
  <2>1. p \notin listed /\ p \notin Range(free')
    BY <1>1, <1>2
  <2>2. (listed \cup Range(free))' = Page /\ (listed \cap Range(free))' = {} /\ listed' # {}
    BY <1>1, <1>2, <2>1
  <2>3. \A q \in Range(free)' : ~HasSeq(q)'
    BY <1>1, <1>2, <1>3 DEF IndInv, PagesInv, Listing
  <2>4. pc' = "copy" => (listed \ {gc})' # {}
    BY <1>1, <1>2 DEF IndInv, PagesInv, Spare, InMove
  <2> QED BY <1>1, <2>2, <2>3, <2>4 DEF Listing, Injective
<1>8. Ordered'
  BY <1>1, <1>2, <1>5 DEF IndInv, PagesInv, Ordered, HasSeq, StateOf
<1>9. Fresh'
  BY <1>1, <1>2, <1>5 DEF Fresh, InMount, HasSeq, StateOf
<1>10. Spare'
  <2>1. pc = "dup" => \A q \in Page : StateOf(q) # "freeing"
    BY <1>2 DEF IndInv, PagesInv, Listing, HasSeq
  <2>2. pc = "new_page" => \A q \in Page : StateOf(q) # "freeing"
    BY DEF IndInv, PagesInv, Spare, InCall
  <2>3. \A q \in Page : StateOf(q)' = "freeing" <=> StateOf(q) = "freeing"
    BY <1>1 DEF HasSeq, StateOf
  <2>4. pc' = "copy" => gc' \in listed' /\ StateOf(gc') = "freeing"
    BY <1>1 DEF IndInv, PagesInv, Spare, InMove
  <2>5. pc' = "copy" => StateOf(gc)' = "freeing"
    BY <1>1, <1>2, <2>4 DEF HasSeq, StateOf
  <2> QED BY <1>1, <1>6, <2>1, <2>2, <2>3, <2>4, <2>5 DEF IndInv, PagesInv, Spare, InCall, InMove
<1>11. TypeOK'
  BY <1>1, <1>2 DEF IndInv, TypeOK, FlashType
<1>12. Pending' /\ AlwaysMounts'
  BY DEF IndInv, PagesInv, Pending, AlwaysMounts, InMount, InMove
<1> QED BY <1>1, <1>7, <1>8, <1>9, <1>10, <1>11, <1>12 DEF IndInv, PagesInv

\* The first write to a page in use makes it the active page.
LEMMA WritingHeader ==
  ASSUME IndInv, PutHeader \/ CopyHeader
  PROVE  IndInv'
<1>0. /\ pc \in {"put", "copy"} /\ UNCHANGED <<pc, ram>> /\ StateOf(Current) = "uninit"
      /\ WriteHeader(Current)
  BY DEF PutHeader, CopyHeader
<1>1. PICK c \in listed : c = Current /\ c \in Page /\ StateOf(c) = "uninit" /\ ~HasSeq(c)
  BY <1>0, InUse DEF InCall, HasSeq
<1>2. /\ nextSeq \in Nat /\ nextSeq >= 1
      /\ \A q \in listed \ {c} : HasSeq(q) /\ flash[q].seq < nextSeq - 1 /\ StateOf(q) # "active"
  BY <1>1 DEF IndInv, TypeOK, PagesInv, Fresh
<1>3. OnePage(c, "active", nextSeq - 1)
  BY <1>0, <1>1, <1>2, WriteHeaderDoes
<1>4. /\ listed \cup Range(free) = Page /\ listed \cap Range(free) = {} /\ c \notin Range(free)
      /\ \A q \in Range(free) : ~HasSeq(q)
  BY <1>0, <1>1 DEF IndInv, PagesInv, Listing
<1>5. /\ flash'[c].st = "active" /\ flash'[c].seq = nextSeq - 1
      /\ \A q \in Page \ {c} : flash'[q] = flash[q]
  BY <1>3 DEF OnePage
<1>6. Listing'
  <2>1. \A q \in Range(free) : ~HasSeq(q)'
    BY <1>4, <1>5 DEF HasSeq, StateOf
  <2> QED BY <1>0, <2>1 DEF IndInv, PagesInv, Listing, ram
<1>7. listed \subseteq Page /\ \A q \in Page : flash[q].seq \in Nat /\ flash'[q].seq \in Nat
  BY <1>2, <1>3, PageAt DEF OnePage, IndInv, TypeOK, FlashType
<1>8. Ordered'
  <2>1. ASSUME NEW q \in Page \ {c}, HasSeq(q)'
        PROVE  /\ flash'[q].st # "active" /\ flash'[q].seq < nextSeq - 1
               /\ flash'[q].seq = flash[q].seq /\ HasSeq(q)
    <3>1. HasSeq(q) /\ flash'[q] = flash[q]
      BY <1>5, <2>1 DEF HasSeq, StateOf
    <3>2. q \in listed \ {c}
      BY <1>4, <3>1
    <3> QED BY <1>2, <3>1, <3>2 DEF StateOf
  <2>2. ASSUME NEW q \in Page, NEW r \in Page, HasSeq(q)', HasSeq(r)', flash'[q].seq = flash'[r].seq
        PROVE  q = r
    <3>1. CASE q = c \/ r = c
      BY <1>2, <1>5, <1>7, <2>1, <2>2, <3>1
    <3>2. CASE q # c /\ r # c
      BY <2>1, <2>2, <3>2 DEF IndInv, PagesInv, Ordered
    <3> QED BY <3>1, <3>2
  <2>3. ASSUME NEW q \in Page, NEW r \in Page, StateOf(q)' = "active", HasSeq(r)'
        PROVE  flash'[r].seq <= flash'[q].seq
    <3>1. q = c
      BY <2>1, <2>3 DEF HasSeq, StateOf
    <3> QED BY <1>2, <1>5, <1>7, <2>1, <2>3, <3>1
  <2>4. ASSUME NEW q \in listed, HasSeq(q)' PROVE flash'[q].seq < nextSeq
    BY <1>2, <1>5, <1>7, <2>1, <2>4
  <2> QED BY <1>0, <2>2, <2>3, <2>4 DEF Ordered, ram
<1>12. Fresh'
  <2>1. ASSUME NEW q \in listed PROVE HasSeq(q)'
    BY <1>2, <1>5, <1>7 DEF HasSeq, StateOf
  <2> QED BY <1>0, <2>1 DEF Fresh, ram
<1>9. Spare'
  <2>1. \A q \in Page : StateOf(q)' = "freeing" <=> StateOf(q) = "freeing"
    BY <1>1, <1>5 DEF StateOf
  <2>2. CASE pc = "put"
    <3>1. free # <<>> /\ free \in Seq(Page)
      BY <2>2 DEF IndInv, TypeOK, PagesInv, Spare, InCall
    <3>2. Head(free) \in Range(free)
      BY <3>1, TailRange DEF IndInv, PagesInv, Listing, Injective
    <3>3. \E q \in Page : ~HasSeq(q)'
      BY <1>4, <1>5, <3>2 DEF HasSeq, StateOf
    <3> QED BY <1>0, <2>1, <2>2, <3>1, <3>3 DEF IndInv, PagesInv, Spare, InCall, InMove, ram
  <2>3. CASE pc = "copy"
    <3>1. gc \in listed /\ StateOf(gc) = "freeing" /\ gc \in Page
      BY <2>3 DEF IndInv, TypeOK, PagesInv, Spare, InMove
    <3>2. StateOf(gc)' = "freeing"
      BY <1>0, <1>1, <1>5, <3>1 DEF StateOf, ram
    <3>3. (\E q \in Page : StateOf(q)' = "freeing") /\ (\E q \in Page : StateOf(q)' = "active")
      BY <1>1, <1>5, <2>1, <3>1 DEF StateOf
    <3> QED BY <1>0, <2>1, <2>3, <3>1, <3>2, <3>3 DEF IndInv, PagesInv, Spare, InCall, InMove, ram
  <2> QED BY <1>0, <2>2, <2>3
<1>10. TypeOK'
  BY <1>0, <1>3 DEF OnePage, IndInv, TypeOK, FlashType, ram
<1>11. Pending' /\ AlwaysMounts' /\ Genuine'
  BY <1>0, <1>3 DEF OnePage, IndInv, PagesInv, Pending, AlwaysMounts, InMount, InMove, ram
<1> QED BY <1>6, <1>8, <1>9, <1>10, <1>11, <1>12 DEF IndInv, PagesInv

\* A used page is erased and joins the free list.
LEMMA Freed ==
  ASSUME IndInv, pc \notin {"off", "load"}, NEW p \in listed,
         ErasePage(p), listed' = listed \ {p}, free' = Append(free, p), UNCHANGED nextSeq,
         pc' \in InCall \cup {"activate"},
         pc' \in InCall => listed \ {p} # {}
  PROVE  /\ Listing' /\ Ordered'
         /\ flash' \in FlashType /\ Genuine' /\ free' \in Seq(Page) /\ free' # <<>>
         /\ p \in Page /\ flash'[p].st = "uninit"
         /\ \A q \in Page \ {p} : flash'[q] = flash[q]
<1>1. /\ p \in Page /\ free \in Seq(Page) /\ listed \subseteq Page /\ flash \in FlashType
      /\ listed \cup Range(free) = Page /\ listed \cap Range(free) = {} /\ Injective(free)
      /\ \A q \in Range(free) : ~HasSeq(q)
  BY DEF IndInv, TypeOK, PagesInv, Listing, Injective, FlashType
<1>2. OnePage(p, "uninit", 0)
  BY <1>1, ErasePageDoes
<1>3. /\ free' \in Seq(Page) /\ free' # <<>> /\ Injective(free')
      /\ Range(free') = Range(free) \cup {p}
  BY <1>1, AppendRange
<1>4. Listing'
  <2>1. listed' \cup Range(free') = Page /\ listed' \cap Range(free') = {}
    BY <1>1, <1>3
  <2>2. \A q \in Range(free') : ~HasSeq(q)'
    BY <1>1, <1>2, <1>3 DEF OnePage, HasSeq, StateOf
  <2>3. pc' \notin {"off", "load", "recover", "copy", "reclaim"}
    BY DEF InCall
  <2> QED BY <1>3, <2>1, <2>2, <2>3 DEF Listing, Injective
<1>5. Ordered'
  BY <1>1, <1>2 DEF OnePage, IndInv, PagesInv, Ordered, HasSeq, StateOf
<1> QED BY <1>1, <1>2, <1>3, <1>4, <1>5 DEF OnePage

LEMMA Reclaiming ==
  ASSUME IndInv, Reclaim
  PROVE  IndInv'
<1>0. /\ pc = "reclaim" /\ ErasePage(gc) /\ listed' = listed \ {gc} /\ free' = Append(free, gc)
      /\ gc' = 0 /\ pc' = IF op = NoRequest THEN "idle" ELSE "put"
      /\ UNCHANGED <<nextSeq, scan, op, old, retried, res>>
  BY DEF Reclaim
<1>1. gc \in listed /\ StateOf(gc) = "freeing" /\ listed \ {gc} # {}
  BY <1>0 DEF IndInv, PagesInv, Listing, Spare, InMove
<1>2. pc' \in {"idle", "put"}
  BY <1>0
<1>3. /\ Listing' /\ Ordered'
      /\ flash' \in FlashType /\ Genuine' /\ free' \in Seq(Page) /\ free' # <<>>
      /\ gc \in Page /\ flash'[gc].st = "uninit"
      /\ \A q \in Page \ {gc} : flash'[q] = flash[q]
  BY <1>0, <1>1, <1>2, Freed DEF InCall
<1>4. Fresh'
  <2>1. listed' \subseteq Page \ {gc}
    BY <1>0 DEF IndInv, TypeOK
  <2> QED BY <1>0, <1>2, <1>3, <2>1 DEF IndInv, PagesInv, Fresh, HasSeq, StateOf, InMount
<1>5. Spare'
  BY <1>1, <1>2, <1>3 DEF IndInv, PagesInv, Spare, HasSeq, StateOf, InCall, InMove
<1>6. TypeOK'
  BY <1>0, <1>2, <1>3, SizeAssumption DEF IndInv, TypeOK, FlashType
<1>7. Pending' /\ AlwaysMounts'
  BY <1>0, <1>2 DEF IndInv, PagesInv, Pending, AlwaysMounts, InMount, InMove
<1> QED BY <1>3, <1>4, <1>5, <1>6, <1>7 DEF IndInv, PagesInv

\* No page is active unless it is the current one.
LEMMA OnlyCurrentActive ==
  ASSUME IndInv, pc \notin {"off", "load"}, NEW q \in Page, StateOf(q) = "active"
  PROVE  q \in listed /\ q = Current
<1>1. q \in listed
  BY DEF IndInv, PagesInv, Listing, HasSeq
<1> QED BY <1>1, ActiveIsCurrent

LEMMA Discarding ==
  ASSUME IndInv, DiscardCopy
  PROVE  IndInv'
<1>0. /\ pc = "recover" /\ pc' = "activate" /\ Freeing # {} /\ gc' = FirstOf(Freeing)
      /\ UNCHANGED <<nextSeq, scan, op, old, retried, res>>
      /\ listed \subseteq Page /\ flash \in FlashType /\ nextSeq \in Nat
  BY DEF DiscardCopy, IndInv, TypeOK, FlashType
<1>1. gc' \in Page /\ gc' \in listed /\ \E g \in listed : g = gc' /\ StateOf(g) = "freeing"
  BY <1>0, FirstOfIn DEF Freeing
<1>2. PICK g \in listed : g = gc' /\ StateOf(g) = "freeing" /\ g \in Page
  BY <1>0, <1>1
<1>3. \A q \in listed : HasSeq(q)
  BY <1>0 DEF IndInv, PagesInv, Fresh, InMount
<1>4. CASE MustDiscard
  <2>1. PICK c \in listed : c = Current /\ StateOf(c) = "active" /\ c \in Page
    BY <1>0, <1>4, InUse DEF MustDiscard
  <2>2. ErasePage(c) /\ listed' = listed \ {c} /\ free' = Append(free, c)
    BY <1>4, <2>1 DEF DiscardCopy
  <2>3. /\ Listing' /\ Ordered'
        /\ flash' \in FlashType /\ Genuine' /\ free' \in Seq(Page) /\ free' # <<>>
        /\ flash'[c].st = "uninit"
        /\ \A q \in Page \ {c} : flash'[q] = flash[q]
    BY <1>0, <2>1, <2>2, Freed DEF InCall
  <2>4. Fresh'
    <3>1. \A q \in Page : StateOf(q) = "active" => q = c
      BY <1>0, <2>1, OnlyCurrentActive
    <3>2. \A q \in Page : StateOf(q)' # "active"
      BY <2>3, <3>1 DEF StateOf
    <3>3. \A q \in listed' : HasSeq(q)'
      BY <1>0, <1>3, <2>2, <2>3 DEF HasSeq, StateOf
    <3> QED BY <1>0, <3>2, <3>3 DEF Fresh
  <2>5. Spare'
    <3>1. g # c
      BY <1>2, <2>1
    <3>2. gc' \in listed' /\ StateOf(gc)' = "freeing"
      BY <1>2, <2>2, <2>3, <3>1 DEF StateOf
    <3>3. ~HasSeq(c)'
      BY <2>3 DEF HasSeq, StateOf
    <3>4. \A p, q \in Page : StateOf(p)' = "freeing" /\ StateOf(q)' = "freeing" => p = q
      BY <2>3 DEF IndInv, PagesInv, Spare, StateOf
    <3> QED BY <1>0, <2>1, <2>3, <3>2, <3>3, <3>4 DEF Spare, InCall, InMove
  <2>6. TypeOK'
    BY <1>0, <1>1, <2>2, <2>3 DEF IndInv, TypeOK, FlashType, Page
  <2> QED BY <1>0, <2>3, <2>4, <2>5, <2>6
          DEF IndInv, PagesInv, Pending, AlwaysMounts, InMount, InMove
<1>5. CASE ~MustDiscard
  <2>1. UNCHANGED <<flash, listed, free>>
    BY <1>5 DEF DiscardCopy
  <2>2. \A q \in Page : StateOf(q) # "active"
    BY <1>0, <1>5, OnlyCurrentActive DEF MustDiscard
  <2>3. PICK p \in Page : ~HasSeq(p)
    BY <2>2 DEF IndInv, PagesInv, Spare
  <2>4. p \in Range(free)
    BY <1>0, <1>3, <2>3 DEF IndInv, PagesInv, Listing
  <2>5. free # <<>>
    BY <2>4 DEF Range
  <2>6. Listing' /\ Ordered'
    BY <1>0, <2>1 DEF IndInv, PagesInv, Listing, Ordered, HasSeq, StateOf, InCall
  <2>7. Fresh'
    BY <1>0, <1>3, <2>1, <2>2 DEF Fresh, HasSeq, StateOf
  <2>8. Spare'
    BY <1>0, <1>2, <2>1, <2>5 DEF IndInv, PagesInv, Spare, HasSeq, StateOf, InCall, InMove
  <2>9. TypeOK'
    BY <1>0, <1>1, <2>1 DEF IndInv, TypeOK, FlashType, Page
  <2> QED BY <1>0, <2>1, <2>6, <2>7, <2>8, <2>9
          DEF IndInv, PagesInv, Pending, Genuine, CellAt, AlwaysMounts, InMount, InMove
<1> QED BY <1>4, <1>5

LEMMA Targeting ==
  ASSUME IndInv, ActivateTarget \/ MountBlank \/ TakeFreePage
  PROVE  IndInv'
<1>1. CASE ActivateTarget
  <2>1. pc = "activate" /\ free # <<>>
    BY <1>1 DEF ActivateTarget, IndInv, PagesInv, Spare
  <2> QED BY <1>1, <2>1, Activating DEF ActivateTarget
<1>2. CASE MountBlank
  BY <1>2, Activating DEF MountBlank
<1>3. CASE TakeFreePage
  BY <1>3, Activating DEF TakeFreePage, SpareEnough
<1> QED BY <1>1, <1>2, <1>3

LEMMA VictimIn ==
  ASSUME IndInv, listed # {}
  PROVE  Victim \in listed /\ \A q \in listed : Unused(q) <= Unused(Victim)
<1>0. flash \in FlashType /\ nextSeq \in Nat /\ listed \subseteq Page
  BY DEF IndInv, TypeOK, FlashType
<1>1. ASSUME NEW p \in listed PROVE Unused(p) \in Int /\ Unused(p) <= EntryCount
  <2>1. IsFiniteSet(Slot)
    BY SizeAssumption, FS_Interval DEF Slot
  <2>2. IsFiniteSet(Written(p))
    BY <2>1, FS_Subset DEF Written
  <2>3. Cardinality(Written(p)) \in Nat
    BY <2>2, FS_CardinalityType
  <2> QED BY <2>3, SizeAssumption DEF Unused
<1> DEFINE f == [p \in listed |-> Unused(p)]
<1>2. \A p \in listed : f[p] \in Int /\ f[p] <= EntryCount
  BY <1>1
<1>3. EntryCount \in Int
  BY SizeAssumption
<1>4. PICK p \in listed : \A q \in listed : f[q] <= f[p]
  <2> HIDE DEF f
  <2> QED BY <1>2, <1>3, GreatestValue
<1>5. \A q \in listed : Unused(q) <= Unused(p)
  BY <1>4
<1> DEFINE S == {v \in listed : \A q \in listed : Unused(q) <= Unused(v)}
<1>6. S # {} /\ S \subseteq listed
  BY <1>5
<1>7. FirstOf(S) \in S
  <2> HIDE DEF S
  <2> QED BY <1>0, <1>6, FirstOfIn
<1> QED BY <1>6, <1>7 DEF Victim

\* Closing the current page, or marking a page to be moved, changes the state
\* of one page in use; what matters is that a free page is left.
LEMMA Marking ==
  ASSUME IndInv, ClosePage \/ StartFreeing
  PROVE  IndInv'
<1>0. /\ pc \in {"put", "new_page"} /\ free # <<>> /\ free \in Seq(Page) /\ listed \subseteq Page
      /\ Current \in listed /\ op.kind = "write" /\ flash \in FlashType /\ nextSeq \in Nat
      /\ UNCHANGED <<listed, free, nextSeq, scan, op, old, res>>
  BY InUse DEF ClosePage, StartFreeing, IndInv, TypeOK, PagesInv, Spare, Pending, InCall, FlashType
<1>1. Head(free) \in Range(free) /\ Head(free) \in Page
  BY <1>0, TailRange DEF IndInv, PagesInv, Listing, Injective
<1>2. \A q \in listed : HasSeq(q)
  <2>1. CASE ClosePage
    <3>1. HasSeq(Current)
      BY <2>1 DEF ClosePage, PageFull, HasSeq
    <3>2. \A q \in listed : ~HasSeq(q) => q = Current
      BY <2>1, ActiveIsCurrent DEF ClosePage
    <3> QED BY <3>1, <3>2
  <2>2. CASE StartFreeing
    BY <2>2 DEF StartFreeing, IndInv, PagesInv, Fresh
  <2> QED BY <2>1, <2>2
<1>3. PICK p \in listed, st \in {"full", "freeing"} :
         /\ flash' \in FlashType /\ Genuine'
         /\ flash'[p].st = st /\ flash'[p].seq = flash[p].seq
         /\ \A q \in Page \ {p} : flash'[q] = flash[q]
         /\ \A q \in Page : StateOf(q)' # "active"
         /\ \/ pc = "put" /\ pc' = "new_page" /\ st = "full" /\ gc' = gc /\ retried' = TRUE
            \/ pc = "new_page" /\ pc' = "activate" /\ st = "freeing" /\ gc' = p /\ UNCHANGED retried
  <2>1. CASE ClosePage /\ StateOf(Current) = "active"
    <3>1. PICK c \in listed : c = Current /\ c \in Page
      BY <1>0
    <3>2. SetState(c, "full") /\ pc = "put" /\ pc' = "new_page" /\ retried' = TRUE /\ gc' = gc
      BY <2>1, <3>1 DEF ClosePage
    <3>3. OnePage(c, "full", flash[c].seq)
      BY <3>1, <3>2, SetStateDoes DEF PageState
    <3>4. \A q \in Page : StateOf(q) = "active" => q = c
      BY <3>1, <3>2, OnlyCurrentActive
    <3>5. \A q \in Page : StateOf(q)' # "active"
      BY <3>3, <3>4 DEF OnePage, StateOf
    <3> QED BY <3>2, <3>3, <3>5 DEF OnePage
  <2>2. CASE ClosePage /\ StateOf(Current) # "active"
    <3>1. PICK c \in listed : c = Current /\ c \in Page /\ StateOf(c) = "full"
      BY <1>0, <2>2 DEF ClosePage, PageFull
    <3>2. UNCHANGED flash /\ pc = "put" /\ pc' = "new_page" /\ retried' = TRUE /\ gc' = gc
      BY <2>2 DEF ClosePage
    <3>3. \A q \in Page : StateOf(q) # "active"
      BY <3>1, <3>2, OnlyCurrentActive
    <3>4. \A q \in Page : StateOf(q)' # "active"
      BY <3>2, <3>3 DEF StateOf
    <3>5. flash' \in FlashType /\ Genuine'
      BY <3>2, UnchangedKeeps DEF KeepsHeaders
    <3> QED BY <3>1, <3>2, <3>4, <3>5 DEF StateOf
  <2>3. CASE StartFreeing
    <3>1. Victim \in listed
      BY <1>0, VictimIn
    <3>2. PICK v \in listed : v = Victim /\ v \in Page
      BY <1>0, <3>1
    <3>3. SetState(v, "freeing") /\ pc = "new_page" /\ pc' = "activate" /\ gc' = v /\ UNCHANGED retried
      BY <2>3, <3>2 DEF StartFreeing
    <3>4. OnePage(v, "freeing", flash[v].seq)
      BY <3>2, <3>3, SetStateDoes DEF PageState
    <3>5. \A q \in Page : StateOf(q)' # "active"
      BY <3>3, <3>4 DEF OnePage, StateOf, IndInv, PagesInv, Fresh
    <3> QED BY <3>3, <3>4, <3>5 DEF OnePage
  <2> QED BY <2>1, <2>2, <2>3
<1>4. p \in Page /\ HasSeq(p) /\ HasSeq(p)'
  BY <1>0, <1>2, <1>3 DEF HasSeq, StateOf
<1>5. Listing'
  <2>1. \A q \in Range(free) : ~HasSeq(q)'
    BY <1>3, <1>4 DEF IndInv, PagesInv, Listing, HasSeq, StateOf
  <2> QED BY <1>0, <1>3, <2>1 DEF IndInv, PagesInv, Listing, InCall
<1>6. Ordered'
  BY <1>0, <1>3, <1>4 DEF IndInv, PagesInv, Ordered, HasSeq, StateOf
<1>7. Fresh'
  <2>1. ASSUME NEW q \in listed PROVE HasSeq(q)'
    BY <1>0, <1>2, <1>3, <1>4 DEF HasSeq, StateOf
  <2> QED BY <1>0, <1>3, <2>1 DEF Fresh
<1>8. Spare'
  <2>1. \A q \in Page : StateOf(q) # "freeing"
    BY <1>0 DEF IndInv, PagesInv, Spare, InCall
  <2>2. ~HasSeq(Head(free))
    BY <1>1 DEF IndInv, PagesInv, Listing
  <2>3. \E q \in Page : ~HasSeq(q)'
    BY <1>1, <1>3, <1>4, <2>2 DEF HasSeq, StateOf
  <2>4. \A q, r \in Page : StateOf(q)' = "freeing" /\ StateOf(r)' = "freeing" => q = r
    BY <1>3, <2>1 DEF StateOf
  <2>5. pc' = "new_page" => \A q \in Page : StateOf(q)' # "freeing"
    BY <1>3, <2>1 DEF StateOf
  <2>6. pc' = "activate" => gc' \in listed' /\ StateOf(gc)' = "freeing"
    BY <1>0, <1>3 DEF StateOf
  <2> QED BY <1>0, <1>3, <2>3, <2>4, <2>5, <2>6 DEF Spare, InCall, InMove
<1>9. TypeOK'
  <2>1. gc' = gc \/ gc' = p
    BY <1>3
  <2>2. gc' \in 0 .. PageCount
    BY <1>4, <2>1, SizeAssumption DEF IndInv, TypeOK, Page
  <2>3. retried' \in BOOLEAN
    BY <1>3, Zenon DEF IndInv, TypeOK
  <2>4. pc' \in {"new_page", "activate"}
    BY <1>3
  <2> QED BY <1>0, <1>3, <2>2, <2>3, <2>4 DEF IndInv, TypeOK, FlashType
<1>10. Pending' /\ AlwaysMounts'
  BY <1>0, <1>3 DEF Pending, AlwaysMounts, InMount, InMove
<1> QED BY <1>3, <1>5, <1>6, <1>7, <1>8, <1>9, <1>10 DEF IndInv, PagesInv

-----------------------------------------------------------------------------
(* The theorems.                                                           *)

LEMMA Initially ==
  Init => IndInv
<1> SUFFICES ASSUME Init PROVE IndInv
  OBVIOUS
<1>1. flash = [p \in Page |-> ErasedPage] /\ flash \in FlashType
  BY BlankPage DEF Init, FlashType
<1>2. \A p \in Page : ~HasSeq(p) /\ StateOf(p) = "uninit"
  BY <1>1, BlankPage DEF HasSeq, StateOf
<1>3. TypeOK
  <2>1. <<>> \in Seq(Page) /\ 0 \in 0 .. PageCount + 1 /\ 0 \in 0 .. PageCount
    BY SizeAssumption, EmptySeq
  <2> QED BY <1>1, <2>1 DEF Init, TypeOK, FlashType, Results
<1>4. Listing
  BY DEF Init, Listing, Range, InCall
<1>5. Ordered /\ Fresh
  BY <1>2 DEF Init, Ordered, Fresh
<1>6. Spare
  <2>1. 1 \in Page
    BY SizeAssumption DEF Page
  <2> QED BY <1>2, <2>1 DEF Init, Spare, InCall, InMove
<1>7. Genuine
  BY <1>1, BlankPage DEF Genuine, CellAt
<1> QED BY <1>3, <1>4, <1>5, <1>6, <1>7 DEF Init, IndInv, PagesInv, Pending, AlwaysMounts, InMove

LEMMA Stuttering ==
  ASSUME IndInv, UNCHANGED vars
  PROVE  IndInv'
<1>0. UNCHANGED <<flash, pc, listed, free, nextSeq, scan, gc, op, old, retried, res>>
  BY DEF vars
<1>1. PagesKept /\ flash' \in FlashType /\ Genuine'
  BY <1>0, UnchangedKeeps, QuietStep DEF QuietPc
<1>2. TypeOK'
  BY <1>0 DEF IndInv, TypeOK
<1>3. ASSUME pc' \in {"put_state", "data_state"}, NextFree(Current)' \in Slot
      PROVE  CellAt(Current, NextFree(Current))'.data \in Pieces
  <2>1. pc \in {"put_state", "data_state"}
    BY <1>0, <1>3
  <2>2. PICK c \in listed : c = Current
    BY <2>1, InUse DEF InCall
  <2>3. Current' = c
    BY <1>0, <2>2, UnchangedKeeps, CurrentKept DEF KeepsHeaders
  <2>4. {s \in Slot : CellAt(c, s)'.state = "empty"} = {s \in Slot : CellAt(c, s).state = "empty"}
    BY <1>0 DEF CellAt
  <2>5. NextFree(c)' = NextFree(c)
    BY <2>4 DEF NextFree
  <2>6. NextFree(Current)' = NextFree(c)
    BY <2>3, <2>5
  <2>7. CellAt(c, NextFree(c)).data \in Pieces
    BY <1>3, <2>1, <2>2, <2>6 DEF IndInv, PagesInv, Pending
  <2> QED BY <1>0, <2>3, <2>6, <2>7 DEF CellAt
<1>4. Pending'
  BY <1>0, <1>3 DEF IndInv, PagesInv, Pending
<1> QED BY <1>1, <1>2, <1>4 DEF IndInv, PagesInv, PagesKept

LEMMA Inductive ==
  IndInv /\ [Next]_vars => IndInv'
<1> SUFFICES ASSUME IndInv, [Next]_vars PROVE IndInv'
  OBVIOUS
<1>1. CASE Mounting
  BY <1>1, PoweringOn, QuietMounting, Accepting, Targeting, Recovering, Discarding DEF Mounting
<1>2. CASE Moving
  BY <1>2, Targeting, WritingHeader, Copying, Reclaiming DEF Moving
<1>3. CASE Writing
  BY <1>3, Returning, Starting, WritingHeader, WritingPieces, MarkingPieces, Marking, Targeting
     DEF Writing
<1>4. CASE Erasing
  BY <1>4, Returning, Starting, DroppingItems DEF Erasing
<1>5. CASE BeginCall
  BY <1>5, Starting
<1>6. CASE PowerLoss
  BY <1>6, PoweringOff
<1>7. CASE UNCHANGED vars
  BY <1>7, Stuttering
<1> QED BY <1>1, <1>2, <1>3, <1>4, <1>5, <1>6, <1>7 DEF Next, Step

THEOREM Invariance == Spec => []IndInv
<1>1. Init => IndInv
  BY Initially
<1>2. IndInv /\ [Next]_vars => IndInv'
  BY Inductive
<1> QED BY <1>1, <1>2, PTL DEF Spec

\* Whatever calls are made and whenever the power goes, every variable, and
\* above all the flash, keeps its type.
THEOREM TypesPreserved == Spec => []TypeOK
<1>1. IndInv => TypeOK
  BY DEF IndInv
<1> QED BY <1>1, Invariance, PTL

\* No sequence of calls and power losses, for any size of the partition,
\* leaves it in a state that PageManager::load refuses.
THEOREM PartitionMounts == Spec => []AlwaysMounts
<1>1. IndInv => AlwaysMounts
  BY DEF IndInv, PagesInv
<1> QED BY <1>1, Invariance, PTL

\* Between calls the two page lists partition the pages, at least one page is
\* free and no page is half moved.
THEOREM PageReserved == Spec => []ReservedPage
<1>1. IndInv => ReservedPage
  <2> SUFFICES ASSUME IndInv, pc = "idle"
               PROVE  /\ free # <<>>
                      /\ listed \cup Range(free) = Page
                      /\ listed \cap Range(free) = {}
                      /\ \A p \in listed : StateOf(p) # "freeing"
    BY DEF ReservedPage
  <2> QED BY DEF IndInv, TypeOK, PagesInv, Listing, Spare, InCall
<1> QED BY <1>1, Invariance, PTL

-----------------------------------------------------------------------------
(* What the pages store.                                                   *)

\* The calls and keys that the theorems about content are for.
OneType   == \A v, w \in Values : TypeOf[v] = TypeOf[w]
OwnHashes == \A k, l \in Keys : Hash[k] = Hash[l] => k = l
Regular   == OneType /\ OwnHashes

-----------------------------------------------------------------------------
(* The invariant.                                                          *)

Data(p, s)     == CellAt(p, s).data
LastHead(p, s) == s \in Heads(p) /\ \A t \in Heads(p) : t <= s

\* Entries are used in order, and an item's data entry follows its header.
InOrder(p) ==
  \A s, t \in Slot : s < t /\ CellAt(p, s).state = "empty" => CellAt(p, t).state = "empty"
HasHead(p, t) ==
  /\ t - 1 \in Heads(p) /\ Span[Data(p, t - 1).val] = 2
  /\ Data(p, t).key = Data(p, t - 1).key /\ Data(p, t).val = Data(p, t - 1).val
HasRoom(p, s) ==
  Span[Data(p, s).val] = 2 => s + 1 \in Slot /\ (s + 1 \in Written(p) => Data(p, s + 1).part = 1)
ItemsInOrder(p) ==
  /\ \A t \in Written(p) : Data(p, t).part = 1 => HasHead(p, t)
  /\ \A s \in Heads(p) : HasRoom(p, s)
Layout == \A p \in Page : HasSeq(p) => InOrder(p) /\ ItemsInOrder(p)

\* Two items of one key: one is the copy of the other on the page it is moved
\* to, or it is the newest item, whose predecessor was not erased yet.
Twins(p, s, q, t) == StateOf(p) = "freeing" /\ StateOf(q) = "active" /\ Data(p, s) = Data(q, t)
MayBeLate ==
  pc \in {"off", "load", "dup"} \/ (pc \in {"data", "data_state", "drop"} /\ op.kind = "write")
Late(p, s, q, t) == MayBeLate /\ StateOf(q) = "active" /\ LastHead(q, t) /\ StateOf(p) # "freeing"
Pairs ==
  \A p, q \in Page : HasSeq(p) /\ HasSeq(q) =>
    \A s \in Heads(p), t \in Heads(q) : Data(p, s).key = Data(q, t).key =>
      \/ p = q /\ s = t
      \/ Twins(p, s, q, t) \/ Twins(q, t, p, s)
      \/ Late(p, s, q, t) \/ Late(q, t, p, s)

\* The item a running write stores, and the other ones of the call's key.
NewItem(p, s) ==
  pc \in {"data", "data_state", "drop"} /\ op.kind = "write" /\ p = Current /\ LastHead(p, s)
Elder(p, s) == HasSeq(p) /\ s \in Heads(p) /\ Data(p, s).key = op.key /\ ~NewItem(p, s)

\* An item that is not there to its end is being written, copied or erased, or
\* waits for the next mount.
MayBreak(p, s) ==
  \/ pc = "off"
  \/ pc = "load" /\ p \notin listed
  \/ pc = "dup" /\ listed # {} /\ p \in Superseded /\ Data(p, s).key = LastItem(Current).key
  \/ pc = "find" /\ op.kind = "erase_all" /\ NsOf[Data(p, s).key] = op.ns
  \/ pc = "drop" /\ Elder(p, s)
  \/ pc \in {"data", "data_state"} /\ NewItem(p, s)
  \/ pc = "copy" /\ p = Current /\ StateOf(p) = "active"
Whole == \A p \in Page : HasSeq(p) => \A s \in Broken(p) : MayBreak(p, s)

\* The mount has left no two items of one key on an active page.
Scanned == pc \in {"load", "dup"} =>
  \A p \in listed : StateOf(p) = "active" => \A s \in Heads(p) : Shadowed(p, s) = {}

\* What was copied so far is still on the page it is copied from, and in the
\* end all of that is copied.
CoveredBy(p, q) ==
  \A s \in Heads(p) : Complete(p, s) =>
    \E t \in Heads(q) : Complete(q, t) /\ Data(q, t) = Data(p, s)
Covers ==
  /\ \A g, a \in Page : StateOf(g) = "freeing" /\ StateOf(a) = "active" => CoveredBy(a, g)
  /\ pc = "reclaim" => CoveredBy(gc, Current) /\ (Heads(gc) # {} => StateOf(Current) = "active")

\* The copies are those of the first entries, in order and without gaps.
Rank(s) == Cardinality({t \in Written(gc) : t < s})
CopiedTo(i) ==
  /\ i \in Written(Current)
  /\ \E s \in Written(gc) : Rank(s) = i - 1 /\ Data(gc, s) = Data(Current, i)
CopyInOrder ==
  pc = "copy" /\ StateOf(Current) = "active" =>
    /\ \A i \in Slot : i < NextFree(Current) => CopiedTo(i)
    /\ \A i \in Slot : NextFree(Current) < i => Data(Current, i) = Blank
    /\ NextFree(Current) \in Slot /\ Data(Current, NextFree(Current)) # Blank =>
         ToCopy # {} /\ Data(Current, NextFree(Current)) = Data(gc, Min(ToCopy))

\* What a running write has put on the current page so far.
Storing ==
  /\ pc \in {"put_state", "data", "data_state"} => StateOf(Current) = "active"
  /\ pc = "put_state" =>
       /\ NextFree(Current) + Span[op.val] - 1 <= EntryCount
       /\ Data(Current, NextFree(Current)) = Piece(op.key, op.val, 0)
  /\ pc \in {"data", "data_state"} =>
       /\ NextFree(Current) \in Slot /\ Span[op.val] = 2
       /\ NextFree(Current) - 1 \in Heads(Current)
       /\ Data(Current, NextFree(Current) - 1) = Piece(op.key, op.val, 0)
  /\ pc = "data_state" => Data(Current, NextFree(Current)) = Piece(op.key, op.val, 1)
  /\ pc = "drop" /\ op.kind = "write" =>
       /\ StateOf(Current) = "active"
       /\ \E s \in Heads(Current) : LastHead(Current, s) /\ Data(Current, s) = Piece(op.key, op.val, 0)

\* What the running call knows of the item it replaces or erases.
InWrite == {"put", "put_state", "data", "data_state", "new_page", "drop"} \cup InMove
OldFound ==
  /\ \E p \in Page : \E s \in Heads(p) : Elder(p, s)
  /\ ~Relocated => Elder(old.page, old.slot)
  /\ old.type \in {TypeOf[v] : v \in Values}
  /\ old.seq < nextSeq
  /\ \A p \in listed : ~HasSeq(p) => old.seq < nextSeq - 1
OldKnown ==
  /\ pc = "idle" => op = NoRequest
  /\ pc \in InCall \ {"idle"} => op # NoRequest
  /\ pc \in InWrite /\ op # NoRequest =>
       /\ old = NoPlace => \A p \in Page : \A s \in Heads(p) : ~Elder(p, s)
       /\ old # NoPlace => OldFound
       /\ op.kind # "write" => op.kind = "erase" /\ pc = "drop" /\ old # NoPlace

ContentInv ==
  Layout /\ Pairs /\ Whole /\ Scanned /\ Covers /\ CopyInOrder /\ Storing /\ OldKnown

-----------------------------------------------------------------------------
(* Items.                                                                  *)

LEMMA HeadAt ==
  ASSUME IndInv, NEW p \in Page, NEW s \in Heads(p)
  PROVE  /\ s \in Slot /\ s \in Nat /\ s \in Written(p) /\ CellAt(p, s).state = "written"
         /\ Data(p, s) \in Pieces /\ Data(p, s).key \in Keys /\ Data(p, s).val \in Values
         /\ Data(p, s).part = 0
         /\ Span[Data(p, s).val] \in {1, 2}
         /\ Extent(p, s) = IF Span[Data(p, s).val] = 1 THEN {s} ELSE {s, s + 1}
         /\ Complete(p, s) <=> (Span[Data(p, s).val] = 2 => s + 1 \in Written(p))
<1>1. s \in Slot /\ s \in Nat /\ s \in Written(p) /\ CellAt(p, s).state = "written"
  BY DEF Heads, Written, Slot
<1>2. Data(p, s) \in Pieces /\ Data(p, s).part = 0
  BY <1>1, ItemAt DEF Data, Heads
<1>3. Data(p, s).key \in Keys /\ Data(p, s).val \in Values
  BY <1>2 DEF Pieces
<1>4. Span[Data(p, s).val] \in {1, 2}
  BY <1>3, ItemAssumption
<1>5. Extent(p, s) = s .. (s + Span[Data(p, s).val] - 1)
  BY DEF Extent, Data
<1>6. CASE Span[Data(p, s).val] = 1
  <2>1. Extent(p, s) = {s}
    BY <1>1, <1>5, <1>6
  <2> QED BY <1>1, <1>2, <1>3, <1>4, <1>6, <2>1 DEF Complete
<1>7. CASE Span[Data(p, s).val] = 2
  <2>1. Extent(p, s) = {s, s + 1}
    BY <1>1, <1>5, <1>7
  <2> QED BY <1>1, <1>2, <1>3, <1>4, <1>7, <2>1 DEF Complete
<1> QED BY <1>4, <1>6, <1>7

\* A page whose written entries do not change keeps its items.
SameEntries(q) == Written(q)' = Written(q) /\ \A s \in Written(q) : Data(q, s)' = Data(q, s)

SameItems(q) ==
  Heads(q)' = Heads(q) /\ \A s \in Heads(q) : Data(q, s)' = Data(q, s) /\ (Complete(q, s)' <=> Complete(q, s))

LEMMA EntriesMakeItems ==
  ASSUME NEW q, SameEntries(q)
  PROVE  SameItems(q) /\ (ItemsInOrder(q) => ItemsInOrder(q)')
<1>1. Heads(q)' = Heads(q) /\ \A s \in Heads(q) : s \in Written(q) /\ Data(q, s)' = Data(q, s)
  BY DEF SameEntries, Heads, Data
<1>2. ASSUME NEW s \in Heads(q) PROVE Complete(q, s)' <=> Complete(q, s)
  <2>1. Extent(q, s)' = Extent(q, s)
    BY <1>1 DEF Extent, Data
  <2> QED BY <2>1 DEF Complete, SameEntries
<1>3. ASSUME ItemsInOrder(q) PROVE ItemsInOrder(q)'
  BY <1>1, <1>3 DEF ItemsInOrder, HasHead, HasRoom, SameEntries
<1> QED BY <1>1, <1>2, <1>3 DEF SameItems

LEMMA CellsMakeEntries ==
  ASSUME NEW q, flash'[q].cell = flash[q].cell
  PROVE  /\ SameEntries(q) /\ (InOrder(q) => InOrder(q)') /\ NextFree(q)' = NextFree(q)
         /\ \A s \in Slot : CellAt(q, s)' = CellAt(q, s)
<1>1. \A s : CellAt(q, s)' = CellAt(q, s)
  BY DEF CellAt
<1>2. SameEntries(q)
  BY <1>1 DEF SameEntries, Written, Data
<1>3. InOrder(q) => InOrder(q)'
  BY <1>1 DEF InOrder
<1>4. {s \in Slot : CellAt(q, s)'.state = "empty"} = {s \in Slot : CellAt(q, s).state = "empty"}
  BY <1>1
<1>5. NextFree(q)' = NextFree(q)
  BY <1>4 DEF NextFree
<1> QED BY <1>1, <1>2, <1>3, <1>5

\* What follows from the items alone.
LEMMA ItemsMakeViews ==
  ASSUME NEW q, SameItems(q)
  PROVE  /\ Broken(q)' = Broken(q)
         /\ \A k : KeyHeads(q, k)' = KeyHeads(q, k)
         /\ \A s : LastHead(q, s)' <=> LastHead(q, s)
         /\ \A s \in Heads(q) : Shadowed(q, s)' = Shadowed(q, s)
<1>1. Broken(q)' = Broken(q)
  BY DEF SameItems, Broken
<1>2. \A k : KeyHeads(q, k)' = KeyHeads(q, k)
  BY DEF SameItems, KeyHeads, Data
<1>3. \A s : LastHead(q, s)' <=> LastHead(q, s)
  BY DEF SameItems, LastHead
<1>4. \A s \in Heads(q) : Shadowed(q, s)' = Shadowed(q, s)
  BY DEF SameItems, Shadowed, Data
<1> QED BY <1>1, <1>2, <1>3, <1>4

-----------------------------------------------------------------------------
(* The next free entry.                                                    *)

LEMMA NextFreeIs ==
  ASSUME IndInv, NEW p \in Page
  PROVE  /\ NextFree(p) \in 1 .. (EntryCount + 1)
         /\ NextFree(p) \in Slot => CellAt(p, NextFree(p)).state = "empty" /\ NextFree(p) \notin Written(p)
         /\ \A s \in Slot : s < NextFree(p) => CellAt(p, s).state # "empty"
         /\ InOrder(p) => \A s \in Slot : NextFree(p) <= s => CellAt(p, s).state = "empty"
         /\ InOrder(p) => \A s \in Written(p) : s < NextFree(p)
<1> DEFINE E == {s \in Slot : CellAt(p, s).state = "empty"}
           n == NextFree(p)
<1>1. E \cup {EntryCount + 1} \subseteq Nat /\ EntryCount \in Nat /\ EntryCount + 1 \notin Slot
  BY SizeAssumption DEF Slot
<1>2. n = Min(E \cup {EntryCount + 1})
  BY DEF NextFree
<1>3. n \in E \cup {EntryCount + 1} /\ \A y \in E \cup {EntryCount + 1} : n <= y
  <2> HIDE DEF n, E
  <2> QED BY <1>1, <1>2, MinOfNaturals
<1> HIDE DEF n
<1>4. n \in 1 .. (EntryCount + 1)
  BY <1>1, <1>3 DEF Slot
<1>5. n \in Slot => CellAt(p, n).state = "empty" /\ n \notin Written(p)
  BY <1>1, <1>3 DEF Written
<1>6. \A s \in Slot : s < n => CellAt(p, s).state # "empty"
  BY <1>1, <1>3, <1>4 DEF Slot
<1>7. ASSUME InOrder(p), NEW s \in Slot, n <= s PROVE CellAt(p, s).state = "empty"
  <2>1. n \in Slot
    BY <1>1, <1>4, <1>7 DEF Slot
  <2>2. n = s \/ n < s
    BY <1>4, <1>7 DEF Slot
  <2> QED BY <1>5, <1>7, <2>1, <2>2 DEF InOrder
<1>8. ASSUME InOrder(p), NEW s \in Written(p) PROVE s < n
  <2>1. s \in Slot /\ CellAt(p, s).state # "empty"
    BY DEF Written
  <2>2. ~ (n <= s)
    BY <1>7, <1>8, <2>1
  <2> QED BY <1>4, <2>1, <2>2 DEF Slot
<1> QED BY <1>4, <1>5, <1>6, <1>7, <1>8 DEF n

-----------------------------------------------------------------------------
(* Flash operations and items.                                             *)

\* Item s of page p is erased, as a whole or from its end.
Erased(p, s) ==
  /\ SameHeaders
  /\ \A q \in Page \ {p} : SameItems(q)
  /\ Heads(p)' \subseteq Heads(p)
  /\ \A t \in Heads(p) \ {s} : /\ t \in Heads(p)' /\ Data(p, t)' = Data(p, t)
                               /\ Complete(p, t)' <=> Complete(p, t)
  /\ s \in Heads(p)' => Data(p, s)' = Data(p, s) /\ ~Complete(p, s)'

LEMMA ItemSlotsAre ==
  ASSUME IndInv, NEW p \in Page, NEW s \in Heads(p)
  PROVE  /\ s \in ItemSlots(p, s) /\ Min(ItemSlots(p, s)) = s /\ ItemSlots(p, s) \subseteq Slot
         /\ \A t \in ItemSlots(p, s) : t = s \/ (t = s + 1 /\ Span[Data(p, s).val] = 2)
         /\ \A t \in Slot : t = s + 1 /\ Span[Data(p, s).val] = 2 /\ t \notin ItemSlots(p, s) =>
              CellAt(p, t).state = "erased"
<1>1. /\ s \in Slot /\ s \in Nat /\ CellAt(p, s).state = "written"
      /\ Extent(p, s) = IF Span[Data(p, s).val] = 1 THEN {s} ELSE {s, s + 1}
      /\ Span[Data(p, s).val] \in {1, 2}
  BY HeadAt
<1> DEFINE S == ItemSlots(p, s)
<1>2. s \in S /\ S \subseteq Slot /\ \A t \in S : t = s \/ (t = s + 1 /\ Span[Data(p, s).val] = 2)
  BY <1>1 DEF ItemSlots
<1>3. S \subseteq Nat
  BY <1>2 DEF Slot
<1>4. Min(S) \in S /\ Min(S) <= s
  <2> HIDE DEF S
  <2> QED BY <1>2, <1>3, MinOfNaturals
<1>5. Min(S) = s
  BY <1>1, <1>2, <1>4
<1>6. \A t \in Slot : t = s + 1 /\ Span[Data(p, s).val] = 2 /\ t \notin S => CellAt(p, t).state = "erased"
  BY <1>1 DEF ItemSlots
<1> QED BY <1>2, <1>5, <1>6

LEMMA EraseFromDoes ==
  ASSUME IndInv, Layout, NEW p \in Page, HasSeq(p), NEW s \in Heads(p), NEW b \in ItemSlots(p, s),
         EraseFrom(p, ItemSlots(p, s), b)
  PROVE  Erased(p, s) /\ Layout' /\ (s \notin Heads(p)' <=> b = Min(ItemSlots(p, s)))
<1> DEFINE S == ItemSlots(p, s)
<1>0. flash \in FlashType /\ KeepsHeaders
  BY EraseFromKeeps DEF IndInv, TypeOK, FlashType
<1>1. /\ s \in S /\ Min(S) = s /\ S \subseteq Slot
      /\ \A t \in S : t = s \/ (t = s + 1 /\ Span[Data(p, s).val] = 2)
      /\ \A t \in Slot : t = s + 1 /\ Span[Data(p, s).val] = 2 /\ t \notin S =>
           CellAt(p, t).state = "erased"
  BY ItemSlotsAre
<1>2. \A q \in Page \ {p} : flash'[q].cell = flash[q].cell
  BY <1>0 DEF EraseFrom, FlashType
<1>3. \A t \in Slot : CellAt(p, t)' = IF t \in S /\ t >= b THEN ErasedCell ELSE CellAt(p, t)
  BY <1>0 DEF EraseFrom, FlashType, CellAt
<1> HIDE DEF S
<1>4. /\ s \in Slot /\ s \in Nat /\ s \in Written(p) /\ Data(p, s).part = 0
      /\ Span[Data(p, s).val] \in {1, 2}
      /\ InOrder(p) /\ ItemsInOrder(p)
      /\ b \in S /\ b \in Nat
  BY <1>1, HeadAt DEF Layout, S, Slot
<1>5. Written(p)' = {t \in Written(p) : ~ (t \in S /\ t >= b)}
  BY <1>3 DEF Written, ErasedCell
<1>6. \A t \in Written(p)' : t \in Written(p) /\ t \in Slot /\ Data(p, t)' = Data(p, t)
  BY <1>3, <1>5 DEF Written, Data
<1>7. Heads(p)' = {t \in Heads(p) : ~ (t \in S /\ t >= b)}
  BY <1>5, <1>6 DEF Heads, Data
<1>8. \A t \in Heads(p) \ {s} : t \notin S
  <2> SUFFICES ASSUME NEW t \in Heads(p), t # s, t \in S PROVE FALSE
    OBVIOUS
  <2>1. t = s + 1 /\ Span[Data(p, s).val] = 2 /\ t \in Written(p)
    BY <1>1, HeadAt
  <2>2. Data(p, t).part = 1
    BY <1>4, <2>1 DEF ItemsInOrder, HasRoom
  <2> QED BY <2>2 DEF Heads, Data
<1>9. \A t \in Heads(p) \ {s} : t \in Heads(p)' /\ Data(p, t)' = Data(p, t)
  BY <1>6, <1>7, <1>8, HeadAt, <1>5
<1>10. ASSUME NEW t \in Heads(p) \ {s} PROVE Complete(p, t)' <=> Complete(p, t)
  <2>0. Extent(p, t)' = Extent(p, t)
    BY <1>9 DEF Extent, Data
  <2>1. t \in Nat /\ Extent(p, t) = IF Span[Data(p, t).val] = 1 THEN {t} ELSE {t, t + 1}
    BY HeadAt
  <2>2. \A x \in Extent(p, t) : x \in Written(p) => x \notin S
    <3> SUFFICES ASSUME NEW x \in Extent(p, t), x \in Written(p), x \in S PROVE FALSE
      OBVIOUS
    <3>1. x = t + 1 /\ Span[Data(p, t).val] = 2
      BY <1>8, <2>1, HeadAt
    <3>2. Data(p, x).part = 1
      BY <1>4, <3>1 DEF ItemsInOrder, HasRoom
    <3>3. x = s
      BY <1>1, <1>4, <2>1, <3>1
    <3> QED BY <1>4, <3>2, <3>3
  <2> QED BY <1>5, <2>0, <2>2 DEF Complete
<1>11. b = s => s \notin Heads(p)'
  BY <1>1, <1>4, <1>7
<1>12. ASSUME b # s
       PROVE  s \in Heads(p)' /\ Data(p, s)' = Data(p, s) /\ ~Complete(p, s)'
  <2>1. b = s + 1 /\ Span[Data(p, s).val] = 2
    BY <1>1, <1>4, <1>12
  <2>2. s \in Heads(p)'
    BY <1>4, <1>7, <2>1
  <2>3. Data(p, s)' = Data(p, s)
    BY <1>4, <1>5, <1>6, <2>1
  <2>4. s + 1 \notin Written(p)'
    BY <1>4, <1>5, <2>1
  <2>5. Extent(p, s)' = Extent(p, s)
    BY <2>3 DEF Extent, Data
  <2>6. s + 1 \in Extent(p, s)
    BY <2>1, HeadAt
  <2> QED BY <2>2, <2>3, <2>4, <2>5, <2>6 DEF Complete
<1>13. Erased(p, s)
  <2>1. \A q \in Page \ {p} : SameItems(q)
    BY <1>2, CellsMakeEntries, EntriesMakeItems
  <2> QED BY <1>0, <1>7, <1>9, <1>10, <1>11, <1>12, <2>1 DEF Erased, KeepsHeaders
<1>14. ItemsInOrder(p)'
  <2>1. ASSUME NEW t \in Written(p)', Data(p, t)'.part = 1 PROVE HasHead(p, t)'
    <3>1. t \in Written(p) /\ Data(p, t) = Data(p, t)' /\ t \in Nat /\ HasHead(p, t)
      BY <1>4, <1>6, <2>1 DEF ItemsInOrder, Slot
    <3>2. t - 1 \in Heads(p)'
      <4>1. CASE t - 1 # s
        BY <1>9, <3>1, <4>1 DEF HasHead
      <4>2. CASE t - 1 = s
        <5>1. t = s + 1 /\ Span[Data(p, s).val] = 2
          BY <1>4, <3>1, <4>2 DEF HasHead
        <5>2. CellAt(p, t).state = "written" /\ t \in Slot
          BY <3>1 DEF Written
        <5>3. t \in S
          BY <1>1, <5>1, <5>2
        <5>4. b # s
          BY <1>4, <1>5, <2>1, <5>1, <5>3
        <5> QED BY <1>12, <4>2, <5>4
      <4> QED BY <4>1, <4>2
    <3>3. Data(p, t - 1)' = Data(p, t - 1)
      BY <1>9, <1>12, <1>11, <3>1, <3>2 DEF HasHead
    <3> QED BY <3>1, <3>2, <3>3 DEF HasHead
  <2>2. ASSUME NEW t \in Heads(p)' PROVE HasRoom(p, t)'
    <3>1. t \in Heads(p) /\ Data(p, t)' = Data(p, t) /\ HasRoom(p, t)
      BY <1>4, <1>7, <1>9, <1>11, <1>12 DEF ItemsInOrder
    <3> QED BY <1>6, <3>1 DEF HasRoom
  <2> QED BY <2>1, <2>2 DEF ItemsInOrder
<1>15. InOrder(p)'
  <2> SUFFICES ASSUME NEW x \in Slot, NEW y \in Slot, x < y, CellAt(p, x)'.state = "empty"
               PROVE  CellAt(p, y)'.state = "empty"
    BY DEF InOrder
  <2>1. CellAt(p, x).state = "empty"
    BY <1>3 DEF ErasedCell
  <2>2. CellAt(p, y).state = "empty"
    BY <1>4, <2>1 DEF InOrder
  <2>3. y \notin S
    <3>1. CellAt(p, s).state = "written"
      BY HeadAt
    <3>2. ~ (x < s)
      BY <1>4, <2>1, <3>1 DEF InOrder
    <3>3. y # s /\ x # s
      BY <2>1, <2>2, <3>1
    <3>4. x > s /\ y > s + 1 /\ y # s + 1
      BY <1>4, <3>2, <3>3 DEF Slot
    <3> QED BY <1>1, <3>3, <3>4
  <2> QED BY <1>3, <2>2, <2>3
<1>16. Layout'
  <2> SUFFICES ASSUME NEW q \in Page, HasSeq(q)' PROVE InOrder(q)' /\ ItemsInOrder(q)'
    BY DEF Layout
  <2>1. HasSeq(q)
    BY <1>0 DEF KeepsHeaders, SameHeaders, HasSeq, StateOf
  <2>2. CASE q # p
    BY <1>2, <2>1, <2>2, CellsMakeEntries, EntriesMakeItems DEF Layout
  <2> QED BY <1>14, <1>15, <2>2
<1>17. s \notin Heads(p)' <=> b = Min(ItemSlots(p, s))
  BY <1>1, <1>11, <1>12 DEF S
<1> QED BY <1>13, <1>16, <1>17

\* No item changes.
ItemsKept == SameHeaders /\ \A q \in Page : SameItems(q)

LEMMA EntryPrepared ==
  ASSUME IndInv, Layout, NEW p \in Page, HasSeq(p), NEW d \in Pieces,
         SetCell(p, NextFree(p), [state |-> "empty", data |-> d])
  PROVE  /\ KeepsHeaders /\ ItemsKept /\ Layout'
         /\ NextFree(p)' = NextFree(p)
         /\ NextFree(p) \in Slot => Data(p, NextFree(p))' = d
         /\ \A t \in Slot : t # NextFree(p) => CellAt(p, t)' = CellAt(p, t)
         /\ \A q \in Page \ {p} : flash'[q].cell = flash[q].cell
<1> DEFINE n == NextFree(p)
           c == [state |-> "empty", data |-> d]
<1>1. /\ KeepsHeaders /\ NextFree(p)' = NextFree(p)
      /\ NextFree(p) \in Slot => CellAt(p, NextFree(p))' = [state |-> "empty", data |-> d]
  BY NextFreeKept
<1>2. flash \in FlashType /\ (n \in Slot => CellAt(p, n).state = "empty" /\ n \notin Written(p))
  BY NextFreeIs DEF IndInv, TypeOK, FlashType
<1>3. /\ \A t \in Slot : t # n => CellAt(p, t)' = CellAt(p, t)
      /\ \A q \in Page \ {p} : flash'[q].cell = flash[q].cell
  <2> HIDE DEF n
  <2>1. flash' = [flash EXCEPT ![p].cell[n] = c]
    BY DEF SetCell, n
  <2> HIDE DEF c
  <2> QED BY <1>2, <2>1 DEF FlashType, CellAt
<1>4. \A t \in Slot : CellAt(p, t)'.state = CellAt(p, t).state
  BY <1>1, <1>2, <1>3
<1>5. SameEntries(p)
  <2>1. Written(p)' = Written(p)
    BY <1>4 DEF Written
  <2>2. \A t \in Written(p) : t \in Slot /\ t # n
    BY <1>2 DEF Written
  <2> QED BY <1>3, <2>1, <2>2 DEF SameEntries, Data
<1>6. InOrder(p) => InOrder(p)'
  BY <1>4 DEF InOrder
<1>7. \A q \in Page : SameItems(q) /\ (InOrder(q) /\ ItemsInOrder(q) => InOrder(q)' /\ ItemsInOrder(q)')
  <2> SUFFICES ASSUME NEW q \in Page
               PROVE  SameItems(q) /\ (InOrder(q) /\ ItemsInOrder(q) => InOrder(q)' /\ ItemsInOrder(q)')
    OBVIOUS
  <2>1. CASE q = p
    BY <1>5, <1>6, <2>1, EntriesMakeItems
  <2>2. CASE q # p
    BY <1>3, <2>2, CellsMakeEntries, EntriesMakeItems
  <2> QED BY <2>1, <2>2
<1>8. \A q \in Page : HasSeq(q)' => HasSeq(q)
  BY <1>1 DEF KeepsHeaders, SameHeaders, HasSeq, StateOf
<1>9. Layout' /\ ItemsKept
  BY <1>1, <1>7, <1>8 DEF Layout, ItemsKept, KeepsHeaders
<1>10. n \in Slot => Data(p, n)' = d
  <2>1. CellAt(p, n)' = c /\ c.data = d => Data(p, n)' = d
    BY <1>1 DEF Data
  <2> QED BY <1>1, <2>1
<1> QED BY <1>1, <1>3, <1>9, <1>10

LEMMA HalfEntryErased ==
  ASSUME IndInv, Layout, NEW p \in Page, NEW b \in HalfWritten(p), EraseFrom(p, HalfWritten(p), b)
  PROVE  KeepsHeaders /\ ItemsKept /\ Layout'
<1> DEFINE n == NextFree(p)
<1>0. flash \in FlashType /\ KeepsHeaders
  BY EraseFromKeeps DEF IndInv, TypeOK, FlashType
<1>1. HalfWritten(p) = {n} /\ b = n /\ n \in Slot
  BY DEF HalfWritten
<1>2. /\ CellAt(p, n).state = "empty" /\ n \in Nat
      /\ \A s \in Slot : s < n => CellAt(p, s).state # "empty"
  BY <1>1, NextFreeIs DEF Slot
<1>3. \A q \in Page \ {p} : flash'[q].cell = flash[q].cell
  BY <1>0 DEF EraseFrom, FlashType
<1>4. \A t \in Slot : CellAt(p, t)' = IF t = n THEN ErasedCell ELSE CellAt(p, t)
  <2> HIDE DEF n
  <2> QED BY <1>0, <1>1, <1>2 DEF EraseFrom, FlashType, CellAt
<1> HIDE DEF n
<1>5. SameEntries(p)
  <2>1. Written(p)' = Written(p) /\ n \notin Written(p)
    BY <1>2, <1>4 DEF Written, ErasedCell
  <2>2. \A t \in Written(p) : t \in Slot /\ t # n
    BY <2>1 DEF Written
  <2> QED BY <1>4, <2>1, <2>2 DEF SameEntries, Data
<1>6. InOrder(p) => InOrder(p)'
  <2> SUFFICES ASSUME InOrder(p), NEW x \in Slot, NEW y \in Slot, x < y, CellAt(p, x)'.state = "empty"
               PROVE  CellAt(p, y)'.state = "empty"
    BY DEF InOrder
  <2>1. CellAt(p, x).state = "empty" /\ x # n
    BY <1>4 DEF ErasedCell
  <2>2. CellAt(p, y).state = "empty"
    BY <2>1 DEF InOrder
  <2>3. y # n
    BY <1>2, <2>1
  <2> QED BY <1>4, <2>2, <2>3
<1>7. \A q \in Page : SameItems(q) /\ (InOrder(q) /\ ItemsInOrder(q) => InOrder(q)' /\ ItemsInOrder(q)')
  <2> SUFFICES ASSUME NEW q \in Page
               PROVE  SameItems(q) /\ (InOrder(q) /\ ItemsInOrder(q) => InOrder(q)' /\ ItemsInOrder(q)')
    OBVIOUS
  <2>1. CASE q = p
    BY <1>5, <1>6, <2>1, EntriesMakeItems
  <2>2. CASE q # p
    BY <1>3, <2>2, CellsMakeEntries, EntriesMakeItems
  <2> QED BY <2>1, <2>2
<1>8. \A q \in Page : HasSeq(q)' => HasSeq(q)
  BY <1>0 DEF KeepsHeaders, SameHeaders, HasSeq, StateOf
<1> QED BY <1>0, <1>7, <1>8 DEF Layout, ItemsKept, KeepsHeaders

\* An entry is marked as written: the header of a new item, or the rest of the
\* item before it.
Stored(p, n) ==
  /\ SameHeaders
  /\ \A q \in Page \ {p} : SameItems(q) /\ flash'[q].cell = flash[q].cell
  /\ \A t \in Slot : Data(p, t)' = Data(p, t)
  /\ Written(p)' = Written(p) \cup {n} /\ NextFree(p)' = n + 1
  /\ \A t \in Heads(p) : t < n
  /\ Data(p, n).part = 0 =>
       /\ Heads(p)' = Heads(p) \cup {n}
       /\ \A t \in Heads(p) : Complete(p, t)' <=> Complete(p, t)
       /\ Complete(p, n)' <=> Span[Data(p, n).val] = 1
  /\ Data(p, n).part = 1 =>
       /\ Heads(p)' = Heads(p) /\ n - 1 \in Heads(p)
       /\ Complete(p, n - 1)' /\ ~Complete(p, n - 1)
       /\ \A t \in Heads(p) : t # n - 1 => (Complete(p, t)' <=> Complete(p, t))

LEMMA EntryStored ==
  ASSUME IndInv, Layout, NEW p \in Page, HasSeq(p), NEW n, n = NextFree(p), n \in Slot,
         Data(p, n) \in Pieces, MarkWritten(p, n),
         Data(p, n).part = 1 => HasHead(p, n),
         Data(p, n).part = 0 => /\ n - 1 \in Heads(p) => Span[Data(p, n - 1).val] = 1
                                /\ Span[Data(p, n).val] = 2 => n + 1 \in Slot
  PROVE  KeepsHeaders /\ Stored(p, n) /\ Layout'
<1>0. flash \in FlashType /\ KeepsHeaders /\ n \in Nat /\ InOrder(p) /\ ItemsInOrder(p)
  BY MarkWrittenKeeps DEF IndInv, TypeOK, FlashType, Data, Layout, Slot
<1>1. /\ CellAt(p, n).state = "empty" /\ n \notin Written(p)
      /\ \A s \in Slot : s < n => CellAt(p, s).state # "empty"
      /\ \A s \in Slot : n <= s => CellAt(p, s).state = "empty"
      /\ \A s \in Written(p) : s < n
  BY <1>0, NextFreeIs
<1>2. /\ \A q \in Page \ {p} : flash'[q].cell = flash[q].cell
      /\ \A t \in Slot : t # n => CellAt(p, t)' = CellAt(p, t)
      /\ CellAt(p, n)'.state = "written" /\ CellAt(p, n)'.data = CellAt(p, n).data
  <2>1. flash[p].cell[n] \in Cells /\ flash[p].cell \in [Slot -> Cells]
    BY <1>0, PageAt DEF CellAt
  <2> QED BY <1>0, <2>1 DEF MarkWritten, FlashType, CellAt, Cells
<1>3. \A t \in Slot : Data(p, t)' = Data(p, t)
  BY <1>2 DEF Data
<1>4. Written(p)' = Written(p) \cup {n}
  BY <1>2 DEF Written
<1>5. Written(p) \subseteq Slot /\ Written(p) \subseteq Nat /\ Heads(p) \subseteq Written(p)
  BY DEF Written, Heads, Slot
<1>6. Heads(p)' = {t \in Written(p) \cup {n} : Data(p, t).part = 0}
  BY <1>3, <1>4, <1>5 DEF Heads, Data
<1>7. Heads(p) = {t \in Written(p) : Data(p, t).part = 0}
  BY DEF Heads, Data
<1>8. \A t \in Heads(p) : t < n
  BY <1>1, <1>5
<1>9. \A t \in Heads(p) \cup {n} : Extent(p, t)' = Extent(p, t)
  BY <1>3, <1>5 DEF Extent, Data
<1>10. \A t \in Heads(p) : Complete(p, t)' <=> Extent(p, t) \subseteq Written(p) \cup {n}
  BY <1>4, <1>9 DEF Complete
<1>11. \A t \in Heads(p) : n \in Extent(p, t) <=> t = n - 1 /\ Span[Data(p, t).val] = 2
  BY <1>0, <1>8, HeadAt
<1>12. ASSUME Data(p, n).part = 0
       PROVE  /\ Heads(p)' = Heads(p) \cup {n}
              /\ \A t \in Heads(p) : Complete(p, t)' <=> Complete(p, t)
              /\ Complete(p, n)' <=> Span[Data(p, n).val] = 1
  <2>1. Heads(p)' = Heads(p) \cup {n}
    BY <1>6, <1>7, <1>12
  <2>2. \A t \in Heads(p) : n \notin Extent(p, t)
    BY <1>0, <1>5, <1>11, <1>12
  <2>3. Span[Data(p, n).val] \in {1, 2}
    BY ItemAssumption DEF Pieces
  <2>4. Extent(p, n)' = n .. (n + Span[Data(p, n).val] - 1)
    BY <1>9 DEF Extent, Data
  <2>5. n + 1 \notin Written(p) \cup {n}
    BY <1>0, <1>1, <1>5
  <2>6. Complete(p, n)' <=> Extent(p, n)' \subseteq Written(p) \cup {n}
    BY <1>4 DEF Complete
  <2>7. CASE Span[Data(p, n).val] = 1
    <3>1. Extent(p, n)' = {n}
      BY <1>0, <2>4, <2>7
    <3> QED BY <1>10, <2>1, <2>2, <2>6, <2>7, <3>1 DEF Complete
  <2>8. CASE Span[Data(p, n).val] = 2
    <3>1. Extent(p, n)' = {n, n + 1}
      BY <1>0, <2>4, <2>8
    <3> QED BY <1>10, <2>1, <2>2, <2>5, <2>6, <2>8, <3>1 DEF Complete
  <2> QED BY <2>3, <2>7, <2>8
<1>13. ASSUME Data(p, n).part = 1
       PROVE  /\ Heads(p)' = Heads(p) /\ n - 1 \in Heads(p)
              /\ Complete(p, n - 1)' /\ ~Complete(p, n - 1)
              /\ \A t \in Heads(p) : t # n - 1 => (Complete(p, t)' <=> Complete(p, t))
  <2>1. Heads(p)' = Heads(p)
    BY <1>6, <1>7, <1>13
  <2>2. n - 1 \in Heads(p) /\ Span[Data(p, n - 1).val] = 2
    BY <1>13 DEF HasHead
  <2>3. Extent(p, n - 1) = {n - 1, n}
    BY <1>0, <2>2, HeadAt
  <2>4. Complete(p, n - 1)' /\ ~Complete(p, n - 1)
    BY <1>1, <1>5, <1>10, <2>2, <2>3 DEF Complete
  <2>5. \A t \in Heads(p) : t # n - 1 => (Complete(p, t)' <=> Complete(p, t))
    BY <1>10, <1>11 DEF Complete
  <2> QED BY <2>1, <2>2, <2>4, <2>5
<1>14. NextFree(p)' = n + 1
  <2> DEFINE E == {s \in Slot : CellAt(p, s)'.state = "empty"}
  <2>1. E = {s \in Slot : n < s}
    BY <1>0, <1>1, <1>2 DEF Slot
  <2>2. n + 1 \in E \cup {EntryCount + 1} /\ E \cup {EntryCount + 1} \subseteq Nat
    BY <1>0, <2>1, SizeAssumption DEF Slot
  <2>3. \A y \in E \cup {EntryCount + 1} : n + 1 <= y
    BY <1>0, <2>1, SizeAssumption DEF Slot
  <2>4. NextFree(p)' = Min(E \cup {EntryCount + 1})
    BY DEF NextFree
  <2>5. NextFree(p)' \in E \cup {EntryCount + 1} /\ \A y \in E \cup {EntryCount + 1} : NextFree(p)' <= y
    <3> HIDE DEF E
    <3> QED BY <2>2, <2>4, MinOfNaturals
  <2>6. NextFree(p)' <= n + 1 /\ n + 1 <= NextFree(p)' /\ NextFree(p)' \in Nat
    <3> HIDE DEF E
    <3> QED BY <2>2, <2>3, <2>5
  <2> QED BY <1>0, <2>6
<1>15. Stored(p, n)
  <2>1. \A q \in Page \ {p} : SameItems(q)
    BY <1>2, CellsMakeEntries, EntriesMakeItems
  <2> QED BY <1>0, <1>2, <1>3, <1>4, <1>8, <1>12, <1>13, <1>14, <2>1 DEF Stored, KeepsHeaders
<1>16. InOrder(p)'
  <2> SUFFICES ASSUME NEW x \in Slot, NEW y \in Slot, x < y, CellAt(p, x)'.state = "empty"
               PROVE  CellAt(p, y)'.state = "empty"
    BY DEF InOrder
  <2>1. x # n /\ CellAt(p, x).state = "empty"
    BY <1>2
  <2>2. n < x
    BY <1>0, <1>1, <2>1 DEF Slot
  <2>3. y # n /\ CellAt(p, y).state = "empty"
    BY <1>0, <1>1, <2>2 DEF Slot
  <2> QED BY <1>2, <2>3
<1>17. ItemsInOrder(p)'
  <2>1. ASSUME NEW t \in Written(p)', Data(p, t)'.part = 1 PROVE HasHead(p, t)'
    <3>1. t \in Slot /\ t \in Nat /\ Data(p, t)' = Data(p, t)
      BY <1>3, <1>4, <1>5 DEF Slot
    <3>2. HasHead(p, t)
      BY <1>0, <1>4, <2>1, <3>1 DEF ItemsInOrder
    <3>3. t - 1 \in Heads(p)' /\ t - 1 \in Slot
      BY <1>5, <1>12, <1>13, <3>2, <1>6 DEF HasHead, Heads, Data
    <3>4. Data(p, t - 1)' = Data(p, t - 1)
      BY <1>3, <3>3
    <3> QED BY <3>1, <3>2, <3>3, <3>4 DEF HasHead
  <2>2. ASSUME NEW t \in Heads(p)', Span[Data(p, t)'.val] = 2
        PROVE  t + 1 \in Slot /\ (t + 1 \in Written(p)' => Data(p, t + 1)'.part = 1)
    <3>0. t \in Written(p) \cup {n} /\ t \in Slot /\ t \in Nat /\ Data(p, t)' = Data(p, t) /\ Data(p, t).part = 0
      BY <1>3, <1>5, <1>6 DEF Slot
    <3>1. CASE t = n
      <4>1. t + 1 \in Slot /\ t + 1 \notin Written(p)'
        BY <1>0, <1>1, <1>4, <1>5, <2>2, <3>0, <3>1
      <4> QED BY <4>1
    <3>2. CASE t # n
      <4>1. t \in Heads(p) /\ HasRoom(p, t)
        BY <1>0, <1>7, <3>0, <3>2 DEF ItemsInOrder
      <4>2. t + 1 \in Slot /\ (t + 1 \in Written(p) => Data(p, t + 1).part = 1)
        BY <2>2, <3>0, <4>1 DEF HasRoom
      <4>3. CASE t + 1 = n
        <5>1. t = n - 1 /\ Data(p, n).part \in {0, 1}
          BY <1>0, <3>0, <4>3 DEF Pieces
        <5>2. Data(p, n).part # 0
          BY <2>2, <3>0, <4>1, <5>1
        <5> QED BY <1>3, <4>2, <4>3, <5>1, <5>2
      <4>4. CASE t + 1 # n
        BY <1>3, <1>4, <4>2, <4>4
      <4> QED BY <4>3, <4>4
    <3> QED BY <3>1, <3>2
  <2> QED BY <2>1, <2>2 DEF ItemsInOrder, HasRoom
<1>18. Layout'
  <2> SUFFICES ASSUME NEW q \in Page, HasSeq(q)' PROVE InOrder(q)' /\ ItemsInOrder(q)'
    BY DEF Layout
  <2>1. HasSeq(q)
    BY <1>0 DEF KeepsHeaders, SameHeaders, HasSeq, StateOf
  <2>2. CASE q # p
    BY <1>2, <2>1, <2>2, CellsMakeEntries, EntriesMakeItems DEF Layout
  <2> QED BY <1>16, <1>17, <2>2
<1> QED BY <1>0, <1>15, <1>18

-----------------------------------------------------------------------------
(* Pages.                                                                  *)

Gone(p) == ~HasSeq(p)' /\ \A q \in Page \ {p} : flash'[q] = flash[q]

LEMMA PageSame ==
  ASSUME NEW q, flash'[q] = flash[q]
  PROVE  /\ StateOf(q)' = StateOf(q) /\ (HasSeq(q)' <=> HasSeq(q))
         /\ SameItems(q) /\ (ItemsInOrder(q) => ItemsInOrder(q)')
         /\ (InOrder(q) => InOrder(q)') /\ NextFree(q)' = NextFree(q)
         /\ \A s : CellAt(q, s)' = CellAt(q, s)
BY CellsMakeEntries, EntriesMakeItems DEF StateOf, HasSeq, CellAt

LEMMA StatesSame ==
  ASSUME SameHeaders
  PROVE  \A q \in Page : /\ StateOf(q)' = StateOf(q) /\ (HasSeq(q)' <=> HasSeq(q))
                         /\ flash'[q].seq = flash[q].seq
BY DEF SameHeaders, StateOf, HasSeq

LEMMA SeqOfSame ==
  ASSUME SameHeaders, UNCHANGED nextSeq
  PROVE  \A q \in Page : SeqOf(q)' = SeqOf(q)
BY StatesSame DEF SeqOf

LEMMA CurrentSame ==
  ASSUME IndInv, UNCHANGED listed, listed # {}, \A q \in listed : SeqOf(q)' = SeqOf(q)
  PROVE  Current' = Current
<1>1. PICK c \in listed : c = Current /\ \A q \in listed : SeqOf(q) <= SeqOf(c)
  BY CurrentIn
<1>2. \A q \in listed : SeqOf(q)' <= SeqOf(c)'
  BY <1>1
<1>3. ASSUME NEW p \in listed, \A q \in listed : SeqOf(q)' <= SeqOf(p)'
      PROVE  p = c
  BY <1>1, <1>3, CurrentUnique
<1>4. Current' = CHOOSE p \in listed : \A q \in listed : SeqOf(q)' <= SeqOf(p)'
  BY DEF Current, LastOf
<1> QED BY <1>1, <1>2, <1>3, <1>4

\* Once the pages are read, all those with a sequence number are in use.
LEMMA InUseAreListed ==
  ASSUME IndInv, pc \notin {"off", "load"}, NEW p \in Page, HasSeq(p)
  PROVE  p \in listed
BY DEF IndInv, PagesInv, Listing

LEMMA FirstOfIs ==
  ASSUME IndInv, NEW S, S \subseteq Page, S # {}
  PROVE  FirstOf(S) \in S /\ \A q \in S : SeqOf(FirstOf(S)) <= SeqOf(q)
<1> DEFINE f == [p \in S |-> SeqOf(p)]
<1>1. \A p \in S : f[p] \in Int /\ -1 <= f[p]
  BY SeqOfType DEF IndInv, TypeOK, FlashType
<1>2. PICK p \in S : \A q \in S : f[p] <= f[q]
  <2> HIDE DEF f
  <2>1. -1 \in Int
    OBVIOUS
  <2> QED BY <1>1, <2>1, LeastValue
<1>3. \A q \in S : SeqOf(p) <= SeqOf(q)
  BY <1>2
<1> QED BY <1>3 DEF FirstOf

LEMMA KeyHeadAt ==
  ASSUME IndInv, NEW p \in Page, NEW k, NEW s \in KeyHeads(p, k)
  PROVE  s \in Heads(p) /\ Data(p, s).key = k /\ s \in Nat
BY HeadAt DEF KeyHeads, Data

LEMMA FirstKeyHead ==
  ASSUME IndInv, NEW p \in Page, NEW k, KeyHeads(p, k) # {}
  PROVE  /\ Min(KeyHeads(p, k)) \in KeyHeads(p, k)
         /\ \A s \in KeyHeads(p, k) : Min(KeyHeads(p, k)) <= s
<1>1. KeyHeads(p, k) \subseteq Nat
  BY KeyHeadAt
<1> QED BY <1>1, MinOfNaturals

\* A lookup that no type is excluded from finds the first item of the key.
AnyType(types) == \A v \in Values : TypeOf[v] \in types

LEMMA AnyTypes ==
  ASSUME Regular
  PROVE  AnyType(Types) /\ \A v \in Values : AnyType({TypeOf[v]})
BY ItemAssumption DEF AnyType, Regular, OneType

FirstItem(p, s, k) ==
  /\ p \in listed /\ p \in Page /\ HasSeq(p) /\ s \in KeyHeads(p, k)
  /\ \A q \in Page : HasSeq(q) =>
       \A t \in KeyHeads(q, k) : SeqOf(p) <= SeqOf(q) /\ (q = p => s <= t)

LEMMA FindIs ==
  ASSUME IndInv, pc \notin {"off", "load"}, NEW k, NEW types, AnyType(types)
  PROVE  \/ Find(k, types) = NoPlace /\ \A p \in Page : HasSeq(p) => KeyHeads(p, k) = {}
         \/ \E p, s : FirstItem(p, s, k) /\ Find(k, types) = Place(p, s) /\ Find(k, types) # NoPlace
<1>0. listed \subseteq Page
  BY DEF IndInv, TypeOK
<1>1. ASSUME NEW p \in Page PROVE HasItem(p, k, types) <=> HasSeq(p) /\ KeyHeads(p, k) # {}
  <2>1. ASSUME KeyHeads(p, k) # {} PROVE TypeAt(p, Min(KeyHeads(p, k))) \in types
    <3>1. Min(KeyHeads(p, k)) \in Heads(p)
      BY <2>1, FirstKeyHead, KeyHeadAt
    <3>2. Data(p, Min(KeyHeads(p, k))).val \in Values
      BY <3>1, HeadAt
    <3> QED BY <3>2 DEF AnyType, TypeAt, Data
  <2> QED BY <2>1 DEF HasItem
<1> DEFINE hits == {p \in listed : HasItem(p, k, types)}
<1>2. CASE hits = {}
  <2>1. Find(k, types) = NoPlace
    BY <1>2 DEF Find
  <2>2. ASSUME NEW p \in Page, HasSeq(p) PROVE KeyHeads(p, k) = {}
    BY <1>1, <1>2, <2>2, InUseAreListed
  <2> QED BY <2>1, <2>2
<1>3. CASE hits # {}
  <2> DEFINE p == FirstOf(hits)
             s == Min(KeyHeads(p, k))
  <2>1. p \in hits /\ \A q \in hits : SeqOf(p) <= SeqOf(q)
    <3> HIDE DEF hits
    <3>1. hits \subseteq Page
      BY <1>0 DEF hits
    <3> QED BY <1>3, <3>1, FirstOfIs
  <2>2. Find(k, types) = Place(p, s)
    BY <1>3 DEF Find
  <2> HIDE DEF p
  <2>3. p \in listed /\ p \in Page /\ HasSeq(p) /\ KeyHeads(p, k) # {}
    BY <1>0, <1>1, <2>1
  <2>4. s \in KeyHeads(p, k) /\ \A t \in KeyHeads(p, k) : s <= t
    BY <2>3, FirstKeyHead
  <2> HIDE DEF s
  <2>5. \A q \in Page : HasSeq(q) => \A t \in KeyHeads(q, k) : q \in hits
    BY <1>1, InUseAreListed
  <2>6. FirstItem(p, s, k)
    BY <2>1, <2>3, <2>4, <2>5 DEF FirstItem
  <2>7. s \in Heads(p)
    BY <2>3, <2>4, KeyHeadAt
  <2>8. Place(p, s) # NoPlace
    BY <2>3, <2>7, PlaceOfItem, NoPlaceAssumption DEF PlaceType
  <2> QED BY <2>2, <2>6, <2>8
<1> QED BY <1>2, <1>3

-----------------------------------------------------------------------------
(* What the steps do to the items.                                         *)

\* No page gains an item or changes its state, unless it is given up.
FewerItems ==
  \A q \in Page : HasSeq(q)' =>
    /\ HasSeq(q) /\ StateOf(q)' = StateOf(q) /\ Heads(q)' \subseteq Heads(q)
    /\ \A t \in Heads(q)' : Data(q, t)' = Data(q, t)

LEMMA Unchanging ==
  ASSUME UNCHANGED flash
  PROVE  ItemsKept /\ (Layout => Layout')
<1>1. \A q : flash'[q] = flash[q]
  OBVIOUS
<1>2. SameHeaders
  BY DEF SameHeaders
<1> QED BY <1>1, <1>2, PageSame DEF ItemsKept, Layout

LEMMA Giving ==
  ASSUME NEW p, Gone(p)
  PROVE  FewerItems /\ (Layout => Layout')
<1>1. \A q \in Page : HasSeq(q)' => flash'[q] = flash[q]
  BY DEF Gone
<1>2. FewerItems
  BY <1>1, PageSame DEF FewerItems, SameItems
<1>3. Layout => Layout'
  BY <1>1, PageSame DEF Layout
<1> QED BY <1>2, <1>3

LEMMA KeptAreFewer ==
  ASSUME ItemsKept
  PROVE  FewerItems
BY StatesSame DEF ItemsKept, SameItems, FewerItems

LEMMA ErasedAreFewer ==
  ASSUME NEW p \in Page, NEW s, Erased(p, s)
  PROVE  FewerItems
<1>1. \A q \in Page : StateOf(q)' = StateOf(q) /\ (HasSeq(q)' <=> HasSeq(q))
  BY StatesSame DEF Erased
<1>2. ASSUME NEW q \in Page
      PROVE  Heads(q)' \subseteq Heads(q) /\ \A t \in Heads(q)' : Data(q, t)' = Data(q, t)
  <2>1. CASE q = p
    BY <2>1 DEF Erased
  <2>2. CASE q # p
    BY <2>2 DEF Erased, SameItems
  <2> QED BY <2>1, <2>2
<1> QED BY <1>1, <1>2 DEF FewerItems

\* A page header is written to an unused page.
Headed(p) ==
  /\ StateOf(p)' = "active" /\ HasSeq(p)' /\ flash'[p].seq = nextSeq - 1
  /\ Written(p)' = {} /\ Heads(p)' = {} /\ NextFree(p)' = 1
  /\ \A t \in Slot : CellAt(p, t)' = EmptyCell
  /\ \A q \in Page \ {p} : flash'[q] = flash[q]

LEMMA Heading ==
  ASSUME IndInv, NEW p \in Page, nextSeq >= 1, WriteHeader(p)
  PROVE  Headed(p) /\ (Layout => Layout')
<1> DEFINE blank == [ErasedPage EXCEPT !.st = "active", !.seq = nextSeq - 1]
<1>0. flash \in FlashType /\ OnePage(p, "active", nextSeq - 1)
  BY WriteHeaderDoes DEF IndInv, TypeOK, FlashType
<1>1. blank.cell = ErasedPage.cell
  BY DEF ErasedPage
<1>2. flash' = [flash EXCEPT ![p] = blank]
  BY DEF WriteHeader
<1> HIDE DEF blank
<1>3. \A t \in Slot : CellAt(p, t)' = EmptyCell
  BY <1>0, <1>1, <1>2 DEF CellAt, FlashType, ErasedPage
<1>4. Written(p)' = {} /\ Heads(p)' = {}
  BY <1>3 DEF Written, Heads, EmptyCell
<1>5. {s \in Slot : CellAt(p, s)'.state = "empty"} = Slot
  BY <1>3 DEF EmptyCell
<1>6. NextFree(p)' = 1
  <2> DEFINE T == Slot \cup {EntryCount + 1}
  <2>1. T \subseteq Nat /\ 1 \in T /\ \A y \in T : 1 <= y
    BY SizeAssumption DEF Slot
  <2>2. NextFree(p)' = Min(T)
    BY <1>5 DEF NextFree
  <2>3. Min(T) \in T /\ \A y \in T : Min(T) <= y
    <3> HIDE DEF T
    <3> QED BY <2>1, MinOfNaturals
  <2>4. Min(T) <= 1 /\ 1 <= Min(T) /\ Min(T) \in Nat
    <3> HIDE DEF T
    <3> QED BY <2>1, <2>3
  <2> QED BY <2>2, <2>4
<1>7. Headed(p)
  BY <1>0, <1>3, <1>4, <1>6 DEF Headed, OnePage, StateOf, HasSeq
<1>8. InOrder(p)' /\ ItemsInOrder(p)'
  BY <1>3, <1>4 DEF InOrder, ItemsInOrder, EmptyCell
<1>9. Layout => Layout'
  BY <1>7, <1>8, PageSame DEF Layout, Headed
<1> QED BY <1>7, <1>9

\* The state of a page in use changes.
Restated(p, st) ==
  /\ StateOf(p)' = st /\ \A q \in Page \ {p} : StateOf(q)' = StateOf(q)
  /\ \A q \in Page : (HasSeq(q)' <=> HasSeq(q)) /\ flash'[q].seq = flash[q].seq /\ SameItems(q)

LEMMA Restating ==
  ASSUME IndInv, NEW p \in Page, HasSeq(p), NEW st \in {"full", "freeing"}, SetState(p, st)
  PROVE  Restated(p, st) /\ (Layout => Layout')
<1>0. flash \in FlashType
  BY DEF IndInv, TypeOK, FlashType
<1>1. /\ flash'[p].st = st /\ \A q \in Page \ {p} : flash'[q] = flash[q]
      /\ \A q \in Page : flash'[q].cell = flash[q].cell /\ flash'[q].seq = flash[q].seq
  BY <1>0 DEF SetState, FlashType
<1>2. \A q \in Page : /\ SameItems(q) /\ (ItemsInOrder(q) => ItemsInOrder(q)')
                      /\ (InOrder(q) => InOrder(q)')
  BY <1>1, CellsMakeEntries, EntriesMakeItems
<1>3. \A q \in Page : HasSeq(q)' <=> HasSeq(q)
  <2> SUFFICES ASSUME NEW q \in Page PROVE HasSeq(q)' <=> HasSeq(q)
    OBVIOUS
  <2>1. CASE q = p
    BY <1>1, <2>1 DEF HasSeq, StateOf
  <2>2. CASE q # p
    BY <1>1, <2>2 DEF HasSeq, StateOf
  <2> QED BY <2>1, <2>2
<1>4. Restated(p, st)
  BY <1>1, <1>2, <1>3 DEF Restated, StateOf
<1>5. Layout => Layout'
  BY <1>2, <1>3 DEF Layout
<1> QED BY <1>4, <1>5

LEMMA LastHeadIs ==
  ASSUME IndInv, NEW p \in Page, Heads(p) # {}
  PROVE  LastHead(p, Max(Heads(p)))
<1> DEFINE f == [s \in Heads(p) |-> s]
<1>1. \A s \in Heads(p) : f[s] \in Int /\ f[s] <= EntryCount
  BY HeadAt, SizeAssumption DEF Slot
<1>2. PICK s \in Heads(p) : \A t \in Heads(p) : f[t] <= f[s]
  <2> HIDE DEF f
  <2>1. EntryCount \in Int
    BY SizeAssumption
  <2> QED BY <1>1, <2>1, GreatestValue
<1>3. \A t \in Heads(p) : t <= s /\ t \in Nat
  BY <1>2, HeadAt
<1>4. \E x \in Heads(p) : \A y \in Heads(p) : x >= y
  BY <1>3
<1>5. Max(Heads(p)) \in Heads(p) /\ \A y \in Heads(p) : Max(Heads(p)) >= y
  BY <1>4 DEF Max
<1> QED BY <1>3, <1>5 DEF LastHead

LEMMA RepairDoes ==
  ASSUME IndInv, Layout, RepairPage
  PROVE  /\ Layout' /\ FewerItems
         /\ \/ ItemsKept
            \/ \E p \in Page : p = scan /\ HasSeq(p) /\ \E s \in Heads(p) :
                 /\ Erased(p, s)
                 /\ \/ s \in Broken(p)
                    \/ /\ StateOf(p) = "active"
                       /\ \E u \in Heads(p) : /\ s < u /\ u \notin Broken(p)
                                              /\ Hash[Data(p, s).key] = Hash[Data(p, u).key]
<1>p. PICK p \in Page : p = scan
  BY DEF RepairPage
<1> DEFINE faulty == {s \in Heads(p) : s \in Broken(p) \/ (StateOf(p) = "active" /\ Shadowed(p, s) # {})}
<1>s. PICK s : s = Min(faulty)
  OBVIOUS
<1>0. \E b \in Repairs(scan) : EraseFrom(scan, Repairs(scan), b)
  BY DEF RepairPage
<1>1. PICK b \in Repairs(p) : EraseFrom(p, Repairs(p), b)
  BY <1>0, <1>p DEF EraseFrom
<1>2. Repairs(p) = IF StateOf(p) = "active" /\ HalfWritten(p) # {} THEN HalfWritten(p)
                   ELSE IF ~HasSeq(p) \/ faulty = {} THEN {}
                   ELSE IF s \in Broken(p) THEN ItemSlots(p, s)
                   ELSE ItemSlots(p, Min(Shadowed(p, s)))
  BY <1>s DEF Repairs
<1>3. CASE StateOf(p) = "active" /\ HalfWritten(p) # {}
  <2>1. b \in HalfWritten(p) /\ EraseFrom(p, HalfWritten(p), b)
    BY <1>1, <1>2, <1>3
  <2>2. ItemsKept /\ Layout'
    BY <2>1, HalfEntryErased
  <2> QED BY <2>2, KeptAreFewer
<1>4. CASE ~ (StateOf(p) = "active" /\ HalfWritten(p) # {})
  <2>1. HasSeq(p) /\ faulty # {}
    BY <1>1, <1>2, <1>4
  <2>2. s \in faulty
    <3>1. faulty \subseteq Nat
      BY HeadAt
    <3> HIDE DEF faulty
    <3> QED BY <2>1, <3>1, <1>s, MinOfNaturals
  <2>3. s \in Heads(p)
    BY <2>2
  <2> HIDE DEF faulty
  <2>4. CASE s \in Broken(p)
    <3>1. b \in ItemSlots(p, s) /\ EraseFrom(p, ItemSlots(p, s), b)
      BY <1>1, <1>2, <1>4, <2>1, <2>4
    <3>2. Erased(p, s) /\ Layout'
      BY <2>1, <2>3, <3>1, EraseFromDoes
    <3> QED BY <1>p, <2>1, <2>3, <2>4, <3>2, ErasedAreFewer
  <2>5. CASE s \notin Broken(p)
    <3>t. PICK t : t = Min(Shadowed(p, s))
      OBVIOUS
    <3>1. StateOf(p) = "active" /\ Shadowed(p, s) # {}
      BY <2>2, <2>5 DEF faulty
    <3>2. Shadowed(p, s) \subseteq Nat
      BY HeadAt DEF Shadowed
    <3>3. t \in Shadowed(p, s)
      BY <3>1, <3>2, <3>t, MinOfNaturals
    <3>4. t \in Heads(p) /\ t < s /\ Hash[Data(p, t).key] = Hash[Data(p, s).key]
      BY <3>3 DEF Shadowed, Data
    <3>5. b \in ItemSlots(p, t) /\ EraseFrom(p, ItemSlots(p, t), b)
      BY <1>1, <1>2, <1>4, <2>1, <2>5, <3>t
    <3>6. Erased(p, t) /\ Layout'
      BY <2>1, <3>4, <3>5, EraseFromDoes
    <3> QED BY <1>p, <2>1, <2>3, <2>5, <3>1, <3>4, <3>6, ErasedAreFewer
  <2> QED BY <2>4, <2>5
<1> QED BY <1>3, <1>4

\* One write of the state table that erases an item; the step ends when its
\* header is gone.
ErasedTo(p, s, whenGone) ==
  /\ Erased(p, s) /\ Layout'
  /\ \/ s \notin Heads(p)' /\ pc' = whenGone
     \/ s \in Heads(p)' /\ pc' = pc

LEMMA ErasingItem ==
  ASSUME IndInv, Layout, NEW p \in Page, HasSeq(p), NEW s \in Heads(p), NEW whenGone,
         EraseItemStep(p, s, whenGone)
  PROVE  ErasedTo(p, s, whenGone)
<1>1. PICK b \in ItemSlots(p, s) :
        /\ EraseFrom(p, ItemSlots(p, s), b)
        /\ pc' = IF b = Min(ItemSlots(p, s)) THEN whenGone ELSE pc
  BY DEF EraseItemStep
<1>2. Erased(p, s) /\ Layout' /\ (s \notin Heads(p)' <=> b = Min(ItemSlots(p, s)))
  BY <1>1, EraseFromDoes
<1> QED BY <1>1, <1>2 DEF ErasedTo

LEMMA SupersededAre ==
  ASSUME IndInv, Regular, pc = "dup", listed # {}, NEW p
  PROVE  p \in Superseded <=>
           /\ p \in listed \ {Current} /\ HasSeq(p) /\ StateOf(p) # "freeing"
           /\ Heads(Current) # {} /\ KeyHeads(p, LastItem(Current).key) # {}
<1> DEFINE types == {TypeOf[LastItem(Current).val]}
<1>1. Current \in Page /\ listed \subseteq Page
  BY CurrentIn DEF IndInv, TypeOK
<1>2. CASE Heads(Current) = {}
  BY <1>2 DEF Superseded
<1>3. CASE Heads(Current) # {}
  <2>1. Max(Heads(Current)) \in Heads(Current)
    BY <1>1, <1>3, LastHeadIs DEF LastHead
  <2>2. LastItem(Current).val \in Values
    BY <1>1, <2>1, HeadAt DEF LastItem, Data
  <2>3. AnyType(types)
    BY <2>2, AnyTypes
  <2>4. ASSUME NEW q \in Page
        PROVE  HasItem(q, LastItem(Current).key, types)
                 <=> HasSeq(q) /\ KeyHeads(q, LastItem(Current).key) # {}
    <3>1. ASSUME KeyHeads(q, LastItem(Current).key) # {}
          PROVE  TypeAt(q, Min(KeyHeads(q, LastItem(Current).key))) \in types
      <4>1. Min(KeyHeads(q, LastItem(Current).key)) \in Heads(q)
        BY <3>1, FirstKeyHead, KeyHeadAt
      <4>2. Data(q, Min(KeyHeads(q, LastItem(Current).key))).val \in Values
        BY <4>1, HeadAt
      <4> QED BY <2>3, <4>2 DEF AnyType, TypeAt, Data
    <3> QED BY <3>1 DEF HasItem
  <2>5. p \in listed => p \in Page
    BY <1>1
  <2> QED BY <1>3, <2>4, <2>5 DEF Superseded
<1> QED BY <1>2, <1>3

LEMMA DropDuplicateDoes ==
  ASSUME IndInv, Regular, Layout, DropDuplicate
  PROVE  \E p \in Page : \E s \in KeyHeads(p, LastItem(Current).key) :
           /\ p \in Superseded /\ HasSeq(p) /\ ErasedTo(p, s, "recover")
           /\ pc = "dup" /\ listed # {} /\ UNCHANGED ram
<1> DEFINE k == LastItem(Current).key
<1>0. pc = "dup" /\ listed # {} /\ Superseded # {} /\ UNCHANGED ram /\ listed \subseteq Page
  BY DEF DropDuplicate, IndInv, TypeOK
<1>1. Superseded \subseteq Page
  BY <1>0, SupersededAre
<1>2. PICK p \in Page : p \in Superseded /\ EraseItemStep(p, Min(KeyHeads(p, k)), "recover")
  BY <1>0, <1>1, FirstOfIs DEF DropDuplicate
<1>3. HasSeq(p) /\ KeyHeads(p, k) # {}
  BY <1>0, <1>2, SupersededAre
<1> HIDE DEF k
<1>4. PICK s \in KeyHeads(p, k) : s = Min(KeyHeads(p, k)) /\ s \in Heads(p)
  BY <1>3, FirstKeyHead, KeyHeadAt
<1>5. EraseItemStep(p, s, "recover")
  BY <1>2, <1>4 DEF EraseItemStep, EraseFrom
<1>6. ErasedTo(p, s, "recover")
  BY <1>3, <1>4, <1>5, ErasingItem
<1> QED BY <1>0, <1>2, <1>3, <1>4, <1>6 DEF k

LEMMA EraseAllStepDoes ==
  ASSUME IndInv, Layout, EraseAllStep
  PROVE  \E p \in Page : \E s \in Heads(p) :
           /\ HasSeq(p) /\ NsOf[Data(p, s).key] = op.ns /\ ErasedTo(p, s, "find")
           /\ pc = "find" /\ op.kind = "erase_all" /\ UNCHANGED ram
<1>0. pc = "find" /\ op.kind = "erase_all" /\ NsPages # {} /\ UNCHANGED ram /\ NsPages \subseteq Page
  BY DEF EraseAllStep, NsPages, IndInv, TypeOK
<1>1. PICK p \in Page : p \in NsPages /\ EraseItemStep(p, Min(NsHeads(p)), "find")
  BY <1>0, FirstOfIs DEF EraseAllStep
<1>2. HasSeq(p) /\ NsHeads(p) # {} /\ NsHeads(p) \subseteq Heads(p)
  BY <1>1 DEF NsPages, NsHeads
<1>3. Min(NsHeads(p)) \in NsHeads(p)
  <2>1. NsHeads(p) \subseteq Nat
    BY <1>2, HeadAt
  <2> QED BY <1>2, <2>1, MinOfNaturals
<1>4. PICK s \in Heads(p) : s = Min(NsHeads(p)) /\ NsOf[Data(p, s).key] = op.ns
  BY <1>3 DEF NsHeads, Data
<1>5. EraseItemStep(p, s, "find")
  BY <1>1, <1>4 DEF EraseItemStep, EraseFrom
<1>6. ErasedTo(p, s, "find")
  BY <1>2, <1>5, ErasingItem
<1> QED BY <1>0, <1>2, <1>4, <1>6

\* In a call no page is being freed, and the newest item is the one the call
\* has written: no two items of one key are older.
LEMMA LateIsNew ==
  ASSUME IndInv, pc \in InCall, NEW p \in Page, NEW s, NEW q \in Page, NEW t, Late(p, s, q, t)
  PROVE  NewItem(q, t) /\ pc \in {"data", "data_state", "drop"}
<1>1. pc \in {"data", "data_state", "drop"} /\ op.kind = "write" /\ LastHead(q, t)
  BY DEF Late, MayBeLate, InCall
<1>2. q = Current
  BY <1>1, OnlyCurrentActive DEF Late
<1> QED BY <1>1, <1>2 DEF NewItem

LEMMA PairHasNew ==
  ASSUME IndInv, Pairs, pc \in InCall,
         NEW p \in Page, NEW s \in Heads(p), NEW q \in Page, NEW t \in Heads(q),
         HasSeq(p), HasSeq(q), Data(p, s).key = Data(q, t).key
  PROVE  \/ p = q /\ s = t
         \/ (NewItem(p, s) \/ NewItem(q, t)) /\ pc \in {"data", "data_state", "drop"}
<1>1. StateOf(p) # "freeing" /\ StateOf(q) # "freeing"
  BY DEF IndInv, PagesInv, Spare
<1>2. \/ p = q /\ s = t
      \/ Late(p, s, q, t) \/ Late(q, t, p, s)
  BY <1>1 DEF Pairs, Twins
<1> QED BY <1>2, LateIsNew

LEMMA ElderUnique ==
  ASSUME IndInv, Pairs, pc \in InCall,
         NEW p \in Page, NEW s, NEW q \in Page, NEW t, Elder(p, s), Elder(q, t)
  PROVE  p = q /\ s = t
BY PairHasNew DEF Elder

LEMMA DropOldDoes ==
  ASSUME IndInv, Regular, Layout, Pairs, OldKnown, DropOld
  PROVE  \E p \in Page : \E s \in Heads(p) :
           /\ HasSeq(p) /\ Elder(p, s) /\ ErasedTo(p, s, "return") /\ pc = "drop" /\ UNCHANGED ram
<1>0. pc = "drop" /\ old # NoPlace /\ pc \in InCall /\ OldFound
  BY DEF DropOld, OldKnown, InWrite, InCall
<1>q. PICK q \in Page : \E t \in Heads(q) : Elder(q, t)
  BY <1>0 DEF OldFound
<1>1. PICK t \in Heads(q) : Elder(q, t)
  BY <1>q
<1>2. Target # NoPlace /\ Target.page = q /\ Target.slot = t
  <2>1. CASE ~Relocated
    <3>1. old \in PlaceType
      BY <1>0 DEF IndInv, TypeOK, PlaceType
    <3>2. Target = old /\ Elder(old.page, old.slot) /\ old.page \in Page
      BY <1>0, <2>1, <3>1 DEF Target, OldFound, PlaceType
    <3> QED BY <1>0, <1>1, <3>2, ElderUnique
  <2>2. CASE Relocated
    <3>1. AnyType({old.type})
      BY <1>0, AnyTypes DEF OldFound
    <3>2. HasSeq(q) /\ t \in KeyHeads(q, op.key)
      BY <1>1 DEF Elder, KeyHeads, Data
    <3>3. PICK p, s : FirstItem(p, s, op.key) /\ Find(op.key, {old.type}) = Place(p, s)
                      /\ Find(op.key, {old.type}) # NoPlace
      BY <1>0, <3>1, <3>2, FindIs
    <3>4. p \in Page /\ p \in listed /\ HasSeq(p) /\ s \in Heads(p) /\ Data(p, s).key = op.key
      BY <3>3, KeyHeadAt DEF FirstItem
    <3>5. SeqOf(p) <= SeqOf(q) /\ (q = p => s <= t)
      BY <3>2, <3>3 DEF FirstItem
    <3>6. ~NewItem(p, s)
      <4> SUFFICES ASSUME NewItem(p, s) PROVE FALSE
        OBVIOUS
      <4>1. p = Current /\ LastHead(p, s)
        BY DEF NewItem
      <4>2. q \in listed
        BY <1>0, <3>2, InUseAreListed
      <4>3. SeqOf(q) <= SeqOf(p) /\ SeqOf(q) \in Int /\ SeqOf(p) \in Int
        BY <3>4, <4>1, <4>2, CurrentIn, SeqOfType DEF IndInv, TypeOK, FlashType
      <4>4. q = p
        BY <3>4, <3>5, <4>2, <4>3, SeqOfInjective
      <4>5. s \in Nat /\ t \in Nat /\ t <= s /\ s <= t
        BY <3>4, <3>5, <4>1, <4>4, HeadAt DEF LastHead
      <4>6. s = t
        BY <4>5
      <4> QED BY <1>1, <4>4, <4>6 DEF Elder
    <3>7. Elder(p, s)
      BY <3>4, <3>6 DEF Elder
    <3>8. p = q /\ s = t
      BY <1>0, <1>1, <3>4, <3>7, ElderUnique
    <3> QED BY <2>2, <3>3, <3>8 DEF Target, Place
  <2> QED BY <2>1, <2>2
<1>3. EraseItemStep(q, t, "return") /\ UNCHANGED ram
  BY <1>2 DEF DropOld, EraseItemStep, EraseFrom
<1>4. HasSeq(q)
  BY <1>1 DEF Elder
<1>5. ErasedTo(q, t, "return")
  BY <1>3, <1>4, ErasingItem
<1> QED BY <1>0, <1>1, <1>3, <1>4, <1>5

-----------------------------------------------------------------------------
(* The entries of the page being moved, in order.                          *)

LEMMA RankIs ==
  ASSUME IndInv, gc \in Page, NEW s \in Nat
  PROVE  /\ IsFiniteSet({t \in Written(gc) : t < s}) /\ Rank(s) \in Nat
         /\ s >= 1 => Rank(s) <= s - 1
<1> DEFINE T == {t \in Written(gc) : t < s}
<1>1. Written(gc) \subseteq Slot /\ IsFiniteSet(Slot)
  BY SizeAssumption, FS_Interval DEF Slot, Written
<1>2. T \subseteq Slot /\ IsFiniteSet(T)
  <2>1. T \subseteq Slot
    BY <1>1
  <2> HIDE DEF T
  <2> QED BY <1>1, <2>1, FS_Subset
<1>3. Cardinality(T) \in Nat
  <2> HIDE DEF T
  <2> QED BY <1>2, FS_CardinalityType
<1>4. ASSUME s >= 1 PROVE Cardinality(T) <= s - 1
  <2>1. T \subseteq 1 .. (s - 1)
    BY <1>1 DEF Slot
  <2>2. IsFiniteSet(1 .. (s - 1)) /\ Cardinality(1 .. (s - 1)) = s - 1
    <3>1. 1 \in Int /\ s - 1 \in Int
      OBVIOUS
    <3>2. /\ IsFiniteSet(1 .. (s - 1))
          /\ Cardinality(1 .. (s - 1)) = IF 1 > s - 1 THEN 0 ELSE (s - 1) - 1 + 1
      BY <3>1, FS_Interval
    <3> QED BY <1>4, <3>2
  <2>3. Cardinality(T) <= Cardinality(1 .. (s - 1))
    <3> HIDE DEF T
    <3> QED BY <2>1, <2>2, FS_Subset
  <2> QED BY <2>2, <2>3
<1> QED BY <1>2, <1>3, <1>4 DEF Rank

LEMMA RankGrows ==
  ASSUME IndInv, gc \in Page, NEW s \in Written(gc), NEW u \in Nat, s < u
  PROVE  /\ Rank(s) < Rank(u)
         /\ (\A t \in Written(gc) : t < u => t <= s) => Rank(u) = Rank(s) + 1
<1> DEFINE S == {t \in Written(gc) : t < s}
           U == {t \in Written(gc) : t < u}
<1>0. s \in Nat /\ Written(gc) \subseteq Nat
  BY DEF Written, Slot
<1>1. IsFiniteSet(S) /\ IsFiniteSet(U) /\ Rank(s) = Cardinality(S) /\ Rank(u) = Cardinality(U)
      /\ Rank(s) \in Nat /\ Rank(u) \in Nat
  BY <1>0, RankIs DEF Rank
<1>2. s \notin S /\ S \cup {s} \subseteq U
  BY <1>0
<1>3. (\A t \in Written(gc) : t < u => t <= s) => U = S \cup {s}
  BY <1>0
<1> HIDE DEF S, U
<1>4. IsFiniteSet(S \cup {s}) /\ Cardinality(S \cup {s}) = Cardinality(S) + 1
  BY <1>1, <1>2, FS_AddElement
<1>5. Cardinality(S \cup {s}) <= Cardinality(U)
  BY <1>1, <1>2, FS_Subset
<1>6. Rank(s) < Rank(u)
  BY <1>1, <1>4, <1>5
<1>7. ASSUME \A t \in Written(gc) : t < u => t <= s PROVE Rank(u) = Rank(s) + 1
  BY <1>1, <1>3, <1>4, <1>7
<1> QED BY <1>6, <1>7

LEMMA RankTells ==
  ASSUME IndInv, gc \in Page, NEW s \in Written(gc), NEW t \in Written(gc), Rank(s) = Rank(t)
  PROVE  s = t
<1>0. s \in Nat /\ t \in Nat
  BY DEF Written, Slot
<1>1. s \in Nat /\ t \in Nat /\ Rank(s) \in Nat /\ Rank(t) \in Nat
  BY <1>0, RankIs
<1>2. ~ (s < t) /\ ~ (t < s)
  BY <1>1, RankGrows
<1> QED BY <1>1, <1>2

LEMMA RankNext ==
  ASSUME IndInv, gc \in Page, NEW s \in Written(gc), s + 1 \in Written(gc)
  PROVE  Rank(s + 1) = Rank(s) + 1
<1>1. s \in Nat /\ Written(gc) \subseteq Nat
  BY DEF Written, Slot
<1>2. \A t \in Written(gc) : t < s + 1 => t <= s
  BY <1>1
<1> QED BY <1>1, <1>2, RankGrows

\* The entry copied next is the one that comes after those copied.
LEMMA NextToCopy ==
  ASSUME IndInv, gc \in Page, Current \in Page, ToCopy # {}
  PROVE  /\ Min(ToCopy) \in ToCopy /\ Min(ToCopy) \in Written(gc) /\ Min(ToCopy) \in Slot
         /\ Rank(Min(ToCopy)) = NextFree(Current) - 1
         /\ NextFree(Current) \in Slot /\ NextFree(Current) <= Min(ToCopy)
<1> DEFINE n == NextFree(Current)
           m == Min(ToCopy)
<1>1. n \in Nat /\ n >= 1 /\ EntryCount \in Nat
  BY NextFreeIs, SizeAssumption
<1>2. ToCopy = {s \in Written(gc) : Rank(s) >= n - 1}
  BY DEF ToCopy, Copied, Rank
<1>3. m \in ToCopy /\ \A y \in ToCopy : m <= y
  <2>1. ToCopy \subseteq Nat
    BY <1>2 DEF Written, Slot
  <2> QED BY <2>1, MinOfNaturals
<1> HIDE DEF n, m
<1>4. m \in Written(gc) /\ m \in Slot /\ m \in Nat /\ m >= 1 /\ Rank(m) >= n - 1
  BY <1>2, <1>3 DEF Written, Slot
<1>5. Rank(m) \in Nat /\ Rank(m) <= m - 1 /\ IsFiniteSet({t \in Written(gc) : t < m})
  BY <1>4, RankIs
<1>6. ASSUME Rank(m) > n - 1 PROVE FALSE
  <2> DEFINE T == {t \in Written(gc) : t < m}
             f == [t \in T |-> t]
  <2>1. T # {}
    <3>1. T = {} => Rank(m) = 0
      BY FS_EmptySet DEF Rank
    <3> QED BY <1>1, <1>5, <1>6, <3>1
  <2>2. \A t \in T : f[t] \in Int /\ f[t] <= m
    BY <1>4 DEF Written, Slot
  <2>3. PICK x \in T : \A y \in T : f[y] <= f[x]
    <3> HIDE DEF T, f
    <3>1. m \in Int
      BY <1>4
    <3> QED BY <2>1, <2>2, <3>1, GreatestValue
  <2>4. x \in Written(gc) /\ x < m /\ \A t \in Written(gc) : t < m => t <= x
    <3>1. \A t \in Written(gc) : t < m => t \in T /\ f[t] = t /\ f[x] = x
      OBVIOUS
    <3> QED BY <2>3, <3>1
  <2>9. x \in Nat
    BY <2>4 DEF Written, Slot
  <2>5. Rank(m) = Rank(x) + 1 /\ Rank(x) \in Nat
    BY <1>4, <2>4, <2>9, RankGrows, RankIs
  <2>6. x \in ToCopy
    BY <1>1, <1>2, <1>5, <1>6, <2>4, <2>5
  <2>7. m <= x
    BY <1>3, <2>6
  <2> QED BY <1>4, <2>4, <2>7, <2>9
<1>7. Rank(m) = n - 1
  BY <1>1, <1>4, <1>5, <1>6
<1>8. n \in Slot /\ n <= m
  BY <1>1, <1>4, <1>5, <1>7 DEF Slot
<1> QED BY <1>3, <1>4, <1>7, <1>8 DEF n, m

-----------------------------------------------------------------------------
(* What the steps that write entries do to the items.                      *)

LEMMA PutEntryStateDoes ==
  ASSUME IndInv, Layout, Whole, Storing, PutEntryState
  PROVE  /\ pc = "put_state" /\ pc' = (IF Span[op.val] = 1 THEN "drop" ELSE "data") /\ UNCHANGED ram
         /\ Layout' /\ KeepsHeaders
         /\ \E c \in Page, n \in Slot :
              /\ c = Current /\ n = NextFree(c) /\ Stored(c, n)
              /\ StateOf(c) = "active" /\ HasSeq(c) /\ Broken(c) = {}
              /\ Data(c, n) = Piece(op.key, op.val, 0)
<1>0. /\ pc = "put_state" /\ MarkWritten(Current, NextFree(Current))
      /\ pc' = (IF Span[op.val] = 1 THEN "drop" ELSE "data") /\ UNCHANGED ram
  BY DEF PutEntryState
<1>c. PICK c \in Page : c = Current
  BY <1>0, InUse DEF InCall
<1>n. PICK n : n = NextFree(c)
  OBVIOUS
<1>1. StateOf(c) = "active" /\ HasSeq(c) /\ MarkWritten(c, n)
  BY <1>0, <1>c, <1>n DEF Storing, HasSeq, MarkWritten
<1>2. n + Span[op.val] - 1 <= EntryCount /\ Data(c, n) = Piece(op.key, op.val, 0)
  BY <1>0, <1>c, <1>n DEF Storing
<1>3. op.val \in Values /\ Piece(op.key, op.val, 0) \in Pieces
  BY <1>0, Operands
<1>4. Span[op.val] \in {1, 2}
  BY <1>3, ItemAssumption
<1>5. n \in 1 .. EntryCount + 1 /\ (n \in Slot => n \notin Written(c))
  BY <1>1, <1>n, NextFreeIs
<1>6. n \in Slot
  BY <1>2, <1>4, <1>5, SizeAssumption DEF Slot
<1>7. Data(c, n).part = 0 /\ Data(c, n).val = op.val /\ Data(c, n) \in Pieces
  BY <1>2, <1>3 DEF Piece
<1>8. Broken(c) = {}
  BY <1>0, <1>1 DEF Whole, MayBreak
<1>9. ASSUME n - 1 \in Heads(c) PROVE Span[Data(c, n - 1).val] = 1
  <2>1. n - 1 \in Nat /\ (n - 1) + 1 = n
    BY <1>1, <1>9, <1>6, HeadAt DEF Slot
  <2>2. Complete(c, n - 1)
    BY <1>8, <1>9 DEF Broken
  <2> QED BY <1>1, <1>5, <1>6, <1>9, <2>1, <2>2, HeadAt
<1>10. Span[Data(c, n).val] = 2 => n + 1 \in Slot
  BY <1>2, <1>5, <1>7, SizeAssumption DEF Slot
<1>12. Data(c, n).part # 1
  BY <1>7
<1>13. KeepsHeaders /\ Stored(c, n) /\ Layout'
  BY <1>0, <1>1, <1>6, <1>7, <1>9, <1>10, <1>12, <1>n, EntryStored
<1> QED BY <1>0, <1>1, <1>2, <1>6, <1>8, <1>13, <1>c, <1>n

LEMMA PutDataStateDoes ==
  ASSUME IndInv, Layout, Storing, PutDataState
  PROVE  /\ pc = "data_state" /\ pc' = "drop" /\ UNCHANGED ram
         /\ Layout' /\ KeepsHeaders
         /\ \E c \in Page, n \in Slot :
              /\ c = Current /\ n = NextFree(c) /\ Stored(c, n)
              /\ StateOf(c) = "active" /\ HasSeq(c)
              /\ Data(c, n).part = 1 /\ n - 1 \in Heads(c)
              /\ Data(c, n - 1) = Piece(op.key, op.val, 0)
<1>0. pc = "data_state" /\ MarkWritten(Current, NextFree(Current)) /\ pc' = "drop" /\ UNCHANGED ram
  BY DEF PutDataState
<1>c. PICK c \in Page : c = Current
  BY <1>0, InUse DEF InCall
<1>n. PICK n : n = NextFree(c)
  OBVIOUS
<1>1. StateOf(c) = "active" /\ HasSeq(c) /\ MarkWritten(c, n)
  BY <1>0, <1>c, <1>n DEF Storing, HasSeq, MarkWritten
<1>2. /\ n \in Slot /\ Span[op.val] = 2 /\ n - 1 \in Heads(c)
      /\ Data(c, n - 1) = Piece(op.key, op.val, 0) /\ Data(c, n) = Piece(op.key, op.val, 1)
  BY <1>0, <1>c, <1>n DEF Storing
<1>3. Piece(op.key, op.val, 1) \in Pieces
  BY <1>0, Operands
<1>5. Data(c, n) \in Pieces /\ Data(c, n).part = 1 /\ HasHead(c, n)
  BY <1>2, <1>3 DEF Piece, HasHead
<1>6. Data(c, n).part # 0
  BY <1>5
<1>7. KeepsHeaders /\ Stored(c, n) /\ Layout'
  BY <1>0, <1>1, <1>2, <1>5, <1>6, <1>n, EntryStored
<1> QED BY <1>0, <1>1, <1>2, <1>5, <1>7, <1>c, <1>n

\* The page being moved and the page it is moved to.
LEMMA MovePages ==
  ASSUME IndInv, pc \in {"copy", "reclaim"}
  PROVE  /\ gc \in Page /\ gc \in listed /\ StateOf(gc) = "freeing" /\ HasSeq(gc)
         /\ Current \in Page /\ Current \in listed
BY InUse DEF IndInv, TypeOK, PagesInv, Spare, InMove, HasSeq

LEMMA CopyEntryDoes ==
  ASSUME IndInv, Layout, Whole, CopyInOrder, CopyEntry
  PROVE  /\ pc = "copy" /\ pc' = pc /\ UNCHANGED ram
         /\ Layout' /\ KeepsHeaders
         /\ \E c \in Page, n \in Slot, m \in Slot :
              /\ c = Current /\ n = NextFree(c) /\ m = Min(ToCopy) /\ Current' = c
              /\ StateOf(c) = "active" /\ ToCopy # {}
              /\ \/ /\ ItemsKept /\ Data(c, n) = Blank
                    /\ NextFree(c)' = n /\ Data(c, n)' = Data(gc, m)
                    /\ \A t \in Slot : t # n => CellAt(c, t)' = CellAt(c, t)
                    /\ \A q \in Page \ {c} : flash'[q].cell = flash[q].cell
                 \/ Stored(c, n) /\ Data(c, n) = Data(gc, m)
<1>c. PICK c \in Page : c = Current
  BY MovePages DEF CopyEntry
<1>n. PICK n : n = NextFree(c)
  OBVIOUS
<1>m. PICK m : m = Min(ToCopy)
  OBVIOUS
<1>0. /\ pc = "copy" /\ StateOf(c) = "active" /\ HasSeq(c) /\ ToCopy # {}
      /\ gc \in Page /\ StateOf(gc) = "freeing" /\ HasSeq(gc) /\ gc # c
      /\ pc' = pc /\ UNCHANGED ram
  BY <1>c, MovePages DEF CopyEntry, HasSeq
<1>1. m \in Written(gc) /\ m \in Slot /\ Rank(m) = n - 1 /\ n \in Slot /\ n <= m
  BY <1>0, <1>c, <1>n, <1>m, NextToCopy
<1>2. Data(gc, m) \in Pieces
  BY <1>0, <1>1, ItemAt DEF Data
<1>3. /\ \A i \in Slot : i < n => CopiedTo(i)
      /\ Data(c, n) # Blank => Data(c, n) = Data(gc, m)
  BY <1>0, <1>1, <1>c, <1>n, <1>m DEF CopyInOrder
<1>4. IF Data(c, n) = Blank
        THEN SetCell(c, n, [state |-> "empty", data |-> Data(gc, m)])
        ELSE MarkWritten(c, n)
  BY <1>c, <1>n, <1>m DEF CopyEntry, Data, SetCell, MarkWritten
<1>5. \A i \in Slot : CopiedTo(i) => i \in Written(c) /\ \E s \in Written(gc) : Rank(s) = i - 1 /\ Data(gc, s) = Data(c, i)
  BY <1>c DEF CopiedTo
<1>8. KeepsHeaders => Current' = c
  BY <1>0, <1>c, CurrentKept, InUse DEF ram, KeepsHeaders
<1>6. CASE Data(c, n) = Blank
  <2>1. SetCell(c, NextFree(c), [state |-> "empty", data |-> Data(gc, m)])
    BY <1>n, <1>4, <1>6
  <2>2. /\ KeepsHeaders /\ ItemsKept /\ Layout'
        /\ NextFree(c)' = n /\ Data(c, n)' = Data(gc, m)
        /\ \A t \in Slot : t # n => CellAt(c, t)' = CellAt(c, t)
        /\ \A q \in Page \ {c} : flash'[q].cell = flash[q].cell
    BY <1>0, <1>1, <1>n, <1>2, <2>1, EntryPrepared
  <2> QED BY <1>0, <1>1, <1>6, <1>8, <1>c, <1>n, <1>m, <2>2
<1>7. CASE Data(c, n) # Blank
  <2>1. MarkWritten(c, n) /\ Data(c, n) = Data(gc, m) /\ n \in Nat /\ m \in Nat
    BY <1>1, <1>3, <1>4, <1>7 DEF Slot
  <2>2. Broken(gc) = {} /\ ItemsInOrder(gc)
    BY <1>0, <1>c DEF Whole, MayBreak, Layout
  <2>3. ASSUME Data(c, n).part = 1 PROVE HasHead(c, n)
    <3>1. HasHead(gc, m)
      BY <1>1, <2>1, <2>2, <2>3 DEF ItemsInOrder
    <3>2. m - 1 \in Heads(gc) /\ m - 1 \in Written(gc) /\ (m - 1) + 1 = m /\ m - 1 \in Nat
      BY <1>0, <2>1, <3>1, HeadAt DEF HasHead
    <3>3. Rank(m) = Rank(m - 1) + 1 /\ Rank(m - 1) \in Nat
      BY <1>0, <1>1, <3>2, RankNext, RankIs
    <3>4. n - 1 \in Slot /\ n - 1 < n
      <4>1. n - 1 >= 1
        BY <1>1, <2>1, <3>3
      <4> QED BY <1>1, <2>1, <4>1, SizeAssumption DEF Slot
    <3>5. PICK s \in Written(gc) : Rank(s) = (n - 1) - 1 /\ Data(gc, s) = Data(c, n - 1)
      BY <1>3, <1>5, <3>4
    <3>6. Rank(s) = Rank(m - 1)
      BY <1>1, <2>1, <3>3, <3>5
    <3>7. s = m - 1
      BY <1>0, <3>2, <3>6, RankTells
    <3>8. Data(c, n - 1) = Data(gc, m - 1)
      BY <3>5, <3>7
    <3>9. n - 1 \in Heads(c)
      <4>1. n - 1 \in Written(c)
        BY <1>3, <1>5, <3>4
      <4>2. Data(gc, m - 1).part = 0
        BY <1>0, <3>2, HeadAt
      <4> QED BY <3>8, <4>1, <4>2 DEF Heads, Data
    <3> QED BY <2>1, <3>1, <3>8, <3>9 DEF HasHead
  <2>4. ASSUME Data(c, n).part = 0, n - 1 \in Heads(c) PROVE Span[Data(c, n - 1).val] = 1
    <3>1. n - 1 \in Slot /\ n - 1 < n /\ Data(c, n - 1).part = 0 /\ Span[Data(c, n - 1).val] \in {1, 2}
      BY <1>0, <2>1, <2>4, HeadAt
    <3>2. PICK s \in Written(gc) : Rank(s) = (n - 1) - 1 /\ Data(gc, s) = Data(c, n - 1)
      BY <1>3, <1>5, <3>1
    <3>3. s \in Heads(gc)
      BY <3>1, <3>2 DEF Heads, Data
    <3>4. ASSUME Span[Data(gc, s).val] = 2 PROVE FALSE
      <4>1. Complete(gc, s)
        BY <2>2, <3>3 DEF Broken
      <4>2. s + 1 \in Written(gc)
        BY <1>0, <3>3, <3>4, <4>1, HeadAt
      <4>3. Rank(s + 1) = Rank(s) + 1
        BY <1>0, <4>2, RankNext
      <4>4. Rank(s + 1) = Rank(m)
        BY <1>1, <2>1, <3>2, <4>3
      <4>5. m = s + 1
        BY <1>0, <1>1, <4>2, <4>4, RankTells
      <4>6. Data(gc, s + 1).part = 1
        BY <2>2, <3>3, <3>4, <4>2 DEF ItemsInOrder, HasRoom
      <4> QED BY <2>1, <2>4, <4>5, <4>6
    <3> QED BY <3>1, <3>2, <3>4
  <2>5. ASSUME Data(c, n).part = 0, Span[Data(c, n).val] = 2 PROVE n + 1 \in Slot
    <3>1. m \in Heads(gc)
      BY <1>1, <2>1, <2>5 DEF Heads, Data
    <3>2. m + 1 \in Written(gc)
      <4>1. Complete(gc, m)
        BY <2>2, <3>1 DEF Broken
      <4> QED BY <1>0, <2>1, <2>5, <3>1, <4>1, HeadAt
    <3>3. m + 1 \in Slot
      BY <3>2 DEF Written
    <3> QED BY <1>1, <2>1, <3>3, SizeAssumption DEF Slot
  <2>6. Data(c, n) \in Pieces
    BY <1>2, <2>1
  <2>7. KeepsHeaders /\ Stored(c, n) /\ Layout'
    BY <1>0, <1>1, <1>n, <2>1, <2>3, <2>4, <2>5, <2>6, EntryStored
  <2> QED BY <1>0, <1>1, <1>8, <1>c, <1>n, <1>m, <2>1, <2>7
<1> QED BY <1>6, <1>7

-----------------------------------------------------------------------------
(* Every step keeps the layout, and most steps add no item.                *)

LEMMA FlashUnchanged ==
  ASSUME \/ PowerOn \/ AcceptPage \/ NoDuplicate \/ NothingToRecover \/ CopyDone \/ BeginCall
         \/ WriteNothing \/ WriteFind \/ StillFull \/ NoNewPage \/ DropNothing \/ EraseFind
         \/ EraseMissing \/ Finish \/ EraseAllDone \/ UNCHANGED vars
  PROVE  UNCHANGED flash
BY DEF PowerOn, AcceptPage, NoDuplicate, NothingToRecover, CopyDone, BeginCall, WriteNothing,
       WriteFind, StillFull, NoNewPage, DropNothing, EraseFind, EraseMissing, Finish,
       EraseAllDone, vars, Return

LEMMA TakesPage ==
  ASSUME IndInv, MountBlank \/ ActivateTarget \/ TakeFreePage
  PROVE  Activate
<1>1. CASE ActivateTarget
  <2>1. free # <<>>
    BY <1>1 DEF ActivateTarget, IndInv, PagesInv, Spare
  <2> QED BY <1>1, <2>1 DEF ActivateTarget
<1>2. CASE MountBlank \/ TakeFreePage
  BY <1>2 DEF MountBlank, TakeFreePage
<1> QED BY <1>1, <1>2

LEMMA GivesUpPage ==
  ASSUME IndInv, MountBlank \/ ActivateTarget \/ TakeFreePage \/ Reclaim \/ PowerLoss
                 \/ (DiscardCopy /\ MustDiscard)
  PROVE  UNCHANGED flash \/ \E p \in Page : Gone(p)
<1>1. CASE MountBlank \/ ActivateTarget \/ TakeFreePage
  BY <1>1, TakesPage, ActivateDoes DEF Gone
<1>2. CASE Reclaim
  <2>1. PICK p \in Page : p = gc
    BY <1>2, MovePages DEF Reclaim
  <2>2. ErasePage(p)
    BY <1>2, <2>1 DEF Reclaim, ErasePage
  <2>3. Gone(p)
    BY <2>2, ErasePageDoes DEF OnePage, Gone, HasSeq, StateOf
  <2> QED BY <2>3
<1>3. CASE DiscardCopy /\ MustDiscard
  <2>1. PICK p \in Page : p = Current
    BY <1>3, InUse DEF DiscardCopy
  <2>2. ErasePage(p)
    BY <1>3, <2>1 DEF DiscardCopy, ErasePage
  <2>3. Gone(p)
    BY <2>2, ErasePageDoes DEF OnePage, Gone, HasSeq, StateOf
  <2> QED BY <2>3
<1>4. CASE PowerLoss
  <2>0. flash \in FlashType /\ TornPage \subseteq Page
    <3>1. CASE pc \in {"put", "copy", "recover"}
      BY <3>1, InUse DEF TornPage, InCall, IndInv, TypeOK, FlashType
    <3>2. CASE pc = "reclaim"
      BY <3>2, MovePages DEF TornPage, IndInv, TypeOK, FlashType
    <3> QED BY <3>1, <3>2 DEF TornPage, IndInv, TypeOK, FlashType
  <2>1. ASSUME NEW p \in TornPage, flash' = [flash EXCEPT ![p] = [ErasedPage EXCEPT !.st = "corrupt"]]
        PROVE  p \in Page /\ Gone(p)
    <3> DEFINE torn == [ErasedPage EXCEPT !.st = "corrupt"]
    <3>1. torn.st = "corrupt"
      BY DEF ErasedPage
    <3>2. flash' = [flash EXCEPT ![p] = torn]
      BY <2>1
    <3> HIDE DEF torn
    <3> QED BY <2>0, <3>1, <3>2 DEF FlashType, Gone, HasSeq, StateOf
  <2> QED BY <1>4, <2>1 DEF PowerLoss
<1> QED BY <1>1, <1>2, <1>3, <1>4

LEMMA HeaderDoes ==
  ASSUME IndInv, PutHeader \/ CopyHeader
  PROVE  /\ pc \in {"put", "copy"} /\ UNCHANGED <<pc, ram>>
         /\ (Layout => Layout') /\ Current' = Current
         /\ \E c \in Page : /\ c = Current /\ c \in listed /\ Headed(c) /\ StateOf(c) = "uninit"
                            /\ ~HasSeq(c)
<1>0. /\ pc \in {"put", "copy"} /\ UNCHANGED <<pc, ram>> /\ StateOf(Current) = "uninit"
      /\ WriteHeader(Current) /\ listed \subseteq Page /\ nextSeq \in Nat
  BY DEF PutHeader, CopyHeader, IndInv, TypeOK
<1>1. PICK c \in Page : c = Current /\ c \in listed /\ StateOf(c) = "uninit" /\ ~HasSeq(c)
  BY <1>0, InUse DEF InCall, HasSeq
<1>2. nextSeq >= 1
  BY <1>1 DEF IndInv, PagesInv, Fresh
<1>3. WriteHeader(c)
  BY <1>0, <1>1 DEF WriteHeader
<1>4. Headed(c) /\ (Layout => Layout')
  BY <1>2, <1>3, Heading
<1>5. \A q \in listed : SeqOf(q)' = SeqOf(q)
  <2> SUFFICES ASSUME NEW q \in listed PROVE SeqOf(q)' = SeqOf(q)
    OBVIOUS
  <2>1. CASE q = c
    BY <1>0, <1>1, <1>4, <2>1 DEF Headed, SeqOf, ram
  <2>2. CASE q # c
    BY <1>0, <1>4, <2>2 DEF Headed, SeqOf, HasSeq, StateOf, ram
  <2> QED BY <2>1, <2>2
<1>6. Current' = c
  BY <1>0, <1>1, <1>5, CurrentSame DEF ram
<1> QED BY <1>0, <1>1, <1>4, <1>6

LEMMA ClosePageDoes ==
  ASSUME IndInv, ClosePage
  PROVE  /\ (Layout => Layout') /\ pc = "put" /\ pc' = "new_page"
         /\ \E c \in Page : c = Current /\ HasSeq(c) /\ Restated(c, "full")
<1>0. pc = "put"
  BY DEF ClosePage
<1>1. PICK c \in Page : c = Current
  BY <1>0, InUse DEF InCall
<1>2. HasSeq(c) /\ StateOf(c) \in {"active", "full"}
  BY <1>1 DEF ClosePage, PageFull, HasSeq
<1>3. CASE StateOf(c) = "active"
  <2>1. SetState(c, "full")
    BY <1>1, <1>3 DEF ClosePage, SetState
  <2> QED BY <1>0, <1>1, <1>2, <2>1, Restating DEF ClosePage
<1>4. CASE StateOf(c) = "full"
  <2>1. UNCHANGED flash
    BY <1>1, <1>4 DEF ClosePage
  <2>2. ItemsKept /\ (Layout => Layout')
    BY <2>1, Unchanging
  <2>3. Restated(c, "full")
    BY <1>4, <2>2, StatesSame DEF ItemsKept, Restated
  <2> QED BY <1>0, <1>1, <1>2, <2>2, <2>3 DEF ClosePage
<1> QED BY <1>2, <1>3, <1>4

LEMMA StartFreeingDoes ==
  ASSUME IndInv, StartFreeing
  PROVE  /\ (Layout => Layout') /\ pc = "new_page" /\ pc' = "activate"
         /\ \E c \in Page : c = gc' /\ c \in listed /\ HasSeq(c) /\ Restated(c, "freeing")
<1>0. pc = "new_page" /\ pc' = "activate" /\ listed # {} /\ listed \subseteq Page
  BY InUse DEF StartFreeing, InCall, IndInv, TypeOK
<1>1. PICK c \in Page : c = Victim /\ c \in listed
  BY <1>0, VictimIn
<1>2. HasSeq(c)
  BY <1>0, <1>1 DEF IndInv, PagesInv, Fresh
<1>3. SetState(c, "freeing") /\ gc' = c
  BY <1>1 DEF StartFreeing, SetState
<1> QED BY <1>0, <1>1, <1>2, <1>3, Restating

LEMMA PutDoes ==
  ASSUME IndInv, Layout, Storing, PutEntry \/ PutData
  PROVE  /\ KeepsHeaders /\ ItemsKept /\ Layout' /\ UNCHANGED ram
         /\ \E c \in Page : \E n : \E part \in {0, 1} :
              /\ c = Current /\ HasSeq(c) /\ n = NextFree(c) /\ NextFree(c)' = n
              /\ n \in Slot => Data(c, n)' = Piece(op.key, op.val, part)
              /\ part = IF pc = "put" THEN 0 ELSE 1
<1>0. /\ pc \in {"put", "data"} /\ UNCHANGED ram /\ StateOf(Current) = "active"
  BY DEF PutEntry, PutData, Fits, Storing
<1>1. PICK c \in Page : c = Current /\ HasSeq(c)
  BY <1>0, InUse DEF InCall, HasSeq
<1>2. PICK part \in {0, 1} : part = IF pc = "put" THEN 0 ELSE 1
  BY <1>0
<1>3. PICK d \in Pieces : d = Piece(op.key, op.val, part)
  BY <1>0, Operands
<1>4. SetCell(c, NextFree(c), [state |-> "empty", data |-> d])
  BY <1>1, <1>2, <1>3 DEF PutEntry, PutData, SetCell
<1>5. /\ KeepsHeaders /\ ItemsKept /\ Layout' /\ NextFree(c)' = NextFree(c)
      /\ NextFree(c) \in Slot => Data(c, NextFree(c))' = d
  BY <1>1, <1>4, EntryPrepared
<1>6. PICK n : n = NextFree(c)
  OBVIOUS
<1> QED BY <1>0, <1>1, <1>2, <1>3, <1>5, <1>6

LEMMA StepDoes ==
  ASSUME IndInv, Regular, ContentInv, [Next]_vars
  PROVE  /\ Layout'
         /\ \/ FewerItems
            \/ PutHeader \/ CopyHeader \/ ClosePage \/ StartFreeing
            \/ PutEntryState \/ PutDataState \/ CopyEntry
<1>0. Layout /\ Whole /\ Storing /\ CopyInOrder /\ Pairs /\ OldKnown
  BY DEF ContentInv
<1>1. CASE UNCHANGED flash
  BY <1>0, <1>1, Unchanging, KeptAreFewer
<1>2. CASE \E p \in Page : Gone(p)
  BY <1>0, <1>2, Giving
<1>3. CASE PutHeader \/ CopyHeader
  BY <1>0, <1>3, HeaderDoes
<1>4. CASE ClosePage \/ StartFreeing
  BY <1>0, <1>4, ClosePageDoes, StartFreeingDoes
<1>5. CASE PutEntry \/ PutData
  BY <1>0, <1>5, PutDoes, KeptAreFewer
<1>6. CASE PutEntryState \/ PutDataState \/ CopyEntry
  BY <1>0, <1>6, PutEntryStateDoes, PutDataStateDoes, CopyEntryDoes
<1>7. CASE RepairPage
  BY <1>0, <1>7, RepairDoes
<1>8. CASE DropDuplicate
  BY <1>0, <1>8, DropDuplicateDoes, ErasedAreFewer DEF ErasedTo
<1>9. CASE EraseAllStep
  BY <1>0, <1>9, EraseAllStepDoes, ErasedAreFewer DEF ErasedTo
<1>10. CASE DropOld
  BY <1>0, <1>10, DropOldDoes, ErasedAreFewer DEF ErasedTo
<1>11. CASE DiscardCopy /\ ~MustDiscard
  BY <1>1, <1>11 DEF DiscardCopy
<1>12. CASE UNCHANGED vars
  BY <1>1, <1>12, FlashUnchanged
<1>13. CASE Next
  <2>1. CASE Mounting
    BY <1>1, <1>2, <1>7, <1>8, <1>11, <2>1, FlashUnchanged, GivesUpPage DEF Mounting
  <2>2. CASE Moving
    BY <1>1, <1>2, <1>3, <1>6, <2>2, FlashUnchanged, GivesUpPage DEF Moving
  <2>3. CASE Writing
    BY <1>1, <1>2, <1>3, <1>4, <1>5, <1>6, <2>3, FlashUnchanged, GivesUpPage DEF Writing
  <2>4. CASE Erasing
    BY <1>1, <1>9, <1>10, <2>4, FlashUnchanged DEF Erasing
  <2>5. CASE BeginCall \/ PowerLoss
    BY <1>1, <1>2, <2>5, FlashUnchanged, GivesUpPage
  <2> QED BY <1>13, <2>1, <2>2, <2>3, <2>4, <2>5 DEF Next, Step
<1> QED BY <1>12, <1>13

-----------------------------------------------------------------------------
(* One item of a key, or two on the way from one to the other.             *)

LEMMA PairsFewer ==
  ASSUME Pairs, FewerItems,
         \A p, q \in Page : HasSeq(p)' /\ HasSeq(q)' =>
           \A s \in Heads(p)', t \in Heads(q)' :
             Data(p, s).key = Data(q, t).key /\ Late(p, s, q, t) =>
               MayBeLate' \/ (p = q /\ s = t)
  PROVE  Pairs'
<1> SUFFICES ASSUME NEW p \in Page, NEW q \in Page, HasSeq(p)', HasSeq(q)',
                    NEW s \in Heads(p)', NEW t \in Heads(q)', Data(p, s)'.key = Data(q, t)'.key
             PROVE  \/ p = q /\ s = t
                    \/ Twins(p, s, q, t)' \/ Twins(q, t, p, s)'
                    \/ Late(p, s, q, t)' \/ Late(q, t, p, s)'
  BY DEF Pairs
<1>1. /\ HasSeq(p) /\ StateOf(p)' = StateOf(p) /\ s \in Heads(p) /\ Data(p, s)' = Data(p, s)
      /\ HasSeq(q) /\ StateOf(q)' = StateOf(q) /\ t \in Heads(q) /\ Data(q, t)' = Data(q, t)
      /\ Heads(p)' \subseteq Heads(p) /\ Heads(q)' \subseteq Heads(q)
  BY DEF FewerItems
<1>2. \/ p = q /\ s = t
      \/ Twins(p, s, q, t) \/ Twins(q, t, p, s)
      \/ Late(p, s, q, t) \/ Late(q, t, p, s)
  BY <1>1 DEF Pairs
<1>3. Twins(p, s, q, t) => Twins(p, s, q, t)'
  BY <1>1 DEF Twins
<1>4. Twins(q, t, p, s) => Twins(q, t, p, s)'
  BY <1>1 DEF Twins
<1>5. ASSUME Late(p, s, q, t) PROVE Late(p, s, q, t)' \/ (p = q /\ s = t)
  <2>1. MayBeLate' \/ (p = q /\ s = t)
    BY <1>1, <1>5
  <2> QED BY <1>1, <1>5, <2>1 DEF Late, LastHead
<1>6. ASSUME Late(q, t, p, s) PROVE Late(q, t, p, s)' \/ (p = q /\ s = t)
  <2>1. MayBeLate' \/ (p = q /\ s = t)
    BY <1>1, <1>6
  <2> QED BY <1>1, <1>6, <2>1 DEF Late, LastHead
<1> QED BY <1>2, <1>3, <1>4, <1>5, <1>6

LEMMA LateStays ==
  ASSUME IndInv, [Next]_vars, MayBeLate,
         ~ (MountBlank \/ DropDuplicate \/ NoDuplicate \/ DropOld \/ DropNothing)
  PROVE  MayBeLate'
<1>1. CASE Mounting
  BY <1>1 DEF Mounting, MayBeLate, PowerOn, RepairPage, AcceptPage, NothingToRecover, DiscardCopy
<1>2. CASE Moving
  BY <1>2 DEF Moving, MayBeLate, ActivateTarget, CopyHeader, CopyEntry, CopyDone, Reclaim
<1>3. CASE Writing
  BY <1>3 DEF Writing, MayBeLate, WriteNothing, WriteFind, PutHeader, PutEntry, PutEntryState, PutData,
     PutDataState, ClosePage, StillFull, TakeFreePage, StartFreeing, NoNewPage, ram
<1>4. CASE Erasing
  BY <1>4 DEF Erasing, MayBeLate, EraseFind, EraseMissing, Finish, EraseAllStep, EraseAllDone
<1>5. CASE BeginCall \/ PowerLoss
  BY <1>5 DEF BeginCall, Ready, PowerLoss, PowerOff, MayBeLate
<1>6. CASE UNCHANGED vars
  BY <1>6 DEF vars, MayBeLate
<1> QED BY <1>1, <1>2, <1>3, <1>4, <1>5, <1>6 DEF Next, Step

\* What the new item of a call is.
LEMMA NewItemIs ==
  ASSUME IndInv, Layout, Storing, NEW p \in Page, NEW s, NewItem(p, s)
  PROVE  /\ p = Current /\ s \in Heads(p) /\ Data(p, s) = Piece(op.key, op.val, 0)
         /\ Data(p, s).key = op.key /\ StateOf(p) = "active" /\ HasSeq(p)
<1>1. /\ pc \in {"data", "data_state", "drop"} /\ op.kind = "write" /\ p = Current /\ LastHead(p, s)
      /\ s \in Heads(p) /\ s \in Nat
  BY HeadAt DEF NewItem, LastHead
<1>2. StateOf(p) = "active" /\ HasSeq(p)
  BY <1>1 DEF Storing, HasSeq
<1>3. CASE pc = "drop"
  <2>1. PICK t \in Heads(p) : LastHead(p, t) /\ Data(p, t) = Piece(op.key, op.val, 0)
    BY <1>1, <1>3 DEF Storing
  <2>2. s <= t /\ t <= s /\ t \in Nat
    BY <1>1, <2>1, HeadAt DEF LastHead
  <2>3. s = t
    BY <1>1, <2>2
  <2> QED BY <1>1, <1>2, <2>1, <2>3 DEF Piece
<1>4. CASE pc \in {"data", "data_state"}
  <2>1. PICK n : n = NextFree(p)
    OBVIOUS
  <2>2. n \in Slot /\ n - 1 \in Heads(p) /\ Data(p, n - 1) = Piece(op.key, op.val, 0)
    BY <1>1, <1>4, <2>1 DEF Storing
  <2>3. s < n
    BY <1>1, <1>2, <2>1, NextFreeIs, HeadAt DEF Layout
  <2>4. n - 1 <= s
    BY <1>1, <2>2 DEF LastHead
  <2>5. s = n - 1
    BY <1>1, <2>2, <2>3, <2>4 DEF Slot
  <2> QED BY <1>1, <1>2, <2>2, <2>5 DEF Piece
<1> QED BY <1>1, <1>3, <1>4

LEMMA LateHasElder ==
  ASSUME IndInv, Layout, Storing, pc \in InCall,
         NEW p \in Page, NEW s \in Heads(p), NEW q \in Page, NEW t \in Heads(q), HasSeq(p),
         Data(p, s).key = Data(q, t).key, Late(p, s, q, t), ~ (p = q /\ s = t)
  PROVE  Elder(p, s)
<1>1. NewItem(q, t)
  BY LateIsNew
<1>2. Data(p, s).key = op.key
  BY <1>1, NewItemIs
<1>3. ~NewItem(p, s)
  <2> SUFFICES ASSUME NewItem(p, s) PROVE FALSE
    OBVIOUS
  <2>1. p = q /\ s <= t /\ t <= s /\ s \in Nat /\ t \in Nat
    BY <1>1, HeadAt DEF NewItem, LastHead
  <2>2. s = t
    BY <2>1
  <2> QED BY <2>1, <2>2
<1> QED BY <1>2, <1>3 DEF Elder

\* In the mount, the predecessor of the newest item is on an earlier page.
LEMMA LateIsSuperseded ==
  ASSUME IndInv, Regular, Scanned, pc = "dup",
         NEW p \in Page, NEW s \in Heads(p), NEW q \in Page, NEW t \in Heads(q), HasSeq(p), HasSeq(q),
         Data(p, s).key = Data(q, t).key, Late(p, s, q, t), ~ (p = q /\ s = t)
  PROVE  p \in Superseded /\ listed # {} /\ q = Current /\ s \in KeyHeads(p, LastItem(Current).key)
         /\ StateOf(p) # "freeing" /\ LastItem(Current) = Data(q, t)
<1>1. StateOf(q) = "active" /\ LastHead(q, t) /\ StateOf(p) # "freeing"
  BY DEF Late
<1>2. q \in listed /\ q = Current /\ p \in listed
  BY <1>1, OnlyCurrentActive, InUseAreListed
<1>3. s \in Nat /\ t \in Nat /\ Data(p, s).key \in Keys
  BY HeadAt
<1>4. p # q
  <2> SUFFICES ASSUME p = q PROVE FALSE
    OBVIOUS
  <2>1. s <= t /\ s # t
    BY <1>1 DEF LastHead
  <2>2. s < t
    BY <1>3, <2>1
  <2>3. s \in Shadowed(q, t)
    BY <2>2 DEF Shadowed, Data
  <2> QED BY <1>1, <1>2, <2>3 DEF Scanned
<1>5. LastItem(Current) = Data(q, t)
  <2>1. PICK u : u = Max(Heads(q))
    OBVIOUS
  <2>2. LastHead(q, u)
    BY <2>1, LastHeadIs
  <2>3. u \in Nat /\ u <= t /\ t <= u
    BY <1>1, <2>2, HeadAt DEF LastHead
  <2>4. u = t
    BY <1>3, <2>3
  <2> QED BY <1>2, <2>1, <2>4 DEF LastItem, Data
<1>6. s \in KeyHeads(p, LastItem(Current).key)
  BY <1>5 DEF KeyHeads, Data
<1>7. p \in Superseded
  BY <1>1, <1>2, <1>4, <1>6, SupersededAre
<1> QED BY <1>1, <1>2, <1>5, <1>6, <1>7

LEMMA PairsLeave ==
  ASSUME IndInv, Regular, ContentInv, FewerItems,
         MountBlank \/ DropDuplicate \/ NoDuplicate \/ DropOld \/ DropNothing
  PROVE  Pairs'
<1>0. Layout /\ Pairs /\ Scanned /\ Storing /\ OldKnown
  BY DEF ContentInv
<1> SUFFICES ASSUME NEW p \in Page, NEW q \in Page, HasSeq(p)', HasSeq(q)',
                    NEW s \in Heads(p)', NEW t \in Heads(q)', Data(p, s).key = Data(q, t).key,
                    Late(p, s, q, t), ~MayBeLate', ~ (p = q /\ s = t)
             PROVE  FALSE
  BY <1>0, PairsFewer
<1>1. HasSeq(p) /\ HasSeq(q) /\ s \in Heads(p) /\ t \in Heads(q)
  BY DEF FewerItems
<1>2. CASE MountBlank
  BY <1>1, <1>2, InUseAreListed DEF MountBlank
<1>3. CASE NoDuplicate
  BY <1>0, <1>1, <1>3, LateIsSuperseded DEF NoDuplicate
<1>4. CASE DropDuplicate
  <2> DEFINE k == LastItem(Current).key
  <2>1. PICK r \in Page : \E u \in KeyHeads(r, k) :
           /\ r \in Superseded /\ HasSeq(r) /\ ErasedTo(r, u, "recover")
           /\ pc = "dup" /\ listed # {} /\ UNCHANGED ram
    BY <1>0, <1>4, DropDuplicateDoes
  <2>2. PICK u \in KeyHeads(r, k) :
           /\ r \in Superseded /\ HasSeq(r) /\ ErasedTo(r, u, "recover")
           /\ pc = "dup" /\ listed # {} /\ UNCHANGED ram
    BY <2>1
  <2>3. u \notin Heads(r)'
    BY <2>2 DEF ErasedTo, MayBeLate
  <2>4. /\ p \in Superseded /\ q = Current /\ s \in KeyHeads(p, k) /\ StateOf(p) # "freeing"
    BY <1>0, <1>1, <2>2, LateIsSuperseded
  <2>5. u \in Heads(r) /\ Data(r, u).key = k /\ Data(p, s).key = k
    BY <2>2, <2>4, KeyHeadAt
  <2>6. r # Current /\ p # Current /\ StateOf(r) # "freeing"
    BY <2>2, <2>4, SupersededAre
  <2>7. StateOf(r) # "active" /\ StateOf(p) # "active"
    BY <2>2, <2>6, OnlyCurrentActive
  <2>8. p = r /\ s = u
    BY <1>0, <1>1, <2>2, <2>4, <2>5, <2>6, <2>7 DEF Pairs, Twins, Late
  <2> QED BY <2>3, <2>8
<1>5. CASE DropOld \/ DropNothing
  <2>1. pc = "drop" /\ pc \in InCall
    BY <1>5 DEF DropOld, DropNothing, InCall
  <2>2. Elder(p, s)
    BY <1>0, <1>1, <2>1, LateHasElder
  <2>3. CASE DropNothing
    <3>1. old = NoPlace /\ op # NoRequest
      BY <2>1, <2>3, <1>0 DEF DropNothing, OldKnown, InCall
    <3> QED BY <1>0, <1>1, <2>1, <2>2, <3>1 DEF OldKnown, InWrite
  <2>4. CASE DropOld
    <3>1. PICK r \in Page : \E u \in Heads(r) :
             /\ HasSeq(r) /\ Elder(r, u) /\ ErasedTo(r, u, "return") /\ pc = "drop" /\ UNCHANGED ram
      BY <1>0, <2>4, DropOldDoes
    <3>2. PICK u \in Heads(r) :
             /\ HasSeq(r) /\ Elder(r, u) /\ ErasedTo(r, u, "return") /\ pc = "drop" /\ UNCHANGED ram
      BY <3>1
    <3>3. r = p /\ u = s
      BY <1>0, <2>1, <2>2, <3>2, ElderUnique
    <3>4. pc' = "drop"
      BY <3>2, <3>3, <2>1 DEF ErasedTo
    <3>5. MayBeLate /\ op' = op
      BY <3>2 DEF Late, ram
    <3> QED BY <2>1, <3>4, <3>5 DEF MayBeLate
  <2> QED BY <1>5, <2>3, <2>4
<1> QED BY <1>2, <1>3, <1>4, <1>5

LEMMA StoredRestIsFewer ==
  ASSUME NEW p \in Page, NEW n \in Slot, Stored(p, n), Data(p, n).part = 1
  PROVE  FewerItems
<1>1. \A q \in Page : StateOf(q)' = StateOf(q) /\ (HasSeq(q)' <=> HasSeq(q))
  BY StatesSame DEF Stored
<1>2. \A t \in Heads(p)' : t \in Heads(p) /\ t \in Slot
  BY DEF Stored, Heads, Written
<1>3. ASSUME NEW q \in Page
      PROVE  Heads(q)' \subseteq Heads(q) /\ \A t \in Heads(q)' : Data(q, t)' = Data(q, t)
  <2>1. CASE q = p
    BY <1>2, <2>1 DEF Stored
  <2>2. CASE q # p
    BY <2>2 DEF Stored, SameItems
  <2> QED BY <2>1, <2>2
<1> QED BY <1>1, <1>3 DEF FewerItems

\* A new item is stored next to the items that are there.
LEMMA PairsStored ==
  ASSUME IndInv, Pairs, ~MayBeLate, NEW c \in Page, NEW n \in Slot, Stored(c, n), Data(c, n).part = 0,
         HasSeq(c),
         \A p \in Page : HasSeq(p) => \A s \in Heads(p) :
           Data(p, s).key = Data(c, n).key => Twins(p, s, c, n)' \/ Late(p, s, c, n)'
  PROVE  Pairs'
<1>0. \A q \in Page : StateOf(q)' = StateOf(q) /\ (HasSeq(q)' <=> HasSeq(q))
  BY StatesSame DEF Stored
<1>1. ASSUME NEW q \in Page
      PROVE  /\ \A t \in Heads(q)' : t \in Heads(q) \/ (q = c /\ t = n)
             /\ \A t \in Heads(q)' : Data(q, t)' = Data(q, t)
  <2>1. CASE q = c
    <3>1. Heads(q)' = Heads(q) \cup {n} /\ Heads(q) \subseteq Slot
      BY <2>1 DEF Stored, Heads, Written
    <3> QED BY <2>1, <3>1 DEF Stored
  <2>2. CASE q # c
    BY <2>2 DEF Stored, SameItems
  <2> QED BY <2>1, <2>2
<1> SUFFICES ASSUME NEW p \in Page, NEW q \in Page, HasSeq(p)', HasSeq(q)',
                    NEW s \in Heads(p)', NEW t \in Heads(q)', Data(p, s)'.key = Data(q, t)'.key,
                    ~ (p = q /\ s = t)
             PROVE  \/ Twins(p, s, q, t)' \/ Twins(q, t, p, s)'
                    \/ Late(p, s, q, t)' \/ Late(q, t, p, s)'
  BY DEF Pairs
<1>2. Data(p, s).key = Data(q, t).key /\ HasSeq(p) /\ HasSeq(q)
  BY <1>0, <1>1
<1>3. CASE q = c /\ t = n
  <2>1. s \in Heads(p)
    BY <1>1, <1>3
  <2> QED BY <1>2, <1>3, <2>1
<1>4. CASE p = c /\ s = n
  <2>1. t \in Heads(q)
    BY <1>1, <1>4
  <2> QED BY <1>2, <1>4, <2>1
<1>5. CASE s \in Heads(p) /\ t \in Heads(q)
  <2>1. Twins(p, s, q, t) \/ Twins(q, t, p, s)
    BY <1>2, <1>5 DEF Pairs, Late
  <2> QED BY <1>0, <1>1, <2>1 DEF Twins
<1> QED BY <1>1, <1>3, <1>4, <1>5

LEMMA PairsPut ==
  ASSUME IndInv, ContentInv, PutEntryState
  PROVE  Pairs'
<1>0. Layout /\ Pairs /\ Whole /\ Storing
  BY DEF ContentInv
<1>1. /\ pc = "put_state" /\ pc' \in {"data", "drop"} /\ UNCHANGED ram /\ op.kind = "write"
  BY <1>0, PutEntryStateDoes DEF IndInv, PagesInv, Pending
<1>2. PICK c \in Page, n \in Slot :
         /\ c = Current /\ n = NextFree(c) /\ Stored(c, n)
         /\ StateOf(c) = "active" /\ HasSeq(c) /\ Broken(c) = {}
         /\ Data(c, n) = Piece(op.key, op.val, 0)
  BY <1>0, PutEntryStateDoes
<1>3. Data(c, n).part = 0 /\ ~MayBeLate /\ MayBeLate'
  BY <1>1, <1>2 DEF Piece, MayBeLate, ram
<1>4. \A q \in Page : StateOf(q)' = StateOf(q) /\ StateOf(q) # "freeing"
  BY <1>1, <1>2, StatesSame DEF Stored, IndInv, PagesInv, Spare, InCall
<1>5. LastHead(c, n)'
  <2>1. Heads(c)' = Heads(c) \cup {n} /\ \A t \in Heads(c) : t < n /\ t \in Nat
    BY <1>2, <1>3, HeadAt DEF Stored
  <2> QED BY <2>1 DEF LastHead, Slot
<1>6. \A p \in Page : \A s : Late(p, s, c, n)'
  BY <1>2, <1>3, <1>4, <1>5 DEF Late
<1> QED BY <1>0, <1>2, <1>3, <1>6, PairsStored

LEMMA PairsCopied ==
  ASSUME IndInv, ContentInv, CopyEntry
  PROVE  Pairs'
<1>0. Layout /\ Pairs /\ Whole /\ CopyInOrder
  BY DEF ContentInv
<1>1. /\ pc = "copy" /\ pc' = pc /\ UNCHANGED ram /\ ~MayBeLate
      /\ gc \in Page /\ StateOf(gc) = "freeing" /\ HasSeq(gc)
  BY <1>0, CopyEntryDoes, MovePages DEF MayBeLate
<1>2. PICK c \in Page, n \in Slot, m \in Slot :
         /\ c = Current /\ n = NextFree(c) /\ m = Min(ToCopy) /\ Current' = c
         /\ StateOf(c) = "active" /\ ToCopy # {}
         /\ \/ ItemsKept
            \/ Stored(c, n) /\ Data(c, n) = Data(gc, m)
  BY <1>0, CopyEntryDoes
<1>3. HasSeq(c) /\ m \in Written(gc) /\ Rank(m) = n - 1 /\ Data(gc, m) \in Pieces
      /\ \A i \in Slot : i < n => CopiedTo(i)
  BY <1>0, <1>1, <1>2, NextToCopy, ItemAt DEF HasSeq, Data, CopyInOrder
<1>4. ASSUME FewerItems PROVE Pairs'
  BY <1>0, <1>1, <1>4, PairsFewer DEF Late
<1>5. CASE ItemsKept
  BY <1>4, <1>5, KeptAreFewer
<1>6. CASE Stored(c, n) /\ Data(c, n) = Data(gc, m) /\ Data(c, n).part = 1
  BY <1>4, <1>6, StoredRestIsFewer
<1>7. CASE Stored(c, n) /\ Data(c, n) = Data(gc, m) /\ Data(c, n).part = 0
  <2>1. m \in Heads(gc)
    BY <1>3, <1>7 DEF Heads, Data
  <2>2. ASSUME NEW p \in Page, HasSeq(p), NEW s \in Heads(p), Data(p, s).key = Data(c, n).key
        PROVE  Twins(p, s, c, n)'
    <3>1. \/ p = gc /\ s = m
          \/ Twins(gc, m, p, s) \/ Twins(p, s, gc, m)
      BY <1>0, <1>1, <1>7, <2>1, <2>2 DEF Pairs, Late
    <3>2. ~Twins(p, s, gc, m)
      BY <1>1 DEF Twins
    <3>3. ~Twins(gc, m, p, s)
      <4> SUFFICES ASSUME Twins(gc, m, p, s) PROVE FALSE
        OBVIOUS
      <4>1. p = c
        BY <1>1, <1>2, OnlyCurrentActive DEF Twins
      <4>2. s \in Slot /\ s < n /\ s \in Nat /\ Data(p, s).part = 0
        BY <1>7, <2>2, <4>1, HeadAt DEF Stored
      <4>3. CopiedTo(s)
        BY <1>3, <4>2
      <4>4. PICK u \in Written(gc) : Rank(u) = s - 1 /\ Data(gc, u) = Data(c, s)
        BY <1>2, <4>3 DEF CopiedTo
      <4>5. u \in Heads(gc) /\ Data(gc, u).key = Data(gc, m).key
        BY <1>7, <2>2, <4>1, <4>2, <4>4 DEF Heads, Data
      <4>6. u = m
        BY <1>0, <1>1, <2>1, <4>5 DEF Pairs, Late, Twins
      <4> QED BY <1>3, <4>2, <4>4, <4>6 DEF Slot
    <3>4. p = gc /\ s = m
      BY <3>1, <3>2, <3>3
    <3>5. /\ \A q \in Page : StateOf(q)' = StateOf(q)
      BY <1>7, StatesSame DEF Stored
    <3>6. Data(p, s)' = Data(p, s)
      <4>1. gc # c
        BY <1>1, <1>2
      <4> QED BY <1>1, <1>7, <2>1, <3>4, <4>1 DEF Stored, SameItems
    <3>7. Data(c, n)' = Data(c, n)
      BY <1>7 DEF Stored
    <3> QED BY <1>1, <1>2, <1>7, <3>4, <3>5, <3>6, <3>7 DEF Twins
  <2> QED BY <1>0, <1>1, <1>3, <1>7, <2>2, PairsStored
<1>8. Data(c, n) = Data(gc, m) => Data(c, n).part \in {0, 1}
  BY <1>3 DEF Pieces
<1> QED BY <1>2, <1>5, <1>6, <1>7, <1>8

LEMMA PairsKept ==
  ASSUME IndInv, Regular, ContentInv, [Next]_vars
  PROVE  Pairs'
<1>0. Layout /\ Pairs /\ Storing
  BY DEF ContentInv
<1>1. CASE FewerItems
  <2>1. CASE MountBlank \/ DropDuplicate \/ NoDuplicate \/ DropOld \/ DropNothing
    BY <1>1, <2>1, PairsLeave
  <2>2. CASE ~ (MountBlank \/ DropDuplicate \/ NoDuplicate \/ DropOld \/ DropNothing)
    <3>1. MayBeLate => MayBeLate'
      BY <2>2, LateStays
    <3> QED BY <1>0, <1>1, <3>1, PairsFewer DEF Late
  <2> QED BY <2>1, <2>2
<1>2. CASE PutHeader \/ CopyHeader
  <2>1. PICK c \in Page : Headed(c) /\ ~HasSeq(c)
    BY <1>2, HeaderDoes
  <2>2. pc \in {"put", "copy"} /\ ~MayBeLate
    BY <1>2, HeaderDoes DEF MayBeLate
  <2> SUFFICES ASSUME NEW p \in Page, NEW q \in Page, HasSeq(p)', HasSeq(q)',
                      NEW s \in Heads(p)', NEW t \in Heads(q)', Data(p, s)'.key = Data(q, t)'.key
               PROVE  (p = q /\ s = t) \/ Twins(p, s, q, t)' \/ Twins(q, t, p, s)'
    BY DEF Pairs
  <2>3. p # c /\ q # c
    BY <2>1 DEF Headed
  <2>4. /\ HasSeq(p) /\ s \in Heads(p) /\ StateOf(p)' = StateOf(p) /\ Data(p, s)' = Data(p, s)
        /\ HasSeq(q) /\ t \in Heads(q) /\ StateOf(q)' = StateOf(q) /\ Data(q, t)' = Data(q, t)
    BY <2>1, <2>3, PageSame DEF Headed, SameItems
  <2>5. (p = q /\ s = t) \/ Twins(p, s, q, t) \/ Twins(q, t, p, s)
    BY <1>0, <2>2, <2>4 DEF Pairs, Late
  <2> QED BY <2>4, <2>5 DEF Twins
<1>3. CASE ClosePage \/ StartFreeing
  <2>1. pc \in {"put", "new_page"} /\ pc \in InCall
    BY <1>3 DEF ClosePage, StartFreeing, InCall
  <2>2. \A q \in Page : (HasSeq(q)' <=> HasSeq(q)) /\ SameItems(q)
    BY <1>3, ClosePageDoes, StartFreeingDoes DEF Restated
  <2> SUFFICES ASSUME NEW p \in Page, NEW q \in Page, HasSeq(p)', HasSeq(q)',
                      NEW s \in Heads(p)', NEW t \in Heads(q)', Data(p, s)'.key = Data(q, t)'.key
               PROVE  p = q /\ s = t
    BY DEF Pairs
  <2>3. /\ HasSeq(p) /\ s \in Heads(p) /\ Data(p, s)' = Data(p, s)
        /\ HasSeq(q) /\ t \in Heads(q) /\ Data(q, t)' = Data(q, t)
    BY <2>2 DEF SameItems
  <2> QED BY <1>0, <2>1, <2>3, PairHasNew
<1>4. CASE PutEntryState
  BY <1>4, PairsPut
<1>5. CASE PutDataState
  <2>1. PICK c \in Page, n \in Slot : Stored(c, n) /\ Data(c, n).part = 1
    BY <1>0, <1>5, PutDataStateDoes
  <2>2. FewerItems
    BY <2>1, StoredRestIsFewer
  <2> QED BY <1>1, <2>2
<1>6. CASE CopyEntry
  BY <1>6, PairsCopied
<1> QED BY <1>1, <1>2, <1>3, <1>4, <1>5, <1>6, StepDoes

-----------------------------------------------------------------------------
(* The page a running write stores its item on.                            *)

LEMMA StillThere ==
  ASSUME IndInv, SameHeaders, UNCHANGED <<listed, nextSeq>>
  PROVE  /\ \A q \in Page : /\ StateOf(q)' = StateOf(q) /\ (HasSeq(q)' <=> HasSeq(q))
                            /\ SeqOf(q)' = SeqOf(q)
         /\ listed # {} => Current' = Current
BY StatesSame, SeqOfSame, CurrentKept

LEMMA StoringSteps ==
  ASSUME IndInv, [Next]_vars, pc' \in {"put_state", "data", "data_state", "drop"}
  PROVE  \/ PutEntry \/ PutEntryState \/ PutData \/ PutDataState \/ EraseFind \/ DropOld
         \/ UNCHANGED vars
<1>1. CASE Mounting
  BY <1>1 DEF Mounting, PowerOn, RepairPage, AcceptPage, MountBlank, DropDuplicate, EraseItemStep,
     NoDuplicate, NothingToRecover, DiscardCopy
<1>2. CASE Moving
  BY <1>2 DEF Moving, ActivateTarget, CopyHeader, CopyEntry, CopyDone, Reclaim
<1>3. CASE Writing
  BY <1>3 DEF Writing, WriteNothing, WriteFind, PutHeader, ClosePage, StillFull, TakeFreePage,
     StartFreeing, NoNewPage, Return
<1>4. CASE Erasing
  BY <1>4 DEF Erasing, DropNothing, EraseMissing, Finish, EraseAllStep, EraseAllDone, EraseItemStep,
     Return
<1>5. CASE BeginCall \/ PowerLoss
  BY <1>5 DEF BeginCall, PowerLoss, PowerOff
<1> QED BY <1>1, <1>2, <1>3, <1>4, <1>5 DEF Next, Step

LEMMA StoringKept ==
  ASSUME IndInv, Regular, ContentInv, [Next]_vars
  PROVE  Storing'
<1>0. Layout /\ Pairs /\ Whole /\ Storing /\ OldKnown
  BY DEF ContentInv
<1>1. CASE pc' \notin {"put_state", "data", "data_state", "drop"}
  BY <1>1 DEF Storing
<1>2. CASE PutEntry
  <2>0. pc = "put" /\ pc' = "put_state" /\ Fits
    BY <1>2 DEF PutEntry
  <2>1. PICK c, n : \E part \in {0, 1} :
           /\ c \in Page /\ c = Current /\ HasSeq(c) /\ n = NextFree(c) /\ NextFree(c)' = n
           /\ n \in Slot => Data(c, n)' = Piece(op.key, op.val, part)
           /\ part = IF pc = "put" THEN 0 ELSE 1
    BY <1>0, <1>2, PutDoes
  <2>2. n \in Slot => Data(c, n)' = Piece(op.key, op.val, 0)
    BY <2>0, <2>1
  <2>3. KeepsHeaders /\ UNCHANGED ram
    BY <1>0, <1>2, PutDoes
  <2>4. Current' = c /\ StateOf(c)' = StateOf(c)
    BY <2>0, <2>1, <2>3, StillThere, InUse DEF KeepsHeaders, ram, InCall
  <2>5. StateOf(c) = "active" /\ n + Span[op.val] - 1 <= EntryCount
    BY <2>0, <2>1 DEF Fits
  <2>6. n \in 1 .. EntryCount + 1 /\ Span[op.val] \in {1, 2}
    BY <2>0, <2>1, NextFreeIs, Operands, ItemAssumption
  <2>7. n \in Slot
    BY <2>5, <2>6, SizeAssumption DEF Slot
  <2>8. Data(Current, NextFree(Current))' = Data(c, n)' /\ NextFree(Current)' = n
    BY <2>1, <2>4 DEF Data, CellAt
  <2> QED BY <2>0, <2>1, <2>2, <2>3, <2>4, <2>5, <2>7, <2>8 DEF Storing, ram
<1>3. CASE PutEntryState
  <2>1. PICK c \in Page, n \in Slot :
           /\ c = Current /\ n = NextFree(c) /\ Stored(c, n)
           /\ StateOf(c) = "active" /\ HasSeq(c) /\ Broken(c) = {}
           /\ Data(c, n) = Piece(op.key, op.val, 0)
    BY <1>0, <1>3, PutEntryStateDoes
  <2>2. /\ pc = "put_state" /\ pc' = (IF Span[op.val] = 1 THEN "drop" ELSE "data") /\ UNCHANGED ram
        /\ KeepsHeaders
    BY <1>0, <1>3, PutEntryStateDoes
  <2>3. Current' = c /\ StateOf(c)' = "active"
    BY <2>1, <2>2, StillThere, InUse DEF KeepsHeaders, ram, InCall
  <2>4. /\ Data(c, n).part = 0 /\ n \in Nat
        /\ n + Span[op.val] - 1 <= EntryCount /\ Span[op.val] \in {1, 2}
    BY <1>0, <2>1, <2>2, Operands, ItemAssumption DEF Piece, Storing, Slot
  <2>5. /\ Heads(c)' = Heads(c) \cup {n} /\ NextFree(c)' = n + 1
        /\ Data(c, n)' = Piece(op.key, op.val, 0)
    BY <2>1, <2>4 DEF Stored
  <2>6. LastHead(c, n)'
    <3>1. \A t \in Heads(c) : t < n /\ t \in Nat
      BY <2>1, HeadAt DEF Stored
    <3> QED BY <2>4, <2>5, <3>1 DEF LastHead
  <2>7. CASE Span[op.val] = 1
    <3>1. pc' = "drop" /\ op' = op
      BY <2>2, <2>7 DEF ram
    <3>2. \E s \in Heads(c)' : LastHead(c, s)' /\ Data(c, s)' = Piece(op.key, op.val, 0)
      BY <2>5, <2>6
    <3>3. \E s \in Heads(Current)' : LastHead(Current, s)' /\ Data(Current, s)' = Piece(op.key, op.val, 0)
      BY <2>3, <3>2 DEF LastHead, Heads, Written, Data, CellAt
    <3> QED BY <2>3, <3>1, <3>3 DEF Storing
  <2>8. CASE Span[op.val] = 2
    <3>1. pc' = "data" /\ op' = op
      BY <2>2, <2>8 DEF ram
    <3>2. NextFree(Current)' = n + 1 /\ n + 1 \in Slot /\ (n + 1) - 1 = n
      BY <2>3, <2>4, <2>5, <2>8, SizeAssumption DEF Slot
    <3>3. n \in Heads(Current)' /\ Data(Current, n)' = Piece(op.key, op.val, 0)
      BY <2>3, <2>5 DEF Heads, Written, Data, CellAt
    <3> QED BY <2>3, <2>8, <3>1, <3>2, <3>3 DEF Storing
  <2> QED BY <2>4, <2>7, <2>8
<1>4. CASE PutData
  <2>0. pc = "data" /\ pc' = "data_state"
    BY <1>4 DEF PutData
  <2>1. PICK c, n : \E part \in {0, 1} :
           /\ c \in Page /\ c = Current /\ HasSeq(c) /\ n = NextFree(c) /\ NextFree(c)' = n
           /\ n \in Slot => Data(c, n)' = Piece(op.key, op.val, part)
           /\ part = IF pc = "put" THEN 0 ELSE 1
    BY <1>0, <1>4, PutDoes
  <2>2. n \in Slot => Data(c, n)' = Piece(op.key, op.val, 1)
    BY <2>0, <2>1
  <2>3. KeepsHeaders /\ UNCHANGED ram /\ ItemsKept
    BY <1>0, <1>4, PutDoes
  <2>4. Current' = c /\ StateOf(c)' = StateOf(c)
    BY <2>0, <2>1, <2>3, StillThere, InUse DEF KeepsHeaders, ram, InCall
  <2>5. /\ StateOf(c) = "active" /\ n \in Slot /\ Span[op.val] = 2 /\ n - 1 \in Heads(c)
        /\ Data(c, n - 1) = Piece(op.key, op.val, 0)
    BY <1>0, <2>0, <2>1 DEF Storing
  <2>6. n - 1 \in Heads(c)' /\ Data(c, n - 1)' = Piece(op.key, op.val, 0)
    BY <2>1, <2>3, <2>5 DEF ItemsKept, SameItems
  <2>7. Data(Current, NextFree(Current))' = Data(c, n)' /\ NextFree(Current)' = n
    BY <2>1, <2>4 DEF Data, CellAt
  <2>8. n - 1 \in Heads(Current)' /\ Data(Current, n - 1)' = Piece(op.key, op.val, 0)
    BY <2>4, <2>6 DEF Heads, Written, Data, CellAt
  <2>9. Data(Current, NextFree(Current) - 1)' = Data(Current, n - 1)'
    BY <2>4, <2>7 DEF Data, CellAt
  <2> QED BY <2>0, <2>2, <2>3, <2>4, <2>5, <2>7, <2>8, <2>9 DEF Storing, ram
<1>5. CASE PutDataState
  <2>1. PICK c \in Page, n \in Slot :
           /\ c = Current /\ n = NextFree(c) /\ Stored(c, n)
           /\ StateOf(c) = "active" /\ HasSeq(c)
           /\ Data(c, n).part = 1 /\ n - 1 \in Heads(c)
           /\ Data(c, n - 1) = Piece(op.key, op.val, 0)
    BY <1>0, <1>5, PutDataStateDoes
  <2>2. pc = "data_state" /\ pc' = "drop" /\ UNCHANGED ram /\ KeepsHeaders
    BY <1>0, <1>5, PutDataStateDoes
  <2>3. Current' = c /\ StateOf(c)' = "active"
    BY <2>1, <2>2, StillThere, InUse DEF KeepsHeaders, ram, InCall
  <2>4. Heads(c)' = Heads(c) /\ \A t \in Heads(c) : t < n /\ t \in Nat
    BY <2>1, HeadAt DEF Stored
  <2>5. n - 1 \in Slot /\ n \in Nat
    BY <2>1, HeadAt DEF Slot
  <2>6. LastHead(c, n - 1)' /\ Data(c, n - 1)' = Piece(op.key, op.val, 0)
    BY <2>1, <2>4, <2>5 DEF LastHead, Stored
  <2>7. \E s \in Heads(c)' : LastHead(c, s)' /\ Data(c, s)' = Piece(op.key, op.val, 0)
    BY <2>1, <2>4, <2>6
  <2>8. \E s \in Heads(Current)' : LastHead(Current, s)' /\ Data(Current, s)' = Piece(op.key, op.val, 0)
    BY <2>3, <2>7 DEF LastHead, Heads, Written, Data, CellAt
  <2> QED BY <2>2, <2>3, <2>8 DEF Storing, ram
<1>6. CASE EraseFind
  BY <1>6 DEF EraseFind, Storing
<1>7. CASE DropOld \/ UNCHANGED vars
  <2>1. CASE pc = "drop" /\ op.kind = "write" /\ pc' = pc
    <3>c. PICK c \in Page : c = Current
      BY <2>1, InUse DEF InCall
    <3>1. /\ SameHeaders /\ UNCHANGED ram /\ Heads(c)' = Heads(c)
          /\ \A t \in Heads(c) : Data(c, t)' = Data(c, t)
      <4>1. CASE UNCHANGED vars
        BY <4>1, Unchanging DEF vars, ram, ItemsKept, SameItems
      <4>2. CASE DropOld
        <5>1. PICK p \in Page : \E s \in Heads(p) :
                /\ HasSeq(p) /\ Elder(p, s) /\ ErasedTo(p, s, "return") /\ pc = "drop" /\ UNCHANGED ram
          BY <1>0, <4>2, DropOldDoes
        <5>2. PICK s \in Heads(p) :
                /\ HasSeq(p) /\ Elder(p, s) /\ ErasedTo(p, s, "return") /\ pc = "drop" /\ UNCHANGED ram
          BY <5>1
        <5>3. s \in Heads(p)' /\ Erased(p, s)
          BY <2>1, <5>2 DEF ErasedTo
        <5>4. CASE c = p
          BY <5>2, <5>3, <5>4 DEF Erased
        <5>5. CASE c # p
          BY <5>2, <5>3, <5>5 DEF Erased, SameItems
        <5> QED BY <5>4, <5>5
      <4> QED BY <1>7, <4>1, <4>2
    <3>2. Current' = c /\ StateOf(c)' = StateOf(c)
      BY <2>1, <3>1, <3>c, StillThere, InUse DEF ram, InCall
    <3>3. StateOf(c) = "active" /\ \E s \in Heads(c) : LastHead(c, s) /\ Data(c, s) = Piece(op.key, op.val, 0)
      BY <1>0, <2>1, <3>c DEF Storing
    <3>4. \E s \in Heads(c)' : LastHead(c, s)' /\ Data(c, s)' = Piece(op.key, op.val, 0)
      BY <3>1, <3>3 DEF LastHead
    <3>5. \E s \in Heads(Current)' : LastHead(Current, s)' /\ Data(Current, s)' = Piece(op.key, op.val, 0)
      BY <3>2, <3>4 DEF LastHead, Heads, Written, Data, CellAt
    <3> QED BY <2>1, <3>1, <3>2, <3>3, <3>5 DEF Storing, ram
  <2>2. CASE pc = "drop" /\ op.kind # "write" /\ pc' = pc
    BY <1>7, <2>2 DEF DropOld, Storing, vars, ram, EraseItemStep, Return
  <2>3. CASE pc \in {"put_state", "data", "data_state"} /\ UNCHANGED vars
    <3>1. PICK c \in Page : c = Current
      BY <2>3, InUse DEF InCall
    <3>2. SameHeaders /\ ItemsKept /\ UNCHANGED <<flash, listed, nextSeq, op, pc>>
      BY <2>3, Unchanging DEF vars, ItemsKept
    <3>3. Current' = c /\ StateOf(c)' = StateOf(c)
      BY <2>3, <3>1, <3>2, StillThere, InUse DEF InCall
    <3>4. PICK n : n = NextFree(c)
      OBVIOUS
    <3>5. NextFree(c)' = n /\ Heads(c)' = Heads(c) /\ \A s : Data(c, s)' = Data(c, s)
      BY <3>2, <3>4, PageSame DEF Data, SameItems
    <3>6. NextFree(Current)' = n /\ Heads(Current)' = Heads(c) /\ \A s : Data(Current, s)' = Data(c, s)
      BY <3>3, <3>5 DEF Heads, Written, Data, CellAt
    <3>7. Data(Current, NextFree(Current))' = Data(c, n)
      BY <3>3, <3>5, <3>6 DEF Data, CellAt
    <3>8. Data(Current, NextFree(Current) - 1)' = Data(c, n - 1)
      BY <3>3, <3>5, <3>6 DEF Data, CellAt
    <3> QED BY <1>0, <2>3, <3>1, <3>2, <3>3, <3>4, <3>6, <3>7, <3>8 DEF Storing
  <2>4. pc' \in {"put_state", "data", "data_state", "drop"} =>
           \/ pc = "drop" /\ pc' = pc
           \/ pc \in {"put_state", "data", "data_state"} /\ UNCHANGED vars
    BY <1>7 DEF DropOld, vars, Return, EraseItemStep
  <2> QED BY <1>1, <2>1, <2>2, <2>3, <2>4
<1> QED BY <1>1, <1>2, <1>3, <1>4, <1>5, <1>6, <1>7, StoringSteps

-----------------------------------------------------------------------------
(* What a running call knows of the item it replaces or erases.            *)

OldTells ==
  pc \in InWrite /\ op # NoRequest =>
    /\ old = NoPlace => \A p \in Page : \A s \in Heads(p) : ~Elder(p, s)
    /\ old # NoPlace => OldFound
    /\ op.kind # "write" => op.kind = "erase" /\ pc = "drop" /\ old # NoPlace

\* The pages in use keep their items.
ItemsStand ==
  \A p \in Page : \A s :
    /\ HasSeq(p)' /\ s \in Heads(p)' <=> HasSeq(p) /\ s \in Heads(p)
    /\ HasSeq(p) /\ s \in Heads(p) => Data(p, s)' = Data(p, s)

LEMMA RelocatedIs ==
  Relocated <=> ~ (StateOf(old.page) \in {"active", "full"} /\ flash[old.page].seq = old.seq)
BY DEF Relocated, SeqOf, HasSeq

LEMMA OldStays ==
  ASSUME IndInv, OldKnown, pc \in InWrite, pc' \in InWrite, pc = "drop" => pc' = "drop",
         UNCHANGED <<op, old>>, op # NoRequest,
         \A p \in Page : \A s \in Heads(p)' :
           Elder(p, s)' => \E q \in Page : \E t \in Heads(q) : Elder(q, t),
         \A p \in Page : \A s \in Heads(p) :
           Elder(p, s) => \E q \in Page : \E t \in Heads(q)' : Elder(q, t)',
         \A p \in Page, s \in Slot :
           (old # NoPlace /\ old.page = p /\ old.slot = s /\ StateOf(p)' \in {"active", "full"} /\ flash'[p].seq = old.seq)
             => /\ StateOf(p) \in {"active", "full"} /\ flash[p].seq = old.seq
                /\ Elder(p, s) => Elder(p, s)',
         nextSeq' = nextSeq \/ nextSeq' = nextSeq + 1,
         nextSeq' = nextSeq => \A p \in listed' : ~HasSeq(p)' => p \in listed /\ ~HasSeq(p)
  PROVE  OldTells'
<1>1. ASSUME old = NoPlace PROVE \A p \in Page : \A s \in Heads(p)' : ~Elder(p, s)'
  BY <1>1 DEF OldKnown
<1>2. ASSUME old # NoPlace PROVE OldFound'
  <2>0. OldFound /\ nextSeq \in Nat /\ old \in PlaceType
    BY <1>2 DEF OldKnown, IndInv, TypeOK, PlaceType
  <2>1. PICK p \in Page, s \in Slot : p = old.page /\ s = old.slot /\ old.seq \in Int
    BY <2>0 DEF PlaceType
  <2>2. ASSUME ~Relocated' PROVE Elder(p, s)'
    <3>1. StateOf(p)' \in {"active", "full"} /\ flash'[p].seq = old.seq
      <4>1. StateOf(old.page)' \in {"active", "full"} /\ flash'[old'.page].seq = old'.seq
        BY <2>2 DEF Relocated, SeqOf, HasSeq
      <4> QED BY <2>1, <4>1 DEF StateOf
    <3>2. ~Relocated
      BY <1>2, <2>1, <3>1, RelocatedIs
    <3>3. Elder(p, s)
      BY <2>0, <2>1, <3>2 DEF OldFound
    <3> QED BY <1>2, <2>1, <3>1, <3>3
  <2>3. ~Relocated' => Elder(old.page, old.slot)'
    <3>1. Elder(p, s)' => Elder(old.page, old.slot)'
      BY <2>1 DEF Elder, NewItem, LastHead, Data, CellAt, Heads, Written, HasSeq, StateOf
    <3> QED BY <2>2, <3>1
  <2>4. \E q \in Page : \E t \in Heads(q)' : Elder(q, t)'
    BY <2>0 DEF OldFound
  <2>5. old'.seq < nextSeq' /\ \A q \in listed' : ~HasSeq(q)' => old'.seq < nextSeq' - 1
    <3>1. CASE nextSeq' = nextSeq
      BY <2>0, <3>1 DEF OldFound
    <3>2. CASE nextSeq' = nextSeq + 1
      BY <2>0, <2>1, <3>2 DEF OldFound
    <3> QED BY <3>1, <3>2
  <2>6. old'.type \in {TypeOf[v] : v \in Values}
    BY <2>0 DEF OldFound
  <2> QED BY <2>3, <2>4, <2>5, <2>6 DEF OldFound
<1>3. op.kind # "write" => op.kind = "erase" /\ pc' = "drop" /\ old # NoPlace
  BY DEF OldKnown
<1> QED BY <1>1, <1>2, <1>3 DEF OldTells

\* Before the new item is stored, keeping the items is enough.
LEMMA OldStands ==
  ASSUME IndInv, OldKnown, ItemsStand, pc \in InWrite, pc' \in InWrite,
         pc \notin {"data", "data_state", "drop"}, pc' \notin {"data", "data_state", "drop"},
         UNCHANGED <<op, old>>, op # NoRequest,
         \A p \in Page : old # NoPlace /\ old.page = p /\ StateOf(p)' \in {"active", "full"} /\ flash'[p].seq = old.seq
             => StateOf(p) \in {"active", "full"} /\ flash[p].seq = old.seq,
         nextSeq' = nextSeq \/ nextSeq' = nextSeq + 1,
         nextSeq' = nextSeq => \A p \in listed' : ~HasSeq(p)' => p \in listed /\ ~HasSeq(p)
  PROVE  OldTells'
<1>1. \A p \in Page : \A s : Elder(p, s)' <=> Elder(p, s)
  BY DEF ItemsStand, Elder, NewItem
<1>2. \A p \in Page : \A s : Elder(p, s) => s \in Heads(p) /\ s \in Heads(p)'
  BY <1>1 DEF Elder
<1>3. \A p \in Page : \A s \in Heads(p)' :
        Elder(p, s)' => \E q \in Page : \E t \in Heads(q) : Elder(q, t)
  BY <1>1, <1>2
<1>4. \A p \in Page : \A s \in Heads(p) :
        Elder(p, s) => \E q \in Page : \E t \in Heads(q)' : Elder(q, t)'
  BY <1>1, <1>2
<1>5. \A p \in Page, s \in Slot :
        (old # NoPlace /\ old.page = p /\ old.slot = s /\ StateOf(p)' \in {"active", "full"} /\ flash'[p].seq = old.seq)
          => /\ StateOf(p) \in {"active", "full"} /\ flash[p].seq = old.seq
             /\ Elder(p, s) => Elder(p, s)'
  <2> SUFFICES ASSUME NEW p \in Page, NEW s \in Slot, old # NoPlace, old.page = p,
                      StateOf(p)' \in {"active", "full"}, flash'[p].seq = old.seq
               PROVE  /\ StateOf(p) \in {"active", "full"} /\ flash[p].seq = old.seq
                      /\ Elder(p, s) => Elder(p, s)'
    OBVIOUS
  <2>1. StateOf(p) \in {"active", "full"} /\ flash[p].seq = old.seq
    OBVIOUS
  <2>2. Elder(p, s) => Elder(p, s)'
    BY <1>1
  <2> QED BY <2>1, <2>2
<1> QED BY <1>3, <1>4, <1>5, OldStays

LEMMA ItemsKeptStand ==
  ASSUME \A q \in Page : (HasSeq(q)' <=> HasSeq(q)) /\ SameItems(q)
  PROVE  ItemsStand
BY DEF SameItems, ItemsStand

\* Afterwards, the item stored last has to stay the last one.
LEMMA OldStandsLate ==
  ASSUME IndInv, OldKnown, ItemsStand, SameHeaders,
         pc \in {"data", "data_state", "drop"}, pc' \in {"data", "data_state", "drop"},
         pc = "drop" => pc' = "drop",
         UNCHANGED <<listed, nextSeq, op, old>>, op # NoRequest
  PROVE  OldTells'
<1>c. PICK c \in Page : c = Current /\ c \in listed
  BY InUse DEF InCall
<1>1. Current' = c /\ \A q \in Page : StateOf(q)' = StateOf(q) /\ (HasSeq(q)' <=> HasSeq(q))
  BY <1>c, StillThere
<1>2. ASSUME NEW p \in Page, NEW s, HasSeq(p) PROVE NewItem(p, s)' <=> NewItem(p, s)
  BY <1>c, <1>1, <1>2 DEF NewItem, LastHead, ItemsStand
<1>3. \A p \in Page : \A s : Elder(p, s)' <=> Elder(p, s)
  BY <1>1, <1>2 DEF ItemsStand, Elder
<1>4. \A p \in Page : \A s : Elder(p, s) => s \in Heads(p) /\ s \in Heads(p)'
  BY <1>3 DEF Elder
<1>5. \A p \in Page : flash'[p].seq = flash[p].seq
  BY DEF SameHeaders
<1>6. /\ \A p \in Page : \A s \in Heads(p)' :
           Elder(p, s)' => \E q \in Page : \E t \in Heads(q) : Elder(q, t)
      /\ \A p \in Page : \A s \in Heads(p) :
           Elder(p, s) => \E q \in Page : \E t \in Heads(q)' : Elder(q, t)'
  BY <1>3, <1>4
<1>7. \A p \in listed : p \in Page
  BY DEF IndInv, TypeOK
<1>8. pc \in InWrite /\ pc' \in InWrite
  BY DEF InWrite
<1> QED BY <1>1, <1>3, <1>5, <1>6, <1>7, <1>8, OldStays

\* Pages taken, headers written, pages closed or freed.
LEMMA OldByPages ==
  ASSUME IndInv, ContentInv, op # NoRequest,
         \/ ActivateTarget \/ TakeFreePage \/ PutHeader \/ CopyHeader \/ ClosePage \/ StartFreeing
         \/ PutEntry \/ CopyDone
  PROVE  OldTells'
<1>0. OldKnown /\ Layout /\ Storing
  BY DEF ContentInv
<1>1. CASE ActivateTarget \/ TakeFreePage
  <2>0. Activate
    BY <1>1, TakesPage
  <2>1. PICK p \in Range(free) :
           /\ p \in Page /\ ~HasSeq(p) /\ ~HasSeq(p)' /\ \A q \in Page \ {p} : flash'[q] = flash[q]
           /\ nextSeq' = nextSeq + 1
    BY <2>0, ActivateDoes
  <2>2. /\ pc \in {"activate", "new_page"} /\ pc' \in {"copy", "put"} /\ UNCHANGED <<op, old>>
    BY <1>1, <2>0 DEF ActivateTarget, TakeFreePage, Activate
  <2>3. ItemsStand
    <3> SUFFICES ASSUME NEW q \in Page, NEW s
                 PROVE  /\ HasSeq(q)' /\ s \in Heads(q)' <=> HasSeq(q) /\ s \in Heads(q)
                        /\ HasSeq(q) /\ s \in Heads(q) => Data(q, s)' = Data(q, s)
      BY DEF ItemsStand
    <3>1. CASE q = p
      BY <2>1, <3>1
    <3>2. CASE q # p
      BY <2>1, <3>2, PageSame DEF SameItems
    <3> QED BY <3>1, <3>2
  <2>4. ASSUME NEW q \in Page, StateOf(q)' \in {"active", "full"}
        PROVE  StateOf(q)' = StateOf(q) /\ flash'[q].seq = flash[q].seq
    BY <2>1, <2>4 DEF HasSeq, StateOf
  <2>5. nextSeq' # nextSeq /\ pc \in InWrite /\ pc' \in InWrite
    BY <2>1, <2>2 DEF IndInv, TypeOK, InWrite, InMove
  <2> QED BY <1>0, <2>1, <2>2, <2>3, <2>4, <2>5, OldStands
<1>2. CASE PutHeader \/ CopyHeader
  <2>1. PICK c \in Page : c \in listed /\ Headed(c) /\ StateOf(c) = "uninit" /\ ~HasSeq(c)
    BY <1>2, HeaderDoes
  <2>2. pc \in {"put", "copy"} /\ UNCHANGED <<pc, ram>> /\ nextSeq \in Nat
    BY <1>2, HeaderDoes DEF IndInv, TypeOK
  <2>3. ItemsStand
    <3> SUFFICES ASSUME NEW q \in Page, NEW s
                 PROVE  /\ HasSeq(q)' /\ s \in Heads(q)' <=> HasSeq(q) /\ s \in Heads(q)
                        /\ HasSeq(q) /\ s \in Heads(q) => Data(q, s)' = Data(q, s)
      BY DEF ItemsStand
    <3>1. CASE q = c
      BY <2>1, <3>1 DEF Headed
    <3>2. CASE q # c
      BY <2>1, <3>2, PageSame DEF SameItems, Headed
    <3> QED BY <3>1, <3>2
  <2>4. ASSUME NEW q \in Page, old # NoPlace, flash'[q].seq = old.seq
        PROVE  StateOf(q)' = StateOf(q) /\ flash'[q].seq = flash[q].seq
    <3>1. pc \in InWrite
      BY <2>2 DEF InWrite, InMove
    <3>2. old.seq < nextSeq - 1 /\ old.seq \in Int
      BY <1>0, <2>1, <2>4, <3>1 DEF OldKnown, OldFound, IndInv, TypeOK
    <3>3. q # c
      BY <2>1, <2>2, <2>4, <3>2 DEF Headed
    <3> QED BY <2>1, <3>3 DEF Headed, StateOf
  <2>5. UNCHANGED <<op, old, nextSeq, listed, pc>> /\ pc \in InWrite
    BY <2>2 DEF ram, InWrite, InMove
  <2>6. \A q \in listed : ~HasSeq(q)' => ~HasSeq(q)
    <3> SUFFICES ASSUME NEW q \in listed, ~HasSeq(q)' PROVE ~HasSeq(q)
      OBVIOUS
    <3>1. q # c /\ q \in Page
      BY <2>1 DEF Headed, IndInv, TypeOK
    <3> QED BY <2>1, <3>1, PageSame DEF Headed
  <2> QED BY <1>0, <2>2, <2>3, <2>4, <2>5, <2>6, OldStands
<1>3. CASE ClosePage \/ StartFreeing
  <2>1. PICK c \in Page, st \in {"full", "freeing"} : HasSeq(c) /\ Restated(c, st)
           /\ (st = "full" => StateOf(c) \in {"active", "full"})
    <3>1. CASE ClosePage
      <4>1. PICK c \in Page : c = Current /\ HasSeq(c) /\ Restated(c, "full")
        BY <3>1, ClosePageDoes
      <4>2. StateOf(c) \in {"active", "full"}
        BY <3>1, <4>1 DEF ClosePage, PageFull
      <4> QED BY <4>1, <4>2
    <3>2. CASE StartFreeing
      BY <3>2, StartFreeingDoes
    <3> QED BY <1>3, <3>1, <3>2
  <2>2. /\ pc \in {"put", "new_page"} /\ pc' \in {"new_page", "activate"}
        /\ UNCHANGED <<op, old, nextSeq, listed>>
    BY <1>3 DEF ClosePage, StartFreeing
  <2>3. ItemsStand
    BY <2>1, ItemsKeptStand DEF Restated
  <2>4. ASSUME NEW q \in Page, StateOf(q)' \in {"active", "full"}
        PROVE  StateOf(q) \in {"active", "full"} /\ flash'[q].seq = flash[q].seq
    BY <2>1, <2>4 DEF Restated
  <2>5. \A q \in listed : ~HasSeq(q)' => ~HasSeq(q)
    BY <2>1 DEF Restated, IndInv, TypeOK
  <2>6. pc \in InWrite /\ pc' \in InWrite
    BY <2>2 DEF InWrite, InMove
  <2> QED BY <1>0, <2>2, <2>3, <2>4, <2>5, <2>6, OldStands
<1>4. CASE PutEntry \/ CopyDone
  <2>1. SameHeaders /\ ItemsKept
    BY <1>0, <1>4, PutDoes, FlashUnchanged, Unchanging DEF KeepsHeaders, ItemsKept
  <2>2. pc \in {"put", "copy"} /\ pc' \in {"put_state", "reclaim"} /\ UNCHANGED ram
    BY <1>4 DEF PutEntry, CopyDone
  <2>3. \A q \in Page : /\ StateOf(q)' = StateOf(q) /\ (HasSeq(q)' <=> HasSeq(q))
                        /\ flash'[q].seq = flash[q].seq
    BY <2>1, StatesSame
  <2>4. ItemsStand
    BY <2>1, <2>3, ItemsKeptStand DEF ItemsKept
  <2>5. \A q \in listed : ~HasSeq(q)' => ~HasSeq(q)
    BY <2>3 DEF IndInv, TypeOK
  <2>6. pc \in InWrite /\ pc' \in InWrite
    BY <2>2 DEF InWrite, InMove
  <2> QED BY <1>0, <2>2, <2>3, <2>4, <2>5, <2>6, OldStands DEF ram
<1> QED BY <1>1, <1>2, <1>3, <1>4

\* Entries stored.
LEMMA OldByEntries ==
  ASSUME IndInv, Regular, ContentInv, op # NoRequest,
         \/ PutEntryState \/ PutData \/ PutDataState \/ (DropOld /\ pc' = pc)
  PROVE  OldTells'
<1>0. OldKnown /\ Layout /\ Pairs /\ Whole /\ Storing
  BY DEF ContentInv
<1>1. CASE PutEntryState
  <2>1. /\ pc = "put_state" /\ pc' \in {"data", "drop"} /\ UNCHANGED ram /\ op.kind = "write"
    BY <1>0, <1>1, PutEntryStateDoes DEF IndInv, PagesInv, Pending
  <2>2. PICK c \in Page, n \in Slot :
           /\ c = Current /\ n = NextFree(c) /\ Stored(c, n) /\ HasSeq(c)
           /\ Data(c, n) = Piece(op.key, op.val, 0)
    BY <1>0, <1>1, PutEntryStateDoes
  <2>3. /\ SameHeaders /\ Heads(c)' = Heads(c) \cup {n} /\ \A t \in Heads(c) : t < n /\ t \in Nat
        /\ \A t \in Heads(c) : Data(c, t)' = Data(c, t)
        /\ \A q \in Page \ {c} : SameItems(q)
    <3>1. Data(c, n).part = 0
      BY <2>2 DEF Piece
    <3> QED BY <2>2, <3>1, HeadAt DEF Stored
  <2>4. Current' = c /\ \A q \in Page : StateOf(q)' = StateOf(q) /\ (HasSeq(q)' <=> HasSeq(q))
    BY <2>1, <2>2, <2>3, StillThere, InUse DEF ram, InCall
  <2>5. NewItem(c, n)'
    <3>1. LastHead(c, n)'
      BY <2>3 DEF LastHead, Slot
    <3> QED BY <2>1, <2>4, <3>1 DEF NewItem, ram
  <2>6. \A s \in Heads(c) : ~NewItem(c, s)'
    BY <2>3 DEF NewItem, LastHead, Slot
  <2>7. ASSUME NEW p \in Page, NEW s PROVE Elder(p, s)' <=> Elder(p, s)
    <3>1. CASE p = c
      <4>1. s \in Heads(c) => (Elder(c, s)' <=> Elder(c, s))
        BY <2>1, <2>3, <2>4, <2>6 DEF Elder, NewItem, ram
      <4>2. s \notin Heads(c) => ~Elder(c, s) /\ ~Elder(c, s)'
        BY <2>3, <2>5 DEF Elder
      <4> QED BY <3>1, <4>1, <4>2
    <3>2. CASE p # c
      BY <2>1, <2>3, <2>4, <3>2 DEF Elder, NewItem, SameItems, ram
    <3> QED BY <3>1, <3>2
  <2>8. \A p \in Page : \A s : Elder(p, s) => s \in Heads(p) /\ s \in Heads(p)'
    BY <2>7 DEF Elder
  <2>9. /\ \A p \in Page : \A s \in Heads(p)' :
             Elder(p, s)' => \E q \in Page : \E t \in Heads(q) : Elder(q, t)
        /\ \A p \in Page : \A s \in Heads(p) :
             Elder(p, s) => \E q \in Page : \E t \in Heads(q)' : Elder(q, t)'
    BY <2>7, <2>8
  <2>10. /\ \A p \in Page : flash'[p].seq = flash[p].seq
         /\ \A p \in listed : p \in Page
    BY <2>3 DEF SameHeaders, IndInv, TypeOK
  <2>11. pc \in InWrite /\ pc' \in InWrite
    BY <2>1 DEF InWrite
  <2> QED BY <1>0, <2>1, <2>4, <2>7, <2>9, <2>10, <2>11, OldStays DEF ram
<1>2. CASE PutData
  <2>1. KeepsHeaders /\ ItemsKept /\ UNCHANGED ram /\ pc = "data" /\ pc' = "data_state"
    BY <1>0, <1>2, PutDoes DEF PutData
  <2>2. ItemsStand
    BY <2>1, StatesSame, ItemsKeptStand DEF ItemsKept
  <2> QED BY <1>0, <2>1, <2>2, OldStandsLate DEF KeepsHeaders, ram
<1>3. CASE PutDataState
  <2>1. PICK c \in Page, n \in Slot : Stored(c, n) /\ Data(c, n).part = 1
    BY <1>0, <1>3, PutDataStateDoes
  <2>2. KeepsHeaders /\ UNCHANGED ram /\ pc = "data_state" /\ pc' = "drop"
    BY <1>0, <1>3, PutDataStateDoes
  <2>3. ASSUME NEW p \in Page
        PROVE  Heads(p)' = Heads(p) /\ (HasSeq(p)' <=> HasSeq(p))
               /\ \A s \in Heads(p) : Data(p, s)' = Data(p, s)
    <3>1. HasSeq(p)' <=> HasSeq(p)
      BY <2>2, StatesSame DEF KeepsHeaders
    <3>2. CASE p = c
      BY <2>1, <3>1, <3>2, HeadAt DEF Stored
    <3>3. CASE p # c
      BY <2>1, <3>1, <3>3 DEF Stored, SameItems
    <3> QED BY <3>2, <3>3
  <2>4. ItemsStand
    BY <2>3 DEF ItemsStand
  <2> QED BY <1>0, <2>2, <2>4, OldStandsLate DEF KeepsHeaders, ram
<1>4. CASE DropOld /\ pc' = pc
  <2>1. PICK p \in Page : \E s \in Heads(p) :
          /\ HasSeq(p) /\ Elder(p, s) /\ ErasedTo(p, s, "return") /\ pc = "drop" /\ UNCHANGED ram
    BY <1>0, <1>4, DropOldDoes
  <2>2. PICK s \in Heads(p) :
          /\ HasSeq(p) /\ Elder(p, s) /\ ErasedTo(p, s, "return") /\ pc = "drop" /\ UNCHANGED ram
    BY <2>1
  <2>3. s \in Heads(p)' /\ Erased(p, s)
    BY <1>4, <2>2 DEF ErasedTo
  <2>4. ASSUME NEW q \in Page
        PROVE  Heads(q)' = Heads(q) /\ (HasSeq(q)' <=> HasSeq(q))
               /\ \A t \in Heads(q) : Data(q, t)' = Data(q, t)
    <3>1. HasSeq(q)' <=> HasSeq(q)
      BY <2>3, StatesSame DEF Erased
    <3>2. CASE q = p
      BY <2>2, <2>3, <3>1, <3>2 DEF Erased
    <3>3. CASE q # p
      BY <2>3, <3>1, <3>3 DEF Erased, SameItems
    <3> QED BY <3>2, <3>3
  <2>5. ItemsStand
    BY <2>4 DEF ItemsStand
  <2> QED BY <1>0, <1>4, <2>2, <2>3, <2>5, OldStandsLate DEF Erased, ram
<1> QED BY <1>1, <1>2, <1>3, <1>4

\* Entries copied, and the page they were copied from erased.
LEMMA OldByCopies ==
  ASSUME IndInv, ContentInv, op # NoRequest, CopyEntry \/ Reclaim
  PROVE  OldTells'
<1>0. OldKnown /\ Layout /\ Pairs /\ Whole /\ Covers /\ CopyInOrder
  BY DEF ContentInv
<1>1. CASE CopyEntry
  <2>1. /\ pc = "copy" /\ pc' = pc /\ UNCHANGED ram /\ KeepsHeaders
        /\ gc \in Page /\ StateOf(gc) = "freeing" /\ HasSeq(gc)
    BY <1>0, <1>1, CopyEntryDoes, MovePages
  <2>2. PICK c \in Page, n \in Slot, m \in Slot :
           /\ c = Current /\ n = NextFree(c) /\ m = Min(ToCopy)
           /\ StateOf(c) = "active" /\ ToCopy # {}
           /\ ItemsKept \/ (Stored(c, n) /\ Data(c, n) = Data(gc, m))
    BY <1>0, <1>1, CopyEntryDoes
  <2>3. HasSeq(c) /\ m \in Written(gc) /\ Data(c, n) = Data(gc, m) => Data(c, n) \in Pieces
    BY <2>1, <2>2, ItemAt DEF Data
  <2>4. \A q \in Page : /\ StateOf(q)' = StateOf(q) /\ (HasSeq(q)' <=> HasSeq(q))
                        /\ flash'[q].seq = flash[q].seq
    BY <2>1, StatesSame DEF KeepsHeaders
  <2>5. pc \in InWrite /\ pc' \in InWrite /\ pc \notin {"data", "data_state", "drop"}
    BY <2>1 DEF InWrite, InMove
  <2>6. \A q \in listed : ~HasSeq(q)' => ~HasSeq(q)
    BY <2>4 DEF IndInv, TypeOK
  <2>7. CASE ItemsStand
    BY <1>0, <2>1, <2>4, <2>5, <2>6, <2>7, OldStands DEF ram
  <2>8. CASE ItemsKept
    BY <2>4, <2>7, <2>8, ItemsKeptStand DEF ItemsKept
  <2>9. CASE Stored(c, n) /\ Data(c, n) = Data(gc, m)
    <3>1. m \in Written(gc) /\ Data(c, n).part \in {0, 1} /\ HasSeq(c)
      BY <2>1, <2>2, <2>9, NextToCopy, ItemAt DEF Data, Pieces, HasSeq
    <3>2. ASSUME NEW q \in Page
          PROVE  /\ Heads(q) \subseteq Heads(q)' /\ \A t \in Heads(q)' : t \in Heads(q) \/ (q = c /\ t = n /\ Data(c, n).part = 0)
                 /\ \A t \in Heads(q)' : Data(q, t)' = Data(q, t)
      <4>1. CASE q = c
        <5>1. Heads(c)' = Heads(c) \/ (Heads(c)' = Heads(c) \cup {n} /\ Data(c, n).part = 0)
          BY <2>9, <3>1 DEF Stored
        <5>2. Heads(c) \subseteq Slot
          BY ItemAt
        <5> QED BY <2>9, <4>1, <5>1, <5>2 DEF Stored
      <4>2. CASE q # c
        BY <2>9, <4>2 DEF Stored, SameItems
      <4> QED BY <4>1, <4>2
    <3>3. ASSUME NEW p \in Page, NEW s \in Heads(p)', Elder(p, s)'
          PROVE  \E q \in Page : \E t \in Heads(q) : Elder(q, t)
      <4>1. HasSeq(p) /\ Data(p, s).key = op.key
        BY <2>1, <2>4, <3>2, <3>3 DEF Elder, ram
      <4>2. CASE s \in Heads(p)
        BY <2>1, <4>1, <4>2 DEF Elder, NewItem
      <4>3. CASE p = c /\ s = n /\ Data(c, n).part = 0
        <5>1. m \in Heads(gc)
          BY <2>9, <3>1, <4>3 DEF Heads, Data
        <5> QED BY <2>1, <2>9, <4>1, <4>3, <5>1 DEF Elder, NewItem
      <4> QED BY <3>2, <4>2, <4>3
    <3>4. ASSUME NEW p \in Page, NEW s \in Heads(p), Elder(p, s) PROVE s \in Heads(p)' /\ Elder(p, s)'
      BY <2>1, <2>4, <3>2, <3>4 DEF Elder, NewItem, ram
    <3>5. \A p \in Page : \A s \in Heads(p) :
            Elder(p, s) => \E q \in Page : \E t \in Heads(q)' : Elder(q, t)'
      BY <3>4
    <3>6. \A p \in Page : \A s : Elder(p, s) => Elder(p, s)'
      BY <3>4 DEF Elder
    <3> QED BY <1>0, <2>1, <2>4, <2>5, <2>6, <3>3, <3>5, <3>6, OldStays DEF ram
  <2> QED BY <2>2, <2>8, <2>9
<1>2. CASE Reclaim
  <2>1. /\ pc = "reclaim" /\ UNCHANGED <<op, old, nextSeq>> /\ pc' = "put"
        /\ gc \in Page /\ StateOf(gc) = "freeing" /\ HasSeq(gc) /\ Current \in Page
        /\ listed' = listed \ {gc}
    BY <1>2, MovePages DEF Reclaim
  <2>2. PICK g \in Page : g = gc
    BY <2>1
  <2>3. PICK c \in Page : c = Current
    BY <2>1
  <2>4. ErasePage(g)
    BY <1>2, <2>2 DEF Reclaim, ErasePage
  <2>5. Gone(g)
    BY <2>4, ErasePageDoes DEF OnePage, Gone, HasSeq, StateOf
  <2>6. \A q \in Page \ {g} : flash'[q] = flash[q]
    BY <2>5 DEF Gone
  <2>7. ASSUME NEW p \in Page, p # g, NEW s PROVE Elder(p, s)' <=> Elder(p, s)
    BY <2>1, <2>6, <2>7, PageSame DEF Elder, NewItem, SameItems
  <2>8. \A s : ~Elder(g, s)'
    BY <2>5 DEF Gone, Elder
  <2>9. ASSUME NEW s \in Heads(g), Elder(g, s)
        PROVE  \E t \in Heads(c)' : Elder(c, t)'
    <3>1. Complete(g, s)
      BY <1>0, <2>1, <2>2, <2>9 DEF Whole, MayBreak, Broken
    <3>2. PICK t \in Heads(c) : Data(c, t) = Data(g, s)
      BY <1>0, <2>1, <2>2, <2>3, <2>9, <3>1 DEF Covers, CoveredBy
    <3>3. StateOf(c) = "active" /\ c # g
      BY <1>0, <2>1, <2>2, <2>3, <2>9 DEF Covers
    <3>4. Elder(c, t)
      BY <2>1, <2>9, <3>2, <3>3 DEF Elder, NewItem, HasSeq
    <3>5. Elder(c, t)'
      BY <2>7, <3>3, <3>4
    <3> QED BY <3>5 DEF Elder
  <2>10. ASSUME NEW p \in Page, NEW s \in Heads(p), Elder(p, s)
         PROVE  \E q \in Page : \E t \in Heads(q)' : Elder(q, t)'
    <3>1. CASE p = g
      BY <2>9, <2>10, <3>1
    <3>2. CASE p # g
      BY <2>7, <2>10, <3>2 DEF Elder
    <3> QED BY <3>1, <3>2
  <2>11. ASSUME NEW p \in Page, NEW s \in Heads(p)', Elder(p, s)'
         PROVE  \E q \in Page : \E t \in Heads(q) : Elder(q, t)
    <3>1. p # g /\ Elder(p, s)
      BY <2>7, <2>8, <2>11
    <3> QED BY <3>1 DEF Elder
  <2>12. ASSUME NEW p \in Page, NEW s \in Slot, StateOf(p)' \in {"active", "full"}
         PROVE  /\ StateOf(p) \in {"active", "full"} /\ flash'[p].seq = flash[p].seq
                /\ Elder(p, s) => Elder(p, s)'
    <3>1. p # g
      BY <2>5, <2>12 DEF Gone, HasSeq
    <3> QED BY <2>6, <2>7, <2>12, <3>1 DEF StateOf
  <2>13. \A q \in listed' : ~HasSeq(q)' => q \in listed /\ ~HasSeq(q)
    <3>0. listed \subseteq Page
      BY DEF IndInv, TypeOK
    <3> QED BY <2>1, <2>2, <2>6, <3>0, PageSame
  <2>14. pc \in InWrite /\ pc' \in InWrite
    BY <2>1 DEF InWrite, InMove
  <2> QED BY <1>0, <2>1, <2>10, <2>11, <2>12, <2>13, <2>14, OldStays
<1> QED BY <1>1, <1>2

\* What a lookup found is the item that the call replaces or erases.
LEMMA OldByLookup ==
  ASSUME IndInv, Regular, ContentInv, op # NoRequest, WriteFind \/ EraseFind
  PROVE  OldTells'
<1>0. pc = "find" /\ pc \notin {"off", "load"} /\ UNCHANGED <<flash, listed, nextSeq, op>>
      /\ op \in Requests /\ listed \subseteq Page /\ nextSeq \in Nat /\ flash \in FlashType
  BY DEF WriteFind, EraseFind, IndInv, TypeOK, FlashType
<1>1. /\ pc' \in {"put", "drop"} /\ op.kind \in {"write", "erase"}
      /\ pc' = "drop" => op.kind = "erase" /\ old' # NoPlace
      /\ op.kind = "erase" => pc' = "drop"
  BY <1>0 DEF WriteFind, EraseFind
<1>2. \E types : AnyType(types) /\ old' = Find(op.key, types)
  <2>1. CASE EraseFind
    BY <2>1, AnyTypes DEF EraseFind
  <2>2. CASE WriteFind
    <3>1. op.val \in Values
      BY <1>0, <2>2 DEF WriteFind, Requests, WriteRequest, EraseRequest, EraseAllRequest, Request
    <3>2. AnyType({TypeOf[op.val]}) /\ AnyType(Types)
      BY <3>1, AnyTypes
    <3> QED BY <2>2, <3>2 DEF WriteFind, Existing
  <2> QED BY <2>1, <2>2
<1>3. PICK types : AnyType(types) /\ old' = Find(op.key, types)
  BY <1>2
<1>4. \A p \in Page : \A s : Elder(p, s)' <=> HasSeq(p) /\ s \in KeyHeads(p, op.key)
  <2>1. \A p \in Page : \A s : /\ HasSeq(p)' <=> HasSeq(p)
                               /\ Heads(p)' = Heads(p) /\ Data(p, s)' = Data(p, s)
    BY <1>0, PageSame DEF SameItems, Data
  <2>2. \A p \in Page : \A s : ~NewItem(p, s)'
    BY <1>0, <1>1 DEF NewItem
  <2> QED BY <1>0, <2>1, <2>2 DEF Elder, KeyHeads, Data
<1>5. CASE old' = NoPlace
  <2>1. \A p \in Page : HasSeq(p) => KeyHeads(p, op.key) = {}
    <3>1. ASSUME NEW p, NEW s, FirstItem(p, s, op.key), Find(op.key, types) # NoPlace PROVE FALSE
      BY <1>3, <1>5, <3>1
    <3> QED BY <1>0, <1>3, <3>1, FindIs
  <2>2. \A p \in Page : \A s \in Heads(p)' : ~Elder(p, s)'
    BY <1>4, <2>1
  <2> QED BY <1>0, <1>1, <1>5, <2>2 DEF OldTells
<1>6. CASE old' # NoPlace
  <2>1. PICK p, s : FirstItem(p, s, op.key) /\ Find(op.key, types) = Place(p, s)
    BY <1>0, <1>3, <1>6, FindIs
  <2>2. /\ p \in Page /\ p \in listed /\ HasSeq(p) /\ s \in KeyHeads(p, op.key)
        /\ s \in Heads(p)
    BY <2>1, KeyHeadAt DEF FirstItem
  <2>3. Elder(p, s)'
    BY <1>4, <2>2
  <2>4. old'.page = p /\ old'.slot = s /\ old'.seq = flash[p].seq /\ old'.type = TypeOf[Data(p, s).val]
    BY <1>3, <2>1, <2>2 DEF Place, SeqOf, TypeAt, Data
  <2>5. Elder(old.page, old.slot)'
    BY <2>3, <2>4 DEF Elder, NewItem, LastHead, Data, CellAt, Heads, Written, HasSeq, StateOf
  <2>6. \E q \in Page : \E t \in Heads(q)' : Elder(q, t)'
    BY <2>2, <2>3 DEF Elder
  <2>7. old'.type \in {TypeOf[v] : v \in Values}
    BY <2>2, <2>4, HeadAt
  <2>8. old'.seq < nextSeq' /\ \A q \in listed' : ~HasSeq(q)' => old'.seq < nextSeq' - 1
    <3>1. flash[p].seq < nextSeq
      BY <2>2 DEF IndInv, PagesInv, Ordered
    <3>2. ASSUME NEW q \in listed', ~HasSeq(q)' PROVE flash[p].seq < nextSeq - 1
      <4>1. q \in listed /\ q \in Page /\ ~HasSeq(q)
        BY <1>0, <3>2 DEF HasSeq, StateOf
      <4>2. p # q
        BY <2>2, <4>1
      <4> QED BY <2>2, <4>1, <4>2 DEF IndInv, PagesInv, Fresh
    <3> QED BY <1>0, <2>4, <3>1, <3>2
  <2>9. OldFound'
    BY <2>5, <2>6, <2>7, <2>8 DEF OldFound
  <2> QED BY <1>0, <1>1, <1>6, <2>9 DEF OldTells
<1> QED BY <1>5, <1>6

LEMMA OldByNothing ==
  ASSUME IndInv, ContentInv, op # NoRequest, UNCHANGED vars, pc \in InWrite
  PROVE  OldTells'
<1>0. OldKnown /\ UNCHANGED <<flash, pc, listed, nextSeq, op, old>>
  BY DEF ContentInv, vars
<1>1. SameHeaders /\ ItemsKept
  BY <1>0, Unchanging DEF ItemsKept
<1>2. \A q \in Page : /\ StateOf(q)' = StateOf(q) /\ (HasSeq(q)' <=> HasSeq(q))
                      /\ flash'[q].seq = flash[q].seq
  BY <1>1, StatesSame
<1>3. ItemsStand
  BY <1>1, <1>2, ItemsKeptStand DEF ItemsKept
<1>4. \A q \in listed : ~HasSeq(q)' => ~HasSeq(q)
  BY <1>2 DEF IndInv, TypeOK
<1>5. CASE pc \in {"data", "data_state", "drop"}
  BY <1>0, <1>1, <1>3, <1>5, OldStandsLate
<1>6. CASE pc \notin {"data", "data_state", "drop"}
  BY <1>0, <1>2, <1>3, <1>4, <1>6, OldStands
<1> QED BY <1>5, <1>6

\* Which steps lead into a write, or stay in it.
LEMMA WriteSteps ==
  ASSUME IndInv, [Next]_vars, pc' \in InWrite, op' # NoRequest
  PROVE  /\ op # NoRequest
         /\ \/ ActivateTarget \/ TakeFreePage \/ PutHeader \/ CopyHeader \/ ClosePage \/ StartFreeing
            \/ PutEntry \/ CopyDone
            \/ PutEntryState \/ PutData \/ PutDataState \/ (DropOld /\ pc' = pc)
            \/ CopyEntry \/ Reclaim \/ WriteFind \/ EraseFind
            \/ (UNCHANGED vars /\ pc \in InWrite)
<1>0. pc \in InMount => op = NoRequest
  BY DEF IndInv, PagesInv, Pending
<1>1. CASE Mounting
  <2>1. pc' \in InMount \cup {"idle", "failed"} \/ (pc' = "activate" /\ op' = NoRequest)
    BY <1>0, <1>1 DEF Mounting, PowerOn, RepairPage, AcceptPage, MountBlank, DropDuplicate, EraseItemStep,
       NoDuplicate, NothingToRecover, DiscardCopy, InMount, ram
  <2> QED BY <2>1 DEF InWrite, InMove, InMount
<1>2. CASE Moving
  BY <1>2 DEF Moving, ActivateTarget, CopyHeader, CopyEntry, CopyDone, Reclaim, InWrite, InMove, Activate, ram
<1>3. CASE Writing
  BY <1>3 DEF Writing, WriteNothing, WriteFind, PutHeader, PutEntry, PutEntryState, PutData, PutDataState,
     ClosePage, StillFull, TakeFreePage, StartFreeing, NoNewPage, Return, InWrite, InMove, Activate, ram
<1>4. CASE Erasing
  BY <1>4 DEF Erasing, DropOld, DropNothing, EraseFind, EraseMissing, Finish, EraseAllStep, EraseAllDone, EraseItemStep,
     Return, InWrite, InMove, ram
<1>5. CASE BeginCall \/ PowerLoss
  BY <1>5 DEF BeginCall, PowerLoss, PowerOff, InWrite, InMove
<1>6. CASE UNCHANGED vars
  BY <1>6 DEF vars
<1> QED BY <1>1, <1>2, <1>3, <1>4, <1>5, <1>6 DEF Next, Step

\* A call runs exactly from its begin to its return.
LEMMA CallsKept ==
  ASSUME IndInv, OldKnown, [Next]_vars
  PROVE  /\ pc' = "idle" => op' = NoRequest
         /\ pc' \in InCall \ {"idle"} => op' # NoRequest
<1>0. /\ pc \in InMount => op = NoRequest
      /\ pc = "idle" => op = NoRequest
      /\ pc \in InCall \ {"idle"} => op # NoRequest
  BY DEF IndInv, PagesInv, Pending, OldKnown
<1>1. CASE Mounting
  BY <1>0, <1>1 DEF Mounting, PowerOn, RepairPage, AcceptPage, MountBlank, DropDuplicate, EraseItemStep,
     NoDuplicate, NothingToRecover, DiscardCopy, InMount, InCall, ram
<1>2. CASE Moving
  BY <1>0, <1>2 DEF Moving, ActivateTarget, CopyHeader, CopyEntry, CopyDone, Reclaim, InCall, Activate, ram
<1>3. CASE Writing
  BY <1>0, <1>3 DEF Writing, WriteNothing, WriteFind, PutHeader, PutEntry, PutEntryState, PutData, PutDataState,
     ClosePage, StillFull, TakeFreePage, StartFreeing, NoNewPage, Return, InCall, Activate, ram
<1>4. CASE Erasing
  BY <1>0, <1>4 DEF Erasing, DropOld, DropNothing, EraseFind, EraseMissing, Finish, EraseAllStep, EraseAllDone, EraseItemStep,
     Return, InCall, ram
<1>5. CASE BeginCall
  <2>1. op' # NoRequest /\ pc' = "find"
    BY <1>5 DEF BeginCall, Requests, NoRequest, WriteRequest, EraseRequest, EraseAllRequest, Request
  <2> QED BY <2>1
<1>6. CASE PowerLoss
  BY <1>6 DEF PowerLoss, PowerOff, InCall
<1>7. CASE UNCHANGED vars
  BY <1>0, <1>7 DEF vars
<1> QED BY <1>1, <1>2, <1>3, <1>4, <1>5, <1>6, <1>7 DEF Next, Step

LEMMA OldKnownKept ==
  ASSUME IndInv, Regular, ContentInv, [Next]_vars
  PROVE  OldKnown'
<1>1. OldKnown
  BY DEF ContentInv
<1>2. ASSUME pc' \in InWrite, op' # NoRequest PROVE OldTells'
  BY <1>2, WriteSteps, OldByPages, OldByEntries, OldByCopies, OldByLookup, OldByNothing
<1>3. OldTells'
  BY <1>2 DEF OldTells
<1> QED BY <1>1, <1>3, CallsKept DEF OldKnown, OldTells

-----------------------------------------------------------------------------
(* The copy follows the page it is made of.                                *)

LEMMA CurrentListed == IndInv /\ listed # {} => Current \in listed
BY CurrentIn

\* The page copied from stays as it is.
LEMMA SourceSame ==
  ASSUME NEW g, gc = g, gc' = g, flash'[g].cell = flash[g].cell
  PROVE  /\ Written(gc)' = Written(gc) /\ \A s : Rank(s)' = Rank(s)
         /\ \A s : Data(gc, s)' = Data(gc, s)
<1>1. Written(g)' = Written(g) /\ \A s : Data(g, s)' = Data(g, s)
  BY DEF Written, Data, CellAt
<1>2. Written(gc)' = Written(g) /\ Written(gc) = Written(g)
  BY DEF Written, CellAt
<1>3. \A s : Data(gc, s)' = Data(g, s)' /\ Data(gc, s) = Data(g, s)
  BY DEF Data, CellAt
<1>4. ASSUME NEW s PROVE Rank(s)' = Rank(s)
  <2>1. {t \in Written(gc)' : t < s} = {t \in Written(gc) : t < s}
    BY <1>1, <1>2
  <2>2. Rank(s)' = Cardinality({t \in Written(gc)' : t < s})
    BY DEF Rank
  <2> QED BY <2>1, <2>2 DEF Rank
<1> QED BY <1>1, <1>2, <1>3, <1>4

LEMMA ToCopySame ==
  ASSUME NEW c, Current = c, Current' = c, NextFree(c)' = NextFree(c),
         Written(gc)' = Written(gc), \A s : Rank(s)' = Rank(s)
  PROVE  ToCopy' = ToCopy
<1>1. Copied' = Copied
  <2>1. NextFree(Current)' = NextFree(c)'
    BY DEF NextFree, CellAt
  <2> QED BY <2>1 DEF Copied
<1>2. ToCopy = {s \in Written(gc) : Rank(s) >= Copied}
  BY DEF ToCopy, Rank
<1>3. ToCopy' = {s \in Written(gc)' : Rank(s)' >= Copied'}
  BY DEF ToCopy, Rank
<1> QED BY <1>1, <1>2, <1>3

LEMMA CopiedToIs ==
  ASSUME NEW c, Current = c, Current' = c, NEW i,
         Written(gc)' = Written(gc), \A s : Rank(s)' = Rank(s), \A s : Data(gc, s)' = Data(gc, s),
         i \in Written(c) => i \in Written(c)', Data(c, i)' = Data(c, i), CopiedTo(i)
  PROVE  CopiedTo(i)'
<1>1. PICK s \in Written(gc) : Rank(s) = i - 1 /\ Data(gc, s) = Data(c, i)
  BY DEF CopiedTo
<1>2. s \in Written(gc)' /\ Rank(s)' = i - 1 /\ Data(gc, s)' = Data(c, i)'
  BY <1>1
<1>3. i \in Written(c)'
  BY DEF CopiedTo
<1>4. Data(Current, i)' = Data(c, i)' /\ Written(Current)' = Written(c)'
  BY DEF Data, CellAt, Written
<1> QED BY <1>2, <1>3, <1>4 DEF CopiedTo

LEMMA CopySteps ==
  ASSUME IndInv, [Next]_vars, pc' = "copy"
  PROVE  ActivateTarget \/ CopyHeader \/ CopyEntry \/ UNCHANGED vars
<1>1. CASE Mounting
  BY <1>1 DEF Mounting, PowerOn, RepairPage, AcceptPage, MountBlank, DropDuplicate, EraseItemStep,
     NoDuplicate, NothingToRecover, DiscardCopy
<1>2. CASE Moving
  BY <1>2 DEF Moving, CopyDone, Reclaim
<1>3. CASE Writing
  BY <1>3 DEF Writing, WriteNothing, WriteFind, PutHeader, PutEntry, PutEntryState, PutData, PutDataState,
     ClosePage, StillFull, TakeFreePage, StartFreeing, NoNewPage, Return
<1>4. CASE Erasing
  BY <1>4 DEF Erasing, DropOld, DropNothing, EraseFind, EraseMissing, Finish, EraseAllStep, EraseAllDone,
     EraseItemStep, Return
<1>5. CASE BeginCall \/ PowerLoss
  BY <1>5 DEF BeginCall, PowerLoss, PowerOff
<1> QED BY <1>1, <1>2, <1>3, <1>4, <1>5 DEF Next, Step

LEMMA CopyInOrderKept ==
  ASSUME IndInv, Regular, ContentInv, [Next]_vars
  PROVE  CopyInOrder'
<1>0. Layout /\ Whole /\ CopyInOrder
  BY DEF ContentInv
<1> SUFFICES ASSUME pc' = "copy", StateOf(Current)' = "active"
             PROVE  CopyInOrder'
  BY DEF CopyInOrder
<1>1. CASE ActivateTarget
  <2>1. Activate
    BY <1>1, TakesPage
  <2>2. PICK p \in Page : /\ ~HasSeq(p)' /\ \A q \in Page \ {p} : flash'[q] = flash[q]
                          /\ listed' = listed \cup {p}
    BY <2>1, ActivateDoes
  <2>3. \A q \in Page : StateOf(q) # "active"
    BY <1>1 DEF ActivateTarget, IndInv, PagesInv, Fresh
  <2>4. \A q \in Page : StateOf(q)' # "active"
    BY <2>2, <2>3 DEF StateOf, HasSeq
  <2>5. IndInv'
    BY Inductive
  <2>6. Current' \in listed'
    <3>1. IndInv' /\ (listed # {})' => (Current \in listed)'
      BY CurrentListed, PTL
    <3> QED BY <2>2, <2>5, <3>1
  <2>7. PICK c \in Page : c = Current'
    BY <2>5, <2>6 DEF IndInv, TypeOK
  <2>8. StateOf(c)' = "active"
    BY <2>7 DEF StateOf
  <2> QED BY <2>4, <2>8
<1>2. CASE CopyHeader
  <2>1. PICK c \in Page : Current' = c /\ Headed(c)
    BY <1>2, HeaderDoes
  <2>2. NextFree(Current)' = 1 /\ \A s \in Slot : Data(Current, s)' = Blank
    <3>1. NextFree(Current)' = NextFree(c)'
      BY <2>1 DEF NextFree, CellAt
    <3>2. \A s \in Slot : Data(c, s)' = Blank
      BY <2>1 DEF Headed, Data, EmptyCell
    <3>3. \A s : Data(Current, s)' = Data(c, s)'
      BY <2>1 DEF Data, CellAt
    <3> QED BY <2>1, <3>1, <3>2, <3>3 DEF Headed
  <2>3. \A i \in Slot : ~ (i < 1)
    BY DEF Slot
  <2>4. 1 \in Slot => Data(Current, NextFree(Current))' = Blank
    BY <2>1, <2>2 DEF Data, CellAt, Headed, NextFree, EmptyCell
  <2> QED BY <2>2, <2>3, <2>4 DEF CopyInOrder
<1>3. CASE CopyEntry
  <2>0. pc = "copy" /\ gc' = gc /\ gc \in Page /\ StateOf(gc) = "freeing"
    BY <1>0, <1>3, CopyEntryDoes, MovePages DEF ram
  <2>g. PICK g \in Page : gc = g /\ gc' = g /\ StateOf(g) = "freeing"
    BY <2>0
  <2>1. PICK c \in Page, n \in Slot, m \in Slot :
           /\ c = Current /\ n = NextFree(c) /\ m = Min(ToCopy) /\ Current' = c
           /\ StateOf(c) = "active" /\ ToCopy # {}
           /\ \/ /\ ItemsKept /\ Data(c, n) = Blank
                 /\ NextFree(c)' = n /\ Data(c, n)' = Data(gc, m)
                 /\ \A t \in Slot : t # n => CellAt(c, t)' = CellAt(c, t)
                 /\ \A q \in Page \ {c} : flash'[q].cell = flash[q].cell
              \/ Stored(c, n) /\ Data(c, n) = Data(gc, m)
    BY <1>0, <1>3, CopyEntryDoes
  <2>2. flash'[g].cell = flash[g].cell
    BY <2>g, <2>1 DEF Stored
  <2>3. /\ Written(gc)' = Written(gc) /\ \A s : Rank(s)' = Rank(s)
        /\ \A s : Data(gc, s)' = Data(gc, s)
    BY <2>g, <2>2, SourceSame
  <2>4. /\ \A i \in Slot : i < n => CopiedTo(i)
        /\ \A i \in Slot : n < i => Data(c, i) = Blank
        /\ m \in Written(gc) /\ Rank(m) = n - 1 /\ n \in Nat
    BY <1>0, <2>0, <2>1, NextToCopy DEF CopyInOrder, Slot
  <2>5. NextFree(Current)' = NextFree(c)' /\ \A s : Data(Current, s)' = Data(c, s)'
    BY <2>1 DEF NextFree, Data, CellAt
  <2>6. CASE /\ Data(c, n) = Blank
             /\ NextFree(c)' = n /\ Data(c, n)' = Data(gc, m)
             /\ \A t \in Slot : t # n => CellAt(c, t)' = CellAt(c, t)
    <3>1. ToCopy' = ToCopy
      BY <2>1, <2>3, <2>6, ToCopySame
    <3>2. ASSUME NEW i \in Slot, i < n PROVE CopiedTo(i)'
      <4>1. CellAt(c, i)' = CellAt(c, i)
        BY <2>4, <2>6, <3>2
      <4>2. Data(c, i)' = Data(c, i) /\ (i \in Written(c) => i \in Written(c)')
        BY <4>1 DEF Data, Written
      <4> QED BY <2>1, <2>3, <2>4, <3>2, <4>2, CopiedToIs
    <3>3. ASSUME NEW i \in Slot, n < i PROVE Data(c, i)' = Blank
      <4>1. CellAt(c, i)' = CellAt(c, i)
        BY <2>4, <2>6, <3>3
      <4> QED BY <2>4, <3>3, <4>1 DEF Data
    <3>4. Data(Current, NextFree(Current))' = Data(c, n)' /\ Data(gc, Min(ToCopy))' = Data(gc, m)'
      BY <2>1, <2>6, <2>5, <3>1 DEF Data, CellAt
    <3> QED BY <2>1, <2>3, <2>5, <2>6, <3>1, <3>2, <3>3, <3>4 DEF CopyInOrder
  <2>7. CASE Stored(c, n) /\ Data(c, n) = Data(gc, m)
    <3>1. /\ \A t \in Slot : Data(c, t)' = Data(c, t)
          /\ Written(c)' = Written(c) \cup {n} /\ NextFree(c)' = n + 1
      BY <2>7 DEF Stored
    <3>2. ASSUME NEW i \in Slot, i < n + 1 PROVE CopiedTo(i)'
      <4>1. CASE i < n
        BY <2>1, <2>3, <2>4, <3>1, <4>1, CopiedToIs
      <4>2. CASE i = n
        <5>1. m \in Written(gc)' /\ Rank(m)' = n - 1 /\ Data(gc, m)' = Data(c, n)'
          BY <2>3, <2>4, <2>7, <3>1
        <5>2. n \in Written(Current)' /\ Data(Current, n)' = Data(c, n)'
          BY <2>1, <3>1 DEF Written, Data, CellAt
        <5> QED BY <4>2, <5>1, <5>2 DEF CopiedTo
      <4> QED BY <2>4, <3>2, <4>1, <4>2 DEF Slot
    <3>3. ASSUME NEW i \in Slot, n < i PROVE Data(c, i)' = Blank
      BY <2>4, <3>1, <3>3
    <3>4. \A i \in Slot : n + 1 < i => Data(Current, i)' = Blank
      BY <2>4, <2>5, <3>3 DEF Slot
    <3>5. n + 1 \in Slot => Data(Current, NextFree(Current))' = Blank
      <4>1. Data(Current, NextFree(Current))' = Data(c, n + 1)'
        BY <2>1, <2>5, <3>1 DEF Data, CellAt
      <4> QED BY <2>4, <3>3, <4>1
    <3> QED BY <2>5, <3>1, <3>2, <3>4, <3>5 DEF CopyInOrder
  <2> QED BY <2>1, <2>6, <2>7
<1>4. CASE UNCHANGED vars
  <2>0. pc = "copy" /\ UNCHANGED <<flash, listed, nextSeq, gc>>
    BY <1>4 DEF vars
  <2>g. PICK g : gc = g /\ gc' = g
    BY <2>0
  <2>c. PICK c \in Page : c = Current
    BY <2>0, MovePages
  <2>1. Current' = c
    BY <2>0, <2>c, Unchanging, StillThere, InUse DEF ItemsKept
  <2>2. /\ NextFree(c)' = NextFree(c) /\ StateOf(c)' = StateOf(c)
        /\ \A s : CellAt(c, s)' = CellAt(c, s)
    BY <2>0, PageSame
  <2>3. Written(c)' = Written(c) /\ \A s : Data(c, s)' = Data(c, s)
    BY <2>2 DEF Written, Data
  <2>4. /\ Written(gc)' = Written(gc) /\ \A s : Rank(s)' = Rank(s)
        /\ \A s : Data(gc, s)' = Data(gc, s)
    BY <2>0, <2>g, SourceSame
  <2>5. ToCopy' = ToCopy
    BY <2>c, <2>1, <2>2, <2>4, ToCopySame
  <2>6. StateOf(Current)' = StateOf(c)
    BY <2>1, <2>2 DEF StateOf
  <2>n. PICK n : n = NextFree(c)
    OBVIOUS
  <2>7. NextFree(Current)' = n /\ \A s : Data(Current, s)' = Data(c, s)
    BY <2>1, <2>2, <2>3, <2>n DEF NextFree, Data, CellAt
  <2>8. \A i : CopiedTo(i) => CopiedTo(i)'
    BY <2>c, <2>1, <2>3, <2>4, CopiedToIs
  <2>m. PICK m : m = Min(ToCopy)
    OBVIOUS
  <2>9. Data(Current, NextFree(Current))' = Data(c, n) /\ Data(gc, Min(ToCopy))' = Data(gc, m)
    BY <2>0, <2>1, <2>3, <2>5, <2>7, <2>m DEF Data, CellAt
  <2> QED BY <1>0, <2>0, <2>5, <2>6, <2>7, <2>8, <2>9, <2>c, <2>m, <2>n DEF CopyInOrder
<1> QED BY <1>1, <1>2, <1>3, <1>4, CopySteps

-----------------------------------------------------------------------------
(* What the mount leaves on the pages it has read.                         *)

LEMMA SoundPage ==
  ASSUME IndInv, NEW p \in Page, HasSeq(p), Repairs(p) = {}
  PROVE  Broken(p) = {} /\ (StateOf(p) = "active" => \A s \in Heads(p) : Shadowed(p, s) = {})
<1> DEFINE faulty == {s \in Heads(p) : s \in Broken(p) \/ (StateOf(p) = "active" /\ Shadowed(p, s) # {})}
<1>1. Repairs(p) = IF StateOf(p) = "active" /\ HalfWritten(p) # {} THEN HalfWritten(p)
                   ELSE IF ~HasSeq(p) \/ faulty = {} THEN {}
                   ELSE IF Min(faulty) \in Broken(p) THEN ItemSlots(p, Min(faulty))
                   ELSE ItemSlots(p, Min(Shadowed(p, Min(faulty))))
  BY DEF Repairs
<1>2. \A s \in Heads(p) : ItemSlots(p, s) # {}
  BY ItemSlotsAre
<1>3. ASSUME faulty # {} PROVE FALSE
  <2>1. Min(faulty) \in faulty
    <3>1. faulty \subseteq Nat
      BY HeadAt
    <3> HIDE DEF faulty
    <3> QED BY <1>3, <3>1, MinOfNaturals
  <2>2. PICK s \in Heads(p) : s = Min(faulty) /\ (s \in Broken(p) \/ (StateOf(p) = "active" /\ Shadowed(p, s) # {}))
    BY <2>1
  <2> HIDE DEF faulty
  <2>3. CASE s \in Broken(p)
    BY <1>1, <1>2, <1>3, <2>2, <2>3
  <2>4. CASE s \notin Broken(p)
    <3>1. Shadowed(p, s) # {} /\ Shadowed(p, s) \subseteq Heads(p) /\ Shadowed(p, s) \subseteq Nat
      BY <2>2, <2>4, HeadAt DEF Shadowed
    <3>2. Min(Shadowed(p, s)) \in Shadowed(p, s)
      BY <3>1, MinOfNaturals
    <3>3. Min(Shadowed(p, s)) \in Heads(p)
      BY <3>1, <3>2
    <3> QED BY <1>1, <1>2, <1>3, <2>2, <2>4, <3>3
  <2> QED BY <2>3, <2>4
<1>4. faulty = {}
  BY <1>3
<1>5. Broken(p) = {}
  BY <1>4 DEF Broken
<1> QED BY <1>4, <1>5

LEMMA ScanSteps ==
  ASSUME IndInv, [Next]_vars, pc' \in {"load", "dup"}
  PROVE  PowerOn \/ RepairPage \/ AcceptPage \/ (DropDuplicate /\ pc' = pc) \/ UNCHANGED vars
<1>1. CASE Mounting
  BY <1>1 DEF Mounting, MountBlank, DropDuplicate, EraseItemStep,
     NoDuplicate, NothingToRecover, DiscardCopy
<1>2. CASE Moving
  BY <1>2 DEF Moving, ActivateTarget, CopyHeader, CopyEntry, CopyDone, Reclaim
<1>3. CASE Writing
  BY <1>3 DEF Writing, WriteNothing, WriteFind, PutHeader, PutEntry, PutEntryState, PutData, PutDataState,
     ClosePage, StillFull, TakeFreePage, StartFreeing, NoNewPage, Return
<1>4. CASE Erasing
  BY <1>4 DEF Erasing, DropOld, DropNothing, EraseFind, EraseMissing, Finish, EraseAllStep, EraseAllDone,
     EraseItemStep, Return
<1>5. CASE BeginCall \/ PowerLoss
  BY <1>5 DEF BeginCall, PowerLoss, PowerOff
<1> QED BY <1>1, <1>2, <1>3, <1>4, <1>5 DEF Next, Step

LEMMA ScannedKept ==
  ASSUME IndInv, Regular, ContentInv, [Next]_vars
  PROVE  Scanned'
<1>0. Layout /\ Scanned /\ listed \subseteq Page
  BY DEF ContentInv, IndInv, TypeOK
<1> SUFFICES ASSUME pc' \in {"load", "dup"}, NEW p \in listed', StateOf(p)' = "active", NEW s \in Heads(p)'
             PROVE  Shadowed(p, s)' = {}
  BY DEF Scanned
<1>1. FewerItems
  <2>1. CASE PowerOn \/ AcceptPage \/ UNCHANGED vars
    BY <2>1, FlashUnchanged, Unchanging, KeptAreFewer
  <2>2. CASE RepairPage
    BY <1>0, <2>2, RepairDoes
  <2>3. CASE DropDuplicate
    BY <1>0, <2>3, DropDuplicateDoes, ErasedAreFewer DEF ErasedTo
  <2> QED BY <2>1, <2>2, <2>3, ScanSteps
<1>2. listed' \subseteq Page /\ \A q \in listed' : q \in listed \/ (AcceptPage /\ q = scan /\ HasSeq(scan))
  BY <1>0, ScanSteps DEF PowerOn, RepairPage, AcceptPage, DropDuplicate, vars, ram
<1>3. /\ p \in Page /\ StateOf(p) = "active" /\ s \in Heads(p) /\ Heads(p)' \subseteq Heads(p)
      /\ \A t \in Heads(p)' : Data(p, t)' = Data(p, t)
  BY <1>1, <1>2 DEF FewerItems, HasSeq
<1>4. Shadowed(p, s)' \subseteq Shadowed(p, s)
  BY <1>3 DEF Shadowed, Data
<1>5. CASE p \in listed
  <2>1. pc \in {"load", "dup"}
    <3>1. pc # "off"
      BY <1>5 DEF IndInv, PagesInv, Listing
    <3> QED BY <3>1, ScanSteps DEF PowerOn, RepairPage, AcceptPage, DropDuplicate, vars
  <2> QED BY <1>0, <1>3, <1>4, <1>5, <2>1 DEF Scanned
<1>6. CASE AcceptPage /\ p = scan
  <2>1. Repairs(p) = {} /\ HasSeq(p)
    BY <1>3, <1>6 DEF AcceptPage, HasSeq
  <2> QED BY <1>3, <1>4, <2>1, SoundPage
<1> QED BY <1>2, <1>5, <1>6

-----------------------------------------------------------------------------
(* What is copied, and that all of it is in the end.                       *)

\* The page being moved has no broken item.
LEMMA SourceWhole ==
  ASSUME IndInv, Whole, pc = "copy", NEW s \in Heads(gc), gc # Current
  PROVE  Complete(gc, s)
BY MovePages DEF Whole, MayBreak, Broken

LEMMA CopyOf ==
  ASSUME IndInv, Layout, Whole, CopyInOrder, pc = "copy", NEW c \in Page, c = Current,
         StateOf(c) = "active", NEW t \in Heads(c)
  PROVE  \E s \in Heads(gc) : Complete(gc, s) /\ Data(gc, s) = Data(c, t) /\ Rank(s) = t - 1
<1>1. gc \in Page /\ gc # c /\ StateOf(gc) = "freeing" /\ HasSeq(c) /\ InOrder(c)
  BY MovePages DEF Layout, HasSeq
<1>2. t \in Slot /\ t \in Written(c) /\ Data(c, t).part = 0
  BY HeadAt
<1>3. t < NextFree(c)
  BY <1>1, <1>2, NextFreeIs
<1>4. PICK s \in Written(gc) : Rank(s) = t - 1 /\ Data(gc, s) = Data(c, t)
  BY <1>2, <1>3 DEF CopyInOrder, CopiedTo
<1>5. s \in Heads(gc)
  BY <1>2, <1>4 DEF Heads, Data
<1> QED BY <1>1, <1>4, <1>5, SourceWhole

LEMMA AllCopied ==
  ASSUME IndInv, Layout, Whole, CopyInOrder, pc = "copy", NEW c \in Page, c = Current,
         StateOf(c) = "active", ToCopy = {}, NEW s \in Heads(gc)
  PROVE  /\ Rank(s) + 1 \in Heads(c) /\ Data(c, Rank(s) + 1) = Data(gc, s)
         /\ Complete(c, Rank(s) + 1)
<1>1. gc \in Page /\ gc # c /\ StateOf(gc) = "freeing" /\ HasSeq(gc)
  BY MovePages
<1>n. PICK n : n = NextFree(c) /\ n \in 1 .. (EntryCount + 1)
  BY NextFreeIs
<1>2. \A u \in Written(gc) : Rank(u) \in Nat /\ Rank(u) < n - 1
  <2>1. ASSUME NEW u \in Written(gc) PROVE Rank(u) \in Nat /\ Rank(u) < n - 1
    <3>1. u \in Nat
      BY DEF Written, Slot
    <3>2. Rank(u) \in Nat
      BY <1>1, <3>1, RankIs
    <3>3. ~ (Rank(u) >= n - 1)
      BY <1>n DEF ToCopy, Copied, Rank
    <3> QED BY <1>n, <3>2, <3>3
  <2> QED BY <2>1
<1>3. ASSUME NEW u \in Written(gc)
      PROVE  Rank(u) + 1 \in Written(c) /\ Data(c, Rank(u) + 1) = Data(gc, u)
  <2>1. PICK i : i = Rank(u) + 1
    OBVIOUS
  <2>2. i \in Slot /\ i < n /\ Rank(u) = i - 1
    BY <1>2, <1>n, <2>1, SizeAssumption DEF Slot
  <2>3. PICK v \in Written(gc) : Rank(v) = i - 1 /\ Data(gc, v) = Data(c, i)
    BY <1>n, <2>2 DEF CopyInOrder, CopiedTo
  <2>4. v = u
    BY <1>1, <2>2, <2>3, RankTells
  <2>5. i \in Written(c)
    BY <1>n, <2>2 DEF CopyInOrder, CopiedTo
  <2> QED BY <2>1, <2>3, <2>4, <2>5
<1>4. s \in Written(gc) /\ Data(gc, s).part = 0 /\ Span[Data(gc, s).val] \in {1, 2}
  BY <1>1, HeadAt
<1>5. PICK i : i = Rank(s) + 1 /\ i \in Nat
  BY <1>2, <1>4
<1>6. i \in Written(c) /\ Data(c, i) = Data(gc, s)
  BY <1>3, <1>4, <1>5
<1>7. i \in Heads(c)
  BY <1>4, <1>6 DEF Heads, Data
<1>8. ASSUME Span[Data(gc, s).val] = 2 PROVE i + 1 \in Written(c)
  <2>1. Complete(gc, s)
    BY <1>1, SourceWhole
  <2>2. s + 1 \in Written(gc)
    BY <1>1, <1>8, <2>1, HeadAt
  <2>3. Rank(s + 1) = Rank(s) + 1
    BY <1>1, <1>4, <2>2, RankNext
  <2>4. Rank(s + 1) + 1 = i + 1
    BY <1>5, <2>3
  <2> QED BY <1>3, <2>2, <2>4
<1>9. Complete(c, i)
  BY <1>6, <1>7, <1>8, HeadAt
<1> QED BY <1>5, <1>6, <1>7, <1>9

LEMMA CopyWhole ==
  ASSUME IndInv, Layout, Whole, CopyInOrder, pc = "copy", NEW c \in Page, c = Current,
         StateOf(c) = "active", ToCopy = {}
  PROVE  Broken(c) = {} /\ CoveredBy(gc, c)
<1>1. ASSUME NEW t \in Heads(c) PROVE Complete(c, t)
  <2>1. PICK s \in Heads(gc) : Rank(s) = t - 1
    BY CopyOf
  <2>2. Rank(s) + 1 = t
    BY <2>1, HeadAt
  <2> QED BY <2>2, AllCopied
<1>2. CoveredBy(gc, c)
  BY AllCopied DEF CoveredBy
<1> QED BY <1>1, <1>2 DEF Broken

LEMMA CoversErased ==
  ASSUME NEW p \in Page, NEW s \in Heads(p), Erased(p, s), StateOf(p) = "freeing" => s \in Broken(p),
         NEW g \in Page, NEW a \in Page, StateOf(g)' = "freeing", StateOf(a)' = "active",
         StateOf(g) = "freeing" /\ StateOf(a) = "active" => CoveredBy(a, g)
  PROVE  CoveredBy(a, g)'
<1>1. StateOf(g) = "freeing" /\ StateOf(a) = "active" /\ CoveredBy(a, g)
  BY StatesSame DEF Erased
<1> SUFFICES ASSUME NEW t \in Heads(a)', Complete(a, t)'
             PROVE  \E u \in Heads(g)' : Complete(g, u)' /\ Data(g, u)' = Data(a, t)'
  BY DEF CoveredBy
<1>2. t \in Heads(a) /\ Complete(a, t) /\ Data(a, t)' = Data(a, t)
  <2>1. CASE a = p
    BY <2>1 DEF Erased
  <2>2. CASE a # p
    BY <2>2 DEF Erased, SameItems
  <2> QED BY <2>1, <2>2
<1>3. PICK u \in Heads(g) : Complete(g, u) /\ Data(g, u) = Data(a, t)
  BY <1>1, <1>2 DEF CoveredBy
<1>4. u \in Heads(g)' /\ Complete(g, u)' /\ Data(g, u)' = Data(g, u)
  <2>1. CASE g = p
    <3>1. u # s
      BY <1>1, <1>3, <2>1 DEF Broken
    <3> QED BY <1>3, <2>1, <3>1 DEF Erased
  <2>2. CASE g # p
    BY <1>3, <2>2 DEF Erased, SameItems
  <2> QED BY <2>1, <2>2
<1> QED BY <1>2, <1>3, <1>4

LEMMA CoversStands ==
  ASSUME NEW g \in Page, NEW a \in Page, SameItems(g), SameItems(a), CoveredBy(a, g)
  PROVE  CoveredBy(a, g)'
BY DEF SameItems, CoveredBy

LEMMA CoversCopied ==
  ASSUME IndInv, ContentInv, CopyEntry,
         NEW g \in Page, NEW a \in Page, StateOf(g)' = "freeing", StateOf(a)' = "active"
  PROVE  CoveredBy(a, g)'
<1>0. Layout /\ Whole /\ Covers /\ CopyInOrder
  BY DEF ContentInv
<1>1. PICK c \in Page, n \in Slot, m \in Slot :
         /\ c = Current /\ n = NextFree(c) /\ m = Min(ToCopy)
         /\ StateOf(c) = "active" /\ ToCopy # {}
         /\ ItemsKept \/ (Stored(c, n) /\ Data(c, n) = Data(gc, m))
  BY <1>0, CopyEntryDoes
<1>2. /\ pc = "copy" /\ SameHeaders /\ gc \in Page /\ StateOf(gc) = "freeing"
  BY <1>0, CopyEntryDoes, MovePages DEF KeepsHeaders
<1>3. StateOf(g) = "freeing" /\ StateOf(a) = "active" /\ CoveredBy(a, g)
  BY <1>0, <1>2, StatesSame DEF Covers
<1>4. g = gc /\ a = c /\ g # c
  BY <1>1, <1>2, <1>3, OnlyCurrentActive DEF IndInv, PagesInv, Spare
<1>5. CASE ItemsKept
  BY <1>3, <1>5, CoversStands DEF ItemsKept
<1>6. CASE Stored(c, n) /\ Data(c, n) = Data(gc, m)
  <2>1. SameItems(g) /\ m \in Written(gc) /\ Data(c, n) \in Pieces
    BY <1>1, <1>2, <1>4, <1>6, NextToCopy, ItemAt DEF Stored, Data
  <2>2. ASSUME NEW t \in Heads(a)' PROVE \E u \in Heads(g) : Complete(g, u) /\ Data(g, u) = Data(a, t)'
    <3>1. CASE t \in Heads(c)
      <4>1. t \in Slot
        BY <3>1, ItemAt
      <4>2. Data(c, t)' = Data(c, t)
        BY <1>6, <4>1 DEF Stored
      <4> QED BY <1>0, <1>1, <1>2, <1>4, <3>1, <4>2, CopyOf
    <3>2. CASE t \notin Heads(c)
      <4>1. t = n /\ Data(c, n).part = 0
        BY <1>4, <1>6, <2>1, <2>2, <3>2 DEF Stored, Pieces
      <4>2. m \in Heads(gc)
        BY <1>6, <2>1, <4>1 DEF Heads, Data
      <4>3. Complete(gc, m)
        BY <1>0, <1>1, <1>2, <1>4, <4>2, SourceWhole
      <4>4. Data(c, n)' = Data(c, n)
        BY <1>6 DEF Stored
      <4> QED BY <1>4, <1>6, <4>1, <4>2, <4>3, <4>4
    <3> QED BY <3>1, <3>2
  <2>3. ASSUME NEW t \in Heads(a)'
        PROVE  \E u \in Heads(g)' : Complete(g, u)' /\ Data(g, u)' = Data(a, t)'
    <3>1. PICK u \in Heads(g) : Complete(g, u) /\ Data(g, u) = Data(a, t)'
      BY <2>2
    <3> QED BY <2>1, <3>1 DEF SameItems
  <2> QED BY <2>3 DEF CoveredBy
<1> QED BY <1>1, <1>5, <1>6

AllCovered ==
  \A g, c \in Page :
    CoveredBy(g, c) /\ (Heads(g) # {} => StateOf(c) = "active") /\ gc = g /\ Current = c
    => CoveredBy(gc, Current) /\ (Heads(gc) # {} => StateOf(Current) = "active")

LEMMA AllCoveredIs == AllCovered
BY DEF AllCovered

LEMMA CoversKept ==
  ASSUME IndInv, Regular, ContentInv, [Next]_vars
  PROVE  Covers'
<1>0. Layout /\ Pairs /\ Whole /\ Storing /\ OldKnown /\ CopyInOrder /\ Covers
  BY DEF ContentInv
<1>c. pc \in InCall => \A q \in Page : StateOf(q) # "freeing"
  BY DEF IndInv, PagesInv, Spare
<1>1. ASSUME NEW g \in Page, NEW a \in Page, StateOf(g)' = "freeing", StateOf(a)' = "active"
      PROVE  CoveredBy(a, g)'
  <2>0. StateOf(g) = "freeing" /\ StateOf(a) = "active" => CoveredBy(a, g)
    BY <1>0 DEF Covers
  <2>h. HasSeq(a)' /\ HasSeq(g)' /\ a # g
    BY <1>1 DEF HasSeq
  <2>1. CASE UNCHANGED flash
    <3>1. ItemsKept
      BY <2>1, Unchanging
    <3> QED BY <1>1, <2>0, <3>1, StatesSame, CoversStands DEF ItemsKept
  <2>2. CASE \E p \in Page : Gone(p)
    <3>1. flash'[a] = flash[a] /\ flash'[g] = flash[g]
      BY <2>2, <2>h DEF Gone
    <3> QED BY <1>1, <2>0, <3>1, PageSame, CoversStands
  <2>3. CASE PutHeader \/ CopyHeader
    <3>1. PICK c \in Page : Headed(c)
      BY <2>3, HeaderDoes
    <3>2. CASE a = c
      BY <3>1, <3>2 DEF Headed, CoveredBy
    <3>3. CASE a # c
      <4>1. g # c
        BY <1>1, <3>1 DEF Headed
      <4>2. flash'[a] = flash[a] /\ flash'[g] = flash[g]
        BY <3>1, <3>3, <4>1 DEF Headed
      <4> QED BY <1>1, <2>0, <4>2, PageSame, CoversStands
    <3> QED BY <3>2, <3>3
  <2>4. CASE ClosePage
    <3>1. PICK c \in Page : Restated(c, "full")
      BY <2>4, ClosePageDoes
    <3>2. StateOf(g) = "freeing" /\ pc \in InCall
      BY <1>1, <2>4, <3>1, ClosePageDoes DEF Restated, InCall
    <3> QED BY <1>c, <3>2
  <2>5. CASE StartFreeing
    <3>1. PICK c \in Page : Restated(c, "freeing")
      BY <2>5, StartFreeingDoes
    <3>2. StateOf(a) = "active" /\ pc = "new_page"
      BY <1>1, <2>5, <3>1, StartFreeingDoes DEF Restated
    <3> QED BY <3>2 DEF IndInv, PagesInv, Fresh
  <2>6. CASE PutEntry \/ PutData \/ PutEntryState \/ PutDataState \/ DropOld \/ EraseAllStep
    <3>1. pc \in InCall
      BY <2>6 DEF PutEntry, PutData, PutEntryState, PutDataState, DropOld, EraseAllStep, InCall
    <3>2. SameHeaders \/ UNCHANGED flash
      <4>1. CASE PutEntry \/ PutData \/ PutEntryState \/ PutDataState
        BY <1>0, <4>1, PutDoes, PutEntryStateDoes, PutDataStateDoes DEF KeepsHeaders
      <4>2. CASE DropOld
        BY <1>0, <4>2, DropOldDoes DEF ErasedTo, Erased
      <4>3. CASE EraseAllStep
        BY <1>0, <4>3, EraseAllStepDoes DEF ErasedTo, Erased
      <4> QED BY <2>6, <4>1, <4>2, <4>3
    <3>3. SameHeaders
      BY <3>2, Unchanging DEF ItemsKept
    <3>4. StateOf(g) = "freeing"
      BY <1>1, <3>3, StatesSame
    <3> QED BY <1>c, <3>1, <3>4
  <2>7. CASE CopyEntry
    BY <1>1, <2>7, CoversCopied
  <2>8. CASE RepairPage
    <3>1. CASE ItemsKept
      BY <1>1, <2>0, <3>1, StatesSame, CoversStands DEF ItemsKept
    <3>2. CASE ~ItemsKept
      <4>1. PICK p \in Page : \E s \in Heads(p) :
              Erased(p, s) /\ (s \in Broken(p) \/ StateOf(p) = "active")
        BY <1>0, <2>8, <3>2, RepairDoes
      <4>2. PICK s \in Heads(p) : Erased(p, s) /\ (s \in Broken(p) \/ StateOf(p) = "active")
        BY <4>1
      <4>3. StateOf(p) = "freeing" => s \in Broken(p)
        BY <4>2
      <4> QED BY <1>1, <2>0, <4>2, <4>3, CoversErased
    <3> QED BY <3>1, <3>2
  <2>9. CASE DropDuplicate
    <3>1. PICK p \in Page : \E s \in KeyHeads(p, LastItem(Current).key) :
           /\ p \in Superseded /\ ErasedTo(p, s, "recover") /\ pc = "dup" /\ listed # {}
      BY <1>0, <2>9, DropDuplicateDoes
    <3>2. PICK s \in KeyHeads(p, LastItem(Current).key) :
           /\ p \in Superseded /\ ErasedTo(p, s, "recover") /\ pc = "dup" /\ listed # {}
      BY <3>1
    <3>3. s \in Heads(p) /\ Erased(p, s) /\ StateOf(p) # "freeing"
      BY <3>2, KeyHeadAt, SupersededAre DEF ErasedTo
    <3> QED BY <1>1, <2>0, <3>3, CoversErased
  <2>10. CASE DiscardCopy /\ ~MustDiscard
    BY <2>1, <2>10 DEF DiscardCopy
  <2>11. CASE UNCHANGED vars
    BY <2>1, <2>11, FlashUnchanged
  <2>12. CASE Next
    <3>1. CASE Mounting
      BY <2>1, <2>2, <2>8, <2>9, <2>10, <3>1, FlashUnchanged, GivesUpPage DEF Mounting
    <3>2. CASE Moving
      BY <2>1, <2>2, <2>3, <2>7, <3>2, FlashUnchanged, GivesUpPage DEF Moving
    <3>3. CASE Writing
      BY <2>1, <2>2, <2>3, <2>4, <2>5, <2>6, <3>3, FlashUnchanged, GivesUpPage DEF Writing
    <3>4. CASE Erasing
      BY <2>1, <2>6, <3>4, FlashUnchanged DEF Erasing
    <3>5. CASE BeginCall \/ PowerLoss
      BY <2>1, <2>2, <3>5, FlashUnchanged, GivesUpPage
    <3> QED BY <2>12, <3>1, <3>2, <3>3, <3>4, <3>5 DEF Next, Step
  <2> QED BY <2>11, <2>12
<1>2. ASSUME pc' = "reclaim"
      PROVE  CoveredBy(gc, Current)' /\ (Heads(gc)' # {} => StateOf(Current)' = "active")
  <2>0. pc \in {"copy", "reclaim"} /\ UNCHANGED <<flash, listed, nextSeq, gc>>
        /\ (pc = "copy" => Written(gc) = {} \/ (StateOf(Current) = "active" /\ ToCopy = {}))
    <3>1. CASE Mounting
      BY <1>2, <3>1 DEF Mounting, PowerOn, RepairPage, AcceptPage, MountBlank, DropDuplicate, EraseItemStep,
         NoDuplicate, NothingToRecover, DiscardCopy
    <3>2. CASE Moving
      BY <1>2, <3>2 DEF Moving, ActivateTarget, CopyHeader, CopyEntry, CopyDone, Reclaim, ram
    <3>3. CASE Writing
      BY <1>2, <3>3 DEF Writing, WriteNothing, WriteFind, PutHeader, PutEntry, PutEntryState, PutData, PutDataState,
         ClosePage, StillFull, TakeFreePage, StartFreeing, NoNewPage, Return
    <3>4. CASE Erasing
      BY <1>2, <3>4 DEF Erasing, DropOld, DropNothing, EraseFind, EraseMissing, Finish, EraseAllStep, EraseAllDone,
         EraseItemStep, Return
    <3>5. CASE BeginCall \/ PowerLoss
      BY <1>2, <3>5 DEF BeginCall, PowerLoss, PowerOff
    <3>6. CASE UNCHANGED vars
      BY <1>2, <3>6 DEF vars
    <3> QED BY <3>1, <3>2, <3>3, <3>4, <3>5, <3>6 DEF Next, Step
  <2>1. PICK c \in Page : c = Current
    BY <2>0, MovePages
  <2>2. PICK g \in Page : g = gc
    BY <2>0, MovePages
  <2>3. SameHeaders /\ (\A q \in Page : SameItems(q)) /\ Current' = c /\ gc' = g
    <3>1. SameHeaders /\ \A q \in Page : SameItems(q)
      BY <2>0, Unchanging DEF ItemsKept
    <3>2. listed # {}
      BY <2>0, InUse
    <3> QED BY <2>0, <2>1, <2>2, <3>1, <3>2, StillThere
  <2>4. CoveredBy(g, c) /\ (Heads(g) # {} => StateOf(c) = "active")
    <3>1. CASE pc = "reclaim"
      BY <1>0, <2>1, <2>2, <3>1 DEF Covers
    <3>2. CASE pc = "copy" /\ Written(gc) = {}
      BY <2>2, <3>2 DEF Heads, CoveredBy
    <3>3. CASE pc = "copy" /\ StateOf(Current) = "active" /\ ToCopy = {}
      BY <1>0, <2>1, <2>2, <3>3, CopyWhole
    <3> QED BY <2>0, <3>1, <3>2, <3>3
  <2>5. CoveredBy(g, c)' /\ (Heads(g)' # {} => StateOf(c)' = "active")
    <3>1. CoveredBy(g, c)'
      BY <2>3, <2>4, CoversStands
    <3> QED BY <2>3, <2>4, <3>1, StatesSame DEF SameItems
  <2>6. AllCovered'
    BY AllCoveredIs, PTL DEF AllCovered
  <2> QED BY <2>3, <2>5, <2>6 DEF AllCovered
<1> QED BY <1>1, <1>2 DEF Covers

-----------------------------------------------------------------------------
(* Items that are not there to their end.                                  *)

NoneBreaks ==
  \A p \in Page : \A s : HasSeq(p)' /\ s \in Broken(p)' => HasSeq(p) /\ s \in Broken(p)

LEMMA BrokenSame ==
  ASSUME NEW p \in Page, SameItems(p)
  PROVE  \A s : s \in Broken(p)' <=> s \in Broken(p)
BY DEF SameItems, Broken

LEMMA NoneBreaksBy ==
  ASSUME \/ ItemsKept
         \/ \E q \in Page : Gone(q) \/ Headed(q) \/ \E st : Restated(q, st)
  PROVE  NoneBreaks
<1>1. CASE ItemsKept
  BY <1>1, BrokenSame, StatesSame DEF ItemsKept, NoneBreaks
<1>2. ASSUME NEW q \in Page, Gone(q) PROVE NoneBreaks
  BY <1>2, BrokenSame, PageSame DEF Gone, NoneBreaks
<1>3. ASSUME NEW q \in Page, Headed(q) PROVE NoneBreaks
  BY <1>3, BrokenSame, PageSame DEF Headed, NoneBreaks, Broken
<1>4. ASSUME NEW q \in Page, NEW st, Restated(q, st) PROVE NoneBreaks
  BY <1>4, BrokenSame DEF Restated, NoneBreaks
<1> QED BY <1>1, <1>2, <1>3, <1>4

\* Before these steps every item is there to its end.
LEMMA SoundBefore ==
  ASSUME IndInv, Whole, OldKnown, NEW p \in Page, HasSeq(p), NEW s \in Broken(p),
         \/ pc \in {"recover", "activate", "reclaim", "failed", "idle", "put", "put_state", "new_page", "return"}
         \/ NoDuplicate \/ MountBlank \/ WriteNothing \/ WriteFind \/ EraseFind \/ EraseMissing
         \/ DropNothing \/ EraseAllDone \/ CopyHeader
  PROVE  FALSE
<1>1. MayBreak(p, s)
  BY DEF Whole
<1>2. CASE pc \in {"recover", "activate", "reclaim", "failed", "idle", "put", "put_state", "new_page", "return"}
  BY <1>1, <1>2 DEF MayBreak
<1>3. CASE NoDuplicate \/ MountBlank
  BY <1>1, <1>3 DEF MayBreak, NoDuplicate, MountBlank
<1>4. CASE WriteNothing \/ WriteFind \/ EraseFind \/ EraseMissing
  BY <1>1, <1>4 DEF MayBreak, WriteNothing, WriteFind, EraseFind, EraseMissing
<1>5. CASE DropNothing
  <2>1. pc = "drop" /\ old = NoPlace
    BY <1>5 DEF DropNothing
  <2>2. Elder(p, s)
    BY <1>1, <2>1 DEF MayBreak
  <2>3. s \in Heads(p) /\ op # NoRequest
    BY <2>1 DEF Broken, OldKnown, InCall
  <2> QED BY <2>1, <2>2, <2>3 DEF OldKnown, InWrite
<1>6. CASE EraseAllDone
  <2>1. pc = "find" /\ NsPages = {}
    BY <1>6 DEF EraseAllDone
  <2>2. NsOf[Data(p, s).key] = op.ns /\ s \in Heads(p)
    BY <1>1, <2>1 DEF MayBreak, Broken
  <2>3. p \in listed
    BY <2>1, InUseAreListed
  <2> QED BY <2>1, <2>2, <2>3 DEF NsPages, NsHeads, Data
<1>7. CASE CopyHeader
  BY <1>1, <1>7 DEF MayBreak, CopyHeader
<1> QED BY <1>2, <1>3, <1>4, <1>5, <1>6, <1>7

SupersededMeans ==
  IndInv /\ Regular /\ pc = "dup" /\ listed # {} =>
    \A p : p \in Superseded <=>
             /\ p \in listed \ {Current} /\ HasSeq(p) /\ StateOf(p) # "freeing"
             /\ Heads(Current) # {} /\ KeyHeads(p, LastItem(Current).key) # {}

LEMMA SupersededIs == SupersededMeans
BY SupersededAre DEF SupersededMeans

\* The search for the predecessor of the last item gives the same result.
LEMMA SupersededStays ==
  ASSUME IndInv, IndInv', Regular, SameHeaders, UNCHANGED <<pc, listed, nextSeq>>, pc = "dup", listed # {},
         NEW c \in Page, c = Current, SameItems(c),
         NEW p \in Superseded, NEW s \in Heads(p)', Data(p, s)' = Data(p, s),
         Data(p, s).key = LastItem(Current).key
  PROVE  p \in Superseded' /\ (Data(p, s).key = LastItem(Current).key)'
<1>1. Current' = c /\ \A q \in Page : StateOf(q)' = StateOf(q) /\ (HasSeq(q)' <=> HasSeq(q))
  BY StillThere
<1>2. /\ p \in listed /\ p # c /\ HasSeq(p) /\ StateOf(p) # "freeing" /\ Heads(c) # {}
  BY SupersededAre
<1>3. Heads(c)' = Heads(c) /\ Data(c, Max(Heads(c)))' = Data(c, Max(Heads(c)))
  BY <1>2, LastHeadIs DEF SameItems, LastHead
<1>4. LastItem(c)' = LastItem(c)
  BY <1>3 DEF LastItem, Data
<1>5. LastItem(Current)' = LastItem(c)
  BY <1>1, <1>3 DEF LastItem, Data, CellAt
<1>6. SupersededMeans'
  BY SupersededIs, PTL
<1>7. (LastItem(Current).key)' = LastItem(c).key /\ Heads(Current)' # {}
  BY <1>1, <1>2, <1>3, <1>5 DEF Heads, Written, CellAt
<1>8. s \in KeyHeads(p, LastItem(Current).key)'
  BY <1>7 DEF KeyHeads, Data
<1>9. p \in Page /\ StateOf(p)' # "freeing" /\ HasSeq(p)' /\ p \in listed' \ {Current'}
  BY <1>1, <1>2 DEF IndInv, TypeOK
<1>10. KeyHeads(p, LastItem(Current).key)' # {} /\ IndInv' /\ pc' = "dup" /\ listed' # {}
  BY <1>8
<1>11. p \in Superseded'
  BY <1>6, <1>7, <1>9, <1>10 DEF SupersededMeans
<1> QED BY <1>7, <1>11 DEF Data

LEMMA WholeByDup ==
  ASSUME IndInv, IndInv', Regular, ContentInv, DropDuplicate,
         NEW p \in Page, HasSeq(p)', NEW s \in Broken(p)'
  PROVE  MayBreak(p, s)'
<1>0. Layout /\ Whole /\ Pairs
  BY DEF ContentInv
<1>1. PICK q \in Page : \E t \in KeyHeads(q, LastItem(Current).key) :
        /\ q \in Superseded /\ HasSeq(q) /\ ErasedTo(q, t, "recover")
        /\ pc = "dup" /\ listed # {} /\ UNCHANGED ram
  BY <1>0, DropDuplicateDoes
<1>2. PICK t \in KeyHeads(q, LastItem(Current).key) :
        /\ q \in Superseded /\ HasSeq(q) /\ ErasedTo(q, t, "recover")
        /\ pc = "dup" /\ listed # {} /\ UNCHANGED ram
  BY <1>1
<1>3. PICK c \in Page : c = Current
  BY <1>2, CurrentIn DEF IndInv, TypeOK
<1>4. /\ t \in Heads(q) /\ Data(q, t).key = LastItem(Current).key /\ SameHeaders
      /\ HasSeq(p) /\ UNCHANGED <<listed, nextSeq>>
  BY <1>2, KeyHeadAt, StatesSame DEF ErasedTo, Erased, ram
<1>5. /\ s \in Heads(p) /\ s \in Heads(p)' /\ Data(p, s)' = Data(p, s)
      /\ (s \in Broken(p)) \/ (p = q /\ s = t)
  <2>1. s \in Heads(p)' /\ ~Complete(p, s)'
    BY DEF Broken
  <2>2. CASE p = q
    BY <1>2, <2>1, <2>2 DEF ErasedTo, Erased, Broken
  <2>3. CASE p # q
    BY <1>2, <2>1, <2>3 DEF ErasedTo, Erased, SameItems, Broken
  <2> QED BY <2>2, <2>3
<1>6. p \in Superseded /\ Data(p, s).key = LastItem(Current).key
  <2>1. CASE s \in Broken(p)
    BY <1>0, <1>2, <1>4, <2>1 DEF Whole, MayBreak
  <2> QED BY <1>2, <1>4, <1>5, <2>1
<1>7. p = q /\ s = t
  <2>1. \A x \in {p, q} : x \in listed /\ x # Current /\ StateOf(x) # "freeing" /\ HasSeq(x)
    BY <1>2, <1>6, SupersededAre
  <2>2. \A x \in {p, q} : StateOf(x) # "active"
    BY <1>2, <2>1, OnlyCurrentActive
  <2> QED BY <1>0, <1>4, <1>5, <1>6, <2>1, <2>2 DEF Pairs, Twins, Late
<1>8. pc' = pc
  BY <1>2, <1>5, <1>7 DEF ErasedTo
<1>9. SameItems(c) /\ c # q
  <2>1. c # q
    BY <1>2, <1>3, SupersededAre
  <2> QED BY <1>2, <2>1 DEF ErasedTo, Erased
<1>10. p \in Superseded' /\ (Data(p, s).key = LastItem(Current).key)'
  BY <1>2, <1>3, <1>4, <1>5, <1>6, <1>8, <1>9, SupersededStays
<1> QED BY <1>2, <1>4, <1>8, <1>10 DEF MayBreak

LEMMA BrokenOrErased ==
  ASSUME NEW q \in Page, NEW t \in Heads(q), Erased(q, t), NEW p \in Page, NEW s \in Broken(p)'
  PROVE  /\ s \in Heads(p) /\ s \in Heads(p)' /\ Data(p, s)' = Data(p, s)
         /\ HasSeq(p)' <=> HasSeq(p)
         /\ s \in Broken(p) \/ (p = q /\ s = t)
<1>1. s \in Heads(p)' /\ ~Complete(p, s)'
  BY DEF Broken
<1>2. CASE p = q
  BY <1>1, <1>2, StatesSame DEF Erased, Broken
<1>3. CASE p # q
  BY <1>1, <1>3, StatesSame DEF Erased, SameItems, Broken
<1> QED BY <1>2, <1>3

LEMMA WholeByErasing ==
  ASSUME IndInv, Regular, ContentInv, DropOld \/ EraseAllStep,
         NEW p \in Page, HasSeq(p)', NEW s \in Broken(p)'
  PROVE  MayBreak(p, s)'
<1>0. Layout /\ Whole /\ Pairs /\ OldKnown
  BY DEF ContentInv
<1>1. CASE DropOld
  <2>1. PICK q \in Page : \E t \in Heads(q) :
          HasSeq(q) /\ Elder(q, t) /\ ErasedTo(q, t, "return") /\ pc = "drop" /\ UNCHANGED ram
    BY <1>0, <1>1, DropOldDoes
  <2>2. PICK t \in Heads(q) :
          HasSeq(q) /\ Elder(q, t) /\ ErasedTo(q, t, "return") /\ pc = "drop" /\ UNCHANGED ram
    BY <2>1
  <2>3. /\ s \in Heads(p) /\ s \in Heads(p)' /\ Data(p, s)' = Data(p, s) /\ HasSeq(p)
        /\ s \in Broken(p) \/ (p = q /\ s = t)
    BY <2>2, BrokenOrErased DEF ErasedTo
  <2>4. Elder(p, s)
    BY <1>0, <2>2, <2>3 DEF Whole, MayBreak
  <2>5. p = q /\ s = t
    BY <1>0, <2>2, <2>4, ElderUnique DEF InCall
  <2>6. pc' = "drop" /\ SameHeaders /\ UNCHANGED <<op, listed, nextSeq>>
    BY <2>2, <2>3, <2>5 DEF ErasedTo, Erased, ram
  <2>7. Current' = Current
    BY <2>2, <2>6, InUse, CurrentKept DEF InCall
  <2>8. Heads(p)' = Heads(p)
    BY <2>2, <2>3, <2>5 DEF ErasedTo, Erased
  <2>9. ~NewItem(p, s)'
    BY <2>2, <2>4, <2>6, <2>7, <2>8 DEF Elder, NewItem, LastHead
  <2> QED BY <2>3, <2>4, <2>6, <2>9 DEF MayBreak, Elder
<1>2. CASE EraseAllStep
  <2>1. PICK q \in Page : \E t \in Heads(q) :
           /\ HasSeq(q) /\ NsOf[Data(q, t).key] = op.ns /\ ErasedTo(q, t, "find")
           /\ pc = "find" /\ op.kind = "erase_all" /\ UNCHANGED ram
    BY <1>0, <1>2, EraseAllStepDoes
  <2>2. PICK t \in Heads(q) :
           /\ HasSeq(q) /\ NsOf[Data(q, t).key] = op.ns /\ ErasedTo(q, t, "find")
           /\ pc = "find" /\ op.kind = "erase_all" /\ UNCHANGED ram
    BY <2>1
  <2>3. /\ Data(p, s)' = Data(p, s) /\ HasSeq(p)
        /\ s \in Broken(p) \/ (p = q /\ s = t)
    BY <2>2, BrokenOrErased DEF ErasedTo
  <2>4. NsOf[Data(p, s).key] = op.ns
    BY <1>0, <2>2, <2>3 DEF Whole, MayBreak
  <2>5. pc' = "find" /\ UNCHANGED op
    BY <2>2 DEF ErasedTo, ram
  <2> QED BY <2>2, <2>3, <2>4, <2>5 DEF MayBreak
<1> QED BY <1>1, <1>2

LEMMA WholeByWriting ==
  ASSUME IndInv, ContentInv, PutEntryState \/ PutData \/ PutDataState,
         NEW p \in Page, HasSeq(p)', NEW s \in Broken(p)'
  PROVE  MayBreak(p, s)'
<1>0. Layout /\ Whole /\ Storing /\ OldKnown
  BY DEF ContentInv
<1>1. CASE PutEntryState
  <2>1. /\ pc = "put_state" /\ pc' = (IF Span[op.val] = 1 THEN "drop" ELSE "data") /\ UNCHANGED ram
        /\ KeepsHeaders
    BY <1>0, <1>1, PutEntryStateDoes
  <2>2. PICK c \in Page, n \in Slot :
              /\ c = Current /\ n = NextFree(c) /\ Stored(c, n)
              /\ StateOf(c) = "active" /\ HasSeq(c) /\ Broken(c) = {}
              /\ Data(c, n) = Piece(op.key, op.val, 0)
    BY <1>0, <1>1, PutEntryStateDoes
  <2>3. Current' = c /\ op.kind = "write" /\ UNCHANGED op
    BY <2>1, <2>2, InUse, CurrentKept DEF InCall, KeepsHeaders, ram, IndInv, PagesInv, Pending
  <2>4. HasSeq(p)
    BY <2>1, StatesSame DEF KeepsHeaders
  <2>5. \A q \in Page : HasSeq(q) => Broken(q) = {}
    BY <1>0, <2>1, SoundBefore
  <2>6. p = c
    BY <2>2, <2>4, <2>5 DEF Stored, SameItems, Broken
  <2>7. Data(c, n).part = 0 /\ Data(c, n).val = op.val
    BY <2>2 DEF Piece
  <2>8. s = n /\ Span[op.val] # 1
    BY <2>2, <2>6, <2>7 DEF Stored, Broken
  <2>9. LastHead(c, n)'
    <3>1. \A t \in Heads(c) : t <= n
      BY <2>2, HeadAt DEF Stored, Slot
    <3> QED BY <2>2, <2>7, <3>1 DEF Stored, LastHead, Slot
  <2>10. NewItem(p, s)'
    BY <2>1, <2>3, <2>6, <2>8, <2>9 DEF NewItem
  <2> QED BY <2>1, <2>8, <2>10 DEF MayBreak
<1>2. CASE PutData
  <2>1. ItemsKept /\ UNCHANGED ram /\ pc = "data" /\ pc' = "data_state"
    BY <1>0, <1>2, PutDoes DEF PutData
  <2>2. SameHeaders /\ SameItems(p)
    BY <2>1 DEF ItemsKept
  <2>3. HasSeq(p) /\ s \in Broken(p)
    BY <2>2, StatesSame, BrokenSame
  <2>4. NewItem(p, s)
    BY <1>0, <2>1, <2>3 DEF Whole, MayBreak
  <2>5. Current' = Current /\ UNCHANGED op
    BY <2>1, <2>2, InUse, CurrentKept DEF InCall, ram
  <2>6. LastHead(p, s)'
    BY <2>2, <2>4, ItemsMakeViews DEF NewItem
  <2>7. NewItem(p, s)'
    BY <2>1, <2>4, <2>5, <2>6 DEF NewItem
  <2> QED BY <2>1, <2>7 DEF MayBreak
<1>3. CASE PutDataState
  <2>1. pc = "data_state" /\ KeepsHeaders
    BY <1>0, <1>3, PutDataStateDoes
  <2>2. PICK c \in Page, n \in Slot :
              /\ c = Current /\ n = NextFree(c) /\ Stored(c, n)
              /\ StateOf(c) = "active" /\ HasSeq(c)
              /\ Data(c, n).part = 1 /\ n - 1 \in Heads(c)
              /\ Data(c, n - 1) = Piece(op.key, op.val, 0)
    BY <1>0, <1>3, PutDataStateDoes
  <2>3. HasSeq(p)
    BY <2>1, StatesSame DEF KeepsHeaders
  <2>4. s \in Broken(p) /\ (p = c => s # n - 1)
    BY <2>2 DEF Stored, SameItems, Broken
  <2>5. p = c /\ LastHead(c, s)
    BY <1>0, <2>1, <2>2, <2>3, <2>4 DEF Whole, MayBreak, NewItem
  <2>6. s < n /\ n - 1 <= s /\ s \in Nat /\ n \in Nat
    BY <2>2, <2>5, HeadAt DEF LastHead, Stored, Slot
  <2> QED BY <2>4, <2>5, <2>6
<1> QED BY <1>1, <1>2, <1>3

LEMMA WholeByCopying ==
  ASSUME IndInv, ContentInv, CopyEntry, NEW p \in Page, HasSeq(p)', NEW s \in Broken(p)'
  PROVE  MayBreak(p, s)'
<1>0. Layout /\ Whole /\ CopyInOrder
  BY DEF ContentInv
<1>1. pc = "copy" /\ pc' = pc /\ KeepsHeaders
  BY <1>0, CopyEntryDoes
<1>2. PICK c \in Page, n \in Slot :
         /\ c = Current /\ Current' = c /\ StateOf(c) = "active"
         /\ ItemsKept \/ Stored(c, n)
  BY <1>0, CopyEntryDoes
<1>3. HasSeq(p) /\ StateOf(p)' = StateOf(p)
  BY <1>1, StatesSame DEF KeepsHeaders
<1>4. p = c \/ s \in Broken(p)
  BY <1>2, BrokenSame DEF ItemsKept, Stored
<1>5. p = c
  BY <1>0, <1>1, <1>2, <1>3, <1>4 DEF Whole, MayBreak
<1> QED BY <1>1, <1>2, <1>3, <1>5 DEF MayBreak

LEMMA WholeByMounting ==
  ASSUME IndInv, ContentInv, PowerOn \/ RepairPage \/ AcceptPage,
         NEW p \in Page, HasSeq(p)', NEW s \in Broken(p)'
  PROVE  MayBreak(p, s)'
<1>0. Layout /\ Whole
  BY DEF ContentInv
<1>1. CASE PowerOn
  BY <1>1 DEF PowerOn, IndInv, PagesInv, Listing, MayBreak
<1>2. CASE RepairPage
  <2>1. /\ pc = "load" /\ pc' = "load" /\ listed' = listed /\ scan \in Page /\ scan \notin listed
    BY <1>2 DEF RepairPage, ram, IndInv, PagesInv, Listing
  <2>2. p = scan \/ (HasSeq(p) /\ s \in Broken(p))
    <3>1. CASE ItemsKept
      BY <3>1, BrokenSame, StatesSame DEF ItemsKept
    <3>2. CASE ~ItemsKept
      <4>1. PICK t \in Heads(scan) : Erased(scan, t)
        BY <1>0, <1>2, <3>2, RepairDoes
      <4> QED BY <2>1, <4>1, BrokenOrErased
    <3> QED BY <3>1, <3>2
  <2> QED BY <1>0, <2>1, <2>2 DEF Whole, MayBreak
<1>3. CASE AcceptPage
  <2>1. /\ pc = "load" /\ scan \in Page /\ Repairs(scan) = {} /\ UNCHANGED flash
        /\ listed' = listed \/ listed' = listed \cup {scan}
        /\ pc' = IF scan < PageCount THEN "load" ELSE "dup"
    BY <1>3 DEF AcceptPage
  <2>2. HasSeq(p) /\ s \in Broken(p)
    BY <2>1, Unchanging, BrokenSame, StatesSame DEF ItemsKept
  <2>3. p # scan /\ p \notin listed
    BY <1>0, <2>1, <2>2, SoundPage DEF Whole, MayBreak
  <2>4. listed \cup Range(free) = 1 .. (scan - 1) /\ p \notin Range(free)
    BY <2>1, <2>2 DEF IndInv, PagesInv, Listing
  <2>5. pc' = "load"
    BY <2>1, <2>3, <2>4, SizeAssumption DEF Page
  <2> QED BY <2>1, <2>3, <2>5 DEF MayBreak
<1> QED BY <1>1, <1>2, <1>3

LEMMA WholeByCopied ==
  ASSUME IndInv, ContentInv, CopyDone, NEW p \in Page, HasSeq(p)', NEW s \in Broken(p)'
  PROVE  MayBreak(p, s)'
<1>0. Layout /\ Whole /\ CopyInOrder
  BY DEF ContentInv
<1>1. /\ pc = "copy" /\ UNCHANGED flash
      /\ Written(gc) = {} \/ (StateOf(Current) = "active" /\ ToCopy = {})
  BY DEF CopyDone
<1>2. HasSeq(p) /\ s \in Broken(p)
  BY <1>1, Unchanging, BrokenSame, StatesSame DEF ItemsKept
<1>3. p = Current /\ StateOf(p) = "active"
  BY <1>0, <1>1, <1>2 DEF Whole, MayBreak
<1>4. ToCopy = {}
  BY <1>1 DEF ToCopy
<1> QED BY <1>0, <1>1, <1>2, <1>3, <1>4, CopyWhole

LEMMA WholeByNothing ==
  ASSUME IndInv, IndInv', Regular, ContentInv, UNCHANGED vars,
         NEW p \in Page, HasSeq(p)', NEW s \in Broken(p)'
  PROVE  MayBreak(p, s)'
<1>0. UNCHANGED flash /\ UNCHANGED <<pc, listed, nextSeq, op>> /\ SameHeaders
  BY Unchanging DEF vars, ItemsKept
<1>1. HasSeq(p) /\ s \in Broken(p) /\ SameItems(p) /\ \A q \in Page : SameItems(q)
  BY <1>0, Unchanging, BrokenSame, StatesSame DEF ItemsKept
<1>2. s \in Heads(p) /\ s \in Heads(p)' /\ Data(p, s)' = Data(p, s) /\ StateOf(p)' = StateOf(p)
  BY <1>0, <1>1, StatesSame DEF SameItems, Broken
<1>3. (LastHead(p, s)' <=> LastHead(p, s)) /\ (listed # {} => Current' = Current)
  BY <1>0, <1>1, ItemsMakeViews, StillThere
<1>4. MayBreak(p, s)
  BY <1>1 DEF ContentInv, Whole
<1>5. pc \in InCall \cup {"copy"} => Current' = Current
  BY <1>0, <1>3, InUse
<1>6. pc \in InCall => (NewItem(p, s)' <=> NewItem(p, s))
  BY <1>0, <1>3, <1>5 DEF NewItem
<1>7. CASE pc = "dup"
  <2>1. listed # {} /\ p \in Superseded /\ Data(p, s).key = LastItem(Current).key
    BY <1>4, <1>7 DEF MayBreak
  <2>2. PICK c \in Page : c = Current
    BY <2>1, CurrentIn DEF IndInv, TypeOK
  <2>3. p \in Superseded' /\ (Data(p, s).key = LastItem(Current).key)'
    BY <1>0, <1>1, <1>2, <1>7, <2>1, <2>2, SupersededStays
  <2> QED BY <1>0, <1>7, <2>1, <2>3 DEF MayBreak
<1>8. CASE pc = "drop"
  <2>1. Elder(p, s)'
    BY <1>0, <1>1, <1>2, <1>4, <1>6, <1>8 DEF MayBreak, Elder, InCall
  <2> QED BY <1>0, <1>8, <2>1 DEF MayBreak
<1>9. CASE pc \notin {"dup", "drop"}
  BY <1>0, <1>2, <1>4, <1>5, <1>6, <1>9 DEF MayBreak, InCall
<1> QED BY <1>7, <1>8, <1>9

LEMMA WholeKept ==
  ASSUME IndInv, Regular, ContentInv, [Next]_vars
  PROVE  Whole'
<1>0. Layout /\ Pairs /\ Whole /\ Storing /\ OldKnown /\ CopyInOrder
  BY DEF ContentInv
<1>i. IndInv'
  BY Inductive
<1> SUFFICES ASSUME NEW p \in Page, HasSeq(p)', NEW s \in Broken(p)'
             PROVE  MayBreak(p, s)'
  BY DEF Whole
<1>1. ASSUME NoneBreaks,
             \/ pc \in {"recover", "activate", "reclaim", "failed", "idle", "put", "put_state", "new_page", "return"}
             \/ NoDuplicate \/ MountBlank \/ WriteNothing \/ WriteFind \/ EraseFind \/ EraseMissing
             \/ DropNothing \/ EraseAllDone \/ CopyHeader
      PROVE  FALSE
  BY <1>0, <1>1, SoundBefore DEF NoneBreaks
<1>2. CASE Mounting
  <2>1. CASE PowerOn \/ RepairPage \/ AcceptPage
    BY <2>1, WholeByMounting
  <2>2. CASE DropDuplicate
    BY <1>i, <2>2, WholeByDup
  <2>3. CASE NoDuplicate \/ NothingToRecover \/ (DiscardCopy /\ ~MustDiscard)
    <3>1. UNCHANGED flash
      BY <2>3, FlashUnchanged DEF DiscardCopy
    <3> QED BY <1>1, <2>3, <3>1, Unchanging, NoneBreaksBy DEF NothingToRecover, DiscardCopy
  <2>4. CASE MountBlank \/ (DiscardCopy /\ MustDiscard)
    <3>1. NoneBreaks
      BY <2>4, GivesUpPage, Unchanging, NoneBreaksBy
    <3> QED BY <1>1, <2>4, <3>1 DEF DiscardCopy
  <2> QED BY <1>2, <2>1, <2>2, <2>3, <2>4 DEF Mounting
<1>3. CASE Moving
  <2>1. CASE ActivateTarget \/ Reclaim
    <3>1. NoneBreaks
      BY <2>1, GivesUpPage, Unchanging, NoneBreaksBy
    <3> QED BY <1>1, <2>1, <3>1 DEF ActivateTarget, Reclaim
  <2>2. CASE CopyHeader
    BY <1>1, <2>2, HeaderDoes, NoneBreaksBy
  <2>3. CASE CopyEntry
    BY <2>3, WholeByCopying
  <2>4. CASE CopyDone
    BY <2>4, WholeByCopied
  <2> QED BY <1>3, <2>1, <2>2, <2>3, <2>4 DEF Moving
<1>4. CASE Writing
  <2>1. CASE WriteNothing \/ WriteFind \/ StillFull \/ NoNewPage
    <3>1. NoneBreaks
      BY <2>1, FlashUnchanged, Unchanging, NoneBreaksBy
    <3> QED BY <1>1, <2>1, <3>1 DEF StillFull, NoNewPage
  <2>2. CASE PutHeader
    BY <1>1, <2>2, HeaderDoes, NoneBreaksBy DEF PutHeader
  <2>3. CASE PutEntry
    BY <1>0, <1>1, <2>3, PutDoes, NoneBreaksBy DEF PutEntry
  <2>4. CASE PutEntryState \/ PutData \/ PutDataState
    BY <2>4, WholeByWriting
  <2>5. CASE ClosePage \/ StartFreeing
    <3>1. NoneBreaks
      BY <2>5, ClosePageDoes, StartFreeingDoes, NoneBreaksBy
    <3> QED BY <1>1, <2>5, <3>1 DEF ClosePage, StartFreeing
  <2>6. CASE TakeFreePage
    <3>1. NoneBreaks
      BY <2>6, GivesUpPage, Unchanging, NoneBreaksBy
    <3> QED BY <1>1, <2>6, <3>1 DEF TakeFreePage
  <2> QED BY <1>4, <2>1, <2>2, <2>3, <2>4, <2>5, <2>6 DEF Writing
<1>5. CASE Erasing
  <2>1. CASE DropOld \/ EraseAllStep
    BY <2>1, WholeByErasing
  <2>2. CASE DropNothing \/ EraseFind \/ EraseMissing \/ Finish \/ EraseAllDone
    <3>1. NoneBreaks
      BY <2>2, FlashUnchanged, Unchanging, NoneBreaksBy
    <3> QED BY <1>1, <2>2, <3>1 DEF Finish
  <2> QED BY <1>5, <2>1, <2>2 DEF Erasing
<1>6. CASE BeginCall
  <2>1. NoneBreaks
    BY <1>6, FlashUnchanged, Unchanging, NoneBreaksBy
  <2> QED BY <1>1, <1>6, <2>1 DEF BeginCall, Ready
<1>7. CASE PowerLoss
  BY <1>7 DEF PowerLoss, PowerOff, MayBreak
<1>8. CASE UNCHANGED vars
  BY <1>i, <1>8, WholeByNothing
<1> QED BY <1>2, <1>3, <1>4, <1>5, <1>6, <1>7, <1>8 DEF Next, Step

-----------------------------------------------------------------------------
(* The invariant holds, and every key is there once.                       *)

LEMMA ContentInitially ==
  Init => ContentInv
<1> SUFFICES ASSUME Init PROVE ContentInv
  OBVIOUS
<1>1. pc = "off" /\ op = NoRequest
  BY DEF Init
<1>2. \A p \in Page : StateOf(p) = "uninit" /\ ~HasSeq(p)
  BY DEF Init, ErasedPage, StateOf, HasSeq
<1>3. Layout /\ Pairs /\ Whole /\ Covers
  BY <1>1, <1>2 DEF Layout, Pairs, Whole, Covers
<1>4. Scanned /\ CopyInOrder /\ Storing /\ OldKnown
  BY <1>1 DEF Scanned, CopyInOrder, Storing, OldKnown, InCall, InWrite, InMove
<1> QED BY <1>3, <1>4 DEF ContentInv

LEMMA ContentInductive ==
  Regular /\ IndInv /\ ContentInv /\ [Next]_vars => ContentInv'
<1> SUFFICES ASSUME Regular, IndInv, ContentInv, [Next]_vars PROVE ContentInv'
  OBVIOUS
<1>1. Layout' /\ Pairs' /\ Whole' /\ Scanned'
  BY StepDoes, PairsKept, WholeKept, ScannedKept
<1>2. Covers' /\ CopyInOrder' /\ Storing' /\ OldKnown'
  BY CoversKept, CopyInOrderKept, StoringKept, OldKnownKept
<1> QED BY <1>1, <1>2 DEF ContentInv

\* What the items on flash say is kept, whatever is called and whenever the
\* power goes: items lie in the order they were written (Layout), a key has a
\* second item only while one is moved or replaced (Pairs), every item outside
\* a running step is there to its end (Whole), and a page being moved holds
\* all that was copied (Covers).
THEOREM ContentInvariance ==
  ASSUME Regular
  PROVE  Spec => [](IndInv /\ ContentInv)
<1>1. Init => IndInv /\ ContentInv
  BY Initially, ContentInitially
<1>2. IndInv /\ ContentInv /\ [Next]_vars => (IndInv /\ ContentInv)'
  BY Inductive, ContentInductive
<1> QED BY <1>1, <1>2, PTL DEF Spec

-----------------------------------------------------------------------------
(* The value of a key.                                                     *)

IsCopy(p, s, k) ==
  /\ p \in Page /\ HasSeq(p) /\ s \in Heads(p) /\ Data(p, s).key = k /\ Complete(p, s)

\* No copy of the key was written later.
Newest(p, s, k) ==
  /\ IsCopy(p, s, k)
  /\ \A q \in Page : \A t : IsCopy(q, t, k) => flash[q].seq < flash[p].seq \/ (p = q /\ t <= s)

LEMMA CopiesAre ==
  ASSUME NEW k
  PROVE  /\ \A p, s : <<p, s>> \in Copies(k) <=> IsCopy(p, s, k)
         /\ \A c \in Copies(k) : c = <<c[1], c[2]>> /\ IsCopy(c[1], c[2], k)
<1>1. ASSUME NEW c \in Copies(k) PROVE c = <<c[1], c[2]>> /\ IsCopy(c[1], c[2], k)
  <2>1. PICK p \in Page : /\ HasSeq(p)
                          /\ \E s \in KeyHeads(p, k) : Complete(p, s) /\ c = <<p, s>>
    BY DEF Copies
  <2>2. PICK s \in KeyHeads(p, k) : Complete(p, s) /\ c = <<p, s>>
    BY <2>1
  <2> QED BY <2>1, <2>2 DEF IsCopy, KeyHeads, Data
<1>2. ASSUME NEW p, NEW s, IsCopy(p, s, k) PROVE <<p, s>> \in Copies(k)
  BY <1>2 DEF IsCopy, Copies, KeyHeads, Data
<1>3. ASSUME NEW p, NEW s, <<p, s>> \in Copies(k) PROVE IsCopy(p, s, k)
  BY <1>1, <1>3
<1> QED BY <1>1, <1>2, <1>3

LEMMA SeqsAreBounded ==
  ASSUME IndInv
  PROVE  \E b \in Nat : \A p \in Page : flash[p].seq <= b
<1> DEFINE Bad == {n \in Nat : ~ \E b \in Nat : \A p \in Page : p <= n => flash[p].seq <= b}
<1>0. \A p \in Page : flash[p].seq \in Nat /\ p \in Nat /\ p >= 1 /\ p <= PageCount
  BY SizeAssumption DEF IndInv, TypeOK, Page
<1>1. Bad = {}
  <2> SUFFICES ASSUME Bad # {} PROVE FALSE
    OBVIOUS
  <2>1. PICK n \in Bad : \A m \in Bad : n <= m
    <3> HIDE DEF Bad
    <3>1. Bad \subseteq Nat
      BY DEF Bad
    <3> QED BY <3>1, LeastNatural
  <2>2. n \in Nat /\ n # 0
    <3>1. \A p \in Page : p <= 0 => flash[p].seq <= 0
      BY <1>0
    <3> QED BY <3>1
  <2>3. n - 1 \in Nat /\ n - 1 \notin Bad
    BY <2>1, <2>2
  <2>4. PICK b \in Nat : \A p \in Page : p <= n - 1 => flash[p].seq <= b
    BY <2>3
  <2>5. CASE n \notin Page
    <3>1. ASSUME NEW p \in Page, p <= n PROVE flash[p].seq <= b
      <4>1. p \in Nat /\ n \in Nat /\ p # n
        BY <1>0, <2>2, <2>5
      <4>2. p <= n - 1
        BY <3>1, <4>1
      <4> QED BY <2>4, <4>2
    <3> QED BY <2>1, <3>1
  <2>6. CASE n \in Page
    <3>1. PICK d \in Nat : b <= d /\ flash[n].seq <= d
      <4>1. flash[n].seq \in Nat
        BY <1>0, <2>6
      <4>2. b <= b + flash[n].seq /\ flash[n].seq <= b + flash[n].seq /\ b + flash[n].seq \in Nat
        BY <4>1
      <4> QED BY <4>2
    <3>2. ASSUME NEW p \in Page, p <= n PROVE flash[p].seq <= d
      <4>1. CASE p = n
        BY <3>1, <4>1
      <4>2. CASE p <= n - 1
        <5>1. flash[p].seq <= b /\ flash[p].seq \in Nat
          BY <1>0, <2>4, <4>2
        <5> QED BY <3>1, <5>1
      <4>3. p \in Nat /\ n \in Nat
        BY <1>0, <2>2
      <4>4. p = n \/ p <= n - 1
        BY <3>2, <4>3
      <4> QED BY <4>1, <4>2, <4>4
    <3> QED BY <2>1, <3>2
  <2> QED BY <2>5, <2>6
<1>2. PageCount \notin Bad /\ PageCount \in Nat
  BY <1>1, SizeAssumption
<1> QED BY <1>0, <1>2

LEMMA NewestExists ==
  ASSUME IndInv, NEW k, Copies(k) # {}
  PROVE  \E p \in Page : \E s : Newest(p, s, k)
<1>0. Ordered
  BY DEF IndInv, PagesInv
<1> DEFINE P == {p \in Page : \E s : IsCopy(p, s, k)}
           f == [p \in Page |-> flash[p].seq]
<1>1. PICK b \in Nat : \A p \in Page : flash[p].seq <= b
  BY SeqsAreBounded
<1>2. PICK p \in P : \A q \in P : flash[q].seq <= flash[p].seq
  <2>1. P # {} /\ P \subseteq Page
    BY CopiesAre DEF IsCopy
  <2>2. \A q \in P : f[q] \in Int /\ f[q] <= b
    BY <1>1 DEF IndInv, TypeOK
  <2>3. \E p \in P : \A q \in P : f[q] <= f[p]
    <3> HIDE DEF P, f
    <3> QED BY <2>1, <2>2, GreatestValue
  <2> QED BY <2>3
<1>3. p \in Page /\ HasSeq(p)
  BY DEF IsCopy
<1> DEFINE S == {s \in Slot : IsCopy(p, s, k)}
           g == [s \in Slot |-> s]
<1>4. PICK s \in S : \A t \in S : t <= s
  <2>1. S # {} /\ \A t : IsCopy(p, t, k) => t \in S
    BY <1>2, HeadAt DEF IsCopy
  <2>2. \A t \in S : g[t] \in Int /\ g[t] <= EntryCount
    BY SizeAssumption DEF Slot
  <2>3. EntryCount \in Int
    BY SizeAssumption
  <2>4. \E s \in S : \A t \in S : g[t] <= g[s]
    <3> HIDE DEF S, g
    <3> QED BY <2>1, <2>2, <2>3, GreatestValue
  <2> QED BY <2>4
<1>5. IsCopy(p, s, k)
  OBVIOUS
<1>6. ASSUME NEW q \in Page, NEW t, IsCopy(q, t, k)
      PROVE  flash[q].seq < flash[p].seq \/ (p = q /\ t <= s)
  <2>1. CASE p = q
    <3>1. t \in S
      BY <1>6, <2>1, HeadAt DEF IsCopy
    <3> QED BY <1>4, <2>1, <3>1
  <2>2. CASE p # q
    <3>1. flash[q].seq <= flash[p].seq /\ q \in P /\ HasSeq(q)
      BY <1>2, <1>6 DEF IsCopy
    <3>2. flash[q].seq # flash[p].seq
      BY <1>0, <1>3, <2>2, <3>1 DEF Ordered
    <3>3. flash[q].seq \in Nat /\ flash[p].seq \in Nat
      BY <1>3 DEF IndInv, TypeOK
    <3> QED BY <3>1, <3>2, <3>3
  <2> QED BY <2>1, <2>2
<1> QED BY <1>3, <1>5, <1>6 DEF Newest

LEMMA ContentIs ==
  ASSUME IndInv, NEW k \in Keys
  PROVE  /\ Copies(k) = {} <=> Content[k] = None
         /\ \A p \in Page : \A s : Newest(p, s, k) => Content[k] = Data(p, s).val
         /\ Content[k] \in Values \cup {None}
<1> DEFINE N(c) == \A d \in Copies(k) : Newer(c, d)
<1>1. CASE Copies(k) = {}
  <2>1. Content[k] = None
    BY <1>1 DEF Content
  <2> QED BY <1>1, <2>1, CopiesAre DEF Newest
<1>2. CASE Copies(k) # {}
  <2>1. PICK p \in Page : \E s : Newest(p, s, k)
    BY <1>2, NewestExists
  <2>2. PICK s : Newest(p, s, k)
    BY <2>1
  <2>3. ASSUME NEW q \in Page, NEW t, Newest(q, t, k)
        PROVE  <<q, t>> \in Copies(k) /\ N(<<q, t>>)
    <3>1. <<q, t>> \in Copies(k) /\ q \in Page /\ t \in Nat
      BY <2>3, CopiesAre, HeadAt DEF Newest, IsCopy
    <3>2. ASSUME NEW d \in Copies(k) PROVE Newer(<<q, t>>, d)
      <4>1. d[1] \in Page /\ IsCopy(d[1], d[2], k)
        BY <3>2, CopiesAre DEF IsCopy
      <4>2. d[2] \in Nat /\ flash[d[1]].seq \in Nat /\ flash[q].seq \in Nat
        BY <3>1, <4>1, HeadAt DEF IsCopy, IndInv, TypeOK
      <4>3. flash[d[1]].seq < flash[q].seq \/ (q = d[1] /\ d[2] <= t)
        BY <2>3, <4>1 DEF Newest
      <4> QED BY <3>1, <4>2, <4>3 DEF Newer
    <3> QED BY <3>1, <3>2
  <2>4. ASSUME NEW c \in Copies(k), N(c), NEW q \in Page, NEW t, Newest(q, t, k)
        PROVE  c = <<q, t>>
    <3>1. c = <<c[1], c[2]>> /\ IsCopy(c[1], c[2], k) /\ <<q, t>> \in Copies(k) /\ IsCopy(q, t, k)
      BY <2>4, CopiesAre DEF Newest
    <3>2. c[1] \in Page /\ c[2] \in Nat /\ t \in Nat /\ flash[c[1]].seq \in Nat /\ flash[q].seq \in Nat
      BY <3>1, HeadAt DEF IsCopy, IndInv, TypeOK
    <3>3. flash[c[1]].seq < flash[q].seq \/ (q = c[1] /\ c[2] <= t)
      BY <2>4, <3>1, <3>2 DEF Newest
    <3>4. flash[c[1]].seq > flash[q].seq \/ (flash[c[1]].seq = flash[q].seq /\ c[2] >= t)
      BY <2>4, <3>1 DEF Newer
    <3> QED BY <3>1, <3>2, <3>3, <3>4
  <2> DEFINE c == CHOOSE c \in Copies(k) : N(c)
  <2>5. c = <<p, s>>
    <3>1. c \in Copies(k) /\ N(c)
      BY <2>2, <2>3
    <3> QED BY <2>2, <2>4, <3>1
  <2>6. Content[k] = CellAt(c[1], c[2]).data.val
    BY <1>2 DEF Content
  <2>7. Content[k] = Data(p, s).val
    <3>1. c[1] = p /\ c[2] = s
      <4> HIDE DEF c
      <4> QED BY <2>5
    <3> HIDE DEF c
    <3> QED BY <2>6, <3>1 DEF Data
  <2>8. \A q \in Page : \A t : Newest(q, t, k) => q = p /\ t = s
    <3> SUFFICES ASSUME NEW q \in Page, NEW t, Newest(q, t, k) PROVE q = p /\ t = s
      OBVIOUS
    <3>1. <<q, t>> \in Copies(k) /\ N(<<q, t>>)
      BY <2>3
    <3>2. <<q, t>> = <<p, s>>
      BY <2>2, <2>4, <3>1
    <3> QED BY <3>2
  <2>9. Data(p, s).val \in Values /\ Data(p, s).val # None
    BY <2>2, HeadAt, NoneAssumption DEF Newest, IsCopy
  <2> QED BY <1>2, <2>7, <2>8, <2>9
<1> QED BY <1>1, <1>2

LEMMA OneItem ==
  ASSUME IndInv, ContentInv, pc \in InCall \ {"data", "data_state", "drop"},
         NEW p \in Page, NEW s \in Heads(p), NEW q \in Page, NEW t \in Heads(q),
         HasSeq(p), HasSeq(q), Data(p, s).key = Data(q, t).key
  PROVE  p = q /\ s = t
BY PairHasNew DEF ContentInv

LEMMA OneCopyWhenIdle ==
  Regular /\ IndInv /\ ContentInv => OneCopy
<1> SUFFICES ASSUME Regular, IndInv, ContentInv, pc = "idle", NEW k \in Keys
             PROVE  /\ Cardinality(Copies(k)) <= 1
                    /\ Find(k, Types) # NoPlace => ValueAt(Find(k, Types)) = Content[k]
  BY DEF OneCopy
<1>1. \A p, q \in Page : \A s, t : IsCopy(p, s, k) /\ IsCopy(q, t, k) => p = q /\ s = t
  BY OneItem DEF IsCopy, InCall
<1>2. Cardinality(Copies(k)) <= 1
  <2>1. CASE Copies(k) = {}
    BY <2>1, FS_EmptySet
  <2>2. CASE Copies(k) # {}
    <3>1. PICK c : c \in Copies(k)
      BY <2>2
    <3>2. \A d \in Copies(k) : d = c
      BY <1>1, <3>1, CopiesAre DEF IsCopy
    <3>3. Copies(k) = {c}
      BY <3>1, <3>2
    <3>4. Cardinality({c}) = 1
      BY FS_Singleton
    <3> QED BY <3>3, <3>4
  <2> QED BY <2>1, <2>2
<1>3. ASSUME Find(k, Types) # NoPlace
      PROVE  ValueAt(Find(k, Types)) = Content[k]
  <2>1. PICK p, s : FirstItem(p, s, k) /\ Find(k, Types) = Place(p, s)
    BY <1>3, FindIs, AnyTypes
  <2>2. p \in Page /\ HasSeq(p) /\ s \in Heads(p) /\ Data(p, s).key = k
    BY <2>1, KeyHeadAt DEF FirstItem
  <2>3. Complete(p, s)
    BY <2>2 DEF ContentInv, Whole, MayBreak, Broken
  <2>4. Newest(p, s, k)
    BY <1>1, <2>2, <2>3, HeadAt DEF Newest, IsCopy
  <2>5. Content[k] = Data(p, s).val
    BY <2>2, <2>4, ContentIs
  <2> QED BY <2>1, <2>5 DEF ValueAt, Place, Data
<1> QED BY <1>2, <1>3

\* Whenever no call runs, each key is stored once, with the value that a lookup
\* by any type returns (Storage::findItem): a write leaves no predecessor
\* behind, a mount erases the one a power loss left, and what it copies of a
\* page it either finishes or throws away.
THEOREM OneCopyOfEach ==
  ASSUME Regular
  PROVE  Spec => []OneCopy
<1>1. IndInv /\ ContentInv => OneCopy
  BY OneCopyWhenIdle
<1> QED BY <1>1, ContentInvariance, PTL

-----------------------------------------------------------------------------
(* The value of a key before and after a step.                             *)

ContentLaws ==
  IndInv =>
    /\ Content \in [Keys -> Values \cup {None}]
    /\ \A k \in Keys :
         /\ Content[k] = None <=> \A p, s : ~IsCopy(p, s, k)
         /\ \A p, s : Newest(p, s, k) => Content[k] = Data(p, s).val
         /\ (\E p, s : IsCopy(p, s, k)) => \E p, s : Newest(p, s, k)

LEMMA ContentObeys == ContentLaws
<1> SUFFICES ASSUME IndInv
             PROVE  /\ Content \in [Keys -> Values \cup {None}]
                    /\ \A k \in Keys :
                         /\ Content[k] = None <=> \A p, s : ~IsCopy(p, s, k)
                         /\ \A p, s : Newest(p, s, k) => Content[k] = Data(p, s).val
                         /\ (\E p, s : IsCopy(p, s, k)) => \E p, s : Newest(p, s, k)
  BY DEF ContentLaws
<1>1. DOMAIN Content = Keys /\ Content = [k \in Keys |-> Content[k]]
  BY DEF Content
<1>2. ASSUME NEW k \in Keys
      PROVE  /\ Content[k] \in Values \cup {None}
             /\ Content[k] = None <=> \A p, s : ~IsCopy(p, s, k)
             /\ \A p, s : Newest(p, s, k) => Content[k] = Data(p, s).val
             /\ (\E p, s : IsCopy(p, s, k)) => \E p, s : Newest(p, s, k)
  <2>1. Copies(k) = {} <=> \A p, s : ~IsCopy(p, s, k)
    BY CopiesAre
  <2>2. \A p, s : Newest(p, s, k) => p \in Page
    BY DEF Newest, IsCopy
  <2> QED BY <2>1, <2>2, ContentIs, NewestExists
<1>3. Content \in [Keys -> Values \cup {None}]
  BY <1>1, <1>2
<1> QED BY <1>2, <1>3

LEMMA ContentFollows ==
  ASSUME IndInv'
  PROVE  /\ Content' \in [Keys -> Values \cup {None}]
         /\ \A k \in Keys :
              /\ Content'[k] = None <=> \A p, s : ~IsCopy(p, s, k)'
              /\ \A p, s : Newest(p, s, k)' => Content'[k] = Data(p, s)'.val
              /\ (\E p, s : IsCopy(p, s, k)') => \E p, s : Newest(p, s, k)'
<1>1. ContentLaws'
  BY ContentObeys, PTL
<1> QED BY <1>1 DEF ContentLaws

\* The newest copy stays and none is added.
NewestStays(k) ==
  /\ \A p, s : IsCopy(p, s, k)' => IsCopy(p, s, k) /\ flash'[p].seq = flash[p].seq
  /\ \A p, s : Newest(p, s, k) => IsCopy(p, s, k)' /\ Data(p, s)' = Data(p, s)

LEMMA NewestStaysDoes ==
  ASSUME IndInv, IndInv', NEW k \in Keys, NewestStays(k)
  PROVE  Content'[k] = Content[k]
<1>1. CASE \A p, s : ~IsCopy(p, s, k)
  <2>1. \A p, s : ~IsCopy(p, s, k)'
    BY <1>1 DEF NewestStays
  <2> QED BY <1>1, <2>1, ContentObeys, ContentFollows DEF ContentLaws
<1>2. CASE \E p, s : IsCopy(p, s, k)
  <2>1. PICK p, s : Newest(p, s, k)
    BY <1>2, ContentObeys DEF ContentLaws
  <2>2. IsCopy(p, s, k)' /\ Data(p, s)' = Data(p, s) /\ flash'[p].seq = flash[p].seq
    BY <2>1 DEF NewestStays
  <2>3. \A q \in Page : \A t : IsCopy(q, t, k)' => flash'[q].seq < flash'[p].seq \/ (p = q /\ t <= s)
    BY <2>1, <2>2 DEF NewestStays, Newest
  <2>4. Newest(p, s, k)'
    BY <2>2, <2>3 DEF Newest
  <2>5. Content'[k] = Data(p, s)'.val /\ Content[k] = Data(p, s).val
    BY <2>1, <2>4, ContentObeys, ContentFollows DEF ContentLaws
  <2> QED BY <2>2, <2>5
<1> QED BY <1>1, <1>2

\* All copies agree, and some copy stays.
CopiesAgree(k) ==
  /\ \A p, q, s, t : IsCopy(p, s, k) /\ IsCopy(q, t, k) => Data(p, s).val = Data(q, t).val
  /\ \A p, s : IsCopy(p, s, k)' => \E q, t : IsCopy(q, t, k) /\ Data(q, t).val = Data(p, s)'.val
  /\ (\E p, s : IsCopy(p, s, k)) => \E p, s : IsCopy(p, s, k)'

LEMMA CopiesAgreeDoes ==
  ASSUME IndInv, IndInv', NEW k \in Keys, CopiesAgree(k)
  PROVE  Content'[k] = Content[k]
<1>1. CASE \A p, s : ~IsCopy(p, s, k)
  <2>1. \A p, s : ~IsCopy(p, s, k)'
    BY <1>1 DEF CopiesAgree
  <2> QED BY <1>1, <2>1, ContentObeys, ContentFollows DEF ContentLaws
<1>2. CASE \E p, s : IsCopy(p, s, k)
  <2>1. PICK p, s : Newest(p, s, k)
    BY <1>2, ContentObeys DEF ContentLaws
  <2>2. \E q, t : IsCopy(q, t, k)'
    BY <1>2 DEF CopiesAgree
  <2>3. PICK q, t : Newest(q, t, k)'
    BY <2>2, ContentFollows
  <2>4. Content'[k] = Data(q, t)'.val /\ Content[k] = Data(p, s).val
    BY <2>1, <2>3, ContentObeys, ContentFollows DEF ContentLaws
  <2>5. IsCopy(p, s, k) /\ IsCopy(q, t, k)'
    BY <2>1, <2>3 DEF Newest
  <2>6. PICK x, y : IsCopy(x, y, k) /\ Data(x, y).val = Data(q, t)'.val
    BY <2>5 DEF CopiesAgree
  <2>7. Data(x, y).val = Data(p, s).val
    BY <2>5, <2>6 DEF CopiesAgree
  <2> QED BY <2>4, <2>6, <2>7
<1> QED BY <1>1, <1>2

\* The last item of the current page is newer than any other one of its key.
LastIsNewest ==
  IndInv /\ pc \notin {"off", "load"} /\ listed # {} =>
    \A c \in Page : \A s :
      c = Current /\ HasSeq(c) /\ LastHead(c, s) /\ Complete(c, s) => Newest(c, s, Data(c, s).key)

LEMMA LastNewest == LastIsNewest
<1> SUFFICES ASSUME IndInv, pc \notin {"off", "load"}, listed # {}, NEW c \in Page, NEW s,
                    c = Current, HasSeq(c), LastHead(c, s), Complete(c, s),
                    NEW q \in Page, NEW t, IsCopy(q, t, Data(c, s).key)
             PROVE  flash[q].seq < flash[c].seq \/ (c = q /\ t <= s)
  BY DEF LastIsNewest, Newest, IsCopy, LastHead
<1>1. CASE q = c
  BY <1>1 DEF IsCopy, LastHead
<1>2. CASE q # c
  <2>1. HasSeq(q) /\ q \in listed
    BY InUseAreListed DEF IsCopy
  <2>2. SeqOf(q) <= SeqOf(c)
    BY <2>1, CurrentIn
  <2>3. flash[q].seq <= flash[c].seq /\ flash[q].seq \in Nat /\ flash[c].seq \in Nat
    BY <2>1, <2>2 DEF SeqOf, IndInv, TypeOK
  <2>4. flash[q].seq # flash[c].seq
    BY <1>2, <2>1 DEF IndInv, PagesInv, Ordered
  <2> QED BY <2>3, <2>4
<1> QED BY <1>1, <1>2

LEMMA SameContent ==
  ASSUME IndInv, IndInv', \A k \in Keys : Content'[k] = Content[k]
  PROVE  Content' = Content
<1>1. Content \in [Keys -> Values \cup {None}] /\ Content' \in [Keys -> Values \cup {None}]
  BY ContentObeys, ContentFollows DEF ContentLaws
<1> QED BY <1>1

\* The copies of a key stay as they are.
CopiesStay(k) ==
  \A p, s : /\ IsCopy(p, s, k)' <=> IsCopy(p, s, k)
            /\ IsCopy(p, s, k) => Data(p, s)' = Data(p, s) /\ flash'[p].seq = flash[p].seq

LEMMA StayingCopies ==
  ASSUME IndInv, IndInv', NEW k \in Keys, CopiesStay(k)
  PROVE  Content'[k] = Content[k]
<1>1. NewestStays(k)
  BY DEF CopiesStay, NewestStays, Newest
<1> QED BY <1>1, NewestStaysDoes

\* A page keeps its items, or has and had none.
PageQuiet(q) ==
  \/ HasSeq(q)' /\ HasSeq(q) /\ flash'[q].seq = flash[q].seq /\ SameItems(q)
  \/ (HasSeq(q)' => Heads(q)' = {}) /\ (HasSeq(q) => Heads(q) = {})

LEMMA QuietPages ==
  ASSUME IndInv, IndInv', \A q \in Page : PageQuiet(q)
  PROVE  Content' = Content
<1>1. ASSUME NEW k \in Keys PROVE CopiesStay(k)
  <2>1. ASSUME NEW p \in Page, NEW s
        PROVE  /\ IsCopy(p, s, k)' <=> IsCopy(p, s, k)
               /\ IsCopy(p, s, k) => Data(p, s)' = Data(p, s) /\ flash'[p].seq = flash[p].seq
    <3>1. CASE HasSeq(p)' /\ HasSeq(p) /\ flash'[p].seq = flash[p].seq /\ SameItems(p)
      BY <3>1 DEF IsCopy, SameItems
    <3>2. CASE (HasSeq(p)' => Heads(p)' = {}) /\ (HasSeq(p) => Heads(p) = {})
      BY <3>2 DEF IsCopy
    <3> QED BY <3>1, <3>2 DEF PageQuiet
  <2>2. \A p, s : (IsCopy(p, s, k) \/ IsCopy(p, s, k)') => p \in Page
    BY DEF IsCopy
  <2> QED BY <2>1, <2>2 DEF CopiesStay
<1> QED BY <1>1, StayingCopies, SameContent

LEMMA QuietSteps ==
  ASSUME IndInv, IndInv',
         \/ ItemsKept
         \/ \E q \in Page : \/ Gone(q) /\ ~HasSeq(q)
                            \/ Headed(q) /\ ~HasSeq(q)
                            \/ \E st : Restated(q, st)
  PROVE  Content' = Content
<1>1. CASE ItemsKept
  <2>1. \A q \in Page : PageQuiet(q)
    <3> SUFFICES ASSUME NEW q \in Page PROVE PageQuiet(q)
      OBVIOUS
    <3>1. (HasSeq(q)' <=> HasSeq(q)) /\ flash'[q].seq = flash[q].seq /\ SameItems(q)
      BY <1>1, StatesSame DEF ItemsKept
    <3> QED BY <3>1 DEF PageQuiet
  <2> QED BY <2>1, QuietPages
<1>2. ASSUME NEW q \in Page, Gone(q) /\ ~HasSeq(q) PROVE Content' = Content
  <2>1. \A p \in Page : PageQuiet(p)
    BY <1>2, PageSame DEF Gone, PageQuiet
  <2> QED BY <2>1, QuietPages
<1>3. ASSUME NEW q \in Page, Headed(q) /\ ~HasSeq(q) PROVE Content' = Content
  <2>1. \A p \in Page : PageQuiet(p)
    BY <1>3, PageSame DEF Headed, PageQuiet
  <2> QED BY <2>1, QuietPages
<1>4. ASSUME NEW q \in Page, NEW st, Restated(q, st) PROVE Content' = Content
  <2>1. \A p \in Page : HasSeq(p) => PageQuiet(p)
    BY <1>4 DEF Restated, PageQuiet
  <2>2. \A p \in Page : ~HasSeq(p) => PageQuiet(p)
    BY <1>4 DEF Restated, PageQuiet
  <2> QED BY <2>1, <2>2, QuietPages
<1> QED BY <1>1, <1>2, <1>3, <1>4

\* One item is erased, which is not the newest copy of its key.
LEMMA ErasedQuietly ==
  ASSUME IndInv, IndInv', NEW q \in Page, NEW t \in Heads(q), Erased(q, t),
         NEW k \in Keys, ~Newest(q, t, k)
  PROVE  Content'[k] = Content[k]
<1>1. \A p \in Page : (HasSeq(p)' <=> HasSeq(p)) /\ flash'[p].seq = flash[p].seq
  BY StatesSame DEF Erased
<1>2. ASSUME NEW p \in Page, NEW s, ~ (p = q /\ s = t)
      PROVE  /\ IsCopy(p, s, k)' <=> IsCopy(p, s, k)
             /\ IsCopy(p, s, k) => Data(p, s)' = Data(p, s)
  <2>1. CASE p # q
    BY <1>1, <2>1 DEF Erased, SameItems, IsCopy
  <2>2. CASE p = q
    BY <1>1, <1>2, <2>2 DEF Erased, IsCopy
  <2> QED BY <2>1, <2>2
<1>3. ~IsCopy(q, t, k)'
  BY DEF Erased, IsCopy
<1>4. NewestStays(k)
  <2>1. ASSUME NEW p, NEW s, IsCopy(p, s, k)' PROVE IsCopy(p, s, k) /\ flash'[p].seq = flash[p].seq
    <3>1. p \in Page
      BY <2>1 DEF IsCopy
    <3> QED BY <1>1, <1>2, <1>3, <2>1, <3>1
  <2>2. ASSUME NEW p, NEW s, Newest(p, s, k) PROVE IsCopy(p, s, k)' /\ Data(p, s)' = Data(p, s)
    <3>1. p \in Page /\ IsCopy(p, s, k)
      BY <2>2 DEF Newest, IsCopy
    <3> QED BY <1>2, <2>2, <3>1
  <2> QED BY <2>1, <2>2 DEF NewestStays
<1> QED BY <1>4, NewestStaysDoes

LEMMA ErasedKeepsContent ==
  ASSUME IndInv, IndInv', NEW q \in Page, NEW t \in Heads(q), Erased(q, t),
         ~Newest(q, t, Data(q, t).key)
  PROVE  Content' = Content
<1>1. \A k \in Keys : ~Newest(q, t, k)
  BY DEF Newest, IsCopy
<1> QED BY <1>1, ErasedQuietly, SameContent

LEMMA NewestUnique ==
  ASSUME IndInv, NEW k, NEW p \in Page, NEW s, NEW q \in Page, NEW t, Newest(p, s, k), Newest(q, t, k)
  PROVE  p = q /\ s = t
<1>1. IsCopy(p, s, k) /\ IsCopy(q, t, k)
  BY DEF Newest
<1>2. s \in Nat /\ t \in Nat /\ flash[p].seq \in Nat /\ flash[q].seq \in Nat
  BY <1>1, HeadAt DEF IsCopy, IndInv, TypeOK
<1>3. flash[q].seq < flash[p].seq \/ (p = q /\ t <= s)
  BY <1>1 DEF Newest
<1>4. flash[p].seq < flash[q].seq \/ (p = q /\ s <= t)
  BY <1>1 DEF Newest
<1> QED BY <1>2, <1>3, <1>4

\* While no key has a newer item beside an older one, its items agree.
LEMMA ItemsAgree ==
  ASSUME Pairs, ~MayBeLate, NEW k, NEW p, NEW s, NEW q, NEW t, IsCopy(p, s, k), IsCopy(q, t, k)
  PROVE  Data(p, s) = Data(q, t)
BY DEF IsCopy, Pairs, Twins, Late

\* A page is given up whose items are on another page.
LEMMA GoneCovered ==
  ASSUME IndInv, IndInv', Pairs, ~MayBeLate, NEW a \in Page, Gone(a), NEW g \in Page,
         Heads(a) # {} => g # a /\ HasSeq(g) /\ CoveredBy(a, g)
  PROVE  Content' = Content
<1>1. ASSUME NEW k \in Keys PROVE CopiesAgree(k)
  <2>1. ASSUME NEW p, NEW s, p # a
        PROVE  (IsCopy(p, s, k)' <=> IsCopy(p, s, k)) /\ (IsCopy(p, s, k) => Data(p, s)' = Data(p, s))
    <3>1. CASE p \in Page
      BY <2>1, <3>1, PageSame DEF Gone, SameItems, IsCopy
    <3>2. CASE p \notin Page
      BY <3>2 DEF IsCopy
    <3> QED BY <3>1, <3>2
  <2>2. \A s : ~IsCopy(a, s, k)'
    BY DEF Gone, IsCopy
  <2>3. ASSUME NEW p, NEW s, IsCopy(p, s, k) PROVE \E q, t : IsCopy(q, t, k)'
    <3>1. CASE p = a
      <4>1. s \in Heads(a) /\ Complete(a, s) /\ Data(a, s).key = k
        BY <2>3, <3>1 DEF IsCopy
      <4>2. PICK t \in Heads(g) : Complete(g, t) /\ Data(g, t) = Data(a, s)
        BY <4>1 DEF CoveredBy
      <4>3. IsCopy(g, t, k) /\ g # a
        BY <4>1, <4>2 DEF IsCopy
      <4> QED BY <2>1, <4>3
    <3> QED BY <2>1, <2>3, <3>1
  <2>4. \A p, s : IsCopy(p, s, k)' => \E q, t : IsCopy(q, t, k) /\ Data(q, t).val = Data(p, s)'.val
    <3> SUFFICES ASSUME NEW p, NEW s, IsCopy(p, s, k)'
                 PROVE  IsCopy(p, s, k) /\ Data(p, s).val = Data(p, s)'.val
      OBVIOUS
    <3>1. p # a
      BY <2>2
    <3> QED BY <2>1, <3>1
  <2>5. \A p, q, s, t : IsCopy(p, s, k) /\ IsCopy(q, t, k) => Data(p, s).val = Data(q, t).val
    BY ItemsAgree
  <2> QED BY <2>3, <2>4, <2>5 DEF CopiesAgree
<1> QED BY <1>1, CopiesAgreeDoes, SameContent

\* The only item of its key is erased.
LEMMA ErasedOnly ==
  ASSUME IndInv, IndInv', NEW q \in Page, NEW t \in Heads(q), Erased(q, t), NEW k \in Keys,
         Data(q, t).key = k,
         \A p \in Page : \A s \in Heads(p) : HasSeq(p) /\ Data(p, s).key = k => p = q /\ s = t
  PROVE  Content' = [Content EXCEPT ![k] = None]
<1>1. ASSUME NEW l \in Keys, l # k PROVE Content'[l] = Content[l]
  <2>1. ~Newest(q, t, l)
    BY <1>1 DEF Newest, IsCopy
  <2> QED BY <2>1, ErasedQuietly
<1>2. \A p, s : ~IsCopy(p, s, k)'
  <2> SUFFICES ASSUME NEW p \in Page, NEW s, IsCopy(p, s, k)' PROVE FALSE
    BY DEF IsCopy
  <2>1. s \in Heads(p)' /\ HasSeq(p)' /\ Data(p, s)'.key = k /\ Complete(p, s)'
    BY DEF IsCopy
  <2>2. s \in Heads(p) /\ HasSeq(p) /\ Data(p, s) = Data(p, s)'
    BY <2>1, StatesSame DEF Erased, SameItems
  <2>3. p = q /\ s = t
    BY <2>1, <2>2
  <2> QED BY <2>1, <2>3 DEF Erased
<1>3. Content'[k] = None
  BY <1>2, ContentFollows
<1>4. Content \in [Keys -> Values \cup {None}] /\ Content' \in [Keys -> Values \cup {None}]
  BY ContentObeys, ContentFollows DEF ContentLaws
<1> QED BY <1>1, <1>3, <1>4

\* An entry is stored that completes no item of the key.
LEMMA StoredBeside ==
  ASSUME IndInv, IndInv', NEW c \in Page, NEW n \in Slot, HasSeq(c), Stored(c, n), NEW k \in Keys,
         \/ Data(c, n).part = 0 /\ (Data(c, n).key # k \/ Span[Data(c, n).val] # 1)
         \/ Data(c, n).part = 1 /\ Data(c, n - 1).key # k
  PROVE  Content'[k] = Content[k]
<1>1. \A p \in Page : (HasSeq(p)' <=> HasSeq(p)) /\ flash'[p].seq = flash[p].seq
  BY StatesSame DEF Stored
<1>2. ASSUME NEW p \in Page, NEW s
      PROVE  /\ IsCopy(p, s, k)' <=> IsCopy(p, s, k)
             /\ IsCopy(p, s, k) => Data(p, s)' = Data(p, s)
  <2>1. CASE p # c
    BY <1>1, <2>1 DEF Stored, SameItems, IsCopy
  <2>2. CASE p = c /\ s \in Heads(c)
    <3>1. Data(c, s)' = Data(c, s) /\ s \in Heads(c)'
      BY <2>2, HeadAt DEF Stored
    <3>2. Data(c, s).key = k => (Complete(c, s)' <=> Complete(c, s))
      BY <2>2 DEF Stored
    <3> QED BY <1>1, <2>2, <3>1, <3>2 DEF IsCopy
  <2>3. CASE p = c /\ s \notin Heads(c)
    <3>1. s \in Heads(c)' => s = n /\ Data(c, n).part = 0
      BY <2>3 DEF Stored
    <3>2. ~IsCopy(c, s, k)'
      BY <3>1 DEF Stored, IsCopy
    <3> QED BY <2>3, <3>2 DEF IsCopy
  <2> QED BY <2>1, <2>2, <2>3
<1>3. CopiesStay(k)
  <2>1. \A p, s : (IsCopy(p, s, k) \/ IsCopy(p, s, k)') => p \in Page
    BY DEF IsCopy
  <2> QED BY <1>1, <1>2, <2>1 DEF CopiesStay
<1> QED BY <1>3, StayingCopies

-----------------------------------------------------------------------------
(* What the steps do to the value of a key.                                *)

LEMMA MountingKeeps ==
  ASSUME IndInv, IndInv', Regular, ContentInv, Mounting
  PROVE  Content' = Content
<1>0. Layout /\ Pairs /\ Whole /\ Covers
  BY DEF ContentInv
<1>1. CASE PowerOn \/ AcceptPage \/ NoDuplicate \/ NothingToRecover \/ (DiscardCopy /\ ~MustDiscard)
  <2>1. UNCHANGED flash
    BY <1>1, FlashUnchanged DEF DiscardCopy
  <2> QED BY <2>1, Unchanging, QuietSteps
<1>2. CASE RepairPage
  <2>1. CASE ItemsKept
    BY <2>1, QuietSteps
  <2>2. CASE ~ItemsKept
    <3>1. PICK p \in Page : HasSeq(p) /\ \E s \in Heads(p) :
                 /\ Erased(p, s)
                 /\ \/ s \in Broken(p)
                    \/ /\ StateOf(p) = "active"
                       /\ \E u \in Heads(p) : /\ s < u /\ u \notin Broken(p)
                                              /\ Hash[Data(p, s).key] = Hash[Data(p, u).key]
      BY <1>0, <1>2, <2>2, RepairDoes
    <3>2. PICK s \in Heads(p) :
                 /\ Erased(p, s)
                 /\ \/ s \in Broken(p)
                    \/ /\ StateOf(p) = "active"
                       /\ \E u \in Heads(p) : /\ s < u /\ u \notin Broken(p)
                                              /\ Hash[Data(p, s).key] = Hash[Data(p, u).key]
      BY <3>1
    <3>3. ASSUME Newest(p, s, Data(p, s).key) PROVE FALSE
      <4>1. s \notin Broken(p)
        BY <3>3 DEF Newest, IsCopy, Broken
      <4>2. PICK u \in Heads(p) : /\ s < u /\ u \notin Broken(p)
                                  /\ Hash[Data(p, s).key] = Hash[Data(p, u).key]
        BY <3>2, <4>1
      <4>3. Data(p, s).key = Data(p, u).key
        BY <4>2, HeadAt DEF Regular, OwnHashes
      <4>4. IsCopy(p, u, Data(p, s).key)
        BY <3>1, <4>2, <4>3 DEF IsCopy, Broken
      <4>5. flash[p].seq < flash[p].seq \/ u <= s
        BY <3>3, <4>4 DEF Newest
      <4>6. flash[p].seq \in Nat /\ s \in Nat /\ u \in Nat
        BY HeadAt DEF IndInv, TypeOK
      <4> QED BY <4>2, <4>5, <4>6
    <3> QED BY <3>2, <3>3, ErasedKeepsContent
  <2> QED BY <2>1, <2>2
<1>3. CASE MountBlank
  <2>1. \E p \in Page : ~HasSeq(p) /\ Gone(p)
    BY <1>3, TakesPage, ActivateDoes DEF Gone
  <2> QED BY <2>1, QuietSteps
<1>4. CASE DropDuplicate
  <2>1. PICK q \in Page : \E t \in KeyHeads(q, LastItem(Current).key) :
           /\ q \in Superseded /\ HasSeq(q) /\ ErasedTo(q, t, "recover")
           /\ pc = "dup" /\ listed # {}
    BY <1>0, <1>4, DropDuplicateDoes
  <2>2. PICK t \in KeyHeads(q, LastItem(Current).key) :
           /\ q \in Superseded /\ HasSeq(q) /\ ErasedTo(q, t, "recover")
           /\ pc = "dup" /\ listed # {}
    BY <2>1
  <2>3. PICK c \in Page : c = Current /\ c \in listed
    BY <2>2, CurrentIn DEF IndInv, TypeOK
  <2>4. HasSeq(c) /\ Heads(c) # {} /\ q # c /\ c \notin Superseded
    <3>1. HasSeq(c)
      BY <2>2, <2>3 DEF IndInv, PagesInv, Fresh, InMount
    <3> QED BY <2>2, <2>3, <3>1, SupersededAre
  <2>5. PICK s : s = Max(Heads(c)) /\ LastHead(c, s)
    BY <2>4, LastHeadIs
  <2>6. Complete(c, s)
    BY <1>0, <2>2, <2>4, <2>5 DEF Whole, MayBreak, Broken, LastHead
  <2>7. LastItem(Current) = Data(c, s)
    BY <2>3, <2>5 DEF LastItem, Data
  <2>8. t \in Heads(q) /\ Data(q, t).key = Data(c, s).key /\ Erased(q, t)
    BY <2>2, <2>7, KeyHeadAt DEF ErasedTo
  <2>9. Newest(c, s, Data(c, s).key)
    BY <2>2, <2>3, <2>4, <2>5, <2>6, LastNewest DEF LastIsNewest
  <2>10. ~Newest(q, t, Data(q, t).key)
    BY <2>4, <2>8, <2>9, NewestUnique
  <2> QED BY <2>8, <2>10, ErasedKeepsContent
<1>5. CASE DiscardCopy /\ MustDiscard
  <2>1. pc = "recover" /\ Freeing # {} /\ StateOf(Current) = "active"
        /\ ErasePage(Current)
    BY <1>5 DEF DiscardCopy, MustDiscard
  <2>2. PICK c \in Page : c = Current
    BY <2>1, InUse
  <2>3. PICK g \in Page : StateOf(g) = "freeing"
    BY <2>1 DEF Freeing, IndInv, TypeOK
  <2>4. Gone(c)
    BY <2>1, <2>2, ErasePageDoes DEF OnePage, Gone, HasSeq, StateOf
  <2>5. HasSeq(g) /\ g # c /\ CoveredBy(c, g) /\ ~MayBeLate
    BY <1>0, <2>1, <2>2, <2>3 DEF Covers, HasSeq, MayBeLate
  <2> QED BY <1>0, <2>4, <2>5, GoneCovered
<1> QED BY <1>1, <1>2, <1>3, <1>4, <1>5 DEF Mounting

LEMMA MovingKeeps ==
  ASSUME IndInv, IndInv', Regular, ContentInv, ContentInv', Moving
  PROVE  Content' = Content
<1>0. Layout /\ Pairs /\ Whole /\ Covers /\ Covers' /\ CopyInOrder
  BY DEF ContentInv
<1>1. CASE ActivateTarget \/ CopyDone
  <2>1. UNCHANGED flash \/ \E p \in Page : ~HasSeq(p) /\ Gone(p)
    <3>1. CASE CopyDone
      BY <3>1 DEF CopyDone
    <3>2. CASE ActivateTarget
      <4>1. UNCHANGED flash \/ Activate
        BY <3>2 DEF ActivateTarget
      <4>2. Activate => \E p \in Page : ~HasSeq(p) /\ Gone(p)
        BY ActivateDoes DEF Gone
      <4> QED BY <4>1, <4>2
    <3> QED BY <1>1, <3>1, <3>2
  <2> QED BY <2>1, Unchanging, QuietSteps
<1>2. CASE CopyHeader
  BY <1>2, HeaderDoes, QuietSteps
<1>3. CASE Reclaim
  <2>1. pc = "reclaim" /\ ErasePage(gc) /\ ~MayBeLate
    BY <1>3 DEF Reclaim, MayBeLate
  <2>2. PICK c \in Page, g \in Page : c = Current /\ g = gc /\ StateOf(g) = "freeing"
    BY <2>1, MovePages
  <2>3. Gone(g)
    BY <2>1, <2>2, ErasePageDoes DEF OnePage, Gone, HasSeq, StateOf
  <2>4. CoveredBy(g, c) /\ (Heads(g) # {} => StateOf(c) = "active")
    BY <1>0, <2>1, <2>2 DEF Covers
  <2>5. Heads(g) # {} => c # g /\ HasSeq(c)
    BY <2>2, <2>4 DEF HasSeq
  <2> QED BY <1>0, <2>1, <2>3, <2>4, <2>5, GoneCovered
<1>4. CASE CopyEntry
  <2>1. pc = "copy" /\ ~MayBeLate
    BY <1>4 DEF CopyEntry, MayBeLate
  <2>2. PICK g \in Page : g = gc /\ StateOf(g) = "freeing"
    BY <2>1, MovePages
  <2>3. PICK c \in Page, n \in Slot, m \in Slot :
              /\ StateOf(c) = "active"
              /\ \/ ItemsKept
                 \/ Stored(c, n) /\ Data(c, n) = Data(gc, m) /\ c = Current /\ m = Min(ToCopy) /\ ToCopy # {}
    BY <1>0, <1>4, CopyEntryDoes
  <2>4. CASE ItemsKept
    BY <2>4, QuietSteps
  <2>5. CASE Stored(c, n) /\ Data(c, n) = Data(gc, m) /\ c = Current /\ m = Min(ToCopy) /\ ToCopy # {}
    <3>1. \A p \in Page : (HasSeq(p)' <=> HasSeq(p)) /\ StateOf(p)' = StateOf(p)
      BY <2>5, StatesSame DEF Stored
    <3>2. CoveredBy(c, g)' /\ g # c /\ SameItems(g)
      BY <1>0, <2>2, <2>3, <2>5, <3>1 DEF Covers, Stored
    <3>3. Data(c, n) \in Pieces
      BY <2>2, <2>3, <2>5, NextToCopy, ItemAt DEF Data
    <3>4. ASSUME NEW s \in Heads(c)
          PROVE  s \in Heads(c)' /\ Data(c, s)' = Data(c, s) /\ (Complete(c, s) => Complete(c, s)')
      BY <2>5, <3>3, HeadAt DEF Stored, Pieces
    <3>5. ASSUME NEW k \in Keys PROVE CopiesAgree(k)
      <4>1. ASSUME NEW p, NEW s, IsCopy(p, s, k) PROVE \E q, t : IsCopy(q, t, k)'
        <5>1. IsCopy(p, s, k)'
          <6>1. CASE p = c
            BY <3>1, <3>4, <4>1, <6>1 DEF IsCopy
          <6>2. CASE p # c
            BY <2>5, <3>1, <4>1, <6>2 DEF IsCopy, Stored, SameItems
          <6> QED BY <6>1, <6>2
        <5> QED BY <5>1
      <4>2. ASSUME NEW p, NEW s, IsCopy(p, s, k)'
            PROVE  \E q, t : IsCopy(q, t, k) /\ Data(q, t).val = Data(p, s)'.val
        <5>1. CASE p = c
          <6>1. s \in Heads(c)' /\ Complete(c, s)' /\ Data(c, s)'.key = k
            BY <4>2, <5>1 DEF IsCopy
          <6>2. PICK t \in Heads(g)' : Complete(g, t)' /\ Data(g, t)' = Data(c, s)'
            BY <3>2, <6>1 DEF CoveredBy
          <6>3. t \in Heads(g) /\ Complete(g, t) /\ Data(g, t) = Data(c, s)'
            BY <3>2, <6>2 DEF SameItems
          <6>4. IsCopy(g, t, k)
            BY <2>2, <6>1, <6>3 DEF IsCopy, HasSeq
          <6> QED BY <5>1, <6>3, <6>4
        <5>2. CASE p # c
          <6>1. IsCopy(p, s, k) /\ Data(p, s)' = Data(p, s)
            BY <2>5, <3>1, <4>2, <5>2 DEF IsCopy, Stored, SameItems
          <6> QED BY <6>1
        <5> QED BY <5>1, <5>2
      <4>3. \A p, q, s, t : IsCopy(p, s, k) /\ IsCopy(q, t, k) => Data(p, s).val = Data(q, t).val
        BY <1>0, <2>1, ItemsAgree
      <4> QED BY <4>1, <4>2, <4>3 DEF CopiesAgree
    <3> QED BY <3>5, CopiesAgreeDoes, SameContent
  <2> QED BY <2>3, <2>4, <2>5
<1> QED BY <1>1, <1>2, <1>3, <1>4 DEF Moving

KeysAreKeys == IndInv => \A p \in Page : \A s \in Heads(p) : Data(p, s).key \in Keys

LEMMA KeysOfItems == KeysAreKeys
BY HeadAt DEF KeysAreKeys

LEMMA LastFollows ==
  ASSUME IndInv', pc' \notin {"off", "load"}, listed' # {},
         NEW c \in Page, NEW s, c = Current', HasSeq(c)', LastHead(c, s)', Complete(c, s)'
  PROVE  Content'[Data(c, s)'.key] = Data(c, s)'.val
<1>1. LastIsNewest'
  BY LastNewest, PTL
<1>2. \A k : Data(c, s)'.key = k => Newest(c, s, k)'
  BY <1>1 DEF LastIsNewest
<1>3. Data(c, s)'.key \in Keys
  <2>1. KeysAreKeys'
    BY KeysOfItems, PTL
  <2> QED BY <2>1 DEF KeysAreKeys, LastHead
<1> QED BY <1>2, <1>3, ContentFollows

LEMMA WritingKeeps ==
  ASSUME IndInv, IndInv', ContentInv,
         \/ WriteNothing \/ WriteFind \/ PutHeader \/ PutEntry \/ PutData \/ ClosePage \/ StillFull
         \/ TakeFreePage \/ StartFreeing \/ NoNewPage \/ DropNothing \/ EraseFind \/ EraseMissing
         \/ Finish \/ EraseAllDone \/ BeginCall
  PROVE  Content' = Content
<1>0. Layout /\ Storing
  BY DEF ContentInv
<1>1. CASE \/ WriteNothing \/ WriteFind \/ StillFull \/ NoNewPage \/ DropNothing \/ EraseFind
           \/ EraseMissing \/ Finish \/ EraseAllDone \/ BeginCall
  BY <1>1, FlashUnchanged, Unchanging, QuietSteps
<1>2. CASE PutHeader
  BY <1>2, HeaderDoes, QuietSteps
<1>3. CASE PutEntry \/ PutData
  BY <1>0, <1>3, PutDoes, QuietSteps
<1>4. CASE ClosePage \/ StartFreeing
  BY <1>4, ClosePageDoes, StartFreeingDoes, QuietSteps
<1>5. CASE TakeFreePage
  <2>1. \E p \in Page : ~HasSeq(p) /\ Gone(p)
    BY <1>5, TakesPage, ActivateDoes DEF Gone
  <2> QED BY <2>1, QuietSteps
<1> QED BY <1>1, <1>2, <1>3, <1>4, <1>5

\* The step that completes the new item makes it the value of its key.
LEMMA PuttingWrites ==
  ASSUME IndInv, IndInv', ContentInv, PutEntryState \/ PutDataState
  PROVE  \/ pc' = "drop" /\ op.kind = "write" /\ Content' = [Content EXCEPT ![op.key] = op.val]
         \/ pc' = "data" /\ Content' = Content
<1>0. Layout /\ Whole /\ Storing
  BY DEF ContentInv
<1>1. op.key \in Keys /\ op.val \in Values /\ op.kind = "write" /\ Span[op.val] \in {1, 2}
      /\ pc \in {"put_state", "data_state"}
  BY Operands, ItemAssumption DEF PutEntryState, PutDataState, IndInv, PagesInv, Pending
<1>2. UNCHANGED ram /\ KeepsHeaders
  BY <1>0, PutEntryStateDoes, PutDataStateDoes
<1>3. Content \in [Keys -> Values \cup {None}] /\ Content' \in [Keys -> Values \cup {None}]
  BY ContentObeys, ContentFollows DEF ContentLaws
<1>4. listed # {} /\ UNCHANGED listed
  BY <1>1, <1>2, InUse DEF InCall, ram
<1>5. CASE PutEntryState
  <2>1. pc' = IF Span[op.val] = 1 THEN "drop" ELSE "data"
    BY <1>0, <1>5, PutEntryStateDoes
  <2>2. PICK c \in Page, n \in Slot :
              /\ c = Current /\ n = NextFree(c) /\ Stored(c, n) /\ HasSeq(c)
              /\ Data(c, n) = Piece(op.key, op.val, 0)
    BY <1>0, <1>5, PutEntryStateDoes
  <2>3. Current' = c /\ HasSeq(c)'
    BY <1>2, <1>4, <2>2, CurrentKept, StatesSame DEF KeepsHeaders, ram
  <2>4. Data(c, n).key = op.key /\ Data(c, n).val = op.val /\ Data(c, n).part = 0 /\ Data(c, n)' = Data(c, n)
    BY <2>2 DEF Piece, Stored
  <2>5. \A k \in Keys : (k # op.key \/ Span[op.val] # 1) => Content'[k] = Content[k]
    BY <2>2, <2>4, StoredBeside
  <2>6. CASE Span[op.val] = 1
    <3>1. LastHead(c, n)' /\ Complete(c, n)'
      <4>1. \A t \in Heads(c) : t <= n
        BY <2>2, HeadAt DEF Stored, Slot
      <4> QED BY <2>2, <2>4, <2>6, <4>1 DEF Stored, LastHead, Slot
    <3>2. Content'[Data(c, n)'.key] = Data(c, n)'.val
      BY <1>4, <2>1, <2>3, <2>6, <3>1, LastFollows
    <3>3. Content'[op.key] = op.val
      BY <2>4, <3>2
    <3> QED BY <1>1, <1>3, <2>1, <2>5, <2>6, <3>3
  <2>7. CASE Span[op.val] # 1
    BY <1>3, <2>1, <2>5, <2>7
  <2> QED BY <2>6, <2>7
<1>6. CASE PutDataState
  <2>1. pc' = "drop"
    BY <1>0, <1>6, PutDataStateDoes
  <2>2. PICK c \in Page, n \in Slot :
              /\ c = Current /\ n = NextFree(c) /\ Stored(c, n) /\ HasSeq(c)
              /\ Data(c, n).part = 1 /\ n - 1 \in Heads(c)
              /\ Data(c, n - 1) = Piece(op.key, op.val, 0)
    BY <1>0, <1>6, PutDataStateDoes
  <2>3. Current' = c /\ HasSeq(c)'
    BY <1>2, <1>4, <2>2, CurrentKept, StatesSame DEF KeepsHeaders, ram
  <2>4. Data(c, n - 1).key = op.key /\ Data(c, n - 1).val = op.val /\ n - 1 \in Slot
        /\ Data(c, n - 1)' = Data(c, n - 1)
    BY <2>2, HeadAt DEF Piece, Stored
  <2>5. \A k \in Keys : k # op.key => Content'[k] = Content[k]
    BY <2>2, <2>4, StoredBeside
  <2>6. LastHead(c, n - 1)' /\ Complete(c, n - 1)'
    <3>1. \A t \in Heads(c) : t <= n - 1
      <4> SUFFICES ASSUME NEW t \in Heads(c) PROVE t <= n - 1
        OBVIOUS
      <4>1. t < n /\ t \in Nat /\ n \in Nat
        BY <2>2, HeadAt DEF Stored, Slot
      <4> QED BY <4>1
    <3> QED BY <2>2, <3>1 DEF Stored, LastHead
  <2>7. Content'[Data(c, n - 1)'.key] = Data(c, n - 1)'.val
    BY <1>4, <2>1, <2>3, <2>6, LastFollows
  <2>8. Content'[op.key] = op.val
    BY <2>4, <2>7
  <2> QED BY <1>1, <1>3, <2>1, <2>5, <2>8
<1> QED BY <1>5, <1>6

LEMMA CallKinds ==
  ASSUME IndInv, op # NoRequest
  PROVE  /\ op \in Requests
         /\ op.kind \in {"write", "erase"} => op.key \in Keys
         /\ op.kind = "write" => op.val \in Values
<1>1. op \in Requests
  BY DEF IndInv, TypeOK
<1> QED BY <1>1 DEF Requests, WriteRequest, EraseRequest, EraseAllRequest, Request

LEMMA DroppingErases ==
  ASSUME IndInv, IndInv', Regular, ContentInv, DropOld
  PROVE  /\ pc = "drop" /\ pc' \in {"drop", "return"} /\ UNCHANGED ram /\ op # NoRequest
         /\ \/ op.kind = "write" /\ Content' = Content
            \/ op.kind = "erase" /\ Content' = [Content EXCEPT ![op.key] = None]
<1>0. Layout /\ Pairs /\ Whole /\ Storing /\ OldKnown
  BY DEF ContentInv
<1>1. PICK q \in Page : \E t \in Heads(q) :
        HasSeq(q) /\ Elder(q, t) /\ ErasedTo(q, t, "return") /\ pc = "drop" /\ UNCHANGED ram
  BY <1>0, DropOldDoes
<1>2. PICK t \in Heads(q) :
        HasSeq(q) /\ Elder(q, t) /\ ErasedTo(q, t, "return") /\ pc = "drop" /\ UNCHANGED ram
  BY <1>1
<1>3. op # NoRequest /\ op.kind \in {"write", "erase"}
  BY <1>0, <1>2 DEF OldKnown, InCall, InWrite
<1>4. op.key \in Keys /\ Erased(q, t) /\ Data(q, t).key = op.key /\ pc' \in {"drop", "return"}
  BY <1>2, <1>3, CallKinds DEF ErasedTo, Elder
<1>5. CASE op.kind = "erase"
  <2>1. \A p \in Page : \A s \in Heads(p) : HasSeq(p) /\ Data(p, s).key = op.key => p = q /\ s = t
    <3> SUFFICES ASSUME NEW p \in Page, NEW s \in Heads(p), HasSeq(p), Data(p, s).key = op.key
                 PROVE  p = q /\ s = t
      OBVIOUS
    <3>1. Elder(p, s)
      BY <1>5 DEF Elder, NewItem
    <3> QED BY <1>0, <1>2, <3>1, ElderUnique DEF InCall
  <2> QED BY <1>2, <1>3, <1>4, <1>5, <2>1, ErasedOnly
<1>6. CASE op.kind = "write"
  <2>1. listed # {} /\ Current \in Page /\ StateOf(Current) = "active"
    BY <1>0, <1>2, <1>6, InUse DEF InCall, Storing
  <2>2. PICK s \in Heads(Current) : LastHead(Current, s) /\ Data(Current, s) = Piece(op.key, op.val, 0)
    BY <1>0, <1>2, <1>6 DEF Storing
  <2>3. PICK c \in Page : c = Current
    BY <2>1
  <2>4. NewItem(c, s) /\ Data(c, s).key = op.key /\ HasSeq(c) /\ s \in Heads(c)
    BY <1>2, <1>6, <2>1, <2>2, <2>3 DEF NewItem, Piece, HasSeq
  <2>5. Complete(c, s)
    BY <1>0, <1>2, <2>4 DEF Whole, MayBreak, Elder, Broken
  <2>6. Newest(c, s, op.key)
    BY <1>2, <2>1, <2>2, <2>3, <2>4, <2>5, LastNewest DEF LastIsNewest
  <2>7. ~Newest(q, t, op.key)
    BY <1>2, <2>4, <2>6, NewestUnique DEF Elder
  <2> QED BY <1>2, <1>3, <1>4, <1>6, <2>7, ErasedKeepsContent
<1> QED BY <1>3, <1>5, <1>6

LEMMA NamespaceErases ==
  ASSUME IndInv, IndInv', ContentInv, EraseAllStep
  PROVE  /\ pc = "find" /\ pc' = "find" /\ UNCHANGED ram /\ op.kind = "erase_all"
         /\ \E k \in Keys : NsOf[k] = op.ns /\ Content' = [Content EXCEPT ![k] = None]
<1>0. Layout
  BY DEF ContentInv
<1>1. PICK q \in Page : \E t \in Heads(q) :
           /\ HasSeq(q) /\ NsOf[Data(q, t).key] = op.ns /\ ErasedTo(q, t, "find")
           /\ pc = "find" /\ op.kind = "erase_all" /\ UNCHANGED ram
  BY <1>0, EraseAllStepDoes
<1>2. PICK t \in Heads(q) :
           /\ HasSeq(q) /\ NsOf[Data(q, t).key] = op.ns /\ ErasedTo(q, t, "find")
           /\ pc = "find" /\ op.kind = "erase_all" /\ UNCHANGED ram
  BY <1>1
<1>3. PICK k \in Keys : k = Data(q, t).key
  BY HeadAt
<1>4. \A p \in Page : \A s \in Heads(p) : HasSeq(p) /\ Data(p, s).key = k => p = q /\ s = t
  BY <1>2, <1>3, OneItem DEF InCall
<1>5. Content' = [Content EXCEPT ![k] = None]
  BY <1>2, <1>3, <1>4, ErasedOnly DEF ErasedTo
<1> QED BY <1>2, <1>3, <1>5 DEF ErasedTo

LEMMA PowerLossKeeps ==
  ASSUME IndInv, IndInv', ContentInv, PowerLoss
  PROVE  Content' = Content
<1>0. Pairs /\ Covers
  BY DEF ContentInv
<1>1. CASE UNCHANGED flash
  BY <1>1, Unchanging, QuietSteps
<1>2. CASE ~ UNCHANGED flash
  <2>1. PICK p \in TornPage : flash' = [flash EXCEPT ![p] = [ErasedPage EXCEPT !.st = "corrupt"]]
    BY <1>2 DEF PowerLoss
  <2>2. \/ pc = "put" /\ StateOf(Current) = "uninit" /\ p = Current
        \/ pc = "copy" /\ StateOf(Current) = "uninit" /\ p = Current
        \/ pc = "recover" /\ Freeing # {} /\ StateOf(Current) = "active" /\ p = Current
        \/ pc = "reclaim" /\ p = gc
    BY <2>1 DEF TornPage, MustDiscard
  <2>3. p \in Page
    BY <2>2, InUse, MovePages DEF InCall
  <2>4. Gone(p)
    BY <2>1, <2>3 DEF Gone, HasSeq, StateOf, ErasedPage, IndInv, TypeOK
  <2>5. CASE ~HasSeq(p)
    BY <2>3, <2>4, <2>5, QuietSteps
  <2>6. CASE pc = "recover" /\ Freeing # {} /\ StateOf(Current) = "active" /\ p = Current
    <3>1. PICK g \in Page : StateOf(g) = "freeing"
      BY <2>6 DEF Freeing, IndInv, TypeOK
    <3>2. HasSeq(g) /\ g # p /\ CoveredBy(p, g) /\ ~MayBeLate
      BY <1>0, <2>3, <2>6, <3>1 DEF Covers, HasSeq, MayBeLate
    <3> QED BY <1>0, <2>3, <2>4, <3>2, GoneCovered
  <2>7. CASE pc = "reclaim" /\ p = gc
    <3>1. PICK c \in Page : c = Current
      BY <2>7, MovePages
    <3>2. CoveredBy(p, c) /\ (Heads(p) # {} => StateOf(c) = "active") /\ StateOf(p) = "freeing"
      BY <1>0, <2>7, <3>1, MovePages DEF Covers
    <3>3. (Heads(p) # {} => c # p /\ HasSeq(c)) /\ ~MayBeLate
      BY <2>7, <3>2 DEF HasSeq, MayBeLate
    <3> QED BY <1>0, <2>3, <2>4, <3>1, <3>2, <3>3, GoneCovered
  <2> QED BY <2>2, <2>5, <2>6, <2>7 DEF HasSeq
<1> QED BY <1>1, <1>2

-----------------------------------------------------------------------------
(* The library implements the abstract key store.                          *)

\* A running write has not taken effect before its item is complete; after
\* that, and when the old item is gone, the call only has to return.
Before == {"put", "put_state", "data", "data_state", "new_page"} \cup InMove
Result ==
  /\ pc \in Before /\ op # NoRequest => Content[op.key] # op.val
  /\ pc = "drop" /\ op.kind = "write" => Content[op.key] = op.val
  /\ pc = "return" => \/ op.kind = "write" /\ Content[op.key] = op.val
                      \/ op.kind = "erase" /\ Content[op.key] = None

LEMMA FindTells ==
  ASSUME IndInv, Regular, ContentInv, pc = "find", op.kind # "erase_all",
         NEW k \in Keys, NEW types, AnyType(types)
  PROVE  /\ Find(k, types) = NoPlace => Content[k] = None
         /\ Find(k, types) # NoPlace => ValueAt(Find(k, types)) = Content[k]
<1>1. CASE Find(k, types) = NoPlace /\ \A p \in Page : HasSeq(p) => KeyHeads(p, k) = {}
  <2>1. \A p, s : ~IsCopy(p, s, k)
    BY <1>1 DEF IsCopy, KeyHeads, Data
  <2>2. Content[k] = None
    BY <2>1, ContentObeys DEF ContentLaws
  <2> QED BY <1>1, <2>2
<1>2. CASE \E p, s : FirstItem(p, s, k) /\ Find(k, types) = Place(p, s) /\ Find(k, types) # NoPlace
  <2>1. PICK p, s : FirstItem(p, s, k) /\ Find(k, types) = Place(p, s) /\ Find(k, types) # NoPlace
    BY <1>2
  <2>2. p \in Page /\ HasSeq(p) /\ s \in Heads(p) /\ Data(p, s).key = k
    BY <2>1, KeyHeadAt DEF FirstItem
  <2>3. Complete(p, s)
    BY <2>2 DEF ContentInv, Whole, MayBreak, Broken
  <2>4. \A q \in Page : \A t : IsCopy(q, t, k) => q = p /\ t = s
    BY <2>2, OneItem DEF IsCopy, InCall
  <2>5. Newest(p, s, k)
    BY <2>2, <2>3, <2>4, HeadAt DEF Newest, IsCopy
  <2>6. Content[k] = Data(p, s).val
    BY <2>2, <2>5, ContentIs
  <2> QED BY <2>1, <2>6 DEF ValueAt, Place, Data
<1> QED BY <1>1, <1>2, FindIs

LEMMA ExistingTells ==
  ASSUME IndInv, Regular, ContentInv, pc = "find", op.kind = "write", op # NoRequest
  PROVE  SameValue <=> Content[op.key] = op.val
<1>1. op.key \in Keys /\ op.val \in Values /\ op.val # None
  BY CallKinds, NoneAssumption
<1>2. AnyType({TypeOf[op.val]}) /\ AnyType(Types)
  BY <1>1, AnyTypes
<1> DEFINE same == Find(op.key, {TypeOf[op.val]})
           any == Find(op.key, Types)
<1>3. /\ same # NoPlace => ValueAt(same) = Content[op.key]
      /\ any = NoPlace => Content[op.key] = None
      /\ any # NoPlace => ValueAt(any) = Content[op.key]
  BY <1>1, <1>2, FindTells
<1>4. Existing = IF same # NoPlace THEN same ELSE any
  BY DEF Existing
<1> HIDE DEF same, any
<1>5. Existing = NoPlace => Content[op.key] = None
  BY <1>3, <1>4
<1>6. Existing # NoPlace => ValueAt(Existing) = Content[op.key]
  BY <1>3, <1>4
<1> QED BY <1>1, <1>5, <1>6 DEF SameValue

Refines == [Abstract!Next]_(Abstract!storeVars)

LEMMA RefinesBy ==
  ASSUME Content' = Content, UNCHANGED <<op, res>>
  PROVE  Refines
BY DEF Refines, Abstract!storeVars

LEMMA MountRefines ==
  ASSUME IndInv, IndInv', Regular, ContentInv, Mounting
  PROVE  Refines /\ Result'
<1>1. Content' = Content
  BY MountingKeeps
<1>2. /\ UNCHANGED <<op, res>> /\ pc \in InMount
      /\ pc' \in {"load", "dup", "recover", "idle", "failed", "activate"}
  BY DEF Mounting, PowerOn, RepairPage, AcceptPage, MountBlank, DropDuplicate, EraseItemStep,
         NoDuplicate, NothingToRecover, DiscardCopy, ram, InMount
<1>3. op' = NoRequest
  BY <1>2 DEF IndInv, PagesInv, Pending
<1> QED BY <1>1, <1>2, <1>3, RefinesBy DEF Result

LEMMA MoveRefines ==
  ASSUME IndInv, IndInv', Regular, ContentInv, ContentInv', Result, Moving
  PROVE  Refines /\ Result'
<1>1. Content' = Content
  BY MovingKeeps
<1>2. UNCHANGED <<op, res>> /\ pc \in InMove /\ pc' \in InMove \cup {"failed", "idle", "put"}
  BY DEF Moving, ActivateTarget, CopyHeader, CopyEntry, CopyDone, Reclaim, ram, InMove
<1>3. Result'
  BY <1>1, <1>2 DEF Result, Before, InMove
<1> QED BY <1>1, <1>2, <1>3, RefinesBy

Done ==
  CASE op.kind = "write"     -> Content[op.key] = op.val
    [] op.kind = "erase"     -> Content[op.key] = None
    [] op.kind = "erase_all" -> \A k \in Keys : NsOf[k] = op.ns => Content[k] = None
    [] OTHER                 -> FALSE

LEMMA AbstractSteps ==
  /\ Abstract!storeVars = <<Content, op, res>>
  /\ Abstract!Applied <=> Done
  /\ Abstract!Begin <=> op = NoRequest /\ op' \in Requests /\ res' = "none" /\ Content' = Content
  /\ Abstract!PowerLoss <=> op' = NoRequest /\ res' = "none" /\ Content' = Content
  /\ Abstract!Succeed <=>
       op # NoRequest /\ Done /\ op' = NoRequest /\ res' = "ok" /\ Content' = Content
  /\ Abstract!Refuse <=>
       /\ \/ op.kind = "write" /\ ~Done /\ res' = "no_space"
          \/ op.kind = "erase" /\ Done /\ res' = "not_found"
       /\ op' = NoRequest /\ Content' = Content
  /\ Abstract!Apply <=>
       /\ ~Done
       /\ \/ op.kind = "write" /\ Content' = [Content EXCEPT ![op.key] = op.val]
          \/ op.kind = "erase" /\ Content' = [Content EXCEPT ![op.key] = None]
          \/ /\ op.kind = "erase_all"
             /\ \E k \in Keys : /\ NsOf[k] = op.ns /\ Content[k] # None
                                /\ Content' = [Content EXCEPT ![k] = None]
       /\ UNCHANGED <<op, res>>
<1>1. Abstract!NoRequest = NoRequest /\ Abstract!Requests = Requests
  BY DEF Abstract!NoRequest, NoRequest,
       Abstract!Requests, Requests, Abstract!Request, Request, Abstract!WriteRequest, WriteRequest,
       Abstract!EraseRequest, EraseRequest, Abstract!EraseAllRequest, EraseAllRequest
<1>2. Abstract!InNamespace(op.ns) = {k \in Keys : NsOf[k] = op.ns /\ Content[k] # None}
  BY DEF Abstract!InNamespace
<1>3. Abstract!Applied <=> Done
  BY <1>2 DEF Abstract!Applied, Done
<1>4. Abstract!storeVars = <<Content, op, res>>
  BY DEF Abstract!storeVars
<1>5. /\ Abstract!Begin <=> op = NoRequest /\ op' \in Requests /\ res' = "none" /\ Content' = Content
      /\ Abstract!PowerLoss <=> op' = NoRequest /\ res' = "none" /\ Content' = Content
  BY <1>1 DEF Abstract!Begin, Abstract!PowerLoss
<1>6. Abstract!Succeed <=>
        op # NoRequest /\ Done /\ op' = NoRequest /\ res' = "ok" /\ Content' = Content
  BY <1>1, <1>3 DEF Abstract!Succeed
<1>7. Abstract!Refuse <=>
       /\ \/ op.kind = "write" /\ ~Done /\ res' = "no_space"
          \/ op.kind = "erase" /\ Done /\ res' = "not_found"
       /\ op' = NoRequest /\ Content' = Content
  BY <1>1, <1>3 DEF Abstract!Refuse
<1>8. Abstract!Apply <=>
       /\ ~Done
       /\ \/ op.kind = "write" /\ Content' = [Content EXCEPT ![op.key] = op.val]
          \/ op.kind = "erase" /\ Content' = [Content EXCEPT ![op.key] = None]
          \/ /\ op.kind = "erase_all"
             /\ \E k \in Keys : /\ NsOf[k] = op.ns /\ Content[k] # None
                                /\ Content' = [Content EXCEPT ![k] = None]
       /\ UNCHANGED <<op, res>>
  BY <1>2, <1>3 DEF Abstract!Apply
<1> QED BY <1>3, <1>4, <1>5, <1>6, <1>7, <1>8

LEMMA CallRefines ==
  ASSUME IndInv, IndInv', ContentInv, BeginCall \/ PowerLoss
  PROVE  Refines /\ Result'
<1>1. CASE BeginCall
  <2>1. Content' = Content
    BY <1>1, WritingKeeps
  <2>2. op = NoRequest /\ op' \in Requests /\ res' = "none" /\ pc' = "find"
    BY <1>1 DEF BeginCall, Ready, ContentInv, OldKnown
  <2> QED BY <2>1, <2>2, AbstractSteps DEF Refines, Abstract!Next, Result, Before, InMove
<1>2. CASE PowerLoss
  <2>1. Content' = Content
    BY <1>2, PowerLossKeeps
  <2>2. op' = NoRequest /\ res' = "none" /\ pc' = "off"
    BY <1>2 DEF PowerLoss, PowerOff
  <2> QED BY <2>1, <2>2, AbstractSteps DEF Refines, Abstract!Next, Result, Before, InMove
<1> QED BY <1>1, <1>2

LEMMA CallRuns ==
  ASSUME IndInv, ContentInv, pc \in InCall \ {"idle"}
  PROVE  op # NoRequest /\ op \in Requests
BY CallKinds DEF ContentInv, OldKnown

LEMMA ReturnRefines ==
  ASSUME IndInv, IndInv', Regular, ContentInv, Result,
         \/ WriteNothing \/ DropNothing \/ Finish \/ EraseAllDone
         \/ StillFull \/ NoNewPage \/ EraseMissing
  PROVE  Refines /\ Result'
<1>1. Content' = Content
  BY WritingKeeps
<1>2. pc' = "idle" /\ op' = NoRequest /\ Result'
  BY DEF WriteNothing, DropNothing, Finish, EraseAllDone, StillFull, NoNewPage, EraseMissing, Return,
         Result, Before, InMove
<1>3. op # NoRequest /\ op \in Requests
  BY CallRuns DEF WriteNothing, DropNothing, Finish, EraseAllDone, StillFull, NoNewPage, EraseMissing, InCall
<1>4. CASE WriteNothing
  <2>1. Content[op.key] = op.val /\ op.kind = "write" /\ res' = "ok"
    BY <1>3, <1>4, ExistingTells DEF WriteNothing, Return
  <2> QED BY <1>1, <1>2, <1>3, <2>1, AbstractSteps DEF Done, Refines, Abstract!Next
<1>5. CASE DropNothing
  <2>1. pc = "drop" /\ op.kind = "write" /\ res' = "ok"
    BY <1>3, <1>5 DEF DropNothing, Return, ContentInv, OldKnown, InWrite
  <2>2. Content[op.key] = op.val
    BY <2>1 DEF Result
  <2> QED BY <1>1, <1>2, <1>3, <2>1, <2>2, AbstractSteps DEF Done, Refines, Abstract!Next
<1>6. CASE Finish
  <2>1. res' = "ok" /\ \/ op.kind = "write" /\ Content[op.key] = op.val
                       \/ op.kind = "erase" /\ Content[op.key] = None
    BY <1>6 DEF Finish, Return, Result
  <2> QED BY <1>1, <1>2, <1>3, <2>1, AbstractSteps DEF Done, Refines, Abstract!Next
<1>7. CASE EraseAllDone
  <2>1. pc = "find" /\ op.kind = "erase_all" /\ NsPages = {} /\ res' = "ok"
    BY <1>7 DEF EraseAllDone, Return
  <2>2. ASSUME NEW k \in Keys, NsOf[k] = op.ns PROVE Content[k] = None
    <3>1. \A p, s : ~IsCopy(p, s, k)
      <4> SUFFICES ASSUME NEW p \in Page, NEW s, IsCopy(p, s, k) PROVE FALSE
        BY DEF IsCopy
      <4>1. p \in listed /\ HasSeq(p) /\ s \in NsHeads(p)
        BY <2>1, <2>2, InUseAreListed DEF IsCopy, NsHeads, Data
      <4> QED BY <2>1, <4>1 DEF NsPages
    <3> QED BY <3>1, ContentObeys DEF ContentLaws
  <2> QED BY <1>1, <1>2, <1>3, <2>1, <2>2, AbstractSteps DEF Done, Refines, Abstract!Next
<1>8. CASE StillFull \/ NoNewPage
  <2>1. pc \in {"put", "new_page"} /\ op.kind = "write" /\ Content[op.key] # op.val
    BY <1>3, <1>8 DEF StillFull, NoNewPage, Result, Before, IndInv, PagesInv, Pending
  <2>2. res' = "no_space"
    BY <1>8, <2>1 DEF StillFull, NoNewPage, Return, IndInv, PagesInv, Spare, InCall
  <2> QED BY <1>1, <1>2, <1>3, <2>1, <2>2, AbstractSteps DEF Done, Refines, Abstract!Next
<1>9. CASE EraseMissing
  <2>1. pc = "find" /\ op.kind = "erase" /\ Find(op.key, Types) = NoPlace /\ res' = "not_found"
    BY <1>9 DEF EraseMissing, Return
  <2>2. Content[op.key] = None
    BY <1>3, <2>1, CallKinds, AnyTypes, FindTells
  <2> QED BY <1>1, <1>2, <1>3, <2>1, <2>2, AbstractSteps DEF Done, Refines, Abstract!Next
<1> QED BY <1>4, <1>5, <1>6, <1>7, <1>8, <1>9

LEMMA WriteRefines ==
  ASSUME IndInv, IndInv', Regular, ContentInv, Result,
         \/ WriteFind \/ EraseFind \/ PutHeader \/ PutEntry \/ PutData \/ ClosePage
         \/ TakeFreePage \/ StartFreeing \/ PutEntryState \/ PutDataState
  PROVE  Refines /\ Result'
<1>1. CASE PutHeader \/ PutEntry \/ PutData \/ ClosePage \/ TakeFreePage \/ StartFreeing
  <2>1. Content' = Content
    BY <1>1, WritingKeeps
  <2>2. UNCHANGED <<op, res>> /\ pc \in Before /\ pc' \in Before
    BY <1>1 DEF PutHeader, PutEntry, PutData, ClosePage, TakeFreePage, StartFreeing, ram, Before, InMove
  <2>3. Result'
    BY <2>1, <2>2 DEF Result, Before, InMove
  <2> QED BY <2>1, <2>2, <2>3, RefinesBy
<1>2. CASE EraseFind
  <2>1. Content' = Content /\ UNCHANGED <<op, res>> /\ pc' = "drop" /\ op.kind = "erase"
    BY <1>2, WritingKeeps DEF EraseFind
  <2> QED BY <2>1, RefinesBy DEF Result, Before, InMove
<1>3. CASE WriteFind
  <2>1. Content' = Content /\ UNCHANGED <<op, res>> /\ pc' = "put"
    BY <1>3, WritingKeeps DEF WriteFind
  <2>2. op # NoRequest /\ pc = "find" /\ op.kind = "write" /\ ~SameValue
    BY <1>3, CallRuns DEF WriteFind, InCall
  <2>3. Content[op.key] # op.val
    BY <2>2, ExistingTells
  <2> QED BY <2>1, <2>3, RefinesBy DEF Result, Before, InMove
<1>4. CASE PutEntryState \/ PutDataState
  <2>1. /\ pc \in {"put_state", "data_state"} /\ UNCHANGED <<op, res>>
        /\ op # NoRequest /\ Content[op.key] # op.val
    BY <1>4, CallRuns DEF PutEntryState, PutDataState, ram, InCall, Result, Before
  <2>2. CASE pc' = "data" /\ Content' = Content
    BY <2>1, <2>2, RefinesBy DEF Result, Before, InMove
  <2>3. CASE pc' = "drop" /\ op.kind = "write" /\ Content' = [Content EXCEPT ![op.key] = op.val]
    <3>1. ~Done
      BY <2>1, <2>3 DEF Done
    <3>2. Refines
      BY <2>1, <2>3, <3>1, AbstractSteps DEF Refines, Abstract!Next
    <3>3. op.key \in Keys /\ DOMAIN Content = Keys
      BY <2>1, <2>3, CallKinds DEF Content
    <3>4. Content'[op.key] = op.val
      BY <2>3, <3>3
    <3> QED BY <2>1, <2>3, <3>2, <3>4 DEF Result, Before, InMove
  <2> QED BY <1>4, <2>2, <2>3, PuttingWrites
<1> QED BY <1>1, <1>2, <1>3, <1>4

LEMMA EraseRefines ==
  ASSUME IndInv, IndInv', Regular, ContentInv, Result, DropOld \/ EraseAllStep
  PROVE  Refines /\ Result'
<1>0. Content \in [Keys -> Values \cup {None}]
  BY ContentObeys DEF ContentLaws
<1>1. CASE DropOld
  <2>1. pc = "drop" /\ pc' \in {"drop", "return"} /\ UNCHANGED <<op, res>> /\ op # NoRequest
    BY <1>1, DroppingErases DEF ram
  <2>2. CASE op.kind = "write" /\ Content' = Content
    BY <2>1, <2>2, RefinesBy DEF Result, Before, InMove
  <2>3. CASE op.kind = "erase" /\ Content' = [Content EXCEPT ![op.key] = None]
    <3>1. op.key \in Keys /\ Content'[op.key] = None
      BY <1>0, <2>1, <2>3, CallKinds
    <3>2. Result'
      BY <2>1, <2>3, <3>1 DEF Result, Before, InMove
    <3>3. CASE Content[op.key] = None
      <4>1. Content' = Content
        BY <1>0, <2>3, <3>1, <3>3
      <4> QED BY <2>1, <3>2, <4>1, RefinesBy
    <3>4. CASE Content[op.key] # None
      <4>1. ~Done
        BY <2>3, <3>4 DEF Done
      <4> QED BY <2>1, <2>3, <3>2, <4>1, AbstractSteps DEF Refines, Abstract!Next
    <3> QED BY <3>3, <3>4
  <2> QED BY <1>1, <2>2, <2>3, DroppingErases
<1>2. CASE EraseAllStep
  <2>1. /\ pc = "find" /\ pc' = "find" /\ UNCHANGED <<op, res>> /\ op.kind = "erase_all"
    BY <1>2, NamespaceErases DEF ram
  <2>2. PICK k \in Keys : NsOf[k] = op.ns /\ Content' = [Content EXCEPT ![k] = None]
    BY <1>2, NamespaceErases
  <2>3. Result'
    BY <2>1 DEF Result, Before, InMove
  <2>4. CASE Content[k] = None
    <3>1. Content' = Content
      BY <1>0, <2>2, <2>4
    <3> QED BY <2>1, <2>3, <3>1, RefinesBy
  <2>5. CASE Content[k] # None
    <3>1. ~Done
      BY <2>1, <2>2, <2>5 DEF Done
    <3> QED BY <2>1, <2>2, <2>3, <2>5, <3>1, AbstractSteps DEF Refines, Abstract!Next
  <2> QED BY <2>4, <2>5
<1> QED BY <1>1, <1>2

LEMMA StutterRefines ==
  ASSUME IndInv, IndInv', Result, UNCHANGED vars
  PROVE  Refines /\ Result'
<1>1. UNCHANGED <<op, res, pc>> /\ UNCHANGED flash
  BY DEF vars
<1>2. Content' = Content
  BY <1>1, Unchanging, QuietSteps
<1> QED BY <1>1, <1>2, RefinesBy DEF Result

\* The refinement, step by step.
LEMMA StepRefines ==
  Regular /\ IndInv /\ ContentInv /\ Result /\ [Next]_vars => Refines /\ Result'
<1> SUFFICES ASSUME Regular, IndInv, ContentInv, Result, [Next]_vars PROVE Refines /\ Result'
  OBVIOUS
<1>0. IndInv' /\ ContentInv'
  BY Inductive, ContentInductive
<1>1. CASE Mounting
  BY <1>0, <1>1, MountRefines
<1>2. CASE Moving
  BY <1>0, <1>2, MoveRefines
<1>3. CASE Writing
  BY <1>0, <1>3, WriteRefines, ReturnRefines DEF Writing
<1>4. CASE Erasing
  BY <1>0, <1>4, WriteRefines, ReturnRefines, EraseRefines DEF Erasing
<1>5. CASE BeginCall \/ PowerLoss
  BY <1>0, <1>5, CallRefines
<1>6. CASE UNCHANGED vars
  BY <1>0, <1>6, StutterRefines
<1> QED BY <1>1, <1>2, <1>3, <1>4, <1>5, <1>6 DEF Next, Step

LEMMA InitRefines ==
  Init => Abstract!Init /\ Result
<1> SUFFICES ASSUME Init PROVE Abstract!Init /\ Result
  OBVIOUS
<1>1. IndInv
  BY Initially
<1>2. \A p \in Page : ~HasSeq(p)
  BY DEF Init, ErasedPage, StateOf, HasSeq
<1>3. \A k \in Keys : Content[k] = None
  BY <1>1, <1>2, ContentObeys DEF ContentLaws, IsCopy
<1>4. Content = [k \in Keys |-> None]
  BY <1>1, <1>3, ContentObeys DEF ContentLaws
<1>5. op = NoRequest /\ res = "none" /\ pc = "off" /\ Abstract!NoRequest = NoRequest
  BY DEF Init, NoRequest, Abstract!NoRequest, Request, Abstract!Request
<1> QED BY <1>4, <1>5 DEF Abstract!Init, Result, Before, InMove

\* The library implements the abstract key store, whenever the power goes and
\* however the pages are moved and repaired: a write takes effect with the step
\* that completes its item, an erase with the one that breaks it, a mount and a
\* move change no value, and what a call returns is true of the store.
THEOREM StoreImplemented ==
  ASSUME Regular
  PROVE  Spec => ImplementsKeyStore
<1>1. Init => Abstract!Init /\ Result
  BY InitRefines
<1>2. IndInv /\ ContentInv /\ Result /\ [Next]_vars => Refines /\ Result'
  BY StepRefines
<1>3. Spec => [](IndInv /\ ContentInv)
  BY ContentInvariance
<1>4. Abstract!Init /\ [][Abstract!Next]_(Abstract!storeVars) => ImplementsKeyStore
  BY DEF ImplementsKeyStore, Abstract!Spec
<1>5. Refines => [Abstract!Next]_(Abstract!storeVars)
  BY DEF Refines
<1> QED BY <1>1, <1>2, <1>3, <1>4, <1>5, PTL DEF Spec

\* What a mount erases is a duplicate: no step of it changes a key's value
\* (PageManager::load, Page::mLoadEntryTable).
THEOREM MountingLosesNothing ==
  ASSUME Regular
  PROVE  Spec => MountKeepsContent
<1>1. IndInv /\ ContentInv /\ [Next]_vars => [Mounting => Content' = Content]_vars
  BY Inductive, MountingKeeps
<1>2. Spec => [](IndInv /\ ContentInv)
  BY ContentInvariance
<1> QED BY <1>1, <1>2, PTL DEF Spec, MountKeepsContent

-----------------------------------------------------------------------------
(* A scalar is refused for lack of space only when nothing is free. This   *)
(* needs no hypothesis on types or hashes. What has to be known is that a  *)
(* write that asked for a page has room on it: the page is new, or holds   *)
(* the copies of the live entries of a page that had unused ones.          *)

Live    == Cardinality(Written(gc))
OnlyEmptyFrom(p) == \A s \in Slot : NextFree(p) <= s => CellAt(p, s).state = "empty"
Roomy(p) == ~HasSeq(p) \/ (StateOf(p) = "active" /\ NextFree(p) \in Slot)
Filling(p) == ~HasSeq(p) \/ (StateOf(p) = "active" /\ OnlyEmptyFrom(p) /\ NextFree(p) <= Live + 1)

Calling ==
  /\ pc = "idle" => op = NoRequest
  /\ op = NoRequest \/ pc = "find" => ~retried
  /\ op # NoRequest => res = "none"
MovesPay ==
  pc \in InMove /\ op # NoRequest => Live < EntryCount
RoomInv ==
  /\ Calling
  /\ MovesPay
  /\ pc = "put" /\ retried => Roomy(Current)
  /\ pc \in {"copy", "reclaim"} /\ op # NoRequest => Filling(Current)

LEMMA CallingKept ==
  ASSUME IndInv, RoomInv, Next
  PROVE  Calling'
<1>0. NoRequest.kind = "none" /\ NoRequest \notin Requests
  <2>1. NoRequest.kind = "none"
    BY DEF NoRequest, Request
  <2>2. \A r \in Requests : r.kind # "none"
    BY DEF Requests, Request, WriteRequest, EraseRequest, EraseAllRequest
  <2> QED BY <2>1, <2>2
<1>1. Calling /\ (pc \in InMount => op = NoRequest) /\ pc # "failed"
  BY DEF IndInv, PagesInv, Pending, AlwaysMounts, RoomInv
<1>2. CASE \E r \in Results : Return(r)
  BY <1>2 DEF Return, Calling
<1>3. CASE PowerLoss \/ BeginCall
  BY <1>0, <1>1, <1>3 DEF PowerLoss, PowerOff, BeginCall, Ready, Calling
<1>4. CASE Mounting
  <2>1. UNCHANGED <<op, res, retried>> /\ pc \in InMount /\ pc' # "find"
    BY <1>4 DEF Mounting, PowerOn, RepairPage, AcceptPage, MountBlank, DropDuplicate, NoDuplicate,
                NothingToRecover, DiscardCopy, ram, InMount, EraseItemStep
  <2> QED BY <1>1, <2>1 DEF Calling
<1>5. CASE Moving
  <2>1. UNCHANGED <<op, res, retried>> /\ pc' # "find" /\ (pc' = "idle" => op = NoRequest)
    BY <1>5 DEF Moving, ActivateTarget, CopyHeader, CopyEntry, CopyDone, Reclaim, ram
  <2> QED BY <1>1, <2>1 DEF Calling
<1>6. CASE ClosePage
  <2>1. op.kind = "write"
    BY <1>6 DEF ClosePage, IndInv, PagesInv, Pending
  <2> QED BY <1>0, <1>1, <1>6, <2>1 DEF Calling, ClosePage
<1>7. CASE \/ WriteFind \/ EraseFind \/ PutHeader \/ PutEntry \/ PutEntryState \/ PutData \/ PutDataState
           \/ TakeFreePage \/ StartFreeing \/ (DropOld /\ Target # NoPlace) \/ EraseAllStep
  <2>1. UNCHANGED <<op, res, retried>> /\ (pc' = "find" => pc = "find") /\ pc' # "idle"
    BY <1>7 DEF WriteFind, EraseFind, PutHeader, PutEntry, PutEntryState, PutData, PutDataState,
                TakeFreePage, StartFreeing, DropOld, EraseAllStep, EraseItemStep, ram
  <2> QED BY <1>1, <2>1 DEF Calling
<1>8. (\/ WriteNothing \/ StillFull \/ NoNewPage \/ (DropOld /\ Target = NoPlace) \/ DropNothing
       \/ EraseMissing \/ Finish \/ EraseAllDone) => \E r \in Results : Return(r)
  BY DEF WriteNothing, StillFull, NoNewPage, DropOld, DropNothing, EraseMissing, Finish,
         EraseAllDone, Results
<1>9. CASE Writing
  BY <1>2, <1>6, <1>7, <1>8, <1>9 DEF Writing
<1>10. CASE Erasing
  BY <1>2, <1>7, <1>8, <1>10 DEF Erasing
<1> QED BY <1>3, <1>4, <1>5, <1>9, <1>10 DEF Next, Step

\* The pages of a move stay the same while its entries are copied.
LEMMA LiveIs ==
  ASSUME IndInv, NEW p \in Page
  PROVE  IsFiniteSet(Written(p)) /\ Cardinality(Written(p)) \in Nat
<1>1. IsFiniteSet(Slot)
  BY SizeAssumption, FS_Interval DEF Slot
<1>2. Written(p) \subseteq Slot
  BY DEF Written
<1> QED BY <1>1, <1>2, FS_Subset, FS_CardinalityType

LEMMA AtCurrent ==
  ASSUME NEW c, Current' = c
  PROVE  (Roomy(Current)' <=> Roomy(c)') /\ (Filling(Current)' <=> Filling(c)')
BY DEF Roomy, Filling, OnlyEmptyFrom, HasSeq, StateOf, NextFree, CellAt, Live, Written

CurrentIsOnly == IndInv => \A p \in listed :
  (StateOf(p) = "active" \/ ~HasSeq(p)) /\ pc # "off" /\ pc # "load" => p = Current
LEMMA OnlyIsCurrent == CurrentIsOnly
BY ActiveIsCurrent DEF CurrentIsOnly

\* A page taken from the free list is the current one.
LEMMA TakenIsCurrent ==
  ASSUME IndInv, IndInv', Activate, pc' \notin {"off", "load"}
  PROVE  \E p \in Page : /\ Current' = p /\ ~HasSeq(p) /\ ~HasSeq(p)'
                         /\ \A q \in Page \ {p} : flash'[q] = flash[q]
<1>1. PICK p \in Page : /\ ~HasSeq(p) /\ ~HasSeq(p)' /\ listed' = listed \cup {p}
                        /\ \A q \in Page \ {p} : flash'[q] = flash[q]
  BY ActivateDoes
<1>2. CurrentIsOnly'
  BY OnlyIsCurrent, PTL
<1>3. Current' = p
  <2>1. p \in listed'
    BY <1>1
  <2> QED BY <1>1, <1>2, <2>1 DEF CurrentIsOnly
<1> QED BY <1>1, <1>3

\* A copied entry goes to the current page, and brings it no further than the
\* entries of the other page reach.
LEMMA EntryCopied ==
  ASSUME IndInv, CopyEntry
  PROVE  \E c \in Page, g \in Page :
           /\ c = Current /\ Current' = c /\ g = gc /\ gc' = g /\ c # g
           /\ StateOf(c) = "active" /\ StateOf(c)' = "active"
           /\ flash'[g].cell = flash[g].cell
           /\ OnlyEmptyFrom(c) =>
                /\ OnlyEmptyFrom(c)'
                /\ NextFree(c)' = NextFree(c) \/ NextFree(c)' <= Live + 1
<1>c. PICK c \in Page : c = Current
  BY MovePages DEF CopyEntry
<1>n. PICK n : n = NextFree(c)
  OBVIOUS
<1>m. PICK m : m = Min(ToCopy)
  OBVIOUS
<1>g. PICK g \in Page : g = gc /\ gc' = g /\ StateOf(g) = "freeing"
  BY MovePages DEF CopyEntry, ram
<1>0. /\ pc = "copy" /\ StateOf(c) = "active" /\ ToCopy # {} /\ c # g /\ UNCHANGED ram
      /\ flash \in FlashType /\ listed # {}
  BY <1>c, <1>g, MovePages DEF CopyEntry, IndInv, TypeOK, FlashType
<1>1. m \in Written(gc) /\ m \in Slot /\ Rank(m) = n - 1 /\ n \in Slot
  BY <1>0, <1>c, <1>g, <1>n, <1>m, NextToCopy
<1>2. CellAt(gc, m).data \in Pieces
  BY <1>0, <1>1, <1>g, ItemAt
<1>3. IF CellAt(c, n).data = Blank
        THEN SetCell(c, n, [state |-> "empty", data |-> CellAt(gc, m).data])
        ELSE MarkWritten(c, n)
  BY <1>c, <1>n, <1>m DEF CopyEntry, SetCell, MarkWritten
<1>4. CellAt(c, n).state = "empty" /\ \A s \in Slot : s < n => CellAt(c, s).state # "empty"
  BY <1>1, <1>n, NextFreeIs
<1>5. CASE CellAt(c, n).data = Blank
  <2>1. PICK d \in Pieces : d = CellAt(gc, m).data
    BY <1>2
  <2>2. SetCell(c, n, [state |-> "empty", data |-> d])
    BY <1>3, <1>5, <2>1
  <2>3. KeepsHeaders /\ NextFree(c)' = n
    BY <1>n, <2>2, NextFreeKept
  <2>4. /\ flash'[g].cell = flash[g].cell
        /\ \A s \in Slot : CellAt(c, s)'.state = CellAt(c, s).state
    <3> DEFINE new == [state |-> "empty", data |-> d]
    <3>1. flash' = [flash EXCEPT ![c].cell[n] = new] /\ new.state = "empty"
      BY <2>2 DEF SetCell
    <3> HIDE DEF new
    <3> QED BY <1>0, <1>1, <1>4, <3>1 DEF FlashType, CellAt
  <2>5. Current' = c /\ StateOf(c)' = "active"
    BY <1>0, <1>c, <2>3, CurrentKept DEF KeepsHeaders, SameHeaders, StateOf, ram
  <2>6. OnlyEmptyFrom(c) => OnlyEmptyFrom(c)'
    BY <1>n, <2>3, <2>4 DEF OnlyEmptyFrom
  <2> QED BY <1>0, <1>c, <1>g, <1>n, <2>3, <2>4, <2>5, <2>6
<1>6. CASE CellAt(c, n).data # Blank
  <2>1. MarkWritten(c, n)
    BY <1>3, <1>6
  <2>2. CellAt(c, n).data \in Pieces
    <3>1. CellAt(c, n) \in Cells
      BY <1>0, <1>1, PageAt
    <3> QED BY <1>6, <3>1 DEF Cells
  <2>3. KeepsHeaders
    BY <2>1, <2>2, MarkWrittenKeeps
  <2>4. /\ flash'[g].cell = flash[g].cell
        /\ \A s \in Slot : CellAt(c, s)'.state = IF s = n THEN "written" ELSE CellAt(c, s).state
    BY <1>0, <1>1, <2>1 DEF MarkWritten, FlashType, CellAt
  <2>5. Current' = c /\ StateOf(c)' = "active"
    BY <1>0, <1>c, <2>3, CurrentKept DEF KeepsHeaders, SameHeaders, StateOf, ram
  <2>6. ASSUME OnlyEmptyFrom(c)
        PROVE  OnlyEmptyFrom(c)' /\ NextFree(c)' = n + 1
    <3>1. PICK k : k = NextFree(c)'
      OBVIOUS
    <3>2. \A s \in Slot : CellAt(c, s)'.state = "empty" <=> s > n
      BY <1>1, <1>4, <1>n, <2>4, <2>6 DEF OnlyEmptyFrom, Slot
    <3>3. {s \in Slot : CellAt(c, s)'.state = "empty"} \cup {EntryCount + 1} = (n + 1) .. (EntryCount + 1)
      BY <1>1, <3>2, SizeAssumption DEF Slot
    <3>4. k = Min((n + 1) .. (EntryCount + 1))
      BY <3>1, <3>3 DEF NextFree
    <3>5. k = n + 1
      <4> DEFINE T == (n + 1) .. (EntryCount + 1)
      <4>1. T \subseteq Nat /\ n + 1 \in T /\ \A y \in T : n + 1 <= y
        BY <1>1, SizeAssumption DEF Slot
      <4> HIDE DEF T
      <4>2. Min(T) \in T /\ \A y \in T : Min(T) <= y
        BY <4>1, MinOfNaturals
      <4>3. Min(T) <= n + 1 /\ n + 1 <= Min(T) /\ Min(T) \in Nat /\ n + 1 \in Nat
        BY <4>1, <4>2
      <4>4. Min(T) = n + 1
        BY <4>3
      <4> QED BY <3>4, <4>4 DEF T
    <3> QED BY <1>1, <3>1, <3>2, <3>5 DEF OnlyEmptyFrom, Slot
  <2>7. n + 1 <= Live + 1
    <3>1. EntryCount + 1 \in Nat /\ m \in Nat /\ m < EntryCount + 1 /\ n \in Nat
      BY <1>1, SizeAssumption DEF Slot
    <3>2. Rank(m) < Rank(EntryCount + 1) /\ Rank(EntryCount + 1) \in Nat
      BY <1>1, <1>g, <3>1, RankGrows, RankIs
    <3>3. {t \in Written(gc) : t < EntryCount + 1} = Written(gc)
      BY SizeAssumption DEF Written, Slot
    <3>4. Rank(EntryCount + 1) = Live
      BY <3>3 DEF Rank, Live
    <3>5. n - 1 < Live /\ Live \in Nat
      BY <1>1, <3>2, <3>4
    <3> QED BY <3>1, <3>5
  <2> QED BY <1>0, <1>c, <1>g, <1>n, <2>4, <2>5, <2>6, <2>7
<1> QED BY <1>5, <1>6

\* The page that is moved keeps its entries until it is erased.
LEMMA SourceStands ==
  ASSUME IndInv, IndInv', ActivateTarget \/ CopyHeader \/ CopyEntry \/ CopyDone
  PROVE  /\ pc \in InMove /\ pc' \in {"copy", "reclaim"} /\ UNCHANGED <<op, gc, retried>>
         /\ Live' = Live
<1>1. pc \in {"activate", "copy"} /\ pc' \in {"copy", "reclaim"} /\ UNCHANGED <<op, gc, retried>>
  <2>1. CASE ActivateTarget
    BY <2>1, TakesPage DEF ActivateTarget, IndInv, PagesInv, Spare
  <2> QED BY <2>1 DEF CopyHeader, CopyEntry, CopyDone, ram
<1>2. PICK g \in Page : gc = g /\ StateOf(g) = "freeing"
  BY <1>1 DEF IndInv, TypeOK, PagesInv, Spare, InMove
<1>3. flash'[g].cell = flash[g].cell
  <2>1. CASE ActivateTarget
    BY <1>2, <2>1, TakesPage, ActivateDoes DEF HasSeq
  <2>2. CASE CopyHeader
    BY <1>2, <2>2, HeaderDoes DEF Headed
  <2>3. CASE CopyEntry
    BY <1>2, <2>3, EntryCopied
  <2>4. CASE CopyDone
    BY <2>4 DEF CopyDone
  <2> QED BY <2>1, <2>2, <2>3, <2>4
<1>4. Written(gc)' = Written(gc)
  BY <1>1, <1>2, <1>3, SourceSame
<1> QED BY <1>1, <1>4 DEF Live, InMove

LEMMA MovesPayKept ==
  ASSUME IndInv, IndInv', RoomInv, Next
  PROVE  MovesPay'
<1> SUFFICES ASSUME pc' \in InMove, op' # NoRequest PROVE Live' < EntryCount
  BY DEF MovesPay
<1>1. CASE ActivateTarget \/ CopyHeader \/ CopyEntry \/ CopyDone
  BY <1>1, SourceStands DEF RoomInv, MovesPay
<1>2. CASE StartFreeing
  <2>1. PICK v \in Page : v = Victim
    BY <1>2, InUse, VictimIn DEF StartFreeing, InCall, IndInv, TypeOK
  <2>2. flash \in FlashType /\ SetState(v, "freeing") /\ gc' = v
    BY <1>2, <2>1 DEF StartFreeing, SetState, IndInv, TypeOK, FlashType
  <2>3. flash'[v].cell = flash[v].cell
    BY <2>2 DEF SetState, FlashType
  <2>4. Live' = Cardinality(Written(v))
    BY <2>2, <2>3 DEF Live, Written, CellAt
  <2>5. Unused(v) > 0
    BY <1>2, <2>1 DEF StartFreeing, WorthMoving
  <2> QED BY <2>4, <2>5, LiveIs, SizeAssumption DEF Unused
<1>3. CASE DiscardCopy
  BY <1>3 DEF DiscardCopy, IndInv, PagesInv, Pending, InMount
<1>4. CASE Mounting /\ ~DiscardCopy
  BY <1>4 DEF Mounting, PowerOn, RepairPage, AcceptPage, MountBlank, DropDuplicate, NoDuplicate,
              NothingToRecover, InMove, EraseItemStep
<1>5. CASE Reclaim \/ BeginCall \/ PowerLoss
  BY <1>5 DEF Reclaim, BeginCall, PowerLoss, PowerOff, InMove
<1>6. CASE Writing /\ ~StartFreeing
  BY <1>6 DEF Writing, WriteNothing, WriteFind, PutHeader, PutEntry, PutEntryState, PutData, PutDataState,
              ClosePage, StillFull, TakeFreePage, NoNewPage, Return, InMove
<1>7. CASE Erasing
  BY <1>7 DEF Erasing, DropOld, DropNothing, EraseFind, EraseMissing, Finish, EraseAllStep, EraseAllDone,
              EraseItemStep, Return, InMove
<1> QED BY <1>1, <1>2, <1>3, <1>4, <1>5, <1>6, <1>7 DEF Next, Step, Moving

LEMMA FillingKept ==
  ASSUME IndInv, IndInv', RoomInv, Next, pc' \in {"copy", "reclaim"}, op' # NoRequest
  PROVE  Filling(Current)'
<1>0. (\/ ActivateTarget \/ CopyHeader \/ CopyEntry \/ CopyDone)
  <2>1. CASE Mounting
    BY <2>1 DEF Mounting, PowerOn, RepairPage, AcceptPage, MountBlank, DropDuplicate, NoDuplicate,
              NothingToRecover, DiscardCopy, EraseItemStep
  <2>2. CASE Reclaim \/ BeginCall \/ PowerLoss
    BY <2>2 DEF Reclaim, BeginCall, PowerLoss, PowerOff
  <2>3. CASE Writing
    BY <2>3 DEF Writing, WriteNothing, WriteFind, PutHeader, PutEntry, PutEntryState, PutData, PutDataState,
              ClosePage, StillFull, TakeFreePage, StartFreeing, NoNewPage, Return
  <2>4. CASE Erasing
    BY <2>4 DEF Erasing, DropOld, DropNothing, EraseFind, EraseMissing, Finish, EraseAllStep, EraseAllDone,
              EraseItemStep, Return
  <2> QED BY <2>1, <2>2, <2>3, <2>4 DEF Next, Step, Moving
<1>1. Live' = Live /\ op' = op
  BY <1>0, SourceStands
<1>2. PICK n \in Nat : n = Live
  <2>1. gc \in Page
    BY <1>0, SourceStands DEF IndInv, TypeOK, PagesInv, Spare, InMove
  <2> QED BY <2>1, LiveIs DEF Live
<1>3. CASE ActivateTarget
  <2>1. PICK p \in Page : Current' = p /\ ~HasSeq(p)'
    BY <1>3, TakesPage, TakenIsCurrent
  <2> QED BY <2>1, AtCurrent DEF Filling
<1>4. CASE CopyHeader
  <2>1. PICK c \in Page : c = Current /\ Current' = c /\ Headed(c)
    BY <1>4, HeaderDoes
  <2>2. OnlyEmptyFrom(c)' /\ NextFree(c)' <= Live' + 1
    BY <1>1, <1>2, <2>1 DEF Headed, OnlyEmptyFrom, EmptyCell
  <2>3. Filling(c)'
    BY <2>1, <2>2 DEF Filling, Headed
  <2> QED BY <2>1, <2>3, AtCurrent
<1>5. CASE CopyEntry
  <2>1. PICK c \in Page : /\ c = Current /\ Current' = c
                          /\ StateOf(c) = "active" /\ StateOf(c)' = "active"
                          /\ OnlyEmptyFrom(c) =>
                               /\ OnlyEmptyFrom(c)'
                               /\ NextFree(c)' = NextFree(c) \/ NextFree(c)' <= Live + 1
    BY <1>5, EntryCopied
  <2>2. Filling(c)
    BY <1>1, <1>5, <2>1 DEF RoomInv, CopyEntry
  <2>3. OnlyEmptyFrom(c) /\ NextFree(c) <= Live + 1
    BY <2>1, <2>2 DEF Filling, HasSeq
  <2>4. Filling(c)'
    BY <1>1, <2>1, <2>3 DEF Filling
  <2> QED BY <2>1, <2>4, AtCurrent
<1>6. CASE CopyDone
  <2>1. PICK c \in Page : c = Current
    BY <1>6, MovePages DEF CopyDone
  <2>2. UNCHANGED flash /\ UNCHANGED <<listed, nextSeq>> /\ pc = "copy" /\ listed # {}
    BY <1>6, MovePages DEF CopyDone, ram
  <2>3. Current' = c
    BY <2>1, <2>2, UnchangedKeeps, CurrentKept DEF KeepsHeaders
  <2>4. Filling(c)
    BY <1>1, <2>1, <2>2 DEF RoomInv
  <2>5. Filling(c)'
    <3>1. (HasSeq(c)' <=> HasSeq(c)) /\ StateOf(c)' = StateOf(c) /\ NextFree(c)' = NextFree(c)
      BY <2>2, PageSame
    <3>2. OnlyEmptyFrom(c)' <=> OnlyEmptyFrom(c)
      BY <2>2, <3>1 DEF OnlyEmptyFrom, CellAt
    <3> QED BY <1>1, <2>4, <3>1, <3>2 DEF Filling
  <2> QED BY <2>3, <2>5, AtCurrent
<1> QED BY <1>0, <1>3, <1>4, <1>5, <1>6

LEMMA RoomyKept ==
  ASSUME IndInv, IndInv', RoomInv, Next, pc' = "put", retried'
  PROVE  Roomy(Current)'
<1>0. (\/ PutHeader \/ TakeFreePage \/ (Reclaim /\ op # NoRequest))
  <2>1. CASE Mounting
    BY <2>1 DEF Mounting, PowerOn, RepairPage, AcceptPage, MountBlank, DropDuplicate, NoDuplicate,
              NothingToRecover, DiscardCopy, EraseItemStep
  <2>2. CASE Moving
    BY <2>2, TakesPage DEF Moving, ActivateTarget, CopyHeader, CopyEntry, CopyDone, Reclaim
  <2>3. CASE BeginCall \/ PowerLoss
    BY <2>3 DEF BeginCall, PowerLoss, PowerOff
  <2>4. CASE Writing
    BY <2>4 DEF Writing, WriteNothing, WriteFind, PutHeader, PutEntry, PutEntryState, PutData, PutDataState,
              ClosePage, StillFull, TakeFreePage, StartFreeing, NoNewPage, Return, RoomInv, Calling
  <2>5. CASE Erasing
    BY <2>5 DEF Erasing, DropOld, DropNothing, EraseFind, EraseMissing, Finish, EraseAllStep, EraseAllDone,
              EraseItemStep, Return
  <2> QED BY <2>1, <2>2, <2>3, <2>4, <2>5 DEF Next, Step
<1>1. CASE PutHeader
  <2>1. PICK c \in Page : Current' = c /\ Headed(c)
    BY <1>1, HeaderDoes
  <2>2. Roomy(c)'
    BY <2>1, SizeAssumption DEF Roomy, Headed, Slot
  <2> QED BY <2>1, <2>2, AtCurrent
<1>2. CASE TakeFreePage
  <2>1. PICK p \in Page : Current' = p /\ ~HasSeq(p)'
    BY <1>2, TakesPage, TakenIsCurrent
  <2> QED BY <2>1, AtCurrent DEF Roomy
<1>3. CASE Reclaim /\ op # NoRequest
  <2>1. PICK g \in Page, c \in listed : g = gc /\ c = Current /\ StateOf(g) = "freeing" /\ HasSeq(g)
    BY <1>3, MovePages DEF Reclaim
  <2>2. /\ pc = "reclaim" /\ listed' = listed \ {g} /\ ErasePage(g) /\ UNCHANGED nextSeq /\ listed \subseteq Page
        /\ flash \in FlashType
    BY <1>3, <2>1 DEF Reclaim, ErasePage, IndInv, TypeOK, FlashType
  <2>3. Filling(c) /\ Live < EntryCount
    BY <1>3, <2>1, <2>2 DEF RoomInv, MovesPay, InMove
  <2>4. c # g /\ (StateOf(c) = "active" \/ ~HasSeq(c)) /\ (HasSeq(c) => NextFree(c) <= Live + 1)
    BY <2>1, <2>3 DEF Filling, HasSeq
  <2>5. flash'[c] = flash[c]
    BY <2>1, <2>2, <2>4 DEF ErasePage, FlashType
  <2>6. Current' = c
    <3>1. c \in listed' /\ (StateOf(c)' = "active" \/ ~HasSeq(c)')
      BY <2>2, <2>4, <2>5, PageSame
    <3>2. CurrentIsOnly'
      BY OnlyIsCurrent, PTL
    <3> QED BY <3>1, <3>2 DEF CurrentIsOnly
  <2>7. Roomy(c)
    <3>1. NextFree(c) \in 1 .. (EntryCount + 1) /\ Live \in Nat /\ EntryCount \in Nat
      BY <2>1, <2>2, NextFreeIs, LiveIs, SizeAssumption DEF Live
    <3> QED BY <2>3, <2>4, <3>1 DEF Roomy, Slot
  <2>8. Roomy(c)'
    BY <2>5, <2>7, PageSame DEF Roomy
  <2> QED BY <2>6, <2>8, AtCurrent
<1> QED BY <1>0, <1>1, <1>2, <1>3

LEMMA RoomInductive ==
  IndInv /\ RoomInv /\ [Next]_vars => RoomInv'
<1> SUFFICES ASSUME IndInv, RoomInv, [Next]_vars PROVE RoomInv'
  OBVIOUS
<1>0. IndInv'
  BY Inductive
<1>1. CASE Next
  BY <1>0, <1>1, CallingKept, MovesPayKept, FillingKept, RoomyKept DEF RoomInv
<1>2. CASE UNCHANGED vars
  <2>1. UNCHANGED <<flash, pc, listed, nextSeq, gc, op, retried, res>>
    BY <1>2 DEF vars
  <2>2. Live' = Live
    BY <2>1 DEF Live, Written, CellAt
  <2>3. Current' = Current
    BY <2>1 DEF Current, LastOf, SeqOf, HasSeq, StateOf
  <2>4. Roomy(Current)' <=> Roomy(Current)
    BY <2>1, <2>3 DEF Roomy, HasSeq, StateOf, NextFree, CellAt
  <2>5. Filling(Current)' <=> Filling(Current)
    BY <2>1, <2>2, <2>3 DEF Filling, OnlyEmptyFrom, HasSeq, StateOf, NextFree, CellAt
  <2> QED BY <2>1, <2>2, <2>4, <2>5 DEF RoomInv, Calling, MovesPay
<1> QED BY <1>1, <1>2

LEMMA RoomInitially == Init => RoomInv
BY DEF Init, RoomInv, Calling, MovesPay, InMove

\* Pages without an unused entry have none together: what fillStats sums up.
LEMMA NothingUnused ==
  ASSUME NEW S, IsFiniteSet(S), \A p \in S : Unused(p) = 0
  PROVE  MapThenSumSet(Unused, S) = 0
<1> DEFINE pick(s) == CHOOSE x \in s : TRUE
           Sums(f) == f = [s \in SUBSET S |-> IF s = {} THEN 0 ELSE Unused(pick(s)) + f[s \ {pick(s)}]]
           sum == CHOOSE f : Sums(f)
<1>1. MapThenSumSet(Unused, S) = sum[S]
  BY DEF MapThenSumSet, MapThenFoldSet
<1>2. \E f : Sums(f)
  <2> DEFINE zero == [s \in SUBSET S |-> 0]
  <2>1. ASSUME NEW s \in SUBSET S, s # {}
        PROVE  Unused(pick(s)) + zero[s \ {pick(s)}] = 0
    <3>1. pick(s) \in s
      BY <2>1
    <3>2. Unused(pick(s)) = 0 /\ s \ {pick(s)} \in SUBSET S
      BY <3>1
    <3> QED BY <3>2
  <2>2. Sums(zero)
    BY <2>1
  <2> QED BY <2>2
<1>3. Sums(sum)
  BY <1>2
<1> HIDE DEF sum
<1>4. \A s \in SUBSET S : sum[s] = IF s = {} THEN 0 ELSE Unused(pick(s)) + sum[s \ {pick(s)}]
  BY <1>3
<1> DEFINE Wrong == {s \in SUBSET S : sum[s] # 0}
           sizes == {Cardinality(s) : s \in Wrong}
<1>5. \A s \in SUBSET S : IsFiniteSet(s) /\ Cardinality(s) \in Nat
  BY FS_Subset, FS_CardinalityType
<1>6. ASSUME Wrong # {} PROVE FALSE
  <2>1. sizes \subseteq Nat /\ sizes # {}
    BY <1>5, <1>6
  <2>2. PICK n \in sizes : \A m \in sizes : n <= m
    <3> HIDE DEF sizes
    <3> QED BY <2>1, LeastNatural
  <2>3. PICK s \in Wrong : n = Cardinality(s)
    BY <2>2
  <2>4. s # {} /\ s \in SUBSET S
    BY <1>4, <2>3
  <2>5. PICK x \in s : x = pick(s)
    BY <2>4
  <2>6. Unused(x) = 0 /\ s \ {x} \in SUBSET S /\ Cardinality(s \ {x}) = Cardinality(s) - 1
    BY <1>5, <2>4, FS_RemoveElement
  <2>7. sum[s] = 0 + sum[s \ {x}]
    BY <1>4, <2>4, <2>5, <2>6
  <2>8. sum[s \ {x}] # 0
    BY <2>3, <2>7
  <2>9. Cardinality(s \ {x}) \in sizes
    BY <2>6, <2>8
  <2>10. Cardinality(s) \in Nat
    BY <1>5, <2>4
  <2>11. n <= Cardinality(s \ {x})
    BY <2>2, <2>9
  <2> QED BY <2>3, <2>6, <2>10, <2>11
<1>7. S \in SUBSET S
  OBVIOUS
<1> QED BY <1>1, <1>6, <1>7

\* Whatever the calls, the types and the hashes: a scalar is refused for lack
\* of space only when the entries counted by fillStats leave nothing to show
\* (Page::writeItem, PageManager::requestNewPage, capacityOf).
THEOREM ScalarsAreTaken == Spec => ScalarFits
<1>1. ASSUME IndInv, RoomInv, Next, op.kind = "write", Span[op.val] = 1, res' = "no_space"
      PROVE  ShownFree = 0
  <2>1. res = "none"
    <3>1. op # NoRequest
      BY <1>1 DEF NoRequest, Request
    <3> QED BY <1>1, <3>1 DEF RoomInv, Calling
  <2>2. CASE StillFull
    <3>1. Roomy(Current) /\ PageFull
      BY <1>1, <2>2 DEF StillFull, RoomInv
    <3>2. StateOf(Current) = "active" /\ NextFree(Current) \in Slot
      BY <3>1 DEF Roomy, PageFull, HasSeq
    <3>3. Fits
      BY <1>1, <3>2, SizeAssumption DEF Fits, Slot
    <3> QED BY <3>1, <3>3 DEF PageFull
  <2>3. CASE NoNewPage
    <3>1. pc = "new_page" /\ free # <<>> /\ Len(free) = 1 /\ listed # {} /\ listed \subseteq Page
      <4>1. pc = "new_page" /\ ~SpareEnough
        BY <2>3 DEF NoNewPage
      <4>2. free # <<>> /\ free \in Seq(Page) /\ listed # {} /\ listed \subseteq Page
        BY <1>1, <4>1 DEF IndInv, TypeOK, PagesInv, Listing, Spare, InCall
      <4>3. Len(free) \in Nat /\ Len(free) # 0 /\ ~ (Len(free) >= 2)
        BY <4>1, <4>2 DEF SpareEnough
      <4>4. Len(free) = 1
        BY <4>3
      <4> QED BY <4>1, <4>2, <4>4
    <3>2. ~WorthMoving(Victim)
      BY <2>3, <3>1 DEF NoNewPage
    <3>3. ASSUME NEW q \in listed PROVE Unused(q) \in Nat
      <4>1. Written(q) \subseteq Slot /\ IsFiniteSet(Slot) /\ Cardinality(Slot) = EntryCount
        BY SizeAssumption, FS_Interval DEF Slot, Written
      <4>2. Cardinality(Written(q)) \in Nat /\ Cardinality(Written(q)) <= EntryCount
        BY <4>1, FS_Subset, FS_CardinalityType
      <4> QED BY <4>2, SizeAssumption DEF Unused
    <3>4. Victim \in listed /\ \A q \in listed : Unused(q) <= Unused(Victim)
      BY <1>1, <3>1, VictimIn
    <3>5. \A q \in listed : Unused(q) = 0
      BY <3>2, <3>3, <3>4 DEF WorthMoving
    <3>6. IsFiniteSet(listed)
      <4>1. IsFiniteSet(Page)
        BY SizeAssumption, FS_Interval DEF Page
      <4> QED BY <3>1, <4>1, FS_Subset
    <3>7. MapThenSumSet(Unused, listed) = 0
      BY <3>5, <3>6, NothingUnused
    <3>8. Available = 0
      BY <3>1, <3>7, SizeAssumption DEF Available, FreeEntries
    <3>9. Usable \in Nat
      <4>1. (Cardinality(listed) + Len(free)) * EntryCount \in Nat
        BY <3>1, <3>6, FS_CardinalityType, SizeAssumption
      <4> QED BY <4>1, SizeAssumption DEF Usable
    <3> QED BY <3>8, <3>9 DEF ShownFree
  <2>4. CASE Mounting
    BY <1>1, <2>1, <2>4 DEF Mounting, PowerOn, RepairPage, AcceptPage, MountBlank, DropDuplicate, NoDuplicate,
              NothingToRecover, DiscardCopy, ram
  <2>5. CASE Moving
    BY <1>1, <2>1, <2>5 DEF Moving, ActivateTarget, CopyHeader, CopyEntry, CopyDone, Reclaim, ram
  <2>6. CASE BeginCall \/ PowerLoss
    BY <1>1, <2>6 DEF BeginCall, PowerLoss, PowerOff
  <2>7. CASE Writing /\ ~StillFull /\ ~NoNewPage
    BY <1>1, <2>1, <2>7 DEF Writing, WriteNothing, WriteFind, PutHeader, PutEntry, PutEntryState, PutData,
              PutDataState, ClosePage, TakeFreePage, StartFreeing, Return, ram
  <2>8. CASE Erasing
    BY <1>1, <2>1, <2>8 DEF Erasing, DropOld, DropNothing, EraseFind, EraseMissing, Finish, EraseAllStep,
              EraseAllDone, Return, ram
  <2> QED BY <1>1, <2>2, <2>3, <2>4, <2>5, <2>6, <2>7, <2>8 DEF Next, Step
<1>2. IndInv /\ RoomInv /\ [Next]_vars =>
        [op.kind = "write" /\ Span[op.val] = 1 /\ res' = "no_space" => ShownFree = 0]_vars
  BY <1>1
<1>3. Spec => []RoomInv
  BY RoomInductive, RoomInitially, Invariance, PTL DEF Spec
<1> QED BY <1>2, <1>3, Invariance, PTL DEF Spec, ScalarFits
=============================================================================
