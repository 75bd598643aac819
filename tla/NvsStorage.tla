----------------------------- MODULE NvsStorage -----------------------------
(***************************************************************************)
(* The NVS library of the firmware (lib/esp-idf-nvs): Page, PageManager    *)
(* and the item-level part of Storage, for items of one or two entries     *)
(* (scalars and short strings). Every flash write is a step of its own, so *)
(* that the power can go between any two of them; the next mount then has  *)
(* to repair what it finds (PageManager::load, Page::mLoadEntryTable).     *)
(*                                                                         *)
(* The library runs behind one lock and has no thread of its own: at most  *)
(* one call is running, and pc says where it is.                           *)
(***************************************************************************)
EXTENDS NvsRequests, Integers, Sequences, FiniteSets, FiniteSetsExt

CONSTANTS
  PageCount,   \* pages (flash sectors) of the partition
  EntryCount,  \* entries of a page (Page::ENTRY_COUNT, 126 on the device)
  Types,
  TypeOf,      \* [Values -> Types]: the item type a value is stored with
  Span,        \* [Values -> {1, 2}]: entries the item takes
  Hash,        \* [Keys -> anything]: the 24-bit hash of namespace index and key
  MaxSeq,      \* bound: no call starts and no power is lost beyond it
  Blank,       \* content of an entry that was never written (all ones)
  NoPlace      \* "no item was found"

Page == 1..PageCount
Slot == 1..EntryCount

ASSUME SizeAssumption ==
  /\ PageCount \in Nat /\ PageCount >= 2
  /\ EntryCount \in Nat /\ EntryCount >= 2
  /\ MaxSeq \in Nat
ASSUME ItemAssumption ==
  /\ TypeOf \in [Values -> Types]
  /\ Span \in [Values -> {1, 2}]
  /\ DOMAIN Hash = Keys
\* A lookup without a result is not taken for a place on flash.
ASSUME NoPlaceAssumption ==
  NoPlace \notin [page : Page, slot : Slot, seq : Int, type : Types]

VARIABLES
  flash,    \* the pages as they are on flash
  pc,       \* the step the running call or mount takes next
  listed,   \* mPageList: pages in use, ordered by sequence number
  free,     \* mFreePageList, in order
  nextSeq,  \* mSeqNumber
  scan,     \* the page PageManager::load reads next
  gc,       \* the page being freed (0: none)
  op,       \* the running call
  old,      \* where writeItem or eraseItem found the existing item
  retried,  \* writeItem already asked for a new page
  res       \* what the last call returned

ram  == <<listed, free, nextSeq, scan, gc, op, old, retried, res>>
vars == <<flash, pc, listed, free, nextSeq, scan, gc, op, old, retried, res>>

-----------------------------------------------------------------------------
(* Flash content.                                                          *)

PageState  == {"uninit", "active", "full", "freeing", "corrupt"}
EntryState == {"empty", "written", "erased"}

\* One entry of an item: part 0 is the header (and a scalar's value), part 1
\* the data entry of a string.
Pieces == [key : Keys, val : Values, part : {0, 1}]
Cells  == [state : EntryState, data : Pieces \cup {Blank}]

EmptyCell  == [state |-> "empty", data |-> Blank]
ErasedCell == [state |-> "erased", data |-> Blank]
ErasedPage == [st |-> "uninit", seq |-> 0, cell |-> [s \in Slot |-> EmptyCell]]

Piece(k, v, part) == [key |-> k, val |-> v, part |-> part]

StateOf(p)   == flash[p].st
CellAt(p, s) == flash[p].cell[s]
HasSeq(p)    == StateOf(p) \in {"active", "full", "freeing"}

Written(p)   == {s \in Slot : CellAt(p, s).state = "written"}
Unused(p)    == EntryCount - Cardinality(Written(p))
Heads(p)     == {s \in Written(p) : CellAt(p, s).data.part = 0}
Extent(p, s) == s .. (s + Span[CellAt(p, s).data.val] - 1)
Complete(p, s) == Extent(p, s) \subseteq Written(p)

\* mNextFreeEntry: the first entry that is neither written nor erased.
NextFree(p) ==
  Min({s \in Slot : CellAt(p, s).state = "empty"} \cup {EntryCount + 1})

-----------------------------------------------------------------------------
(* The page lists. A page that was activated but not yet written to has    *)
(* its sequence number in RAM only; it is the last one given out.          *)

SeqOf(p) == IF HasSeq(p) THEN flash[p].seq ELSE nextSeq - 1
FirstOf(S) == CHOOSE p \in S : \A q \in S : SeqOf(p) <= SeqOf(q)
LastOf(S)  == CHOOSE p \in S : \A q \in S : SeqOf(q) <= SeqOf(p)
Current    == LastOf(listed)

\* Page::findItem by key: the first item with that key decides, and counts
\* only when its type is one of those asked for.
KeyHeads(p, k) == {s \in Heads(p) : CellAt(p, s).data.key = k}
TypeAt(p, s)   == TypeOf[CellAt(p, s).data.val]
HasItem(p, k, types) ==
  /\ HasSeq(p)
  /\ KeyHeads(p, k) # {}
  /\ TypeAt(p, Min(KeyHeads(p, k))) \in types

Place(p, s) == [page |-> p, slot |-> s, seq |-> SeqOf(p), type |-> TypeAt(p, s)]

\* Storage::findItem: pages in order, the first one that has the item.
Find(k, types) ==
  LET hits == {p \in listed : HasItem(p, k, types)}
  IN  IF hits = {} THEN NoPlace
      ELSE Place(FirstOf(hits), Min(KeyHeads(FirstOf(hits), k)))

ValueAt(place) == CellAt(place.page, place.slot).data.val

-----------------------------------------------------------------------------
(* Flash operations.                                                       *)

SetCell(p, s, c)  == flash' = [flash EXCEPT ![p].cell[s] = c]
SetState(p, st)   == flash' = [flash EXCEPT ![p].st = st]
ErasePage(p)      == flash' = [flash EXCEPT ![p] = ErasedPage]
WriteHeader(p)    ==
  flash' = [flash EXCEPT ![p] = [ErasedPage EXCEPT !.st = "active", !.seq = nextSeq - 1]]
MarkWritten(p, s) == flash' = [flash EXCEPT ![p].cell[s].state = "written"]

\* alterEntryRangeState works from the last entry to the first and writes the
\* state table word by word, so the entries from some b on may be erased alone.
EraseFrom(p, S, b) ==
  flash' = [flash EXCEPT ![p].cell =
              [s \in Slot |-> IF s \in S /\ s >= b THEN ErasedCell ELSE @[s]]]

\* One write of the state table that erases entries of the item at slot s.
ItemSlots(p, s) == {t \in Extent(p, s) \cap Slot : CellAt(p, t).state # "erased"}
EraseItemStep(p, s, whenGone) ==
  \E b \in ItemSlots(p, s) :
    /\ EraseFrom(p, ItemSlots(p, s), b)
    /\ pc' = IF b = Min(ItemSlots(p, s)) THEN whenGone ELSE pc

-----------------------------------------------------------------------------
(* Mounting: PageManager::load.                                            *)

PowerOn ==
  /\ pc = "off"
  /\ pc' = "load"
  /\ scan' = 1
  /\ UNCHANGED <<flash, listed, free, nextSeq, gc, op, old, retried, res>>

\* What Page::mLoadEntryTable erases next on page p, {} when nothing is left.
\* Active page: entries whose data was written but whose state was not; then,
\* in entry order, items not written to the end and items that an item with
\* the same hash follows. Full and freeing pages: incomplete items only.
HalfWritten(p) ==
  LET n == NextFree(p) IN IF n \in Slot /\ CellAt(p, n).data # Blank THEN {n} ELSE {}

Broken(p) == {s \in Heads(p) : ~Complete(p, s)}

\* Wrong on purpose: keeps the older item of a pair.
Shadowed_KeepOlder(p, s) ==
  {t \in Heads(p) : t > s /\ Hash[CellAt(p, t).data.key] = Hash[CellAt(p, s).data.key]}

Shadowed(p, s) ==
  {t \in Heads(p) : t < s /\ Hash[CellAt(p, t).data.key] = Hash[CellAt(p, s).data.key]}

Repairs(p) ==
  LET faulty == {s \in Heads(p) : s \in Broken(p) \/ (StateOf(p) = "active" /\ Shadowed(p, s) # {})}
      s == Min(faulty)
  IN  IF StateOf(p) = "active" /\ HalfWritten(p) # {} THEN HalfWritten(p)
      ELSE IF ~HasSeq(p) \/ faulty = {} THEN {}
      ELSE IF s \in Broken(p) THEN ItemSlots(p, s)
      ELSE ItemSlots(p, Min(Shadowed(p, s)))

RepairPage ==
  /\ pc = "load" /\ scan \in Page
  /\ \E b \in Repairs(scan) : EraseFrom(scan, Repairs(scan), b)
  /\ UNCHANGED <<pc, ram>>

\* The page is sound: it joins the list of used pages when it has a sequence
\* number, the free list otherwise.
AcceptPage ==
  /\ pc = "load" /\ scan \in Page
  /\ Repairs(scan) = {}
  /\ IF HasSeq(scan)
       THEN /\ listed' = listed \cup {scan}
            /\ nextSeq' = IF flash[scan].seq + 1 > nextSeq THEN flash[scan].seq + 1 ELSE nextSeq
            /\ UNCHANGED free
       ELSE /\ free' = Append(free, scan)
            /\ UNCHANGED <<listed, nextSeq>>
  /\ scan' = scan + 1
  /\ pc' = IF scan < PageCount THEN "load" ELSE "dup"
  /\ UNCHANGED <<flash, gc, op, old, retried, res>>

\* activatePage: a corrupt page is erased first; the header follows with the
\* first write to the page.

\* Wrong on purpose: forgets ++mSeqNumber.
Activate_SameSeq ==
  LET p == Head(free)
  IN  /\ free # <<>>
      /\ free' = Tail(free)
      /\ listed' = listed \cup {p}
      /\ UNCHANGED nextSeq
      /\ IF StateOf(p) = "corrupt" THEN ErasePage(p) ELSE UNCHANGED flash

Activate ==
  LET p == Head(free)
  IN  /\ free # <<>>
      /\ free' = Tail(free)
      /\ listed' = listed \cup {p}
      /\ nextSeq' = nextSeq + 1
      /\ IF StateOf(p) = "corrupt" THEN ErasePage(p) ELSE UNCHANGED flash

MountBlank ==
  /\ pc = "dup" /\ listed = {}
  /\ Activate
  /\ pc' = "idle"
  /\ UNCHANGED <<scan, gc, op, old, retried, res>>

\* The item written last, when the power went, may still have its predecessor
\* on an earlier page.
LastItem(p) == CellAt(p, Max(Heads(p))).data

\* Wrong on purpose: no search for the predecessor.
Superseded_None == {}

Superseded ==
  LET last == Current
  IN  IF Heads(last) = {} THEN {}
      ELSE {p \in listed \ {last} :
              /\ StateOf(p) # "freeing"
              /\ HasItem(p, LastItem(last).key, {TypeOf[LastItem(last).val]})}

DropDuplicate ==
  /\ pc = "dup" /\ listed # {}
  /\ Superseded # {}
  /\ LET p == FirstOf(Superseded)
     IN  EraseItemStep(p, Min(KeyHeads(p, LastItem(Current).key)), "recover")
  /\ UNCHANGED ram

NoDuplicate ==
  /\ pc = "dup" /\ listed # {}
  /\ Superseded = {}
  /\ pc' = "recover"
  /\ UNCHANGED <<flash, ram>>

Freeing == {p \in listed : StateOf(p) = "freeing"}

\* load's last check; an empty free list makes the mount fail.
NothingToRecover ==
  /\ pc = "recover" /\ Freeing = {}
  /\ pc' = IF free = <<>> THEN "failed" ELSE "idle"
  /\ UNCHANGED <<flash, ram>>

\* The power went while a page was being freed: what was copied so far is on
\* the last page; throw it away and copy again.
\* Wrong on purpose: copies on top of the interrupted copy.
MustDiscard_Never == FALSE

MustDiscard == StateOf(Current) = "active"

DiscardCopy ==
  /\ pc = "recover" /\ Freeing # {}
  /\ gc' = FirstOf(Freeing)
  /\ IF MustDiscard
       THEN /\ ErasePage(Current)
            /\ listed' = listed \ {Current}
            /\ free' = Append(free, Current)
       ELSE UNCHANGED <<flash, listed, free>>
  /\ pc' = "activate"
  /\ UNCHANGED <<nextSeq, scan, op, old, retried, res>>

-----------------------------------------------------------------------------
(* Moving the live items of page gc to a new page: the end of load and of  *)
(* requestNewPage (activatePage, copyItems, erase).                        *)

ActivateTarget ==
  /\ pc = "activate"
  /\ IF free = <<>>
       THEN pc' = "failed" /\ UNCHANGED <<flash, listed, free, nextSeq>>
       ELSE pc' = "copy" /\ Activate
  /\ UNCHANGED <<scan, gc, op, old, retried, res>>

\* The entries of gc not copied yet; copies are laid out without gaps.
Copied == NextFree(Current) - 1
ToCopy == {s \in Written(gc) : Cardinality({t \in Written(gc) : t < s}) >= Copied}

CopyHeader ==
  /\ pc = "copy" /\ Written(gc) # {}
  /\ StateOf(Current) = "uninit"
  /\ WriteHeader(Current)
  /\ UNCHANGED <<pc, ram>>

CopyEntry ==
  /\ pc = "copy" /\ StateOf(Current) = "active" /\ ToCopy # {}
  /\ LET n == NextFree(Current)
     IN  IF CellAt(Current, n).data = Blank
           THEN SetCell(Current, n, [state |-> "empty", data |-> CellAt(gc, Min(ToCopy)).data])
           ELSE MarkWritten(Current, n)
  /\ UNCHANGED <<pc, ram>>

\* Wrong on purpose: does not expect a page without live items.
CopyDone_SomeItem ==
  /\ pc = "copy" /\ Written(gc) # {}
  /\ StateOf(Current) = "active" /\ ToCopy = {}
  /\ pc' = "reclaim"
  /\ UNCHANGED <<flash, ram>>

CopyDone ==
  /\ pc = "copy"
  /\ \/ Written(gc) = {}
     \/ StateOf(Current) = "active" /\ ToCopy = {}
  /\ pc' = "reclaim"
  /\ UNCHANGED <<flash, ram>>

\* After the erase the page is free; a mount is then complete, a write retries.
Reclaim ==
  /\ pc = "reclaim"
  /\ ErasePage(gc)
  /\ listed' = listed \ {gc}
  /\ free' = Append(free, gc)
  /\ gc' = 0
  /\ pc' = IF op = NoRequest THEN "idle" ELSE "put"
  /\ UNCHANGED <<nextSeq, scan, op, old, retried, res>>

-----------------------------------------------------------------------------
(* Calls: nvs_set_*, nvs_erase_key, nvs_erase_all.                         *)

Ready == pc = "idle" /\ nextSeq <= MaxSeq

BeginCall ==
  /\ Ready
  /\ op' \in Requests
  /\ res' = "none"
  /\ pc' = "find"
  /\ UNCHANGED <<flash, listed, free, nextSeq, scan, gc, old, retried>>

Return(result) ==
  /\ op' = NoRequest
  /\ old' = NoPlace
  /\ retried' = FALSE
  /\ res' = result
  /\ pc' = "idle"
  /\ UNCHANGED <<flash, listed, free, nextSeq, scan, gc>>

\* writeItem looks for the key under the type it writes, then under any type.
Existing ==
  LET same == Find(op.key, {TypeOf[op.val]})
  IN  IF same # NoPlace THEN same ELSE Find(op.key, Types)

SameValue == Existing # NoPlace /\ ValueAt(Existing) = op.val

WriteNothing ==
  /\ pc = "find" /\ op.kind = "write"
  /\ SameValue
  /\ Return("ok")

WriteFind ==
  /\ pc = "find" /\ op.kind = "write"
  /\ ~SameValue
  /\ old' = Existing
  /\ pc' = "put"
  /\ UNCHANGED <<flash, listed, free, nextSeq, scan, gc, op, retried, res>>

\* Page::writeItem on the current page: header when the page is fresh, then
\* the entry, its state, and for a string the data entry and its state.
Fits == StateOf(Current) = "active" /\ NextFree(Current) + Span[op.val] - 1 <= EntryCount

PutHeader ==
  /\ pc = "put" /\ StateOf(Current) = "uninit"
  /\ WriteHeader(Current)
  /\ UNCHANGED <<pc, ram>>

PutEntry ==
  /\ pc = "put" /\ Fits
  /\ SetCell(Current, NextFree(Current), [state |-> "empty", data |-> Piece(op.key, op.val, 0)])
  /\ pc' = "put_state"
  /\ UNCHANGED ram

PutEntryState ==
  /\ pc = "put_state"
  /\ MarkWritten(Current, NextFree(Current))
  /\ pc' = IF Span[op.val] = 1 THEN "drop" ELSE "data"
  /\ UNCHANGED ram

PutData ==
  /\ pc = "data"
  /\ SetCell(Current, NextFree(Current), [state |-> "empty", data |-> Piece(op.key, op.val, 1)])
  /\ pc' = "data_state"
  /\ UNCHANGED ram

PutDataState ==
  /\ pc = "data_state"
  /\ MarkWritten(Current, NextFree(Current))
  /\ pc' = "drop"
  /\ UNCHANGED ram

\* No room: the page is closed and another one asked for, once.
PageFull == StateOf(Current) \in {"active", "full"} /\ ~Fits

ClosePage ==
  /\ pc = "put" /\ PageFull /\ ~retried
  /\ IF StateOf(Current) = "active" THEN SetState(Current, "full") ELSE UNCHANGED flash
  /\ retried' = TRUE
  /\ pc' = "new_page"
  /\ UNCHANGED <<listed, free, nextSeq, scan, gc, op, old, res>>

StillFull ==
  /\ pc = "put" /\ PageFull /\ retried
  /\ Return("no_space")

\* requestNewPage. One free page is kept in reserve: unless two are free, the
\* page with the most unused entries is moved to the free one and erased.
\* Wrong on purpose: off by one, spends the reserved page.
SpareEnough_One == Len(free) >= 1

SpareEnough == Len(free) >= 2

TakeFreePage ==
  /\ pc = "new_page" /\ SpareEnough
  /\ Activate
  /\ pc' = "put"
  /\ UNCHANGED <<scan, gc, op, old, retried, res>>

\* Wrong on purpose: off by one.
WorthMoving_Two(p) == Unused(p) > 1

WorthMoving(p) == Unused(p) > 0

Victim == FirstOf({p \in listed : \A q \in listed : Unused(q) <= Unused(p)})

StartFreeing ==
  /\ pc = "new_page" /\ ~SpareEnough /\ free # <<>>
  /\ WorthMoving(Victim)
  /\ SetState(Victim, "freeing")
  /\ gc' = Victim
  /\ pc' = "activate"
  /\ UNCHANGED <<listed, free, nextSeq, scan, op, old, retried, res>>

NoNewPage ==
  /\ pc = "new_page" /\ ~SpareEnough
  /\ IF free = <<>> THEN Return("error")
     ELSE ~WorthMoving(Victim) /\ Return("no_space")

\* The predecessor of a written item, or the item to erase. Its page may have
\* been moved by requestNewPage since it was found: then it is looked up again.
Relocated ==
  \/ StateOf(old.page) \notin {"active", "full"}
  \/ SeqOf(old.page) # old.seq

Target == IF Relocated THEN Find(op.key, {old.type}) ELSE old

DropOld ==
  /\ pc = "drop" /\ old # NoPlace
  /\ IF Target = NoPlace THEN Return("not_found")
     ELSE /\ EraseItemStep(Target.page, Target.slot, "return")
          /\ UNCHANGED ram

DropNothing ==
  /\ pc = "drop" /\ old = NoPlace
  /\ Return("ok")

EraseFind ==
  /\ pc = "find" /\ op.kind = "erase"
  /\ Find(op.key, Types) # NoPlace
  /\ old' = Find(op.key, Types)
  /\ pc' = "drop"
  /\ UNCHANGED <<flash, listed, free, nextSeq, scan, gc, op, retried, res>>

EraseMissing ==
  /\ pc = "find" /\ op.kind = "erase"
  /\ Find(op.key, Types) = NoPlace
  /\ Return("not_found")

Finish ==
  /\ pc = "return"
  /\ Return("ok")

\* eraseNamespace: page by page, item by item.
NsHeads(p) == {s \in Heads(p) : NsOf[CellAt(p, s).data.key] = op.ns}
NsPages    == {p \in listed : HasSeq(p) /\ NsHeads(p) # {}}

EraseAllStep ==
  /\ pc = "find" /\ op.kind = "erase_all"
  /\ NsPages # {}
  /\ LET p == FirstOf(NsPages) IN EraseItemStep(p, Min(NsHeads(p)), "find")
  /\ UNCHANGED ram

EraseAllDone ==
  /\ pc = "find" /\ op.kind = "erase_all"
  /\ NsPages = {}
  /\ Return("ok")

-----------------------------------------------------------------------------
(* Power loss, at any moment. A page header or a page erase under way may  *)
(* be torn; the next mount sees such a page as corrupt.                    *)

TornPage ==
  CASE pc = "put" /\ StateOf(Current) = "uninit" -> {Current}
    [] pc = "copy" /\ StateOf(Current) = "uninit" /\ Written(gc) # {} -> {Current}
    [] pc = "recover" /\ Freeing # {} /\ MustDiscard -> {Current}
    [] pc = "reclaim" -> {gc}
    [] OTHER -> {}

PowerOff ==
  /\ pc' = "off"
  /\ listed' = {} /\ free' = <<>> /\ nextSeq' = 0 /\ scan' = 0 /\ gc' = 0
  /\ op' = NoRequest /\ old' = NoPlace /\ retried' = FALSE /\ res' = "none"

PowerLoss ==
  /\ pc # "off" /\ nextSeq <= MaxSeq
  /\ PowerOff
  /\ \/ UNCHANGED flash
     \/ \E p \in TornPage : flash' = [flash EXCEPT ![p] = [ErasedPage EXCEPT !.st = "corrupt"]]

-----------------------------------------------------------------------------
Init ==
  /\ flash = [p \in Page |-> ErasedPage]
  /\ pc = "off"
  /\ listed = {} /\ free = <<>> /\ nextSeq = 0 /\ scan = 0 /\ gc = 0
  /\ op = NoRequest /\ old = NoPlace /\ retried = FALSE /\ res = "none"

Mounting ==
  \/ PowerOn \/ RepairPage \/ AcceptPage \/ MountBlank \/ DropDuplicate \/ NoDuplicate
  \/ NothingToRecover \/ DiscardCopy

Moving == ActivateTarget \/ CopyHeader \/ CopyEntry \/ CopyDone \/ Reclaim

Writing ==
  \/ WriteNothing \/ WriteFind \/ PutHeader \/ PutEntry \/ PutEntryState \/ PutData
  \/ PutDataState \/ ClosePage \/ StillFull \/ TakeFreePage \/ StartFreeing
  \/ NoNewPage

Erasing ==
  \/ DropOld \/ DropNothing \/ EraseFind \/ EraseMissing \/ Finish
  \/ EraseAllStep \/ EraseAllDone

Step == Mounting \/ Moving \/ Writing \/ Erasing

Next == Step \/ BeginCall \/ PowerLoss

Spec == Init /\ [][Next]_vars

\* The library runs to completion once called; nothing but a power loss stops it.
FairSpec == Spec /\ WF_vars(Step)

-----------------------------------------------------------------------------
(* Properties.                                                             *)

\* Every variable has its type; in particular an entry never leaves the three
\* states of the entry table and the lists hold pages of the partition.
TypeOK ==
  /\ flash \in [Page -> [st : PageState, seq : Nat, cell : [Slot -> Cells]]]
  /\ pc \in {"off", "load", "dup", "recover", "activate", "copy", "reclaim", "failed", "idle",
             "find", "put", "put_state", "data", "data_state", "new_page", "drop", "return"}
  /\ listed \subseteq Page
  /\ free \in Seq(Page)
  /\ nextSeq \in Nat
  /\ scan \in 0 .. PageCount + 1
  /\ gc \in 0 .. PageCount
  /\ op \in Requests \cup {NoRequest}
  /\ old \in [page : Page, slot : Slot, seq : Int, type : Types] \cup {NoPlace}
  /\ retried \in BOOLEAN
  /\ res \in Results

\* The value a key has, on flash alone: the newest complete copy.
Copies(k) ==
  UNION {{<<p, s>> : s \in {t \in KeyHeads(p, k) : Complete(p, t)}} : p \in {q \in Page : HasSeq(q)}}
Newer(a, b) ==
  \/ flash[a[1]].seq > flash[b[1]].seq
  \/ flash[a[1]].seq = flash[b[1]].seq /\ a[2] >= b[2]
Content ==
  [k \in Keys |->
     IF Copies(k) = {} THEN None
     ELSE LET c == CHOOSE c \in Copies(k) : \A d \in Copies(k) : Newer(c, d)
          IN  CellAt(c[1], c[2]).data.val]

\* The library implements the abstract key store: a write or an erase takes
\* effect in one step, a call that returned "ok" survives power loss, page
\* moves and repairs, and a power loss leaves either the old or the new value.
Abstract == INSTANCE KeyStore WITH store <- Content
ImplementsKeyStore == Abstract!Spec

\* Whenever no call runs, each key is stored at most once, so that the first
\* item a lookup meets is the current one (NvsReader, entry iterator).
OneCopy ==
  pc = "idle" => \A k \in Keys : Cardinality(Copies(k)) <= 1 /\
                   (Find(k, Types) # NoPlace => ValueAt(Find(k, Types)) = Content[k])

\* No sequence of calls and power losses brings the partition into a state
\* that does not mount. On NO_FREE_PAGES the Arduino core erases it all.
AlwaysMounts == pc # "failed"

\* Between calls every page is either in use or free, one is free, and no
\* page is half moved: calcEntries asserts it, requestNewPage needs the page.
ReservedPage ==
  pc = "idle" =>
    /\ free # <<>>
    /\ listed \cup Range(free) = Page
    /\ listed \cap Range(free) = {}
    /\ \A p \in listed : StateOf(p) # "freeing"

\* fillStats: what nvs_get_stats calls available_entries.
FreeEntries == MapThenSumSet(Unused, listed) + Len(free) * EntryCount
Available   == IF FreeEntries >= EntryCount THEN FreeEntries - EntryCount ELSE 0

\* capacityOf: what the dashboard shows of it; FULL when nothing of it is left.
Usable ==
  LET total == (Cardinality(listed) + Len(free)) * EntryCount
  IN  IF total > EntryCount THEN total - EntryCount ELSE 0
ShownFree == IF Available < Usable THEN Available ELSE Usable

\* "No entries available for new data": a scalar is refused for lack of space only
\* when the dashboard, read just before, says FULL.
ScalarFits ==
  [][ op.kind = "write" /\ Span[op.val] = 1 /\ res' = "no_space" => ShownFree = 0 ]_vars

\* docs/RESEARCH.md says that loading "repairs the effects of a power loss" and
\* "erases a duplicate of the last written item": once mounted, no key is there
\* twice, whatever types the calls used.
DuplicateErased == pc = "idle" => \A k \in Keys : Cardinality(Copies(k)) <= 1

\* ... and what it erases is a duplicate: mounting changes no key's value.
MountKeepsContent == [][Mounting => Content' = Content]_vars

\* If the power stays on, the library comes up and finishes every call.
Settles == <>[][~PowerLoss]_vars => []<>(pc = "idle")

-----------------------------------------------------------------------------
(* Why ReservedPage and AlwaysMounts hold: an inductive invariant about    *)
(* the page headers and the two lists, whatever the entries hold.          *)

InCall  == {"idle", "find", "put", "put_state", "data", "data_state", "new_page", "drop", "return"}
InMove  == {"activate", "copy", "reclaim"}
InMount == {"off", "load", "dup", "recover"}

\* Each page the mount has read is on exactly one of the lists.
Listing ==
  /\ \A i, j \in DOMAIN free : free[i] = free[j] => i = j
  /\ listed \cap Range(free) = {}
  /\ pc = "off"  => listed = {} /\ free = <<>>
  /\ pc = "load" => scan \in Page /\ listed \cup Range(free) = 1 .. (scan - 1)
  /\ pc \notin {"off", "load"} => listed \cup Range(free) = Page
  /\ pc \in InCall \cup {"recover"} => listed # {}
  /\ pc \in {"copy", "reclaim"} => listed \ {gc} # {}
  /\ \A p \in Range(free) : ~HasSeq(p)

\* Sequence numbers tell the pages apart, and the active page has the highest.
Ordered ==
  /\ \A p, q \in Page : HasSeq(p) /\ HasSeq(q) /\ flash[p].seq = flash[q].seq => p = q
  /\ \A p, q \in Page : StateOf(p) = "active" /\ HasSeq(q) => flash[q].seq <= flash[p].seq
  /\ \A p \in listed : HasSeq(p) => flash[p].seq < nextSeq

\* A page without a header is in use only between its activation and the first
\* write to it; it is the last page, and no other page is active meanwhile.
Fresh ==
  /\ \A p \in listed : ~HasSeq(p) =>
       /\ pc \notin InMount \cup {"new_page", "activate"}
       /\ nextSeq >= 1
       /\ \A q \in listed \ {p} :
            HasSeq(q) /\ flash[q].seq < nextSeq - 1 /\ StateOf(q) # "active"
  /\ pc \in {"new_page", "activate"} => \A p \in Page : StateOf(p) # "active"

\* One page is free, except while a page is being moved: then the page being
\* moved is still there, and the page it is moved to can be given up.
Spare ==
  /\ pc \in InCall \cup {"activate"} => free # <<>>
  /\ \/ \E p \in Page : ~HasSeq(p)
     \/ (\E p \in Page : StateOf(p) = "freeing") /\ (\E p \in Page : StateOf(p) = "active")
  /\ \A p, q \in Page : StateOf(p) = "freeing" /\ StateOf(q) = "freeing" => p = q
  /\ pc \in InCall => \A p \in Page : StateOf(p) # "freeing"
  /\ pc \in InMove => gc \in listed /\ StateOf(gc) = "freeing"

\* What is on flash as an item came from a call.
Genuine ==
  \A p \in Page, s \in Slot : CellAt(p, s).state = "written" => CellAt(p, s).data \in Pieces

Pending ==
  /\ pc \in {"put_state", "data_state"} /\ NextFree(Current) \in Slot =>
       CellAt(Current, NextFree(Current)).data \in Pieces
  /\ pc \in {"put", "put_state", "data", "data_state", "new_page"} => op.kind = "write"
  /\ pc \in InMove => op = NoRequest \/ op.kind = "write"
  /\ pc \in InMount => op = NoRequest

PagesInv == Listing /\ Ordered /\ Fresh /\ Spare /\ Genuine /\ Pending /\ AlwaysMounts
=============================================================================
