--------------------------- MODULE NvsChangeProofs ---------------------------
(***************************************************************************)
(* Proofs about NvsNamespaces and NvsChange, for all names, keys, values,  *)
(* images and bounds.                                                      *)
(*                                                                         *)
(* NvsNamespaces: the table and the names on flash agree, a handle keeps   *)
(* to its namespace and only the handles of a namespace change what is in  *)
(* it. The inductive invariant Sound adds to them what the steps rely on:  *)
(* nothing is open without a storage, and an erasure has its handle.       *)
(*                                                                         *)
(* NvsChange: the application's changes are uses of the library that open  *)
(* one handle at a time, create no namespace, touch nothing but what they  *)
(* name, and are done when they are reported as done.                      *)
(***************************************************************************)
EXTENDS NvsChange, FiniteSetTheorems, FunctionTheorems, WellFoundedInduction, TLAPS

\* While no storage is registered nothing is known and nothing is open.
ClosedIsEmpty == storage = 0 => DOMAIN table = {} /\ DOMAIN entries = {}

\* An erasure goes on under the handle it was asked through.
EraserIsOpen ==
  erasing # 0 => \E h \in DOMAIN entries : entries[h].index = erasing /\ ~entries[h].ro

Sound ==
  /\ WellNamed(items)
  /\ OneNamePerIndex
  /\ TableIsFlash
  /\ HandleMeansName
  /\ ClosedIsEmpty
  /\ EraserIsOpen
  /\ life \in Nat

-----------------------------------------------------------------------------
(* Names and indexes.                                                      *)

LEMMA IndexesArePositive == IndexRange \subseteq Nat \ {0}
BY BoundAssumption DEF IndexRange

LEMMA NsItemFields ==
  ASSUME NEW n, NEW i
  PROVE  /\ NsItem(n, i).ns = 0 /\ NsItem(n, i).key = n
         /\ NsItem(n, i).type = "u8" /\ NsItem(n, i).val = i
BY DEF NsItem

LEMMA ItemFields ==
  ASSUME NEW i, NEW k, NEW t, NEW v
  PROVE  Item(i, k, t, v).ns = i /\ Item(i, k, t, v).key = k /\ Item(i, k, t, v).type = t
         /\ Item(i, k, t, v).val = v
BY DEF Item

\* The lowest free index is free.
LEMMA NextIndexIsFree ==
  ASSUME FreeIndexes # {}
  PROVE  NextIndex \in IndexRange /\ NextIndex \notin usage
<1>1. FreeIndexes \subseteq Nat
  BY IndexesArePositive DEF FreeIndexes
<1>2. PICK i \in FreeIndexes : \A j \in FreeIndexes : ~ (<<j, i>> \in OpToRel(<, Nat))
  BY <1>1, WFMin, NatLessThanWellFounded, Zenon
<1>3. \A j \in FreeIndexes : i <= j
  <2> SUFFICES ASSUME NEW j \in FreeIndexes, ~(i <= j) PROVE FALSE
    OBVIOUS
  <2>1. j \in Nat /\ i \in Nat /\ j < i
    BY <1>1
  <2>2. <<j, i>> \in OpToRel(<, Nat)
    BY <2>1 DEF OpToRel
  <2> QED BY <2>2, <1>2
<1>4. NextIndex \in FreeIndexes
  BY <1>2, <1>3 DEF NextIndex
<1> QED BY <1>4 DEF FreeIndexes

\* A name on flash is found by its key and by its value.
LEMMA NamesAreItems ==
  ASSUME WellNamed(items), NEW x \in NamesOf(items)
  PROVE  x.key \in Names /\ x.val \in IndexRange /\ x = NsItem(x.key, x.val) /\ x.type = "u8"
<1>1. PICK n \in Names, i \in IndexRange : x = NsItem(n, i)
  BY DEF WellNamed
<1> QED BY <1>1, NsItemFields

\* The names in the table have indexes of their own.
LEMMA TableIsInjective ==
  ASSUME Sound, storage # 0
  PROVE  /\ Named \subseteq Names
         /\ \A n \in Named : table[n] \in IndexRange /\ table[n] # 0 /\ table[n] \in usage
         /\ \A n, m \in Named : table[n] = table[m] => n = m
<1>1. \A n \in Named : NsItem(n, table[n]) \in NamesOf(items)
  BY NsItemFields DEF Sound, TableIsFlash, NamesOf
<1>2. \A n \in Named : n \in Names /\ table[n] \in IndexRange /\ table[n] # 0 /\ table[n] \in usage
  <2> TAKE n \in Named
  <2>1. NsItem(n, table[n]).key \in Names /\ NsItem(n, table[n]).val \in IndexRange
    BY <1>1, NamesAreItems DEF Sound
  <2>2. NsItem(n, table[n]).val \in usage
    BY <1>1 DEF Sound, TableIsFlash
  <2> QED BY <2>1, <2>2, NsItemFields, IndexesArePositive
<1>3. ASSUME NEW n \in Named, NEW m \in Named, table[n] = table[m] PROVE n = m
  <2>1. NsItem(n, table[n]) = NsItem(m, table[m])
    BY <1>1, <1>3, NsItemFields DEF Sound, OneNamePerIndex, OneToOne
  <2> QED BY <2>1, NsItemFields
<1> QED BY <1>2, <1>3

\* A handle that is open has a storage, and an index that is not the list of names.
LEMMA HandlesHaveIndexes ==
  ASSUME Sound, NEW h \in DOMAIN entries
  PROVE  /\ storage # 0
         /\ entries[h].name \in Named
         /\ entries[h].index = table[entries[h].name]
         /\ entries[h].index \in IndexRange /\ entries[h].index # 0
<1>1. storage # 0
  BY DEF Sound, ClosedIsEmpty
<1> QED BY <1>1, TableIsInjective DEF Sound, HandleMeansName

-----------------------------------------------------------------------------
(* What a call changes on flash.                                           *)

\* An item goes with items of its own namespace and key only.
LEMMA WithIsLocal ==
  ASSUME NEW x \in items
  PROVE  \A y \in With(x) : y \in items /\ y.ns = x.ns /\ y.key = x.key
BY DEF With, In

LEMMA OldIsLocal ==
  ASSUME NEW x, NEW y \in Old(x)
  PROVE  y \in items /\ y.ns = x.ns /\ y.key = x.key
<1>1. CASE Find(x.ns, x.key, x.type) # {}
  BY <1>1 DEF Old, Find, In
<1>2. CASE Find(x.ns, x.key, x.type) = {}
  BY <1>2 DEF Old, FindAny, In
<1> QED BY <1>1, <1>2

\* Writing an item changes nothing of another namespace or of another key.
LEMMA RewriteIsLocal ==
  ASSUME NEW x, Rewrite(x)
  PROVE  \A y \in (items \ items') \cup (items' \ items) : y.ns = x.ns /\ y.key = x.key
<1>1. CASE Old(x) = {} /\ items' = items \cup {x}
  BY <1>1
<1>2. CASE \E old \in Old(x) : items' = (items \ With(old)) \cup {x}
  <2>1. PICK old \in Old(x) : items' = (items \ With(old)) \cup {x}
    BY <1>2
  <2>2. old \in items /\ old.ns = x.ns /\ old.key = x.key
    BY OldIsLocal
  <2>3. \A y \in With(old) : y.ns = x.ns /\ y.key = x.key
    BY <2>2, WithIsLocal
  <2> QED BY <2>1, <2>3
<1> QED BY <1>1, <1>2 DEF Rewrite

\* A step that changes items of one namespace leaves the names and the others.
Within(i) == \A y \in (items \ items') \cup (items' \ items) : y.ns = i

LEMMA WithinKeepsNames ==
  ASSUME NEW i, i # 0, Within(i)
  PROVE  /\ NamesOf(items') = NamesOf(items)
         /\ \A j : j # i => In(j)' = In(j)
BY DEF Within, NamesOf, In

LEMMA SetItemWithin ==
  ASSUME NEW h, NEW k, NEW t, NEW v, SetItem(h, k, t, v)
  PROVE  h \in DOMAIN entries /\ ~entries[h].ro /\ Within(entries[h].index)
<1>1. h \in DOMAIN entries /\ ~entries[h].ro
  BY DEF SetItem, Writable
<1>2. Target(h, k, t, v).ns = entries[h].index
  BY ItemFields DEF Target
<1>3. CASE UNCHANGED items
  BY <1>1, <1>3 DEF Within
<1>4. CASE Rewrite(Target(h, k, t, v))
  BY <1>1, <1>2, <1>4, RewriteIsLocal DEF Within
<1> QED BY <1>3, <1>4 DEF SetItem

LEMMA EraseKeyWithin ==
  ASSUME NEW h, NEW k, EraseKey(h, k)
  PROVE  h \in DOMAIN entries /\ ~entries[h].ro /\ Within(entries[h].index)
<1>1. h \in DOMAIN entries /\ ~entries[h].ro
  BY DEF EraseKey, Writable
<1>2. PICK x \in FindAny(entries[h].index, k) : items' = items \ With(x)
  BY DEF EraseKey
<1>3. x \in items /\ x.ns = entries[h].index
  BY DEF FindAny, In
<1> QED BY <1>1, <1>2, <1>3, WithIsLocal DEF Within

LEMMA EraseAllStepWithin ==
  ASSUME EraseAllStep
  PROVE  Within(erasing)
BY DEF EraseAllStep, In, Within

\* A new name leaves every other item, but for an older copy of the name.
LEMMA NewNameWithin ==
  ASSUME NEW n, Sound, CreateNamespace(n)
  PROVE  /\ NextIndex \in IndexRange /\ NextIndex \notin usage
         /\ NsItem(n, NextIndex) \in items'
         /\ \A y \in items' : y \in items \/ y = NsItem(n, NextIndex)
         /\ \A y \in items : y \in items' \/ (y \in NamesOf(items) /\ y.key = n)
         /\ \A y \in NamesOf(items) : y \in items' /\ y.key = n => y = NsItem(n, NextIndex)
<1> DEFINE new == NsItem(n, NextIndex)
<1>1. new.ns = 0 /\ new.key = n /\ new.type = "u8" /\ new.val = NextIndex
  BY NsItemFields
<1>2. NextIndex \in IndexRange /\ NextIndex \notin usage
  BY NextIndexIsFree DEF CreateNamespace
<1>3. CASE Old(new) = {} /\ items' = items \cup {new}
  <2>1. \A y \in NamesOf(items) : y.key # n
    <3> SUFFICES ASSUME NEW y \in NamesOf(items), y.key = n PROVE FALSE
      OBVIOUS
    <3>1. y.type = "u8" /\ y \in items /\ y.ns = 0
      BY NamesAreItems DEF Sound, NamesOf
    <3>2. y \in Find(new.ns, new.key, new.type)
      BY <1>1, <3>1 DEF Find, In
    <3> QED BY <3>2, <1>3 DEF Old
  <2> QED BY <1>1, <1>2, <1>3, <2>1
<1>4. CASE \E old \in Old(new) : items' = (items \ With(old)) \cup {new}
  <2>1. PICK old \in Old(new) : items' = (items \ With(old)) \cup {new}
    BY <1>4
  <2>2. old \in items /\ old.ns = 0 /\ old.key = n
    BY <1>1, OldIsLocal
  <2>3. old \in NamesOf(items)
    BY <2>2 DEF NamesOf
  <2>4. old.type = "u8"
    BY <2>3, NamesAreItems DEF Sound
  <2>5. With(old) = {old}
    BY <2>4 DEF With
  <2>6. \A y \in NamesOf(items) : y.key = n => y = old
    BY <2>2, <2>3 DEF Sound, OneNamePerIndex, OneToOne
  <2> QED BY <1>1, <1>2, <2>1, <2>3, <2>5, <2>2, <2>6
<1> QED BY <1>3, <1>4 DEF CreateNamespace, Rewrite

-----------------------------------------------------------------------------
(* Every step keeps Sound.                                                 *)

\* A step that leaves the names on flash, the table and the handles.
LEMMA NamesKept ==
  ASSUME Sound, NamesOf(items') = NamesOf(items),
         UNCHANGED <<table, usage, storage, life, entries>>,
         EraserIsOpen'
  PROVE  Sound'
<1>1. WellNamed(items') /\ OneNamePerIndex'
  BY DEF Sound, WellNamed, OneNamePerIndex, OneToOne
<1>2. TableIsFlash'
  <2>1. \A n, i : NsItem(n, i) \in items => NsItem(n, i) \in items'
    <3> TAKE n, i
    <3> HAVE NsItem(n, i) \in items
    <3>1. NsItem(n, i) \in NamesOf(items)
      BY NsItemFields DEF NamesOf
    <3>2. NsItem(n, i) \in NamesOf(items')
      BY <3>1
    <3> QED BY <3>2 DEF NamesOf
  <2> QED BY <2>1 DEF Sound, TableIsFlash, Named
<1>3. HandleMeansName' /\ ClosedIsEmpty' /\ life' \in Nat
  BY DEF Sound, HandleMeansName, ClosedIsEmpty, Named
<1> QED BY <1>1, <1>2, <1>3 DEF Sound

\* A step within the namespace of an index keeps the rest, if it keeps the erasure.
LEMMA WithinKeepsSound ==
  ASSUME Sound, NEW i, i # 0, Within(i), UNCHANGED <<table, usage, storage, life, entries, erasing>>
  PROVE  Sound'
<1>1. NamesOf(items') = NamesOf(items)
  BY WithinKeepsNames
<1>2. EraserIsOpen'
  BY DEF Sound, EraserIsOpen
<1> QED BY <1>1, <1>2, NamesKept

LEMMA MountKeepsSound ==
  ASSUME Sound, InitPartition
  PROVE  Sound'
<1>1. NamesOf(items') = NamesOf(items)
  BY DEF InitPartition, NamesOf
<1>2. WellNamed(items') /\ OneNamePerIndex'
  BY <1>1 DEF Sound, WellNamed, OneNamePerIndex, OneToOne
<1>3. \A n \in Named' : NsItem(n, table'[n]) \in items'
  <2> SUFFICES ASSUME NEW n \in Named' PROVE NsItem(n, table'[n]) \in items'
    OBVIOUS
  <2>1. PICK x \in NamesOf(items) : n = x.key
    BY DEF Named, InitPartition
  <2>2. x.val \in IndexRange /\ NsItem(n, x.val) \in items
    BY <2>1, NamesAreItems DEF Sound, NamesOf
  <2>3. NsItem(n, FlashIndex(n)) \in items
    BY <2>2 DEF FlashIndex
  <2>4. table'[n] = FlashIndex(n)
    BY <2>1 DEF InitPartition
  <2>5. NsItem(n, FlashIndex(n)) \in items'
    BY <2>3, NsItemFields DEF InitPartition
  <2> QED BY <2>4, <2>5
<1>4. TableIsFlash'
  BY <1>1, <1>3 DEF TableIsFlash, InitPartition
<1>5. storage = 0 /\ DOMAIN entries = {} /\ entries' = entries
  BY DEF Sound, ClosedIsEmpty, InitPartition
<1>6. storage' # 0 /\ life' \in Nat
  BY DEF Sound, InitPartition
<1>7. erasing' = 0
  BY <1>5 DEF Sound, EraserIsOpen, InitPartition
<1> QED BY <1>2, <1>4, <1>5, <1>6, <1>7 DEF Sound, HandleMeansName, ClosedIsEmpty, EraserIsOpen

LEMMA UnmountKeepsSound ==
  ASSUME Sound, DeinitPartition
  PROVE  Sound'
<1>1. \A h \in DOMAIN entries : entries[h].storage = storage
  BY DEF Sound, HandleMeansName
<1>2. DOMAIN entries' = {}
  BY <1>1 DEF DeinitPartition
<1>3. storage' = 0 /\ DOMAIN table' = {} /\ erasing' = 0 /\ items' = items /\ life' = life
  BY DEF DeinitPartition
<1> QED BY <1>2, <1>3 DEF Sound, OneNamePerIndex, TableIsFlash, HandleMeansName, ClosedIsEmpty, EraserIsOpen

LEMMA PowerLossKeepsSound ==
  ASSUME Sound, PowerLoss
  PROVE  Sound'
<1>1. storage' = 0 /\ DOMAIN table' = {} /\ DOMAIN entries' = {} /\ erasing' = 0
      /\ items' = items /\ life' = life
  BY DEF PowerLoss
<1> QED BY <1>1 DEF Sound, OneNamePerIndex, TableIsFlash, HandleMeansName, ClosedIsEmpty, EraserIsOpen

LEMMA ReplaceKeepsSound ==
  ASSUME Sound, ReplaceImage
  PROVE  Sound'
<1>1. WellNamed(items') /\ OneNamePerIndex'
  BY ImageAssumption DEF ReplaceImage, OneNamePerIndex
<1>2. storage' = 0 /\ table' = table /\ entries' = entries /\ erasing' = erasing /\ life' = life
      /\ storage = 0
  BY DEF ReplaceImage
<1> QED BY <1>1, <1>2 DEF Sound, TableIsFlash, HandleMeansName, ClosedIsEmpty, EraserIsOpen, Named

\* A handle to a name of the table.
LEMMA NewHandleKeepsSound ==
  ASSUME NEW n, NEW i, NEW ro, Sound, NewHandle(n, i, ro), storage # 0,
         erasing = 0, erasing' = 0, storage' = storage,
         n \in Named', table'[n] = i,
         \A m \in Named : m \in Named' /\ table'[m] = table[m]
  PROVE  HandleMeansName' /\ ClosedIsEmpty' /\ EraserIsOpen'
<1>1. entries' = [h \in DOMAIN entries \cup {opened + 1} |->
                    IF h = opened + 1 THEN Handle(n, i, ro) ELSE entries[h]]
  BY DEF NewHandle
<1>2. Handle(n, i, ro).name = n /\ Handle(n, i, ro).index = i /\ Handle(n, i, ro).storage = storage
  BY DEF Handle
<1>3. ASSUME NEW h \in DOMAIN entries'
      PROVE  entries'[h].storage = storage' /\ entries'[h].name \in Named'
             /\ entries'[h].index = table'[entries'[h].name]
  <2>1. CASE h = opened + 1
    BY <1>1, <1>2, <2>1
  <2>2. CASE h # opened + 1
    <3>1. h \in DOMAIN entries /\ entries'[h] = entries[h]
      BY <1>1, <2>2
    <3> QED BY <3>1 DEF Sound, HandleMeansName
  <2> QED BY <2>1, <2>2
<1> QED BY <1>3 DEF HandleMeansName, ClosedIsEmpty, EraserIsOpen

LEMMA OpenKeepsSound ==
  ASSUME Sound, NEW n, NEW ro, OpenExisting(n, ro)
  PROVE  Sound'
<1>1. HandleMeansName' /\ ClosedIsEmpty' /\ EraserIsOpen'
  BY NewHandleKeepsSound DEF OpenExisting, Named
<1> QED BY <1>1 DEF Sound, OpenExisting, OneNamePerIndex, TableIsFlash, Named

LEMMA CreateKeepsNames ==
  ASSUME Sound, NEW n \in Names, CreateNamespace(n)
  PROVE  /\ WellNamed(items') /\ OneNamePerIndex'
         /\ \A m \in Named : NsItem(m, table[m]) \in items'
         /\ NsItem(n, NextIndex) \in items'
         /\ \A x \in NamesOf(items') : x.val \in usage'
<1> DEFINE new == NsItem(n, NextIndex)
<1>1. new.ns = 0 /\ new.key = n /\ new.val = NextIndex
  BY NsItemFields
<1>2. \A y \in NamesOf(items') : y \in NamesOf(items) \/ y = new
  BY NewNameWithin DEF NamesOf
<1>3. WellNamed(items')
  BY <1>2, NewNameWithin DEF Sound, WellNamed
<1>4. storage # 0 /\ usage' = usage \cup {NextIndex} /\ n \notin Named
  BY DEF CreateNamespace
<1>5. \A x \in NamesOf(items) : x.val \in usage /\ x.val # NextIndex
  BY <1>4, NewNameWithin DEF Sound, TableIsFlash
<1>6. \A x \in NamesOf(items') : x.val \in usage'
  BY <1>1, <1>2, <1>4, <1>5
<1>7. ASSUME NEW x \in NamesOf(items'), NEW y \in NamesOf(items'), x.key = y.key \/ x.val = y.val
      PROVE  x = y
  <2>1. CASE x \in NamesOf(items) /\ y \in NamesOf(items)
    BY <1>7, <2>1 DEF Sound, OneNamePerIndex, OneToOne
  <2>2. CASE x = new /\ y \in NamesOf(items)
    <3>1. y.key = n
      BY <1>1, <1>5, <1>7, <2>2
    <3> QED BY <3>1, <2>2, NewNameWithin DEF NamesOf
  <2>3. CASE y = new /\ x \in NamesOf(items)
    <3>1. x.key = n
      BY <1>1, <1>5, <1>7, <2>3
    <3> QED BY <3>1, <2>3, NewNameWithin DEF NamesOf
  <2> QED BY <1>2, <2>1, <2>2, <2>3
<1>8. ASSUME NEW m \in Named PROVE NsItem(m, table[m]) \in items'
  <2>1. NsItem(m, table[m]) \in items /\ NsItem(m, table[m]).key # n
    BY <1>4, NsItemFields DEF Sound, TableIsFlash
  <2> QED BY <2>1, NewNameWithin
<1> QED BY <1>3, <1>6, <1>7, <1>8, NewNameWithin DEF OneNamePerIndex, OneToOne

LEMMA CreateKeepsSound ==
  ASSUME Sound, NEW n \in Names, OpenCreates(n)
  PROVE  Sound'
<1>1. storage # 0 /\ erasing = 0 /\ CreateNamespace(n) /\ NewHandle(n, NextIndex, FALSE)
      /\ storage' = storage /\ erasing' = erasing /\ life' = life /\ n \notin Named
      /\ table' = [m \in Named \cup {n} |-> IF m = n THEN NextIndex ELSE table[m]]
  BY DEF OpenCreates, CreateNamespace
<1>2. n \in Named' /\ table'[n] = NextIndex /\ \A m \in Named : m \in Named' /\ table'[m] = table[m]
  BY <1>1 DEF Named
<1>3. HandleMeansName' /\ ClosedIsEmpty' /\ EraserIsOpen'
  BY <1>1, <1>2, NewHandleKeepsSound
<1>4. TableIsFlash'
  BY <1>1, <1>2, CreateKeepsNames DEF TableIsFlash, Named
<1> QED BY <1>1, <1>3, <1>4, CreateKeepsNames DEF Sound

LEMMA OutOfMemoryKeepsSound ==
  ASSUME Sound, NEW n \in Names, OpenOutOfMemory(n)
  PROVE  Sound'
<1>1. CreateNamespace(n) /\ UNCHANGED <<table, storage, life, entries, erasing>>
  BY DEF OpenOutOfMemory
<1>2. HandleMeansName' /\ ClosedIsEmpty' /\ EraserIsOpen' /\ life' \in Nat
  BY <1>1 DEF Sound, HandleMeansName, ClosedIsEmpty, EraserIsOpen, Named
<1>3. TableIsFlash'
  BY <1>1, CreateKeepsNames DEF TableIsFlash, Named
<1> QED BY <1>1, <1>2, <1>3, CreateKeepsNames DEF Sound

LEMMA CloseKeepsSound ==
  ASSUME Sound, NEW h, Close(h)
  PROVE  Sound'
<1>1. /\ entries' = [g \in DOMAIN entries \ {h} |-> entries[g]] /\ erasing' = 0
      /\ UNCHANGED <<items, table, usage, storage, life>>
  BY DEF Close
<1>2. HandleMeansName' /\ ClosedIsEmpty' /\ EraserIsOpen'
  BY <1>1 DEF Sound, HandleMeansName, ClosedIsEmpty, EraserIsOpen, Named
<1> QED BY <1>1, <1>2 DEF Sound, OneNamePerIndex, TableIsFlash, Named

LEMMA StutterKeepsSound ==
  ASSUME Sound, UNCHANGED library
  PROVE  Sound'
BY DEF Sound, library, OneNamePerIndex, TableIsFlash, HandleMeansName, ClosedIsEmpty, EraserIsOpen, Named

LEMMA SoundAtFirst == LibraryInit => Sound
<1> SUFFICES ASSUME LibraryInit PROVE Sound
  OBVIOUS
<1>1. items \in Images /\ storage = 0 /\ DOMAIN table = {} /\ DOMAIN entries = {} /\ erasing = 0 /\ life = 0
  BY DEF LibraryInit
<1>2. WellNamed(items) /\ OneNamePerIndex
  BY <1>1, ImageAssumption DEF OneNamePerIndex
<1> QED BY <1>1, <1>2 DEF Sound, TableIsFlash, HandleMeansName, ClosedIsEmpty, EraserIsOpen

LEMMA OpenCallKeepsSound ==
  ASSUME Sound, OpenCall
  PROVE  Sound'
<1>1. PICK n \in Names :
        \/ \E ro \in BOOLEAN : OpenExisting(n, ro) \/ OpenFails(n, ro)
        \/ OpenCreates(n)
        \/ OpenOutOfMemory(n)
  BY DEF OpenCall
<1>2. ASSUME NEW ro, OpenFails(n, ro) PROVE Sound'
  BY <1>2, StutterKeepsSound DEF OpenFails
<1> QED BY <1>1, <1>2, OpenKeepsSound, CreateKeepsSound, OutOfMemoryKeepsSound

LEMMA HandleCallKeepsSound ==
  ASSUME Sound, HandleCall
  PROVE  Sound'
<1>1. PICK h \in 1 .. MaxHandle :
        \/ Close(h)
        \/ EraseAll(h)
        \/ \E k \in Keys :
             \/ EraseKey(h, k) \/ EraseKeyFails(h, k)
             \/ \E t \in {"u8", "str"}, v \in Values : SetItem(h, k, t, v) \/ SetFails(h, k, t, v)
  BY DEF HandleCall
<1>2. CASE Close(h)
  BY <1>2, CloseKeepsSound
<1>3. CASE EraseAll(h)
  <2>1. erasing' = entries[h].index /\ h \in DOMAIN entries /\ ~entries[h].ro
        /\ UNCHANGED <<items, table, usage, storage, life, entries>>
    BY <1>3 DEF EraseAll, Writable
  <2>2. EraserIsOpen'
    BY <2>1 DEF EraserIsOpen
  <2> QED BY <2>1, <2>2, NamesKept
<1>4. ASSUME NEW k, EraseKey(h, k) PROVE Sound'
  <2>1. h \in DOMAIN entries /\ Within(entries[h].index)
    BY <1>4, EraseKeyWithin
  <2>2. UNCHANGED <<table, usage, storage, life, entries, erasing>>
    BY <1>4 DEF EraseKey
  <2> QED BY <2>1, <2>2, HandlesHaveIndexes, WithinKeepsSound
<1>5. ASSUME NEW k, NEW t, NEW v, SetItem(h, k, t, v) PROVE Sound'
  <2>1. h \in DOMAIN entries /\ Within(entries[h].index)
    BY <1>5, SetItemWithin
  <2>2. UNCHANGED <<table, usage, storage, life, entries, erasing>>
    BY <1>5 DEF SetItem
  <2> QED BY <2>1, <2>2, HandlesHaveIndexes, WithinKeepsSound
<1>6. ASSUME NEW k, EraseKeyFails(h, k) PROVE Sound'
  BY <1>6, StutterKeepsSound DEF EraseKeyFails
<1>7. ASSUME NEW k, NEW t, NEW v, SetFails(h, k, t, v) PROVE Sound'
  BY <1>7, StutterKeepsSound DEF SetFails
<1> QED BY <1>1, <1>2, <1>3, <1>4, <1>5, <1>6, <1>7

LEMMA SoundIsKept ==
  ASSUME Sound, [LibraryNext]_library
  PROVE  Sound'
<1>1. CASE EraseAllStep
  <2>1. erasing # 0 /\ UNCHANGED <<table, usage, storage, life, entries, erasing>>
    BY <1>1 DEF EraseAllStep
  <2> QED BY <1>1, <2>1, EraseAllStepWithin, WithinKeepsSound
<1>2. CASE EraseAllDone
  <2>1. EraserIsOpen' /\ UNCHANGED <<items, table, usage, storage, life, entries>>
    BY <1>2 DEF EraseAllDone, EraserIsOpen
  <2> QED BY <2>1, NamesKept
<1> QED
  BY <1>1, <1>2, MountKeepsSound, UnmountKeepsSound, OpenCallKeepsSound, HandleCallKeepsSound,
     PowerLossKeepsSound, ReplaceKeepsSound, StutterKeepsSound DEF LibraryNext

LEMMA AlwaysSound == LibrarySpec => []Sound
BY SoundAtFirst, SoundIsKept, PTL DEF LibrarySpec

-----------------------------------------------------------------------------
(* Who may change what.                                                    *)

\* Orphans carry no index of a name in the table.
LEMMA OrphansAreOthers ==
  ASSUME Sound, storage # 0, NEW n \in Named, NEW x \in Orphans
  PROVE  x.ns # table[n]
<1>1. NsItem(n, table[n]) \in NamesOf(items) /\ NsItem(n, table[n]).val = table[n]
  BY NsItemFields DEF Sound, TableIsFlash, NamesOf
<1> QED BY <1>1 DEF Orphans

\* A step within the namespace of an open read-write handle reaches no other.
LEMMA WithinKeepsOthers ==
  ASSUME Sound, NEW h \in DOMAIN entries, ~entries[h].ro, Within(entries[h].index),
         UNCHANGED <<table, usage, storage>>
  PROVE  KeepsOthers
<1> DEFINE i == entries[h].index
<1>1. storage # 0 /\ i # 0 /\ entries[h].name \in Named /\ i = table[entries[h].name]
  BY HandlesHaveIndexes
<1>2. NamesOf(items') = NamesOf(items) /\ \A j : j # i => In(j)' = In(j)
  BY <1>1, WithinKeepsNames
<1>3. ASSUME NEW n \in Named, In(table[n])' # In(table[n]) PROVE entries[h].name = n
  <2>1. In(table[n])' = {x \in items' : x.ns = table[n]}
    BY DEF In
  <2>2. table[n] = i
    <3> SUFFICES ASSUME table[n] # i PROVE FALSE
      OBVIOUS
    <3>1. \A x \in items' : x.ns = table[n] => x \in items
      BY DEF Within
    <3>2. \A x \in items : x.ns = table[n] => x \in items'
      BY DEF Within
    <3>3. {x \in items' : x.ns = table[n]} = {x \in items : x.ns = table[n]}
      BY <3>1, <3>2
    <3> QED BY <2>1, <3>3, <1>3 DEF In
  <2> QED BY <1>1, <2>2, TableIsInjective
<1>4. ASSUME NEW x \in Orphans PROVE x \in items' /\ x \in Orphans'
  <2>1. x \in items /\ x.ns # 0 /\ x.ns # i /\ \A y \in NamesOf(items) : y.val # x.ns
    BY <1>1, OrphansAreOthers DEF Orphans
  <2>2. x \in items'
    BY <2>1 DEF Within
  <2> QED BY <1>2, <2>1, <2>2 DEF Orphans
<1> QED BY <1>3, <1>4 DEF KeepsOthers

\* A step that changes no item, or knows no name before or after, changes no namespace.
LEMMA SameItemsKeepOthers ==
  ASSUME items' = items, \A n \in Named \cap Named' : table'[n] = table[n]
  PROVE  KeepsOthers
<1>1. \A n \in Named \cap Named' : In(table[n])' = In(table[n])
  BY DEF In
<1>2. Orphans' = Orphans
  BY DEF Orphans
<1>3. Orphans \subseteq items
  BY DEF Orphans
<1> QED BY <1>1, <1>2, <1>3 DEF KeepsOthers

LEMMA ClosedKeepsOthers ==
  ASSUME Sound, storage = 0
  PROVE  KeepsOthers
BY DEF Sound, ClosedIsEmpty, KeepsOthers, Named

\* A new namespace changes no other; it may adopt what lies under its index.
LEMMA CreateKeepsOthers ==
  ASSUME Sound, NEW n \in Names, CreateNamespace(n),
         \A m \in Named \cap Named' : table'[m] = table[m]
  PROVE  KeepsOthers
<1> DEFINE new == NsItem(n, NextIndex)
<1>1. new.ns = 0 /\ new.val = NextIndex
  BY NsItemFields
<1>2. storage # 0 /\ usage' = usage \cup {NextIndex}
  BY DEF CreateNamespace
<1>3. \A y : y.ns # 0 => (y \in items <=> y \in items')
  BY <1>1, NewNameWithin DEF NamesOf
<1>4. ASSUME NEW m \in Named \cap Named' PROVE In(table[m])' = In(table[m])
  <2>1. table[m] # 0 /\ table'[m] = table[m]
    BY <1>2, TableIsInjective
  <2> QED BY <1>3, <2>1 DEF In
<1>5. ASSUME NEW x \in Orphans PROVE x \in items' /\ (x \in Orphans' \/ x.ns \in usage')
  <2>1. x \in items /\ x.ns # 0 /\ \A y \in NamesOf(items) : y.val # x.ns
    BY DEF Orphans
  <2>2. x \in items'
    BY <1>3, <2>1
  <2>3. \A y \in NamesOf(items') : y \in NamesOf(items) \/ y = new
    BY NewNameWithin DEF NamesOf
  <2>4. CASE x.ns = NextIndex
    BY <1>2, <2>2, <2>4
  <2>5. CASE x.ns # NextIndex
    BY <1>1, <2>1, <2>2, <2>3, <2>5 DEF Orphans
  <2> QED BY <2>4, <2>5
<1> QED BY <1>4, <1>5 DEF KeepsOthers

LEMMA OpenCallKeepsOthers ==
  ASSUME Sound, OpenCall, ~ UNCHANGED library
  PROVE  KeepsOthers
<1>1. PICK n \in Names :
        \/ \E ro \in BOOLEAN : OpenExisting(n, ro) \/ OpenFails(n, ro)
        \/ OpenCreates(n)
        \/ OpenOutOfMemory(n)
  BY DEF OpenCall
<1>2. ASSUME NEW ro, OpenExisting(n, ro) PROVE KeepsOthers
  BY <1>2, SameItemsKeepOthers DEF OpenExisting
<1>3. CASE OpenCreates(n)
  <2>1. CreateNamespace(n) /\ n \notin Named
        /\ table' = [m \in Named \cup {n} |-> IF m = n THEN NextIndex ELSE table[m]]
    BY <1>3 DEF OpenCreates, CreateNamespace
  <2>2. \A m \in Named \cap Named' : table'[m] = table[m]
    BY <2>1
  <2> QED BY <2>1, <2>2, CreateKeepsOthers
<1>4. CASE OpenOutOfMemory(n)
  BY <1>4, CreateKeepsOthers DEF OpenOutOfMemory
<1> QED BY <1>1, <1>2, <1>3, <1>4 DEF OpenFails

LEMMA HandleCallKeepsOthers ==
  ASSUME Sound, HandleCall, ~ UNCHANGED library
  PROVE  KeepsOthers
<1>1. PICK h \in 1 .. MaxHandle :
        \/ Close(h)
        \/ EraseAll(h)
        \/ \E k \in Keys :
             \/ EraseKey(h, k) \/ EraseKeyFails(h, k)
             \/ \E t \in {"u8", "str"}, v \in Values : SetItem(h, k, t, v) \/ SetFails(h, k, t, v)
  BY DEF HandleCall
<1>2. CASE Close(h)
  BY <1>2, SameItemsKeepOthers DEF Close
<1>3. CASE EraseAll(h)
  BY <1>3, SameItemsKeepOthers DEF EraseAll
<1>4. ASSUME NEW k, EraseKey(h, k) PROVE KeepsOthers
  <2>1. UNCHANGED <<table, usage, storage>>
    BY <1>4 DEF EraseKey
  <2> QED BY <1>4, <2>1, EraseKeyWithin, WithinKeepsOthers
<1>5. ASSUME NEW k, NEW t, NEW v, SetItem(h, k, t, v) PROVE KeepsOthers
  <2>1. UNCHANGED <<table, usage, storage>>
    BY <1>5 DEF SetItem
  <2> QED BY <1>5, <2>1, SetItemWithin, WithinKeepsOthers
<1> QED BY <1>1, <1>2, <1>3, <1>4, <1>5 DEF EraseKeyFails, SetFails

LEMMA OthersAreKept ==
  ASSUME Sound, [LibraryNext]_library
  PROVE  [KeepsOthers]_library
<1> SUFFICES ASSUME LibraryNext, ~ UNCHANGED library PROVE KeepsOthers
  OBVIOUS
<1>1. CASE InitPartition
  BY <1>1, ClosedKeepsOthers DEF InitPartition
<1>2. CASE DeinitPartition
  BY <1>2, SameItemsKeepOthers DEF DeinitPartition, Named
<1>3. CASE EraseAllStep
  <2>1. erasing # 0 /\ UNCHANGED <<table, usage, storage>>
    BY <1>3 DEF EraseAllStep
  <2>2. PICK h \in DOMAIN entries : entries[h].index = erasing /\ ~entries[h].ro
    BY <2>1 DEF Sound, EraserIsOpen
  <2> QED BY <1>3, <2>1, <2>2, EraseAllStepWithin, WithinKeepsOthers
<1>4. CASE EraseAllDone
  BY <1>4, SameItemsKeepOthers DEF EraseAllDone
<1>5. CASE PowerLoss
  BY <1>5, SameItemsKeepOthers DEF PowerLoss, Named
<1>6. CASE ReplaceImage
  BY <1>6, ClosedKeepsOthers DEF ReplaceImage
<1> QED
  BY <1>1, <1>2, <1>3, <1>4, <1>5, <1>6, OpenCallKeepsOthers, HandleCallKeepsOthers DEF LibraryNext

-----------------------------------------------------------------------------
(* Numbers of handles, and the shape of items.                             *)

HandleNumbers ==
  /\ opened \in 0 .. MaxHandle
  /\ entries = [h \in DOMAIN entries |-> entries[h]] /\ DOMAIN entries \subseteq 1 .. opened

LEMMA NoneIsFunction == <<>> = [h \in DOMAIN <<>> |-> <<>>[h]] /\ DOMAIN <<>> = {}
OBVIOUS

LEMMA NumbersAtFirst == LibraryInit => HandleNumbers
BY BoundAssumption, NoneIsFunction DEF LibraryInit, HandleNumbers

LEMMA NumbersOfNewHandle ==
  ASSUME HandleNumbers, NEW n, NEW i, NEW ro, NewHandle(n, i, ro)
  PROVE  HandleNumbers'
BY BoundAssumption DEF HandleNumbers, NewHandle

LEMMA NumbersAreKept ==
  ASSUME HandleNumbers, [LibraryNext]_library
  PROVE  HandleNumbers'
<1>1. ASSUME UNCHANGED <<entries, opened>> PROVE HandleNumbers'
  BY <1>1 DEF HandleNumbers
<1>2. CASE InitPartition \/ EraseAllStep \/ EraseAllDone \/ ReplaceImage \/ UNCHANGED library
  BY <1>1, <1>2 DEF InitPartition, EraseAllStep, EraseAllDone, ReplaceImage, library
<1>3. CASE DeinitPartition
  BY <1>3 DEF DeinitPartition, HandleNumbers
<1>4. CASE PowerLoss
  BY <1>4, BoundAssumption, NoneIsFunction DEF PowerLoss, HandleNumbers
<1>5. CASE OpenCall
  BY <1>1, <1>5, NumbersOfNewHandle
     DEF OpenCall, OpenExisting, OpenFails, OpenCreates, OpenOutOfMemory, library
<1>6. CASE HandleCall
  <2>1. ASSUME NEW h, Close(h) PROVE HandleNumbers'
    BY <2>1 DEF Close, HandleNumbers
  <2> QED BY <1>1, <1>6, <2>1 DEF HandleCall, EraseAll, EraseKey, EraseKeyFails, SetItem, SetFails, library
<1> QED BY <1>2, <1>3, <1>4, <1>5, <1>6 DEF LibraryNext

LEMMA ItemIsItem ==
  ASSUME NEW i, NEW k, NEW t, NEW v
  PROVE  AreItems({Item(i, k, t, v)}) /\ AreItems({NsItem(k, v)})
BY DEF AreItems, Item, NsItem

LEMMA RewriteKeepsItems ==
  ASSUME AreItems(items), NEW x, AreItems({x}), Rewrite(x)
  PROVE  AreItems(items')
BY DEF AreItems, Rewrite

LEMMA ItemsAreKept ==
  ASSUME AreItems(items), [LibraryNext]_library
  PROVE  AreItems(items')
<1>1. ASSUME items' \subseteq items PROVE AreItems(items')
  BY <1>1 DEF AreItems
<1>2. CASE InitPartition \/ DeinitPartition \/ EraseAllStep \/ EraseAllDone \/ PowerLoss \/ UNCHANGED library
  BY <1>1, <1>2 DEF InitPartition, DeinitPartition, EraseAllStep, EraseAllDone, PowerLoss, library
<1>3. CASE ReplaceImage
  BY <1>3, ImageAssumption DEF ReplaceImage
<1>4. CASE OpenCall
  <2>1. ASSUME NEW n, CreateNamespace(n) PROVE AreItems(items')
    BY <2>1, ItemIsItem, RewriteKeepsItems DEF CreateNamespace
  <2> QED BY <1>1, <1>4, <2>1 DEF OpenCall, OpenExisting, OpenFails, OpenCreates, OpenOutOfMemory, library
<1>5. CASE HandleCall
  <2>1. ASSUME NEW h, NEW k, NEW t, NEW v, SetItem(h, k, t, v) PROVE AreItems(items')
    BY <1>1, <2>1, ItemIsItem, RewriteKeepsItems DEF SetItem, Target
  <2>2. ASSUME NEW h, NEW k, EraseKey(h, k) PROVE AreItems(items')
    BY <1>1, <2>2 DEF EraseKey
  <2> QED BY <1>1, <1>5, <2>1, <2>2 DEF HandleCall, Close, EraseAll, EraseKeyFails, SetFails, library
<1> QED BY <1>2, <1>3, <1>4, <1>5 DEF LibraryNext

-----------------------------------------------------------------------------
(* Room: what is written fits, and what is erased gives room.              *)

LEMMA UsedByIsNatural ==
  ASSUME NEW S, IsFiniteSet(S)
  PROVE  UsedBy(S) \in Nat
<1>1. IsFiniteSet({x \in S : Span(x) = 2})
  BY FS_Subset
<1> QED BY <1>1, FS_CardinalityType DEF UsedBy

LEMMA UsedByPart ==
  ASSUME NEW S, IsFiniteSet(S), NEW T, T \subseteq S
  PROVE  IsFiniteSet(T) /\ UsedBy(T) \in Nat /\ UsedBy(S) \in Nat /\ UsedBy(T) <= UsedBy(S)
<1> DEFINE Two(R) == {x \in R : Span(x) = 2}
<1>1. IsFiniteSet(T) /\ Cardinality(T) <= Cardinality(S)
  BY FS_Subset
<1>2. IsFiniteSet(Two(S)) /\ Two(T) \subseteq Two(S)
  BY FS_Subset
<1>3. IsFiniteSet(Two(T)) /\ Cardinality(Two(T)) <= Cardinality(Two(S))
  BY <1>2, FS_Subset
<1>4. /\ Cardinality(S) \in Nat /\ Cardinality(T) \in Nat
      /\ Cardinality(Two(S)) \in Nat /\ Cardinality(Two(T)) \in Nat
  BY <1>1, <1>2, <1>3, FS_CardinalityType
<1>5. UsedBy(S) = Cardinality(S) + Cardinality(Two(S)) /\ UsedBy(T) = Cardinality(T) + Cardinality(Two(T))
  BY DEF UsedBy
<1> HIDE DEF Two
<1> QED BY <1>1, <1>3, <1>4, <1>5

LEMMA UsedByOneMore ==
  ASSUME NEW S, IsFiniteSet(S), NEW x
  PROVE  IsFiniteSet(S \cup {x}) /\ UsedBy(S \cup {x}) <= UsedBy(S) + Span(x)
<1> DEFINE Two(R) == {y \in R : Span(y) = 2}
<1>1. /\ IsFiniteSet(S \cup {x}) /\ Cardinality(S) \in Nat
      /\ Cardinality(S \cup {x}) \in {Cardinality(S), Cardinality(S) + 1}
  BY FS_AddElement, FS_CardinalityType
<1>2. IsFiniteSet(Two(S)) /\ Cardinality(Two(S)) \in Nat
  BY FS_Subset, FS_CardinalityType
<1>3. /\ Span(x) = 2 => Two(S \cup {x}) = Two(S) \cup {x}
      /\ Span(x) # 2 => Two(S \cup {x}) = Two(S) /\ Span(x) = 1
  BY DEF Span
<1>4. Cardinality(Two(S) \cup {x}) \in {Cardinality(Two(S)), Cardinality(Two(S)) + 1}
  BY <1>2, FS_AddElement
<1>5. /\ UsedBy(S) = Cardinality(S) + Cardinality(Two(S))
      /\ UsedBy(S \cup {x}) = Cardinality(S \cup {x}) + Cardinality(Two(S \cup {x}))
  BY DEF UsedBy
<1> HIDE DEF Two
<1>6. CASE Span(x) = 2
  <2>1. UsedBy(S \cup {x}) = Cardinality(S \cup {x}) + Cardinality(Two(S) \cup {x})
    BY <1>3, <1>5, <1>6
  <2> HIDE DEF UsedBy, Span
  <2> QED BY <1>1, <1>2, <1>4, <1>5, <1>6, <2>1
<1>7. CASE Span(x) # 2
  BY <1>1, <1>2, <1>3, <1>5, <1>7
<1> QED BY <1>1, <1>6, <1>7

LEMMA DisjointAreAdded ==
  ASSUME NEW S, NEW T, IsFiniteSet(S), IsFiniteSet(T), S \cap T = {}
  PROVE  IsFiniteSet(S \cup T) /\ Cardinality(S \cup T) = Cardinality(S) + Cardinality(T)
<1>1. /\ IsFiniteSet(S \cup T)
      /\ Cardinality(S \cup T) = Cardinality(S) + Cardinality(T) - Cardinality(S \cap T)
  BY FS_Union
<1>2. Cardinality(S \cap T) = 0 /\ Cardinality(S) \in Nat /\ Cardinality(T) \in Nat
  BY FS_EmptySet, FS_CardinalityType
<1> QED BY <1>1, <1>2

LEMMA UsedByBoth ==
  ASSUME NEW S, NEW T, IsFiniteSet(S), IsFiniteSet(T), S \cap T = {}
  PROVE  IsFiniteSet(S \cup T) /\ UsedBy(S \cup T) = UsedBy(S) + UsedBy(T)
<1> DEFINE Two(R) == {x \in R : Span(x) = 2}
<1>1. IsFiniteSet(S \cup T) /\ Cardinality(S \cup T) = Cardinality(S) + Cardinality(T)
  BY DisjointAreAdded
<1>2. IsFiniteSet(Two(S)) /\ IsFiniteSet(Two(T))
  BY FS_Subset
<1>3. Two(S \cup T) = Two(S) \cup Two(T) /\ Two(S) \cap Two(T) = {}
  OBVIOUS
<1>4. UsedBy(S \cup T) = Cardinality(S \cup T) + Cardinality(Two(S \cup T))
      /\ UsedBy(S) = Cardinality(S) + Cardinality(Two(S))
      /\ UsedBy(T) = Cardinality(T) + Cardinality(Two(T))
  BY DEF UsedBy
<1> HIDE DEF Two
<1>5. Cardinality(Two(S \cup T)) = Cardinality(Two(S)) + Cardinality(Two(T))
  BY <1>2, <1>3, DisjointAreAdded
<1>6. Cardinality(S) \in Nat /\ Cardinality(T) \in Nat /\ Cardinality(Two(S)) \in Nat /\ Cardinality(Two(T)) \in Nat
  BY <1>2, FS_CardinalityType
<1> QED BY <1>1, <1>4, <1>5, <1>6

StoreInv ==
  /\ InRange(items) /\ IsFiniteSet(items) /\ UsedBy(items) <= Room
  /\ usage \subseteq IndexRange
  /\ storage \in {0, life} /\ life \in 0 .. MaxLife
  /\ erasing \in 0 .. MaxIndex

LEMMA LessIsStored ==
  ASSUME StoreInv, NEW S, S \subseteq items
  PROVE  InRange(S) /\ IsFiniteSet(S) /\ UsedBy(S) <= Room
<1>1. IsFiniteSet(S) /\ UsedBy(S) \in Nat /\ UsedBy(items) \in Nat /\ UsedBy(S) <= UsedBy(items)
  BY UsedByPart DEF StoreInv
<1> QED BY <1>1, BoundAssumption DEF StoreInv, InRange

LEMMA RewriteIsStored ==
  ASSUME StoreInv, NEW x, InRange({x}), Rewrite(x)
  PROVE  InRange(items') /\ IsFiniteSet(items') /\ UsedBy(items') <= Room
<1>1. PICK S \in SUBSET items : items' = S \cup {x}
  <2>1. CASE Old(x) = {} /\ items' = items \cup {x}
    BY <2>1
  <2>2. CASE \E old \in Old(x) : items' = (items \ With(old)) \cup {x}
    BY <2>2
  <2> QED BY <2>1, <2>2 DEF Rewrite
<1>2. IsFiniteSet(S) /\ UsedBy(S) \in Nat /\ UsedBy(items) \in Nat /\ UsedBy(S) <= UsedBy(items)
  BY UsedByPart DEF StoreInv
<1>3. IsFiniteSet(items') /\ UsedBy(items') <= UsedBy(S) + Span(x)
  BY <1>1, <1>2, UsedByOneMore
<1>4. UsedBy(items) + Span(x) <= Room
  BY DEF Rewrite, Fits
<1>5. InRange(items')
  BY <1>1 DEF StoreInv, InRange
<1>6. UsedBy(items') \in Nat /\ Span(x) \in Nat
  BY <1>3, UsedByIsNatural DEF Span
<1> QED BY <1>2, <1>3, <1>4, <1>5, <1>6, BoundAssumption

LEMMA StoredAtFirst == LibraryInit => StoreInv
<1> SUFFICES ASSUME LibraryInit PROVE StoreInv
  OBVIOUS
<1>1. items \in Images /\ usage = {} /\ storage = 0 /\ life = 0 /\ erasing = 0
  BY DEF LibraryInit
<1> QED BY <1>1, ImageAssumption, BoundAssumption DEF StoreInv

LEMMA StoreIsKept ==
  ASSUME Sound, StoreInv, [LibraryNext]_library
  PROVE  StoreInv'
<1>1. ASSUME items' \subseteq items, UNCHANGED <<usage, storage, life>>, erasing' \in 0 .. MaxIndex
      PROVE  StoreInv'
  BY <1>1, LessIsStored DEF StoreInv
<1>2. CASE UNCHANGED library
  BY <1>1, <1>2 DEF library, StoreInv
<1>3. CASE InitPartition
  <2>1. items' \subseteq items /\ usage' = {x.val : x \in NamesOf(items)} /\ storage' = life'
        /\ life' = life + 1 /\ life < MaxLife /\ erasing' = erasing
    BY <1>3 DEF InitPartition
  <2>2. usage' \subseteq IndexRange
    BY <2>1, NamesAreItems DEF Sound
  <2>3. life' \in 0 .. MaxLife
    BY <2>1, BoundAssumption DEF StoreInv
  <2> QED BY <2>1, <2>2, <2>3, LessIsStored DEF StoreInv
<1>4. CASE DeinitPartition \/ PowerLoss
  <2>1. items' = items /\ usage' = {} /\ storage' = 0 /\ life' = life /\ erasing' \in {0, erasing}
    BY <1>4 DEF DeinitPartition, PowerLoss
  <2> QED BY <2>1, BoundAssumption DEF StoreInv
<1>5. CASE EraseAllStep \/ EraseAllDone
  <2>1. items' \subseteq items /\ UNCHANGED <<usage, storage, life>> /\ erasing' \in {0, erasing}
    BY <1>5 DEF EraseAllStep, EraseAllDone
  <2>2. erasing' \in 0 .. MaxIndex
    BY <2>1, BoundAssumption DEF StoreInv
  <2> QED BY <1>1, <2>1, <2>2
<1>6. CASE ReplaceImage
  <2>1. items' \in Images /\ UNCHANGED <<usage, storage, life, erasing>>
    BY <1>6 DEF ReplaceImage
  <2> QED BY <2>1, ImageAssumption DEF StoreInv
<1>7. CASE OpenCall
  <2>1. PICK n \in Names :
          \/ \E ro \in BOOLEAN : OpenExisting(n, ro) \/ OpenFails(n, ro)
          \/ OpenCreates(n) \/ OpenOutOfMemory(n)
    BY <1>7 DEF OpenCall
  <2>2. ASSUME NEW ro, OpenExisting(n, ro) \/ OpenFails(n, ro) PROVE StoreInv'
    BY <2>2 DEF OpenExisting, OpenFails, library, StoreInv
  <2>3. ASSUME CreateNamespace(n), UNCHANGED <<storage, life, erasing>> PROVE StoreInv'
    <3>1. Rewrite(NsItem(n, NextIndex)) /\ usage' = usage \cup {NextIndex}
      BY <2>3 DEF CreateNamespace
    <3>2. InRange({NsItem(n, NextIndex)})
      BY NsItemFields DEF InRange
    <3>3. InRange(items') /\ IsFiniteSet(items') /\ UsedBy(items') <= Room
      BY <3>1, <3>2, RewriteIsStored
    <3>4. usage' \subseteq IndexRange
      BY <2>3, <3>1, NextIndexIsFree DEF CreateNamespace, StoreInv
    <3> QED BY <2>3, <3>3, <3>4 DEF StoreInv
  <2> QED BY <2>1, <2>2, <2>3 DEF OpenCreates, OpenOutOfMemory
<1>8. CASE HandleCall
  <2>1. PICK h \in 1 .. MaxHandle :
          \/ Close(h) \/ EraseAll(h)
          \/ \E k \in Keys :
               \/ EraseKey(h, k) \/ EraseKeyFails(h, k)
               \/ \E t \in {"u8", "str"}, v \in Values : SetItem(h, k, t, v) \/ SetFails(h, k, t, v)
    BY <1>8 DEF HandleCall
  <2>2. CASE Close(h)
    BY <2>2 DEF Close, StoreInv
  <2>3. CASE EraseAll(h)
    <3>1. h \in DOMAIN entries /\ erasing' = entries[h].index /\ UNCHANGED <<items, usage, storage, life>>
      BY <2>3 DEF EraseAll, Writable
    <3>2. erasing' \in 0 .. MaxIndex
      BY <3>1, HandlesHaveIndexes, BoundAssumption DEF IndexRange
    <3> QED BY <1>1, <3>1, <3>2
  <2>4. ASSUME NEW k, EraseKey(h, k) PROVE StoreInv'
    BY <1>1, <2>4 DEF EraseKey, StoreInv
  <2>5. ASSUME NEW k, NEW t, NEW v, EraseKeyFails(h, k) \/ SetFails(h, k, t, v) PROVE StoreInv'
    BY <1>2, <2>5 DEF EraseKeyFails, SetFails
  <2>6. ASSUME NEW k \in Keys, NEW t \in {"u8", "str"}, NEW v, SetItem(h, k, t, v) PROVE StoreInv'
    <3>1. h \in DOMAIN entries /\ UNCHANGED <<usage, storage, life, erasing>>
      BY <2>6 DEF SetItem, Writable
    <3>2. InRange({Target(h, k, t, v)})
      BY <3>1, HandlesHaveIndexes, ItemFields DEF Target, InRange, ItemTypes
    <3>3. InRange(items') /\ IsFiniteSet(items') /\ UsedBy(items') <= Room
      BY <2>6, <3>2, RewriteIsStored, LessIsStored DEF SetItem
    <3> QED BY <3>1, <3>3 DEF StoreInv
  <2> QED BY <2>1, <2>2, <2>3, <2>4, <2>5, <2>6
<1> QED BY <1>2, <1>3, <1>4, <1>5, <1>6, <1>7, <1>8 DEF LibraryNext

LEMMA StoredIsTyped ==
  ASSUME Sound, HandleNumbers, StoreInv
  PROVE  LibraryTypeOK
<1>1. ASSUME NEW x \in items
      PROVE  \/ \E n \in Names, i \in IndexRange : x = NsItem(n, i)
             \/ x.ns \in IndexRange /\ x.key \in Keys /\ x.type \in ItemTypes
  BY DEF Sound, WellNamed, NamesOf, StoreInv, InRange
<1>2. Named \subseteq Names /\ \A n \in Named : table[n] \in IndexRange
  BY TableIsInjective DEF Sound, ClosedIsEmpty, Named
<1> QED BY <1>1, <1>2 DEF LibraryTypeOK, StoreInv, HandleNumbers

-----------------------------------------------------------------------------
(* While the partition is open, what there is of a blob has its index and  *)
(* its first chunk, but for a namespace that is being erased.              *)

LEMMA FewerAreCounted ==
  ASSUME IsFiniteSet(items), Counted(items),
         NEW S, \A x \in S : x \in items \/ x.type \notin BlobTypes
  PROVE  Counted(S)
<1> SUFFICES ASSUME NEW x \in S, x.type = "index"
             PROVE  x.val \in Nat /\ Cardinality(More(S, x.ns, x.key)) < x.val
  BY DEF Counted
<1>1. x \in items
  BY DEF BlobTypes
<1>2. More(S, x.ns, x.key) \subseteq More(items, x.ns, x.key)
  BY DEF More, BlobTypes
<1>3. IsFiniteSet(More(items, x.ns, x.key))
  BY FS_Subset DEF More
<1>4. Cardinality(More(S, x.ns, x.key)) <= Cardinality(More(items, x.ns, x.key))
  BY <1>2, <1>3, FS_Subset
<1>5. x.val \in Nat /\ Cardinality(More(items, x.ns, x.key)) < x.val
  BY <1>1 DEF Counted
<1>6. IsFiniteSet(More(S, x.ns, x.key))
  BY <1>2, <1>3, FS_Subset
<1> QED BY <1>3, <1>4, <1>5, <1>6, FS_CardinalityType

LEMMA CountedIsKept ==
  ASSUME IsFiniteSet(items), Counted(items), [LibraryNext]_library
  PROVE  Counted(items')
<1>1. ASSUME items' \subseteq items PROVE Counted(items')
  BY <1>1, FewerAreCounted
<1>2. CASE InitPartition \/ DeinitPartition \/ EraseAllStep \/ EraseAllDone \/ PowerLoss \/ UNCHANGED library
  BY <1>1, <1>2 DEF InitPartition, DeinitPartition, EraseAllStep, EraseAllDone, PowerLoss, library
<1>3. CASE ReplaceImage
  BY <1>3, ImageAssumption DEF ReplaceImage
<1>4. ASSUME NEW x, x.type \in {"u8", "str"}, Rewrite(x) PROVE Counted(items')
  <2>1. \A y \in items' : y \in items \/ y = x
    BY <1>4 DEF Rewrite
  <2> QED BY <1>4, <2>1, FewerAreCounted DEF BlobTypes
<1>5. CASE OpenCall
  <2>1. ASSUME NEW n, CreateNamespace(n) PROVE Counted(items')
    BY <1>4, <2>1, NsItemFields DEF CreateNamespace
  <2> QED BY <1>1, <1>5, <2>1 DEF OpenCall, OpenExisting, OpenFails, OpenCreates, OpenOutOfMemory, library
<1>6. CASE HandleCall
  <2>1. ASSUME NEW h, NEW k, NEW t \in {"u8", "str"}, NEW v, SetItem(h, k, t, v) PROVE Counted(items')
    BY <1>1, <1>4, <2>1, ItemFields DEF SetItem, Target
  <2>2. ASSUME NEW h, NEW k, EraseKey(h, k) PROVE Counted(items')
    BY <1>1, <2>2 DEF EraseKey
  <2> QED BY <1>1, <1>6, <2>1, <2>2 DEF HandleCall, Close, EraseAll, EraseKeyFails, SetFails, library
<1> QED BY <1>2, <1>3, <1>5, <1>6 DEF LibraryNext

BlobsAreWhole ==
  storage # 0 =>
    \A x \in items : x.ns # 0 /\ x.ns # erasing /\ x.type \in BlobTypes
      => Find(x.ns, x.key, "index") # {} /\ Find(x.ns, x.key, "data") # {}

\* As many chunks as the index counts are not all further ones.
LEMMA WholeHasFirst ==
  ASSUME IsFiniteSet(items), Counted(items), NEW i, NEW k, Whole(i, k)
  PROVE  Find(i, k, "index") # {} /\ Find(i, k, "data") # {}
<1>1. PICK x \in Find(i, k, "index") : Cardinality(Find(i, k, "data") \cup Find(i, k, "more")) = x.val
  BY DEF Whole
<1>2. x \in items /\ x.ns = i /\ x.key = k /\ x.type = "index"
  BY DEF Find, In
<1>3. x.val \in Nat /\ Cardinality(More(items, i, k)) < x.val
  BY <1>2 DEF Counted
<1>4. Find(i, k, "more") = More(items, i, k)
  BY DEF Find, In, More
<1>5. Find(i, k, "data") # {}
  <2> SUFFICES ASSUME Find(i, k, "data") = {} PROVE FALSE
    OBVIOUS
  <2>1. Find(i, k, "data") \cup Find(i, k, "more") = More(items, i, k)
    BY <1>4
  <2> QED BY <1>1, <1>3, <2>1
<1> QED BY <1>1, <1>5

LEMMA RewriteKeepsWhole ==
  ASSUME AreItems(items), BlobsAreWhole, UNCHANGED <<storage, erasing>>, NEW x, x.type \in {"u8", "str"}, Rewrite(x)
  PROVE  BlobsAreWhole'
<1> SUFFICES ASSUME storage # 0,
                    NEW y \in items', y.ns # 0, y.ns # erasing, y.type \in BlobTypes,
                    NEW t \in {"index", "data"}
             PROVE  \E z \in items' : z.ns = y.ns /\ z.key = y.key /\ z.type = t
  BY DEF BlobsAreWhole, Find, In
<1>1. y \in items
  BY DEF Rewrite, BlobTypes
<1>2. PICK z \in items : z.ns = y.ns /\ z.key = y.key /\ z.type = t
  BY <1>1 DEF BlobsAreWhole, Find, In
<1>3. CASE z \in items'
  BY <1>2, <1>3
<1>4. CASE z \notin items'
  <2>1. PICK old \in Old(x) : items' = (items \ With(old)) \cup {x}
    BY <1>4 DEF Rewrite
  <2>2. z \in With(old) /\ old \in items
    BY <1>4, <2>1, OldIsLocal
  <2>3. old.type # "data"
    BY DEF Old, Find, FindAny
  <2>4. old.type = "index" /\ z.ns = old.ns /\ z.key = old.key
    BY <1>2, <2>2, <2>3, WithIsLocal DEF With
  <2>5. y \in With(old)
    BY <1>1, <1>2, <2>2, <2>4 DEF With, In, BlobTypes
  <2>6. y # x
    BY DEF BlobTypes
  <2> QED BY <2>1, <2>5, <2>6
<1> QED BY <1>3, <1>4

LEMMA WholeIsKept ==
  ASSUME Sound, IsFiniteSet(items), Counted(items), AreItems(items), BlobsAreWhole, [LibraryNext]_library
  PROVE  BlobsAreWhole'
<1>1. ASSUME UNCHANGED <<items, storage, erasing>> PROVE BlobsAreWhole'
  BY <1>1 DEF BlobsAreWhole, Find, In
<1>2. ASSUME storage' = 0 PROVE BlobsAreWhole'
  BY <1>2 DEF BlobsAreWhole
<1>3. CASE InitPartition
  <2>1. ASSUME NEW x \in items', x.ns # 0, x.type \in BlobTypes, NEW t \in {"index", "data"}
        PROVE  \E z \in items' : z.ns = x.ns /\ z.key = x.key /\ z.type = t
    <3>1. Whole(x.ns, x.key)
      BY <1>3, <2>1 DEF InitPartition
    <3>2. PICK z \in items : z.ns = x.ns /\ z.key = x.key /\ z.type = t
      BY <3>1, WholeHasFirst DEF Find, In
    <3>3. z \in items'
      BY <1>3, <3>1, <3>2 DEF InitPartition
    <3> QED BY <3>2, <3>3
  <2> QED BY <2>1 DEF BlobsAreWhole, Find, In
<1>4. CASE EraseAllStep
  <2>1. UNCHANGED <<storage, erasing>>
    BY <1>4 DEF EraseAllStep
  <2>2. \A y \in items : y.ns # erasing => y \in items'
    BY <1>4 DEF EraseAllStep, In
  <2>3. items' \subseteq items
    BY <1>4 DEF EraseAllStep
  <2> QED BY <2>1, <2>2, <2>3 DEF BlobsAreWhole, Find, In
<1>5. CASE EraseAllDone
  BY <1>5 DEF EraseAllDone, BlobsAreWhole, Find, In
<1>6. CASE OpenCall
  <2>1. ASSUME NEW n, CreateNamespace(n), UNCHANGED <<storage, erasing>> PROVE BlobsAreWhole'
    BY <2>1, RewriteKeepsWhole, NsItemFields DEF CreateNamespace
  <2> QED BY <1>1, <1>6, <2>1 DEF OpenCall, OpenExisting, OpenFails, OpenCreates, OpenOutOfMemory, library
<1>7. CASE HandleCall
  <2>1. ASSUME NEW h, NEW k, NEW t \in {"u8", "str"}, NEW v, SetItem(h, k, t, v) PROVE BlobsAreWhole'
    <3>1. Target(h, k, t, v).type = t /\ UNCHANGED <<storage, erasing>>
      BY <2>1, ItemFields DEF Target, SetItem
    <3>2. CASE UNCHANGED items
      BY <1>1, <3>1, <3>2
    <3>3. CASE Rewrite(Target(h, k, t, v))
      BY <3>1, <3>3, RewriteKeepsWhole
    <3> QED BY <2>1, <3>2, <3>3 DEF SetItem
  <2>2. ASSUME NEW h, NEW k, EraseKey(h, k) PROVE BlobsAreWhole'
    <3>1. PICK x \in FindAny(entries[h].index, k) : items' = items \ With(x)
      BY <2>2 DEF EraseKey
    <3>2. UNCHANGED <<storage, erasing>>
      BY <2>2 DEF EraseKey
    <3>3. x \in items
      BY DEF FindAny, In
    <3>4. ASSUME NEW y \in items', NEW z \in items, z.ns = y.ns, z.key = y.key, z.type \in {"index", "data"},
                 y.type \in BlobTypes
          PROVE  z \in items'
      <4> SUFFICES ASSUME z \in With(x) PROVE FALSE
        BY <3>1
      <4>0. x.type # "data"
        BY DEF FindAny
      <4>1. x.type = "index" /\ x.ns = z.ns /\ x.key = z.key
        BY <3>3, <3>4, <4>0, WithIsLocal DEF With
      <4>2. y \in With(x)
        BY <3>1, <3>4, <4>1 DEF With, In
      <4> QED BY <3>1, <4>2
    <3>5. \A y \in items' : y \in items
      BY <3>1
    <3> QED BY <3>2, <3>4, <3>5 DEF BlobsAreWhole, Find, In
  <2>3. ASSUME NEW h, EraseAll(h) PROVE BlobsAreWhole'
    BY <2>3 DEF EraseAll, Writable, BlobsAreWhole, Find, In
  <2> QED BY <1>1, <1>7, <2>1, <2>2, <2>3 DEF HandleCall, Close, EraseKeyFails, SetFails, library
<1> QED
  BY <1>1, <1>2, <1>3, <1>4, <1>5, <1>6, <1>7 DEF LibraryNext, DeinitPartition, PowerLoss, ReplaceImage, library

-----------------------------------------------------------------------------
(* Theorems.                                                               *)

\* At any moment, through creations cut short, power losses and replaced partitions,
\* no index has two names and no name two indexes, and what the library believes is
\* what flash says (createOrOpenNamespace, Storage::init).
THEOREM NamesStaySound == LibrarySpec => []NamesAreSound
<1>1. Sound => NamesAreSound
  BY DEF Sound, NamesAreSound
<1> QED BY <1>1, AlwaysSound, PTL

\* A handle works on the namespace it was opened for as long as it is open
\* (close_handles_and_deinit closes those of a storage that goes).
THEOREM HandlesKeepTheirName == LibrarySpec => []HandleMeansName
<1>1. Sound => HandleMeansName
  BY DEF Sound
<1> QED BY <1>1, AlwaysSound, PTL

\* What is in a namespace changes only while a read-write handle of it is open, and
\* what no name leads to stays where it is (EraseKey, SetItem and EraseAll work on the
\* index of the handle alone).
THEOREM NamespacesAreApart == LibrarySpec => OnlyOwnKeys
<1>1. Sound /\ Sound' /\ [LibraryNext]_library => [KeepsOthers]_library
  BY OthersAreKept
<1> QED BY <1>1, AlwaysSound, PTL DEF LibrarySpec, OnlyOwnKeys

\* At any moment the table, the handles and the storage are within their bounds, and
\* what is on flash fits: a new item is written only where its entries are free, and
\* the one it replaces goes after it (writeItem).
THEOREM LibraryIsTyped == LibrarySpec => []LibraryTypeOK
<1> DEFINE I == Sound /\ HandleNumbers /\ StoreInv
<1>1. LibraryInit => I
  BY SoundAtFirst, NumbersAtFirst, StoredAtFirst
<1>2. I /\ [LibraryNext]_library => I'
  BY SoundIsKept, NumbersAreKept, StoreIsKept
<1>3. I => LibraryTypeOK
  BY StoredIsTyped
<1> HIDE DEF I
<1> QED BY <1>1, <1>2, <1>3, PTL DEF LibrarySpec

-----------------------------------------------------------------------------
(* The changes of the application.                                         *)

\* The steps of a change between the opening of a handle and its closing.
Holding  == {"probed", "act", "erasing", "leave", "check"}
\* The steps of a change of one namespace.
Changing == {"probe", "open", "verify"} \cup Holding

LibraryInv == Sound /\ HandleNumbers /\ StoreInv /\ AreItems(items) /\ Counted(items) /\ BlobsAreWhole

\* The handle of the change is the only one, and is on its namespace.
HandleInv ==
  /\ pc \in Holding => DOMAIN entries = {opened} /\ entries[opened].name = task.ns
  /\ pc \notin Holding \cup {"other"} => DOMAIN entries = {}
  /\ pc \in {"open", "verify"} => storage # 0 /\ task.ns \in Named

TaskInv ==
  /\ pc \in Changing => task \in Tasks /\ task.kind # "restore"
  /\ pc \in {"close", "write", "mount"} => task \in Tasks /\ task.kind = "restore"

EraseInv ==
  /\ pc = "erasing" => erasing = table[task.ns] /\ task.kind = "eraseNs"
  /\ pc \notin {"erasing", "other"} => erasing = 0

ChangeInv == LibraryInv /\ HandleInv /\ TaskInv /\ EraseInv

-----------------------------------------------------------------------------
(* Tasks.                                                                  *)

LEMMA TaskFields ==
  ASSUME NEW t \in Tasks
  PROVE  /\ t.kind # "restore" => t.ns \in Names
         /\ t.kind = "set" => t.key \in Keys /\ t.type \in {"u8", "str"} /\ t.val \in Values
         /\ t.kind = "eraseKey" => t.key \in Keys
         /\ t.kind \in {"set", "eraseKey", "eraseNs", "restore"}
BY DEF Tasks

\* What the handle of a change says.
LEMMA HandleOfTask ==
  ASSUME ChangeInv, pc \in Holding
  PROVE  /\ storage # 0 /\ task.ns \in Named /\ Index \in IndexRange /\ Index # 0
         /\ opened \in DOMAIN entries /\ entries[opened].index = Index
         /\ opened \in 1 .. MaxHandle
<1>1. opened \in DOMAIN entries /\ entries[opened].name = task.ns
  BY DEF ChangeInv, HandleInv
<1>2. opened \in 1 .. MaxHandle
  BY <1>1, BoundAssumption DEF ChangeInv, LibraryInv, HandleNumbers
<1> QED BY <1>1, <1>2, HandlesHaveIndexes DEF ChangeInv, LibraryInv, Index

-----------------------------------------------------------------------------
(* Every step of the application is one of the library, or none.           *)

LEMMA NamedIsName ==
  ASSUME ChangeInv, storage # 0, NEW n \in Named
  PROVE  n \in Names
BY TableIsInjective DEF ChangeInv, LibraryInv

LEMMA ReadingIsLibrary ==
  ASSUME ChangeInv, RefreshMounts \/ RefreshReads \/ RefreshFails
  PROVE  [LibraryNext]_library
BY DEF RefreshMounts, RefreshReads, RefreshFails, LibraryNext

LEMMA OpeningIsLibrary ==
  ASSUME ChangeInv, NEW ro \in BOOLEAN, pc \in Changing,
         OpenExisting(task.ns, ro) \/ OpenCreates(task.ns) \/ OpenOutOfMemory(task.ns)
           \/ OpenFails(task.ns, ro)
  PROVE  [LibraryNext]_library
<1>1. task.ns \in Names
  BY TaskFields DEF ChangeInv, TaskInv
<1> QED BY <1>1 DEF LibraryNext, OpenCall

LEMMA HandlingIsLibrary ==
  ASSUME ChangeInv, pc \in Holding,
         \/ Close(opened)
         \/ task.kind = "set" /\ (SetItem(opened, task.key, task.type, task.val)
                                   \/ SetFails(opened, task.key, task.type, task.val))
         \/ task.kind = "eraseKey" /\ (EraseKey(opened, task.key) \/ EraseKeyFails(opened, task.key))
         \/ EraseAll(opened)
  PROVE  [LibraryNext]_library
<1>1. opened \in 1 .. MaxHandle
  BY HandleOfTask
<1>2. task \in Tasks
  BY DEF ChangeInv, TaskInv, Changing
<1>3. /\ task.kind = "set" => task.key \in Keys /\ task.type \in {"u8", "str"} /\ task.val \in Values
      /\ task.kind = "eraseKey" => task.key \in Keys
  BY <1>2, TaskFields
<1> QED BY <1>1, <1>3 DEF LibraryNext, HandleCall

LEMMA StepIsLibrary ==
  ASSUME ChangeInv, [Next]_vars
  PROVE  [LibraryNext]_library
<1>1. CASE OtherFirmware
  BY <1>1 DEF OtherFirmware
<1>2. CASE Start \/ UNCHANGED vars
  BY <1>2 DEF Start, Begin, vars
<1>3. CASE LosePower
  BY <1>3 DEF LosePower, LibraryNext
<1>4. CASE RefreshMounts \/ RefreshReads \/ RefreshFails
  BY <1>4, ReadingIsLibrary
<1>5. CASE Probe \/ Open \/ Verify
  BY <1>5, OpeningIsLibrary DEF Probe, Open, Verify, Changing
<1>6. CASE Probed \/ SetValue \/ EraseOneKey \/ Leave \/ Check
  BY <1>6, HandlingIsLibrary DEF Probed, SetValue, EraseOneKey, Leave, Check, Holding
<1>7. CASE EraseNamespace
  BY <1>7, HandlingIsLibrary DEF EraseNamespace, Holding, LibraryNext
<1>8. CASE VerifyNamespace \/ ClosePartition \/ WriteImage \/ MountImage
  BY <1>8 DEF VerifyNamespace, ClosePartition, WriteImage, MountImage, LibraryNext
<1> QED BY <1>1, <1>2, <1>3, <1>4, <1>5, <1>6, <1>7, <1>8 DEF Next, Step

-----------------------------------------------------------------------------
(* ChangeInv is kept.                                                      *)

AppInv == HandleInv /\ TaskInv /\ EraseInv

LEMMA OpenedIsOnly ==
  ASSUME NEW n, NEW i, NEW ro, DOMAIN entries = {}, NewHandle(n, i, ro)
  PROVE  DOMAIN entries' = {opened'} /\ entries'[opened'].name = n
<1>1. Handle(n, i, ro).name = n
  BY DEF Handle
<1> QED BY <1>1 DEF NewHandle

LEMMA ClosedIsNone ==
  ASSUME DOMAIN entries = {opened}, Close(opened)
  PROVE  DOMAIN entries' = {}
BY DEF Close

\* A step to a place where no handle is open.
LEMMA ToRefresh ==
  ASSUME pc' = "refresh", DOMAIN entries' = {}, erasing' = 0
  PROVE  AppInv'
BY DEF AppInv, HandleInv, TaskInv, EraseInv, Holding, Changing

\* A step to a place where the handle is open.
LEMMA ToHolding ==
  ASSUME ChangeInv, pc \in Changing, pc' \in Holding \ {"erasing"}, task' = task, erasing' = 0,
         DOMAIN entries' = {opened'}, entries'[opened'].name = task.ns
  PROVE  AppInv'
BY DEF ChangeInv, AppInv, HandleInv, TaskInv, EraseInv, Holding, Changing

\* A step that closes the handle before the next one is opened.
LEMMA ToOpening ==
  ASSUME ChangeInv, pc \in Holding \ {"erasing"}, pc' \in {"open", "verify"}, task' = task, Close(opened)
  PROVE  AppInv'
<1>1. storage # 0 /\ task.ns \in Named /\ DOMAIN entries' = {}
  BY HandleOfTask, ClosedIsNone DEF ChangeInv, HandleInv
<1>2. storage' = storage /\ table' = table /\ erasing' = 0
  BY DEF Close
<1> QED BY <1>1, <1>2 DEF ChangeInv, AppInv, HandleInv, TaskInv, EraseInv, Holding, Changing, Named

LEMMA OpeningKeepsApp ==
  ASSUME ChangeInv, Probe \/ Open \/ Verify
  PROVE  AppInv'
<1>1. pc \in {"probe", "open", "verify"} /\ pc \in Changing /\ DOMAIN entries = {} /\ erasing = 0 /\ task' = task
  BY DEF Probe, Open, Verify, Then, FailAt, Goto, ChangeInv, HandleInv, EraseInv, Holding, Changing
<1>2. CASE /\ \E ro : OpenExisting(task.ns, ro) \/ OpenCreates(task.ns)
           /\ pc' \in {"probed", "act", "check"}
  <2>1. DOMAIN entries' = {opened'} /\ entries'[opened'].name = task.ns
    BY <1>1, <1>2, OpenedIsOnly DEF OpenExisting, OpenCreates
  <2>2. erasing' = 0
    BY <1>1, <1>2 DEF OpenExisting, OpenCreates
  <2> QED BY <1>1, <1>2, <2>1, <2>2, ToHolding DEF Holding
<1>3. CASE /\ \E ro : OpenOutOfMemory(task.ns) \/ OpenFails(task.ns, ro)
           /\ pc' = "refresh"
  <2>1. entries' = entries /\ erasing' = erasing
    BY <1>3 DEF OpenOutOfMemory, OpenFails, library
  <2> QED BY <1>1, <1>3, <2>1, ToRefresh
<1> QED BY <1>2, <1>3 DEF Probe, Open, Verify, Then, FailAt, Goto

LEMMA ActingKeepsApp ==
  ASSUME ChangeInv, SetValue \/ EraseOneKey \/ EraseNamespace
  PROVE  AppInv'
<1>1. pc \in Holding /\ pc \in Changing /\ task' = task /\ pc \in {"act", "erasing"}
  BY DEF SetValue, EraseOneKey, EraseNamespace, Then, FailAt, Goto, Holding, Changing
<1>2. DOMAIN entries = {opened} /\ entries[opened].name = task.ns
  BY <1>1 DEF ChangeInv, HandleInv
<1>3. CASE pc' = "leave" /\ UNCHANGED <<entries, opened>> /\ erasing' = 0
  BY <1>1, <1>2, <1>3, ToHolding DEF Holding
<1>4. CASE SetValue \/ EraseOneKey
  <2>1. pc' = "leave" /\ UNCHANGED <<entries, opened, erasing>> /\ erasing = 0
    BY <1>4 DEF SetValue, EraseOneKey, Then, FailAt, Goto, SetItem, SetFails, EraseKey, EraseKeyFails, library,
                ChangeInv, EraseInv
  <2> QED BY <1>3, <2>1
<1>5. CASE pc = "act" /\ task.kind = "eraseNs" /\ EraseAll(opened) /\ Then("erasing")
  <2>1. pc' = "erasing" /\ erasing' = Index /\ UNCHANGED <<table, entries, opened>>
    BY <1>1, <1>5, HandleOfTask DEF EraseAll, Then, Goto
  <2> QED BY <1>1, <1>2, <1>5, <2>1
          DEF ChangeInv, AppInv, HandleInv, TaskInv, EraseInv, Holding, Changing, Index
<1>6. CASE pc = "erasing" /\ EraseAllStep /\ Then("erasing")
  <2>1. pc' = "erasing" /\ UNCHANGED <<table, entries, opened, erasing>>
    BY <1>6 DEF EraseAllStep, Then, Goto
  <2> QED BY <1>1, <1>2, <1>6, <2>1
          DEF ChangeInv, AppInv, HandleInv, TaskInv, EraseInv, Holding, Changing
<1>7. CASE pc = "erasing" /\ EraseAllDone /\ Then("leave")
  BY <1>3, <1>7 DEF EraseAllDone, Then, Goto
<1> QED BY <1>4, <1>5, <1>6, <1>7 DEF EraseNamespace

LEMMA ClosingKeepsApp ==
  ASSUME ChangeInv, Probed \/ Leave \/ Check
  PROVE  AppInv'
<1>1. pc \in {"probed", "leave", "check"} /\ pc \in Holding /\ Close(opened) /\ task' = task
  BY DEF Probed, Leave, Check, Then, FailAt, Goto, Holding
<1>2. DOMAIN entries' = {} /\ erasing' = 0
  BY <1>1, ClosedIsNone DEF ChangeInv, HandleInv, Close
<1>3. pc' \in {"open", "verify", "refresh"}
  BY DEF Probed, Leave, Check, Then, FailAt, Goto
<1> QED BY <1>1, <1>2, <1>3, ToOpening, ToRefresh

LEMMA RestKeepsApp ==
  ASSUME ChangeInv, \/ RefreshMounts \/ RefreshReads \/ RefreshFails
                    \/ VerifyNamespace \/ ClosePartition \/ WriteImage \/ MountImage
  PROVE  AppInv'
<1>1. pc \notin Holding \cup {"other"} /\ DOMAIN entries = {} /\ erasing = 0 /\ task' = task
  BY DEF RefreshMounts, RefreshReads, RefreshFails, VerifyNamespace, ClosePartition, WriteImage, MountImage,
         Then, FailAt, Goto, ChangeInv, HandleInv, EraseInv, Holding
<1>2. DOMAIN entries' = {} /\ erasing' = 0
  <2>1. CASE UNCHANGED <<entries, erasing>>
    BY <1>1, <2>1
  <2>2. CASE DeinitPartition
    BY <1>1, <2>2 DEF DeinitPartition
  <2> QED BY <2>1, <2>2 DEF RefreshMounts, RefreshReads, RefreshFails, VerifyNamespace, ClosePartition,
                            WriteImage, MountImage, InitPartition, ReplaceImage, library
<1>3. pc' \in {"refresh", "idle", "write", "mount"}
  BY DEF RefreshMounts, RefreshReads, RefreshFails, VerifyNamespace, ClosePartition, WriteImage, MountImage,
         Then, FailAt, Goto
<1>4. pc' \in {"write", "mount"} => task' \in Tasks /\ task'.kind = "restore"
  BY <1>1 DEF RefreshMounts, RefreshReads, RefreshFails, VerifyNamespace, ClosePartition, WriteImage, MountImage,
              Then, FailAt, Goto, ChangeInv, TaskInv
<1> QED BY <1>2, <1>3, <1>4 DEF AppInv, HandleInv, TaskInv, EraseInv, Holding, Changing

LEMMA StartKeepsApp ==
  ASSUME ChangeInv, Start
  PROVE  AppInv'
<1>1. PICK t \in Tasks : Begin(t)
  BY DEF Start
<1>2. pc = "idle" /\ task' = t /\ UNCHANGED library
      /\ pc' = IF t.kind = "restore" THEN "close" ELSE "probe"
  BY <1>1 DEF Begin
<1>3. DOMAIN entries' = {} /\ erasing' = 0
  BY <1>2 DEF ChangeInv, HandleInv, EraseInv, Holding, library
<1> QED BY <1>2, <1>3 DEF AppInv, HandleInv, TaskInv, EraseInv, Holding, Changing

LEMMA AppIsKept ==
  ASSUME ChangeInv, [Next]_vars
  PROVE  AppInv'
<1>1. CASE OtherFirmware
  <2>1. pc = "other" /\ pc' = "other" /\ task' = task
    BY <1>1 DEF OtherFirmware, application
  <2> QED BY <2>1 DEF AppInv, HandleInv, TaskInv, EraseInv, Holding, Changing
<1>2. CASE LosePower
  <2>1. DOMAIN entries' = {} /\ erasing' = 0 /\ pc' = "refresh"
    BY <1>2 DEF LosePower, PowerLoss
  <2> QED BY <2>1, ToRefresh
<1>3. CASE UNCHANGED vars
  BY <1>3 DEF vars, library, application, ChangeInv, AppInv, HandleInv, TaskInv, EraseInv, Named
<1> QED BY <1>1, <1>2, <1>3, StartKeepsApp, OpeningKeepsApp, ActingKeepsApp, ClosingKeepsApp, RestKeepsApp
        DEF Next, Step

LEMMA ChangeInvAtFirst == Init => ChangeInv
<1> SUFFICES ASSUME Init PROVE ChangeInv
  OBVIOUS
<1>1. LibraryInit /\ pc = "other"
  BY DEF Init
<1>2. AreItems(items) /\ Counted(items) /\ BlobsAreWhole
  BY <1>1, ImageAssumption DEF LibraryInit, BlobsAreWhole
<1>3. HandleInv /\ TaskInv /\ EraseInv
  BY <1>1 DEF HandleInv, TaskInv, EraseInv, Holding, Changing
<1> QED BY <1>1, <1>2, <1>3, SoundAtFirst, NumbersAtFirst, StoredAtFirst DEF ChangeInv, LibraryInv

LEMMA ChangeInvIsKept ==
  ASSUME ChangeInv, [Next]_vars
  PROVE  ChangeInv'
<1>1. [LibraryNext]_library
  BY StepIsLibrary
<1>2. LibraryInv'
  BY <1>1, SoundIsKept, NumbersAreKept, StoreIsKept, ItemsAreKept, CountedIsKept, WholeIsKept
     DEF ChangeInv, LibraryInv, StoreInv
<1> QED BY <1>2, AppIsKept DEF ChangeInv, AppInv

LEMMA AlwaysChangeInv == Spec => []ChangeInv
BY ChangeInvAtFirst, ChangeInvIsKept, PTL DEF Spec

-----------------------------------------------------------------------------
(* What a change does to the items on flash.                               *)

TargetOnly ==
  \A y \in (items \ items') \cup (items' \ items) :
    y.ns = Index /\ (task.kind = "eraseNs" \/ y.key = task.key)

LEMMA SetIsLocal ==
  ASSUME ChangeInv, SetValue
  PROVE  TargetOnly
<1>1. pc \in Holding /\ entries[opened].index = Index
  BY HandleOfTask DEF SetValue, Holding
<1> DEFINE x == Target(opened, task.key, task.type, task.val)
<1>2. x.ns = Index /\ x.key = task.key
  BY <1>1, ItemFields DEF Target
<1>3. CASE UNCHANGED items
  BY <1>3 DEF TargetOnly
<1>4. CASE Rewrite(x)
  BY <1>2, <1>4, RewriteIsLocal DEF TargetOnly
<1>5. UNCHANGED items \/ Rewrite(x)
  BY DEF SetValue, SetItem, SetFails, library
<1> QED BY <1>3, <1>4, <1>5

LEMMA EraseIsLocal ==
  ASSUME ChangeInv, EraseOneKey
  PROVE  TargetOnly
<1>1. pc \in Holding /\ entries[opened].index = Index
  BY HandleOfTask DEF EraseOneKey, Holding
<1>2. CASE EraseKey(opened, task.key)
  <2>1. PICK x \in FindAny(entries[opened].index, task.key) : items' = items \ With(x)
    BY <1>2 DEF EraseKey
  <2>2. x \in items /\ x.ns = Index /\ x.key = task.key
    BY <1>1 DEF FindAny, In
  <2> QED BY <2>1, <2>2, WithIsLocal DEF TargetOnly
<1>3. CASE EraseKeyFails(opened, task.key)
  BY <1>3 DEF EraseKeyFails, library, TargetOnly
<1> QED BY <1>2, <1>3 DEF EraseOneKey

LEMMA EraseAllIsLocal ==
  ASSUME ChangeInv, EraseNamespace
  PROVE  TargetOnly
<1>1. CASE pc = "erasing" /\ EraseAllStep
  <2>1. erasing = Index /\ task.kind = "eraseNs"
    BY <1>1 DEF ChangeInv, EraseInv, Index
  <2> QED BY <1>1, <2>1 DEF EraseAllStep, In, TargetOnly
<1> QED BY <1>1 DEF EraseNamespace, EraseAll, EraseAllDone, TargetOnly

\* Flash changes in three ways: at the target of the change, by a mount, by a restore.
LEMMA ChangeIsLocal ==
  ASSUME ChangeInv, [Next]_vars, pc \notin {"other", "write"}
  PROVE  \/ items' = items
         \/ pc \in {"refresh", "mount"} /\ InitPartition
         \/ pc \in {"act", "erasing"} /\ TargetOnly
<1>1. CASE Probe \/ Verify \/ Open
  <2>1. pc = "open" => task.ns \in Named
    BY DEF ChangeInv, HandleInv
  <2> QED BY <1>1, <2>1 DEF Probe, Verify, Open, OpenExisting, OpenFails, OpenCreates, OpenOutOfMemory,
                            CreateNamespace, library
<1>2. CASE SetValue \/ EraseOneKey \/ EraseNamespace
  BY <1>2, SetIsLocal, EraseIsLocal, EraseAllIsLocal DEF SetValue, EraseOneKey, EraseNamespace
<1>3. CASE Probed \/ Leave \/ Check
  BY <1>3 DEF Probed, Leave, Check, Close
<1>4. CASE RefreshMounts \/ RefreshReads \/ RefreshFails \/ VerifyNamespace
  BY <1>4 DEF RefreshMounts, RefreshReads, RefreshFails, VerifyNamespace, library
<1>5. CASE ClosePartition \/ MountImage
  BY <1>5 DEF ClosePartition, MountImage, DeinitPartition, library
<1>6. CASE LosePower \/ Start \/ UNCHANGED vars
  BY <1>6 DEF LosePower, PowerLoss, Start, Begin, vars, library
<1>7. ~ OtherFirmware /\ ~ WriteImage
  BY DEF OtherFirmware, WriteImage
<1> QED BY <1>1, <1>2, <1>3, <1>4, <1>5, <1>6, <1>7 DEF Next, Step

LEMMA TargetIsNoName ==
  ASSUME ChangeInv, pc \in {"act", "erasing"}, TargetOnly
  PROVE  NamesOf(items') = NamesOf(items)
<1>1. Index # 0
  BY HandleOfTask DEF Holding
<1> QED BY <1>1 DEF TargetOnly, NamesOf

LEMMA NamesAreKept ==
  ASSUME ChangeInv, [Next]_vars, pc \notin {"other", "write"}
  PROVE  NamesOf(items') = NamesOf(items)
<1>1. InitPartition => NamesOf(items') = NamesOf(items)
  BY DEF InitPartition, NamesOf
<1> QED BY <1>1, ChangeIsLocal, TargetIsNoName

-----------------------------------------------------------------------------
(* What is reported as done is done.                                       *)

Done ==
  LET i == FlashIndex(task.ns) IN
  /\ task.kind = "set"      => Item(i, task.key, task.type, task.val) \in items
  /\ task.kind = "eraseKey" => ~ \E x \in In(i) : x.key = task.key
  /\ task.kind = "eraseNs"  => In(i) = {}
  /\ task.kind = "restore"  => items \subseteq task.image /\ NamesOf(items) = NamesOf(task.image)

\* Until the screens are read anew the partition stays mounted, so no mount drops
\* anything; an erased namespace stays empty until it is verified.
DoneInv ==
  /\ pc \in {"refresh", "idle"} /\ result = "ok" => Done
  /\ pc = "refresh" /\ result = "ok" => storage # 0
  /\ pc \in {"leave", "verify"} /\ task.kind = "eraseNs" => In(Index) = {}
  /\ pc = "check" => task.kind # "eraseNs"
  /\ pc = "mount" => items = task.image

LEMMA IndexIsFlash ==
  ASSUME Sound, storage # 0, NEW n \in Named
  PROVE  FlashIndex(n) = table[n]
<1>1. table[n] \in IndexRange /\ NsItem(n, table[n]) \in items
  BY TableIsInjective DEF Sound, TableIsFlash
<1>2. ASSUME NEW i \in IndexRange, NsItem(n, i) \in items PROVE i = table[n]
  <2>1. /\ NsItem(n, i) \in NamesOf(items) /\ NsItem(n, table[n]) \in NamesOf(items)
        /\ NsItem(n, i).key = n /\ NsItem(n, table[n]).key = n
        /\ NsItem(n, i).val = i /\ NsItem(n, table[n]).val = table[n]
    BY <1>1, <1>2, NsItemFields DEF NamesOf
  <2> QED BY <2>1 DEF Sound, OneNamePerIndex, OneToOne
<1> QED BY <1>1, <1>2 DEF FlashIndex

LEMMA CheckIsDone ==
  ASSUME ChangeInv, DoneInv, Check
  PROVE  DoneInv'
<1>1. pc = "check" /\ pc \in Holding /\ task' = task
      /\ UNCHANGED <<items, table, storage>> /\ pc' = "refresh" /\ task.kind # "eraseNs"
  BY DEF Check, Close, Then, FailAt, Goto, Holding, DoneInv
<1>2. storage # 0 /\ task.kind # "restore" /\ FlashIndex(task.ns) = Index
  BY <1>1, HandleOfTask, IndexIsFlash DEF ChangeInv, LibraryInv, TaskInv, Changing, Index
<1>3. ASSUME ReadBack PROVE Done
  <2>1. ASSUME task.kind = "set" PROVE Item(Index, task.key, task.type, task.val) \in items
    <3>1. ReadValue(task.key, task.type) = {task.val}
      BY <1>3, <2>1 DEF ReadBack
    <3>2. PICK x \in Find(Index, task.key, task.type) : x.val = task.val
      BY <3>1 DEF ReadValue
    <3> QED BY <3>2 DEF Find, In, ChangeInv, LibraryInv, AreItems
  <2>2. ASSUME task.kind = "eraseKey", NEW x \in In(Index), x.key = task.key PROVE FALSE
    <3>1. FindAny(Index, task.key) = {}
      BY <1>3, <2>2 DEF ReadBack
    <3>2. x.type \in {"data", "more"} /\ Find(Index, task.key, "index") = {}
      BY <2>2, <3>1 DEF FindAny, Find
    <3>3. x \in items /\ x.ns = Index /\ Index # 0 /\ erasing = 0
      BY <1>1, <2>2, HandleOfTask DEF In, ChangeInv, EraseInv
    <3> QED BY <1>2, <2>2, <3>2, <3>3 DEF ChangeInv, LibraryInv, BlobsAreWhole, BlobTypes
  <2> QED BY <1>1, <1>2, <2>1, <2>2 DEF Done
<1>4. Done' <=> Done
  BY <1>1 DEF Done, FlashIndex, In
<1>5. result' = "ok" => ReadBack
  BY DEF Check, Then, FailAt, Goto
<1> QED BY <1>1, <1>2, <1>3, <1>4, <1>5 DEF DoneInv

LEMMA VerifiedIsDone ==
  ASSUME ChangeInv, DoneInv, VerifyNamespace
  PROVE  DoneInv'
<1>1. pc = "verify" /\ task.kind = "eraseNs" /\ pc' = "refresh" /\ task' = task
      /\ UNCHANGED <<items, table, storage>>
  BY DEF VerifyNamespace, Then, FailAt, Goto, library
<1>2. storage # 0 /\ FlashIndex(task.ns) = Index
  BY <1>1, IndexIsFlash DEF ChangeInv, HandleInv, LibraryInv, Index
<1>3. Done'
  BY <1>1, <1>2 DEF Done, DoneInv, FlashIndex, In
<1> QED BY <1>1, <1>2, <1>3 DEF DoneInv

LEMMA RestoredIsDone ==
  ASSUME ChangeInv, DoneInv, ClosePartition \/ WriteImage \/ MountImage
  PROVE  DoneInv'
<1>1. CASE ClosePartition
  BY <1>1 DEF ClosePartition, Then, Goto, DoneInv
<1>2. CASE WriteImage
  BY <1>2 DEF WriteImage, Then, FailAt, Goto, DoneInv
<1>3. CASE MountImage
  <2>1. pc = "mount" /\ pc' = "refresh" /\ task' = task /\ items = task.image /\ task.kind = "restore"
    BY <1>3 DEF MountImage, Then, FailAt, Goto, DoneInv, ChangeInv, TaskInv
  <2>2. ASSUME InitPartition PROVE storage' # 0 /\ Done'
    <3>1. storage' = life + 1 /\ life \in Nat
      BY <2>2 DEF InitPartition, ChangeInv, LibraryInv, Sound
    <3>2. items' \subseteq items /\ NamesOf(items') = NamesOf(items)
      BY <2>2 DEF InitPartition, NamesOf
    <3> QED BY <2>1, <3>1, <3>2 DEF Done
  <2>3. result' = "ok" => InitPartition
    BY <1>3 DEF MountImage, FailAt
  <2> QED BY <2>1, <2>2, <2>3 DEF DoneInv
<1> QED BY <1>1, <1>2, <1>3

\* Steps before the verification, and those that read.
LEMMA OthersAreDone ==
  ASSUME ChangeInv, DoneInv,
         \/ OtherFirmware \/ Start \/ LosePower \/ UNCHANGED vars
         \/ RefreshMounts \/ RefreshReads \/ RefreshFails
         \/ Probe \/ Probed \/ Open \/ Verify
  PROVE  DoneInv'
<1>1. CASE OtherFirmware
  BY <1>1 DEF OtherFirmware, application, DoneInv
<1>2. CASE Start
  BY <1>2 DEF Start, Begin, DoneInv
<1>3. CASE LosePower
  BY <1>3 DEF LosePower, DoneInv
<1>4. CASE UNCHANGED vars
  BY <1>4 DEF vars, library, application, DoneInv, Done, FlashIndex, In, Index
<1>5. CASE RefreshMounts
  BY <1>5 DEF RefreshMounts, InitPartition, Then, Goto, DoneInv
<1>6. CASE RefreshReads \/ RefreshFails
  BY <1>6 DEF RefreshReads, RefreshFails, library, DoneInv, Done, FlashIndex, In
<1>7. CASE Probe \/ Probed \/ Open
  BY <1>7 DEF Probe, Probed, Open, Then, FailAt, Goto, DoneInv
<1>8. CASE Verify
  BY <1>8 DEF Verify, Then, FailAt, Goto, DoneInv
<1> QED BY <1>1, <1>2, <1>3, <1>4, <1>5, <1>6, <1>7, <1>8

LEMMA ActedIsDone ==
  ASSUME ChangeInv, DoneInv, SetValue \/ EraseOneKey \/ EraseNamespace \/ Leave
  PROVE  DoneInv'
<1>1. CASE SetValue \/ EraseOneKey
  BY <1>1 DEF SetValue, EraseOneKey, Then, FailAt, Goto, DoneInv
<1>2. CASE EraseNamespace /\ pc' = "erasing"
  BY <1>2 DEF DoneInv
<1>3. CASE EraseNamespace /\ pc' # "erasing"
  <2>1. pc = "erasing" /\ EraseAllDone /\ Then("leave")
    BY <1>3 DEF EraseNamespace, Then, Goto
  <2>2. In(Index) = {}
    BY <2>1 DEF EraseAllDone, ChangeInv, EraseInv, Index
  <2> QED BY <2>1, <2>2 DEF EraseAllDone, Then, Goto, DoneInv, In, Index
<1>4. CASE Leave
  BY <1>4 DEF Leave, Close, Then, Goto, DoneInv, In, Index
<1> QED BY <1>1, <1>2, <1>3, <1>4

LEMMA DoneInvIsKept ==
  ASSUME ChangeInv, DoneInv, [Next]_vars
  PROVE  DoneInv'
BY CheckIsDone, VerifiedIsDone, RestoredIsDone, OthersAreDone, ActedIsDone DEF Next, Step

-----------------------------------------------------------------------------
(* Types.                                                                  *)

AppTypes ==
  /\ pc \in {"other", "refresh", "idle", "probe", "probed", "open", "act", "erasing", "leave",
             "verify", "check", "close", "write", "mount"}
  /\ task \in Tasks \cup {NoTask}
  /\ result \in {"none", "ok", "open", "set", "erase", "verify", "write", "open nvs"}

LEMMA TypesAreKept ==
  ASSUME AppTypes, [Next]_vars
  PROVE  AppTypes'
<1>1. CASE OtherFirmware \/ UNCHANGED vars
  BY <1>1 DEF OtherFirmware, application, vars, AppTypes
<1>2. CASE LosePower
  BY <1>2 DEF LosePower, AppTypes
<1>3. CASE Start
  BY <1>3 DEF Start, Begin, AppTypes
<1>4. ASSUME task' = task, result' = result \/ result' \in {"open", "set", "erase", "verify", "write", "open nvs"},
             pc' \in {"refresh", "idle", "probed", "open", "act", "erasing", "leave", "verify", "check",
                      "write", "mount"}
      PROVE  AppTypes'
  BY <1>4 DEF AppTypes
<1>5. CASE RefreshMounts \/ RefreshReads \/ RefreshFails
  BY <1>4, <1>5 DEF RefreshMounts, RefreshReads, RefreshFails, Then, FailAt, Goto
<1>6. CASE Probe \/ Probed \/ Open
  BY <1>4, <1>6 DEF Probe, Probed, Open, Then, FailAt, Goto
<1>7. CASE SetValue \/ EraseOneKey \/ EraseNamespace \/ Leave
  BY <1>4, <1>7 DEF SetValue, EraseOneKey, EraseNamespace, Leave, Then, FailAt, Goto
<1>8. CASE Verify \/ Check \/ VerifyNamespace
  BY <1>4, <1>8 DEF Verify, Check, VerifyNamespace, Then, FailAt, Goto
<1>9. CASE ClosePartition \/ WriteImage \/ MountImage
  BY <1>4, <1>9 DEF ClosePartition, WriteImage, MountImage, Then, FailAt, Goto
<1> QED BY <1>1, <1>2, <1>3, <1>5, <1>6, <1>7, <1>8, <1>9 DEF Next, Step

LEMMA AlwaysTyped == Spec => [](ChangeInv /\ AppTypes)
<1>1. Init => AppTypes
  BY DEF Init, AppTypes
<1> QED BY <1>1, AlwaysChangeInv, TypesAreKept, PTL DEF Spec

-----------------------------------------------------------------------------
(* What the screens show.                                                  *)

\* A count, as pairs of its name and a number.
LEMMA PairsAreCounted ==
  ASSUME NEW n, NEW u \in Nat
  PROVE  IsFiniteSet({n} \X (1 .. u)) /\ Cardinality({n} \X (1 .. u)) = u
<1> DEFINE f == [j \in 1 .. u |-> <<n, j>>]
<1>1. f \in Bijection(1 .. u, {n} \X (1 .. u))
  <2>1. f \in [1 .. u -> {n} \X (1 .. u)]
    OBVIOUS
  <2>2. \A i, j \in 1 .. u : f[i] = f[j] => i = j
    OBVIOUS
  <2>3. \A p \in {n} \X (1 .. u) : \E i \in 1 .. u : f[i] = p
    OBVIOUS
  <2> HIDE DEF f
  <2> QED BY <2>1, <2>2, <2>3, Fun_IsBij
<1>2. IsFiniteSet(1 .. u) /\ Cardinality(1 .. u) = u
  BY FS_Interval
<1>3. ExistsBijection(1 .. u, {n} \X (1 .. u))
  BY <1>1 DEF ExistsBijection
<1> HIDE DEF f
<1> QED BY <1>2, <1>3, FS_Bijection

\* The counts of disjoint sets, each with one more for its name, make the count of all.
LEMMA CountsAddUp ==
  ASSUME NEW N, IsFiniteSet(N), NEW f,
         \A n \in N : IsFiniteSet(f[n]),
         \A n, m \in N : n # m => f[n] \cap f[m] = {}
  PROVE  /\ IsFiniteSet(UNION {f[n] : n \in N})
         /\ Cardinality(UNION {{n} \X (1 .. (UsedBy(f[n]) + 1)) : n \in N})
              = UsedBy(UNION {f[n] : n \in N}) + Cardinality(N)
<1> DEFINE All(T)   == UNION {f[n] : n \in T}
           Pair(n)  == {n} \X (1 .. (UsedBy(f[n]) + 1))
           Pairs(T) == UNION {Pair(n) : n \in T}
           Adds(T)  == /\ IsFiniteSet(All(T)) /\ IsFiniteSet(Pairs(T))
                       /\ Cardinality(Pairs(T)) = UsedBy(All(T)) + Cardinality(T)
           Bad      == {T \in FiniteSubsetsOf(N) : ~Adds(T)}
<1>1. SUFFICES ASSUME ~Adds(N) PROVE FALSE
  OBVIOUS
<1>2. N \in Bad
  BY <1>1 DEF FiniteSubsetsOf
<1>3. PICK T \in Bad : \A U \in Bad : ~ (<<U, T>> \in StrictSubsetOrdering(N))
  BY <1>2, WFMin, FS_StrictSubsetOrderingWellFounded, Zenon
<1>4. T \subseteq N /\ IsFiniteSet(T)
  BY DEF FiniteSubsetsOf
<1>5. CASE T = {}
  <2>1. All(T) = {} /\ Pairs(T) = {}
    BY <1>5
  <2>2. UsedBy({}) = 0
    <3>1. {x \in {} : Span(x) = 2} = {}
      OBVIOUS
    <3> QED BY <3>1, FS_EmptySet DEF UsedBy
  <2> QED BY <1>5, <2>1, <2>2, FS_EmptySet
<1>6. CASE T # {}
  <2>1. PICK n \in T : TRUE
    BY <1>6
  <2> DEFINE U == T \ {n}
  <2>2. n \in N /\ U \subseteq N /\ IsFiniteSet(U) /\ Cardinality(T) = Cardinality(U) + 1
    <3>1. IsFiniteSet(U) /\ Cardinality(U) = Cardinality(T) - 1
      BY <1>4, FS_RemoveElement
    <3> QED BY <1>4, <3>1, FS_CardinalityType
  <2>3. Adds(U)
    <3>1. <<U, T>> \in StrictSubsetOrdering(N) /\ U \in FiniteSubsetsOf(N)
      BY <1>4, <2>2 DEF StrictSubsetOrdering, FiniteSubsetsOf
    <3> QED BY <1>3, <3>1
  <2>4. All(T) = All(U) \cup f[n] /\ All(U) \cap f[n] = {}
    BY <1>4, <2>2
  <2>5. IsFiniteSet(All(T)) /\ UsedBy(All(T)) = UsedBy(All(U)) + UsedBy(f[n])
    BY <2>2, <2>3, <2>4, UsedByBoth
  <2>6. Pairs(T) = Pairs(U) \cup Pair(n)
    OBVIOUS
  <2>7. Pairs(U) \cap Pair(n) = {}
    OBVIOUS
  <2>8. UsedBy(f[n]) \in Nat /\ UsedBy(All(U)) \in Nat
    BY <2>2, <2>3, UsedByIsNatural
  <2>9. IsFiniteSet(Pair(n)) /\ Cardinality(Pair(n)) = UsedBy(f[n]) + 1
    <3>1. UsedBy(f[n]) + 1 \in Nat
      BY <2>8
    <3> QED BY <3>1, PairsAreCounted
  <2>10. Cardinality(U) \in Nat /\ Cardinality(Pairs(U)) \in Nat
    BY <2>2, <2>3, FS_CardinalityType
  <2> HIDE DEF Pairs, Pair, All
  <2>11. IsFiniteSet(Pairs(T)) /\ Cardinality(Pairs(T)) = Cardinality(Pairs(U)) + Cardinality(Pair(n))
    <3>1. IsFiniteSet(Pairs(U)) /\ IsFiniteSet(Pair(n))
      BY <2>3, <2>9
    <3>2. /\ IsFiniteSet(Pairs(U) \cup Pair(n))
          /\ Cardinality(Pairs(U) \cup Pair(n)) = Cardinality(Pairs(U)) + Cardinality(Pair(n))
      BY <2>7, <3>1, DisjointAreAdded
    <3> QED BY <2>6, <3>2
  <2>12. Adds(T)
    BY <2>2, <2>3, <2>5, <2>8, <2>9, <2>10, <2>11
  <2> QED BY <2>12
<1> QED BY <1>5, <1>6

\* Once the application runs, the table has every name that is on flash.
TableIsFull == pc # "other" /\ storage # 0 => \A x \in NamesOf(items) : x.key \in Named

\* Between changes the screens show what a listing would find.
ShownInv == TableIsFull /\ (pc = "idle" /\ shown.ok => storage # 0 /\ shown = Listing)

LEMMA TableStaysFull ==
  ASSUME ChangeInv, TableIsFull, [Next]_vars
  PROVE  TableIsFull'
<1>1. ASSUME NamesOf(items') = NamesOf(items), UNCHANGED <<table, storage>>, pc # "other" PROVE TableIsFull'
  BY <1>1 DEF TableIsFull, Named
<1>2. ASSUME pc' = "other" \/ storage' = 0 PROVE TableIsFull'
  BY <1>2 DEF TableIsFull
<1>3. ASSUME InitPartition PROVE TableIsFull'
  <2>1. NamesOf(items') = NamesOf(items) /\ DOMAIN table' = {x.key : x \in NamesOf(items)}
    BY <1>3 DEF InitPartition, NamesOf
  <2> QED BY <2>1 DEF TableIsFull, Named
<1>4. CASE OtherFirmware
  BY <1>2, <1>4 DEF OtherFirmware, application
<1>5. CASE WriteImage \/ ClosePartition
  BY <1>2, <1>5 DEF WriteImage, ClosePartition, ReplaceImage, DeinitPartition, library
<1>6. CASE LosePower
  BY <1>2, <1>6 DEF LosePower, PowerLoss
<1>7. CASE RefreshMounts \/ MountImage
  BY <1>1, <1>3, <1>7 DEF RefreshMounts, MountImage, library
<1>8. CASE Probe \/ Open \/ Verify
  <2>1. pc \notin {"other", "write"} /\ (pc = "open" => task.ns \in Named)
    BY <1>8 DEF Probe, Open, Verify, ChangeInv, HandleInv
  <2>2. NamesOf(items') = NamesOf(items)
    BY <2>1, NamesAreKept
  <2>3. UNCHANGED <<table, storage>>
    BY <1>8, <2>1 DEF Probe, Open, Verify, OpenExisting, OpenFails, OpenCreates, OpenOutOfMemory,
                      CreateNamespace, library
  <2> QED BY <1>1, <2>1, <2>2, <2>3
<1>9. CASE SetValue \/ EraseOneKey \/ EraseNamespace \/ Probed \/ Leave \/ Check
  <2>1. pc \notin {"other", "write"}
    BY <1>9 DEF SetValue, EraseOneKey, EraseNamespace, Probed, Leave, Check
  <2>2. NamesOf(items') = NamesOf(items)
    BY <2>1, NamesAreKept
  <2>3. UNCHANGED <<table, storage>>
    BY <1>9 DEF SetValue, EraseOneKey, EraseNamespace, Probed, Leave, Check, SetItem, SetFails, EraseKey,
                EraseKeyFails, EraseAll, EraseAllStep, EraseAllDone, Close, library
  <2> QED BY <1>1, <2>1, <2>2, <2>3
<1>10. CASE RefreshReads \/ RefreshFails \/ VerifyNamespace
  BY <1>1, <1>10 DEF RefreshReads, RefreshFails, VerifyNamespace, library
<1>11. CASE Start
  BY <1>1, <1>11 DEF Start, Begin, library
<1>12. CASE UNCHANGED vars
  BY <1>12 DEF vars, library, application, TableIsFull, Named
<1> QED BY <1>4, <1>5, <1>6, <1>7, <1>8, <1>9, <1>10, <1>11, <1>12 DEF Next, Step

LEMMA ShownIsKept ==
  ASSUME ChangeInv, ShownInv, [Next]_vars
  PROVE  ShownInv'
<1>1. TableIsFull'
  BY TableStaysFull DEF ShownInv
<1>2. ASSUME pc' # "idle" PROVE ShownInv'
  BY <1>1, <1>2 DEF ShownInv
<1>3. CASE RefreshReads
  <2>1. shown' = Listing /\ storage' = storage /\ storage # 0 /\ UNCHANGED <<items, table>>
    BY <1>3 DEF RefreshReads, library
  <2>2. Listing' = Listing
    BY <2>1 DEF Listing, NamesSeen, Listed, KeysIn, In, Named
  <2> QED BY <1>1, <2>1, <2>2 DEF ShownInv
<1>4. CASE RefreshFails
  BY <1>1, <1>4 DEF RefreshFails, Unread, ShownInv
<1>5. CASE UNCHANGED vars
  BY <1>1, <1>5 DEF vars, library, application, ShownInv, Listing, NamesSeen, Listed, KeysIn, In, Named
<1>6. ASSUME Step, ~RefreshReads, ~RefreshFails PROVE pc' # "idle"
  BY <1>6 DEF Step, RefreshMounts, Probe, Probed, Open, SetValue, EraseOneKey, EraseNamespace, Leave,
              Verify, Check, VerifyNamespace, ClosePartition, WriteImage, MountImage, Then, FailAt, Goto
<1>7. OtherFirmware \/ Start \/ LosePower => pc' # "idle"
  BY DEF OtherFirmware, application, Start, Begin, LosePower
<1> QED BY <1>2, <1>3, <1>4, <1>5, <1>6, <1>7 DEF Next

\* A name and its index are on flash exactly when they are in the table.
LEMMA FlashIsTable ==
  ASSUME ChangeInv, TableIsFull, pc = "idle", storage # 0
  PROVE  \A n, i : NsItem(n, i) \in items <=> n \in Named /\ table[n] = i
<1> TAKE n, i
<1>1. ASSUME NsItem(n, i) \in items PROVE n \in Named /\ table[n] = i
  <2>1. NsItem(n, i) \in NamesOf(items) /\ NsItem(n, i).key = n
    BY <1>1, NsItemFields DEF NamesOf
  <2>2. n \in Named
    BY <2>1 DEF TableIsFull
  <2>3. NsItem(n, table[n]) \in NamesOf(items) /\ NsItem(n, table[n]).key = n
    BY <2>2, NsItemFields DEF NamesOf, ChangeInv, LibraryInv, Sound, TableIsFlash
  <2>4. NsItem(n, table[n]) = NsItem(n, i)
    BY <2>1, <2>3 DEF ChangeInv, LibraryInv, Sound, OneNamePerIndex, OneToOne
  <2> QED BY <2>2, <2>4, NsItemFields
<1>2. ASSUME n \in Named, table[n] = i PROVE NsItem(n, i) \in items
  BY <1>2 DEF ChangeInv, LibraryInv, Sound, TableIsFlash
<1> QED BY <1>1, <1>2

\* No name is passed over that has entries: one of them is a value or a first chunk.
LEMMA EntriesAreSeen ==
  ASSUME ChangeInv, pc = "idle", storage # 0, NEW n \in Named, In(table[n]) # {}
  PROVE  n \in NamesSeen
<1>1. table[n] # 0 /\ erasing = 0
  BY TableIsInjective DEF ChangeInv, LibraryInv, EraseInv
<1>2. PICK x \in items : x.ns = table[n]
  BY DEF In
<1>3. CASE Iterable(x)
  BY <1>2, <1>3 DEF NamesSeen, KeysIn, In
<1>4. CASE ~Iterable(x)
  <2>1. x.type \in BlobTypes
    BY <1>1, <1>2, <1>4 DEF Iterable, BlobTypes
  <2>2. Find(x.ns, x.key, "data") # {}
    BY <1>1, <1>2, <2>1 DEF ChangeInv, LibraryInv, BlobsAreWhole
  <2>3. PICK y \in items : y.ns = table[n] /\ y.type = "data"
    BY <1>2, <2>2 DEF Find, In
  <2> QED BY <1>1, <2>3 DEF NamesSeen, KeysIn, In, Iterable
<1> QED BY <1>3, <1>4

\* The names on flash: those whose namespaces are seen, and those without entries.
Unused == {x \in NamesOf(items) : In(x.val) = {}}

LEMMA NamesAreSeenOrUnused ==
  ASSUME ChangeInv, TableIsFull, pc = "idle", storage # 0
  PROVE  /\ IsFiniteSet(NamesSeen) /\ IsFiniteSet(Unused)
         /\ UsedBy(NamesOf(items)) = Cardinality(NamesSeen) + Cardinality(Unused)
<1> DEFINE Used == NamesOf(items) \ Unused
           f    == [n \in NamesSeen |-> NsItem(n, table[n])]
<1>1. IsFiniteSet(NamesOf(items)) /\ Unused \subseteq NamesOf(items)
  BY FS_Subset DEF ChangeInv, LibraryInv, StoreInv, NamesOf, Unused
<1>2. IsFiniteSet(Unused) /\ IsFiniteSet(Used)
  BY <1>1, FS_Subset
<1>3. \A n \in NamesSeen : n \in Named /\ NsItem(n, table[n]) \in Used
  <2> TAKE n \in NamesSeen
  <2>1. n \in Named /\ KeysIn(table[n]) # {}
    BY DEF NamesSeen
  <2>2. NsItem(n, table[n]) \in NamesOf(items)
    BY <2>1, FlashIsTable, NsItemFields DEF NamesOf
  <2>3. In(NsItem(n, table[n]).val) # {}
    BY <2>1, NsItemFields DEF KeysIn
  <2> QED BY <2>1, <2>2, <2>3 DEF Unused
<1>4. \A n, m \in NamesSeen : f[n] = f[m] => n = m
  BY NsItemFields
<1>5. \A x \in Used : \E n \in NamesSeen : f[n] = x
  <2> TAKE x \in Used
  <2>1. x \in NamesOf(items) /\ In(x.val) # {} /\ x = NsItem(x.key, x.val)
    BY NamesAreItems DEF Unused, ChangeInv, LibraryInv, Sound
  <2>2. NsItem(x.key, x.val) \in items
    BY <2>1 DEF NamesOf
  <2>3. x.key \in Named /\ table[x.key] = x.val
    BY <2>2, FlashIsTable
  <2>4. x.key \in NamesSeen
    BY <2>1, <2>3, EntriesAreSeen
  <2>5. f[x.key] = x
    BY <2>1, <2>3, <2>4
  <2> QED BY <2>4, <2>5
<1>6. f \in [NamesSeen -> Used]
  BY <1>3
<1>7. f \in Injection(NamesSeen, Used) /\ f \in Surjection(NamesSeen, Used)
  <2> HIDE DEF f, Used
  <2> QED BY <1>4, <1>5, <1>6, Fun_IsBij DEF Bijection
<1>8. IsFiniteSet(NamesSeen) /\ Cardinality(NamesSeen) = Cardinality(Used)
  <2> HIDE DEF f, Used
  <2> QED BY <1>2, <1>7, FS_Injection
<1>9. UsedBy(NamesOf(items)) = Cardinality(NamesOf(items))
  <2>1. {x \in NamesOf(items) : Span(x) = 2} = {}
    BY NamesAreItems DEF Span, ChangeInv, LibraryInv, Sound
  <2>2. Cardinality(NamesOf(items)) \in Nat /\ Cardinality({}) = 0
    BY <1>1, FS_CardinalityType, FS_EmptySet
  <2> QED BY <2>1, <2>2 DEF UsedBy
<1>10. Cardinality(NamesOf(items)) = Cardinality(Used) + Cardinality(Unused)
  <2>1. NamesOf(items) = Used \cup Unused /\ Used \cap Unused = {}
    BY <1>1
  <2> HIDE DEF Used
  <2> QED BY <1>2, <2>1, DisjointAreAdded
<1> QED BY <1>2, <1>8, <1>9, <1>10

\* Everything on flash is a name, in a namespace that is seen, or without a name.
LEMMA AllIsAccountedFor ==
  ASSUME ChangeInv, TableIsFull, pc = "idle", storage # 0
  PROVE  /\ UsedBy(Orphans) + Cardinality(Unused) \in Nat
         /\ Cardinality(UNION {{n} \X (1 .. (UsedBy(In(table[n])) + 1)) : n \in NamesSeen}) \in Nat
         /\ UsedBy(items)
              = Cardinality(UNION {{n} \X (1 .. (UsedBy(In(table[n])) + 1)) : n \in NamesSeen})
                + (UsedBy(Orphans) + Cardinality(Unused))
<1> DEFINE f     == [n \in NamesSeen |-> In(table[n])]
           Seen  == UNION {f[n] : n \in NamesSeen}
           pairs == UNION {{n} \X (1 .. (UsedBy(f[n]) + 1)) : n \in NamesSeen}
<1>1. IsFiniteSet(items) /\ IsFiniteSet(NamesOf(items)) /\ IsFiniteSet(Orphans)
  BY FS_Subset DEF ChangeInv, LibraryInv, StoreInv, NamesOf, Orphans
<1>2. IsFiniteSet(NamesSeen) /\ IsFiniteSet(Unused)
      /\ UsedBy(NamesOf(items)) = Cardinality(NamesSeen) + Cardinality(Unused)
  BY NamesAreSeenOrUnused
<1>3. \A n \in NamesSeen : n \in Named /\ table[n] # 0 /\ NsItem(n, table[n]) \in NamesOf(items)
  BY TableIsInjective, NsItemFields DEF NamesSeen, NamesOf, ChangeInv, LibraryInv, Sound, TableIsFlash
<1>4. \A n \in NamesSeen : IsFiniteSet(f[n])
  BY <1>1, FS_Subset DEF In
<1>5. \A n, m \in NamesSeen : n # m => f[n] \cap f[m] = {}
  BY <1>3, TableIsInjective DEF In, ChangeInv, LibraryInv
<1>6. IsFiniteSet(Seen) /\ Cardinality(pairs) = UsedBy(Seen) + Cardinality(NamesSeen)
  <2> HIDE DEF f
  <2> QED BY <1>2, <1>4, <1>5, CountsAddUp
<1>7. items = (Seen \cup Orphans) \cup NamesOf(items)
  <2>1. ASSUME NEW x \in items, x \notin NamesOf(items), x \notin Orphans PROVE x \in Seen
    <3>1. PICK y \in NamesOf(items) : y.val = x.ns
      BY <2>1 DEF NamesOf, Orphans
    <3>2. NsItem(y.key, y.val) \in items
      BY NamesAreItems DEF NamesOf, ChangeInv, LibraryInv, Sound
    <3>3. y.key \in Named /\ table[y.key] = x.ns
      BY <3>1, <3>2, FlashIsTable
    <3>4. y.key \in NamesSeen /\ x \in In(table[y.key])
      BY <2>1, <3>3, EntriesAreSeen DEF In
    <3> QED BY <3>4
  <2>2. Seen \subseteq items /\ Orphans \subseteq items /\ NamesOf(items) \subseteq items
    BY DEF In, Orphans, NamesOf
  <2> QED BY <2>1, <2>2
<1>8. Seen \cap Orphans = {}
  <2> SUFFICES ASSUME NEW n \in NamesSeen, NEW x \in In(table[n]), x \in Orphans PROVE FALSE
    OBVIOUS
  <2>1. NsItem(n, table[n]) \in NamesOf(items) /\ NsItem(n, table[n]).val = x.ns
    BY <1>3, NsItemFields DEF In
  <2> QED BY <2>1 DEF Orphans
<1>9. (Seen \cup Orphans) \cap NamesOf(items) = {}
  BY <1>3 DEF In, Orphans, NamesOf
<1> HIDE DEF Seen
<1>10. IsFiniteSet(Seen \cup Orphans) /\ UsedBy(Seen \cup Orphans) = UsedBy(Seen) + UsedBy(Orphans)
  BY <1>1, <1>6, <1>8, UsedByBoth
<1>11. UsedBy(items) = UsedBy(Seen) + UsedBy(Orphans) + UsedBy(NamesOf(items))
  <2>1. UsedBy((Seen \cup Orphans) \cup NamesOf(items)) = UsedBy(Seen \cup Orphans) + UsedBy(NamesOf(items))
    BY <1>1, <1>9, <1>10, UsedByBoth
  <2> QED BY <1>7, <1>10, <2>1
<1>12. UsedBy(Seen) \in Nat /\ UsedBy(Orphans) \in Nat
       /\ Cardinality(NamesSeen) \in Nat /\ Cardinality(Unused) \in Nat
  BY <1>1, <1>2, <1>6, UsedByIsNatural, FS_CardinalityType
<1>13. pairs = UNION {{n} \X (1 .. (UsedBy(In(table[n])) + 1)) : n \in NamesSeen}
  OBVIOUS
<1> HIDE DEF pairs
<1>14. Cardinality(pairs) \in Nat
  BY <1>6, <1>12
<1> QED BY <1>2, <1>6, <1>11, <1>12, <1>13, <1>14

LEMMA ListingIsFlash ==
  ASSUME ChangeInv, ShownInv
  PROVE  ShownIsFlash
<1> SUFFICES ASSUME pc = "idle", shown.ok
             PROVE  /\ DOMAIN shown.ns = {n \in Names : KeysOnFlash(n) # {}}
                    /\ \A n \in DOMAIN shown.ns :
                         shown.ns[n] = [used |-> UsedBy({x \in items : NsItem(n, x.ns) \in items}) + 1,
                                        keys |-> Cardinality(KeysOnFlash(n))]
                    /\ Unattributed = UsedBy(Orphans) + Cardinality({x \in NamesOf(items) : In(x.val) = {}})
  BY DEF ShownIsFlash
<1>1. storage # 0 /\ TableIsFull /\ shown = Listing
  BY DEF ShownInv
<1>2. DOMAIN shown.ns = NamesSeen /\ shown.used = UsedBy(items)
      /\ \A n \in NamesSeen : shown.ns[n] = Listed(n)
  BY <1>1 DEF Listing
<1>3. \A n \in Named : KeysOnFlash(n) = KeysIn(table[n]) /\ {x \in items : NsItem(n, x.ns) \in items} = In(table[n])
  BY <1>1, FlashIsTable DEF KeysOnFlash, KeysIn, In
<1>4. \A n : n \notin Named => KeysOnFlash(n) = {}
  BY <1>1, FlashIsTable DEF KeysOnFlash
<1>5. DOMAIN shown.ns = {n \in Names : KeysOnFlash(n) # {}}
  BY <1>1, <1>2, <1>3, <1>4, NamedIsName DEF NamesSeen
<1>6. \A n \in DOMAIN shown.ns :
        shown.ns[n] = [used |-> UsedBy({x \in items : NsItem(n, x.ns) \in items}) + 1,
                       keys |-> Cardinality(KeysOnFlash(n))]
  BY <1>2, <1>3 DEF Listed, NamesSeen
<1>7. Unattributed = UsedBy(Orphans) + Cardinality(Unused)
  <2> DEFINE pairs == UNION {{n} \X (1 .. (UsedBy(In(table[n])) + 1)) : n \in NamesSeen}
  <2>1. UNION {{n} \X (1 .. shown.ns[n].used) : n \in DOMAIN shown.ns} = pairs
    <3>1. \A n \in NamesSeen : shown.ns[n].used = UsedBy(In(table[n])) + 1
      <4> TAKE n \in NamesSeen
      <4>1. Listed(n).used = UsedBy(In(table[n])) + 1
        BY DEF Listed
      <4> QED BY <1>2, <4>1
    <3> QED BY <1>2, <3>1
  <2>2. /\ UsedBy(Orphans) + Cardinality(Unused) \in Nat /\ Cardinality(pairs) \in Nat
        /\ UsedBy(items) = Cardinality(pairs) + (UsedBy(Orphans) + Cardinality(Unused))
    BY <1>1, AllIsAccountedFor
  <2>3. Unattributed = IF UsedBy(items) > Cardinality(pairs) THEN UsedBy(items) - Cardinality(pairs) ELSE 0
    BY <1>2, <2>1 DEF Unattributed
  <2> DEFINE c == Cardinality(pairs)
             r == UsedBy(Orphans) + Cardinality(Unused)
  <2>4. c \in Nat /\ r \in Nat /\ UsedBy(items) = c + r
        /\ Unattributed = IF UsedBy(items) > c THEN UsedBy(items) - c ELSE 0
    BY <2>2, <2>3
  <2> HIDE DEF c, r
  <2>5. Unattributed = r
    BY <2>4
  <2> QED BY <2>5 DEF r
<1> QED BY <1>5, <1>6, <1>7 DEF Unused

-----------------------------------------------------------------------------
(* Theorems.                                                               *)

\* What the application does, the library allows: all that is proved of the library
\* holds of the application's changes, and of other firmware before them.
THEOREM ChangesUseTheLibrary == Spec => LibrarySpec
<1>1. Init => LibraryInit
  BY DEF Init
<1>2. ChangeInv /\ [Next]_vars => [LibraryNext]_library
  BY StepIsLibrary
<1> QED BY <1>1, <1>2, AlwaysChangeInv, PTL DEF Spec, LibrarySpec

\* Between changes the application has no handle open (ScopedHandle in NvsWriter.cpp).
THEOREM NoHandleIsLeft == Spec => []HandlesClosed
<1>1. ChangeInv /\ DOMAIN entries = {} => entries = <<>>
  BY NoneIsFunction DEF ChangeInv, LibraryInv, HandleNumbers
<1>2. ChangeInv => HandlesClosed
  BY <1>1 DEF ChangeInv, HandleInv, HandlesClosed, Holding
<1> QED BY <1>2, AlwaysChangeInv, PTL

\* No change creates a namespace, though opening read-write would (requireNamespace in
\* NvsWriter.cpp).
THEOREM NoNameAppears == Spec => NeverCreates
<1>1. ChangeInv /\ [Next]_vars => [pc \notin {"other", "write"} => NamesOf(items') = NamesOf(items)]_vars
  BY NamesAreKept
<1> QED BY <1>1, AlwaysChangeInv, PTL DEF Spec, NeverCreates

\* A change touches its own namespace and key only, to the last step of its verification.
THEOREM OnlyTheTargetChanges == Spec => OnlyTargetChanges
<1>1. ChangeInv /\ [Next]_vars =>
        [ (pc \in {"act", "erasing", "leave", "verify", "check"}) =>
            \A x \in (items \ items') \cup (items' \ items) :
              x.ns = Index /\ (task.kind = "eraseNs" \/ x.key = task.key) ]_vars
  BY ChangeIsLocal DEF TargetOnly
<1> QED BY <1>1, AlwaysChangeInv, PTL DEF Spec, OnlyTargetChanges

\* A change that the application reports as done is done on flash: it was read back
\* (NvsWriter.cpp), or the written image was mounted (NvsRestore.cpp).
THEOREM WhatIsReportedIsDone == Spec => []OkMeansDone
<1>1. Init => DoneInv
  BY DEF Init, DoneInv
<1>2. ChangeInv /\ DoneInv /\ [Next]_vars => DoneInv'
  BY DoneInvIsKept
<1>3. DoneInv => OkMeansDone
  BY DEF DoneInv, Done, OkMeansDone
<1> QED BY <1>1, <1>2, <1>3, AlwaysChangeInv, PTL DEF Spec

\* Every step of a change leaves the library within its bounds and the change at a
\* step there is, with a result there is (NvsWriter.cpp).
THEOREM ChangesAreTyped == Spec => []ChangeTypeOK
<1>1. ChangeInv /\ AppTypes => ChangeTypeOK
  BY StoredIsTyped DEF ChangeInv, LibraryInv, AppTypes, ChangeTypeOK
<1> QED BY <1>1, AlwaysTyped, PTL

\* Whatever became of the last change, the screens show what is on flash, name by
\* name, and count as not attributed what no name leads to and the names without
\* entries (NvsModel::refresh).
THEOREM ScreensShowFlash == Spec => []ShownIsFlash
<1>1. Init => ShownInv
  BY DEF Init, Unread, ShownInv, TableIsFull
<1>2. ChangeInv /\ ShownInv /\ [Next]_vars => ShownInv'
  BY ShownIsKept
<1>3. ChangeInv /\ ShownInv => ShownIsFlash
  BY ListingIsFlash
<1> QED BY <1>1, <1>2, <1>3, AlwaysChangeInv, PTL DEF Spec
=============================================================================
