---------------------------- MODULE NvsNamespaces ----------------------------
(***************************************************************************)
(* Namespaces and handles of the NVS library (Storage, NVSPartitionManager *)
(* and nvs_api in lib/esp-idf-nvs). A namespace is an item of namespace 0  *)
(* whose key is the name and whose value is the index that its entries     *)
(* carry. Mounting reads these items into a table; opening read-write      *)
(* creates a missing namespace under the lowest index that no name has.    *)
(* Entries whose index has no name any more stay on flash, unreachable.    *)
(*                                                                         *)
(* The pages below are NvsStorage's: here an item is replaced in one step, *)
(* a mount finds it whole, and the items are a set: where the code takes   *)
(* the first that a page order gives, any may be the first. Blobs are      *)
(* written by NvsBlob; here they are listed and erased.                    *)
(***************************************************************************)
EXTENDS Integers, FiniteSets

CONSTANTS
  Names,      \* namespace names
  Keys,       \* key names
  Values,     \* values of scalars and strings
  MaxIndex,   \* the last namespace index, 254 in createOrOpenNamespace
  Room,       \* entries that fit, apart from the page held back
  MaxHandle,  \* bound: handles ever opened
  MaxLife,    \* bound: storages ever created
  Images      \* partition contents that come from elsewhere

IndexRange == 1 .. MaxIndex
ItemTypes  == {"u8", "str", "index", "data", "more"}
BlobTypes  == {"index", "data", "more"}

NsItem(n, i)     == [ns |-> 0, key |-> n, type |-> "u8", val |-> i]
Item(i, k, t, v) == [ns |-> i, key |-> k, type |-> t, val |-> v]

ASSUME BoundAssumption ==
  /\ MaxIndex \in Nat \ {0} /\ Room \in Nat
  /\ MaxHandle \in Nat /\ MaxLife \in Nat

\* A blob is an index, whose value is the number of chunks, a first chunk
\* ("data") and maybe others ("more"). Every item takes an entry, and some one more.
Span(x) == IF x.type \in {"str", "data", "more"} THEN 2 ELSE 1
UsedBy(S) == Cardinality(S) + Cardinality({x \in S : Span(x) = 2})

\* Whatever else they hold, images have one index per name and one name per
\* index, a blob has fewer further chunks than its index counts, and they fit:
\* the library writes no others.
NamesOf(S)  == {x \in S : x.ns = 0}
OneToOne(S) == \A x, y \in NamesOf(S) : (x.key = y.key \/ x.val = y.val) => x = y
WellNamed(S) == \A x \in NamesOf(S) : \E n \in Names, i \in IndexRange : x = NsItem(n, i)
AreItems(S) == \A x \in S : x = Item(x.ns, x.key, x.type, x.val)
InRange(S)  == \A x \in S : x.ns = 0 \/ (x.ns \in IndexRange /\ x.key \in Keys /\ x.type \in ItemTypes)
More(S, i, k) == {x \in S : x.ns = i /\ x.key = k /\ x.type = "more"}
Counted(S)  ==
  \A x \in S : x.type = "index" => x.val \in Nat /\ Cardinality(More(S, x.ns, x.key)) < x.val
ASSUME ImageAssumption ==
  \A image \in Images :
    /\ OneToOne(image) /\ WellNamed(image)
    /\ AreItems(image) /\ InRange(image) /\ Counted(image)
    /\ IsFiniteSet(image) /\ UsedBy(image) <= Room

VARIABLES
  items,    \* the live items on flash
  table,    \* mNamespaces: the names known and their indexes
  usage,    \* mNamespaceUsage, without the reserved 0 and 255
  storage,  \* the registered Storage object, 0 when there is none
  life,     \* Storage objects created so far
  entries,  \* s_nvs_handles: the open handles
  opened,   \* s_nvs_next_handle
  erasing   \* the index eraseNamespace is at work on, 0 when not

library == <<items, table, usage, storage, life, entries, opened, erasing>>

-----------------------------------------------------------------------------
(* Items and lookups.                                                      *)

In(i) == {x \in items : x.ns = i}

\* Storage::findItem. A lookup without a type does not see chunks.
Find(i, k, t) == {x \in In(i) : x.key = k /\ x.type = t}
FindAny(i, k) == {x \in In(i) : x.key = k /\ x.type \notin {"data", "more"}}

\* What goes with an item that is erased: the chunks of a blob with its index.

\* Wrong on purpose: forgets the namespace.
With_AnyNamespace(x) ==
  IF x.type = "index" THEN {y \in items : y.ns = x.ns /\ y.key = x.key /\ y.type \in BlobTypes}
  ELSE {y \in items : y.ns # 0 /\ y.key = x.key /\ y.type = x.type}

With(x) ==
  IF x.type = "index" THEN {y \in In(x.ns) : y.key = x.key /\ y.type \in BlobTypes} ELSE {x}

\* The room a new item needs: the old one goes only after it.

Fits(x) == UsedBy(items) + Span(x) <= Room

\* Storage::writeItem for a scalar or a string. It replaces the item of this
\* type, or else one of another type.
Old(x) == IF Find(x.ns, x.key, x.type) # {} THEN Find(x.ns, x.key, x.type) ELSE FindAny(x.ns, x.key)
Rewrite(x) ==
  /\ Fits(x)
  /\ \/ Old(x) = {} /\ items' = items \cup {x}
     \/ \E old \in Old(x) : items' = (items \ With(old)) \cup {x}

-----------------------------------------------------------------------------
(* The namespace table.                                                    *)

Named == DOMAIN table

\* Wrong on purpose: only the indexes of the names in the table count.
FreeIndexes_ByTable == IndexRange \ {table[n] : n \in Named}

FreeIndexes == IndexRange \ usage
NextIndex == CHOOSE i \in FreeIndexes : \A j \in FreeIndexes : i <= j

\* Storage::init reads the table from flash and drops what is left of a blob.
FlashIndex(n) == CHOOSE i \in IndexRange : NsItem(n, i) \in items
Whole(i, k) ==
  \E x \in Find(i, k, "index") : Cardinality(Find(i, k, "data") \cup Find(i, k, "more")) = x.val

InitPartition ==
  /\ storage = 0 /\ life < MaxLife
  /\ storage' = life + 1
  /\ life' = life + 1
  /\ table' = [n \in {x.key : x \in NamesOf(items)} |-> FlashIndex(n)]
  /\ usage' = {x.val : x \in NamesOf(items)}
  /\ items' = {x \in items : x.ns # 0 /\ x.type \in BlobTypes => Whole(x.ns, x.key)}
  /\ UNCHANGED <<entries, opened, erasing>>

\* close_handles_and_deinit closes the handles before the storage goes.

\* Wrong on purpose: the handles stay open.
DeinitPartition_KeepsHandles ==
  /\ storage # 0 /\ erasing = 0
  /\ storage' = 0 /\ table' = <<>> /\ usage' = {}
  /\ UNCHANGED <<items, entries, life, opened, erasing>>

DeinitPartition ==
  /\ storage # 0 /\ erasing = 0
  /\ entries' = [h \in {g \in DOMAIN entries : entries[g].storage # storage} |-> entries[h]]
  /\ storage' = 0 /\ table' = <<>> /\ usage' = {}
  /\ UNCHANGED <<items, life, opened, erasing>>

-----------------------------------------------------------------------------
(* Opening: nvs_open_from_partition, open_handle, createOrOpenNamespace.   *)

Handle(n, i, ro) == [name |-> n, index |-> i, ro |-> ro, storage |-> storage]

NewHandle(n, i, ro) ==
  /\ opened < MaxHandle
  /\ opened' = opened + 1
  /\ entries' = [h \in DOMAIN entries \cup {opened + 1} |->
                   IF h = opened + 1 THEN Handle(n, i, ro) ELSE entries[h]]

OpenExisting(n, ro) ==
  /\ storage # 0 /\ erasing = 0 /\ n \in Named
  /\ NewHandle(n, table[n], ro)
  /\ UNCHANGED <<items, table, usage, storage, life, erasing>>

\* The name is written to flash, then the index is marked, then the table
\* grows.
CreateNamespace(n) ==
  /\ storage # 0 /\ erasing = 0 /\ n \notin Named
  /\ FreeIndexes # {}
  /\ Rewrite(NsItem(n, NextIndex))
  /\ usage' = usage \cup {NextIndex}

OpenCreates(n) ==
  /\ CreateNamespace(n)
  /\ table' = [m \in Named \cup {n} |-> IF m = n THEN NextIndex ELSE table[m]]
  /\ NewHandle(n, NextIndex, FALSE)
  /\ UNCHANGED <<storage, life, erasing>>

\* No memory for the table entry: the name is on flash and the index is taken.
OpenOutOfMemory(n) ==
  /\ CreateNamespace(n)
  /\ UNCHANGED <<table, storage, life, entries, opened, erasing>>

OpenFails(n, ro) ==
  /\ erasing = 0
  /\ \/ storage = 0
     \/ n \notin Named /\ (ro \/ FreeIndexes = {} \/ ~Fits(NsItem(n, MaxIndex)))
  /\ UNCHANGED library

Close(h) ==
  /\ h \in DOMAIN entries /\ erasing = 0
  /\ entries' = [g \in DOMAIN entries \ {h} |-> entries[g]]
  /\ UNCHANGED <<items, table, usage, storage, life, opened, erasing>>

-----------------------------------------------------------------------------
(* Calls through a handle; an unknown handle or a read-only one is refused.*)

Writable(h) == h \in DOMAIN entries /\ ~entries[h].ro /\ erasing = 0

Target(h, k, t, v) == Item(entries[h].index, k, t, v)

SetItem(h, k, t, v) ==
  /\ Writable(h)
  /\ \/ Target(h, k, t, v) \in items /\ UNCHANGED items
     \/ Target(h, k, t, v) \notin items /\ Rewrite(Target(h, k, t, v))
  /\ UNCHANGED <<table, usage, storage, life, entries, opened, erasing>>

SetFails(h, k, t, v) ==
  /\ erasing = 0
  /\ Writable(h) => Target(h, k, t, v) \notin items /\ ~Fits(Target(h, k, t, v))
  /\ UNCHANGED library

EraseKey(h, k) ==
  /\ Writable(h)
  /\ \E x \in FindAny(entries[h].index, k) : items' = items \ With(x)
  /\ UNCHANGED <<table, usage, storage, life, entries, opened, erasing>>

EraseKeyFails(h, k) ==
  /\ erasing = 0
  /\ Writable(h) => FindAny(entries[h].index, k) = {}
  /\ UNCHANGED library

\* eraseNamespace goes item by item, chunks and all.
EraseAll(h) ==
  /\ Writable(h)
  /\ erasing' = entries[h].index
  /\ UNCHANGED <<items, table, usage, storage, life, entries, opened>>

EraseAllStep ==
  /\ erasing # 0
  /\ \E x \in In(erasing) : items' = items \ {x}
  /\ UNCHANGED <<table, usage, storage, life, entries, opened, erasing>>

EraseAllDone ==
  /\ erasing # 0 /\ In(erasing) = {}
  /\ erasing' = 0
  /\ UNCHANGED <<items, table, usage, storage, life, entries, opened>>

-----------------------------------------------------------------------------
(* Around the library.                                                     *)

PowerLoss ==
  /\ storage' = 0 /\ table' = <<>> /\ usage' = {}
  /\ entries' = <<>> /\ opened' = 0 /\ erasing' = 0
  /\ UNCHANGED <<items, life>>

\* The partition is replaced sector by sector (NvsRestore.cpp) while it is closed.
ReplaceImage ==
  /\ storage = 0
  /\ items' \in Images
  /\ UNCHANGED <<table, usage, storage, life, entries, opened, erasing>>

LibraryInit ==
  /\ items \in Images
  /\ table = <<>> /\ usage = {} /\ storage = 0 /\ life = 0
  /\ entries = <<>> /\ opened = 0 /\ erasing = 0

OpenCall ==
  \E n \in Names :
    \/ \E ro \in BOOLEAN : OpenExisting(n, ro) \/ OpenFails(n, ro)
    \/ OpenCreates(n)
    \/ OpenOutOfMemory(n)

HandleCall ==
  \E h \in 1 .. MaxHandle :
    \/ Close(h)
    \/ EraseAll(h)
    \/ \E k \in Keys :
         \/ EraseKey(h, k) \/ EraseKeyFails(h, k)
         \/ \E t \in {"u8", "str"}, v \in Values : SetItem(h, k, t, v) \/ SetFails(h, k, t, v)

LibraryNext ==
  \/ InitPartition \/ DeinitPartition \/ OpenCall \/ HandleCall
  \/ EraseAllStep \/ EraseAllDone
  \/ PowerLoss \/ ReplaceImage

LibrarySpec == LibraryInit /\ [][LibraryNext]_library

-----------------------------------------------------------------------------
(* Properties.                                                             *)

\* Every variable has its type, and the items fit.
LibraryTypeOK ==
  /\ \A x \in items :
       \/ \E n \in Names, i \in IndexRange : x = NsItem(n, i)
       \/ /\ x.ns \in IndexRange /\ x.key \in Keys /\ x.type \in ItemTypes
  /\ UsedBy(items) <= Room
  /\ Named \subseteq Names /\ \A n \in Named : table[n] \in IndexRange
  /\ usage \subseteq IndexRange
  /\ storage \in {0, life} /\ life \in 0 .. MaxLife
  /\ opened \in 0 .. MaxHandle /\ DOMAIN entries \subseteq 1 .. opened
  /\ erasing \in 0 .. MaxIndex

\* On flash no two names have one index, and no name has two: after creations
\* that ran out of memory, power losses and restored images as well.
OneNamePerIndex == OneToOne(items)

\* What the table says is what flash says; a name that flash has and the table
\* has not (after OpenOutOfMemory) still blocks its index.
TableIsFlash ==
  storage # 0 =>
    /\ \A n \in Named : NsItem(n, table[n]) \in items
    /\ \A x \in NamesOf(items) : x.val \in usage

\* An open handle works on the namespace it was opened for, also after the
\* partition was closed, replaced and opened again.
HandleMeansName ==
  \A h \in DOMAIN entries :
    /\ entries[h].storage = storage
    /\ entries[h].name \in Named
    /\ entries[h].index = table[entries[h].name]

\* What is known by a name and what the names on flash are always agree.
NamesAreSound == OneNamePerIndex /\ TableIsFlash

\* The entries of a namespace change only while a read-write handle of it is
\* open; calls on other names and through read-only handles never reach them.
\* Entries without a name are out of everyone's reach: while the partition is
\* open they go only by getting a name, when a new namespace takes their index
\* (docs/RESEARCH.md:45 and 47).
Orphans == {x \in items : x.ns # 0 /\ \A y \in NamesOf(items) : y.val # x.ns}
KeepsOthers ==
  /\ \A n \in Named \cap Named' :
       In(table[n])' # In(table[n]) =>
         \E h \in DOMAIN entries : entries[h].name = n /\ ~entries[h].ro
  /\ storage # 0 =>
       \A x \in Orphans : x \in items' /\ (x \in Orphans' \/ x.ns \in usage')
OnlyOwnKeys == [][KeepsOthers]_library
=============================================================================
