------------------------------ MODULE NvsBlob ------------------------------
(***************************************************************************)
(* Blobs in the NVS library (Storage in lib/esp-idf-nvs): a blob is stored *)
(* as data chunks on one or more pages and an index item, in one of two    *)
(* versions, so that the new blob is complete before the old one is        *)
(* erased. What a power loss leaves half done is removed at the next mount *)
(* (Storage::init), and what a failed write leaves by the write itself.    *)
(* One repair of a mount takes too much: it may erase a chunk of a blob    *)
(* that is whole (CheckLast), and the mount then drops the blob.           *)
(*                                                                         *)
(* One item is written or erased per step; that an item is written or      *)
(* erased completely or not at all, and that an interrupted page move is   *)
(* done again, is what NvsStorage shows for the pages below. A value is a  *)
(* sequence of units of one entry.                                         *)
(***************************************************************************)
EXTENDS NvsRequests, Integers, Sequences, FiniteSets, SequencesExt

CONSTANTS
  PageCount,   \* pages of the partition
  EntryCount,  \* entries of a page
  SmallTail,   \* Page::CHUNK_MAX_SIZE / 10: less room is not worth a first chunk
  MaxSeq       \* bound: no call starts and no power is lost beyond it

Page == 1..PageCount
Version == {0, 1}    \* VerOffset::VER_0_OFFSET, VER_1_OFFSET

ASSUME SizeAssumption ==
  /\ PageCount \in Nat /\ PageCount >= 2
  /\ EntryCount \in Nat /\ EntryCount >= 2
  /\ SmallTail \in 0 .. EntryCount - 1 /\ MaxSeq \in Nat
ASSUME ValueAssumption == \A v \in Values : v \in Seq({v[i] : i \in DOMAIN v})

VARIABLES
  flash,    \* the pages as they are on flash
  pc,       \* the step the running call or mount takes next
  cur,      \* the current page, the last of mPageList (0: none)
  free,     \* mFreePageList, in order
  nextSeq,  \* mSeqNumber
  gc,       \* the page being freed (0: none)
  op,       \* the running call
  loc,      \* the locals of the running call
  res,      \* what the last call returned
  gaveUp    \* auxiliary: a write was given up in the middle, and no mount since has
            \* left the blobs clean

ram  == <<cur, free, nextSeq, gc, op, loc, res, gaveUp>>
vars == <<flash, pc, ram>>

-----------------------------------------------------------------------------
(* Flash content: the live items of a page in order, the entries they take *)
(* and the first entry never used (mUsedEntryCount, mNextFreeEntry), and   *)
(* whether the last entry used belongs to a live item (not if that item    *)
(* was erased or only half written).                                       *)

Index(k, v, n, size) == [kind |-> "index", key |-> k, ver |-> v, count |-> n, size |-> size]
Chunk(k, v, i, d)    == [kind |-> "data", key |-> k, ver |-> v, index |-> i, data |-> d]

Span(item) == IF item.kind = "data" THEN 1 + Len(item.data) ELSE 1

\* The entries that items take together.
Entries(items) ==
  Cardinality({e \in (DOMAIN items) \X (1 .. EntryCount) : e[2] <= Span(items[e[1]])})

ErasedPage ==
  [st |-> "uninit", seq |-> 0, items |-> <<>>, used |-> 0, next |-> 0, live |-> FALSE]

StateOf(p) == flash[p].st
Items(p)   == flash[p].items
Unused(p)  == EntryCount - flash[p].used
NextFree(p) == flash[p].next

\* Page::getVarDataTailroom: room for the data of one chunk.

Tailroom(p) ==
  CASE StateOf(p) = "uninit" -> EntryCount - 1
    [] StateOf(p) = "full"   -> 0
    [] OTHER -> IF NextFree(p) < EntryCount - 1 THEN EntryCount - NextFree(p) - 1 ELSE 0

\* A place is a page and a position; lookups go through the pages in order.
Places   == UNION {{<<p, i>> : i \in DOMAIN Items(p)} : p \in Page}
At(a)    == flash[a[1]].items[a[2]]
Before(a, b) ==
  \/ flash[a[1]].seq < flash[b[1]].seq
  \/ a[1] = b[1] /\ a[2] < b[2]
Earliest(S) == CHOOSE a \in S : \A b \in S \ {a} : Before(a, b)
Latest(S)  == CHOOSE a \in S : \A b \in S \ {a} : Before(b, a)

\* findItem for a blob index of any version, of one version, for one chunk.
Indexes(k)      == {a \in Places : At(a).kind = "index" /\ At(a).key = k}
IndexOf(k, v)   == {a \in Indexes(k) : At(a).ver = v}
Chunks(k)       == {a \in Places : At(a).kind = "data" /\ At(a).key = k}
ChunksOf(k, v, i) ==
  {a \in Places : At(a).kind = "data" /\ At(a).key = k /\ At(a).ver = v /\ At(a).index = i}

Erase(a) ==
  flash' = [flash EXCEPT ![a[1]].items = RemoveAt(@, a[2]), ![a[1]].used = @ - Span(At(a)),
                         ![a[1]].live = @ /\ a[2] # Len(Items(a[1]))]

\* Page::writeItem on the current page; a fresh page gets its header first.
Put(item) ==
  flash' = [flash EXCEPT ![cur] =
              [st |-> "active",
               seq |-> IF StateOf(cur) = "uninit" THEN nextSeq - 1 ELSE @.seq,
               items |-> Append(@.items, item),
               used |-> @.used + Span(item), next |-> @.next + Span(item), live |-> TRUE]]

-----------------------------------------------------------------------------
(* What a stored blob reads as.                                            *)

\* The data of chunk i of the version of index x.
Part(x, i) ==
  LET hits == ChunksOf(x.key, x.ver, i) IN IF hits = {} THEN <<>> ELSE At(Earliest(hits)).data

\* The blob of the index at a: are all chunks there, and what the first i of
\* them hold together.
Blob[a \in Places] ==
  LET x == At(a)
      upto[i \in 0 .. x.count] == IF i = 0 THEN <<>> ELSE upto[i - 1] \o Part(x, i - 1)
  IN  [whole |-> \A i \in 0 .. x.count - 1 : ChunksOf(x.key, x.ver, i) # {},
       upto |-> upto, data |-> upto[x.count], size |-> x.size]

\* readMultiPageBlob fails when a chunk is missing or the sizes do not add up,
\* and erases the blob when a chunk is missing or too long.
Intact(b) == b.whole /\ Len(b.data) = b.size
Purged(b) == ~b.whole \/ Len(b.data) > b.size

\* cmpMultiPageBlob. The checksum of every chunk is compared with that of the
\* beginning of the new data, whatever the offset of the chunk is.
Same(b, val) ==
  /\ b.size = Len(val) /\ Intact(b)
  /\ \A i \in DOMAIN b.upto \ {0} :
       LET start == Len(b.upto[i - 1])
           part  == SubSeq(b.data, start + 1, Len(b.upto[i]))
       IN  /\ SubSeq(val, 1, Len(part)) = part
           /\ SubSeq(val, start + 1, start + Len(part)) = part

\* What a key holds, on flash alone: the blob of the newest index, if whole.
Content ==
  [k \in Keys |->
     IF Indexes(k) = {} THEN None
     ELSE LET b == Blob[Latest(Indexes(k))] IN IF Intact(b) THEN b.data ELSE None]

-----------------------------------------------------------------------------
(* Mounting: PageManager::load, then Storage::init.                        *)

NoLocals == [ver |-> 0, off |-> 0, pages |-> <<>>, prev |-> -1, tail |-> -1, count |-> 0, i |-> 0]

PowerOn ==
  /\ pc = "off"
  /\ pc' = "load"
  /\ UNCHANGED <<flash, ram>>

\* mLoadEntryTable on an active page: an item that one with the same key and
\* chunk index follows (an index of either version has the same) is erased.
Twin(x, y) ==
  /\ x.key = y.key /\ x.kind = y.kind
  /\ x.kind = "data" => x.ver = y.ver /\ x.index = y.index
Shadowed ==
  {a \in Places : StateOf(a[1]) = "active" /\
     \E b \in Places : b[1] = a[1] /\ b[2] > a[2] /\ Twin(At(a), At(b))}

RepairPage ==
  /\ pc = "load" /\ Shadowed # {}
  /\ \E a \in Shadowed : Erase(a)
  /\ UNCHANGED <<pc, ram>>

\* Then the last item, if it is live, is looked for once more, by its key and kind
\* alone: what is found before it is erased. For a chunk that is the first chunk of
\* its key on the page, whatever its version and number.
FoundAgain ==
  {a \in Places : /\ StateOf(a[1]) = "active" /\ flash[a[1]].live
                  /\ LET last == At(<<a[1], Len(Items(a[1]))>>)
                     IN  At(a).key = last.key /\ At(a).kind = last.kind
                  /\ a[2] < Len(Items(a[1]))}

CheckLast ==
  /\ pc = "load" /\ Shadowed = {}
  /\ IF FoundAgain = {} THEN UNCHANGED flash ELSE Erase(Earliest(FoundAgain))
  /\ pc' = "list"
  /\ UNCHANGED ram

InUse == {p \in Page : StateOf(p) # "uninit"}
BySeq(S) == CHOOSE p \in S : \A q \in S : flash[q].seq <= flash[p].seq
Blank == {p \in Page : StateOf(p) = "uninit"}
\* The blank pages in order.
Freed ==
  {q \in [1 .. Cardinality(Blank) -> Blank] : \A i, j \in DOMAIN q : i < j => q[i] < q[j]}

Load ==
  /\ pc = "list"
  /\ \E freed \in Freed :
       IF InUse = {}
       THEN \* activatePage
            /\ cur' = Head(freed) /\ free' = Tail(freed) /\ nextSeq' = 1 /\ pc' = "match"
       ELSE /\ cur' = BySeq(InUse) /\ free' = freed
            /\ nextSeq' = flash[BySeq(InUse)].seq + 1
            /\ pc' = "dup"
  /\ UNCHANGED <<flash, gc, op, loc, res, gaveUp>>

\* A duplicate of the item written last, on an earlier page.

\* Wrong on purpose: looks for the index of the same version only.
Superseded_SameVersion ==
  LET last == At(<<cur, Len(Items(cur))>>)
  IN  IF Items(cur) = <<>> THEN {}
      ELSE {a \in Places : /\ a[1] # cur /\ StateOf(a[1]) # "freeing"
                           /\ Twin(At(a), last) /\ At(a).ver = last.ver}

Superseded ==
  LET last == At(<<cur, Len(Items(cur))>>)
  IN  IF Items(cur) = <<>> THEN {}
      ELSE {a \in Places : a[1] # cur /\ StateOf(a[1]) # "freeing" /\ Twin(At(a), last)}

DropDuplicate ==
  /\ pc = "dup"
  /\ IF Superseded = {} THEN UNCHANGED flash ELSE Erase(Earliest(Superseded))
  /\ pc' = "recover"
  /\ UNCHANGED ram

\* An interrupted page move is done again; an empty free list fails the mount.
Freeing == {p \in Page : StateOf(p) = "freeing"}

Recover ==
  /\ pc = "recover" /\ Freeing # {}
  /\ gc' = CHOOSE p \in Freeing : TRUE
  /\ IF StateOf(cur) = "active"
       THEN flash' = [flash EXCEPT ![cur] = ErasedPage] /\ free' = Append(free, cur)
       ELSE UNCHANGED <<flash, free>>
  /\ pc' = "copy"
  /\ UNCHANGED <<cur, nextSeq, op, loc, res, gaveUp>>

NothingToRecover ==
  /\ pc = "recover" /\ Freeing = {}
  /\ pc' = IF free = <<>> THEN "failed" ELSE "match"
  /\ UNCHANGED <<flash, ram>>

\* populateBlobIndices and eraseMismatchedBlobIndexes: what is found of the
\* chunks of an index, by key and version, must be what the index says.
Observed(x) == {a \in Chunks(x.key) : At(a).ver = x.ver}
SizeOf(S) == Cardinality({e \in S \X (1 .. EntryCount) : e[2] <= Len(At(e[1]).data)})

Mismatched ==
  {a \in Places : /\ At(a).kind = "index"
                  /\ \/ SizeOf(Observed(At(a))) # At(a).size
                     \/ Cardinality(Observed(At(a))) # At(a).count}

EraseMismatched ==
  /\ pc = "match"
  /\ IF Mismatched = {} THEN pc' = "orphan" /\ UNCHANGED flash
     ELSE LET x == At(Earliest(Mismatched))
          IN  Erase(Earliest(IndexOf(x.key, x.ver))) /\ UNCHANGED pc
  /\ UNCHANGED ram

\* eraseOrphanDataBlobs: chunks that belong to no index.

Orphans ==
  {a \in Places : /\ At(a).kind = "data"
                  /\ \A b \in IndexOf(At(a).key, At(a).ver) : At(a).index >= At(b).count}

\* A key has one index, every chunk is counted by it and there once, and every
\* chunk it counts is there.
Clean ==
  \A k \in Keys :
    /\ \A a, b \in Indexes(k) : a = b
    /\ \A a, b \in Chunks(k) : At(a).ver = At(b).ver /\ At(a).index = At(b).index => a = b
    /\ \A a \in Chunks(k) : \E b \in IndexOf(k, At(a).ver) : At(a).index < At(b).count
    /\ \A a \in Indexes(k) : Intact(Blob[a])

EraseOrphans ==
  /\ pc = "orphan"
  /\ IF Orphans = {} THEN pc' = "idle" /\ gaveUp' = (gaveUp /\ ~Clean) /\ UNCHANGED flash
     ELSE Erase(Earliest(Orphans)) /\ UNCHANGED <<pc, gaveUp>>
  /\ UNCHANGED <<cur, free, nextSeq, gc, op, loc, res>>

-----------------------------------------------------------------------------
(* Calls.                                                                  *)

ReadRequest(k) == Request("read", k, None, NsOf[k])

Return(result) ==
  /\ op' = NoRequest
  /\ loc' = NoLocals
  /\ res' = result
  /\ pc' = "idle"
  /\ UNCHANGED <<flash, cur, free, nextSeq, gc, gaveUp>>

\* A read of an intact blob changes nothing; one that finds a chunk missing
\* or too long erases the blob.
BeginCall ==
  /\ pc = "idle" /\ nextSeq <= MaxSeq
  /\ \/ op' \in Requests /\ pc' = "find"
     \/ \E k \in Keys :
          /\ Indexes(k) # {} /\ Purged(Blob[Earliest(Indexes(k))])
          /\ op' = ReadRequest(k) /\ pc' = "purge"
  /\ res' = "none"
  /\ UNCHANGED <<flash, cur, free, nextSeq, gc, loc, gaveUp>>

\* writeItem: the old blob is looked up, compared, and its version decides the
\* version of the new one.
Existing == Indexes(op.key)

WriteNothing ==
  /\ pc = "find" /\ op.kind = "write"
  /\ Existing # {} /\ Same(Blob[Earliest(Existing)], op.val)
  /\ Return("ok")

\* Wrong on purpose: always the same version.
NextVersion_Same(v) == v

NextVersion(v) == 1 - v

WriteFind ==
  /\ pc = "find" /\ op.kind = "write"
  /\ Existing # {} => ~Same(Blob[Earliest(Existing)], op.val)
  /\ IF Len(op.val) > (PageCount - 1) * (EntryCount - 1)
       THEN Return("no_space")    \* ESP_ERR_NVS_VALUE_TOO_LONG
       ELSE /\ loc' = IF Existing = {} THEN NoLocals
                      ELSE LET v == At(Earliest(Existing)).ver
                           IN  [NoLocals EXCEPT !.ver = NextVersion(v), !.prev = v]
            /\ pc' = "chunk"
            /\ UNCHANGED <<flash, cur, free, nextSeq, gc, op, res, gaveUp>>

-----------------------------------------------------------------------------
(* writeMultiPageBlob.                                                     *)

Rest  == Len(op.val) - loc.off
Count == Len(loc.pages)

\* The first chunk goes to a new page when there is little room on this one.
TooSmall ==
  /\ Count = 0
  /\ Tailroom(cur) < Len(op.val) \/ (Tailroom(cur) = 0 /\ Len(op.val) = 0)
  /\ Tailroom(cur) < SmallTail
NoGain == Count = 0 /\ Tailroom(cur) = loc.tail

SkipPage ==
  /\ pc = "chunk" /\ TooSmall /\ ~NoGain
  /\ loc' = [loc EXCEPT !.tail = Tailroom(cur)]
  /\ pc' = "close"
  /\ UNCHANGED <<flash, cur, free, nextSeq, gc, op, res, gaveUp>>

NoImprovement ==
  /\ pc = "chunk" /\ NoGain
  /\ Return("no_space")

GiveUp ==
  /\ pc' = "cleanup"
  /\ gaveUp' = TRUE
  /\ UNCHANGED <<flash, cur, free, nextSeq, gc, op, loc, res>>

\* No room in the middle of a blob: the chunks written so far are erased.
NoRoom ==
  /\ pc = "chunk" /\ ~TooSmall /\ ~NoGain
  /\ Tailroom(cur) = 0 /\ (Count = 0 \/ Rest > 0)
  /\ GiveUp

Piece == SubSeq(op.val, loc.off + 1, loc.off + (IF Rest > Tailroom(cur) THEN Tailroom(cur) ELSE Rest))

WriteChunk ==
  /\ pc = "chunk" /\ ~TooSmall /\ ~NoGain
  /\ Tailroom(cur) > 0 /\ (Count = 0 \/ Rest > 0)
  /\ Put(Chunk(op.key, loc.ver, Count, Piece))
  /\ loc' = [loc EXCEPT !.off = @ + Len(Piece), !.pages = Append(@, cur)]
  /\ pc' = IF Rest > Len(Piece) \/ Tailroom(cur) = Len(Piece) THEN "close" ELSE "chunk"
  /\ UNCHANGED <<cur, free, nextSeq, gc, op, res, gaveUp>>

ClosePage ==
  /\ pc = "close"
  /\ flash' = IF StateOf(cur) = "full" THEN flash ELSE [flash EXCEPT ![cur].st = "full"]
  /\ pc' = "new_page"
  /\ UNCHANGED ram

\* requestNewPage, in the steps of NvsStorage; the copy is one step here.
Activate ==
  /\ cur' = Head(free)
  /\ free' = Tail(free)
  /\ nextSeq' = nextSeq + 1

TakeFreePage ==
  /\ pc = "new_page" /\ Len(free) >= 2
  /\ Activate
  /\ pc' = "chunk"
  /\ UNCHANGED <<flash, gc, op, loc, res, gaveUp>>

Victim ==
  LET most == {p \in InUse : \A q \in InUse : Unused(q) <= Unused(p)}
  IN  CHOOSE p \in most : \A q \in most : flash[p].seq <= flash[q].seq

StartFreeing ==
  /\ pc = "new_page" /\ Len(free) = 1 /\ Unused(Victim) > 0
  /\ flash' = [flash EXCEPT ![Victim].st = "freeing"]
  /\ gc' = Victim
  /\ pc' = "copy"
  /\ UNCHANGED <<cur, free, nextSeq, op, loc, res, gaveUp>>

NoNewPage ==
  /\ pc = "new_page" /\ Len(free) = 1 /\ Unused(Victim) = 0
  /\ GiveUp

\* The page a move fills: the live items, packed, or none at all.
CopyOf(items, seq) ==
  IF items = <<>> THEN ErasedPage
  ELSE [st |-> "active", seq |-> seq, items |-> items,
        used |-> Entries(items), next |-> Entries(items), live |-> TRUE]

Copy ==
  /\ pc = "copy" /\ free # <<>>
  /\ Activate
  /\ flash' = [flash EXCEPT ![Head(free)] = CopyOf(Items(gc), nextSeq)]
  /\ pc' = "reclaim"
  /\ UNCHANGED <<gc, op, loc, res, gaveUp>>

Reclaim ==
  /\ pc = "reclaim"
  /\ flash' = [flash EXCEPT ![gc] = ErasedPage]
  /\ free' = Append(free, gc)
  /\ gc' = 0
  /\ pc' = IF op = NoRequest THEN "match" ELSE "chunk"
  /\ UNCHANGED <<cur, nextSeq, op, loc, res, gaveUp>>

\* The index is written last: from here on the new blob is the blob.
WriteIndex ==
  /\ pc = "chunk" /\ Count > 0 /\ Rest = 0
  /\ Put(Index(op.key, loc.ver, Count, Len(op.val)))
  /\ pc' = IF loc.prev = -1 THEN "return" ELSE "old_index"
  /\ UNCHANGED ram

\* A failed write erases its chunks, each on the page it was written to; the
\* index it asks for has no version offset.
CleanUp ==
  /\ pc = "cleanup" /\ loc.i < Count
  /\ LET hits == {a \in ChunksOf(op.key, 0, loc.i) : a[1] = loc.pages[loc.i + 1]}
     IN  IF hits = {} THEN UNCHANGED flash ELSE Erase(Earliest(hits))
  /\ loc' = [loc EXCEPT !.i = @ + 1]
  /\ UNCHANGED <<pc, cur, free, nextSeq, gc, op, res, gaveUp>>

CleanedUp ==
  /\ pc = "cleanup" /\ loc.i = Count
  /\ Return("no_space")

-----------------------------------------------------------------------------
(* eraseMultiPageBlob for one version: the old blob after a write, or the  *)
(* blob of nvs_erase_key. The index first, then the chunks it counts.      *)

EraseFind ==
  /\ pc = "find" /\ op.kind = "erase" /\ Existing # {}
  /\ loc' = [loc EXCEPT !.prev = At(Earliest(Existing)).ver]
  /\ pc' = "old_index"
  /\ UNCHANGED <<flash, cur, free, nextSeq, gc, op, res, gaveUp>>

EraseMissing ==
  /\ pc = "find" /\ op.kind = "erase" /\ Existing = {}
  /\ Return("not_found")

EraseOldIndex ==
  /\ pc = "old_index"
  /\ IF IndexOf(op.key, loc.prev) = {} THEN Return("not_found")
     ELSE LET a == Earliest(IndexOf(op.key, loc.prev))
          IN  /\ Erase(a)
              /\ loc' = [loc EXCEPT !.count = At(a).count, !.i = 0]
              /\ pc' = "old_chunks"
              /\ UNCHANGED <<cur, free, nextSeq, gc, op, res, gaveUp>>

OldChunk == ChunksOf(op.key, loc.prev, loc.i)

EraseOldChunk ==
  /\ pc = "old_chunks" /\ loc.i < loc.count
  /\ IF OldChunk = {} THEN Return("not_found")
     ELSE /\ Erase(Earliest(OldChunk))
          /\ loc' = [loc EXCEPT !.i = @ + 1]
          /\ UNCHANGED <<pc, cur, free, nextSeq, gc, op, res, gaveUp>>

Finish ==
  /\ \/ pc = "return"
     \/ pc = "old_chunks" /\ loc.i = loc.count
  /\ Return("ok")

\* eraseNamespace: page by page, item by item, indexes and chunks alike.
InNamespace == {a \in Places : NsOf[At(a).key] = op.ns}

\* Wrong on purpose: does not erase chunks, and finds the same one for ever.
EraseAll_IndexesOnly ==
  /\ pc = "find" /\ op.kind = "erase_all"
  /\ IF InNamespace = {} THEN Return("ok")
     ELSE LET a == Earliest(InNamespace)
          IN  IF At(a).kind = "index" THEN Erase(a) /\ UNCHANGED <<pc, ram>> ELSE UNCHANGED vars

EraseAll ==
  /\ pc = "find" /\ op.kind = "erase_all"
  /\ IF InNamespace = {} THEN Return("ok")
     ELSE Erase(Earliest(InNamespace)) /\ UNCHANGED <<pc, ram>>

\* eraseMultiPageBlob for any version, called by a read that found damage: up
\* to two indexes, then every chunk of the key.
Purge ==
  /\ pc = "purge"
  /\ IF loc.i < 2 /\ Indexes(op.key) # {}
       THEN /\ Erase(Earliest(Indexes(op.key)))
            /\ loc' = [loc EXCEPT !.i = @ + 1]
            /\ UNCHANGED <<pc, cur, free, nextSeq, gc, op, res, gaveUp>>
     ELSE IF Chunks(op.key) # {}
       THEN Erase(Earliest(Chunks(op.key))) /\ UNCHANGED <<pc, ram>>
     ELSE Return("error")

-----------------------------------------------------------------------------
(* Power loss, at any moment. An item being written may have used entries, *)
(* a page being copied may hold some of the items.                         *)

\* Entries of the item that is being written, 0 when none is.
Pending ==
  CASE pc = "chunk" /\ Count > 0 /\ Rest = 0 -> 1
    [] /\ pc = "chunk" /\ (Count = 0 \/ Rest > 0)
       /\ ~TooSmall /\ ~NoGain /\ Tailroom(cur) > 0 -> 1 + Len(Piece)
    [] OTHER -> 0

Torn ==
  \/ UNCHANGED flash
  \/ /\ Pending > 0
     /\ \E n \in {0, Pending} :
          flash' = [flash EXCEPT ![cur] =
                      [st |-> "active",
                       seq |-> IF StateOf(cur) = "uninit" THEN nextSeq - 1 ELSE @.seq,
                       items |-> @.items, used |-> @.used, next |-> @.next + n,
                       live |-> @.live /\ n = 0]]
  \/ /\ pc = "copy" /\ free # <<>>
     /\ \E n \in 1 .. Len(Items(gc)) :
          flash' = [flash EXCEPT ![Head(free)] = CopyOf(SubSeq(Items(gc), 1, n), nextSeq)]

PowerLoss ==
  /\ pc # "off" /\ nextSeq <= MaxSeq
  /\ Torn
  /\ pc' = "off"
  /\ cur' = 0 /\ free' = <<>> /\ nextSeq' = 0 /\ gc' = 0
  /\ op' = NoRequest /\ loc' = NoLocals /\ res' = "none"
  /\ UNCHANGED gaveUp

Init ==
  /\ flash = [p \in Page |-> ErasedPage]
  /\ pc = "off"
  /\ cur = 0 /\ free = <<>> /\ nextSeq = 0 /\ gc = 0
  /\ op = NoRequest /\ loc = NoLocals /\ res = "none"
  /\ gaveUp = FALSE

Mounting ==
  \/ PowerOn \/ RepairPage \/ CheckLast \/ Load \/ DropDuplicate \/ Recover \/ NothingToRecover
  \/ EraseMismatched \/ EraseOrphans

Moving == TakeFreePage \/ StartFreeing \/ NoNewPage \/ Copy \/ Reclaim

Writing ==
  \/ WriteNothing \/ WriteFind \/ SkipPage \/ NoImprovement \/ NoRoom \/ WriteChunk
  \/ ClosePage \/ WriteIndex \/ CleanUp \/ CleanedUp

Erasing ==
  \/ EraseFind \/ EraseMissing \/ EraseOldIndex \/ EraseOldChunk \/ Finish \/ EraseAll
  \/ Purge

Step == Mounting \/ Moving \/ Writing \/ Erasing

Next == Step \/ BeginCall \/ PowerLoss

Spec == Init /\ [][Next]_vars

\* The library runs to completion once called; nothing but a power loss stops it.
FairSpec == Spec /\ WF_vars(Step)

-----------------------------------------------------------------------------
(* Properties.                                                             *)

\* The blobs are a key store too, as long as no write had to be given up in the
\* middle: a write or an erase takes effect in one step (the write of the new
\* index, the erase of the index), and a blob is never part old and part new, also
\* when it lies on several pages. A power loss leaves the one or the other, with one
\* exception (nvs_page.cpp:734-747): a mount may forget a blob altogether, if the last
\* item of the active page is a live chunk of its key and not the first one there.
\* (Unlike a scalar, a blob may be refused although it is there already.)
Abstract == INSTANCE KeyStore
  WITH store <- Content, op <- IF op.kind = "read" THEN NoRequest ELSE op
Refused == res' = "no_space" /\ UNCHANGED Content
Forgotten ==
  /\ CheckLast
  /\ \E a \in FoundAgain : At(a).kind = "data" /\ Content' = [Content EXCEPT ![At(a).key] = None]
ImplementsKeyStore ==
  Abstract!Init /\ [][Abstract!Next \/ Refused \/ Forgotten \/ gaveUp']_<<Content, op, res>>

\* Between calls every chunk on flash is counted by exactly one index and every
\* index has exactly the chunks it counts, unless a write was given up in the
\* middle and no mount has cleaned up after it. No page is ever overfilled.
CleanWhenIdle ==
  /\ pc = "idle" /\ ~gaveUp => Clean
  /\ \A p \in Page : NextFree(p) <= EntryCount

\* If the power stays on, the library comes up and finishes every call.
Settles == <>[][~PowerLoss]_vars => []<>(pc = "idle")

\* Loading a page loses no blob: it "repairs the effects of a power loss. It erases a
\* duplicate of the last written item" (docs/RESEARCH.md:55; nvs_page.cpp:733, "check
\* that last item is not duplicate").
RepairKeepsBlobs == [][ pc = "load" /\ ~gaveUp => Content' = Content ]_vars

\* The same, of pages on which nothing is to be repaired.
CleanMountKeepsBlobs == [][ pc = "load" /\ Clean => Content' = Content ]_vars

\* A mount leaves no index without its chunks and no chunk without its index
\* (nvs_storage.cpp:84, "Check BLOB_DATA entries belonging to BLOB_INDEX entries
\* for mismatched records"; the chunks of a deleted index are "left as orphans and
\* removed later").
MountCleansUp == [][ pc = "orphan" /\ pc' = "idle" => Clean ]_vars

\* A write that is refused in the middle (nvs_storage.cpp:368, "Anything failed,
\* then we should erase all the written chunks") does not touch what was there.
FailedWriteKeepsOld == [][ pc = "cleanup" => Content' = Content ]_vars

\* A write that returned ESP_OK (nvs.h:332, "if value was set successfully")
\* is what a read returns.
WrittenIsRead ==
  [][ op.kind = "write" /\ op' = NoRequest /\ res' = "ok" => Content'[op.key] = op.val ]_vars

\* Writing what is there already writes nothing (nvs_storage.cpp:476, "it is
\* cheaper to purposefully not write out new data").
SameBlobNotRewritten ==
  [][ op.kind = "write" /\ pc = "find" /\ Content[op.key] = op.val => pc' \in {"idle", "off"} ]_vars
=============================================================================
