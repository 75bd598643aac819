# NVS Manager in TLA+

NVS Manager is a firmware for the M5Stack Cardputer that shows, edits, backs up
and restores the NVS (Non-Volatile Storage) partition of an ESP32. Two things in
it are hard to get right and hard to test. One is the NVS library it carries
(`lib/esp-idf-nvs`), which has to survive a power loss between any two flash
writes. The other is the manager's own promise that nothing is changed unless
the user asked for it, that what it reports is so, and that what a restore
replaces can be brought back. The modules here model the code as it is, not as
the documents describe it.

- [1. The system](#1-the-system)
- [2. The modules](#2-the-modules)
- [3. What the runs check](#3-what-the-runs-check)
- [4. What is proved](#4-what-is-proved)
- [5. Where the code and its documents disagree](#5-where-the-code-and-its-documents-disagree)
- [6. What is not modelled](#6-what-is-not-modelled)
- [7. Plan](#7-plan)

## 1. The system

    keyboard -> platform -> UiController -> screens -> Actions (+ Policy)
                                                          |
                     NvsModel  <-----------------  Export / Restore -> SD card
                     |      |                             |
               NvsReader  NvsWriter (+ NvsRestore) -------+
                     |      |
               nvs_api -> handles -> Storage -> PageManager -> Page -> flash
                     ^
               NvsBootGuard (wraps nvs_flash_init and the full erase)

| Component | State | Operations | Properties that make it correct |
|---|---|---|---|
| Page, PageManager | state, sequence number and entry table of every page; list of used pages, list of free pages, next sequence number | load, activatePage, requestNewPage, writeItem, eraseItem, copyItems, the repairs of `mLoadEntryTable` | always mounts again; one page stays free; every repair ends |
| Storage, items | the index of namespaces, otherwise what the pages hold | writeItem, eraseItem, findItem, eraseNamespace | acts like a map from keys to values; a call takes effect once or not at all, also across a power loss |
| Storage, blobs | chunks and an index item per blob, two versions | writeMultiPageBlob, readMultiPageBlob, cmpMultiPageBlob, eraseMultiPageBlob, the two clean-ups at mount | a blob is the old or the new one, never a mixture, and lost only by the repair of section 5; nothing is left behind |
| Storage, namespaces; iterator | namespace table, indexes in use | createOrOpenNamespace, nextEntry | one name per index and one index per name; entries that lost their name stay out of reach; the listing is complete |
| Handles, partition manager | open handles, open partitions | open, close, init, deinit | a handle means the namespace it was opened for; none survives its partition |
| Backups (`app/Export`) | files on the card | rawBackup, the JSON exports | a file is complete or told apart from a complete one; nothing is overwritten |
| Restore (`app/Restore`, `NvsRestore`) | the checked image | list, check, safety backup, write, verify, reopen | what is replaced is saved; what is written is what was checked |
| Verified changes (`NvsWriter`, `NvsModel`) | the snapshot the screens show | eraseKey, eraseNamespace, setValue, refresh | no namespace created by accident; what is reported done is done; nothing else changes; the snapshot is what is on flash |
| Boot guard | first init result, blocked erases | wraps init and erase | the core's full erase never happens, page moves still work, the report is the truth |
| User interface | stack of screens, pending pushes and pops, Advanced mode, held key | handleKey, update, confirm | no change without its confirmation; SYSTEM only in Advanced mode; it locks by itself |
| Lists and input | filter, selection, scroll position of two lists; edited text | key translation, search, move, draw; parse | a command acts on the name that is marked; a number is what its text spells |
| Platform | key queue, card, log | pollKey, isHeld, storage*, logf | keys are not confused with a held key |

The program has one thread. The library takes one lock around every call, so at
most one call runs. What interrupts a sequence of steps is the power, a failing
or swapped card, a worn flash sector and, in the user interface, time and keys
that arrive between two steps of the main loop. `PROJECT.json` lists each hazard
with the line where it bites and the property that would catch it.

## 2. The modules

| Module | Models |
|---|---|
| `NvsRequests` | keys, values, namespaces and the three mutating calls, shared by the next three |
| `KeyStore` | what the library promises: a map from keys to values |
| `NvsStorage` | the library for items of one or two entries: mount, repair, write, erase, garbage collection, one flash write per step, power loss anywhere |
| `NvsBlob` | blobs of several chunks on several pages, one item per step, power loss anywhere |
| `NvsNamespaces` | the namespace table, handles, init and deinit, one library call per step |
| `NvsChange` | the application's changes on top of `NvsNamespaces`: probe, change, read back, refresh |
| `BootGuard` | the start of the device: the Arduino core, the guard, the first mounts |
| `BackupRestore` | raw backups, restoring, the card and the partition as a whole |
| `UiControl` | the main loop, the keyboards, the screens, the policy and the confirmations |
| `ListScreens` | the two lists: keys, search, selection, scrolling, drawing |
| `EditValue` | the screen that edits one value: text, numbers and their widths |
| `MC...` | small instances of the above |
| `NvsStorageProofs`, `NvsBlobProofs`, `BootGuardProofs`, `BackupRestoreProofs`, `UiControlProofs`, `ListScreensProofs`, `EditValueProofs` | theorems about the module in the name |
| `NvsChangeProofs` | theorems about `NvsNamespaces` and, from them, about `NvsChange` |

The library is modelled three times because three questions are asked of it, at
three grains. `NvsStorage` steps by flash writes and shows that one item is
written, replaced and moved atomically. `NvsBlob` takes that for granted, steps
by items and shows the same of blobs, which are many items. `NvsNamespaces` takes
both for granted and steps by calls. `KeyStore` is the abstract specification of
the first two. They share `NvsRequests`, so that each refinement only has to say
what the map is in terms of its flash (`Content`). `NvsChange` EXTENDS
`NvsNamespaces`: every step of the application is a call of the library, which
`ChangesUseTheLibrary` proves.

### NvsStorage

`flash` is what stays when the power goes: for every page its state, its
sequence number and its entries, each with its state in the entry table and its
data. All other variables are members of the C++ objects and are lost:
`listed` and `free` are `mPageList` and `mFreePageList`, `nextSeq` is
`mSeqNumber`, `old` is the `findPage`/`matchedTypePageFound` bookkeeping
of `Storage::writeItem`. `pc` says which step a call takes next; one step is
one flash write (or none), because that is what a power loss can separate.

- *Mount.* `PowerOn`, then per page `RepairPage` (one write of the entry table
  at a time) and `AcceptPage` (it goes on a list); `MountBlank`,
  `DropDuplicate` (the last written item may still have its predecessor on
  another page), `DiscardCopy` (an interrupted move: throw the copy away) and
  then the same steps as a move.
- *Move of a page.* `StartFreeing`, `ActivateTarget`, `CopyHeader`,
  `CopyEntry`, `CopyDone`, `Reclaim`.
- *Write.* `WriteNothing` (same value already stored), `WriteFind`, `PutHeader`,
  `PutEntry`, `PutEntryState`, `PutData`, `PutDataState`; when the page is full
  `ClosePage`, then `TakeFreePage` or a move; `DropOld` erases the predecessor.
- *Erase.* `EraseFind`, `DropOld`; `EraseAllStep` for a namespace.
- *Power loss.* Any step; the page whose header or erase was under way may be
  left torn.

Abstractions. Entry data is a record that says which key, which value and which
part of the item the entry holds; a data entry does not carry its own CRC
because a torn data entry is never marked written. An item spans one entry (a
scalar) or two (a short string): two is the smallest length at which an item can
be half written, which is all the code distinguishes. `TypeOf` and `Hash` are
parameters, so that instances decide whether a call changes a key's type and
whether two keys collide in the 24 bits `HashList` compares. Flash operations do
not fail except by power loss. Sequence numbers are naturals: 32 bits at one
increment per page move outlast the flash.

### NvsBlob

`flash` holds, per page, its live items in order, the entries they have used, and
whether the last entry used belongs to a live item (`live`), for `CheckLast` only
looks if it does.
A blob is an `Index` item that counts its `Chunk` items, all in one of two
versions. `loc` are the locals of the running call: the version, the offset, the
pages the chunks went to (`usedPages`), the predecessor's version.

- *Mount.* `PowerOn`; the repairs of the active page, `RepairPage` (duplicates of
  one version and number) and `CheckLast` (the last item is looked for once more,
  a chunk by its key alone); `Load`, `DropDuplicate`, `Recover` and the steps of a
  move, then `EraseMismatched` (indexes that do not fit their chunks)
  and `EraseOrphans` (chunks no index counts).
- *Write.* `WriteNothing`, `WriteFind`, then `WriteChunk` with `ClosePage` and the
  steps of a move between chunks, `SkipPage` when too little room is left for a
  first chunk, `NoImprovement` and `NoRoom` when it has to give up, `CleanUp` and
  `CleanedUp` after that; `WriteIndex` last, then the predecessor.
- *Erase and read.* `EraseFind`, `EraseOldIndex`, `EraseOldChunk`; a read that
  meets damage erases the blob (`Purge`); `EraseAll` for a namespace.

Abstractions. A value is a sequence of units of one entry each, so a chunk of
*n* units takes *n* + 1 entries. `SmallTail` is `CHUNK_MAX_SIZE / 10`. A page
move copies in one step (it is done again when interrupted, which `NvsStorage`
shows), but a power loss leaves any part of the copy. `gaveUp` is auxiliary: a
write was given up in the middle, and no mount since has left the blobs clean;
until then the code promises less (section 5).

### NvsNamespaces and NvsChange

`items` are the live items on flash, as a set: where the code takes the first
that a page order gives, the model takes any. `table` and `usage` are
`mNamespaces` and `mNamespaceUsage`, `entries` the handles that `nvs_api.cpp`
keeps, `storage` the `Storage` object registered (its number, 0 for none), so
that a handle of an object that is gone is told from one of its successor.

- *Partition.* `InitPartition` reads the table and drops broken blobs,
  `DeinitPartition` closes the handles first, `ReplaceImage` and `PowerLoss` come
  from around.
- *Names.* `OpenExisting`, `OpenCreates`, `OpenOutOfMemory` (the name is on flash,
  the table entry is not), `OpenFails`, `Close`.
- *Calls.* `SetItem`, `EraseKey`, `EraseAll` with `EraseAllStep` item by item, each
  with the cases it refuses.

`NvsChange` adds the application: `pc` follows `requireNamespace`, the change, the
verification and `NvsModel::refresh`; `task` is what was asked, which may name a
namespace or key that is gone by then; `shown` is the snapshot. Before it starts,
`OtherFirmware` uses the library without any of the application's care, as the
firmware the user came from did. A restore is `BackupRestore`'s; here it
leaves one image or another (`WriteImage`), and its mount may fail.

Abstractions. Items take one or two entries of `Room`; the page order, and how a
page move makes room, are `NvsStorage`'s. Of a blob, the index, the first chunk
(`data`) and further ones (`more`) are told apart; a restored image holds fewer
further chunks of a blob than its index counts, because two versions of one blob
are `NvsBlob`'s subject. The listing (an iteration over all
entries, then counts) is one step, because the application changes nothing while
it lists.

### BootGuard

`flash` holds the pages of every NVS partition, a page as its state and the set
of entries on it. `linked` says which of the two calls the build wraps and
`first` which partition the core finds first when it looks for one to erase.

`CoreInit` and `CoreErase` are the start-up of the Arduino core (external: as
`docs/RESEARCH.md` quotes it), through the guard when that is linked; `AppInit`
is the application's own mount; `MoveBegins` and `MoveEnds` are a page move, whose
erase goes through the same guard; `Reset` may come at any point. A mount repairs
an interrupted move (`Repairs`: the page begun is erased, the entries are copied
anew, the freed page is erased) or answers with its result (`Loads`).

### BackupRestore

`flash` is the whole partition as an image, `bin` and `json` are the files
`nvs-NNNN.bin` and `nvs-NNNN.json`. `pc` follows one operation of the program;
each step is a file operation or a flash operation. `listed` and `check` are
what the list screen and the preview screen keep in RAM while the card may
change. `owed` and `adopted` are auxiliary: they remember the contents that
restores replaced and whether a backup without a recorded device was restored.

- *Backup.* `StartBackup`, `ReadPartition` (with `NextBase`), `WriteBin`,
  `ReadBackBin`, `WriteJson`, `BackupDone`; `ReadFails` and `CardFails`.
- *Restore.* `ListBackups`, `Preview` (all the checks of `checkBackup`),
  `Confirm`, the safety backup, `CloseNvs`, `EraseSector`, `WriteSector`,
  `CompareSector`, `OpenNvs`; `FlashFails`.
- *Surroundings.* Boot, remount, power loss, NVS changing through other means,
  and the user deleting or copying files with the card in a PC.

Abstractions. SHA-256 is injective, so a manifest holds the image its digest
was made from. A file write is atomic because `storageWrite` fills a temporary
file and renames it, but what is read later may be `Damaged`. A sector holds one
of a few contents: blank, a valid page of this device, a page with a torn header,
a page of another device. Opening the library (`Opened`) may erase a page or
move one, which is what `NvsStorage` shows it does.

### UiControl

`store` is what NVS holds, `stack` the stack of screens. A screen is a record:
its kind, the namespace and key it is about, the request of a confirmation, and
what it remembers of NVS: `shown` is the content it last read, `info` the value
its key had when its `KeyInfo` was taken. `pc` follows `app::loop`.

- *Keys.* On the desktop SDL's event watch runs beside the loop:
  `DesktopEnterDown` sets `g_enterHeld`, `DesktopEnterQueued` queues the event
  (or drops it when the queue is full), and the loop may run in between. On the
  device `DevicePoll` samples the keyboard; because Enter has precedence, any
  other key that moves while Enter is down gives one more Enter event. Which
  keyboard it is (`desktop`) is chosen once, so one run covers both.
- *Handling a key.* `HandleKey`: one operator per screen (`OnDashboard` to
  `OnHelp`), with the pops and pushes applied at its end.
- *Once per pass.* `Update`: the lock of Advanced mode, then the tick of the
  confirmation on top (`Arm`, `ReleaseHold`, `StartHold`, `KeepHolding`,
  `NoTick`); `Delay` lets time pass.
- *Confirming.* `Confirm` checks the permission again and runs the change.
  `Outcomes` lists what NVS may hold afterwards, a failing change included.

Abstractions. The cursor and the search text decide which listed item a key acts
on, so any listed item may be meant, and any key may be text: how that item is
chosen is the subject of `ListScreens`. A change of NVS is one step because the
loop does nothing else meanwhile; its inside is the subject of `NvsChange` and
`BackupRestore`. Reading NVS again (`R`) changes nothing here, because
what the screens hold is already current, which `ScreensAreCurrent` checks. That
NVS cannot be read is modelled on the dashboard only, where it hides the list.
`fresh` is auxiliary: Enter came after the last confirmation opened.

### ListScreens and EditValue

`ListScreens` has the two list screens on a stack above the dashboard: each with
what it `lists`, its `SearchField`, its `ListCursor` and the names it holds
(`items_`, `visible_`), sorted and filtered by `Listed`.
`translate` is `Input.cpp`; `SearchKey` to `RefreshKey` are the branches of
`handle`; `Render` scrolls and draws, and `drawn` is what the display then
shows. Several keys may be handled before one frame, as in the main loop. A command
(`CommandKey`) leaves for another screen, of which only matters what it comes
back with: NVS changed or not (`Return`).

`EditValue` is `EditValueScreen` for one value: `Open` makes the text
(`formatDecimal`, or the string cut to the field), `Type` and `Erase` edit it,
`Enter` parses it (`parseNumber`, `strtoull` with its overflow, the limit of the
type, the cast to its width), `Save` stores it. Two widths stand for the four:
the one of `unsigned long long`, where parsing itself overflows, and a narrower.

## 3. What the runs check

| Run | Instance | Checks |
|---|---|---|
| `three_pages` | 3 pages of 3 entries, 2 keys, a scalar and a string, `MaxSeq` 4 | `OneCopy`, `AlwaysMounts`, `ReservedPage`, `ImplementsKeyStore` |
| `two_pages` | 2 pages, `MaxSeq` 5, fairness | `TypeOK`, `ScalarFits`, `Settles` |
| `blobs` | 3 pages of 4 entries, one key, blobs of 0, 1 and 4 units, `SmallTail` 1, `MaxSeq` 5, fairness | `CleanWhenIdle`, `ImplementsKeyStore`, `Settles` |
| `blob_repair` | as `blobs` | `RepairKeepsBlobs` is violated |
| `blob_read_back` | as `blobs`, `MaxSeq` 6 | `WrittenIsRead` is violated |
| `changes` | 2 names, 2 keys, `MaxIndex` 3, `Room` 8, 6 handles (2 of other firmware's), 3 `Storage` objects, 3 images, fairness | `ChangeTypeOK`, `NamesAreSound`, `HandleMeansName`, `OnlyOwnKeys`, `OkMeansDone`, `ShownIsFlash`, `HandlesClosed`, `NeverCreates`, `OnlyTargetChanges`, `ChangesEnd` |
| `boot_guard` | 2 NVS partitions of 3 sectors, builds with either call wrapped and with both, 2 boots | `ReportIsTruth`, `MovesFinish`, `KeepsData` |
| `backups` | 2 sectors, 2 backup numbers, 4 contents of a sector | `RestoreUndoable`, `NoForeignPages`, `WrittenAsChecked`, `NeverOverwrites` |
| `undo` | as `backups`, card never in another device | `UndoneTheSameWay` is violated |
| `ui` | both keyboards, a key each in a SYSTEM, a LAUNCHER and an application's namespace, `MaxQueued` 2, `HoldTime` 2, `IdleLock` 3 | `TypeOK`, `NoScreenOfDeletedKey`, `ScreensAreCurrent`, `SystemNeedsAdvanced`, `ChangesAreConfirmed`, `LocksWhenIdle` |
| `list_screens` | 3 contents of up to 4 namespaces, windows of 3 and 2 rows, 8 key codes, searches of one letter | `ListTypeOK`, `ListsAreCurrent`, `SelectionIsDrawn`, `KeepsTheName`, `AsksForTheMarked` |
| `edit_numbers` | widths of 5 and 3 bits, texts of up to 4 of `-` `+` `0` `1` `F` `f` `x` | `AcceptsWhatItSpells`, `UntouchedNumberStays` |

Each property also has a mutant in `PROJECT.json`: a plausible bug in a mapped
definition (the `..._None`, `..._Always` and similar operators in the modules,
each preceded by "Wrong on purpose") that violates it in the same run.

### Why the bounds are enough

*NvsStorage.* Three pages are the smallest partition with an old page, a current
page and a reserved page at once, so an item and its predecessor can be on
different pages and the page with the most unused entries need not be the
oldest. Two pages are the smallest partition that works: every new page is a
move. Three entries hold a string and a scalar, or a string that does not fit
behind two scalars. Two keys are enough to tell the item being written from one
that only happens to be moved. `MaxSeq` bounds how many pages are ever
activated: after it no call begins and no power is lost, so a run ends, which is
also why `CHECK_DEADLOCK FALSE` is set. 4 and 5 allow a move, a power loss inside
it, the repeated move and another one inside that. The keys are symmetric in
`three_pages`.

*NvsBlob.* With pages of four entries a blob of four units needs two chunks,
on two pages, and its index may go to either. The two long values have the same
length, so a mixture of both would look whole. The empty blob is a chunk of one
entry: with its index and the first chunk of the next version it fills a page short
of one entry, and a power loss then leaves what `CheckLast` mistakes for a duplicate. The old and the new version of a
long blob do not fit together, so a write may have to be given up after its
first chunk, with and without a move before it. One key is enough: chunks of
different keys never meet in the code except when a page is full, and the
versions and lengths of one key fill pages as well.

*NvsChange.* Three indexes for two names and an orphan: a new namespace can take
the index of an orphan or be refused. `Room` 8 leaves one entry beside the largest
image, so calls are refused for lack of space, some in the middle of a change.
Other firmware opens two handles, enough for two namespaces, or for one in two
ways, and makes any number of calls with them. Three `Storage` objects are the
first, one after a restore or a power loss, and one after both. Six handles
are enough for two changes, or for one after other firmware (a change opens three
at most).

*BootGuard.* Three sectors are a full page, a page being freed and its copy. The
images are all the library can leave there, those of a move cut short included.
Two boots let the power go in any step of the first.

*BackupRestore.* With two sectors a restore can stop after one sector and before
the other; with two numbers the card can be full after one restore.

*UiControl.* Time is counted in passes of the main loop. `HoldTime` 2 leaves a
pass in which Enter is held and not long enough, `IdleLock` 3 is longer than a
hold, and `Delay` may also let the whole idle time pass at once, as a backup to a
slow card does, so Advanced mode can lock before, during and in the very pass of
a confirmation. `idle` and `age` stop at the limit the code compares them with:
beyond it nothing depends on them. Two queued keys are enough for an Enter behind
another key and for a full queue. The stack is not bounded: the screens only
open each other to a depth of six.

*ListScreens and EditValue.* The lists are shorter, as long as and longer than
their windows, and names come, go and change places while another screen is on
top. The letters of the names include commands (`s`, `d`) and the keys that are
both (`;`, `.`, `/`). Texts of four characters go past the limits of both widths,
signed and unsigned, in both bases, with capital and small figures; the 3-bit width stands for the types narrower
than `unsigned long long`, the 5-bit one for the type as wide.

### Fairness

`NvsStorage`, `NvsBlob` and `NvsChange` have weak fairness on `Step`: the
code has no scheduler to speak of, a call runs on the caller's thread until it
returns, and only the power stops it. Nothing obliges the user to call or the
power to stay, so `Settles` says: if the power is eventually not lost any more,
the library keeps coming back to `idle`. In `NvsChange` the power can be lost only
a bounded number of times, so `ChangesEnd` needs no such condition. The other
modules state no fairness and no liveness; that Advanced mode locks is stated of
the pass of the loop that does it (`LocksWhenIdle`).

### The properties in words

The library:

- `ImplementsKeyStore`: seen as a map, the library acts in single steps and a
  power loss undoes or completes the running call, never anything older. For
  blobs this holds until a write has to be given up in the middle (`gaveUp`), and
  a mount may forget the blob of one key (`Forgotten`), in the step in which the
  check of the last item erases a live chunk of it; what goes wrong then is in
  section 5.
- `OneCopy`: between calls no key is stored twice, so that code which takes the
  first item it meets (the iterator, `findItem`) sees the current one.
- `AlwaysMounts`: no history ends in a partition that does not mount, which is
  when the Arduino core would erase it.
- `ReservedPage`: between calls a page is free and none is half moved.
- `ScalarFits`: a scalar is refused for lack of space only when the dashboard,
  read just before, says FULL.
- `Settles`: repairs, moves and calls end.
- `CleanWhenIdle`: between calls every chunk is counted by exactly one index and
  every index has its chunks, unless a write was given up in the middle and no
  mount has cleaned up after it. That a mount always does is not true (section 5).
- `NamesAreSound`: one name per index and one index per name, on flash and
  between flash and RAM, also after a creation that ran out of memory, a power
  loss or a restore that ran to its end.
- `HandleMeansName`: an open handle works on the namespace it was opened for,
  whatever was closed, replaced and opened since.
- `OnlyOwnKeys`: a namespace changes only through an open read-write handle of
  its own; entries without a name stay until a new namespace adopts them.

The application:

- `OkMeansDone`: a change reported as done is done on flash.
- `ShownIsFlash`: after every change, also a failed one, the screens show what
  is on flash, name by name, with their counts of keys and entries.
- `HandlesClosed`, `NeverCreates`, `OnlyTargetChanges`: no change leaves a handle
  open, creates a namespace, or touches what it was not about.
- `ChangesEnd`: a change ends with a result and the model read anew.
- `KeepsData`: no start and no page move loses an entry of any NVS partition,
  whichever partition the core finds and whichever of the two calls is wrapped.
- `ReportIsTruth`: the dashboard's report of the first mount is what happened.
- `MovesFinish`: the guard lets page moves erase the pages they free.
- `RestoreUndoable`: whatever a restore began to replace is on the card as a
  complete backup, whatever fails then or later.
- `NoForeignPages`: pages of another device get in only through a backup that
  does not say where it comes from (which the program warns about).
- `WrittenAsChecked`: the partition is opened after a restore only when it holds
  the checked image.
- `NeverOverwrites`: no file on the card is replaced, not even one an
  interrupted backup left.

The user interface:

- `ChangesAreConfirmed`: NVS changes only as the confirmation on the screen
  says, by an Enter that came after it was opened, and after a full hold where
  `README.md`'s table asks for one. Enter "came" on the desktop when it went down
  or when its event was queued: the two are separate steps, and an event that
  waited between them may confirm, although the key was pressed before the
  confirmation opened and released after.
- `SystemNeedsAdvanced`: a SYSTEM key changes only while Advanced mode is on and
  not overdue, however long its confirmation was open (a restore, which asks for
  everything, excepted).
- `NoScreenOfDeletedKey`, `ScreensAreCurrent`: no screen, also below the one on
  top, is about a key that is gone or shows NVS as it was.
- `LocksWhenIdle`: once the idle time is up a pass of the loop ends locked, unless
  a hold completed in that very pass unlocks anew.
- `ListsAreCurrent`, `KeepsTheName`: a list shows what NVS holds, filtered by
  what the search says, and keeps the name that was marked, when it is still
  there, through a search and a change of NVS.
- `SelectionIsDrawn`: the mark is always on a row of the display.
- `AsksForTheMarked`: a command typed while nothing waits to be drawn is about the
  name the display marks. Of a command typed before the frame that an earlier key
  asks for, it says nothing: that acts on a selection not drawn yet.
- `AcceptsWhatItSpells`: a text is accepted exactly when it spells a number of
  the type, and it is that number; checked against a definition by signs, bases
  and place values.
- `UntouchedNumberStays`: a number opened and confirmed without a change is the
  number stored, the least and the greatest of its type too.

## 4. What is proved

The proof modules hold theorems for every number of pages, entries, keys, values,
namespaces, indexes and handles, every sector count, every number of backups and
every image, under the assumptions named in the modules, all of which the code's own constants
satisfy and TLC evaluates in the runs. Most say that a constant has a type or a
size (`SizeAssumption`, `ItemAssumption`, `NsOfAssumption`, `NoneAssumption`,
`NoPlaceAssumption`, `NumberAssumption`, `ContentAssumption`, `FileAssumption`,
`BoundAssumption`, `UiAssumption`, `ValueAssumption`: a blob is a sequence of units,
`ListAssumption`: a window of two rows or more, characters that can be typed;
`EditAssumption`: two widths, the narrower first, and strings of characters). `PartitionAssumption` of `BootGuard` is that a
partition has more than one sector, since the guard takes the erase of all
sectors for the erase of the partition. Two are about data:

- `ImageAssumption` of `NvsNamespaces`: an image that is restored has one name per
  index, as every partition the library wrote has, fits into the partition, and
  has no more chunks of a blob than the index counts. It is an assumption about
  restores that run to their end. One that stops halfway
  (`NvsRestore.cpp:37-42`) leaves sectors of the backup beside those it did not
  reach, and such a mixture, also one of an older backup of this very device, may
  hold two names of one index. The program offers to restore again and to restore
  the safety backup; a change made before that is outside what `NamesAreSound`,
  `OnlyOwnKeys` and their theorems say.
- `ImageAssumption` of `BootGuard`: at most one page is being freed, and the page
  begun for it holds only what was copied from it (`Covers` of `NvsStorage`).

Four theorems of `NvsStorageProofs` have a hypothesis besides (`Regular`): all
values have one type, so that no key ever changes its type (`OneType`), and no two
keys share a hash (`OwnHashes`). Both are needed: without the first,
`MCNvsTypeChange.cfg` shows a key stored twice after a power loss, without the
second `MCNvsHashCollision.cfg` shows a key lost at mount (section 5). The
instances of the runs that pass satisfy both, and the application never changes
a type.

| Theorem | States |
|---|---|
| `NvsStorageProofs!TypesPreserved` | `Spec => []TypeOK` |
| `NvsStorageProofs!PartitionMounts` | `Spec => []AlwaysMounts` |
| `NvsStorageProofs!PageReserved` | `Spec => []ReservedPage` |
| `NvsStorageProofs!ContentInvariance` | `Regular => (Spec => [](IndInv /\ ContentInv))` |
| `NvsStorageProofs!OneCopyOfEach` | `Regular => (Spec => []OneCopy)` |
| `NvsStorageProofs!StoreImplemented` | `Regular => (Spec => ImplementsKeyStore)` |
| `NvsStorageProofs!MountingLosesNothing` | `Regular => (Spec => MountKeepsContent)` |
| `NvsStorageProofs!ScalarsAreTaken` | `Spec => ScalarFits` |
| `NvsBlobProofs!BlobInvariance` | `Spec => []IInv` |
| `NvsBlobProofs!BlobsAreClean` | `Spec => []CleanWhenIdle` |
| `NvsBlobProofs!BlobStoreImplemented` | `Spec => ImplementsKeyStore` |
| `NvsBlobProofs!WrittenIsReadUnlessGivenUp` | `Spec => [][~gaveUp' /\ WriteReturnsOk => Content'[op.key] = op.val]_vars`, in outline |
| `NvsChangeProofs!NamesStaySound` | `LibrarySpec => []NamesAreSound` |
| `NvsChangeProofs!HandlesKeepTheirName` | `LibrarySpec => []HandleMeansName` |
| `NvsChangeProofs!NamespacesAreApart` | `LibrarySpec => OnlyOwnKeys` |
| `NvsChangeProofs!LibraryIsTyped` | `LibrarySpec => []LibraryTypeOK` |
| `NvsChangeProofs!ChangesUseTheLibrary` | `Spec => LibrarySpec` |
| `NvsChangeProofs!NoHandleIsLeft` | `Spec => []HandlesClosed` |
| `NvsChangeProofs!NoNameAppears` | `Spec => NeverCreates` |
| `NvsChangeProofs!OnlyTheTargetChanges` | `Spec => OnlyTargetChanges` |
| `NvsChangeProofs!WhatIsReportedIsDone` | `Spec => []OkMeansDone` |
| `NvsChangeProofs!ChangesAreTyped` | `Spec => []ChangeTypeOK` |
| `NvsChangeProofs!ScreensShowFlash` | `Spec => []ShownIsFlash` |
| `BootGuardProofs!DataIsKept` | `Spec => KeepsData` |
| `BootGuardProofs!ReportIsTrue` | `Spec => []ReportIsTruth` |
| `BootGuardProofs!MovesAreFinished` | `Spec => []MovesFinish` |
| `BackupRestoreProofs!TypesPreserved` | `Spec => []TypeOK` |
| `BackupRestoreProofs!OldContentIsSaved` | `Spec => []RestoreUndoable` |
| `BackupRestoreProofs!ForeignPagesStayOut` | `Spec => []NoForeignPages` |
| `BackupRestoreProofs!ImageIsWritten` | `Spec => []WrittenAsChecked` |
| `BackupRestoreProofs!FilesAreKept` | `Spec => NeverOverwrites` |
| `UiControlProofs!TypesPreserved` | `Spec => []TypeOK` |
| `UiControlProofs!SystemIsProtected` | `Spec => SystemNeedsAdvanced` |
| `UiControlProofs!ScreensStayCurrent` | `Spec => []ScreensAreCurrent` |
| `UiControlProofs!AdvancedLocks` | `Spec => LocksWhenIdle` |
| `UiControlProofs!NoDeletedKeyIsShown` | `Spec => []NoScreenOfDeletedKey` |
| `UiControlProofs!NothingChangesUnconfirmed` | `Spec => ChangesAreConfirmed` |
| `ListScreensProofs!ListsAreSound` | `Spec => []IInv` |
| `ListScreensProofs!CursorsAreOnRows` | `Spec => []ListTypeOK` |
| `ListScreensProofs!ListsStayCurrent` | `Spec => []ListsAreCurrent` |
| `ListScreensProofs!FramesMarkTheSelection` | `Spec => []SelectionIsDrawn` |
| `ListScreensProofs!SelectionFollowsTheName` | `Spec => KeepsTheName` |
| `ListScreensProofs!CommandsTakeTheMarked` | `Spec => AsksForTheMarked` |
| `EditValueProofs!TextsAcceptedAreNumbersSpelled` | `Spec => []AcceptsWhatItSpells` |
| `EditValueProofs!NumberNotTouchedStays` | `Spec => []UntouchedNumberStays` |
| `EditValueProofs!NumberSavedIsNumberSpelled` | `Spec => [][Save => Spelled(text) \cap ValuesOf(type) = {stored'}]_vars`, for numbers |
| `EditValueProofs!StringsThatFitStay` | `Spec => [][Save => stored' = text /\ (FitsUntouched => stored' = stored)]_vars`, for strings, in outline |

*NvsStorage, pages.* `AlwaysMounts` is not inductive: that a mount finds a free page
depends on what every interrupted move left behind. The inductive invariant is
`TypeOK /\ PagesInv`, and `PagesInv` says

- `Listing`: the mount has put every page it has read on exactly one list;
- `Ordered`: sequence numbers differ and the active page has the highest;
- `Fresh`: a used page without a header is the last one, just activated;
- `Spare`: either a page has no header, or a page is marked freeing and the
  active page is its copy, which `DiscardCopy` can give up. Only one page is
  ever marked freeing;
- `Genuine`, `Pending`: what the entries and the running call may hold, needed
  for types.

It says nothing of which items are on the pages, which is why it covers entries
of any number. Each conjunct has its own lemma, and in it one step per action.

*NvsStorage, content.* What the pages hold is `ContentInv`:

- `Layout`: entries are used in order, and an item's data entry follows its header;
- `Pairs`: two items of one key are the original and the copy of a page move, or
  the newest item and its predecessor while that may still be there;
- `Whole`: an item that is not there to its end is being written, copied or
  erased, or waits for the next mount to erase it;
- `Scanned`: what a mount has read of the active page has no duplicate left;
- `Covers`: whatever the page begun for a move holds is still on the page it
  comes from, so that `DiscardCopy` loses nothing, and in the end all is there, so
  that `Reclaim` loses nothing;
- `CopyInOrder`: the copies are those of the first entries, without gaps, which
  makes `Covers` inductive though an item is copied entry by entry;
- `Storing`, `OldKnown`: how far the running write has come, and that it knows the
  predecessor it is going to erase, also when a page move has relocated it
  meanwhile, or knows that there is none.

From it `OneCopyOfEach` follows at `idle`. For `StoreImplemented` the value of a
key is followed through every action: it changes in the step that completes the
new item (`PutEntryState` for one entry, `PutDataState` for two) and in the first
`EraseItemStep` of an erase, and those are the steps of `KeyStore`; all others
leave it, the return of a call is matched with the result `KeyStore` allows
(`Result`), and a power loss at any point is either before or after. Mounting is
the part of it that `MountingLosesNothing` names.

*NvsStorage, room.* `ScalarFits` is about a call that is refused after a page
move. `RoomInv` says that a move is only started when the page to be freed has an
unused entry, so the copy leaves room behind it, and that a write that has asked
for a page once is on a page with room for an entry. So a scalar is refused only
when no page but the reserved one has an unused entry, and those are the entries
the dashboard counts (`ShownFree`). Neither types nor hashes matter here.

*NvsBlob.* The inductive invariant is `IInv`, of two parts. `PagesInv` holds always:
what a page counts is what is on it and fits (`Filled`, half of `CleanWhenIdle`),
sequence numbers order the pages and only the last is active, at most one is being
freed (`Ordered`, `Listing`), and each step of a mount or a move meets the pages it
expects (`MoveKnown`, `Room`). `BlobsInv` holds unless a write was given up in the
middle and no mount has left the blobs clean since. It is about the set of stored
items, the copies on a page that is begun for one being freed left out:

- `Distinct`: no key has two chunks of one version and number, nor two indexes of one
  version;
- `Copies`: every item of a begun page is one of the page being freed, and no two of
  them are the same, which is why a mount may throw them away, one or all;
- `Pairs`: a key has two indexes only between the writing of the new index and the
  erasing of the old one, across a power loss too, and the new one is then the last
  item of the active page, which is where the mount looks for it;
- `Counts`, `Sizes`: the chunks of an index have numbers below its count and sizes
  that leave room for no others: there are offsets at which each begins;
- `Whole`, `Owned`: which index may lack chunks, and which chunk its index: during a
  mount, in a namespace that is being erased, the new blob of a write and the old
  blob of a write or an erase;
- `Begun`, `Ended`: how far those two have come.

So that a mount erases by sums and counts (`Mismatched`) what it should erase: with
`Distinct` and `Counts` the count alone tells whether all chunks are there. That a
read in between meets no damaged blob (`NothingIsPurged`) connects the invariant
with `Blob`, which puts the data together chunk by chunk; the lemmas about it go by
least counterexamples, since induction over an operator is out of the prover's
reach. The invariant was checked with TLC first, on up to four pages and two keys.

For `BlobStoreImplemented` the value of a key (`Content`) is expressed in what is
stored: it is the data that the newest index of the key `Holds`, chunk by chunk, and
`None` if that index lacks chunks or there is no index (`NewestReads`). A second
invariant, `Promised`, says what a running call has done so far: the chunks written
spell the beginning of the new blob (`Written`), the old index is found when it is
to be erased (`OldIsThere`), the new one is by then the last item (`NewIsLast`), and
a call that only has to clean up has taken effect (`Effect`). Then each step has a
lemma about what it does to `Content`. It changes in three steps of a call: `WriteIndex`, the
`EraseOldIndex` of an erase, and `EraseAll`, which takes one key when it erases the
index or the first chunk of a blob and none with the rest. One step of a
mount loses it: `CheckLast`, when what it erases is a chunk of the newest index
(`ChunkErased`, `ReadOfCheckLast`), and then the value of that key and no other is
gone (`Forgotten`); on a page begun for one being freed it erases a copy, which
changes nothing (`ErasedCopy`). Everything else leaves the content: a chunk that no
index counts yet or any more (`StrayChunk`); the old index of a write, because the
new one is the newest (`OldIndexErased`); what `RepairPage` and `DropDuplicate`
erase, for the same reason; and an index that `EraseMismatched` erases, because
nothing could be read of it, so the sums that a mount compares are right about every
blob that is whole (`ObservedCount`, `ObservedSize`). A write that finds the same
blob returns at once: `cmpMultiPageBlob` compares every chunk with two places of the
new value, the beginning and its own, and the second alone makes them equal
(`SameIsEqual`). Since `BlobsInv` does not hold after a write was given up, neither
does the claim, until a mount has left the blobs clean (`CleanMountRefines`);
`blob_read_back` shows that the exception is needed.

*NvsNamespaces.* The inductive invariant is `LibraryInv`. Its core is that a new
namespace takes an index that is not in `usage`, so `usage` has to cover every
name on flash, those that the table does not know included (`TableIsFlash`); the
table is a function, so a handle's index is that of its name (`HandleMeansName`)
as long as nothing is open when the table goes (`ClosedIsEmpty`) and nothing is
erased through a handle that is closed (`EraserIsOpen`). That blobs are whole
(`BlobsAreWhole`: with an index and a first chunk) is needed where a mount drops
broken ones. `StoreInv` bounds the rest; that what is on flash fits needs the
entries used as cardinalities (of the items, and of those that take two), which
the library's theorems about finite sets can add up.

*NvsChange.* `ChangesUseTheLibrary` shows that every step is a step of the
library or a stutter of it, which carries `LibraryInv` over. To it `ChangeInv` adds
which handle is open at which `pc` (`HandleInv`), what the probe has found out
about the target (`TaskInv`) and what is left to erase (`EraseInv`). `DoneInv`
then follows the result from the read-back that decides it to the end of the
refresh, which may mount the partition again. `ShownIsFlash` is `ShownInv`: the
snapshot is the listing of the flash whenever no change runs, because the last
thing every change does is to refresh it. That its counts add up rests on a count
of the items: each is a name, in a namespace with a name, or an orphan; every name
is shown with its items or is a name without any, and the table knows them all
(`TableIsFull`).

*BootGuard.* The inductive invariant is `GuardedInv`. `FlashInv` keeps on the
default partition what `ImageAssumption` says of images, and during a move that
the page being freed is covered by its copy, so that neither the repair nor the
end of a move loses an entry. `GuardInv`: the core comes to erase the partition
only in a build that does not wrap its mount; there the erase is wrapped and
refused, since it covers all sectors. `ReportInv`: the core's mount has repaired
what there was to repair, so the application's mount meets the result that was
kept. `MovesFinish` holds because a page is one sector and never all of them.

*BackupRestore.* `RestoreUndoable` needs to know that while a backup for a
restore is being written, what is already on the card is what was read
(`Backing`); `NoForeignPages` and `WrittenAsChecked` need that the sectors
before `sector` already equal the checked image (`Checked`) and that the checked
image, unless its manifest records no device, holds no foreign page although the
card may (`Provenance`).

*UiControl.* A key press can only confirm what is confirmed by pressing, and the
tick of the confirmation what is held. So `SystemNeedsAdvanced` needs to know
that every request on the stack is about the namespace of its key and that a
change of a SYSTEM namespace always asks to be held (`AskOK`), on every screen of
the stack and not only the one on top, because any may come to the top
(`GoodScreen`). Without that a press at the end of the idle time, before the
lock, would be a counterexample. `StackInv` adds that a confirmation is on top or
nowhere and that the one that unlocks is there only while the mode is locked, so
that no push hides a confirmation from a later change, and a lock cannot be
undone by a confirmation left over from before. `NoScreenOfDeletedKey` needs the
shape of the stack: `PlaceInv` gives every kind of screen its depth and a
confirmation the screens it pops, so that the screens about a key are gone when
it is. `ChangesAreConfirmed` needs `EnterInv`: a confirmation that no Enter has
followed has none waiting for it either, neither in the queue, where the pass
that arms it would find it, nor in the key that is held down.

*ListScreens.* The inductive invariant is `IInv`. `ListsInv`: every list of the
stack is what the filter leaves of the model's list, also the covered one, and its
cursor is on a row. `SelectionIsDrawn` and `DrawnInv`: what the display shows was
drawn by a `Render` and nothing has changed since, or `dirty` is set. The lemmas
below are about the operators: what moving, clamping and following do to a cursor,
for every number of rows, and that rebuilding a list selects the name it had
selected before if that is still there (`SelectionFollowsTheName`). A command
typed while nothing waits to be drawn therefore takes the name marked on the
display.

*EditValue.* The invariant, `EditInv`, is short: a number edited has a value of its
type and a text of characters, a confirmation is about what `parse` makes of the
text, and a text not touched is the number written out. What takes the work are the
functions, for texts of any length and types of any width, by least
counterexamples:

- `Horner`: the numbers that the beginnings of a text spell. What `strtoull` returns
  is the last of them, or `ERANGE` if it is too large (`strtoullIs`), and it is what
  the definition by place values says (`WorthIs`), which sums from the other end;
- `OnlyReading`, `TheReading`: a text can be taken apart into sign, prefix and figures
  in at most one way, and then as `parseNumber` does it;
- `ParseSpells`: with those, `parse` accepts exactly the numbers in the range of the
  type. The powers of two in it (`RangeIs`, `CastKeeps`) are counted as sets of
  subsets, since the prover knows nothing of exponents;
- `DigitsSpell`, `FormatSpells`, `FormatParses`: writing a number out and reading it
  back.

`StringsThatFitStay` confines what `MCEditLongText.cfg` finds (section 5) to strings
longer than the field: its invariant, `StringInv`, is that the text not touched is the
string stored, cut to the field.

Only model-checked: liveness (`Settles`, `ChangesEnd`), which is beyond the prover.

## 5. Where the code and its documents disagree

Found by a run that must find its property violated:

- `blob_repair`: loading "erases a duplicate of the last written item", but when
  that is a chunk of a blob, the duplicate is the first chunk of its key on the
  page, whatever its version and number. A power loss after the first chunk of a new
  version was written behind the old blob loses the old one with the new: its first
  chunk is erased here, then its index, which no longer fits, then the new chunk,
  which no index counts.
- `blob_read_back`: a write that fails midway and then succeeds can leave two
  chunks with the same number, and the blob read back is then not the one that
  `nvs_set_blob` answered `ESP_OK` for. The clean-up after the failure looks for
  chunks without the version offset, on pages that may have moved.
- `undo`: a restore "can be undone the same way", but the safety backup of a
  partition that contains a page with a torn header, which the library mounts,
  is refused by the check of a restore.

Of less consequence; each has a configuration that shows it, to be run by hand
(`tlc -config <file> <module>`):

| Configuration | Property | What it shows |
|---|---|---|
| `MCNvsHashCollision.cfg` (`MCNvsStorage`) | `MountKeepsContent` | what loading erases as a duplicate is any earlier item with the same 24-bit hash on the active page, also another key |
| `MCBlobCleanMount.cfg` (`MCNvsBlob`) | `CleanMountKeepsBlobs` | what `blob_repair` shows needs nothing to repair: a write of another key that was refused, and has removed what it wrote, can leave two chunks of one blob, brought together by its page move, as the last items of the active page; every blob is whole, and the next mount drops this one |
| `MCNvsTypeChange.cfg` (`MCNvsStorage`) | `DuplicateErased` | `docs/RESEARCH.md` says loading erases a duplicate of the last written item. It looks under the type of the new item only, so a power loss between writing a key with a new type and erasing the old item leaves both. The application never changes a type. |
| `MCBlobKeepsOld.cfg` (`MCNvsBlob`) | `FailedWriteKeepsOld` | the comment says the chunks written so far are erased; they are looked for without the version offset, so a chunk of the blob that was there can go instead, and the blob with it |
| `MCBlobCleanUp.cfg` (`MCNvsBlob`) | `MountCleansUp` | the comment says indexes are compared with their chunks and that chunks of deleted indexes are removed later. The comparison is one of sums, before the chunks nobody counts are removed: one that a failed write left can stand in for a chunk of a later blob that was being erased, and is then removed itself, so an index without its data outlives the mount |
| `MCBlobUnchanged.cfg` (`MCNvsBlob`) | `SameBlobNotRewritten` | "it is cheaper to purposefully not write out new data": the checksum of every chunk is compared with that of the beginning of the new data, so a blob of two or more chunks is written again though it is the same |
| `MCBackupNewestFirst.cfg` (`MCBackupRestore`) | `NewestIsHighest` | the list is documented as newest first, but numbers freed by deleting backups are used again |
| `MCUiKeySize.cfg` (`MCUiControl`) | `ShownSizeIsCurrent` | a change "tells every screen the model has new data", but the screen of a key reads only the value again, so after an edit it shows the new string with the old size |
| `MCEditLongText.cfg` (`MCEditValue`) | `UntouchedTextStays` | a string longer than the field is cut when it is opened, and confirming it unchanged stores the cut one |

Not modelled: the comment at `EditValueScreen.h:13` says a string's current value
stays hidden, but the constructor makes it the starting text
(`EditValueScreen.cpp:68`; `Open` of `EditValue` follows the code); free space is
called LOW at exactly 25 %, where `README.md` says
"under 25 %"; the time after which logging to the card is tried again is compared
without regard to the wrap of the millisecond counter
(`CardputerPlatform.cpp`).

## 6. What is not modelled

In the library:

- Blobs in the format of version 1 of NVS, blobs of 128 chunks and more, and a
  key that changes between blob and scalar.
- Flash operations that return an error. On the device the SPI flash driver
  reports them only for bad arguments. `NvsNamespaces` lets calls fail for lack
  of room or memory.
- `malloc` failures other than the two of `OpenOutOfMemory` and `OpenFails`.
- Encryption, the C++ handle class and read-only partitions, which the firmware
  does not use.
- The listing is one step in `NvsNamespaces`. An entry iterator that is kept while
  something else writes is not used by the application.
- Images that break one name per index (`ImageAssumption`), as a half-written
  restore could leave, of a foreign image or of an older backup of this device
  (section 4).
- The loss of a blob by `CheckLast` above `NvsBlob`: `NvsNamespaces` drops at mount
  only the blobs that were broken before, so its properties and those of `NvsChange`
  are about mounts in which `CheckLast` erases no live chunk. Scalars and strings
  are not concerned: of those the last item is looked for by its type and key, and
  what is found before it is its predecessor.

In the application:

- The counts before and after a change on the result screen, the scrolling of the
  value on the screen of a key, the limits between LOW and CRITICAL.
- The serial log and the log on the card.
- The JSON texts, the SHA-256 code, drawing and wording: sequential code without
  state that outlives a call.
- The desktop shim and the tools: test infrastructure.

## 7. Plan

Done: the library at three grains (`NvsStorage`, `NvsBlob`, `NvsNamespaces`) over
one abstract store, the application's changes on it (`NvsChange`), the start of
the device, backups and restores, the user interface from key to confirmation,
the lists and the number parser, each with its runs; theorems about all of them.

Next:

1. A blob that changes its type, and images of version 1.
