------------------------------ MODULE NvsChange ------------------------------
(***************************************************************************)
(* A change of NVS as the application makes it (NvsWriter, NvsModel): the  *)
(* namespace is probed with a read-only handle, changed through a          *)
(* read-write one, read back through a third, and the model that the       *)
(* screens show is read anew whatever the result. Each call is a step of   *)
(* NvsNamespaces; between any two the power may go.                        *)
(*                                                                         *)
(* Screens hand over names that may be gone by then, so a change may name  *)
(* any namespace and any key. A restore is BackupRestore's; here it leaves *)
(* one image or another. The listing is one step: nothing runs beside it.  *)
(* Before the application starts, other firmware uses the same NVS through *)
(* the same library in ways of its own.                                    *)
(***************************************************************************)
EXTENDS NvsNamespaces

CONSTANT OtherHandles  \* bound: handles that other firmware opens

VARIABLES
  pc,      \* the next step of the application; "other" while other firmware runs
  task,    \* the change under way
  result,  \* WriteResult::step of the last change, "ok" when it succeeded
  shown    \* the NvsModel: what screens show

application == <<pc, task, result, shown>>
vars == <<library, application>>

NoTask == [kind |-> "none"]
Tasks  == [kind : {"set"}, ns : Names, key : Keys, type : {"u8", "str"}, val : Values]
          \cup [kind : {"eraseKey"}, ns : Names, key : Keys]
          \cup [kind : {"eraseNs"}, ns : Names]
          \cup [kind : {"restore"}, image : Images]

Goto(step)  == pc' = step /\ UNCHANGED <<task, shown>>
Then(step)  == Goto(step) /\ UNCHANGED result

\* Wrong on purpose: the two are swapped.
FailAt_Swapped(where, step) == Goto(where) /\ result' = step

FailAt(where, step) == Goto(step) /\ result' = where

-----------------------------------------------------------------------------
(* Reading: NvsReader and NvsModel::refresh.                               *)

\* nextEntry passes over names, blob indexes and all chunks but the first.
Iterable(x) == x.ns # 0 /\ x.type \notin {"index", "more"}
KeysIn(i)   == {x \in In(i) : Iterable(x)}

\* The names an iteration of the partition reports. An item without a name is
\* reported under the name before it, which is in the set already.
NamesSeen == {n \in Named : KeysIn(table[n]) # {}}

Listed(n) == [used |-> UsedBy(In(table[n])) + 1, keys |-> Cardinality(KeysIn(table[n]))]

Unread  == [ok |-> FALSE, used |-> 0, ns |-> <<>>]
Listing == [ok |-> TRUE, used |-> UsedBy(items), ns |-> [n \in NamesSeen |-> Listed(n)]]

\* The sum of the counts, as the number of pairs of a name and one entry of its count.
Unattributed ==
  LET listed == Cardinality(UNION {{n} \X (1 .. shown.ns[n].used) : n \in DOMAIN shown.ns})
  IN  IF shown.used > listed THEN shown.used - listed ELSE 0

RefreshMounts ==
  /\ pc = "refresh" /\ InitPartition /\ Then("refresh")

\* Wrong on purpose: reads anew only after a success.
RefreshReads_OnSuccess ==
  /\ pc = "refresh" /\ storage # 0
  /\ shown' = IF result \in {"ok", "none"} THEN Listing ELSE shown
  /\ pc' = "idle"
  /\ UNCHANGED <<library, task, result>>

RefreshReads ==
  /\ pc = "refresh" /\ storage # 0
  /\ shown' = Listing
  /\ pc' = "idle"
  /\ UNCHANGED <<library, task, result>>

\* The partition does not mount: no memory, or a restore left it unreadable.
RefreshFails ==
  /\ pc = "refresh" /\ storage = 0
  /\ shown' = Unread
  /\ pc' = "idle"
  /\ UNCHANGED <<library, task, result>>

-----------------------------------------------------------------------------
(* The three changes of NvsWriter.                                         *)

\* Wrong on purpose: the namespace is not probed.
Begin_NoProbe(t) ==
  /\ pc = "idle"
  /\ pc' = IF t.kind = "restore" THEN "close" ELSE "open"
  /\ task' = t /\ result' = "ok"
  /\ UNCHANGED <<library, shown>>

Begin(t) ==
  /\ pc = "idle"
  /\ pc' = IF t.kind = "restore" THEN "close" ELSE "probe"
  /\ task' = t /\ result' = "ok"
  /\ UNCHANGED <<library, shown>>

\* requireNamespace; the probe is closed when it returns.
Probe ==
  /\ pc = "probe"
  /\ \/ OpenExisting(task.ns, TRUE) /\ Then("probed")
     \/ OpenFails(task.ns, TRUE) /\ FailAt("open", "refresh")

Probed == pc = "probed" /\ Close(opened) /\ Then("open")

Open ==
  /\ pc = "open"
  /\ \/ (OpenExisting(task.ns, FALSE) \/ OpenCreates(task.ns)) /\ Then("act")
     \/ (OpenOutOfMemory(task.ns) \/ OpenFails(task.ns, FALSE)) /\ FailAt("open", "refresh")

\* Wrong on purpose: a value that is refused is tried again.
SetValue_Retries ==
  /\ pc = "act" /\ task.kind = "set"
  /\ \/ SetItem(opened, task.key, task.type, task.val) /\ Then("leave")
     \/ SetFails(opened, task.key, task.type, task.val) /\ Then("act")

SetValue ==
  /\ pc = "act" /\ task.kind = "set"
  /\ \/ SetItem(opened, task.key, task.type, task.val) /\ Then("leave")
     \/ SetFails(opened, task.key, task.type, task.val) /\ FailAt("set", "leave")

EraseOneKey ==
  /\ pc = "act" /\ task.kind = "eraseKey"
  /\ \/ EraseKey(opened, task.key) /\ Then("leave")
     \/ EraseKeyFails(opened, task.key) /\ FailAt("erase", "leave")

EraseNamespace ==
  \/ pc = "act" /\ task.kind = "eraseNs" /\ EraseAll(opened) /\ Then("erasing")
  \/ pc = "erasing" /\ EraseAllStep /\ Then("erasing")
  \/ pc = "erasing" /\ EraseAllDone /\ Then("leave")

\* The commit does nothing; the handle is closed at the end of the block.

\* Wrong on purpose: an early return leaves the handle open.
Leave_EarlyReturn ==
  /\ pc = "leave"
  /\ \/ result = "ok" /\ Close(opened) /\ Then("verify")
     \/ result # "ok" /\ UNCHANGED library /\ Then("refresh")

Leave ==
  /\ pc = "leave" /\ Close(opened)
  /\ Then(IF result = "ok" THEN "verify" ELSE "refresh")

-----------------------------------------------------------------------------
(* Verification.                                                           *)

Index == table[task.ns]

\* A value is read by its type, a size first where there is one.
ReadValue(k, t) == {x.val : x \in Find(Index, k, t)}

\* The value must be there in its type; a key must be gone in every type.

\* Wrong on purpose: a key counts as erased once the erase succeeded.
ReadBack_ValuesOnly ==
  task.kind = "set" => ReadValue(task.key, task.type) = {task.val}

ReadBack ==
  /\ task.kind = "set"      => ReadValue(task.key, task.type) = {task.val}
  /\ task.kind = "eraseKey" => FindAny(Index, task.key) = {}

Verify ==
  /\ pc = "verify" /\ task.kind # "eraseNs"
  /\ \/ OpenExisting(task.ns, TRUE) /\ Then("check")
     \/ OpenFails(task.ns, TRUE) /\ FailAt("verify", "refresh")

Check ==
  /\ pc = "check" /\ Close(opened)
  /\ IF ReadBack THEN Then("refresh") ELSE FailAt("verify", "refresh")

\* nvs_entry_find; a namespace that is gone has no keys either.
VerifyNamespace ==
  /\ pc = "verify" /\ task.kind = "eraseNs"
  /\ IF task.ns \in NamesSeen THEN FailAt("verify", "refresh") ELSE Then("refresh")
  /\ UNCHANGED library

-----------------------------------------------------------------------------
(* Restore (NvsRestore.cpp), power and the whole.                          *)

ClosePartition ==
  /\ pc = "close"
  /\ (storage # 0 => DeinitPartition) /\ (storage = 0 => UNCHANGED library)
  /\ Then("write")

WriteImage ==
  /\ pc = "write" /\ ReplaceImage
  /\ \/ items' = task.image /\ Then("mount")
     \/ FailAt("write", "refresh")

MountImage ==
  /\ pc = "mount"
  /\ \/ InitPartition /\ Then("refresh")
     \/ UNCHANGED library /\ FailAt("open nvs", "refresh")

\* The next boot reads the model anew.
LosePower ==
  /\ life < MaxLife
  /\ PowerLoss
  /\ pc' = "refresh" /\ task' = NoTask /\ result' = "none" /\ shown' = Unread

OtherFirmware ==
  /\ pc = "other" /\ LibraryNext
  /\ opened' <= OtherHandles /\ life' < MaxLife
  /\ UNCHANGED application

Init ==
  /\ LibraryInit
  /\ pc = "other" /\ task = NoTask /\ result = "none" /\ shown = Unread

\* Three handles are needed at most.
Start == opened + 3 <= MaxHandle /\ \E t \in Tasks : Begin(t)

Step ==
  \/ RefreshMounts \/ RefreshReads \/ RefreshFails
  \/ Probe \/ Probed \/ Open \/ SetValue \/ EraseOneKey \/ EraseNamespace \/ Leave
  \/ Verify \/ Check \/ VerifyNamespace
  \/ ClosePartition \/ WriteImage \/ MountImage

Next == OtherFirmware \/ Step \/ Start \/ LosePower

\* A change runs to its end unless the power goes: its calls do not block.
Spec == Init /\ [][Next]_vars /\ WF_vars(Step)

-----------------------------------------------------------------------------
(* Properties.                                                             *)

\* Every variable has its type, those of the library too.
ChangeTypeOK ==
  /\ LibraryTypeOK
  /\ pc \in {"other", "refresh", "idle", "probe", "probed", "open", "act", "erasing", "leave",
             "verify", "check", "close", "write", "mount"}
  /\ task \in Tasks \cup {NoTask}
  /\ result \in {"none", "ok", "open", "set", "erase", "verify", "write", "open nvs"}

\* A change reported as done is done on flash: the value is there in its type,
\* the key is gone in every type, the namespace has no key left, the partition
\* holds the image's entries.
OkMeansDone ==
  pc = "idle" /\ result = "ok" =>
    LET i == FlashIndex(task.ns) IN
    /\ task.kind = "set"      => Item(i, task.key, task.type, task.val) \in items
    /\ task.kind = "eraseKey" => ~ \E x \in In(i) : x.key = task.key
    /\ task.kind = "eraseNs"  => In(i) = {}
    /\ task.kind = "restore"  => items \subseteq task.image /\ NamesOf(items) = NamesOf(task.image)

\* What the screens show is on flash, name by name, whatever became of the
\* last change; entries without a name are in no namespace's count, and those
\* shown as not attributed are they and the empty namespaces' (NvsModel.h).
KeysOnFlash(n) == {x \in items : Iterable(x) /\ NsItem(n, x.ns) \in items}
ShownIsFlash ==
  pc = "idle" /\ shown.ok =>
    /\ DOMAIN shown.ns = {n \in Names : KeysOnFlash(n) # {}}
    /\ \A n \in DOMAIN shown.ns :
         shown.ns[n] = [used |-> UsedBy({x \in items : NsItem(n, x.ns) \in items}) + 1,
                        keys |-> Cardinality(KeysOnFlash(n))]
    /\ Unattributed = UsedBy(Orphans) + Cardinality({x \in NamesOf(items) : In(x.val) = {}})

\* Between changes no handle is open.
HandlesClosed == pc = "idle" => entries = <<>>

\* A change never creates a namespace; only a restored image brings names.
NeverCreates == [][pc \notin {"other", "write"} => NamesOf(items') = NamesOf(items)]_vars

\* A change touches the entries of its own namespace and, but for the erasure
\* of the namespace, of its own key. What a mount drops is no change.
OnlyTargetChanges ==
  [][ (pc \in {"act", "erasing", "leave", "verify", "check"}) =>
        \A x \in (items \ items') \cup (items' \ items) :
          x.ns = Index /\ (task.kind = "eraseNs" \/ x.key = task.key) ]_vars

\* Every change ends, with a result and the screens read anew, unless the
\* power goes.
ChangesEnd == (pc \notin {"idle", "other"}) ~> (pc = "idle")
=============================================================================
