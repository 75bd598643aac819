------------------------------ MODULE UiControl ------------------------------
(***************************************************************************)
(* The main loop of the program (app/App), the stack of screens            *)
(* (ui/UiController and the screens), what each screen does with a key,    *)
(* the permission to change a namespace (app/Policy, ui/Actions) and the   *)
(* confirmation that precedes every change (ui/ConfirmScreen).             *)
(*                                                                         *)
(* The loop drains the keys, updates, draws and waits. Keys arrive as      *)
(* events; whether Enter is held is polled apart from them. On the desktop *)
(* another thread queues the events and sets the held flag at any moment;  *)
(* on the device both are sampled when the loop polls.                     *)
(***************************************************************************)
EXTENDS NvsRequests, Integers, Sequences, FiniteSetsExt

CONSTANTS
  Class,      \* [Namespaces -> NamespaceClasses]: nvsm::classify
  BlobKeys,   \* keys whose values cannot be edited
  MaxQueued,  \* kMaxQueuedKeys, 32 in the program
  HoldTime,   \* kHoldConfirmMs, in units of time
  IdleLock    \* kAdvancedIdleLockMs, in units of time

NamespaceClasses == {"system", "launcher", "application"}

ASSUME UiAssumption ==
  /\ Class \in [Namespaces -> NamespaceClasses]
  /\ BlobKeys \subseteq Keys
  /\ MaxQueued \in Nat \ {0} /\ HoldTime \in Nat \ {0} /\ IdleLock \in Nat \ {0}

VARIABLES
  desktop,   \* TRUE: NativePlatform; FALSE: CardputerPlatform
  store,     \* what NVS holds: [Keys -> Values \cup {None}]
  stack,     \* stack_, the dashboard first
  advanced,  \* advanced_
  pc,        \* what the main loop does next: poll, update or delay
  queue,     \* g_keys (desktop)
  held,      \* g_enterHeld
  down,      \* whether Enter is down
  sending,   \* the event watch has set g_enterHeld and not queued the key yet
  idle,      \* now - lastInputMs_, up to IdleLock
  age,       \* now - holdStart_ while a confirmation is held, up to HoldTime; else 0
  fresh      \* auxiliary: Enter came, as a key going down or as its event, after
             \* the last confirmation opened

ui   == <<store, stack, advanced, age, fresh>>
keys == <<desktop, queue, held, down, sending>>
vars == <<ui, keys, pc, idle>>

Content  == [Keys -> Values \cup {None}]
KeyEvent == {"enter", "back", "a", "b", "d", "e", "i"}

-----------------------------------------------------------------------------
(* Screens. shown is the NVS content a screen last read; info is the value *)
(* a key had when its KeyInfo was taken.                                   *)

Actions == {"delete_key", "delete_namespace", "edit"}
Asks ==
  [what : Actions \cup {"advanced", "exit", "export", "backup", "restore"},
   ns : Namespaces \cup {None}, key : Keys \cup {None}, val : Values \cup {None},
   mode : {"press", "hold"}, pops : 0 .. 2]

Screen ==
  [kind : {"dashboard", "namespaces", "namespace", "key", "edit", "confirm", "result",
           "backup", "list", "preview", "help"},
   ns : Namespaces \cup {None}, key : Keys \cup {None}, shown : Content \cup {None},
   info : Values \cup {None}, ask : Asks \cup {None}, armed : BOOLEAN, holding : BOOLEAN]

Plain(kind) ==
  [kind |-> kind, ns |-> None, key |-> None, shown |-> None, info |-> None, ask |-> None,
   armed |-> FALSE, holding |-> FALSE]

Dashboard          == Plain("dashboard")
NamespaceList      == [Plain("namespaces") EXCEPT !.shown = store]
NamespaceDetail(n) == [Plain("namespace") EXCEPT !.shown = store, !.ns = n]
KeyDetail(k, info) ==
  [Plain("key") EXCEPT !.shown = store, !.ns = NsOf[k], !.key = k, !.info = info]
EditValue(k)       == [Plain("edit") EXCEPT !.ns = NsOf[k], !.key = k]
Result             == Plain("result")

\* Wrong on purpose: Enter counts from the start.
ConfirmScreen_Armed(ask) == [Plain("confirm") EXCEPT !.ask = ask, !.armed = TRUE]

ConfirmScreen(ask) == [Plain("confirm") EXCEPT !.ask = ask]

Top == stack[Len(stack)]

\* applyPending: pops first, and never the dashboard; then pushes.
Applied(s, pops, pushed) ==
  SubSeq(s, 1, IF Len(s) > pops THEN Len(s) - pops ELSE 1) \o pushed

\* onModelRefreshed of the screens that have one.

\* Wrong on purpose: the screens are not told.
Reload_None(s, content) == s

Reload(s, content) ==
  [i \in DOMAIN s |->
     IF s[i].kind \in {"namespaces", "namespace", "key"} THEN [s[i] EXCEPT !.shown = content] ELSE s[i]]

Push(screen) ==
  /\ stack' = Append(stack, screen)
  /\ fresh' = (fresh /\ screen.kind # "confirm")
  /\ UNCHANGED <<store, advanced, age>>

Pop ==
  /\ stack' = Applied(stack, 1, <<>>)
  /\ age' = 0
  /\ UNCHANGED <<store, advanced, fresh>>

-----------------------------------------------------------------------------
(* Policy and Actions.                                                     *)

PermissionFor(action, n, adv) ==
  CASE Class[n] = "system"      -> IF adv THEN "hold" ELSE "denied"
    [] Class[n] = "launcher"    -> "hold"
    [] Class[n] = "application" -> IF action = "delete_namespace" THEN "hold" ELSE "press"

Ask(what, n, k, v, mode, pops) ==
  [what |-> what, ns |-> n, key |-> k, val |-> v, mode |-> mode, pops |-> pops]

\* Not allowed: a result screen says so.
AskToChange(action, n, k, v, pops) ==
  LET permission == PermissionFor(action, n, advanced)
  IN  IF permission = "denied" THEN Push(Result)
      ELSE Push(ConfirmScreen(Ask(action, n, k, v, permission, pops)))

StartEdit(k) ==
  IF k \in BlobKeys \/ PermissionFor("edit", NsOf[k], advanced) = "denied"
    THEN Push(Result)
    ELSE Push(EditValue(k))

\* What NVS may hold after the change: it may fail, and deleting a namespace
\* may stop anywhere.
Outcomes(ask) ==
  CASE ask.what = "delete_key" -> {store, [store EXCEPT ![ask.key] = None]}
    [] ask.what = "edit" -> {store, [store EXCEPT ![ask.key] = ask.val]}
    [] ask.what = "delete_namespace" ->
         {[k \in Keys |-> IF k \in gone THEN None ELSE store[k]] :
            gone \in SUBSET {k \in Keys : NsOf[k] = ask.ns}}
    [] ask.what = "restore" -> Content
    [] OTHER -> {store}

\* Permission is checked again: Advanced mode may have locked meanwhile.
\* Wrong on purpose: it is not.
StillAllowed_Always(ask, adv) == TRUE

StillAllowed(ask, adv) == ask.what \in Actions => PermissionFor(ask.what, ask.ns, adv) # "denied"

\* ConfirmScreen::confirm and the onConfirm of each request; adv is Advanced
\* mode at that moment.
Confirm(ask, adv) ==
  /\ age' = 0
  /\ UNCHANGED fresh
  /\ CASE ~StillAllowed(ask, adv) ->
            /\ stack' = Applied(stack, 1, <<Result>>)
            /\ advanced' = adv
            /\ UNCHANGED store
       [] ask.what = "exit" ->
            /\ stack' = <<Dashboard>>
            /\ advanced' = FALSE
            /\ UNCHANGED store
       [] OTHER ->
            /\ store' \in Outcomes(ask)
            /\ stack' = Applied(Reload(stack, store'), 1 + ask.pops,
                                IF ask.what = "advanced" THEN <<>> ELSE <<Result>>)
            /\ advanced' = (adv \/ ask.what = "advanced")

-----------------------------------------------------------------------------
(* What each screen does with a key. A list offers the items it has read;  *)
(* which of them is selected, and whether a search takes the key as text,  *)
(* is left open.                                                           *)

Nothing == UNCHANGED ui

ListedNamespaces == {NsOf[k] : k \in {k \in Keys : Top.shown[k] # None}}
ListedKeys       == {k \in Keys : NsOf[k] = Top.ns /\ Top.shown[k] # None}

\* Enter does nothing while NVS cannot be read.
OnDashboard(ev) ==
  /\ Top.kind = "dashboard"
  /\ CASE ev = "enter" -> Nothing \/ Push(NamespaceList)
       [] ev = "back"  -> Push(ConfirmScreen(Ask("exit", None, None, None, "press", 0)))
       [] ev = "b"     -> Push(Plain("backup"))
       [] ev = "i"     -> Push(Plain("help"))
       [] ev = "a"     -> IF advanced THEN advanced' = FALSE /\ UNCHANGED <<store, stack, age, fresh>>
                          ELSE Push(ConfirmScreen(Ask("advanced", None, None, None, "hold", 0)))
       [] OTHER        -> Nothing

OnNamespaceList(ev) ==
  /\ Top.kind = "namespaces"
  /\ \/ Nothing
     \/ ev = "back" /\ Pop
     \/ ev = "i" /\ Push(Plain("help"))
     \/ \E n \in ListedNamespaces :
          \/ ev = "enter" /\ Push(NamespaceDetail(n))
          \/ ev = "d" /\ AskToChange("delete_namespace", n, None, None, 0)

OnNamespaceDetail(ev) ==
  /\ Top.kind = "namespace"
  /\ \/ Nothing
     \/ ev = "back" /\ Pop
     \/ ev = "i" /\ Push(Plain("help"))
     \/ \E k \in ListedKeys :
          \/ ev = "enter" /\ Push(KeyDetail(k, Top.shown[k]))
          \/ ev = "e" /\ StartEdit(k)
          \/ ev = "d" /\ AskToChange("delete_key", Top.ns, k, None, 0)

\* Wrong on purpose: leaves the screen of a deleted key open.
OnKeyDetail_NoPop(ev) ==
  /\ Top.kind = "key"
  /\ CASE ev = "back" -> Pop
       [] ev = "e"    -> StartEdit(Top.key)
       [] ev = "d"    -> AskToChange("delete_key", Top.ns, Top.key, None, 0)
       [] OTHER       -> Nothing

OnKeyDetail(ev) ==
  /\ Top.kind = "key"
  /\ CASE ev = "back" -> Pop
       [] ev = "e"    -> StartEdit(Top.key)
       [] ev = "d"    -> AskToChange("delete_key", Top.ns, Top.key, None, 1)
       [] OTHER       -> Nothing

\* The typed text may not be a value of the key's type.
OnEditValue(ev) ==
  /\ Top.kind = "edit"
  /\ \/ ev # "back" /\ Nothing
     \/ ev = "back" /\ Pop
     \/ ev = "enter" /\ \E v \in Values : AskToChange("edit", Top.ns, Top.key, v, 1)

OnConfirm(ev) ==
  /\ Top.kind = "confirm"
  /\ CASE ev = "back" -> Pop
       [] ev = "enter" /\ Top.armed /\ Top.ask.mode = "press" -> Confirm(Top.ask, advanced)
       [] OTHER -> Nothing

OnHelp(ev) ==
  /\ Top.kind = "help"
  /\ IF ev = "back" THEN Pop ELSE Nothing

OnResult(ev) ==
  /\ Top.kind = "result"
  /\ IF ev \in {"enter", "back"} THEN Pop ELSE Nothing

\* The result is also shown when there is no card.
OnBackup(ev) ==
  /\ Top.kind = "backup"
  /\ CASE ev = "back" -> Pop
       [] ev = "enter" ->
            \/ Push(Result)
            \/ Push(ConfirmScreen(Ask("export", None, None, None, "hold", 0)))
            \/ Push(ConfirmScreen(Ask("backup", None, None, None, "press", 0)))
            \/ Push(Plain("list"))
       [] OTHER -> Nothing

OnRestoreList(ev) ==
  /\ Top.kind = "list"
  /\ \/ ev # "back" /\ Nothing
     \/ ev = "back" /\ Pop
     \/ ev = "enter" /\ Push(Plain("preview"))

\* A backup that fails a check offers nothing.
OnPreview(ev) ==
  /\ Top.kind = "preview"
  /\ \/ ev # "back" /\ Nothing
     \/ ev = "back" /\ Pop
     \/ ev = "enter" /\ Push(ConfirmScreen(Ask("restore", None, None, None, "hold", 2)))

HandleKey(ev) ==
  /\ \/ OnDashboard(ev) \/ OnNamespaceList(ev) \/ OnNamespaceDetail(ev) \/ OnKeyDetail(ev)
     \/ OnEditValue(ev) \/ OnConfirm(ev) \/ OnResult(ev) \/ OnBackup(ev)
     \/ OnRestoreList(ev) \/ OnPreview(ev) \/ OnHelp(ev)
  /\ idle' = 0
  /\ UNCHANGED pc

-----------------------------------------------------------------------------
(* The keyboard of the desktop: an event watch on the SDL thread.          *)

\* Wrong on purpose: no limit.
Queued_Unlimited(ev) == Append(queue, ev)

Queued(ev) == IF Len(queue) < MaxQueued THEN Append(queue, ev) ELSE queue

DesktopKey(ev) ==
  /\ desktop /\ ~sending /\ ev # "enter"
  /\ queue' = Queued(ev)
  /\ UNCHANGED <<desktop, ui, held, down, sending, pc, idle>>

\* The flag first, the event in a step of its own: the main loop may run between.
DesktopEnterDown ==
  /\ desktop /\ ~down
  /\ down' = TRUE /\ held' = TRUE /\ sending' = TRUE
  /\ fresh' = TRUE
  /\ UNCHANGED <<desktop, store, stack, advanced, age, queue, pc, idle>>

DesktopEnterQueued ==
  /\ desktop /\ sending
  /\ queue' = Queued("enter")
  /\ sending' = FALSE
  /\ fresh' = TRUE
  /\ UNCHANGED <<desktop, store, stack, advanced, age, held, down, pc, idle>>

DesktopEnterUp ==
  /\ desktop /\ down /\ ~sending
  /\ down' = FALSE /\ held' = FALSE
  /\ UNCHANGED <<desktop, ui, queue, sending, pc, idle>>

DesktopPoll ==
  /\ desktop /\ pc = "poll" /\ queue # <<>>
  /\ HandleKey(Head(queue))
  /\ queue' = Tail(queue)
  /\ UNCHANGED <<desktop, held, down, sending>>

DesktopPollEmpty ==
  /\ desktop /\ pc = "poll" /\ queue = <<>>
  /\ pc' = "update"
  /\ UNCHANGED <<ui, keys, idle>>

-----------------------------------------------------------------------------
(* The keyboard of the device: pollKey samples it.                         *)

DeviceEnterDown ==
  /\ ~desktop /\ ~down
  /\ down' = TRUE /\ fresh' = TRUE
  /\ UNCHANGED <<desktop, store, stack, advanced, age, queue, held, sending, pc, idle>>

DeviceEnterUp ==
  /\ ~desktop /\ down
  /\ down' = FALSE
  /\ UNCHANGED <<desktop, ui, queue, held, sending, pc, idle>>

\* Something changed and a key is down. Enter has precedence over the others,
\* so any other key that goes down or up meanwhile gives one more Enter event.
DevicePoll ==
  /\ ~desktop /\ pc = "poll"
  /\ held' = down
  /\ IF down THEN HandleKey("enter") ELSE \E ev \in KeyEvent \ {"enter"} : HandleKey(ev)
  /\ UNCHANGED <<desktop, queue, down, sending>>

\* Nothing changed, or only a key went up.
DevicePollNothing ==
  /\ ~desktop /\ pc = "poll"
  /\ down => held
  /\ held' = down
  /\ pc' = "update"
  /\ UNCHANGED <<desktop, ui, queue, down, sending, idle>>

-----------------------------------------------------------------------------
(* UiController::update with ConfirmScreen::tick, then render and delay.   *)

\* Wrong on purpose: never locks.
StillUnlocked_Always == advanced

StillUnlocked == advanced /\ idle < IdleLock

\* The confirmation changes in place.
TopBecomes(screen) ==
  /\ stack' = [stack EXCEPT ![Len(stack)] = screen]
  /\ advanced' = StillUnlocked
  /\ UNCHANGED <<store, fresh>>

\* Enter has to be seen released first.
Arm ==
  /\ ~Top.armed
  /\ TopBecomes([Top EXCEPT !.armed = ~held])
  /\ UNCHANGED age

ReleaseHold ==
  /\ Top.armed /\ Top.ask.mode = "hold" /\ ~held
  /\ TopBecomes([Top EXCEPT !.holding = FALSE])
  /\ age' = 0

StartHold ==
  /\ Top.armed /\ Top.ask.mode = "hold" /\ held /\ ~Top.holding
  /\ TopBecomes([Top EXCEPT !.holding = TRUE])
  /\ age' = 0

KeepHolding ==
  /\ Top.armed /\ Top.ask.mode = "hold" /\ held /\ Top.holding
  /\ IF age < HoldTime THEN TopBecomes(Top) /\ UNCHANGED age
                       ELSE Confirm(Top.ask, StillUnlocked)

NoTick ==
  /\ Top.kind = "confirm" => Top.armed /\ Top.ask.mode = "press"
  /\ TopBecomes(Top)
  /\ UNCHANGED age

Update ==
  /\ pc = "update"
  /\ \/ Top.kind = "confirm" /\ (Arm \/ ReleaseHold \/ StartHold \/ KeepHolding)
     \/ NoTick
  /\ pc' = "delay"
  /\ UNCHANGED <<keys, idle>>

Capped(n, limit) == Min({n, limit})

\* Most passes of the loop are short; one that writes to the card is not.
Delay ==
  /\ pc = "delay"
  /\ \E d \in {1, IdleLock} :
       /\ idle' = Capped(idle + d, IdleLock)
       /\ age' = IF Top.holding THEN Capped(age + d, HoldTime) ELSE 0
  /\ pc' = "poll"
  /\ UNCHANGED <<store, stack, advanced, fresh, keys>>

-----------------------------------------------------------------------------
Init ==
  /\ desktop \in BOOLEAN
  /\ store \in Content
  /\ stack = <<Dashboard>>
  /\ advanced = FALSE
  /\ pc = "poll"
  /\ queue = <<>> /\ held = FALSE /\ down = FALSE /\ sending = FALSE
  /\ idle = 0 /\ age = 0 /\ fresh = FALSE

Keyboard ==
  \/ \E ev \in KeyEvent : DesktopKey(ev)
  \/ DesktopEnterDown \/ DesktopEnterQueued \/ DesktopEnterUp
  \/ DeviceEnterDown \/ DeviceEnterUp

Loop == DesktopPoll \/ DesktopPollEmpty \/ DevicePoll \/ DevicePollNothing \/ Update \/ Delay

Next == Keyboard \/ Loop

Spec == Init /\ [][Next]_vars

-----------------------------------------------------------------------------
(* Properties.                                                             *)

TypeOK ==
  /\ desktop \in BOOLEAN
  /\ store \in Content
  /\ stack \in Seq(Screen) /\ stack # <<>> /\ stack[1] = Dashboard
  /\ advanced \in BOOLEAN
  /\ pc \in {"poll", "update", "delay"}
  /\ queue \in Seq(KeyEvent) /\ Len(queue) <= MaxQueued
  /\ held \in BOOLEAN /\ down \in BOOLEAN /\ sending \in BOOLEAN
  /\ idle \in 0 .. IdleLock /\ age \in 0 .. HoldTime
  /\ fresh \in BOOLEAN

Changed(k) == store'[k] # store[k]

\* README.md, Safety: a SYSTEM namespace changes only in Advanced mode, also
\* when that locked after the confirmation was opened. (A restore replaces every
\* namespace and asks for that.)
SystemNeedsAdvanced ==
  [][ \A k \in Keys :
        Changed(k) /\ Class[NsOf[k]] = "system" /\ Top.ask.what # "restore" =>
          advanced /\ idle < IdleLock ]_vars

\* What the confirmation on the screen asks about.
Covers(ask, k) ==
  CASE ask.what \in {"delete_key", "edit"} -> ask.key = k
    [] ask.what = "delete_namespace"       -> ask.ns = NsOf[k]
    [] OTHER                               -> ask.what = "restore"

NeedsHold(ask) == ask.what \in {"delete_namespace", "restore"} \/ Class[ask.ns] # "application"

\* NVS changes only as the confirmation on the screen says, and only by an Enter
\* that came after it was opened; held long enough where README.md's table
\* asks for it. Neither a key still held, nor one typed ahead, nor another key
\* moving while Enter is held confirms anything.
ChangesAreConfirmed ==
  [][ \A k \in Keys :
        Changed(k) =>
          /\ Top.kind = "confirm" /\ Covers(Top.ask, k) /\ fresh
          /\ NeedsHold(Top.ask) => held /\ age = HoldTime ]_vars

\* No screen, also below the one on top, is about a key that is gone.
NoScreenOfDeletedKey ==
  \A i \in DOMAIN stack : stack[i].kind \in {"key", "edit"} => store[stack[i].key] # None

\* Whatever screen the user returns to shows NVS as it is.
ScreensAreCurrent ==
  \A i \in DOMAIN stack : stack[i].shown \in {None, store}

\* Advanced mode locks itself: once the idle time is up, a pass of the loop ends
\* unlocked only if a held Enter has unlocked it in that very pass.
LocksWhenIdle ==
  [][ pc = "update" /\ pc' = "delay" /\ idle = IdleLock /\ advanced' =>
        Top.kind = "confirm" /\ Top.ask.what = "advanced" /\ held /\ ~advanced ]_vars

\* UiController.h: modelChanged "tells every screen the model has new data". The
\* size on the screen of a key is that of the value on it.
ShownSizeIsCurrent ==
  Top.kind = "key" => Top.info = Top.shown[Top.key]
=============================================================================
