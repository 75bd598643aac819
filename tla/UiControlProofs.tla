--------------------------- MODULE UiControlProofs ---------------------------
(***************************************************************************)
(* The user interface changes a SYSTEM namespace in Advanced mode only;    *)
(* every screen of the stack, not only the one on top, shows NVS as it is  *)
(* and is about a key that is there; Advanced mode locks itself; and NVS   *)
(* changes only by an Enter meant for the confirmation on the screen. For  *)
(* every set of keys, values and namespaces, every classification, on both *)
(* keyboards and for every length of the queue, of a hold and of the idle  *)
(* time.                                                                   *)
(***************************************************************************)
EXTENDS UiControl, SequenceTheorems, TLAPS

USE UiAssumption, NsOfAssumption, NoneAssumption

\* What a confirmation asks is about the key it names, and a change of a SYSTEM
\* namespace has to be held.
AskOK(ask) ==
  /\ ask.what \in {"delete_key", "edit"} => ask.key \in Keys /\ ask.ns = NsOf[ask.key]
  /\ ask.what = "edit" => ask.val \in Values
  /\ ask.what = "delete_namespace" => ask.ns \in Namespaces
  /\ ask.what \in Actions => ask.ns \in Namespaces /\ (Class[ask.ns] = "system" => ask.mode = "hold")

\* Every kind of screen has what its handler uses.
ScreenOK(s) ==
  /\ s.kind \in {"namespaces", "namespace", "key"} => s.shown \in Content
  /\ s.kind = "namespace" => s.ns \in Namespaces
  /\ s.kind \in {"key", "edit"} => s.key \in Keys /\ s.ns = NsOf[s.key]
  /\ s.kind = "confirm" => s.ask \in Asks /\ AskOK(s.ask)

GoodScreen == {s \in Screen : ScreenOK(s)}

\* The inductive invariant, for what screens change and for the rest.
UiInv ==
  /\ store \in Content
  /\ stack \in Seq(GoodScreen) /\ stack # <<>> /\ stack[1] = Dashboard
  /\ advanced \in BOOLEAN
  /\ age \in 0 .. HoldTime
  /\ fresh \in BOOLEAN

LoopInv ==
  /\ pc \in {"poll", "update", "delay"}
  /\ queue \in Seq(KeyEvent) /\ Len(queue) <= MaxQueued
  /\ desktop \in BOOLEAN /\ held \in BOOLEAN /\ down \in BOOLEAN /\ sending \in BOOLEAN
  /\ idle \in 0 .. IdleLock

LEMMA InvTypes == UiInv /\ LoopInv => TypeOK
BY DEF UiInv, LoopInv, TypeOK, GoodScreen

-----------------------------------------------------------------------------
(* Screens and the stack.                                                  *)

LEMMA TopIsGood ==
  ASSUME UiInv
  PROVE  Top \in GoodScreen /\ Top = stack[Len(stack)] /\ Len(stack) \in Nat \ {0}
BY DEF UiInv, Top

LEMMA PlainScreens ==
  ASSUME NEW kind \in {"dashboard", "result", "backup", "list", "preview", "help"}
  PROVE  Plain(kind) \in GoodScreen
BY DEF Plain, GoodScreen, ScreenOK, Screen

LEMMA OtherScreens ==
  ASSUME UiInv
  PROVE  /\ NamespaceList \in GoodScreen
         /\ \A n \in Namespaces : NamespaceDetail(n) \in GoodScreen
         /\ \A k \in Keys, info \in Values \cup {None} : KeyDetail(k, info) \in GoodScreen
         /\ \A k \in Keys : EditValue(k) \in GoodScreen
         /\ Result \in GoodScreen
         /\ \A ask \in Asks : AskOK(ask) => ConfirmScreen(ask) \in GoodScreen
<1> USE DEF Plain, GoodScreen, ScreenOK, Screen, UiInv
<1>1. NamespaceList \in GoodScreen BY DEF NamespaceList
<1>2. ASSUME NEW n \in Namespaces PROVE NamespaceDetail(n) \in GoodScreen BY DEF NamespaceDetail
<1>3. ASSUME NEW k \in Keys, NEW info \in Values \cup {None} PROVE KeyDetail(k, info) \in GoodScreen
  BY DEF KeyDetail
<1>4. ASSUME NEW k \in Keys PROVE EditValue(k) \in GoodScreen BY DEF EditValue
<1>5. Result \in GoodScreen BY DEF Result
<1>6. ASSUME NEW ask \in Asks, AskOK(ask) PROVE ConfirmScreen(ask) \in GoodScreen
  BY <1>6 DEF ConfirmScreen
<1> QED BY <1>1, <1>2, <1>3, <1>4, <1>5, <1>6

LEMMA PushKeeps ==
  ASSUME UiInv, NEW screen \in GoodScreen, Push(screen)
  PROVE  UiInv' /\ store' = store
<1>1. Len(stack) \in Nat \ {0} BY TopIsGood
<1>2. /\ stack' \in Seq(GoodScreen)
      /\ stack' # <<>>
      /\ stack'[1] = stack[1]
  BY <1>1, AppendProperties DEF UiInv, Push
<1>3. fresh' \in BOOLEAN BY DEF UiInv, Push
<1>4. store' = store /\ advanced' = advanced /\ age' = age BY DEF Push
<1> QED BY <1>2, <1>3, <1>4 DEF UiInv, Content

\* Popping leaves the dashboard.
LEMMA AppliedKeeps ==
  ASSUME NEW s \in Seq(GoodScreen), s # <<>>, s[1] = Dashboard,
         NEW pops \in Nat, NEW pushed \in Seq(GoodScreen)
  PROVE  /\ Applied(s, pops, pushed) \in Seq(GoodScreen)
         /\ Applied(s, pops, pushed) # <<>>
         /\ Applied(s, pops, pushed)[1] = Dashboard
<1>1. Len(s) \in Nat \ {0} BY EmptySeq
<1> DEFINE m == IF Len(s) > pops THEN Len(s) - pops ELSE 1
           kept == SubSeq(s, 1, m)
<1>2. m \in 1 .. Len(s) BY <1>1
<1>3. \A i \in 1 .. m : s[i] \in GoodScreen BY <1>1, <1>2
<1> HIDE DEF m
<1>4. kept \in Seq(GoodScreen) /\ Len(kept) = m /\ kept[1] = s[1]
  BY <1>2, <1>3, SubSeqProperties
<1> HIDE DEF kept
<1>5a. Len(pushed) \in Nat BY LenProperties
<1>5. /\ kept \o pushed \in Seq(GoodScreen)
      /\ Len(kept \o pushed) = Len(kept) + Len(pushed)
      /\ (kept \o pushed)[1] = kept[1]
  <2>1. /\ kept \o pushed \in Seq(GoodScreen)
        /\ Len(kept \o pushed) = Len(kept) + Len(pushed)
        /\ \A i \in 1 .. Len(kept) + Len(pushed) :
              (kept \o pushed)[i] = IF i <= Len(kept) THEN kept[i] ELSE pushed[i - Len(kept)]
    BY <1>4, ConcatProperties
  <2>2. 1 \in 1 .. Len(kept) + Len(pushed) /\ 1 <= Len(kept) BY <1>1, <1>2, <1>4, <1>5a
  <2> QED BY <2>1, <2>2
<1>6. kept \o pushed # <<>>
  <2>1. Len(kept \o pushed) # 0 BY <1>1, <1>2, <1>4, <1>5a, <1>5
  <2> QED BY <2>1, EmptySeq
<1>7. Applied(s, pops, pushed) = kept \o pushed BY DEF Applied, kept, m
<1> QED BY <1>4, <1>5, <1>6, <1>7

LEMMA PopKeeps ==
  ASSUME UiInv, Pop
  PROVE  UiInv' /\ store' = store
<1>1. <<>> \in Seq(GoodScreen) /\ 1 \in Nat OBVIOUS
<1>2. stack \in Seq(GoodScreen) /\ stack # <<>> /\ stack[1] = Dashboard BY DEF UiInv
<1>3. stack' = Applied(stack, 1, <<>>) BY DEF Pop
<1>4. stack' \in Seq(GoodScreen) /\ stack' # <<>> /\ stack'[1] = Dashboard
  BY <1>1, <1>2, <1>3, AppliedKeeps
<1>5. store' = store /\ advanced' = advanced /\ age' = 0 /\ fresh' = fresh BY DEF Pop
<1> QED BY <1>4, <1>5 DEF UiInv, Content

LEMMA ReloadKeeps ==
  ASSUME UiInv, NEW content \in Content
  PROVE  /\ Reload(stack, content) \in Seq(GoodScreen)
         /\ Reload(stack, content) # <<>>
         /\ Reload(stack, content)[1] = Dashboard
<1>1. Len(stack) \in Nat \ {0} /\ DOMAIN stack = 1 .. Len(stack) BY DEF UiInv
<1>2. ASSUME NEW i \in DOMAIN stack PROVE Reload(stack, content)[i] \in GoodScreen
  <2>1. stack[i] \in GoodScreen BY <1>1 DEF UiInv
  <2>2. stack[i].kind \in {"namespaces", "namespace", "key"} =>
          [stack[i] EXCEPT !.shown = content] \in GoodScreen
    BY <2>1 DEF GoodScreen, ScreenOK, Screen
  <2> QED BY <2>1, <2>2 DEF Reload
<1>3. Reload(stack, content) \in [1 .. Len(stack) -> GoodScreen] BY <1>1, <1>2 DEF Reload
<1>4. Reload(stack, content) \in Seq(GoodScreen) BY <1>1, <1>3, SeqDef
<1>5. Reload(stack, content)[1] = Dashboard BY <1>1 DEF Reload, UiInv, Dashboard, Plain
<1>6. Len(Reload(stack, content)) = Len(stack) BY <1>1, <1>3, <1>4
<1> QED BY <1>1, <1>4, <1>5, <1>6

-----------------------------------------------------------------------------
(* Handling a key.                                                         *)

\* A handler that changes only what is on the screen.
Quiet == UiInv' /\ store' = store

LEMMA NothingIsQuiet == ASSUME UiInv, Nothing PROVE Quiet
BY DEF UiInv, Nothing, ui, Quiet, Content

LEMMA PushIsQuiet == ASSUME UiInv, NEW screen \in GoodScreen, Push(screen) PROVE Quiet
BY PushKeeps DEF Quiet

LEMMA PopIsQuiet == ASSUME UiInv, Pop PROVE Quiet
BY PopKeeps DEF Quiet

LEMMA ResultIsQuiet == ASSUME UiInv, Push(Result) PROVE Quiet
BY OtherScreens, PushIsQuiet

\* Requests that change no single key.
LEMMA GeneralAsks ==
  ASSUME UiInv, NEW what \in {"advanced", "exit", "export", "backup", "restore"},
         NEW mode \in {"press", "hold"}, NEW pops \in 0 .. 2
  PROVE  ConfirmScreen(Ask(what, None, None, None, mode, pops)) \in GoodScreen
<1>1. Ask(what, None, None, None, mode, pops) \in Asks BY DEF Ask, Asks
<1>2. AskOK(Ask(what, None, None, None, mode, pops)) BY DEF Ask, AskOK, Actions
<1> QED BY <1>1, <1>2, OtherScreens

\* Asking to change a SYSTEM namespace is refused or has to be held.
LEMMA AskIsQuiet ==
  ASSUME UiInv, NEW action \in Actions, NEW n \in Namespaces, NEW k \in Keys \cup {None},
         NEW v \in Values \cup {None}, NEW pops \in 0 .. 2,
         action # "delete_namespace" => k \in Keys /\ n = NsOf[k],
         action = "edit" => v \in Values,
         AskToChange(action, n, k, v, pops)
  PROVE  Quiet
<1> DEFINE permission == PermissionFor(action, n, advanced)
           ask == Ask(action, n, k, v, permission, pops)
<1>1. Class[n] \in NamespaceClasses /\ advanced \in BOOLEAN BY DEF UiInv
<1>2. permission \in {"press", "hold", "denied"} /\ (Class[n] = "system" => permission # "press")
  BY <1>1 DEF PermissionFor, NamespaceClasses
<1>3. CASE permission = "denied"
  <2>1. Push(Result) BY <1>3 DEF AskToChange
  <2> QED BY <2>1, ResultIsQuiet
<1>4. CASE permission # "denied"
  <2>1. permission \in {"press", "hold"} BY <1>2, <1>4
  <2>2. Push(ConfirmScreen(ask)) BY <1>4 DEF AskToChange
  <2> HIDE DEF permission
  <2>3. ask \in Asks BY <2>1 DEF Ask, Asks, Actions
  <2>4. AskOK(ask) BY <1>2, <2>1 DEF Ask, AskOK, Actions
  <2> HIDE DEF ask
  <2>5. ConfirmScreen(ask) \in GoodScreen BY <2>3, <2>4, OtherScreens
  <2> QED BY <2>2, <2>5, PushIsQuiet
<1> QED BY <1>3, <1>4

LEMMA StartEditIsQuiet ==
  ASSUME UiInv, NEW k \in Keys, StartEdit(k)
  PROVE  Quiet
<1>1. Push(Result) \/ Push(EditValue(k)) BY DEF StartEdit
<1>2. Result \in GoodScreen /\ EditValue(k) \in GoodScreen BY OtherScreens
<1> QED BY <1>1, <1>2, PushIsQuiet

LEMMA OutcomesAreContent ==
  ASSUME UiInv, NEW ask \in Asks, AskOK(ask), NEW c \in Outcomes(ask)
  PROVE  c \in Content
<1>1. store \in Content BY DEF UiInv
<1>2. CASE ask.what = "delete_key" BY <1>1, <1>2 DEF Outcomes, Content, AskOK
<1>3. CASE ask.what = "edit" BY <1>1, <1>3 DEF Outcomes, Content, AskOK
<1>4. CASE ask.what = "delete_namespace"
  <2>1. PICK gone \in SUBSET {k \in Keys : NsOf[k] = ask.ns} :
          c = [k \in Keys |-> IF k \in gone THEN None ELSE store[k]]
    BY <1>4 DEF Outcomes
  <2> QED BY <1>1, <2>1 DEF Content
<1>5. CASE ask.what = "restore" BY <1>5 DEF Outcomes
<1>6. CASE ask.what \notin {"delete_key", "edit", "delete_namespace", "restore"}
  BY <1>1, <1>6 DEF Outcomes
<1> QED BY <1>2, <1>3, <1>4, <1>5, <1>6

\* What a change of a single key or namespace leaves alone.
LEMMA OutcomesAreLocal ==
  ASSUME UiInv, NEW ask \in Asks, AskOK(ask), NEW c \in Outcomes(ask), NEW k \in Keys,
         c[k] # store[k], ask.what # "restore"
  PROVE  ask.what \in Actions /\ ask.ns = NsOf[k]
<1>1. store \in Content BY DEF UiInv
<1>2. CASE ask.what = "delete_key" BY <1>1, <1>2 DEF Outcomes, Content, AskOK, Actions
<1>3. CASE ask.what = "edit" BY <1>1, <1>3 DEF Outcomes, Content, AskOK, Actions
<1>4. CASE ask.what = "delete_namespace"
  <2>1. PICK gone \in SUBSET {kk \in Keys : NsOf[kk] = ask.ns} :
          c = [kk \in Keys |-> IF kk \in gone THEN None ELSE store[kk]]
    BY <1>4 DEF Outcomes
  <2> QED BY <1>1, <1>4, <2>1 DEF Content, Actions
<1>5. CASE ask.what \notin {"delete_key", "edit", "delete_namespace", "restore"}
  BY <1>5 DEF Outcomes
<1> QED BY <1>2, <1>3, <1>4, <1>5

-----------------------------------------------------------------------------
(* Confirming.                                                             *)

LEMMA ConfirmKeeps ==
  ASSUME UiInv, Top.kind = "confirm", NEW adv \in BOOLEAN, Confirm(Top.ask, adv)
  PROVE  UiInv'
<1> DEFINE ask == Top.ask
<1>1. ask \in Asks /\ AskOK(ask) BY TopIsGood DEF GoodScreen, ScreenOK
<1>2. ask.pops \in Nat /\ 1 + ask.pops \in Nat BY <1>1 DEF Asks
<1> HIDE DEF ask
<1>3. age' = 0 /\ fresh' = fresh BY DEF Confirm
<1>4. <<>> \in Seq(GoodScreen) /\ <<Result>> \in Seq(GoodScreen) BY OtherScreens
<1>5. stack \in Seq(GoodScreen) /\ stack # <<>> /\ stack[1] = Dashboard BY DEF UiInv
<1>6. CASE ~StillAllowed(ask, adv)
  <2>1. stack' = Applied(stack, 1, <<Result>>) /\ advanced' = adv /\ store' = store
    <3>1. ask.what # "exit" BY <1>6 DEF StillAllowed, Actions
    <3> QED BY <1>6, <3>1 DEF Confirm, ask
  <2>2. stack' \in Seq(GoodScreen) /\ stack' # <<>> /\ stack'[1] = Dashboard
    BY <1>4, <1>5, <2>1, AppliedKeeps
  <2> QED BY <1>3, <2>1, <2>2 DEF UiInv, Content
<1>7. CASE StillAllowed(ask, adv) /\ ask.what = "exit"
  <2>1. stack' = <<Dashboard>> /\ advanced' = FALSE /\ store' = store
    BY <1>7 DEF Confirm, ask
  <2>2. Dashboard \in GoodScreen BY PlainScreens DEF Dashboard
  <2>3. stack' \in Seq(GoodScreen) /\ stack' # <<>> /\ stack'[1] = Dashboard BY <2>1, <2>2
  <2>4. store' \in Content BY <2>1 DEF UiInv, Content
  <2>5. age' \in 0 .. HoldTime /\ fresh' \in BOOLEAN BY <1>3 DEF UiInv
  <2>6. advanced' \in BOOLEAN BY <2>1
  <2> QED BY <2>3, <2>4, <2>5, <2>6 DEF UiInv
<1>8. CASE StillAllowed(ask, adv) /\ ask.what # "exit"
  <2> DEFINE pushed == IF ask.what = "advanced" THEN <<>> ELSE <<Result>>
  <2>1. /\ store' \in Outcomes(ask)
        /\ stack' = Applied(Reload(stack, store'), 1 + ask.pops, pushed)
        /\ advanced' = (adv \/ ask.what = "advanced")
    BY <1>8 DEF Confirm, ask
  <2>2. store' \in Content BY <1>1, <2>1, OutcomesAreContent
  <2>3. /\ Reload(stack, store') \in Seq(GoodScreen)
        /\ Reload(stack, store') # <<>>
        /\ Reload(stack, store')[1] = Dashboard
    BY <2>2, ReloadKeeps
  <2>4. pushed \in Seq(GoodScreen) BY <1>4
  <2> HIDE DEF pushed
  <2>5. stack' \in Seq(GoodScreen) /\ stack' # <<>> /\ stack'[1] = Dashboard
    BY <1>2, <2>1, <2>3, <2>4, AppliedKeeps
  <2>6. advanced' \in BOOLEAN BY <2>1
  <2>7. age' \in 0 .. HoldTime /\ fresh' \in BOOLEAN BY <1>3 DEF UiInv
  <2> QED BY <2>2, <2>5, <2>6, <2>7 DEF UiInv, Content
<1> QED BY <1>6, <1>7, <1>8

\* A confirmed change of a SYSTEM key had Advanced mode and was held.
LEMMA ConfirmNeedsAdvanced ==
  ASSUME UiInv, Top.kind = "confirm", NEW adv \in BOOLEAN, Confirm(Top.ask, adv),
         NEW k \in Keys, Changed(k), Class[NsOf[k]] = "system", Top.ask.what # "restore"
  PROVE  adv /\ Top.ask.mode = "hold"
<1> DEFINE ask == Top.ask
<1>1. ask \in Asks /\ AskOK(ask) BY TopIsGood DEF GoodScreen, ScreenOK
<1>2. StillAllowed(ask, adv) /\ store' \in Outcomes(ask) BY DEF Confirm, Changed
<1> HIDE DEF ask
<1>3. ask.what \in Actions /\ ask.ns = NsOf[k]
  BY <1>1, <1>2, OutcomesAreLocal DEF Changed, ask
<1>4. ask.mode = "hold" BY <1>1, <1>3 DEF AskOK
<1>5. PermissionFor(ask.what, ask.ns, adv) # "denied" BY <1>2, <1>3 DEF StillAllowed
<1>6. adv BY <1>3, <1>5 DEF PermissionFor
<1> QED BY <1>4, <1>6 DEF ask

-----------------------------------------------------------------------------
(* The handlers.                                                           *)

\* No handler but that of a confirmation changes NVS, and that one no SYSTEM
\* namespace: those confirmations have to be held.
Harmless == UiInv' /\ \A k \in Keys : Changed(k) => Class[NsOf[k]] # "system" \/ Top.ask.what = "restore"

LEMMA QuietIsHarmless == Quiet => Harmless
BY DEF Quiet, Harmless, Changed

LEMMA DashboardIsQuiet == ASSUME UiInv, NEW ev \in KeyEvent, OnDashboard(ev) PROVE Quiet
<1>1. NamespaceList \in GoodScreen /\ Plain("backup") \in GoodScreen /\ Plain("help") \in GoodScreen
  BY OtherScreens, PlainScreens
<1>2. /\ ConfirmScreen(Ask("exit", None, None, None, "press", 0)) \in GoodScreen
      /\ ConfirmScreen(Ask("advanced", None, None, None, "hold", 0)) \in GoodScreen
  BY GeneralAsks
<1>3. CASE advanced' = FALSE /\ UNCHANGED <<store, stack, age, fresh>>
  BY <1>3 DEF UiInv, Quiet, Content
<1>4. \/ Nothing \/ Push(NamespaceList) \/ Push(Plain("backup")) \/ Push(Plain("help"))
      \/ Push(ConfirmScreen(Ask("exit", None, None, None, "press", 0)))
      \/ Push(ConfirmScreen(Ask("advanced", None, None, None, "hold", 0)))
      \/ advanced' = FALSE /\ UNCHANGED <<store, stack, age, fresh>>
  BY DEF OnDashboard, KeyEvent
<1> QED BY <1>1, <1>2, <1>3, <1>4, NothingIsQuiet, PushIsQuiet

LEMMA NamespaceListIsQuiet == ASSUME UiInv, NEW ev \in KeyEvent, OnNamespaceList(ev) PROVE Quiet
<1>1. ASSUME NEW n \in ListedNamespaces PROVE n \in Namespaces BY <1>1 DEF ListedNamespaces
<1>2. ASSUME NEW n \in ListedNamespaces, Push(NamespaceDetail(n)) PROVE Quiet
  BY <1>1, <1>2, OtherScreens, PushIsQuiet
<1>3. ASSUME NEW n \in ListedNamespaces, AskToChange("delete_namespace", n, None, None, 0) PROVE Quiet
  BY <1>1, <1>3, AskIsQuiet DEF Actions
<1>4. CASE Push(Plain("help")) BY <1>4, PlainScreens, PushIsQuiet
<1> QED BY <1>2, <1>3, <1>4, NothingIsQuiet, PopIsQuiet DEF OnNamespaceList

LEMMA NamespaceDetailIsQuiet == ASSUME UiInv, NEW ev \in KeyEvent, OnNamespaceDetail(ev) PROVE Quiet
<1>1. Top.shown \in Content /\ Top.ns \in Namespaces
  BY TopIsGood DEF OnNamespaceDetail, GoodScreen, ScreenOK
<1>2. ASSUME NEW k \in ListedKeys
      PROVE  k \in Keys /\ Top.ns = NsOf[k] /\ Top.shown[k] \in Values \cup {None}
  BY <1>1, <1>2 DEF ListedKeys, Content
<1>3. ASSUME NEW k \in ListedKeys, Push(KeyDetail(k, Top.shown[k])) PROVE Quiet
  BY <1>2, <1>3, OtherScreens, PushIsQuiet
<1>4. ASSUME NEW k \in ListedKeys, StartEdit(k) PROVE Quiet BY <1>2, <1>4, StartEditIsQuiet
<1>5. ASSUME NEW k \in ListedKeys, AskToChange("delete_key", Top.ns, k, None, 0) PROVE Quiet
  BY <1>1, <1>2, <1>5, AskIsQuiet DEF Actions
<1>6. CASE Push(Plain("help")) BY <1>6, PlainScreens, PushIsQuiet
<1> QED BY <1>3, <1>4, <1>5, <1>6, NothingIsQuiet, PopIsQuiet DEF OnNamespaceDetail

LEMMA KeyDetailIsQuiet == ASSUME UiInv, NEW ev \in KeyEvent, OnKeyDetail(ev) PROVE Quiet
<1>1. Top.key \in Keys /\ Top.ns = NsOf[Top.key] /\ Top.ns \in Namespaces
  BY TopIsGood DEF OnKeyDetail, GoodScreen, ScreenOK
<1>2. CASE AskToChange("delete_key", Top.ns, Top.key, None, 1) BY <1>1, <1>2, AskIsQuiet DEF Actions
<1>3. CASE StartEdit(Top.key) BY <1>1, <1>3, StartEditIsQuiet
<1> QED BY <1>2, <1>3, NothingIsQuiet, PopIsQuiet DEF OnKeyDetail, KeyEvent

LEMMA EditValueIsQuiet == ASSUME UiInv, NEW ev \in KeyEvent, OnEditValue(ev) PROVE Quiet
<1>1. Top.key \in Keys /\ Top.ns = NsOf[Top.key] /\ Top.ns \in Namespaces
  BY TopIsGood DEF OnEditValue, GoodScreen, ScreenOK
<1>2. ASSUME NEW v \in Values, AskToChange("edit", Top.ns, Top.key, v, 1) PROVE Quiet
  BY <1>1, <1>2, AskIsQuiet DEF Actions
<1> QED BY <1>2, NothingIsQuiet, PopIsQuiet DEF OnEditValue

LEMMA ConfirmIsHarmless == ASSUME UiInv, NEW ev \in KeyEvent, OnConfirm(ev) PROVE Harmless
<1>1. CASE Top.ask.mode = "press" /\ Confirm(Top.ask, advanced)
  <2>1. Top.kind = "confirm" /\ advanced \in BOOLEAN BY DEF OnConfirm, UiInv
  <2>2. UiInv' BY <1>1, <2>1, ConfirmKeeps
  <2>3. ASSUME NEW k \in Keys, Changed(k), Class[NsOf[k]] = "system", Top.ask.what # "restore"
        PROVE  FALSE
    BY <1>1, <2>1, <2>3, ConfirmNeedsAdvanced
  <2> QED BY <2>2, <2>3 DEF Harmless
<1>2. Nothing \/ Pop \/ (Top.ask.mode = "press" /\ Confirm(Top.ask, advanced)) BY DEF OnConfirm
<1> QED BY <1>1, <1>2, NothingIsQuiet, PopIsQuiet, QuietIsHarmless

LEMMA OthersAreQuiet ==
  ASSUME UiInv, NEW ev \in KeyEvent,
         OnResult(ev) \/ OnHelp(ev) \/ OnBackup(ev) \/ OnRestoreList(ev) \/ OnPreview(ev)
  PROVE  Quiet
<1>1. Plain("list") \in GoodScreen /\ Plain("preview") \in GoodScreen /\ Result \in GoodScreen
  BY PlainScreens, OtherScreens
<1>2. /\ ConfirmScreen(Ask("export", None, None, None, "hold", 0)) \in GoodScreen
      /\ ConfirmScreen(Ask("backup", None, None, None, "press", 0)) \in GoodScreen
      /\ ConfirmScreen(Ask("restore", None, None, None, "hold", 2)) \in GoodScreen
  BY GeneralAsks
<1>3. CASE OnResult(ev) \/ OnHelp(ev)
  BY <1>3, NothingIsQuiet, PopIsQuiet DEF OnResult, OnHelp
<1>4. CASE OnBackup(ev)
  BY <1>1, <1>2, <1>4, NothingIsQuiet, PopIsQuiet, PushIsQuiet DEF OnBackup
<1>5. CASE OnRestoreList(ev) \/ OnPreview(ev)
  BY <1>1, <1>2, <1>5, NothingIsQuiet, PopIsQuiet, PushIsQuiet DEF OnRestoreList, OnPreview
<1> QED BY <1>3, <1>4, <1>5

LEMMA HandleKeyIsHarmless ==
  ASSUME UiInv, LoopInv, NEW ev \in KeyEvent, HandleKey(ev)
  PROVE  Harmless /\ idle' = 0 /\ pc' = pc
BY DashboardIsQuiet, NamespaceListIsQuiet, NamespaceDetailIsQuiet, KeyDetailIsQuiet, EditValueIsQuiet,
   ConfirmIsHarmless, OthersAreQuiet, QuietIsHarmless DEF HandleKey

-----------------------------------------------------------------------------
(* One pass of the loop.                                                   *)

\* What a step may do to SYSTEM namespaces.
Allowed ==
  \A k \in Keys :
    Changed(k) /\ Class[NsOf[k]] = "system" /\ Top.ask.what # "restore" => advanced /\ idle < IdleLock

LEMMA ConfirmIsNotDashboard ==
  ASSUME UiInv, Top.kind = "confirm"
  PROVE  Len(stack) # 1
BY TopIsGood DEF UiInv, Dashboard, Plain

LEMMA TopBecomesKeeps ==
  ASSUME UiInv, LoopInv, NEW screen \in GoodScreen, Top.kind = "confirm" \/ screen = Top,
         TopBecomes(screen)
  PROVE  /\ store' \in Content /\ store' = store
         /\ stack' \in Seq(GoodScreen) /\ stack' # <<>> /\ stack'[1] = Dashboard
         /\ advanced' \in BOOLEAN /\ fresh' \in BOOLEAN
<1>1. Len(stack) \in Nat \ {0} BY TopIsGood
<1>2. stack' = [stack EXCEPT ![Len(stack)] = screen] BY DEF TopBecomes
<1>3. /\ stack' \in Seq(GoodScreen) /\ Len(stack') = Len(stack)
      /\ \A j \in 1 .. Len(stack) : stack'[j] = IF j = Len(stack) THEN screen ELSE stack[j]
  BY <1>1, <1>2, ExceptSeq DEF UiInv
<1>4. stack' # <<>> BY <1>1, <1>3, EmptySeq
<1>5. stack'[1] = Dashboard
  <2>1. CASE Len(stack) = 1
    <3>1. screen = Top BY <2>1, ConfirmIsNotDashboard
    <3> QED BY <1>1, <1>3, <2>1, <3>1, TopIsGood DEF UiInv
  <2>2. CASE Len(stack) # 1 BY <1>1, <1>3, <2>2 DEF UiInv
  <2> QED BY <2>1, <2>2
<1>6. store' = store /\ fresh' = fresh BY DEF TopBecomes
<1>7. advanced' \in BOOLEAN BY DEF TopBecomes, StillUnlocked
<1> QED BY <1>3, <1>4, <1>5, <1>6, <1>7 DEF UiInv, Content

LEMMA UpdateIsAllowed ==
  ASSUME UiInv, LoopInv, Update
  PROVE  UiInv' /\ LoopInv' /\ Allowed
<1>1. LoopInv' BY DEF Update, keys, LoopInv
<1>2. Top \in GoodScreen BY TopIsGood
<1>3. \A b \in BOOLEAN :
        [Top EXCEPT !.armed = b] \in GoodScreen /\ [Top EXCEPT !.holding = b] \in GoodScreen
  BY <1>2 DEF GoodScreen, ScreenOK, Screen
<1>4. ASSUME NEW screen \in GoodScreen, Top.kind = "confirm" \/ screen = Top, TopBecomes(screen),
             age' = 0 \/ age' = age
      PROVE  UiInv' /\ Allowed
  <2>1. age' \in 0 .. HoldTime BY <1>4 DEF UiInv
  <2>2. /\ store' \in Content /\ store' = store
        /\ stack' \in Seq(GoodScreen) /\ stack' # <<>> /\ stack'[1] = Dashboard
        /\ advanced' \in BOOLEAN /\ fresh' \in BOOLEAN
    BY <1>4, TopBecomesKeeps
  <2> QED BY <2>1, <2>2 DEF UiInv, Allowed, Changed
<1>5. CASE Top.kind = "confirm" /\ Arm
  <2>1. (~held) \in BOOLEAN BY DEF LoopInv
  <2> QED BY <1>1, <1>3, <1>4, <1>5, <2>1 DEF Arm
<1>6. CASE Top.kind = "confirm" /\ ReleaseHold BY <1>1, <1>3, <1>4, <1>6 DEF ReleaseHold
<1>7. CASE Top.kind = "confirm" /\ StartHold BY <1>1, <1>3, <1>4, <1>7 DEF StartHold
<1>8. CASE Top.kind = "confirm" /\ KeepHolding
  <2>1. CASE TopBecomes(Top) /\ UNCHANGED age BY <1>1, <1>2, <1>4, <2>1
  <2>2. CASE Confirm(Top.ask, StillUnlocked)
    <3>1. StillUnlocked \in BOOLEAN BY DEF StillUnlocked
    <3>2. UiInv' BY <1>8, <2>2, <3>1, ConfirmKeeps
    <3>3. ASSUME NEW k \in Keys, Changed(k), Class[NsOf[k]] = "system", Top.ask.what # "restore"
          PROVE  StillUnlocked
      BY <1>8, <2>2, <3>1, <3>3, ConfirmNeedsAdvanced
    <3> QED BY <1>1, <3>2, <3>3 DEF Allowed, StillUnlocked
  <2> QED BY <1>8, <2>1, <2>2 DEF KeepHolding
<1>9. CASE NoTick BY <1>1, <1>2, <1>4, <1>9 DEF NoTick
<1> QED BY <1>1, <1>5, <1>6, <1>7, <1>8, <1>9 DEF Update

LEMMA CappedBounds ==
  ASSUME NEW n \in Nat, NEW limit \in Nat
  PROVE  Capped(n, limit) \in 0 .. limit
<1>1. \E x \in {n, limit} : \A y \in {n, limit} : x <= y
  <2>1. CASE n <= limit BY <2>1
  <2>2. CASE limit <= n BY <2>2
  <2> QED BY <2>1, <2>2
<1>2. /\ Min({n, limit}) \in {n, limit}
      /\ \A y \in {n, limit} : Min({n, limit}) <= y
  BY <1>1 DEF Min
<1> QED BY <1>2 DEF Capped

LEMMA DelayIsAllowed ==
  ASSUME UiInv, LoopInv, Delay
  PROVE  UiInv' /\ LoopInv' /\ Allowed
<1>1. PICK d \in {1, IdleLock} :
        /\ idle' = Capped(idle + d, IdleLock)
        /\ age' = IF Top.holding THEN Capped(age + d, HoldTime) ELSE 0
  BY DEF Delay
<1>2. idle + d \in Nat /\ age + d \in Nat BY DEF UiInv, LoopInv
<1>3. idle' \in 0 .. IdleLock BY <1>1, <1>2, CappedBounds
<1>4. Capped(age + d, HoldTime) \in 0 .. HoldTime BY <1>2, CappedBounds
<1>5. age' \in 0 .. HoldTime BY <1>1, <1>4
<1>6. LoopInv' BY <1>3 DEF Delay, keys, LoopInv
<1>7. UiInv' BY <1>5 DEF Delay, UiInv, Content
<1> QED BY <1>6, <1>7 DEF Allowed, Changed, Delay

\* The keyboards, and steps that change nothing on the screens.
LEMMA KeyboardIsAllowed ==
  ASSUME UiInv, LoopInv, Keyboard
  PROVE  UiInv' /\ LoopInv' /\ Allowed
<1>1. store' = store /\ stack' = stack /\ advanced' = advanced /\ age' = age /\ fresh' \in BOOLEAN
  BY DEF Keyboard, DesktopKey, DesktopEnterDown, DesktopEnterQueued, DesktopEnterUp, DeviceEnterDown,
         DeviceEnterUp, ui, UiInv
<1>2. UiInv' /\ Allowed BY <1>1 DEF UiInv, Content, Allowed, Changed
<1>3. \A ev \in KeyEvent : Queued(ev) \in Seq(KeyEvent) /\ Len(Queued(ev)) <= MaxQueued
  <2> TAKE ev \in KeyEvent
  <2>1. queue \in Seq(KeyEvent) /\ Len(queue) \in Nat /\ Len(queue) <= MaxQueued BY DEF LoopInv
  <2>2. CASE Len(queue) < MaxQueued
    <3>1. Append(queue, ev) \in Seq(KeyEvent) /\ Len(Append(queue, ev)) = Len(queue) + 1
      BY <2>1, AppendProperties
    <3> QED BY <2>1, <2>2, <3>1 DEF Queued
  <2>3. CASE ~(Len(queue) < MaxQueued) BY <2>1, <2>3 DEF Queued
  <2> QED BY <2>2, <2>3
<1>4. "enter" \in KeyEvent BY DEF KeyEvent
<1>5. LoopInv'
  <2>1. ASSUME NEW ev \in KeyEvent, DesktopKey(ev) PROVE LoopInv'
    BY <1>3, <2>1 DEF DesktopKey, LoopInv
  <2>2. CASE DesktopEnterDown BY <2>2 DEF DesktopEnterDown, LoopInv
  <2>3. CASE DesktopEnterQueued BY <1>3, <1>4, <2>3 DEF DesktopEnterQueued, LoopInv
  <2>4. CASE DesktopEnterUp BY <2>4 DEF DesktopEnterUp, LoopInv
  <2>5. CASE DeviceEnterDown BY <2>5 DEF DeviceEnterDown, LoopInv
  <2>6. CASE DeviceEnterUp BY <2>6 DEF DeviceEnterUp, LoopInv
  <2> QED BY <2>1, <2>2, <2>3, <2>4, <2>5, <2>6 DEF Keyboard
<1> QED BY <1>2, <1>5

\* A poll that finds nothing.
LEMMA EmptyPollIsAllowed ==
  ASSUME UiInv, LoopInv, DesktopPollEmpty \/ DevicePollNothing
  PROVE  UiInv' /\ LoopInv' /\ Allowed
<1>1. UNCHANGED ui BY DEF DesktopPollEmpty, DevicePollNothing
<1>2. UiInv' /\ Allowed BY <1>1 DEF ui, UiInv, Content, Allowed, Changed
<1>3. CASE DesktopPollEmpty BY <1>2, <1>3 DEF DesktopPollEmpty, keys, LoopInv
<1>4. CASE DevicePollNothing BY <1>2, <1>4 DEF DevicePollNothing, LoopInv
<1> QED BY <1>2, <1>3, <1>4

LEMMA PollIsAllowed ==
  ASSUME UiInv, LoopInv, DesktopPoll \/ DevicePoll
  PROVE  UiInv' /\ LoopInv' /\ Allowed
<1>1. ASSUME NEW ev \in KeyEvent, HandleKey(ev) PROVE UiInv' /\ Allowed /\ idle' = 0 /\ pc' = pc
  BY <1>1, HandleKeyIsHarmless DEF Harmless, Allowed
<1>2. CASE DesktopPoll
  <2>1. queue # <<>> /\ queue \in Seq(KeyEvent) BY <1>2 DEF DesktopPoll, LoopInv
  <2>2. Head(queue) \in KeyEvent /\ Tail(queue) \in Seq(KeyEvent) /\ Len(Tail(queue)) = Len(queue) - 1
    BY <2>1, HeadTailProperties
  <2>3. Len(queue) \in Nat BY <2>1
  <2>4. UiInv' /\ Allowed /\ idle' = 0 /\ pc' = pc BY <1>1, <1>2, <2>2 DEF DesktopPoll
  <2>5. LoopInv' BY <1>2, <2>2, <2>3, <2>4 DEF DesktopPoll, LoopInv
  <2> QED BY <2>4, <2>5
<1>3. CASE DevicePoll
  <2>1. \E ev \in KeyEvent : HandleKey(ev) BY <1>3 DEF DevicePoll, KeyEvent
  <2>2. UiInv' /\ Allowed /\ idle' = 0 /\ pc' = pc BY <1>1, <2>1
  <2>3. LoopInv' BY <1>3, <2>2 DEF DevicePoll, LoopInv
  <2> QED BY <2>2, <2>3
<1> QED BY <1>2, <1>3

-----------------------------------------------------------------------------
(* The theorems.                                                           *)

LEMMA InvInit == Init => UiInv /\ LoopInv
<1> SUFFICES ASSUME Init PROVE UiInv /\ LoopInv
  OBVIOUS
<1>1. Dashboard \in GoodScreen BY PlainScreens DEF Dashboard
<1>2. stack \in Seq(GoodScreen) /\ stack # <<>> /\ stack[1] = Dashboard BY <1>1 DEF Init
<1>3. queue \in Seq(KeyEvent) /\ Len(queue) <= MaxQueued BY EmptySeq DEF Init
<1>4. 0 \in 0 .. HoldTime /\ 0 \in 0 .. IdleLock OBVIOUS
<1>5. advanced \in BOOLEAN /\ fresh \in BOOLEAN BY DEF Init
<1>6. desktop \in BOOLEAN /\ held \in BOOLEAN /\ down \in BOOLEAN /\ sending \in BOOLEAN BY DEF Init
<1>7. /\ store \in Content /\ pc \in {"poll", "update", "delay"}
      /\ age \in 0 .. HoldTime /\ idle \in 0 .. IdleLock
  BY <1>4 DEF Init
<1> QED BY <1>2, <1>3, <1>5, <1>6, <1>7 DEF UiInv, LoopInv

LEMMA InvNext == UiInv /\ LoopInv /\ [Next]_vars => UiInv' /\ LoopInv' /\ Allowed
<1> SUFFICES ASSUME UiInv, LoopInv, [Next]_vars PROVE UiInv' /\ LoopInv' /\ Allowed
  OBVIOUS
<1>1. CASE Keyboard BY <1>1, KeyboardIsAllowed
<1>2. CASE Loop
  BY <1>2, PollIsAllowed, EmptyPollIsAllowed, UpdateIsAllowed, DelayIsAllowed DEF Loop
<1>3. CASE UNCHANGED vars
  <2>1. UiInv' /\ Allowed BY <1>3 DEF vars, ui, UiInv, Content, Allowed, Changed
  <2>2. LoopInv' BY <1>3 DEF vars, keys, LoopInv
  <2> QED BY <2>1, <2>2
<1> QED BY <1>1, <1>2, <1>3 DEF Next

LEMMA InvAlways == Spec => [](UiInv /\ LoopInv)
<1>1. Init => UiInv /\ LoopInv BY InvInit
<1>2. (UiInv /\ LoopInv) /\ [Next]_vars => (UiInv /\ LoopInv)' BY InvNext
<1> QED BY <1>1, <1>2, PTL DEF Spec

\* Every variable keeps its type: among others, the queue of keys stays within
\* its limit and the dashboard stays at the bottom of the stack.
THEOREM TypesPreserved == Spec => []TypeOK
BY InvAlways, InvTypes, PTL

\* A SYSTEM namespace is changed only while Advanced mode is on and not overdue,
\* whatever the user does on the screens and however the keys arrive.
THEOREM SystemIsProtected == Spec => SystemNeedsAdvanced
<1> DEFINE Step ==
      \A k \in Keys :
        Changed(k) /\ Class[NsOf[k]] = "system" /\ Top.ask.what # "restore" => advanced /\ idle < IdleLock
<1>1. (UiInv /\ LoopInv) /\ [Next]_vars => [Step]_vars BY InvNext DEF Allowed
<1>2. Spec => [][Step]_vars BY <1>1, InvAlways, PTL DEF Spec
<1> QED BY <1>2 DEF SystemNeedsAdvanced

-----------------------------------------------------------------------------
(* The screens of the stack.                                               *)

HIDE NoneAssumption

Reading == {"namespaces", "namespace", "key"}

\* A screen that is told of new data has the newest, another has none.
Current(s, content) ==
  /\ s.kind \in Reading => s.shown = content
  /\ s.kind \notin Reading => s.shown = None

Unlocks(s) == s.kind = "confirm" /\ s.ask.what = "advanced"

\* A confirmation is on top of the stack or nowhere, and the one that unlocks
\* Advanced mode is there only while it is locked.
StackInv ==
  /\ \A i \in DOMAIN stack : Current(stack[i], store)
  /\ \A i \in DOMAIN stack : stack[i].kind = "confirm" => i = Len(stack)
  /\ Unlocks(Top) => ~advanced

-----------------------------------------------------------------------------
(* What handling a key does to the stack.                                  *)

Opens(s) == Current(s, store) /\ (Unlocks(s) => ~advanced)

Handled ==
  \/ UNCHANGED <<store, stack>> /\ (advanced' => advanced)
  \/ Top.kind # "confirm" /\ \E s : Opens(s) /\ Push(s)
  \/ Pop

LEMMA PlainOpens ==
  ASSUME NEW kind \in {"dashboard", "result", "backup", "list", "preview", "help"}
  PROVE  Opens(Plain(kind))
BY DEF Opens, Plain, Current, Unlocks, Reading

LEMMA ScreensOpen ==
  /\ Opens(NamespaceList)
  /\ \A n : Opens(NamespaceDetail(n))
  /\ \A k, info : Opens(KeyDetail(k, info))
  /\ \A k : Opens(EditValue(k))
  /\ Opens(Result)
  /\ \A ask : (ask.what = "advanced" => ~advanced) => Opens(ConfirmScreen(ask))
<1> USE DEF Opens, Plain, Current, Unlocks, Reading
<1>1. Opens(NamespaceList) BY DEF NamespaceList
<1>2. ASSUME NEW n PROVE Opens(NamespaceDetail(n)) BY DEF NamespaceDetail
<1>3. ASSUME NEW k, NEW info PROVE Opens(KeyDetail(k, info)) BY DEF KeyDetail
<1>4. ASSUME NEW k PROVE Opens(EditValue(k)) BY DEF EditValue
<1>5. Opens(Result) BY DEF Result
<1>6. ASSUME NEW ask, ask.what = "advanced" => ~advanced PROVE Opens(ConfirmScreen(ask))
  BY <1>6 DEF ConfirmScreen
<1> QED BY <1>1, <1>2, <1>3, <1>4, <1>5, <1>6

LEMMA NothingIsHandled == ASSUME Nothing PROVE Handled
BY DEF Nothing, ui, Handled

LEMMA PushIsHandled ==
  ASSUME NEW s, Opens(s), Push(s), Top.kind # "confirm"
  PROVE  Handled
BY DEF Handled

LEMMA AskIsHandled ==
  ASSUME Top.kind # "confirm", NEW action \in Actions, NEW n, NEW k, NEW v, NEW pops,
         AskToChange(action, n, k, v, pops)
  PROVE  Handled
<1> DEFINE ask == Ask(action, n, k, v, PermissionFor(action, n, advanced), pops)
<1>1. ask.what # "advanced" BY DEF Ask, Actions
<1>2. Push(Result) \/ Push(ConfirmScreen(ask)) BY DEF AskToChange
<1> HIDE DEF ask
<1> QED BY <1>1, <1>2, ScreensOpen, PushIsHandled

LEMMA StartEditIsHandled ==
  ASSUME Top.kind # "confirm", NEW k, StartEdit(k)
  PROVE  Handled
BY ScreensOpen, PushIsHandled DEF StartEdit

LEMMA DashboardIsHandled == ASSUME NEW ev \in KeyEvent, OnDashboard(ev) PROVE Handled
<1> DEFINE exit == Ask("exit", None, None, None, "press", 0)
           unlock == Ask("advanced", None, None, None, "hold", 0)
<1>1. Top.kind # "confirm" BY DEF OnDashboard
<1>2. exit.what # "advanced" BY DEF Ask
<1>3. \/ Nothing \/ Push(NamespaceList) \/ Push(Plain("backup")) \/ Push(Plain("help"))
      \/ Push(ConfirmScreen(exit))
      \/ ~advanced /\ Push(ConfirmScreen(unlock))
      \/ ~advanced' /\ UNCHANGED <<store, stack>>
  BY DEF OnDashboard, KeyEvent
<1> HIDE DEF exit, unlock
<1>4. CASE ~advanced' /\ UNCHANGED <<store, stack>> BY <1>4 DEF Handled
<1> QED BY <1>1, <1>2, <1>3, <1>4, PlainOpens, ScreensOpen, NothingIsHandled, PushIsHandled

LEMMA ListsAreHandled ==
  ASSUME NEW ev \in KeyEvent, OnNamespaceList(ev) \/ OnNamespaceDetail(ev)
  PROVE  Handled
<1>1. Top.kind # "confirm" BY DEF OnNamespaceList, OnNamespaceDetail
<1>2. CASE Nothing \/ Pop BY <1>2, NothingIsHandled DEF Handled
<1>3. CASE Push(Plain("help")) BY <1>1, <1>3, PlainOpens, PushIsHandled
<1>4. ASSUME NEW n, Push(NamespaceDetail(n)) \/ AskToChange("delete_namespace", n, None, None, 0) PROVE Handled
  BY <1>1, <1>4, ScreensOpen, PushIsHandled, AskIsHandled DEF Actions
<1>5. ASSUME NEW k, \/ Push(KeyDetail(k, Top.shown[k])) \/ StartEdit(k)
                    \/ AskToChange("delete_key", Top.ns, k, None, 0) PROVE Handled
  BY <1>1, <1>5, ScreensOpen, PushIsHandled, StartEditIsHandled, AskIsHandled DEF Actions
<1> QED BY <1>2, <1>3, <1>4, <1>5 DEF OnNamespaceList, OnNamespaceDetail

LEMMA KeyIsHandled ==
  ASSUME NEW ev \in KeyEvent, OnKeyDetail(ev) \/ OnEditValue(ev)
  PROVE  Handled
<1>1. Top.kind # "confirm" BY DEF OnKeyDetail, OnEditValue
<1>2. CASE Nothing \/ Pop BY <1>2, NothingIsHandled DEF Handled
<1>3. CASE StartEdit(Top.key) BY <1>1, <1>3, StartEditIsHandled
<1>4. CASE AskToChange("delete_key", Top.ns, Top.key, None, 1) BY <1>1, <1>4, AskIsHandled DEF Actions
<1>5. ASSUME NEW v \in Values, AskToChange("edit", Top.ns, Top.key, v, 1) PROVE Handled
  BY <1>1, <1>5, AskIsHandled DEF Actions
<1> QED BY <1>2, <1>3, <1>4, <1>5 DEF OnKeyDetail, OnEditValue, KeyEvent

LEMMA OthersAreHandled ==
  ASSUME NEW ev \in KeyEvent,
         OnResult(ev) \/ OnHelp(ev) \/ OnBackup(ev) \/ OnRestoreList(ev) \/ OnPreview(ev)
  PROVE  Handled
<1>1. Top.kind # "confirm" BY DEF OnResult, OnHelp, OnBackup, OnRestoreList, OnPreview
<1>2. CASE Nothing \/ Pop BY <1>2, NothingIsHandled DEF Handled
<1>3. CASE Push(Result) \/ Push(Plain("list")) \/ Push(Plain("preview"))
  BY <1>1, <1>3, PlainOpens, ScreensOpen, PushIsHandled
<1>4. ASSUME NEW what \in {"export", "backup", "restore"}, NEW mode, NEW pops,
             Push(ConfirmScreen(Ask(what, None, None, None, mode, pops)))
      PROVE  Handled
  <2>1. Ask(what, None, None, None, mode, pops).what # "advanced" BY DEF Ask
  <2> QED BY <1>1, <1>4, <2>1, ScreensOpen, PushIsHandled
<1> QED BY <1>2, <1>3, <1>4 DEF OnResult, OnHelp, OnBackup, OnRestoreList, OnPreview

-----------------------------------------------------------------------------
(* StackInv is kept.                                                       *)

LEMMA PushKeepsStack ==
  ASSUME UiInv, StackInv, Top.kind # "confirm", NEW s, Opens(s), Push(s)
  PROVE  StackInv'
<1>1. stack \in Seq(GoodScreen \cup {s}) /\ Len(stack) \in Nat \ {0} /\ stack' = Append(stack, s)
  BY TopIsGood DEF UiInv, Push
<1>2. /\ Len(stack') = Len(stack) + 1 /\ DOMAIN stack' = 1 .. Len(stack) + 1
      /\ \A i \in 1 .. Len(stack) : stack'[i] = stack[i]
      /\ stack'[Len(stack) + 1] = s
  BY <1>1, AppendProperties
<1>3. Top' = s BY <1>2 DEF Top
<1>4. UNCHANGED <<store, advanced>> BY DEF Push
<1>5. DOMAIN stack = 1 .. Len(stack) BY <1>1
<1>6. \A i \in DOMAIN stack' : Current(stack'[i], store') BY <1>1, <1>2, <1>4, <1>5 DEF StackInv, Opens
<1>7. ASSUME NEW i \in DOMAIN stack', stack'[i].kind = "confirm" PROVE i = Len(stack')
  BY <1>1, <1>2, <1>5, <1>7 DEF StackInv, Top
<1> QED BY <1>3, <1>4, <1>6, <1>7 DEF StackInv, Opens

LEMMA SomeStay ==
  ASSUME NEW n \in Nat \ {0}, NEW pops \in Nat \ {0},
         NEW m, m = IF n > pops THEN n - pops ELSE 1
  PROVE  m \in 1 .. n /\ (m < n \/ m = 1)
OBVIOUS

LEMMA SameLength ==
  ASSUME NEW m \in Nat, NEW n \in Nat, 1 .. m = 1 .. n
  PROVE  m = n
<1>1. \A i \in Int : 1 <= i /\ i <= m <=> 1 <= i /\ i <= n OBVIOUS
<1> QED BY <1>1

LEMMA ElementsOf ==
  ASSUME NEW S, NEW s \in Seq(S)
  PROVE  Len(s) \in Nat /\ DOMAIN s = 1 .. Len(s) /\ \A i \in 1 .. Len(s) : s[i] \in S
OBVIOUS

\* Screens that stay after some are popped, and those pushed then.
LEMMA AppliedScreens ==
  ASSUME NEW s \in Seq(GoodScreen), s # <<>>, s[1] = Dashboard, NEW content,
         \A i \in DOMAIN s : Current(s[i], content) /\ (s[i].kind = "confirm" => i = Len(s)),
         NEW pops \in Nat \ {0}, NEW pushed \in Seq(GoodScreen),
         \A i \in DOMAIN pushed : Current(pushed[i], content) /\ pushed[i].kind # "confirm"
  PROVE  \A i \in DOMAIN Applied(s, pops, pushed) :
            Current(Applied(s, pops, pushed)[i], content) /\ Applied(s, pops, pushed)[i].kind # "confirm"
<1>1. Len(s) \in Nat \ {0} /\ DOMAIN s = 1 .. Len(s) BY EmptySeq
<1> DEFINE m == IF Len(s) > pops THEN Len(s) - pops ELSE 1
           kept == SubSeq(s, 1, m)
<1>2. m \in 1 .. Len(s) /\ (m < Len(s) \/ m = 1)
  <2>1. m = IF Len(s) > pops THEN Len(s) - pops ELSE 1 OBVIOUS
  <2> HIDE DEF m
  <2> QED BY <1>1, <2>1, SomeStay
<1>3. \A i \in 1 .. m : s[i] \in GoodScreen
  <2> HIDE DEF m
  <2> QED BY <1>1, <1>2, ElementsOf
<1>4. Applied(s, pops, pushed) = kept \o pushed BY DEF Applied
<1> HIDE DEF m
<1>5. kept \in Seq(GoodScreen) /\ Len(kept) = m /\ \A i \in 1 .. m : kept[i] = s[i]
  BY <1>2, <1>3, SubSeqProperties
<1>6. s[1].kind # "confirm" BY DEF Dashboard, Plain
<1>7. \A i \in 1 .. m : Current(kept[i], content) /\ kept[i].kind # "confirm"
  BY <1>1, <1>2, <1>5, <1>6
<1> HIDE DEF kept
<1>8. /\ kept \o pushed \in Seq(GoodScreen)
      /\ Len(kept \o pushed) = Len(kept) + Len(pushed)
      /\ \A i \in 1 .. Len(kept) + Len(pushed) :
            (kept \o pushed)[i] = IF i <= Len(kept) THEN kept[i] ELSE pushed[i - Len(kept)]
  BY <1>5, ConcatProperties
<1>9. Len(pushed) \in Nat /\ DOMAIN pushed = 1 .. Len(pushed) BY LenProperties
<1>10. ASSUME NEW i \in DOMAIN (kept \o pushed)
       PROVE  Current((kept \o pushed)[i], content) /\ (kept \o pushed)[i].kind # "confirm"
  <2>1. i \in 1 .. Len(kept) + Len(pushed) BY <1>8, <1>10
  <2>2. CASE i <= Len(kept) BY <1>2, <1>5, <1>7, <1>8, <2>1, <2>2
  <2>3. CASE i > Len(kept)
    <3>1. i - Len(kept) \in DOMAIN pushed BY <1>2, <1>5, <1>9, <2>1, <2>3
    <3> QED BY <1>2, <1>5, <1>8, <2>1, <2>3, <3>1
  <2> QED BY <1>2, <1>5, <2>1, <2>2, <2>3
<1> QED BY <1>4, <1>10

LEMMA NoConfirmation ==
  ASSUME UiInv', \A i \in DOMAIN stack' : Current(stack'[i], store') /\ stack'[i].kind # "confirm"
  PROVE  StackInv' /\ Top'.kind # "confirm"
<1>1. Len(stack') \in DOMAIN stack' BY EmptySeq DEF UiInv
<1> QED BY <1>1 DEF StackInv, Unlocks, Top

LEMMA PopKeepsStack ==
  ASSUME UiInv, StackInv, Pop
  PROVE  StackInv' /\ Top'.kind # "confirm"
<1>1. UiInv' /\ store' = store BY PopKeeps
<1>2. stack' = Applied(stack, 1, <<>>) BY DEF Pop
<1>3. stack \in Seq(GoodScreen) /\ stack # <<>> /\ stack[1] = Dashboard BY DEF UiInv
<1>4. \A i \in DOMAIN stack : Current(stack[i], store) /\ (stack[i].kind = "confirm" => i = Len(stack))
  BY DEF StackInv
<1>5. <<>> \in Seq(GoodScreen) /\ 1 \in Nat \ {0} /\ DOMAIN <<>> = {} OBVIOUS
<1>6. \A i \in DOMAIN Applied(stack, 1, <<>>) :
        Current(Applied(stack, 1, <<>>)[i], store) /\ Applied(stack, 1, <<>>)[i].kind # "confirm"
  BY <1>3, <1>4, <1>5, AppliedScreens
<1>7. \A i \in DOMAIN stack' : Current(stack'[i], store) /\ stack'[i].kind # "confirm"
  BY <1>2, <1>6
<1> QED BY <1>1, <1>7, NoConfirmation

LEMMA ConfirmKeepsStack ==
  ASSUME UiInv, StackInv, Top.kind = "confirm", NEW adv \in BOOLEAN, Confirm(Top.ask, adv)
  PROVE  StackInv' /\ Top'.kind # "confirm"
<1> DEFINE ask == Top.ask
<1>1. ask \in Asks BY TopIsGood DEF GoodScreen, ScreenOK
<1>2. 1 + ask.pops \in Nat \ {0} BY <1>1 DEF Asks
<1> HIDE DEF ask
<1>3. UiInv' BY ConfirmKeeps
<1>4. stack \in Seq(GoodScreen) /\ stack # <<>> /\ stack[1] = Dashboard BY DEF UiInv
<1>5. \A content : Current(Result, content) /\ Result.kind # "confirm" BY DEF Result, Plain, Current, Reading
<1>6. <<Result>> \in Seq(GoodScreen) /\ <<>> \in Seq(GoodScreen) BY OtherScreens
<1>7. CASE ~StillAllowed(ask, adv)
  <2>1. stack' = Applied(stack, 1, <<Result>>) /\ store' = store
    <3>1. ask.what # "exit" BY <1>7 DEF StillAllowed, Actions
    <3> QED BY <1>7, <3>1 DEF Confirm, ask
  <2>2. \A i \in DOMAIN stack : Current(stack[i], store) /\ (stack[i].kind = "confirm" => i = Len(stack))
    BY DEF StackInv
  <2>3. \A i \in DOMAIN <<Result>> :
          Current(<<Result>>[i], store) /\ <<Result>>[i].kind # "confirm"
    BY <1>5
  <2>4. 1 \in Nat \ {0} OBVIOUS
  <2>5. \A i \in DOMAIN Applied(stack, 1, <<Result>>) :
          /\ Current(Applied(stack, 1, <<Result>>)[i], store)
          /\ Applied(stack, 1, <<Result>>)[i].kind # "confirm"
    BY <1>4, <1>6, <2>2, <2>3, <2>4, AppliedScreens
  <2>6. \A i \in DOMAIN stack' : Current(stack'[i], store) /\ stack'[i].kind # "confirm"
    BY <2>1, <2>5
  <2> QED BY <1>3, <2>1, <2>6, NoConfirmation
<1>8. CASE StillAllowed(ask, adv) /\ ask.what = "exit"
  <2>1. stack' = <<Dashboard>> BY <1>8 DEF Confirm, ask
  <2>2. Current(Dashboard, store') /\ Dashboard.kind # "confirm" BY DEF Dashboard, Plain, Current, Reading
  <2> QED BY <1>3, <2>1, <2>2, NoConfirmation
<1>9. CASE StillAllowed(ask, adv) /\ ask.what # "exit"
  <2> DEFINE pushed == IF ask.what = "advanced" THEN <<>> ELSE <<Result>>
             told   == Reload(stack, store')
  <2>1. stack' = Applied(told, 1 + ask.pops, pushed) BY <1>9 DEF Confirm, ask
  <2>2. store' \in Content BY <1>3 DEF UiInv
  <2>3. told \in Seq(GoodScreen) /\ told # <<>> /\ told[1] = Dashboard BY <2>2, ReloadKeeps
  <2>4. DOMAIN told = DOMAIN stack /\ Len(told) = Len(stack)
    <3>1. DOMAIN told = DOMAIN stack BY DEF Reload
    <3>2. DOMAIN told = 1 .. Len(told) /\ DOMAIN stack = 1 .. Len(stack) /\ Len(told) \in Nat /\ Len(stack) \in Nat
      BY <1>4, <2>3, LenProperties
    <3>3. 1 .. Len(told) = 1 .. Len(stack) BY <3>1, <3>2
    <3> QED BY <3>1, <3>2, <3>3, SameLength
  <2>5. ASSUME NEW i \in DOMAIN told
        PROVE  Current(told[i], store') /\ (told[i].kind = "confirm" => i = Len(told))
    <3>1. Current(stack[i], store) /\ (stack[i].kind = "confirm" => i = Len(stack)) BY <2>4 DEF StackInv
    <3>2. stack[i] \in Screen BY <1>4, <2>4 DEF GoodScreen
    <3>3. CASE stack[i].kind \in Reading
      <4>1. told[i] = [stack[i] EXCEPT !.shown = store'] BY <2>4, <3>3 DEF Reload, Reading
      <4>2. told[i].shown = store' /\ told[i].kind = stack[i].kind BY <3>2, <4>1 DEF Screen
      <4> QED BY <3>3, <4>2 DEF Current, Reading
    <3>4. CASE stack[i].kind \notin Reading
      <4>1. told[i] = stack[i] BY <2>4, <3>4 DEF Reload, Reading
      <4> QED BY <2>4, <3>1, <3>4, <4>1 DEF Current
    <3> QED BY <3>3, <3>4
  <2>6. pushed \in Seq(GoodScreen) BY <1>6
  <2>7. \A i \in DOMAIN pushed : Current(pushed[i], store') /\ pushed[i].kind # "confirm" BY <1>5
  <2> HIDE DEF pushed, told
  <2>8. \A i \in DOMAIN stack' : Current(stack'[i], store') /\ stack'[i].kind # "confirm"
    BY <1>2, <2>1, <2>3, <2>5, <2>6, <2>7, AppliedScreens
  <2> QED BY <1>3, <2>8, NoConfirmation
<1> QED BY <1>7, <1>8, <1>9

LEMMA SameKeepsStack ==
  ASSUME StackInv, UNCHANGED <<store, stack>>, advanced' => advanced
  PROVE  StackInv'
BY DEF StackInv, Top

LEMMA HandleKeyKeepsStack ==
  ASSUME UiInv, StackInv, NEW ev \in KeyEvent, HandleKey(ev)
  PROVE  StackInv'
<1>1. CASE Handled BY <1>1, SameKeepsStack, PushKeepsStack, PopKeepsStack DEF Handled
<1>2. CASE OnConfirm(ev)
  <2>1. Top.kind = "confirm" /\ advanced \in BOOLEAN BY <1>2 DEF OnConfirm, UiInv
  <2>2. Nothing \/ Pop \/ Confirm(Top.ask, advanced) BY <1>2 DEF OnConfirm
  <2> QED BY <1>1, <2>1, <2>2, NothingIsHandled, PopKeepsStack, ConfirmKeepsStack
<1> QED BY <1>1, <1>2, DashboardIsHandled, ListsAreHandled, KeyIsHandled, OthersAreHandled DEF HandleKey

\* The tick of a confirmation changes how long it is held, not what it is about.
LEMMA TickKeepsStack ==
  ASSUME UiInv, LoopInv, StackInv, NEW screen \in GoodScreen, TopBecomes(screen),
         screen.kind = Top.kind, screen.shown = Top.shown, screen.ask = Top.ask
  PROVE  StackInv'
<1>1. Len(stack) \in Nat \ {0} /\ DOMAIN stack = 1 .. Len(stack) BY TopIsGood DEF UiInv
<1>2. stack' = [stack EXCEPT ![Len(stack)] = screen] BY DEF TopBecomes
<1>3. /\ stack' \in Seq(GoodScreen) /\ Len(stack') = Len(stack)
      /\ \A j \in 1 .. Len(stack) : stack'[j] = IF j = Len(stack) THEN screen ELSE stack[j]
  BY <1>1, <1>2, ExceptSeq DEF UiInv
<1>4. DOMAIN stack' = DOMAIN stack BY <1>2
<1>5. Top' = screen
  <2>1. Len(stack) \in 1 .. Len(stack) BY <1>1
  <2>2. stack'[Len(stack)] = screen BY <1>3, <2>1
  <2> QED BY <1>3, <2>2 DEF Top
<1>6. store' = store /\ (advanced' => advanced) BY DEF TopBecomes, StillUnlocked
<1>7. \A i \in DOMAIN stack' : stack'[i].kind = stack[i].kind /\ stack'[i].shown = stack[i].shown
  BY <1>1, <1>3, <1>4 DEF Top
<1>8. \A i \in DOMAIN stack' : Current(stack'[i], store') BY <1>4, <1>6, <1>7 DEF StackInv, Current
<1>9. \A i \in DOMAIN stack' : stack'[i].kind = "confirm" => i = Len(stack')
  BY <1>3, <1>4, <1>7 DEF StackInv
<1> QED BY <1>5, <1>6, <1>8, <1>9 DEF StackInv, Unlocks

LEMMA UpdateKeepsStack ==
  ASSUME UiInv, LoopInv, StackInv, Update
  PROVE  StackInv'
<1>1. Top \in GoodScreen /\ Top \in Screen BY TopIsGood DEF GoodScreen
<1>2. \A b \in BOOLEAN :
        /\ [Top EXCEPT !.armed = b].kind = Top.kind /\ [Top EXCEPT !.armed = b].shown = Top.shown
        /\ [Top EXCEPT !.armed = b].ask = Top.ask
        /\ [Top EXCEPT !.holding = b].kind = Top.kind /\ [Top EXCEPT !.holding = b].shown = Top.shown
        /\ [Top EXCEPT !.holding = b].ask = Top.ask
  BY <1>1 DEF Screen
<1>3. \A b \in BOOLEAN :
        [Top EXCEPT !.armed = b] \in GoodScreen /\ [Top EXCEPT !.holding = b] \in GoodScreen
  BY <1>1 DEF GoodScreen, ScreenOK, Screen
<1>4. CASE Arm
  <2>1. (~held) \in BOOLEAN BY DEF LoopInv
  <2> QED BY <1>2, <1>3, <1>4, <2>1, TickKeepsStack DEF Arm
<1>5. CASE ReleaseHold BY <1>2, <1>3, <1>5, TickKeepsStack DEF ReleaseHold
<1>6. CASE StartHold BY <1>2, <1>3, <1>6, TickKeepsStack DEF StartHold
<1>7. CASE TopBecomes(Top) BY <1>1, <1>7, TickKeepsStack
<1>8. CASE Top.kind = "confirm" /\ Confirm(Top.ask, StillUnlocked)
  <2>1. StillUnlocked \in BOOLEAN BY DEF StillUnlocked
  <2> QED BY <1>8, <2>1, ConfirmKeepsStack
<1> QED BY <1>4, <1>5, <1>6, <1>7, <1>8 DEF Update, KeepHolding, NoTick

LEMMA StackIsKept ==
  ASSUME UiInv, LoopInv, StackInv, [Next]_vars
  PROVE  StackInv'
<1>1. CASE UNCHANGED <<store, stack, advanced>> BY <1>1, SameKeepsStack
<1>2. CASE Keyboard
  BY <1>1, <1>2 DEF Keyboard, DesktopKey, DesktopEnterDown, DesktopEnterQueued, DesktopEnterUp, DeviceEnterDown,
                    DeviceEnterUp, ui
<1>3. CASE DesktopPoll
  <2>1. Head(queue) \in KeyEvent BY <1>3, HeadTailProperties DEF DesktopPoll, LoopInv
  <2> QED BY <1>3, <2>1, HandleKeyKeepsStack DEF DesktopPoll
<1>4. CASE DevicePoll
  <2>1. \E ev \in KeyEvent : HandleKey(ev) BY <1>4 DEF DevicePoll, KeyEvent
  <2> QED BY <2>1, HandleKeyKeepsStack
<1>5. CASE DesktopPollEmpty \/ DevicePollNothing \/ Delay \/ UNCHANGED vars
  BY <1>1, <1>5 DEF DesktopPollEmpty, DevicePollNothing, Delay, ui, vars
<1> QED BY <1>2, <1>3, <1>4, <1>5, UpdateKeepsStack DEF Next, Loop

LEMMA StackAtFirst == Init => StackInv
BY DEF Init, StackInv, Top, Dashboard, Plain, Current, Unlocks, Reading

LEMMA AlwaysStackInv == Spec => []StackInv
<1>1. UiInv /\ LoopInv /\ StackInv /\ [Next]_vars => StackInv' BY StackIsKept
<1> QED BY <1>1, StackAtFirst, InvAlways, PTL DEF Spec

-----------------------------------------------------------------------------
(* Where on the stack a screen may be. A screen of a key lies above those  *)
(* of its namespace, so popping as many screens as the confirmation says   *)
(* removes it.                                                             *)

AskedAt(ask, i) ==
  /\ ask.what = "delete_key" => i - ask.pops = 4
  /\ ask.what = "delete_namespace" => i = 3
  /\ ask.what = "restore" => i - ask.pops = 3
  /\ ask.what \in Actions \cup {"restore"} /\ NeedsHold(ask) => ask.mode = "hold"

Placed(s, i, content) ==
  /\ s.kind = "dashboard" => i = 1
  /\ s.kind \in {"namespaces", "backup"} => i = 2
  /\ s.kind \in {"namespace", "list"} => i = 3
  /\ s.kind \in {"key", "preview"} => i = 4
  /\ s.kind = "edit" => i \in {4, 5}
  /\ s.kind \in {"key", "edit"} => content[s.key] # None
  /\ s.kind = "confirm" => AskedAt(s.ask, i)

PlaceInv == \A i \in DOMAIN stack : Placed(stack[i], i, store)

\* A confirmation that no Enter has followed yet: none waits in the queue that it
\* would listen to, and Enter is not down.
EnterInv ==
  /\ desktop => held = down
  /\ ~fresh /\ Top.kind = "confirm" =>
       /\ desktop /\ (Top.armed \/ pc = "update") => \A i \in DOMAIN queue : queue[i] # "enter"
       /\ Top.armed => ~held /\ ~down
       /\ pc = "update" /\ ~held => ~down

\* What a key does, but for confirming.
Places(s) == Placed(s, Len(stack) + 1, store) /\ (s.kind = "confirm" => ~s.armed)

Deepens ==
  \/ UNCHANGED <<store, stack, fresh>>
  \/ Top.kind # "confirm" /\ \E s : Places(s) /\ Push(s)
  \/ Pop

LEMMA TopIsPlaced ==
  ASSUME UiInv, StackInv, PlaceInv
  PROVE  /\ Len(stack) \in Nat \ {0} /\ Top \in GoodScreen
         /\ Placed(Top, Len(stack), store) /\ Current(Top, store)
<1>1. Len(stack) \in Nat \ {0} /\ Top \in GoodScreen BY TopIsGood
<1>2. Len(stack) \in DOMAIN stack BY <1>1 DEF UiInv
<1> QED BY <1>1, <1>2 DEF PlaceInv, StackInv, Top

LEMMA PlainIsPlaced ==
  /\ Len(stack) = 1 => Places(NamespaceList) /\ Places(Plain("backup"))
  /\ Len(stack) = 2 => Places(Plain("list")) /\ \A n : Places(NamespaceDetail(n))
  /\ Len(stack) = 3 => Places(Plain("preview")) /\ \A k, info : store[k] # None => Places(KeyDetail(k, info))
  /\ Len(stack) \in {3, 4} => \A k : store[k] # None => Places(EditValue(k))
  /\ Places(Result) /\ Places(Plain("help"))
  /\ \A ask : AskedAt(ask, Len(stack) + 1) => Places(ConfirmScreen(ask))
<1> USE DEF Places, Placed, Plain
<1>1. Len(stack) = 1 => Places(NamespaceList) /\ Places(Plain("backup")) BY DEF NamespaceList
<1>2. Len(stack) = 2 => Places(Plain("list")) /\ \A n : Places(NamespaceDetail(n)) BY DEF NamespaceDetail
<1>3. Len(stack) = 3 => Places(Plain("preview")) OBVIOUS
<1>4. ASSUME Len(stack) = 3, NEW k, NEW info, store[k] # None PROVE Places(KeyDetail(k, info))
  BY <1>4 DEF KeyDetail
<1>5. ASSUME Len(stack) \in {3, 4}, NEW k, store[k] # None PROVE Places(EditValue(k))
  <2>1. CASE Len(stack) = 3 BY <1>5, <2>1 DEF EditValue
  <2>2. CASE Len(stack) = 4 BY <1>5, <2>2 DEF EditValue
  <2> QED BY <1>5, <2>1, <2>2
<1>6. Places(Result) /\ Places(Plain("help")) BY DEF Result
<1>7. ASSUME NEW ask, AskedAt(ask, Len(stack) + 1) PROVE Places(ConfirmScreen(ask)) BY <1>7 DEF ConfirmScreen
<1> QED BY <1>1, <1>2, <1>3, <1>4, <1>5, <1>6, <1>7

LEMMA PushDeepens == ASSUME NEW s, Places(s), Push(s), Top.kind # "confirm" PROVE Deepens
BY DEF Deepens

LEMMA GeneralAskDeepens ==
  ASSUME Top.kind # "confirm", NEW what \in {"advanced", "exit", "export", "backup"}, NEW mode, NEW pops,
         Push(ConfirmScreen(Ask(what, None, None, None, mode, pops)))
  PROVE  Deepens
<1>1. AskedAt(Ask(what, None, None, None, mode, pops), Len(stack) + 1) BY DEF AskedAt, Ask, Actions
<1> QED BY <1>1, PlainIsPlaced, PushDeepens

\* A change that needs a hold is asked for with one, or refused.
LEMMA AskDeepens ==
  ASSUME UiInv, Top.kind # "confirm", NEW action \in Actions, NEW n \in Namespaces, NEW k, NEW v, NEW pops \in 0 .. 2,
         action = "delete_key" => Len(stack) - pops = 3,
         action = "delete_namespace" => Len(stack) = 2,
         AskToChange(action, n, k, v, pops)
  PROVE  Deepens
<1> DEFINE permission == PermissionFor(action, n, advanced)
           ask == Ask(action, n, k, v, permission, pops)
<1>1. Push(Result) \/ (permission # "denied" /\ Push(ConfirmScreen(ask)))
  <2>1. CASE permission = "denied"
    <3>1. Push(Result) BY <2>1 DEF AskToChange
    <3> QED BY <3>1
  <2>2. CASE permission # "denied" BY <2>2 DEF AskToChange
  <2> QED BY <2>1, <2>2
<1>2. permission # "denied" => AskedAt(ask, Len(stack) + 1)
  <2>1. Len(stack) \in Nat BY TopIsGood
  <2>2. Class[n] \in NamespaceClasses OBVIOUS
  <2>3. permission # "denied" /\ (action = "delete_namespace" \/ Class[n] # "application") => permission = "hold"
    BY <2>2 DEF PermissionFor, NamespaceClasses
  <2> HIDE DEF permission
  <2>4. /\ ask.what = action /\ ask.ns = n /\ ask.mode = permission /\ ask.pops = pops
    BY DEF Ask
  <2> HIDE DEF ask
  <2>5. action # "restore" BY DEF Actions
  <2>6. permission # "denied" /\ NeedsHold(ask) => ask.mode = "hold" BY <2>3, <2>4, <2>5 DEF NeedsHold
  <2>7. ask.what = "delete_key" => Len(stack) + 1 - ask.pops = 4 BY <2>1, <2>4
  <2>8. ASSUME action = "delete_namespace" PROVE Len(stack) + 1 = 3
    <3>1. Len(stack) = 2 BY <2>8
    <3> QED BY <3>1
  <2> QED BY <2>4, <2>5, <2>6, <2>7, <2>8 DEF AskedAt
<1> HIDE DEF ask, permission
<1> QED BY <1>1, <1>2, PlainIsPlaced, PushDeepens

LEMMA StartEditDeepens ==
  ASSUME Top.kind # "confirm", NEW k, store[k] # None, Len(stack) \in {3, 4}, StartEdit(k)
  PROVE  Deepens
BY PlainIsPlaced, PushDeepens DEF StartEdit

LEMMA DashboardDeepens ==
  ASSUME UiInv, StackInv, PlaceInv, NEW ev \in KeyEvent, OnDashboard(ev)
  PROVE  Deepens
<1>1. Top.kind = "dashboard" /\ Len(stack) = 1 BY TopIsPlaced DEF OnDashboard, Placed
<1>2. \/ UNCHANGED <<store, stack, fresh>> \/ Push(NamespaceList) \/ Push(Plain("backup")) \/ Push(Plain("help"))
      \/ Push(ConfirmScreen(Ask("exit", None, None, None, "press", 0)))
      \/ Push(ConfirmScreen(Ask("advanced", None, None, None, "hold", 0)))
  BY DEF OnDashboard, KeyEvent, Nothing, ui
<1>3. CASE UNCHANGED <<store, stack, fresh>> BY <1>3 DEF Deepens
<1> QED BY <1>1, <1>2, <1>3, PlainIsPlaced, PushDeepens, GeneralAskDeepens

LEMMA ListsDeepen ==
  ASSUME UiInv, StackInv, PlaceInv, NEW ev \in KeyEvent, OnNamespaceList(ev) \/ OnNamespaceDetail(ev)
  PROVE  Deepens
<1>1. /\ Top.kind \in {"namespaces", "namespace"} /\ Top.shown = store
      /\ Len(stack) = IF Top.kind = "namespaces" THEN 2 ELSE 3
  BY TopIsPlaced DEF OnNamespaceList, OnNamespaceDetail, Placed, Current, Reading
<1>2. CASE Nothing \/ Pop BY <1>2 DEF Deepens, Nothing, ui
<1>3. CASE Push(Plain("help")) BY <1>1, <1>3, PlainIsPlaced, PushDeepens
<1>4. ASSUME Top.kind = "namespaces", NEW n \in ListedNamespaces,
             Push(NamespaceDetail(n)) \/ AskToChange("delete_namespace", n, None, None, 0)
      PROVE  Deepens
  <2>1. n \in Namespaces BY DEF ListedNamespaces
  <2>2. CASE Push(NamespaceDetail(n)) BY <1>1, <1>4, <2>2, PlainIsPlaced, PushDeepens
  <2>3. CASE AskToChange("delete_namespace", n, None, None, 0)
    BY <1>1, <1>4, <2>1, <2>3, AskDeepens DEF Actions
  <2> QED BY <1>4, <2>2, <2>3
<1>5. ASSUME Top.kind = "namespace", NEW k \in ListedKeys,
             \/ Push(KeyDetail(k, Top.shown[k])) \/ StartEdit(k)
             \/ AskToChange("delete_key", Top.ns, k, None, 0)
      PROVE  Deepens
  <2>1. store[k] # None BY <1>1 DEF ListedKeys
  <2>2. Top.ns \in Namespaces BY <1>5, TopIsPlaced DEF GoodScreen, ScreenOK
  <2>3. CASE Push(KeyDetail(k, Top.shown[k])) BY <1>1, <1>5, <2>1, <2>3, PlainIsPlaced, PushDeepens
  <2>4. CASE StartEdit(k) BY <1>1, <1>5, <2>1, <2>4, StartEditDeepens
  <2>5. CASE AskToChange("delete_key", Top.ns, k, None, 0)
    BY <1>1, <1>5, <2>2, <2>5, AskDeepens DEF Actions
  <2> QED BY <1>5, <2>3, <2>4, <2>5
<1> QED BY <1>2, <1>3, <1>4, <1>5 DEF OnNamespaceList, OnNamespaceDetail

LEMMA KeyDeepens ==
  ASSUME UiInv, StackInv, PlaceInv, NEW ev \in KeyEvent, OnKeyDetail(ev) \/ OnEditValue(ev)
  PROVE  Deepens
<1>1. /\ Top.kind \in {"key", "edit"} /\ Top.ns \in Namespaces /\ store[Top.key] # None
      /\ Top.kind = "key" => Len(stack) = 4
  BY TopIsPlaced DEF OnKeyDetail, OnEditValue, Placed, GoodScreen, ScreenOK
<1>2. CASE Nothing \/ Pop BY <1>2 DEF Deepens, Nothing, ui
<1>3. CASE Top.kind = "key" /\ StartEdit(Top.key) BY <1>1, <1>3, StartEditDeepens
<1>4. CASE Top.kind = "key" /\ AskToChange("delete_key", Top.ns, Top.key, None, 1)
  BY <1>1, <1>4, AskDeepens DEF Actions
<1>5. ASSUME NEW v \in Values, AskToChange("edit", Top.ns, Top.key, v, 1) PROVE Deepens
  BY <1>1, <1>5, AskDeepens DEF Actions
<1> QED BY <1>2, <1>3, <1>4, <1>5 DEF OnKeyDetail, OnEditValue, KeyEvent

LEMMA OthersDeepen ==
  ASSUME UiInv, StackInv, PlaceInv, NEW ev \in KeyEvent,
         OnResult(ev) \/ OnHelp(ev) \/ OnBackup(ev) \/ OnRestoreList(ev) \/ OnPreview(ev)
  PROVE  Deepens
<1>1. /\ Top.kind # "confirm" /\ Len(stack) \in Nat
      /\ OnBackup(ev) => Len(stack) = 2
      /\ OnRestoreList(ev) => Len(stack) = 3
      /\ OnPreview(ev) => Len(stack) = 4
  BY TopIsPlaced DEF OnResult, OnHelp, OnBackup, OnRestoreList, OnPreview, Placed
<1>2. CASE Nothing \/ Pop BY <1>2 DEF Deepens, Nothing, ui
<1>3. CASE Push(Result) BY <1>1, <1>3, PlainIsPlaced, PushDeepens
<1>4. CASE OnBackup(ev) /\ Push(Plain("list")) BY <1>1, <1>4, PlainIsPlaced, PushDeepens
<1>5. CASE OnRestoreList(ev) /\ Push(Plain("preview")) BY <1>1, <1>5, PlainIsPlaced, PushDeepens
<1>6. CASE \/ Push(ConfirmScreen(Ask("export", None, None, None, "hold", 0)))
           \/ Push(ConfirmScreen(Ask("backup", None, None, None, "press", 0)))
  BY <1>1, <1>6, GeneralAskDeepens
<1>7. CASE OnPreview(ev) /\ Push(ConfirmScreen(Ask("restore", None, None, None, "hold", 2)))
  <2> DEFINE ask == Ask("restore", None, None, None, "hold", 2)
  <2>1. ask.what = "restore" /\ ask.pops = 2 /\ ask.mode = "hold" BY DEF Ask
  <2> HIDE DEF ask
  <2>2. AskedAt(ask, Len(stack) + 1) BY <1>1, <1>7, <2>1 DEF AskedAt
  <2> QED BY <1>1, <1>7, <2>2, PlainIsPlaced, PushDeepens DEF ask
<1> QED BY <1>2, <1>3, <1>4, <1>5, <1>6, <1>7 DEF OnResult, OnHelp, OnBackup, OnRestoreList, OnPreview

\* Screens that stay after some are popped keep their places.
LEMMA AppliedPlaces ==
  ASSUME NEW s \in Seq(GoodScreen), s # <<>>, NEW content, NEW pops \in Nat \ {0},
         NEW pushed \in {<<>>, <<Result>>},
         \A i \in 1 .. Len(s) : i = 1 \/ i <= Len(s) - pops => Placed(s[i], i, content)
  PROVE  \A i \in DOMAIN Applied(s, pops, pushed) : Placed(Applied(s, pops, pushed)[i], i, content)
<1>1. Len(s) \in Nat \ {0} /\ DOMAIN s = 1 .. Len(s) BY EmptySeq
<1> DEFINE m == IF Len(s) > pops THEN Len(s) - pops ELSE 1
           kept == SubSeq(s, 1, m)
<1>2. m \in 1 .. Len(s) BY <1>1
<1>2a. \A i \in Int : 1 <= i /\ i <= m => i = 1 \/ i <= Len(s) - pops BY <1>1
<1>3. Applied(s, pops, pushed) = kept \o pushed BY DEF Applied
<1> HIDE DEF m
<1>4. \A i \in 1 .. m : i \in 1 .. Len(s) /\ s[i] \in GoodScreen
  <2>1. \A i \in 1 .. Len(s) : s[i] \in GoodScreen BY ElementsOf
  <2> QED BY <1>1, <1>2, <2>1
<1>5. kept \in Seq(GoodScreen) /\ Len(kept) = m /\ \A i \in 1 .. m : kept[i] = s[i]
  BY <1>2, <1>4, SubSeqProperties
<1>6. ASSUME NEW i \in 1 .. m PROVE Placed(kept[i], i, content)
  <2>1. i = 1 \/ i <= Len(s) - pops BY <1>1, <1>2, <1>2a
  <2> QED BY <1>4, <1>5, <2>1
<1> HIDE DEF kept
<1>7. pushed \in Seq({Result}) /\ Len(pushed) \in Nat /\ \A i \in 1 .. Len(pushed) : pushed[i] = Result
  <2>1. CASE pushed = <<>> BY <2>1
  <2>2. CASE pushed = <<Result>> BY <2>2
  <2> QED BY <2>1, <2>2
<1>8. /\ Len(kept \o pushed) = Len(kept) + Len(pushed)
      /\ DOMAIN (kept \o pushed) = 1 .. Len(kept) + Len(pushed)
      /\ \A i \in 1 .. Len(kept) + Len(pushed) :
            (kept \o pushed)[i] = IF i <= Len(kept) THEN kept[i] ELSE pushed[i - Len(kept)]
  <2>1. kept \in Seq(GoodScreen \cup {Result}) /\ pushed \in Seq(GoodScreen \cup {Result}) BY <1>5, <1>7
  <2> QED BY <2>1, ConcatProperties
<1>9. ASSUME NEW i \in DOMAIN (kept \o pushed) PROVE Placed((kept \o pushed)[i], i, content)
  <2>1. i \in 1 .. Len(kept) + Len(pushed) BY <1>8
  <2>2. CASE i <= Len(kept) BY <1>2, <1>5, <1>6, <1>8, <2>1, <2>2
  <2>3. CASE i > Len(kept)
    <3>1. i - Len(kept) \in 1 .. Len(pushed) BY <1>2, <1>5, <1>7, <2>1, <2>3
    <3>2. (kept \o pushed)[i] = Result BY <1>2, <1>5, <1>7, <1>8, <2>1, <2>3, <3>1
    <3> QED BY <3>2 DEF Placed, Result, Plain
  <2> QED BY <1>2, <1>5, <2>1, <2>2, <2>3
<1> QED BY <1>3, <1>9

LEMMA PushKeepsPlaces ==
  ASSUME UiInv, PlaceInv, NEW s, Places(s), Push(s)
  PROVE  PlaceInv'
<1>1. stack \in Seq(GoodScreen \cup {s}) /\ Len(stack) \in Nat \ {0} /\ stack' = Append(stack, s)
  BY TopIsGood DEF UiInv, Push
<1>2. /\ DOMAIN stack' = 1 .. Len(stack) + 1
      /\ \A i \in 1 .. Len(stack) : stack'[i] = stack[i]
      /\ stack'[Len(stack) + 1] = s
  BY <1>1, AppendProperties
<1>3. DOMAIN stack = 1 .. Len(stack) /\ store' = store BY <1>1 DEF Push
<1> QED BY <1>1, <1>2, <1>3 DEF PlaceInv, Places

LEMMA PopKeepsPlaces ==
  ASSUME UiInv, PlaceInv, Pop
  PROVE  PlaceInv'
<1>1. stack \in Seq(GoodScreen) /\ stack # <<>> /\ DOMAIN stack = 1 .. Len(stack) BY TopIsGood DEF UiInv
<1>2. \A i \in 1 .. Len(stack) : i = 1 \/ i <= Len(stack) - 1 => Placed(stack[i], i, store) BY <1>1 DEF PlaceInv
<1>3. 1 \in Nat \ {0} OBVIOUS
<1>4. \A i \in DOMAIN Applied(stack, 1, <<>>) : Placed(Applied(stack, 1, <<>>)[i], i, store)
  BY <1>1, <1>2, <1>3, AppliedPlaces
<1> QED BY <1>4 DEF Pop, PlaceInv

\* What a change leaves of the keys the remaining screens are about.
LEMMA OutcomesKeepPlaces ==
  ASSUME UiInv, PlaceInv, NEW ask \in Asks, AskOK(ask), AskedAt(ask, Len(stack)),
         NEW content \in Outcomes(ask), NEW i \in 1 .. Len(stack), i <= Len(stack) - (1 + ask.pops),
         stack[i].kind \in {"key", "edit"}
  PROVE  content[stack[i].key] # None
<1> DEFINE k == stack[i].key
<1>1. Len(stack) \in Nat /\ DOMAIN stack = 1 .. Len(stack) /\ ask.pops \in 0 .. 2 BY TopIsGood DEF UiInv, Asks
<1>2. i \in {4, 5} /\ store[k] # None BY <1>1 DEF PlaceInv, Placed
<1>3. k \in Keys /\ store \in Content BY <1>1, ElementsOf DEF UiInv, GoodScreen, ScreenOK
<1> HIDE DEF k
<1>4. CASE ask.what = "delete_key" BY <1>1, <1>2, <1>4 DEF AskedAt
<1>5. CASE ask.what = "delete_namespace" BY <1>1, <1>2, <1>5 DEF AskedAt
<1>6. CASE ask.what = "restore" BY <1>1, <1>2, <1>6 DEF AskedAt
<1>7. CASE ask.what = "edit"
  <2>1. ask.val # None BY <1>7, NoneAssumption DEF AskOK
  <2>2. content = store \/ content = [store EXCEPT ![ask.key] = ask.val] BY <1>7 DEF Outcomes
  <2>3. content[k] # None BY <1>2, <1>3, <2>1, <2>2 DEF Content
  <2> QED BY <2>3 DEF k
<1>8. CASE ask.what \notin {"delete_key", "delete_namespace", "restore", "edit"}
  <2>1. content = store BY <1>8 DEF Outcomes
  <2> QED BY <1>2, <2>1 DEF k
<1> QED BY <1>4, <1>5, <1>6, <1>7, <1>8

LEMMA ConfirmKeepsPlaces ==
  ASSUME UiInv, StackInv, PlaceInv, Top.kind = "confirm", NEW adv \in BOOLEAN, Confirm(Top.ask, adv)
  PROVE  PlaceInv'
<1> DEFINE ask == Top.ask
<1>1. ask \in Asks /\ AskOK(ask) /\ AskedAt(ask, Len(stack))
  BY TopIsPlaced DEF GoodScreen, ScreenOK, Placed
<1>2. 1 + ask.pops \in Nat \ {0} BY <1>1 DEF Asks
<1> HIDE DEF ask
<1>3. stack \in Seq(GoodScreen) /\ stack # <<>> /\ stack[1] = Dashboard BY DEF UiInv
<1>4. Len(stack) \in Nat \ {0} /\ DOMAIN stack = 1 .. Len(stack) BY <1>3, EmptySeq
<1>5. <<Result>> \in {<<>>, <<Result>>} /\ <<>> \in {<<>>, <<Result>>} /\ 1 \in Nat \ {0} OBVIOUS
<1>6. CASE ~StillAllowed(ask, adv)
  <2>1. stack' = Applied(stack, 1, <<Result>>) /\ store' = store
    <3>1. ask.what # "exit" BY <1>6 DEF StillAllowed, Actions
    <3> QED BY <1>6, <3>1 DEF Confirm, ask
  <2>2. \A i \in 1 .. Len(stack) : i = 1 \/ i <= Len(stack) - 1 => Placed(stack[i], i, store)
    BY <1>4 DEF PlaceInv
  <2>3. \A i \in DOMAIN Applied(stack, 1, <<Result>>) : Placed(Applied(stack, 1, <<Result>>)[i], i, store)
    BY <1>3, <1>5, <2>2, AppliedPlaces
  <2> QED BY <2>1, <2>3 DEF PlaceInv
<1>7. CASE StillAllowed(ask, adv) /\ ask.what = "exit"
  <2>1. stack' = <<Dashboard>> BY <1>7 DEF Confirm, ask
  <2>2. DOMAIN stack' = {1} /\ stack'[1] = Dashboard BY <2>1
  <2> QED BY <2>2 DEF PlaceInv, Placed, Dashboard, Plain
<1>8. CASE StillAllowed(ask, adv) /\ ask.what # "exit"
  <2> DEFINE pushed == IF ask.what = "advanced" THEN <<>> ELSE <<Result>>
             told   == Reload(stack, store')
  <2>1. stack' = Applied(told, 1 + ask.pops, pushed) /\ store' \in Outcomes(ask) BY <1>8 DEF Confirm, ask
  <2>2. store' \in Content BY <1>1, <2>1, OutcomesAreContent
  <2>3. told \in Seq(GoodScreen) /\ told # <<>> /\ told[1] = Dashboard BY <2>2, ReloadKeeps
  <2>4. Len(told) = Len(stack)
    <3>1. DOMAIN told = DOMAIN stack BY DEF Reload
    <3>2. DOMAIN told = 1 .. Len(told) /\ Len(told) \in Nat BY <2>3, LenProperties
    <3>3. 1 .. Len(told) = 1 .. Len(stack) BY <1>4, <3>1, <3>2
    <3> QED BY <1>4, <3>2, <3>3, SameLength
  <2>5. ASSUME NEW i \in 1 .. Len(stack)
        PROVE  told[i].kind = stack[i].kind /\ told[i].key = stack[i].key /\ told[i].ask = stack[i].ask
    <3>1. stack[i] \in Screen BY <1>3, ElementsOf DEF GoodScreen
    <3>2. told[i] = stack[i] \/ told[i] = [stack[i] EXCEPT !.shown = store'] BY <1>4 DEF Reload
    <3> HIDE DEF told
    <3> QED BY <3>1, <3>2 DEF Screen
  <2>6. ASSUME NEW i \in 1 .. Len(stack), i = 1 \/ i <= Len(stack) - (1 + ask.pops)
        PROVE  Placed(told[i], i, store')
    <3>1. CASE i = 1 BY <2>3, <3>1 DEF Placed, Dashboard, Plain
    <3>2. CASE i <= Len(stack) - (1 + ask.pops)
      <4>1. stack[i].kind \in {"key", "edit"} => store'[stack[i].key] # None
        BY <1>1, <2>1, <3>2, OutcomesKeepPlaces
      <4>2. Placed(stack[i], i, store) BY <1>4 DEF PlaceInv
      <4> HIDE DEF told
      <4> QED BY <2>5, <4>1, <4>2 DEF Placed
    <3> QED BY <2>6, <3>1, <3>2
  <2>7. pushed \in {<<>>, <<Result>>} OBVIOUS
  <2> HIDE DEF pushed, told
  <2>8. \A i \in DOMAIN stack' : Placed(stack'[i], i, store')
    BY <1>2, <2>1, <2>3, <2>4, <2>6, <2>7, AppliedPlaces
  <2> QED BY <2>8 DEF PlaceInv
<1> QED BY <1>6, <1>7, <1>8

LEMMA TickChangesTop ==
  ASSUME UiInv, NEW screen \in GoodScreen, TopBecomes(screen)
  PROVE  /\ Top' = screen /\ DOMAIN stack' = DOMAIN stack
         /\ \A i \in DOMAIN stack : stack'[i] = IF i = Len(stack) THEN screen ELSE stack[i]
<1>1. Len(stack) \in Nat \ {0} /\ DOMAIN stack = 1 .. Len(stack) BY TopIsGood DEF UiInv
<1>2. stack' = [stack EXCEPT ![Len(stack)] = screen] BY DEF TopBecomes
<1>3. /\ Len(stack') = Len(stack)
      /\ \A j \in 1 .. Len(stack) : stack'[j] = IF j = Len(stack) THEN screen ELSE stack[j]
  BY <1>1, <1>2, ExceptSeq DEF UiInv
<1>4. Len(stack) \in 1 .. Len(stack) BY <1>1
<1>5. stack'[Len(stack)] = screen BY <1>3, <1>4
<1> QED BY <1>1, <1>2, <1>3, <1>5 DEF Top

LEMMA TickKeepsPlaces ==
  ASSUME UiInv, StackInv, PlaceInv, NEW screen \in GoodScreen, TopBecomes(screen),
         screen.kind = Top.kind, screen.key = Top.key, screen.ask = Top.ask
  PROVE  PlaceInv'
<1>1. Placed(screen, Len(stack), store) BY TopIsPlaced DEF Placed
<1>2. store' = store BY DEF TopBecomes
<1> QED BY <1>1, <1>2, TickChangesTop DEF PlaceInv

\* A pass of update: the confirmation on top is shown longer, or its change is made.
LEMMA UpdateCases ==
  ASSUME UiInv, LoopInv, StackInv, Update
  PROVE  \/ \E screen \in GoodScreen :
              /\ TopBecomes(screen) /\ screen.kind = Top.kind /\ screen.key = Top.key /\ screen.ask = Top.ask
              /\ screen.kind = "confirm" /\ screen.armed => Top.armed \/ ~held
         \/ /\ Top.kind = "confirm" /\ Confirm(Top.ask, StillUnlocked)
            /\ Top.armed /\ Top.ask.mode = "hold" /\ held /\ age = HoldTime
<1>1. Top \in GoodScreen /\ Top \in Screen BY TopIsGood DEF GoodScreen
<1>2. \A b \in BOOLEAN :
        /\ [Top EXCEPT !.armed = b] \in GoodScreen /\ [Top EXCEPT !.armed = b].armed = b
        /\ [Top EXCEPT !.armed = b].kind = Top.kind /\ [Top EXCEPT !.armed = b].key = Top.key
        /\ [Top EXCEPT !.armed = b].ask = Top.ask
        /\ [Top EXCEPT !.holding = b] \in GoodScreen /\ [Top EXCEPT !.holding = b].armed = Top.armed
        /\ [Top EXCEPT !.holding = b].kind = Top.kind /\ [Top EXCEPT !.holding = b].key = Top.key
        /\ [Top EXCEPT !.holding = b].ask = Top.ask
  BY <1>1 DEF GoodScreen, ScreenOK, Screen
<1>3. CASE Arm
  <2>1. (~held) \in BOOLEAN BY DEF LoopInv
  <2> QED BY <1>2, <1>3, <2>1 DEF Arm
<1>4. CASE ReleaseHold BY <1>2, <1>4 DEF ReleaseHold
<1>5. CASE StartHold BY <1>2, <1>5 DEF StartHold
<1>6. CASE TopBecomes(Top) BY <1>1, <1>6
<1>7. CASE Top.kind = "confirm" /\ KeepHolding
  <2>1. age < HoldTime \/ age = HoldTime BY DEF UiInv
  <2> QED BY <1>6, <1>7, <2>1 DEF KeepHolding
<1> QED BY <1>3, <1>4, <1>5, <1>6, <1>7 DEF Update, NoTick

\* Only an Enter that came after the confirmation opened makes the change, and
\* what needs a hold was held.
Confirmed ==
  \A k \in Keys :
    Changed(k) =>
      /\ Top.kind = "confirm" /\ Covers(Top.ask, k) /\ fresh
      /\ NeedsHold(Top.ask) => held /\ age = HoldTime

LEMMA ConfirmedIsCovered ==
  ASSUME UiInv, NEW ask \in Asks, AskOK(ask), store' \in Outcomes(ask), NEW k \in Keys, Changed(k)
  PROVE  Covers(ask, k) /\ ask.what \in Actions \cup {"restore"}
<1>1. store \in Content BY DEF UiInv
<1>2. CASE ask.what = "delete_key" BY <1>1, <1>2 DEF Outcomes, Content, Changed, Covers, Actions
<1>3. CASE ask.what = "edit" BY <1>1, <1>3 DEF Outcomes, Content, Changed, Covers, Actions
<1>4. CASE ask.what = "delete_namespace"
  <2>1. PICK gone \in SUBSET {kk \in Keys : NsOf[kk] = ask.ns} :
          store' = [kk \in Keys |-> IF kk \in gone THEN None ELSE store[kk]]
    BY <1>4 DEF Outcomes
  <2>2. k \in gone BY <1>1, <2>1 DEF Content, Changed
  <2> QED BY <1>4, <2>2 DEF Covers, Actions
<1>5. CASE ask.what = "restore" BY <1>5 DEF Covers
<1>6. CASE ask.what \notin {"delete_key", "edit", "delete_namespace", "restore"}
  BY <1>6 DEF Outcomes, Changed
<1> QED BY <1>2, <1>3, <1>4, <1>5, <1>6

LEMMA ConfirmIsConfirmed ==
  ASSUME UiInv, StackInv, PlaceInv, Top.kind = "confirm", NEW adv, Confirm(Top.ask, adv), fresh,
         Top.ask.mode = "hold" => held /\ age = HoldTime
  PROVE  Confirmed
<1>1. Top.ask \in Asks /\ AskOK(Top.ask) /\ AskedAt(Top.ask, Len(stack))
  BY TopIsPlaced DEF GoodScreen, ScreenOK, Placed
<1>2. ASSUME NEW k \in Keys, Changed(k)
      PROVE  Covers(Top.ask, k) /\ (NeedsHold(Top.ask) => held /\ age = HoldTime)
  <2>1. store' \in Outcomes(Top.ask) BY <1>2 DEF Confirm, Changed
  <2>2. Covers(Top.ask, k) /\ Top.ask.what \in Actions \cup {"restore"} BY <1>1, <1>2, <2>1, ConfirmedIsCovered
  <2> QED BY <1>1, <2>2 DEF AskedAt
<1> QED BY <1>2 DEF Confirmed

LEMMA UnchangedIsConfirmed == ASSUME store' = store PROVE Confirmed
BY DEF Confirmed, Changed

\* Handling a key opens or closes a screen, or confirms by an armed press.
LEMMA HandleKeyCases ==
  ASSUME UiInv, StackInv, PlaceInv, NEW ev \in KeyEvent, HandleKey(ev)
  PROVE  \/ Deepens
         \/ /\ Top.kind = "confirm" /\ Confirm(Top.ask, advanced)
            /\ ev = "enter" /\ Top.armed /\ Top.ask.mode = "press"
<1>1. CASE OnConfirm(ev)
  <2>1. CASE Nothing \/ Pop BY <2>1 DEF Deepens, Nothing, ui
  <2> QED BY <1>1, <2>1 DEF OnConfirm
<1> QED BY <1>1, DashboardDeepens, ListsDeepen, KeyDeepens, OthersDeepen DEF HandleKey

\* What handling a key leaves on top listens to no earlier Enter.
LEMMA HandleKeyKeepsPlaces ==
  ASSUME UiInv, StackInv, PlaceInv, NEW ev \in KeyEvent, HandleKey(ev),
         Top.kind = "confirm" /\ Top.armed /\ ev = "enter" => fresh
  PROVE  /\ PlaceInv' /\ Confirmed /\ pc' = pc
         /\ Top'.kind = "confirm" => ~Top'.armed \/ (Top' = Top /\ fresh' = fresh)
<1>1. pc' = pc BY DEF HandleKey
<1>2. CASE UNCHANGED <<store, stack, fresh>>
  <2>1. Top' = Top /\ PlaceInv' BY <1>2 DEF Top, PlaceInv
  <2> QED BY <1>1, <1>2, <2>1, UnchangedIsConfirmed
<1>3. CASE \E s : Places(s) /\ Push(s)
  <2>1. PICK s : Places(s) /\ Push(s) BY <1>3
  <2>2. Top' = s
    <3>1. stack \in Seq(GoodScreen \cup {s}) /\ stack' = Append(stack, s) BY <2>1 DEF UiInv, Push
    <3>2. Len(stack') = Len(stack) + 1 /\ stack'[Len(stack) + 1] = s BY <3>1, AppendProperties
    <3> QED BY <3>2 DEF Top
  <2>3. store' = store BY <2>1 DEF Push
  <2> QED BY <1>1, <2>1, <2>2, <2>3, PushKeepsPlaces, UnchangedIsConfirmed DEF Places
<1>4. CASE Pop
  <2>1. store' = store BY <1>4 DEF Pop
  <2> QED BY <1>1, <1>4, <2>1, PopKeepsStack, PopKeepsPlaces, UnchangedIsConfirmed
<1>5. CASE /\ Top.kind = "confirm" /\ Confirm(Top.ask, advanced)
           /\ ev = "enter" /\ Top.armed /\ Top.ask.mode = "press"
  <2>1. advanced \in BOOLEAN BY DEF UiInv
  <2> QED BY <1>1, <1>5, <2>1, ConfirmKeepsStack, ConfirmKeepsPlaces, ConfirmIsConfirmed
<1> QED BY <1>2, <1>3, <1>4, <1>5, HandleKeyCases DEF Deepens

LEMMA EnterIsKept ==
  ASSUME UiInv, LoopInv, StackInv, PlaceInv, EnterInv, [Next]_vars
  PROVE  PlaceInv' /\ EnterInv' /\ Confirmed
<1>1. CASE UNCHANGED vars
  <2>1. PlaceInv' BY <1>1 DEF vars, ui, PlaceInv
  <2>2. store' = store BY <1>1 DEF vars, ui
  <2>3. EnterInv' BY <1>1 DEF vars, ui, keys, EnterInv, Top
  <2> QED BY <2>1, <2>2, <2>3, UnchangedIsConfirmed
<1>2. CASE Keyboard
  <2>1. UNCHANGED <<store, stack, pc, desktop>> /\ (fresh => fresh')
    BY <1>2 DEF Keyboard, DesktopKey, DesktopEnterDown, DesktopEnterQueued, DesktopEnterUp, DeviceEnterDown,
                DeviceEnterUp, ui
  <2>2. PlaceInv' /\ Confirmed /\ Top' = Top BY <2>1, UnchangedIsConfirmed DEF PlaceInv, Top
  <2>3. CASE DesktopEnterDown \/ DesktopEnterQueued \/ DeviceEnterDown
    BY <2>1, <2>2, <2>3 DEF DesktopEnterDown, DesktopEnterQueued, DeviceEnterDown, EnterInv
  <2>4. CASE DesktopEnterUp \/ DeviceEnterUp
    BY <2>1, <2>2, <2>4 DEF DesktopEnterUp, DeviceEnterUp, EnterInv, LoopInv, ui
  <2>5. ASSUME NEW ev \in KeyEvent, DesktopKey(ev) PROVE EnterInv'
    <3>1. ASSUME \A i \in DOMAIN queue : queue[i] # "enter" PROVE \A i \in DOMAIN queue' : queue'[i] # "enter"
      <4>1. queue \in Seq(KeyEvent) /\ ev # "enter" BY <2>5 DEF LoopInv, DesktopKey
      <4>2. queue' = queue \/ queue' = Append(queue, ev) BY <2>5 DEF DesktopKey, Queued
      <4>3. DOMAIN queue = 1 .. Len(queue) /\ Len(queue) \in Nat BY <4>1
      <4> QED BY <3>1, <4>1, <4>2, <4>3, AppendProperties
    <3> QED BY <2>1, <2>2, <2>5, <3>1 DEF DesktopKey, EnterInv, ui
  <2> QED BY <1>2, <2>2, <2>3, <2>4, <2>5 DEF Keyboard
<1>3. CASE DesktopPoll
  <2>1. /\ queue \in Seq(KeyEvent) /\ queue # <<>> /\ Head(queue) \in KeyEvent
        /\ desktop /\ HandleKey(Head(queue)) /\ queue' = Tail(queue)
        /\ UNCHANGED <<desktop, held, down>> /\ pc = "poll"
    BY <1>3, HeadTailProperties DEF DesktopPoll, LoopInv
  <2>2. DOMAIN queue = 1 .. Len(queue) /\ Len(queue) \in Nat \ {0} /\ Head(queue) = queue[1] BY <2>1
  <2>3. Top.kind = "confirm" /\ Top.armed /\ Head(queue) = "enter" => fresh BY <2>1, <2>2 DEF EnterInv
  <2>4. /\ PlaceInv' /\ Confirmed /\ pc' = pc
        /\ Top'.kind = "confirm" => ~Top'.armed \/ (Top' = Top /\ fresh' = fresh)
    BY <2>1, <2>3, HandleKeyKeepsPlaces
  <2>5. ASSUME \A i \in DOMAIN queue : queue[i] # "enter" PROVE \A i \in DOMAIN queue' : queue'[i] # "enter"
    BY <2>1, <2>2, <2>5
  <2> QED BY <2>1, <2>4, <2>5 DEF EnterInv
<1>4. CASE DevicePoll
  <2>1. PICK ev \in KeyEvent : HandleKey(ev) /\ (ev = "enter" => down) BY <1>4 DEF DevicePoll, KeyEvent
  <2>2. ~desktop /\ ~desktop' /\ pc = "poll" /\ held' = down /\ down' = down BY <1>4 DEF DevicePoll
  <2>3. Top.kind = "confirm" /\ Top.armed /\ ev = "enter" => fresh BY <2>1 DEF EnterInv
  <2>4. /\ PlaceInv' /\ Confirmed /\ pc' = pc
        /\ Top'.kind = "confirm" => ~Top'.armed \/ (Top' = Top /\ fresh' = fresh)
    BY <2>1, <2>3, HandleKeyKeepsPlaces
  <2> QED BY <2>2, <2>4 DEF EnterInv
<1>5. CASE DesktopPollEmpty \/ DevicePollNothing \/ Delay
  <2>1. UNCHANGED <<store, stack, fresh, desktop>>
    BY <1>5 DEF DesktopPollEmpty, DevicePollNothing, Delay, ui, keys
  <2>2. PlaceInv' /\ Confirmed /\ Top' = Top BY <2>1, UnchangedIsConfirmed DEF PlaceInv, Top
  <2>3. EnterInv'
    BY <1>5, <2>1, <2>2 DEF DesktopPollEmpty, DevicePollNothing, Delay, EnterInv, ui, keys
  <2> QED BY <2>2, <2>3
<1>6. CASE Update
  <2>1. pc = "update" /\ pc' = "delay" /\ UNCHANGED <<desktop, queue, held, down>> BY <1>6 DEF Update, keys
  <2>2. ASSUME NEW screen \in GoodScreen, TopBecomes(screen), screen.kind = Top.kind, screen.key = Top.key,
               screen.ask = Top.ask, screen.kind = "confirm" /\ screen.armed => Top.armed \/ ~held
        PROVE  PlaceInv' /\ EnterInv' /\ Confirmed
    <3>1. UNCHANGED <<store, fresh>> BY <2>2 DEF TopBecomes
    <3>2. Top' = screen BY <2>2, TickChangesTop
    <3>3. EnterInv' BY <2>1, <2>2, <3>1, <3>2 DEF EnterInv
    <3> QED BY <2>2, <3>1, <3>3, TickKeepsPlaces, UnchangedIsConfirmed
  <2>3. CASE /\ Top.kind = "confirm" /\ Confirm(Top.ask, StillUnlocked)
             /\ Top.armed /\ Top.ask.mode = "hold" /\ held /\ age = HoldTime
    <3>1. StillUnlocked \in BOOLEAN BY DEF StillUnlocked
    <3>2. fresh BY <2>3 DEF EnterInv
    <3>3. Top'.kind # "confirm" /\ PlaceInv' BY <2>3, <3>1, ConfirmKeepsStack, ConfirmKeepsPlaces
    <3>4. EnterInv' BY <2>1, <3>3 DEF EnterInv
    <3> QED BY <2>3, <3>1, <3>2, <3>3, <3>4, ConfirmIsConfirmed
  <2> QED BY <1>6, <2>2, <2>3, UpdateCases
<1> QED BY <1>1, <1>2, <1>3, <1>4, <1>5, <1>6 DEF Next, Loop

LEMMA EnterAtFirst == Init => PlaceInv /\ EnterInv
<1> SUFFICES ASSUME Init PROVE PlaceInv /\ EnterInv OBVIOUS
<1>1. DOMAIN stack = {1} /\ stack[1] = Dashboard /\ Top = Dashboard BY DEF Init, Top
<1>2. Dashboard.kind = "dashboard" BY DEF Dashboard, Plain
<1> QED BY <1>1, <1>2 DEF PlaceInv, Placed, EnterInv, Init

LEMMA AlwaysPlaced == Spec => [](PlaceInv /\ EnterInv)
<1>1. UiInv /\ LoopInv /\ StackInv /\ PlaceInv /\ EnterInv /\ [Next]_vars => PlaceInv' /\ EnterInv'
  BY EnterIsKept
<1> QED BY <1>1, EnterAtFirst, AlwaysStackInv, InvAlways, PTL DEF Spec

-----------------------------------------------------------------------------
(* The theorems.                                                           *)

\* Whatever screen the user returns to shows NVS as it is (modelChanged tells the
\* covered ones too, UiController.cpp).
THEOREM ScreensStayCurrent == Spec => []ScreensAreCurrent
<1>1. StackInv => ScreensAreCurrent BY DEF StackInv, Current, ScreensAreCurrent
<1> QED BY <1>1, AlwaysStackInv, PTL

LEMMA UpdateLocks ==
  ASSUME UiInv, LoopInv, StackInv, Update, idle = IdleLock, advanced'
  PROVE  Top.kind = "confirm" /\ Top.ask.what = "advanced" /\ held /\ ~advanced
<1>1. ~StillUnlocked BY DEF StillUnlocked, LoopInv
<1>2. ASSUME NEW screen, TopBecomes(screen) PROVE FALSE BY <1>1, <1>2 DEF TopBecomes
<1>3. Top.kind = "confirm" /\ held /\ Confirm(Top.ask, StillUnlocked)
  BY <1>2 DEF Update, Arm, ReleaseHold, StartHold, KeepHolding, NoTick
<1>4. Top.ask.what = "advanced" BY <1>1, <1>3 DEF Confirm
<1> QED BY <1>3, <1>4 DEF StackInv, Unlocks

\* Once the idle time is up a pass of the loop leaves Advanced mode locked, unless a
\* hold unlocks it anew in that pass (UiController::update).
THEOREM AdvancedLocks == Spec => LocksWhenIdle
<1> DEFINE Locks ==
      pc = "update" /\ pc' = "delay" /\ idle = IdleLock /\ advanced' =>
        Top.kind = "confirm" /\ Top.ask.what = "advanced" /\ held /\ ~advanced
<1>1. ASSUME UiInv, LoopInv, StackInv, [Next]_vars PROVE [Locks]_vars
  <2>1. CASE Update BY <1>1, <2>1, UpdateLocks
  <2>2. CASE ~Update
    <3>1. pc = "update" => pc' = "update" \/ UNCHANGED vars
      BY <1>1, <2>2 DEF Next, Keyboard, Loop, DesktopKey, DesktopEnterDown, DesktopEnterQueued, DesktopEnterUp,
                        DeviceEnterDown, DeviceEnterUp, DesktopPoll, DesktopPollEmpty, DevicePoll,
                        DevicePollNothing, Delay
    <3> QED BY <3>1
  <2> QED BY <2>1, <2>2
<1>2. UiInv /\ LoopInv /\ StackInv /\ [Next]_vars => [Locks]_vars BY <1>1
<1>3. Spec => [][Locks]_vars BY <1>2, AlwaysStackInv, InvAlways, PTL DEF Spec
<1> QED BY <1>3 DEF LocksWhenIdle

\* No screen, also none below the top, is about a key that is gone: deleting a key
\* or a namespace pops its screens (kDetailAndConfirm in KeyDetailScreen.cpp).
THEOREM NoDeletedKeyIsShown == Spec => []NoScreenOfDeletedKey
<1>1. PlaceInv => NoScreenOfDeletedKey BY DEF PlaceInv, Placed, NoScreenOfDeletedKey
<1> QED BY <1>1, AlwaysPlaced, PTL

\* NVS changes only as the confirmation on the screen says, by an Enter that came
\* after it opened, held long enough where the change asks for it
\* (ConfirmScreen::tick and onKey), on either keyboard.
THEOREM NothingChangesUnconfirmed == Spec => ChangesAreConfirmed
<1>1. ASSUME UiInv, LoopInv, StackInv, PlaceInv, EnterInv, [Next]_vars PROVE [Confirmed]_vars
  BY <1>1, EnterIsKept
<1>2. UiInv /\ LoopInv /\ StackInv /\ PlaceInv /\ EnterInv /\ [Next]_vars => [Confirmed]_vars BY <1>1
<1>3. Spec => [][Confirmed]_vars BY <1>2, AlwaysPlaced, AlwaysStackInv, InvAlways, PTL DEF Spec
<1> QED BY <1>3 DEF ChangesAreConfirmed, Confirmed
=============================================================================
