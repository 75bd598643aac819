---------------------------- MODULE ListScreens ----------------------------
(***************************************************************************)
(* The two screens that list names: the namespaces (NamespaceListScreen)   *)
(* and the keys of one (NamespaceDetailScreen), each with a filter         *)
(* (SearchField), a selection and a scroll position (ListCursor).          *)
(*                                                                         *)
(* The main loop handles every key that waits before it draws once. What   *)
(* other screens do is UiControl's: here a command goes to one of them,    *)
(* which returns with NVS changed or not. Names are sequences of character *)
(* codes, in the order the model lists them.                               *)
(***************************************************************************)
EXTENDS Integers, Sequences, SequencesExt

CONSTANTS
  Contents,    \* what the model may list: sequences of [name, keys]
  Codes,       \* the printable keys pressed
  ListRows,    \* rows of the namespace list without the search bar
  DetailRows,  \* rows of the key list without the search bar
  MaxLength    \* SearchField::kMaxLength, 15 in the program

ASSUME ListAssumption ==
  /\ Contents \subseteq Seq([name : Seq(Nat), keys : Seq(Seq(Nat))])
  /\ Codes \subseteq 32 .. 126
  /\ ListRows \in Nat \ {0, 1} /\ DetailRows \in Nat \ {0, 1} /\ MaxLength \in Nat \ {0}

VARIABLES
  content,  \* NvsModel::namespaces_ and what NvsModel::keys reads
  stack,    \* the list screens open, above the dashboard
  asked,    \* the name a command has been given for, while another screen is on top
  dirty,    \* dirty_
  drawn     \* what the display shows of a list screen

vars == <<content, stack, asked, dirty, drawn>>

None   == <<>>
NoName == <<-1>>  \* not a name: no character has this code
Top    == stack[Len(stack)]

-----------------------------------------------------------------------------
(* Input.                                                                  *)

Keys ==
  [key : {"Up", "Down", "Left", "Right", "Enter", "Escape", "Backspace", "Tab"}, ch : {0}]
  \cup [key : {"Char"}, ch : Codes]

NavOf ==
  [Up |-> "Up", Down |-> "Down", Left |-> "PageUp", Right |-> "PageDown", Enter |-> "Enter",
   Escape |-> "Back", Tab |-> "None"]
Legend == (59 :> "Up") @@ (46 :> "Down") @@ (44 :> "PageUp") @@ (96 :> "Back")

translate(ev, textMode) ==
  CASE ev.key \in DOMAIN NavOf -> [nav |-> NavOf[ev.key], ch |-> 0]
    [] ev.key = "Backspace"    -> [nav |-> IF textMode THEN "Erase" ELSE "Back", ch |-> 0]
    [] ev.key = "Char" /\ ~textMode /\ ev.ch \in DOMAIN Legend -> [nav |-> Legend[ev.ch], ch |-> 0]
    [] OTHER                   -> [nav |-> "Char", ch |-> ev.ch]

lower(c) == IF c \in 65 .. 90 THEN c + 32 ELSE c

matches(text, name) ==
  \E i \in 0 .. Len(name) - Len(text) : \A j \in 1 .. Len(text) : lower(name[i + j]) = lower(text[j])

\* SearchField::handle: the field, and whether the text changed.
SearchHandle(f, in) ==
  CASE in.nav = "Char" /\ Len(f.text) < MaxLength ->
         [field |-> [f EXCEPT !.text = Append(@, in.ch)], changed |-> TRUE]
    [] in.nav = "Erase" /\ f.text # <<>> -> [field |-> [f EXCEPT !.text = Front(@)], changed |-> TRUE]
    [] in.nav = "Enter" -> [field |-> [f EXCEPT !.active = FALSE], changed |-> FALSE]
    [] in.nav = "Back"  -> [field |-> [active |-> FALSE, text |-> <<>>], changed |-> f.text # <<>>]
    [] OTHER            -> [field |-> f, changed |-> FALSE]

NoSearch == [active |-> FALSE, text |-> <<>>]
Shown(f) == f.active \/ f.text # <<>>

-----------------------------------------------------------------------------
(* ListCursor. Rows are counted from 0.                                    *)

Lesser(a, b)  == IF a < b THEN a ELSE b
Greater(a, b) == IF a < b THEN b ELSE a

\* Wrong on purpose: the selection is not limited to the rows left.
Reset_NoLimit(c, count, selected) ==
  [count |-> count, selected |-> c.selected, top |-> Lesser(c.top, c.selected)]

Reset(c, count, selected) ==
  LET s == IF count = 0 THEN 0 ELSE Lesser(selected, count - 1)
  IN  [count |-> count, selected |-> s, top |-> Lesser(c.top, s)]

\* Wrong on purpose: scrolls down one row too late.
Follow_Late(c, rows) ==
  IF rows = 0 \/ c.count <= rows THEN [c EXCEPT !.top = 0]
  ELSE LET up   == Lesser(c.top, c.selected)
           down == IF c.selected > up + rows THEN c.selected + 1 - rows ELSE up
       IN  [c EXCEPT !.top = Lesser(down, c.count - rows)]

Follow(c, rows) ==
  IF rows = 0 \/ c.count <= rows THEN [c EXCEPT !.top = 0]
  ELSE LET up   == Lesser(c.top, c.selected)
           down == IF c.selected >= up + rows THEN c.selected + 1 - rows ELSE up
       IN  [c EXCEPT !.top = Lesser(down, c.count - rows)]

Move(c, delta, rows) ==
  IF c.count = 0 THEN c
  ELSE Follow([c EXCEPT !.selected = Greater(0, Lesser(@ + delta, c.count - 1))], rows)

-----------------------------------------------------------------------------
(* The screens: of the namespaces, or of the keys of the namespace ns.     *)

Before(a, b) ==
  \E n \in 0 .. Lesser(Len(a), Len(b)) :
    /\ SubSeq(a, 1, n) = SubSeq(b, 1, n)
    /\ n < Len(b) /\ (n = Len(a) \/ a[n + 1] < b[n + 1])

AllNames(lists, ns, in) ==
  IF lists = "namespaces" THEN [i \in DOMAIN in |-> in[i].name]
  ELSE LET at == {i \in DOMAIN in : in[i].name = ns}
       IN  IF at = {} THEN <<>> ELSE in[CHOOSE i \in at : TRUE].keys

\* The names that match, in the order they came or by name.
Listed(names, text, sort) ==
  LET found == {i \in DOMAIN names : matches(text, names[i])}
      Earlier(i, j) ==
        IF sort = "name" /\ names[i] # names[j] THEN Before(names[i], names[j]) ELSE i < j
      Rank(i) == Cardinality({j \in found : Earlier(j, i)})
  IN  [k \in 1 .. Cardinality(found) |-> names[CHOOSE i \in found : Rank(i) = k - 1]]

Filtered(s, in) == Listed(AllNames(s.lists, s.ns, in), s.search.text, s.sort)

VisibleRows(s) ==
  (IF s.lists = "namespaces" THEN ListRows ELSE DetailRows) - (IF Shown(s.search) THEN 1 ELSE 0)

Selected(s) == IF s.cursor.count = 0 THEN None ELSE s.items[s.cursor.selected + 1]

\* Wrong on purpose: the row stays selected, not the name.
Rebuild_SameRow(s, keep, in) ==
  LET items == Filtered(s, in)
  IN  [s EXCEPT !.items = items, !.cursor = Follow(Reset(@, Len(items), @.selected), VisibleRows(s))]

Rebuild(s, keep, in) ==
  LET items == Filtered(s, in)
      at    == {i \in DOMAIN items : items[i] = keep}
      row   == IF at = {} THEN 0 ELSE (CHOOSE i \in at : \A j \in at : j <= i) - 1
  IN  [s EXCEPT !.items = items, !.cursor = Follow(Reset(@, Len(items), row), VisibleRows(s))]

NewScreen(lists, ns) ==
  Rebuild([lists |-> lists, ns |-> ns, sort |-> "size", search |-> NoSearch, items |-> <<>>,
           cursor |-> [count |-> 0, selected |-> 0, top |-> 0]], None, content)

-----------------------------------------------------------------------------
(* Keys. in is the key as the top screen is given it.                      *)

Becomes(s)  == stack' = [stack EXCEPT ![Len(stack)] = s]

\* Wrong on purpose: handling a key does not ask for a frame.
Invalidates_Not == UNCHANGED <<content, asked, drawn, dirty>>

Invalidates == dirty' = TRUE /\ UNCHANGED <<content, asked, drawn>>

SearchKey(in) ==
  /\ Top.search.active
  /\ IF in.nav \in {"Up", "Down"}
     THEN Becomes([Top EXCEPT !.cursor = Move(@, IF in.nav = "Up" THEN -1 ELSE 1, VisibleRows(Top))])
     ELSE LET done   == SearchHandle(Top.search, in)
              typed  == [Top EXCEPT !.search = done.field]
              listed == IF done.changed THEN Rebuild(typed, Selected(Top), content) ELSE typed
          IN  Becomes([listed EXCEPT !.cursor = Follow(@, VisibleRows(listed))])
  /\ Invalidates

MoveKey(in) ==
  /\ ~Top.search.active /\ in.nav \in {"Up", "Down", "PageUp", "PageDown"}
  /\ LET rows  == VisibleRows(Top)
         delta == [Up |-> -1, Down |-> 1, PageUp |-> 0 - rows, PageDown |-> rows]
     IN  Becomes([Top EXCEPT !.cursor = Move(@, delta[in.nav], rows)])
  /\ Invalidates

\* Enter on a namespace lists its keys; on a key it shows the key.
EnterKey(in) ==
  /\ ~Top.search.active /\ in.nav = "Enter" /\ Top.cursor.count > 0 /\ dirty' = TRUE
  /\ IF Top.lists = "namespaces"
     THEN stack' = Append(stack, NewScreen("keys", Selected(Top))) /\ UNCHANGED asked
     ELSE asked' = Selected(Top) /\ UNCHANGED stack
  /\ UNCHANGED <<content, drawn>>

BackKey(in) ==
  /\ ~Top.search.active /\ in.nav = "Back"
  /\ IF Top.search.text = <<>> THEN stack' = Front(stack)
     ELSE Becomes(Rebuild([Top EXCEPT !.search.text = <<>>], Selected(Top), content))
  /\ Invalidates

FindKey(in) ==
  /\ ~Top.search.active /\ in.nav = "Char" /\ in.ch = 47
  /\ Becomes([Top EXCEPT !.search.active = TRUE])
  /\ Invalidates

SortKey(in) ==
  /\ ~Top.search.active /\ in.nav = "Char" /\ in.ch \in {83, 115} /\ Top.lists = "namespaces"
  /\ Becomes(Rebuild([Top EXCEPT !.sort = IF @ = "size" THEN "name" ELSE "size"], Selected(Top), content))
  /\ Invalidates

\* D, and E on a key: another screen asks about the selected name.
CommandKey(in) ==
  /\ ~Top.search.active /\ in.nav = "Char" /\ Top.cursor.count > 0
  /\ in.ch \in {68, 100} \cup (IF Top.lists = "namespaces" THEN {} ELSE {69, 101})
  /\ asked' = Selected(Top) /\ dirty' = TRUE
  /\ UNCHANGED <<content, stack, drawn>>

\* Wrong on purpose: only the screen on top is told.
ModelChanged_TopOnly(in) ==
  /\ content' = in
  /\ stack' = [i \in DOMAIN stack |->
                 IF i = Len(stack) THEN Rebuild(stack[i], Selected(stack[i]), in) ELSE stack[i]]
  /\ dirty' = TRUE

\* UiController::modelChanged, with what NvsModel::refresh has just read.
ModelChanged(in) ==
  /\ content' = in
  /\ stack' = [i \in DOMAIN stack |-> Rebuild(stack[i], Selected(stack[i]), in)]
  /\ dirty' = TRUE

RefreshKey(in) ==
  /\ ~Top.search.active /\ in.nav = "Char" /\ in.ch \in {82, 114}
  /\ \E found \in Contents : ModelChanged(found)
  /\ UNCHANGED <<asked, drawn>>

\* A key that does nothing is drawn again all the same.
Listening     == asked = NoName /\ stack # <<>>
Input(Key(_)) == \E ev \in Keys : Key(translate(ev, Top.search.active))

-----------------------------------------------------------------------------
(* What happens around the keys.                                           *)

\* From the dashboard.
OpenList ==
  /\ stack = <<>>
  /\ stack' = <<NewScreen("namespaces", None)>> /\ dirty' = TRUE
  /\ UNCHANGED <<content, asked, drawn>>

\* The other screen is left: nothing was changed, or a change was made and every
\* list is told.
Return ==
  /\ asked # NoName /\ asked' = NoName
  /\ \/ dirty' = TRUE /\ UNCHANGED <<content, stack>>
     \/ \E found \in Contents : ModelChanged(found)
  /\ UNCHANGED drawn

\* draw: scrolls, then shows the rows; mark is the row painted as selected.
Picture(s) ==
  [room |-> VisibleRows(s), top |-> s.cursor.top, mark |-> s.cursor.selected - s.cursor.top,
   rows |-> SubSeq(s.items, s.cursor.top + 1, Lesser(s.cursor.top + VisibleRows(s), Len(s.items)))]

NoPicture == [room |-> 0, top |-> 0, mark |-> 0, rows |-> <<>>]

Render ==
  /\ dirty /\ asked = NoName /\ dirty' = FALSE
  /\ IF stack = <<>> THEN drawn' = NoPicture /\ UNCHANGED stack
     ELSE LET scrolled == [Top EXCEPT !.cursor = Follow(@, VisibleRows(Top))]
          IN  Becomes(scrolled) /\ drawn' = Picture(scrolled)
  /\ UNCHANGED <<content, asked>>

Init == content \in Contents /\ stack = <<>> /\ asked = NoName /\ dirty = TRUE /\ drawn = NoPicture

Next ==
  \/ Listening /\ Input(SearchKey)
  \/ Listening /\ Input(MoveKey)
  \/ Listening /\ Input(EnterKey)
  \/ Listening /\ Input(BackKey)
  \/ Listening /\ Input(FindKey)
  \/ Listening /\ Input(SortKey)
  \/ Listening /\ Input(CommandKey)
  \/ Listening /\ Input(RefreshKey)
  \/ OpenList
  \/ Return
  \/ Render

Spec == Init /\ [][Next]_vars

-----------------------------------------------------------------------------
(* Properties.                                                             *)

Cursors(n) == [count : {n}, selected : 0 .. n, top : 0 .. n]

\* The open screens have the shape of a screen, the list of keys above that of
\* namespaces, and the cursor of each is on one of its rows: handlers index items_
\* and visible_ with it unchecked.
ListTypeOK ==
  /\ content \in Contents /\ Len(stack) <= 2 /\ dirty \in BOOLEAN
  /\ \A i \in DOMAIN stack :
       /\ stack[i].lists = (IF i = 1 THEN "namespaces" ELSE "keys")
       /\ stack[i].sort \in {"size", "name"}
       /\ stack[i].search.active \in BOOLEAN /\ Len(stack[i].search.text) <= MaxLength
       /\ stack[i].cursor \in Cursors(Len(stack[i].items))
       /\ stack[i].items # <<>> => stack[i].cursor.selected < Len(stack[i].items)

\* Whatever order of keys, searches and changes came before, every open list, the
\* covered one too, holds exactly the names the model has that match its filter,
\* in its order, and none that a change has removed.
ListsAreCurrent ==
  \A i \in DOMAIN stack : stack[i].items = Filtered(stack[i], content)

\* The name that Enter, E and D act on is painted as selected in a frame: after
\* several keys between two frames, a search bar that took a row or a change of
\* the list the window has followed the selection, and no further than it had to:
\* no row is blank while names above the window are hidden.
SelectionIsDrawn ==
  /\ drawn.rows # <<>> => drawn.mark \in 0 .. Len(drawn.rows) - 1
  /\ drawn.top > 0 => Len(drawn.rows) = drawn.room

\* Filtering, sorting and reading NVS anew never move the selection to another
\* name while the selected one is still listed: a command typed after them acts
\* on the name chosen before.
KeepsTheName ==
  [][\A i \in (DOMAIN stack) \cap (DOMAIN stack') :
       (stack'[i].items # stack[i].items /\ \E j \in DOMAIN stack'[i].items : stack'[i].items[j] = Selected(stack[i]))
       => Selected(stack'[i]) = Selected(stack[i])]_vars

\* While nothing waits to be drawn, a command is about the name that the display
\* marks.
AsksForTheMarked ==
  [][(asked = NoName /\ asked' # NoName /\ ~dirty) => asked' = drawn.rows[drawn.mark + 1]]_vars

=============================================================================
