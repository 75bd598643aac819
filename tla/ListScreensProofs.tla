------------------------- MODULE ListScreensProofs -------------------------
(***************************************************************************)
(* Proofs about ListScreens, for every content NVS may have, every key and *)
(* every height of the window: the cursor is on a row, the lists are       *)
(* current, what is marked is what a command takes.                        *)
(***************************************************************************)
EXTENDS ListScreens, FiniteSetTheorems, SequenceTheorems, WellFoundedInduction, TLAPS

USE ListAssumption

-----------------------------------------------------------------------------
(* Sequences of anything.                                                  *)

IsList(q) == Len(q) \in Nat /\ q = [i \in 1 .. Len(q) |-> q[i]]

LEMMA ListIsSeq ==
  ASSUME NEW q, IsList(q)
  PROVE  q \in Seq({q[i] : i \in 1 .. Len(q)}) /\ DOMAIN q = 1 .. Len(q)
<1> DEFINE S == {q[i] : i \in 1 .. Len(q)}
<1>1. q \in [1 .. Len(q) -> S]
  BY DEF IsList
<1>2. q \in UNION {[1 .. n -> S] : n \in Nat}
  BY <1>1 DEF IsList
<1>3. q \in Seq(S)
  BY <1>2, SeqDef, Zenon
<1> QED BY <1>1, <1>3

LEMMA SeqIsList ==
  ASSUME NEW S, NEW q \in Seq(S)
  PROVE  IsList(q)
BY LenProperties DEF IsList

LEMMA FunctionIsList ==
  ASSUME NEW n \in Nat, NEW q, DOMAIN q = 1 .. n, q = [i \in 1 .. n |-> q[i]]
  PROVE  IsList(q) /\ Len(q) = n
<1> DEFINE S == {q[i] : i \in 1 .. n}
<1>1. q \in [1 .. n -> S]
  OBVIOUS
<1>2. q \in UNION {[1 .. m -> S] : m \in Nat}
  BY <1>1
<1>3. q \in Seq(S)
  BY <1>2, SeqDef, Zenon
<1>4. Len(q) \in Nat /\ DOMAIN q = 1 .. Len(q)
  BY <1>3, LenProperties
<1>5. Len(q) = n
  BY <1>4
<1> QED BY <1>5 DEF IsList

LEMMA Extended ==
  ASSUME NEW q, IsList(q), NEW x
  PROVE  /\ IsList(Append(q, x)) /\ Len(Append(q, x)) = Len(q) + 1
         /\ \A i \in 1 .. Len(q) : Append(q, x)[i] = q[i]
         /\ Append(q, x)[Len(q) + 1] = x
<1> DEFINE S == {q[i] : i \in 1 .. Len(q)} \cup {x}
<1>1. q \in Seq(S)
  <2>1. q \in Seq({q[i] : i \in 1 .. Len(q)})
    BY ListIsSeq
  <2> QED BY <2>1, SeqMonotonic
<1>2. x \in S
  OBVIOUS
<1> HIDE DEF S
<1>3. Append(q, x) \in Seq(S)
  BY <1>1, <1>2, AppendProperties
<1>4. /\ Len(Append(q, x)) = Len(q) + 1 /\ Append(q, x)[Len(q) + 1] = x
      /\ \A i \in 1 .. Len(q) : Append(q, x)[i] = q[i]
  BY <1>1, <1>2, AppendProperties
<1>5. IsList(Append(q, x))
  BY <1>3, SeqIsList
<1> QED BY <1>4, <1>5

LEMMA Shortened ==
  ASSUME NEW q, IsList(q), q # <<>>
  PROVE  /\ IsList(Front(q)) /\ Len(Front(q)) = Len(q) - 1
         /\ \A i \in 1 .. Len(q) - 1 : Front(q)[i] = q[i]
         /\ Len(q) > 0
<1> DEFINE S == {q[i] : i \in 1 .. Len(q)}
<1>1. q \in Seq(S)
  BY ListIsSeq
<1> HIDE DEF S
<1>2. Len(q) \in Nat /\ Len(q) > 0
  BY <1>1, LenProperties, EmptySeq DEF IsList
<1>3. /\ Front(q) \in Seq(S) /\ Len(Front(q)) = Len(q) - 1
      /\ \A i \in 1 .. Len(q) - 1 : Front(q)[i] = q[i]
  <2>1. 1 \in 1 .. Len(q) + 1 /\ Len(q) - 1 \in 0 .. Len(q) /\ Len(q) \in Nat
    BY <1>2
  <2>2. /\ SubSeq(q, 1, Len(q) - 1) \in Seq(S)
        /\ Len(SubSeq(q, 1, Len(q) - 1)) = IF 1 <= Len(q) - 1 THEN Len(q) - 1 - 1 + 1 ELSE 0
        /\ \A i \in 1 .. Len(q) - 1 - 1 + 1 : SubSeq(q, 1, Len(q) - 1)[i] = q[1 + i - 1]
    BY <1>1, <2>1, SubSeqProperties
  <2>3. Len(q) - 1 - 1 + 1 = Len(q) - 1 /\ (IF 1 <= Len(q) - 1 THEN Len(q) - 1 - 1 + 1 ELSE 0) = Len(q) - 1
    BY <1>2
  <2>4. \A i \in 1 .. Len(q) - 1 : 1 + i - 1 = i
    BY <1>2
  <2> QED BY <2>2, <2>3, <2>4 DEF Front
<1> QED BY <1>2, <1>3, SeqIsList

LEMMA Replaced ==
  ASSUME NEW q, IsList(q), q # <<>>, NEW x
  PROVE  LET r == [q EXCEPT ![Len(q)] = x]
         IN  /\ IsList(r) /\ Len(r) = Len(q) /\ r[Len(q)] = x /\ r # <<>>
             /\ \A i \in 1 .. Len(q) : i # Len(q) => r[i] = q[i]
<1> DEFINE r == [q EXCEPT ![Len(q)] = x]
<1>1. Len(q) \in Nat /\ Len(q) > 0 /\ DOMAIN q = 1 .. Len(q)
  BY Shortened, ListIsSeq DEF IsList
<1>2. DOMAIN r = 1 .. Len(q) /\ r = [i \in 1 .. Len(q) |-> r[i]] /\ r[Len(q)] = x
  <2>1. r = [i \in DOMAIN q |-> IF i = Len(q) THEN x ELSE q[i]]
    BY <1>1, Zenon
  <2> QED BY <1>1, <2>1
<1>3. IsList(r) /\ Len(r) = Len(q)
  BY <1>1, <1>2, FunctionIsList
<1>4. r # <<>>
  BY <1>1, <1>3, EmptySeq
<1> QED BY <1>1, <1>2, <1>3, <1>4

\* The last of some rows.
LEMMA LastRow ==
  ASSUME NEW n \in Nat, NEW T, T \subseteq 1 .. n, T # {}
  PROVE  \E i \in T : \A j \in T : j <= i
<1> DEFINE U == {n - i : i \in T}
<1>1. U \subseteq Nat /\ U # {}
  <2>1. \A i \in T : n - i \in Nat
    OBVIOUS
  <2>2. PICK i \in T : TRUE
    OBVIOUS
  <2>3. n - i \in U
    BY <2>2
  <2> QED BY <2>1, <2>3
<1>2. PICK x \in U : \A y \in U : ~ (<<y, x>> \in OpToRel(<, Nat))
  BY <1>1, WFMin, NatLessThanWellFounded, Zenon
<1>3. PICK i \in T : x = n - i
  BY <1>2
<1>4. ASSUME NEW j \in T PROVE j <= i
  <2>1. n - j \in U /\ n - j \in Nat /\ x \in Nat
    BY <1>1, <1>2
  <2>2. (n - j < x) => <<n - j, x>> \in OpToRel(<, Nat)
    BY <2>1 DEF OpToRel
  <2>3. ~ (n - j < x)
    BY <1>2, <2>1, <2>2
  <2> QED BY <1>3, <2>1, <2>3
<1> QED BY <1>4

-----------------------------------------------------------------------------
(* The cursor.                                                             *)

Cursor == [count : Nat, selected : Nat, top : Nat]

OnARow(c) ==
  /\ c \in Cursor
  /\ c.count = 0 => c.selected = 0
  /\ c.count > 0 => c.selected < c.count
  /\ c.top <= c.count

\* The window holds the selection and is as full as it can be.
InView(c, rows) ==
  IF c.count <= rows THEN c.top = 0
  ELSE c.top <= c.selected /\ c.selected < c.top + rows /\ c.top + rows <= c.count

\* ListCursor::reset selects a row there is, the one asked for if it is there.
LEMMA ResetIsOnARow ==
  ASSUME NEW c \in Cursor, NEW count \in Nat, NEW selected \in Nat
  PROVE  /\ OnARow(Reset(c, count, selected)) /\ Reset(c, count, selected).count = count
         /\ selected < count => Reset(c, count, selected).selected = selected
BY DEF Cursor, OnARow, Reset, Lesser

\* ListCursor::follow brings the selection into the window.
LEMMA FollowBringsIntoView ==
  ASSUME NEW c, OnARow(c), NEW rows \in Nat \ {0}
  PROVE  /\ OnARow(Follow(c, rows)) /\ InView(Follow(c, rows), rows)
         /\ Follow(c, rows).count = c.count /\ Follow(c, rows).selected = c.selected
<1>1. CASE c.count <= rows
  <2>1. Follow(c, rows) = [c EXCEPT !.top = 0]
    BY <1>1 DEF Follow
  <2> QED BY <1>1, <2>1 DEF OnARow, InView, Cursor
<1>2. CASE ~ (c.count <= rows)
  <2> DEFINE up   == Lesser(c.top, c.selected)
             down == IF c.selected >= up + rows THEN c.selected + 1 - rows ELSE up
             top  == Lesser(down, c.count - rows)
  <2>1. c.count \in Nat /\ c.selected \in Nat /\ c.top \in Nat /\ c.selected < c.count
    BY <1>2 DEF OnARow, Cursor
  <2>2. Follow(c, rows) = [c EXCEPT !.top = top]
    BY <1>2, <2>1 DEF Follow
  <2>3. up \in Nat /\ up <= c.selected
    BY <2>1 DEF Lesser
  <2> HIDE DEF up
  <2>4. down \in Nat /\ down <= c.selected /\ c.selected < down + rows
    BY <2>1, <2>3
  <2> HIDE DEF down
  <2>5. top \in Nat /\ top <= c.selected /\ c.selected < top + rows /\ top + rows <= c.count
    BY <1>2, <2>1, <2>4 DEF Lesser
  <2> HIDE DEF top
  <2> QED BY <1>2, <2>1, <2>2, <2>5 DEF OnARow, InView, Cursor
<1> QED BY <1>1, <1>2

\* ListCursor::move stays in the list.
LEMMA MoveStays ==
  ASSUME NEW c, OnARow(c), NEW delta \in Int, NEW rows \in Nat \ {0}
  PROVE  OnARow(Move(c, delta, rows)) /\ Move(c, delta, rows).count = c.count
<1>1. CASE c.count = 0
  BY <1>1 DEF Move
<1>2. CASE c.count # 0
  <2> DEFINE row == Greater(0, Lesser(c.selected + delta, c.count - 1))
             d   == [c EXCEPT !.selected = row]
  <2>1. c.count \in Nat /\ c.selected \in Nat /\ c.count > 0
    BY <1>2 DEF OnARow, Cursor
  <2>2. row \in Nat /\ row < c.count
    BY <2>1 DEF Greater, Lesser
  <2> HIDE DEF row
  <2>3. OnARow(d) /\ d.count = c.count
    BY <2>1, <2>2 DEF OnARow, Cursor
  <2>4. Move(c, delta, rows) = Follow(d, rows)
    BY <1>2 DEF Move, row
  <2> HIDE DEF d
  <2> QED BY <2>3, <2>4, FollowBringsIntoView
<1> QED BY <1>1, <1>2

-----------------------------------------------------------------------------
(* Screens.                                                                *)

Field == [active : BOOLEAN, text : Seq(Nat)]

\* What every screen is, whatever it lists and wherever its cursor is.
Shaped(s) ==
  /\ s = [lists |-> s.lists, ns |-> s.ns, sort |-> s.sort, search |-> s.search, items |-> s.items,
          cursor |-> s.cursor]
  /\ s.lists \in {"namespaces", "keys"} /\ s.sort \in {"size", "name"}
  /\ s.search \in Field /\ Len(s.search.text) <= MaxLength
  /\ s.cursor \in Cursor

Screen(s) == Shaped(s) /\ IsList(s.items) /\ OnARow(s.cursor) /\ s.cursor.count = Len(s.items)

Current(s, in) == s.items = Filtered(s, in)

\* The selection stays with its name when the list changes.
Keeps(old, new) ==
  (new.items # old.items /\ \E j \in DOMAIN new.items : new.items[j] = Selected(old))
  => Selected(new) = Selected(old)

LEMMA ThereIsAlwaysARow ==
  ASSUME NEW s
  PROVE  VisibleRows(s) \in Nat \ {0}
BY DEF VisibleRows

LEMMA AllNamesAreNumbered ==
  ASSUME NEW lists, NEW ns, NEW in \in Contents
  PROVE  \E n \in Nat : DOMAIN AllNames(lists, ns, in) = 1 .. n
<1>1. in \in Seq([name : Seq(Nat), keys : Seq(Seq(Nat))])
  OBVIOUS
<1>2. Len(in) \in Nat /\ DOMAIN in = 1 .. Len(in)
  BY <1>1, LenProperties
<1>3. CASE lists = "namespaces"
  BY <1>2, <1>3 DEF AllNames
<1>4. CASE lists # "namespaces"
  <2> DEFINE at == {i \in DOMAIN in : in[i].name = ns}
             i  == CHOOSE i \in at : TRUE
  <2>1. CASE at = {}
    <3>1. AllNames(lists, ns, in) = <<>>
      BY <1>4, <2>1 DEF AllNames
    <3>2. DOMAIN <<>> = 1 .. 0
      OBVIOUS
    <3> QED BY <3>1, <3>2
  <2>2. CASE at # {}
    <3>1. i \in at
      BY <2>2
    <3>2. AllNames(lists, ns, in) = in[i].keys
      BY <1>4, <2>2 DEF AllNames
    <3>3. i \in 1 .. Len(in)
      BY <1>2, <3>1
    <3> HIDE DEF i
    <3>4. in[i] \in [name : Seq(Nat), keys : Seq(Seq(Nat))]
      BY <1>1, <3>3, ElementOfSeq, Zenon
    <3>5. in[i].keys \in Seq(Seq(Nat))
      BY <3>4
    <3> QED BY <3>2, <3>5, LenProperties
  <2> QED BY <2>1, <2>2
<1> QED BY <1>3, <1>4

\* rebuild makes a list, as long as there are names that match.
LEMMA FilteredIsList ==
  ASSUME NEW s, NEW in \in Contents
  PROVE  IsList(Filtered(s, in))
<1> DEFINE names == AllNames(s.lists, s.ns, in)
           found == {i \in DOMAIN names : matches(s.search.text, names[i])}
           q     == Listed(names, s.search.text, s.sort)
<1>1. PICK n \in Nat : DOMAIN names = 1 .. n
  BY AllNamesAreNumbered
<1> HIDE DEF names
<1>2. IsFiniteSet(found) /\ Cardinality(found) \in Nat
  <2>1. IsFiniteSet(1 .. n)
    BY FS_Interval
  <2>2. found \subseteq 1 .. n
    BY <1>1
  <2> HIDE DEF found
  <2>3. IsFiniteSet(found)
    BY <2>1, <2>2, FS_Subset
  <2> QED BY <2>3, FS_CardinalityType
<1>3. DOMAIN q = 1 .. Cardinality(found) /\ q = [i \in 1 .. Cardinality(found) |-> q[i]]
  BY DEF Listed
<1>4. Filtered(s, in) = q
  BY DEF Filtered, names
<1> HIDE DEF found, q
<1> QED BY <1>2, <1>3, <1>4, FunctionIsList

\* Only the kind of list, the namespace, the order and the filter make the list.
LEMMA FilteredAgain ==
  ASSUME NEW s, NEW r, NEW in, r.lists = s.lists, r.ns = s.ns, r.sort = s.sort,
         r.search.text = s.search.text
  PROVE  Filtered(r, in) = Filtered(s, in)
BY DEF Filtered

\* The row rebuild selects, with the cursor that follows.
RowOf(items, keep) ==
  LET at == {i \in DOMAIN items : items[i] = keep}
  IN  IF at = {} THEN 0 ELSE (CHOOSE i \in at : \A j \in at : j <= i) - 1

LEMMA RowOfIsTheName ==
  ASSUME NEW items, IsList(items), NEW keep
  PROVE  /\ RowOf(items, keep) \in Nat
         /\ (\E j \in DOMAIN items : items[j] = keep)
            => /\ RowOf(items, keep) < Len(items)
               /\ items[RowOf(items, keep) + 1] = keep
<1> DEFINE at == {i \in DOMAIN items : items[i] = keep}
           i  == CHOOSE i \in at : \A j \in at : j <= i
<1>1. Len(items) \in Nat /\ DOMAIN items = 1 .. Len(items)
  BY ListIsSeq DEF IsList
<1>2. CASE at = {}
  BY <1>2 DEF RowOf
<1>3. CASE at # {}
  <2>1. at \subseteq 1 .. Len(items)
    BY <1>1
  <2>2. \E x \in at : \A j \in at : j <= x
    BY <1>1, <1>3, <2>1, LastRow
  <2>3. i \in at
    BY <2>2
  <2>4. RowOf(items, keep) = i - 1
    BY <1>3 DEF RowOf
  <2> HIDE DEF i
  <2>5. i \in 1 .. Len(items) /\ items[i] = keep
    BY <2>1, <2>3
  <2>6. i - 1 \in Nat /\ i - 1 < Len(items) /\ (i - 1) + 1 = i
    BY <1>1, <2>5
  <2> QED BY <2>4, <2>5, <2>6
<1> QED BY <1>2, <1>3

\* rebuild leaves a screen with the list of now, the selection on the name kept.
LEMMA RebuildIsCurrent ==
  ASSUME NEW s, Shaped(s), NEW keep, NEW in \in Contents
  PROVE  LET r == Rebuild(s, keep, in)
         IN  /\ Screen(r) /\ Current(r, in) /\ InView(r.cursor, VisibleRows(r))
             /\ r.lists = s.lists /\ r.ns = s.ns /\ r.sort = s.sort /\ r.search = s.search
             /\ (\E j \in DOMAIN r.items : r.items[j] = keep) => Selected(r) = keep
<1> DEFINE items == Filtered(s, in)
           row   == RowOf(items, keep)
           at    == Reset(s.cursor, Len(items), row)
           now   == Follow(at, VisibleRows(s))
           r     == [lists |-> s.lists, ns |-> s.ns, sort |-> s.sort, search |-> s.search,
                     items |-> items, cursor |-> now]
<1>1. Rebuild(s, keep, in) = r
  <2>1. Rebuild(s, keep, in) = [s EXCEPT !.items = items, !.cursor = Follow(Reset(@, Len(items), row), VisibleRows(s))]
    BY DEF Rebuild, RowOf
  <2> HIDE DEF items, row
  <2> QED BY <2>1 DEF Shaped
<1>2. IsList(items) /\ Len(items) \in Nat
  BY FilteredIsList DEF IsList
<1>3. VisibleRows(r) = VisibleRows(s)
  BY DEF VisibleRows
<1>4. VisibleRows(s) \in Nat \ {0}
  BY ThereIsAlwaysARow
<1>5. Filtered(r, in) = items
  BY FilteredAgain
<1> HIDE DEF items
<1>6. /\ row \in Nat
      /\ (\E j \in DOMAIN items : items[j] = keep) => row < Len(items) /\ items[row + 1] = keep
  BY <1>2, RowOfIsTheName
<1> HIDE DEF row
<1>7. s.cursor \in Cursor
  BY DEF Shaped
<1>8. OnARow(at) /\ at.count = Len(items) /\ (row < Len(items) => at.selected = row)
  BY <1>2, <1>6, <1>7, ResetIsOnARow
<1> HIDE DEF at
<1>9. /\ OnARow(now) /\ InView(now, VisibleRows(s))
      /\ now.count = at.count /\ now.selected = at.selected
  BY <1>4, <1>8, FollowBringsIntoView
<1>10. now \in Cursor
  BY <1>9 DEF OnARow
<1> HIDE DEF now
<1>11. Shaped(r)
  BY <1>10 DEF Shaped
<1>12. Screen(r) /\ InView(r.cursor, VisibleRows(r))
  BY <1>2, <1>3, <1>8, <1>9, <1>11 DEF Screen
<1>13. Current(r, in)
  BY <1>5 DEF Current
<1>14. ASSUME \E j \in DOMAIN items : items[j] = keep PROVE Selected(r) = keep
  <2>1. now.count # 0 /\ now.selected = row /\ items[row + 1] = keep
    BY <1>2, <1>6, <1>8, <1>9, <1>14
  <2> QED BY <2>1 DEF Selected
<1> QED BY <1>1, <1>12, <1>13, <1>14

\* Scrolling keeps the screen, its list and its selection.
LEMMA ScrollKeeps ==
  ASSUME NEW s, Screen(s), NEW in, Current(s, in)
  PROVE  LET r == [s EXCEPT !.cursor = Follow(@, VisibleRows(s))]
         IN  /\ Screen(r) /\ Current(r, in) /\ InView(r.cursor, VisibleRows(r))
             /\ r.lists = s.lists /\ r.items = s.items /\ Selected(r) = Selected(s)
<1> DEFINE now == Follow(s.cursor, VisibleRows(s))
           r   == [lists |-> s.lists, ns |-> s.ns, sort |-> s.sort, search |-> s.search,
                   items |-> s.items, cursor |-> now]
<1>1. [s EXCEPT !.cursor = Follow(@, VisibleRows(s))] = r
  BY DEF Screen, Shaped
<1>2. VisibleRows(r) = VisibleRows(s)
  BY DEF VisibleRows
<1>3. VisibleRows(s) \in Nat \ {0} /\ OnARow(s.cursor)
  BY ThereIsAlwaysARow DEF Screen
<1>4. /\ OnARow(now) /\ InView(now, VisibleRows(s))
      /\ now.count = s.cursor.count /\ now.selected = s.cursor.selected
  BY <1>3, FollowBringsIntoView
<1> HIDE DEF now
<1>5. Screen(r) /\ Selected(r) = Selected(s)
  BY <1>4 DEF Screen, Shaped, OnARow, Selected
<1>6. Filtered(r, in) = Filtered(s, in)
  BY FilteredAgain
<1>7. Current(r, in)
  BY <1>6 DEF Current
<1> QED BY <1>1, <1>2, <1>4, <1>5, <1>7

\* draw: the selection is among the rows shown, and no row is left blank in vain.
LEMMA PictureIsSound ==
  ASSUME NEW s, Screen(s), InView(s.cursor, VisibleRows(s))
  PROVE  LET p == Picture(s)
         IN  /\ p.rows # <<>> => p.mark \in 0 .. Len(p.rows) - 1
             /\ p.top > 0 => Len(p.rows) = p.room
             /\ s.cursor.count > 0 => p.rows[p.mark + 1] = Selected(s)
<1> DEFINE room == VisibleRows(s)
           top  == s.cursor.top
           sel  == s.cursor.selected
           n    == Len(s.items)
           last == Lesser(top + room, n)
           rows == SubSeq(s.items, top + 1, last)
<1>1. /\ room \in Nat \ {0} /\ top \in Nat /\ sel \in Nat /\ n \in Nat /\ s.cursor.count = n
      /\ (n > 0 => sel < n) /\ IsList(s.items)
  BY ThereIsAlwaysARow DEF Screen, OnARow, Cursor, IsList
<1>2. Picture(s) = [room |-> room, top |-> top, mark |-> sel - top, rows |-> rows]
  BY DEF Picture
<1>3. /\ n <= room => top = 0
      /\ ~ (n <= room) => top <= sel /\ sel < top + room /\ top + room <= n
  BY <1>1 DEF InView
<1> HIDE DEF room, top, sel, n
<1>4. last \in Int /\ (n <= room => last = n) /\ (~ (n <= room) => last = top + room)
  BY <1>1, <1>3 DEF Lesser
<1> HIDE DEF last
<1> DEFINE S == {s.items[i] : i \in top + 1 .. last}
<1>5. /\ rows \in Seq(S) /\ Len(rows) = (IF top + 1 <= last THEN last - (top + 1) + 1 ELSE 0)
      /\ \A i \in 1 .. last - (top + 1) + 1 : rows[i] = s.items[top + 1 + i - 1]
  <2>1. \A i \in top + 1 .. last : s.items[i] \in S
    OBVIOUS
  <2>2. top + 1 \in Int
    BY <1>1
  <2> HIDE DEF S
  <2> QED BY <1>4, <2>1, <2>2, SubSeqProperties
<1> HIDE DEF S
<1>6. /\ Len(rows) = (IF top + 1 <= last THEN last - top ELSE 0)
      /\ \A i \in 1 .. last - top : rows[i] = s.items[top + i]
  <2>1. last - (top + 1) + 1 = last - top
    BY <1>1, <1>4
  <2>2. \A i \in 1 .. last - top : top + 1 + i - 1 = top + i
    BY <1>1, <1>4
  <2> QED BY <1>5, <2>1, <2>2
<1>7. rows # <<>> => Len(rows) # 0
  BY <1>5, EmptySeq
<1> HIDE DEF rows
<1>8. ASSUME rows # <<>> PROVE sel - top \in 0 .. Len(rows) - 1
  <2>1. CASE n <= room
    <3>1. top = 0 /\ last = n /\ Len(rows) = n /\ n > 0
      BY <1>1, <1>3, <1>4, <1>6, <1>7, <1>8, <2>1
    <3> QED BY <1>1, <3>1
  <2>2. CASE ~ (n <= room)
    <3>1. last = top + room /\ Len(rows) = room
      BY <1>1, <1>3, <1>4, <1>6, <2>2
    <3> QED BY <1>1, <1>3, <2>2, <3>1
  <2> QED BY <2>1, <2>2
<1>9. ASSUME top > 0 PROVE Len(rows) = room
  <2>1. ~ (n <= room)
    BY <1>1, <1>3, <1>9
  <2>2. last = top + room
    BY <1>4, <2>1
  <2> QED BY <1>1, <1>6, <2>2
<1>10. ASSUME n > 0 PROVE rows[sel - top + 1] = s.items[sel + 1]
  <2>1. sel - top + 1 \in 1 .. last - top
    <3>1. CASE n <= room
      <4>1. top = 0 /\ last = n /\ sel < n
        BY <1>1, <1>3, <1>4, <1>10, <3>1
      <4> QED BY <1>1, <4>1
    <3>2. CASE ~ (n <= room)
      <4>1. last = top + room /\ top <= sel /\ sel < top + room
        BY <1>1, <1>3, <1>4, <3>2
      <4>2. last - top = room
        BY <1>1, <4>1
      <4> QED BY <1>1, <4>1, <4>2
    <3> QED BY <3>1, <3>2
  <2>2. top + (sel - top + 1) = sel + 1
    BY <1>1
  <2> QED BY <1>6, <2>1, <2>2
<1>11. n > 0 => Selected(s) = s.items[sel + 1]
  BY <1>1 DEF Selected, sel
<1> QED BY <1>1, <1>2, <1>8, <1>9, <1>10, <1>11

-----------------------------------------------------------------------------
(* The invariant.                                                          *)

ListsInv ==
  /\ content \in Contents /\ dirty \in BOOLEAN
  /\ IsList(stack) /\ Len(stack) <= 2
  /\ \A i \in 1 .. Len(stack) :
       /\ Screen(stack[i]) /\ Current(stack[i], content)
       /\ stack[i].lists = (IF i = 1 THEN "namespaces" ELSE "keys")

\* A display that is not to be drawn again shows the screen on top.
DrawnInv ==
  (~dirty /\ stack # <<>>) => drawn = Picture(Top) /\ InView(Top.cursor, VisibleRows(Top))

IInv == ListsInv /\ SelectionIsDrawn /\ DrawnInv

KeepsStep ==
  \A i \in (DOMAIN stack) \cap (DOMAIN stack') :
    (stack'[i].items # stack[i].items
     /\ \E j \in DOMAIN stack'[i].items : stack'[i].items[j] = Selected(stack[i]))
    => Selected(stack'[i]) = Selected(stack[i])

AsksStep == (asked = NoName /\ asked' # NoName /\ ~dirty) => asked' = drawn.rows[drawn.mark + 1]

\* What a step has to show.
Good == IInv' /\ KeepsStep /\ AsksStep

LEMMA TopFacts ==
  ASSUME ListsInv, stack # <<>>
  PROVE  /\ Len(stack) \in Nat /\ Len(stack) > 0 /\ Len(stack) \in 1 .. Len(stack)
         /\ DOMAIN stack = 1 .. Len(stack)
         /\ Screen(Top) /\ Current(Top, content) /\ Shaped(Top)
         /\ Top.lists = (IF Len(stack) = 1 THEN "namespaces" ELSE "keys")
         /\ VisibleRows(Top) \in Nat \ {0}
<1>1. Len(stack) \in Nat /\ Len(stack) > 0 /\ DOMAIN stack = 1 .. Len(stack)
  BY Shortened, ListIsSeq DEF ListsInv, IsList
<1>2. Len(stack) \in 1 .. Len(stack)
  BY <1>1
<1>3. /\ Screen(Top) /\ Current(Top, content)
      /\ Top.lists = (IF Len(stack) = 1 THEN "namespaces" ELSE "keys")
  BY <1>2 DEF ListsInv, Top
<1>4. VisibleRows(Top) \in Nat \ {0}
  BY ThereIsAlwaysARow
<1>5. Shaped(Top)
  BY <1>3 DEF Screen
<1> QED BY <1>1, <1>2, <1>3, <1>4, <1>5

\* The same lists drawn anew or not keep every promise.
LEMMA NothingMoves ==
  ASSUME IInv, UNCHANGED stack
  PROVE  KeepsStep
BY DEF KeepsStep

LEMMA TopBecomes ==
  ASSUME IInv, stack # <<>>, NEW s, Screen(s), Current(s, content), s.lists = Top.lists,
         Keeps(Top, s), Becomes(s), Invalidates
  PROVE  Good
<1>1. /\ stack' = [stack EXCEPT ![Len(stack)] = s] /\ dirty' = TRUE
      /\ content' = content /\ asked' = asked /\ drawn' = drawn
  BY DEF Becomes, Invalidates
<1>2. ListsInv
  BY DEF IInv
<1>3. /\ IsList(stack') /\ Len(stack') = Len(stack) /\ stack'[Len(stack)] = s
      /\ \A i \in 1 .. Len(stack) : i # Len(stack) => stack'[i] = stack[i]
  <2> DEFINE r == [stack EXCEPT ![Len(stack)] = s]
  <2>1. IsList(stack)
    BY <1>2 DEF ListsInv
  <2>2. /\ IsList(r) /\ Len(r) = Len(stack) /\ r[Len(stack)] = s
        /\ \A i \in 1 .. Len(stack) : i # Len(stack) => r[i] = stack[i]
    BY <2>1, Replaced
  <2>3. stack' = r
    BY <1>1
  <2> HIDE DEF r
  <2> QED BY <2>2, <2>3
<1>4. /\ Len(stack) \in Nat /\ Len(stack) \in 1 .. Len(stack) /\ DOMAIN stack = 1 .. Len(stack)
      /\ Top.lists = (IF Len(stack) = 1 THEN "namespaces" ELSE "keys")
  BY <1>2, TopFacts
<1>5. DOMAIN stack' = 1 .. Len(stack)
  BY <1>3, ListIsSeq
<1>6. ASSUME NEW i \in 1 .. Len(stack)
      PROVE  /\ Screen(stack'[i]) /\ Current(stack'[i], content')
             /\ stack'[i].lists = (IF i = 1 THEN "namespaces" ELSE "keys")
  <2>1. CASE i = Len(stack)
    BY <1>1, <1>3, <1>4, <2>1
  <2>2. CASE i # Len(stack)
    BY <1>1, <1>2, <1>3, <2>2 DEF ListsInv
  <2> QED BY <2>1, <2>2
<1>7. ListsInv'
  BY <1>1, <1>2, <1>3, <1>6 DEF ListsInv
<1>8. SelectionIsDrawn' /\ DrawnInv'
  BY <1>1 DEF IInv, SelectionIsDrawn, DrawnInv
<1>9. KeepsStep
  <2> SUFFICES ASSUME NEW i \in 1 .. Len(stack),
                      stack'[i].items # stack[i].items,
                      \E j \in DOMAIN stack'[i].items : stack'[i].items[j] = Selected(stack[i])
               PROVE  Selected(stack'[i]) = Selected(stack[i])
    BY <1>4, <1>5 DEF KeepsStep
  <2>1. i = Len(stack)
    BY <1>3
  <2> QED BY <1>3, <2>1 DEF Keeps, Top
<1>10. AsksStep
  BY <1>1 DEF AsksStep
<1> QED BY <1>7, <1>8, <1>9, <1>10 DEF Good, IInv

-----------------------------------------------------------------------------
(* The steps.                                                              *)

LEMMA TranslatedIsACode ==
  ASSUME NEW ev \in Keys, NEW m
  PROVE  translate(ev, m).ch \in Nat
<1>1. ev.ch \in Nat
  <2>1. CASE ev \in [key : {"Up", "Down", "Left", "Right", "Enter", "Escape", "Backspace", "Tab"}, ch : {0}]
    BY <2>1
  <2>2. CASE ev \in [key : {"Char"}, ch : Codes]
    <3>1. ev.ch \in Codes
      BY <2>2
    <3>2. Codes \subseteq Nat
      OBVIOUS
    <3> QED BY <3>1, <3>2
  <2> QED BY <2>1, <2>2 DEF Keys
<1> QED BY <1>1 DEF translate

LEMMA TextAs ==
  ASSUME NEW f \in Field, NEW x \in Seq(Nat)
  PROVE  [f EXCEPT !.text = x] \in Field /\ [f EXCEPT !.text = x].text = x
BY SMT DEF Field

LEMMA ActiveAs ==
  ASSUME NEW f \in Field, NEW x \in BOOLEAN
  PROVE  [f EXCEPT !.active = x] \in Field /\ [f EXCEPT !.active = x].text = f.text
BY SMT DEF Field

LEMMA SearchAs ==
  ASSUME NEW s, Shaped(s), NEW x
  PROVE  [s EXCEPT !.search = x]
         = [lists |-> s.lists, ns |-> s.ns, sort |-> s.sort, search |-> x, items |-> s.items,
            cursor |-> s.cursor]
BY SMT DEF Shaped

\* SearchField::handle keeps the text short and says truly whether it changed.
LEMMA SearchHandleIsSound ==
  ASSUME NEW f \in Field, Len(f.text) <= MaxLength, NEW in, in.ch \in Nat
  PROVE  LET done == SearchHandle(f, in)
         IN  /\ done.field \in Field /\ Len(done.field.text) <= MaxLength
             /\ ~ done.changed => done.field.text = f.text
<1>1. f.text \in Seq(Nat) /\ f.active \in BOOLEAN /\ Len(f.text) \in Nat
  BY LenProperties DEF Field
<1>2. CASE in.nav = "Char" /\ Len(f.text) < MaxLength
  <2>1. Append(f.text, in.ch) \in Seq(Nat) /\ Len(Append(f.text, in.ch)) = Len(f.text) + 1
    BY <1>1, AppendProperties
  <2>2. SearchHandle(f, in) = [field |-> [f EXCEPT !.text = Append(@, in.ch)], changed |-> TRUE]
    BY <1>2 DEF SearchHandle
  <2>3. /\ [f EXCEPT !.text = Append(@, in.ch)] \in Field
        /\ [f EXCEPT !.text = Append(@, in.ch)].text = Append(f.text, in.ch)
    BY <2>1, TextAs
  <2>4. Len(f.text) + 1 <= MaxLength
    BY <1>1, <1>2
  <2> DEFINE e == [f EXCEPT !.text = Append(@, in.ch)]
  <2>5. SearchHandle(f, in).field = e /\ SearchHandle(f, in).changed = TRUE
    BY <2>2
  <2>6. e \in Field /\ Len(e.text) <= MaxLength
    BY <2>1, <2>3, <2>4
  <2> HIDE DEF e
  <2> QED BY <2>5, <2>6
<1>3. CASE in.nav = "Erase" /\ f.text # <<>>
  <2>1. IsList(f.text)
    BY <1>1, SeqIsList
  <2>2. Len(Front(f.text)) = Len(f.text) - 1 /\ Len(f.text) > 0
    BY <1>3, <2>1, Shortened
  <2>3. Front(f.text) \in Seq(Nat)
    <3>1. \A i \in 1 .. Len(f.text) - 1 : f.text[i] \in Nat
      BY <1>1, ElementOfSeq
    <3>2. 1 \in Int /\ Len(f.text) - 1 \in Int
      BY <1>1
    <3> QED BY <3>1, <3>2, SubSeqProperties DEF Front
  <2>4. SearchHandle(f, in) = [field |-> [f EXCEPT !.text = Front(@)], changed |-> TRUE]
    BY <1>3 DEF SearchHandle
  <2>5. [f EXCEPT !.text = Front(@)] \in Field /\ [f EXCEPT !.text = Front(@)].text = Front(f.text)
    BY <2>3, TextAs
  <2>6. Len(f.text) - 1 <= MaxLength
    BY <1>1
  <2> DEFINE e == [f EXCEPT !.text = Front(@)]
  <2>7. SearchHandle(f, in).field = e /\ SearchHandle(f, in).changed = TRUE
    BY <2>4
  <2>8. e \in Field /\ Len(e.text) <= MaxLength
    BY <2>2, <2>5, <2>6
  <2> HIDE DEF e
  <2> QED BY <2>7, <2>8
<1>4. CASE in.nav = "Enter"
  <2>1. SearchHandle(f, in) = [field |-> [f EXCEPT !.active = FALSE], changed |-> FALSE]
    BY <1>4 DEF SearchHandle
  <2>2. [f EXCEPT !.active = FALSE] \in Field /\ [f EXCEPT !.active = FALSE].text = f.text
    BY ActiveAs
  <2> DEFINE e == [f EXCEPT !.active = FALSE]
  <2>3. SearchHandle(f, in).field = e
    BY <2>1
  <2>4. e \in Field /\ e.text = f.text
    BY <2>2
  <2> HIDE DEF e
  <2> QED BY <2>3, <2>4
<1>5. CASE in.nav = "Back"
  <2>1. SearchHandle(f, in) = [field |-> [active |-> FALSE, text |-> <<>>], changed |-> f.text # <<>>]
    BY <1>5 DEF SearchHandle
  <2>2. <<>> \in Seq(Nat) /\ Len(<<>>) = 0
    BY EmptySeq
  <2> DEFINE e == [active |-> FALSE, text |-> <<>>]
  <2>3. e \in Field /\ Len(e.text) <= MaxLength
    BY <2>2 DEF Field
  <2>4. SearchHandle(f, in).field = e /\ SearchHandle(f, in).changed = (f.text # <<>>) /\ e.text = <<>>
    BY <2>1
  <2> HIDE DEF e
  <2> QED BY <2>3, <2>4
<1>6. CASE ~ (in.nav = "Char" /\ Len(f.text) < MaxLength) /\ ~ (in.nav = "Erase" /\ f.text # <<>>)
           /\ in.nav # "Enter" /\ in.nav # "Back"
  <2>1. SearchHandle(f, in) = [field |-> f, changed |-> FALSE]
    BY <1>6 DEF SearchHandle
  <2> QED BY <2>1
<1> QED BY <1>2, <1>3, <1>4, <1>5, <1>6

\* The arrows leave the list as it is.
LEMMA MoveKeeps ==
  ASSUME NEW s, Screen(s), NEW in, Current(s, in), NEW delta \in Int, NEW rows \in Nat \ {0}
  PROVE  LET r == [s EXCEPT !.cursor = Move(@, delta, rows)]
         IN  Screen(r) /\ Current(r, in) /\ r.lists = s.lists /\ Keeps(s, r)
<1> DEFINE now == Move(s.cursor, delta, rows)
           r   == [lists |-> s.lists, ns |-> s.ns, sort |-> s.sort, search |-> s.search,
                   items |-> s.items, cursor |-> now]
<1>1. [s EXCEPT !.cursor = Move(@, delta, rows)] = r
  BY DEF Screen, Shaped
<1>2. OnARow(now) /\ now.count = s.cursor.count
  BY MoveStays DEF Screen
<1> HIDE DEF now
<1>3. Screen(r) /\ r.items = s.items
  BY <1>2 DEF Screen, Shaped, OnARow
<1>4. Current(r, in)
  BY FilteredAgain DEF Current
<1> QED BY <1>1, <1>3, <1>4 DEF Keeps

LEMMA MoveKeyStep ==
  ASSUME IInv, stack # <<>>, NEW in, MoveKey(in)
  PROVE  Good
<1> DEFINE rows  == VisibleRows(Top)
           delta == [Up |-> -1, Down |-> 1, PageUp |-> 0 - rows, PageDown |-> rows]
           s     == [Top EXCEPT !.cursor = Move(@, delta[in.nav], rows)]
<1>1. Screen(Top) /\ Current(Top, content) /\ rows \in Nat \ {0}
  BY TopFacts DEF IInv
<1>2. Becomes(s) /\ Invalidates /\ in.nav \in {"Up", "Down", "PageUp", "PageDown"}
  BY DEF MoveKey
<1> HIDE DEF rows
<1>3. delta[in.nav] \in Int
  BY <1>1, <1>2
<1> HIDE DEF delta
<1>4. Screen(s) /\ Current(s, content) /\ s.lists = Top.lists /\ Keeps(Top, s)
  BY <1>1, <1>3, MoveKeeps
<1> HIDE DEF s
<1> QED BY <1>2, <1>4, TopBecomes

LEMMA SearchKeyStep ==
  ASSUME IInv, stack # <<>>, NEW in, in.ch \in Nat, SearchKey(in)
  PROVE  Good
<1>1. Screen(Top) /\ Current(Top, content) /\ VisibleRows(Top) \in Nat \ {0} /\ content \in Contents
  BY TopFacts DEF IInv, ListsInv
<1>2. CASE in.nav \in {"Up", "Down"}
  <2> DEFINE delta == IF in.nav = "Up" THEN -1 ELSE 1
             s     == [Top EXCEPT !.cursor = Move(@, delta, VisibleRows(Top))]
  <2>1. Becomes(s) /\ Invalidates
    BY <1>2 DEF SearchKey
  <2>2. delta \in Int
    OBVIOUS
  <2> HIDE DEF delta
  <2>3. Screen(s) /\ Current(s, content) /\ s.lists = Top.lists /\ Keeps(Top, s)
    BY <1>1, <2>2, MoveKeeps
  <2> HIDE DEF s
  <2> QED BY <2>1, <2>3, TopBecomes
<1>3. CASE in.nav \notin {"Up", "Down"}
  <2> DEFINE done   == SearchHandle(Top.search, in)
             typed  == [Top EXCEPT !.search = done.field]
             listed == IF done.changed THEN Rebuild(typed, Selected(Top), content) ELSE typed
             s      == [listed EXCEPT !.cursor = Follow(@, VisibleRows(listed))]
  <2>1. Becomes(s) /\ Invalidates
    BY <1>3 DEF SearchKey
  <2>2. Top.search \in Field /\ Len(Top.search.text) <= MaxLength
    BY <1>1 DEF Screen, Shaped
  <2>3. /\ done.field \in Field /\ Len(done.field.text) <= MaxLength
        /\ ~ done.changed => done.field.text = Top.search.text
    BY <2>2, SearchHandleIsSound
  <2> HIDE DEF done
  <2>4. typed = [lists |-> Top.lists, ns |-> Top.ns, sort |-> Top.sort, search |-> done.field,
                 items |-> Top.items, cursor |-> Top.cursor]
    BY <1>1, SearchAs DEF Screen
  <2> HIDE DEF typed
  <2>5. Shaped(typed) /\ typed.lists = Top.lists
    BY <1>1, <2>3, <2>4 DEF Screen, Shaped
  <2>6. Screen(listed) /\ Current(listed, content) /\ listed.lists = Top.lists /\ Keeps(Top, listed)
    <3>1. CASE done.changed
      BY <1>1, <2>5, <3>1, RebuildIsCurrent DEF Keeps
    <3>2. CASE ~ done.changed
      <4>1. Screen(typed) /\ typed.items = Top.items
        BY <1>1, <2>4, <2>5 DEF Screen
      <4>2. Current(typed, content)
        BY <1>1, <2>3, <2>4, <3>2, FilteredAgain DEF Current
      <4> QED BY <2>5, <3>2, <4>1, <4>2 DEF Keeps
    <3> QED BY <3>1, <3>2
  <2> HIDE DEF listed
  <2>7. /\ Screen(s) /\ Current(s, content) /\ s.lists = listed.lists /\ s.items = listed.items
        /\ Selected(s) = Selected(listed)
    BY <2>6, ScrollKeeps
  <2> HIDE DEF s
  <2>8. Keeps(Top, s)
    BY <2>6, <2>7 DEF Keeps
  <2> QED BY <2>1, <2>6, <2>7, <2>8, TopBecomes
<1> QED BY <1>2, <1>3

LEMMA FindKeyStep ==
  ASSUME IInv, stack # <<>>, NEW in, FindKey(in)
  PROVE  Good
<1> DEFINE s == [Top EXCEPT !.search.active = TRUE]
           f == [Top.search EXCEPT !.active = TRUE]
           r == [lists |-> Top.lists, ns |-> Top.ns, sort |-> Top.sort, search |-> f,
                 items |-> Top.items, cursor |-> Top.cursor]
<1>1. Screen(Top) /\ Current(Top, content)
  BY TopFacts DEF IInv
<1>2. Becomes(s) /\ Invalidates
  BY DEF FindKey
<1>3. Top.search \in Field /\ Shaped(Top) /\ "search" \in DOMAIN Top
  BY <1>1 DEF Screen, Shaped
<1>4. f \in Field /\ f.text = Top.search.text
  BY <1>3, ActiveAs
<1>5. s = [Top EXCEPT !.search = f]
  BY <1>3
<1> HIDE DEF f, s
<1>6. s = r
  BY <1>3, <1>5, SearchAs
<1>7. Screen(r) /\ Keeps(Top, r)
  BY <1>1, <1>4 DEF Screen, Shaped, Keeps
<1>8. Current(r, content)
  BY <1>1, <1>4, FilteredAgain DEF Current
<1> QED BY <1>2, <1>6, <1>7, <1>8, TopBecomes

LEMMA SortKeyStep ==
  ASSUME IInv, stack # <<>>, NEW in, SortKey(in)
  PROVE  Good
<1> DEFINE sort == IF Top.sort = "size" THEN "name" ELSE "size"
           t    == [lists |-> Top.lists, ns |-> Top.ns, sort |-> sort, search |-> Top.search,
                    items |-> Top.items, cursor |-> Top.cursor]
           s    == Rebuild(t, Selected(Top), content)
<1>1. Screen(Top) /\ content \in Contents
  BY TopFacts DEF IInv, ListsInv
<1>2. [Top EXCEPT !.sort = IF @ = "size" THEN "name" ELSE "size"] = t
  BY <1>1 DEF Screen, Shaped
<1>3. Becomes(s) /\ Invalidates
  BY <1>2 DEF SortKey
<1>4. Shaped(t)
  BY <1>1 DEF Screen, Shaped
<1> HIDE DEF t
<1>5. Screen(s) /\ Current(s, content) /\ s.lists = t.lists /\ Keeps(Top, s)
  BY <1>1, <1>4, RebuildIsCurrent DEF Keeps
<1> HIDE DEF s
<1> QED BY <1>3, <1>5, TopBecomes DEF t

LEMMA NewScreenIsCurrent ==
  ASSUME content \in Contents, NEW lists \in {"namespaces", "keys"}, NEW ns
  PROVE  /\ Screen(NewScreen(lists, ns)) /\ Current(NewScreen(lists, ns), content)
         /\ NewScreen(lists, ns).lists = lists
<1> DEFINE c == [count |-> 0, selected |-> 0, top |-> 0]
           blank == [lists |-> lists, ns |-> ns, sort |-> "size", search |-> NoSearch, items |-> <<>>,
                     cursor |-> c]
<1>1. NoSearch \in Field /\ Len(NoSearch.text) <= MaxLength
  <2>1. <<>> \in Seq(Nat) /\ Len(<<>>) = 0
    BY EmptySeq
  <2> QED BY <2>1 DEF NoSearch, Field
<1>2. c \in Cursor
  BY DEF Cursor
<1> HIDE DEF c
<1>3. Shaped(blank) /\ blank.lists = lists
  BY <1>1, <1>2 DEF Shaped
<1>4. NewScreen(lists, ns) = Rebuild(blank, None, content)
  BY DEF NewScreen, c
<1> HIDE DEF blank
<1> QED BY <1>3, <1>4, RebuildIsCurrent

LEMMA BackKeyStep ==
  ASSUME IInv, stack # <<>>, NEW in, BackKey(in)
  PROVE  Good
<1>1. /\ ListsInv /\ SelectionIsDrawn /\ DrawnInv
      /\ Screen(Top) /\ content \in Contents /\ IsList(stack) /\ DOMAIN stack = 1 .. Len(stack)
  BY TopFacts DEF IInv, ListsInv
<1>2. CASE Top.search.text = <<>>
  <2>1. /\ stack' = Front(stack) /\ dirty' = TRUE
        /\ content' = content /\ asked' = asked /\ drawn' = drawn
    BY <1>2 DEF BackKey, Invalidates
  <2>2. /\ IsList(stack') /\ Len(stack') = Len(stack) - 1 /\ Len(stack) > 0 /\ Len(stack) \in Nat
        /\ \A i \in 1 .. Len(stack) - 1 : stack'[i] = stack[i]
    BY <1>1, <2>1, Shortened DEF IsList
  <2>3. DOMAIN stack' = 1 .. Len(stack) - 1
    BY <2>2, ListIsSeq
  <2>4. ListsInv'
    BY <1>1, <2>1, <2>2 DEF ListsInv
  <2>5. SelectionIsDrawn' /\ DrawnInv' /\ AsksStep
    BY <1>1, <2>1 DEF SelectionIsDrawn, DrawnInv, AsksStep
  <2>6. KeepsStep
    BY <2>2, <2>3 DEF KeepsStep
  <2> QED BY <2>4, <2>5, <2>6 DEF Good, IInv
<1>3. CASE Top.search.text # <<>>
  <2> DEFINE f == [Top.search EXCEPT !.text = <<>>]
             t == [Top EXCEPT !.search = f]
             s == Rebuild(t, Selected(Top), content)
  <2>1. Top.search \in Field /\ Shaped(Top) /\ "search" \in DOMAIN Top
    BY <1>1 DEF Screen, Shaped
  <2>2. [Top EXCEPT !.search.text = <<>>] = t
    BY <2>1
  <2>3. Becomes(s) /\ Invalidates
    BY <1>3, <2>2 DEF BackKey
  <2>4. <<>> \in Seq(Nat) /\ Len(<<>>) = 0
    BY EmptySeq
  <2>5. f \in Field /\ f.text = <<>>
    BY <2>1, <2>4, TextAs
  <2> HIDE DEF f
  <2>6. t = [lists |-> Top.lists, ns |-> Top.ns, sort |-> Top.sort, search |-> f,
             items |-> Top.items, cursor |-> Top.cursor]
    BY <2>1, SearchAs
  <2> HIDE DEF t
  <2>7. Shaped(t) /\ t.lists = Top.lists
    BY <2>1, <2>4, <2>5, <2>6 DEF Shaped
  <2>8. Screen(s) /\ Current(s, content) /\ s.lists = t.lists /\ Keeps(Top, s)
    BY <1>1, <2>7, RebuildIsCurrent DEF Keeps
  <2> HIDE DEF s
  <2> QED BY <2>3, <2>7, <2>8, TopBecomes
<1> QED BY <1>2, <1>3

\* While the display is up to date, the name selected is the name marked.
LEMMA MarkedIsSelected ==
  ASSUME IInv, stack # <<>>, ~dirty, Top.cursor.count > 0
  PROVE  drawn.rows[drawn.mark + 1] = Selected(Top)
<1>1. Screen(Top) /\ drawn = Picture(Top) /\ InView(Top.cursor, VisibleRows(Top))
  BY TopFacts DEF IInv, DrawnInv
<1> QED BY <1>1, PictureIsSound

\* A command changes nothing but who is asked.
LEMMA AskingStep ==
  ASSUME IInv, stack # <<>>, Top.cursor.count > 0, asked' = Selected(Top), dirty' = TRUE,
         UNCHANGED <<content, stack, drawn>>
  PROVE  Good
<1>1. ListsInv' /\ SelectionIsDrawn' /\ DrawnInv'
  BY DEF IInv, ListsInv, SelectionIsDrawn, DrawnInv
<1>2. AsksStep
  BY MarkedIsSelected DEF AsksStep
<1>3. KeepsStep
  BY NothingMoves
<1> QED BY <1>1, <1>2, <1>3 DEF Good, IInv

LEMMA EnterKeyStep ==
  ASSUME IInv, stack # <<>>, NEW in, EnterKey(in)
  PROVE  Good
<1>1. /\ ListsInv /\ SelectionIsDrawn /\ DrawnInv /\ content \in Contents /\ IsList(stack)
      /\ Len(stack) \in Nat /\ DOMAIN stack = 1 .. Len(stack)
      /\ Top.lists = (IF Len(stack) = 1 THEN "namespaces" ELSE "keys")
  BY TopFacts DEF IInv, ListsInv
<1>2. CASE Top.lists = "namespaces"
  <2> DEFINE s == NewScreen("keys", Selected(Top))
  <2>1. /\ stack' = Append(stack, s) /\ dirty' = TRUE
        /\ content' = content /\ asked' = asked /\ drawn' = drawn
    BY <1>2 DEF EnterKey
  <2>2. Screen(s) /\ Current(s, content) /\ s.lists = "keys"
    BY <1>1, NewScreenIsCurrent
  <2> HIDE DEF s
  <2>3. Len(stack) = 1
    BY <1>1, <1>2
  <2>4. /\ IsList(stack') /\ Len(stack') = Len(stack) + 1 /\ stack'[Len(stack) + 1] = s
        /\ \A i \in 1 .. Len(stack) : stack'[i] = stack[i]
    BY <1>1, <2>1, Extended
  <2>5. DOMAIN stack' = 1 .. 2 /\ Len(stack') = 2
    BY <2>3, <2>4, ListIsSeq
  <2>6. ASSUME NEW i \in 1 .. 2
        PROVE  /\ Screen(stack'[i]) /\ Current(stack'[i], content')
               /\ stack'[i].lists = (IF i = 1 THEN "namespaces" ELSE "keys")
    <3>1. CASE i = 1
      BY <1>1, <2>1, <2>3, <2>4, <3>1 DEF ListsInv
    <3>2. CASE i = 2
      BY <2>1, <2>2, <2>3, <2>4, <3>2
    <3> QED BY <3>1, <3>2
  <2>7. ListsInv'
    BY <1>1, <2>1, <2>4, <2>5, <2>6 DEF ListsInv
  <2>8. SelectionIsDrawn' /\ DrawnInv' /\ AsksStep
    BY <1>1, <2>1 DEF SelectionIsDrawn, DrawnInv, AsksStep
  <2>9. KeepsStep
    BY <1>1, <2>4 DEF KeepsStep
  <2> QED BY <2>7, <2>8, <2>9 DEF Good, IInv
<1>3. CASE Top.lists # "namespaces"
  BY <1>3, AskingStep DEF EnterKey
<1> QED BY <1>2, <1>3

LEMMA CommandKeyStep ==
  ASSUME IInv, stack # <<>>, NEW in, CommandKey(in)
  PROVE  Good
BY AskingStep DEF CommandKey

\* UiController::modelChanged rebuilds the lists, the covered one too.
LEMMA ModelChangedStep ==
  ASSUME IInv, NEW found \in Contents, ModelChanged(found), UNCHANGED drawn,
         asked' = asked \/ asked # NoName
  PROVE  Good
<1>1. /\ ListsInv /\ SelectionIsDrawn /\ IsList(stack) /\ Len(stack) \in Nat
      /\ DOMAIN stack = 1 .. Len(stack)
  BY ListIsSeq DEF IInv, ListsInv, IsList
<1>2. /\ content' = found /\ dirty' = TRUE /\ drawn' = drawn
      /\ stack' = [i \in 1 .. Len(stack) |-> Rebuild(stack[i], Selected(stack[i]), found)]
  BY <1>1 DEF ModelChanged
<1>3. DOMAIN stack' = 1 .. Len(stack) /\ stack' = [i \in 1 .. Len(stack) |-> stack'[i]]
  BY <1>2
<1>4. IsList(stack') /\ Len(stack') = Len(stack)
  BY <1>1, <1>3, FunctionIsList
<1>5. ASSUME NEW i \in 1 .. Len(stack)
      PROVE  /\ Screen(stack'[i]) /\ Current(stack'[i], found)
             /\ stack'[i].lists = stack[i].lists /\ Keeps(stack[i], stack'[i])
  <2>1. Shaped(stack[i])
    BY <1>1 DEF ListsInv, Screen
  <2>2. stack'[i] = Rebuild(stack[i], Selected(stack[i]), found)
    BY <1>2
  <2> QED BY <2>1, <2>2, RebuildIsCurrent DEF Keeps
<1>6. ListsInv'
  BY <1>1, <1>2, <1>4, <1>5 DEF ListsInv
<1>7. SelectionIsDrawn' /\ DrawnInv' /\ AsksStep
  BY <1>1, <1>2 DEF SelectionIsDrawn, DrawnInv, AsksStep
<1>8. KeepsStep
  BY <1>1, <1>3, <1>5 DEF KeepsStep, Keeps
<1> QED BY <1>6, <1>7, <1>8 DEF Good, IInv

LEMMA OpenListStep ==
  ASSUME IInv, OpenList
  PROVE  Good
<1> DEFINE s == NewScreen("namespaces", None)
<1>1. /\ stack = <<>> /\ stack' = <<s>> /\ dirty' = TRUE
      /\ content' = content /\ asked' = asked /\ drawn' = drawn
      /\ content \in Contents /\ SelectionIsDrawn
  BY DEF OpenList, IInv, ListsInv
<1>2. Screen(s) /\ Current(s, content) /\ s.lists = "namespaces"
  BY <1>1, NewScreenIsCurrent
<1> HIDE DEF s
<1>3. <<s>> \in Seq({s}) /\ Len(<<s>>) = 1 /\ <<s>>[1] = s
  OBVIOUS
<1>4. IsList(stack') /\ Len(stack') = 1 /\ stack'[1] = s
  BY <1>1, <1>3, SeqIsList
<1>5. ListsInv'
  BY <1>1, <1>2, <1>4 DEF ListsInv
<1>6. SelectionIsDrawn' /\ DrawnInv' /\ AsksStep
  BY <1>1 DEF SelectionIsDrawn, DrawnInv, AsksStep
<1>7. KeepsStep
  BY <1>1 DEF KeepsStep
<1> QED BY <1>5, <1>6, <1>7 DEF Good, IInv

LEMMA ReturnStep ==
  ASSUME IInv, Return
  PROVE  Good
<1>1. CASE dirty' = TRUE /\ UNCHANGED <<content, stack>>
  <2>1. dirty' = TRUE /\ content' = content /\ stack' = stack /\ drawn' = drawn /\ asked # NoName
    BY <1>1 DEF Return
  <2>2. ListsInv' /\ SelectionIsDrawn' /\ DrawnInv' /\ AsksStep
    BY <2>1 DEF IInv, ListsInv, SelectionIsDrawn, DrawnInv, AsksStep
  <2>3. KeepsStep
    BY <2>1, NothingMoves
  <2> QED BY <2>2, <2>3 DEF Good, IInv
<1>2. CASE \E found \in Contents : ModelChanged(found)
  BY <1>2, ModelChangedStep DEF Return
<1> QED BY <1>1, <1>2 DEF Return

LEMMA RenderStep ==
  ASSUME IInv, Render
  PROVE  Good
<1>1. content' = content /\ asked' = asked /\ dirty' = FALSE /\ ListsInv
  BY DEF Render, IInv
<1>2. AsksStep
  BY <1>1 DEF AsksStep
<1>3. CASE stack = <<>>
  <2>1. drawn' = NoPicture /\ stack' = stack
    BY <1>3 DEF Render
  <2>2. NoPicture.rows = <<>> /\ NoPicture.top = 0
    BY DEF NoPicture
  <2>3. ListsInv'
    BY <1>1, <2>1 DEF ListsInv
  <2>4. SelectionIsDrawn'
    BY <2>1, <2>2 DEF SelectionIsDrawn
  <2>5. DrawnInv'
    BY <1>3, <2>1 DEF DrawnInv
  <2>6. KeepsStep
    BY <2>1, NothingMoves
  <2> QED BY <1>2, <2>3, <2>4, <2>5, <2>6 DEF Good, IInv
<1>4. CASE stack # <<>>
  <2> DEFINE s == [Top EXCEPT !.cursor = Follow(@, VisibleRows(Top))]
             r == [stack EXCEPT ![Len(stack)] = s]
  <2>1. stack' = r /\ drawn' = Picture(s)
    BY <1>4 DEF Render, Becomes
  <2>2. /\ Screen(Top) /\ Current(Top, content) /\ IsList(stack) /\ Len(stack) \in Nat
        /\ Len(stack) \in 1 .. Len(stack) /\ DOMAIN stack = 1 .. Len(stack)
        /\ Top.lists = (IF Len(stack) = 1 THEN "namespaces" ELSE "keys")
    BY <1>1, <1>4, TopFacts DEF ListsInv
  <2>3. /\ Screen(s) /\ Current(s, content) /\ InView(s.cursor, VisibleRows(s))
        /\ s.lists = Top.lists /\ s.items = Top.items
    BY <2>2, ScrollKeeps
  <2> HIDE DEF s
  <2>4. /\ IsList(r) /\ Len(r) = Len(stack) /\ r[Len(stack)] = s
        /\ \A i \in 1 .. Len(stack) : i # Len(stack) => r[i] = stack[i]
    BY <1>4, <2>2, Replaced
  <2> HIDE DEF r
  <2>5. Top' = s
    BY <2>1, <2>4 DEF Top
  <2>6. ASSUME NEW i \in 1 .. Len(stack)
        PROVE  /\ Screen(stack'[i]) /\ Current(stack'[i], content) /\ stack'[i].items = stack[i].items
               /\ stack'[i].lists = (IF i = 1 THEN "namespaces" ELSE "keys")
    <3>1. CASE i = Len(stack)
      BY <2>1, <2>2, <2>3, <2>4, <3>1 DEF Top
    <3>2. CASE i # Len(stack)
      BY <1>1, <2>1, <2>4, <3>2 DEF ListsInv
    <3> QED BY <3>1, <3>2
  <2>7. ListsInv'
    BY <1>1, <2>1, <2>4, <2>6 DEF ListsInv
  <2>8. DrawnInv'
    <3>1. (VisibleRows(Top))' = VisibleRows(s)
      BY <2>5 DEF VisibleRows
    <3>2. (Picture(Top))' = Picture(s)
      BY <2>5, <3>1 DEF Picture
    <3> QED BY <2>1, <2>3, <2>5, <3>1, <3>2 DEF DrawnInv, InView
  <2>9. SelectionIsDrawn'
    <3>1. /\ Picture(s).rows # <<>> => Picture(s).mark \in 0 .. Len(Picture(s).rows) - 1
          /\ Picture(s).top > 0 => Len(Picture(s).rows) = Picture(s).room
      BY <2>3, PictureIsSound
    <3> QED BY <2>1, <3>1 DEF SelectionIsDrawn
  <2>10. KeepsStep
    BY <2>2, <2>6 DEF KeepsStep
  <2> QED BY <1>2, <2>7, <2>8, <2>9, <2>10 DEF Good, IInv
<1> QED BY <1>3, <1>4

LEMMA InitGood == Init => IInv
<1> SUFFICES ASSUME Init PROVE IInv
  OBVIOUS
<1>1. content \in Contents /\ stack = <<>> /\ dirty = TRUE /\ drawn = NoPicture
  BY DEF Init
<1>2. <<>> \in Seq({}) /\ Len(<<>>) = 0
  OBVIOUS
<1>3. IsList(stack) /\ Len(stack) = 0
  BY <1>1, <1>2, SeqIsList
<1>4. ListsInv
  BY <1>1, <1>3 DEF ListsInv
<1>5. NoPicture.rows = <<>> /\ NoPicture.top = 0
  BY DEF NoPicture
<1>6. SelectionIsDrawn /\ DrawnInv
  BY <1>1, <1>5 DEF SelectionIsDrawn, DrawnInv
<1> QED BY <1>4, <1>6 DEF IInv

LEMMA KeyStep ==
  ASSUME IInv, stack # <<>>, NEW ev \in Keys,
         LET in == translate(ev, Top.search.active)
         IN  \/ SearchKey(in) \/ MoveKey(in) \/ EnterKey(in) \/ BackKey(in) \/ FindKey(in)
             \/ SortKey(in) \/ CommandKey(in) \/ RefreshKey(in)
  PROVE  Good
<1> DEFINE in == translate(ev, Top.search.active)
<1>1. in.ch \in Nat
  BY TranslatedIsACode
<1> HIDE DEF in
<1>2. ASSUME RefreshKey(in) PROVE Good
  BY <1>2, ModelChangedStep DEF RefreshKey
<1> QED BY <1>1, <1>2, SearchKeyStep, MoveKeyStep, EnterKeyStep, BackKeyStep, FindKeyStep, SortKeyStep,
           CommandKeyStep DEF in

LEMMA StepGood == IInv /\ [Next]_vars => Good
<1> SUFFICES ASSUME IInv, [Next]_vars PROVE Good
  OBVIOUS
<1>1. CASE UNCHANGED vars
  <2>1. UNCHANGED <<content, stack, asked, dirty, drawn>>
    BY <1>1 DEF vars
  <2>2. IInv'
    BY <2>1 DEF IInv, ListsInv, SelectionIsDrawn, DrawnInv, Top, Picture, VisibleRows, InView
  <2>3. KeepsStep /\ AsksStep
    BY <2>1 DEF KeepsStep, AsksStep
  <2> QED BY <2>2, <2>3 DEF Good
<1>2. CASE Listening /\ (\/ Input(SearchKey) \/ Input(MoveKey) \/ Input(EnterKey) \/ Input(BackKey)
                         \/ Input(FindKey) \/ Input(SortKey) \/ Input(CommandKey) \/ Input(RefreshKey))
  BY <1>2, KeyStep DEF Input, Listening
<1>3. CASE OpenList
  BY <1>3, OpenListStep
<1>4. CASE Return
  BY <1>4, ReturnStep
<1>5. CASE Render
  BY <1>5, RenderStep
<1> QED BY <1>1, <1>2, <1>3, <1>4, <1>5 DEF Next

\* Whatever the keys and the changes, screens, display and model agree: what the
\* theorems below rest on.
THEOREM ListsAreSound == Spec => []IInv
<1>1. IInv /\ [Next]_vars => IInv'
  BY StepGood DEF Good
<1> QED BY InitGood, <1>1, PTL DEF Spec

-----------------------------------------------------------------------------
(* What follows.                                                           *)

\* The open screens have the shape of a screen and every cursor is on a row of its
\* list, whatever keys, searches and changes came before.
THEOREM CursorsAreOnRows == Spec => []ListTypeOK
<1>1. IInv => ListTypeOK
  <2> SUFFICES ASSUME IInv PROVE ListTypeOK
    OBVIOUS
  <2>1. ListsInv /\ DOMAIN stack = 1 .. Len(stack)
    BY ListIsSeq DEF IInv, ListsInv
  <2>2. ASSUME NEW i \in 1 .. Len(stack)
        PROVE  /\ stack[i].sort \in {"size", "name"}
               /\ stack[i].search.active \in BOOLEAN /\ Len(stack[i].search.text) <= MaxLength
               /\ stack[i].cursor \in Cursors(Len(stack[i].items))
               /\ stack[i].items # <<>> => stack[i].cursor.selected < Len(stack[i].items)
    <3>1. Screen(stack[i])
      BY <2>1 DEF ListsInv
    <3> DEFINE s == stack[i]
    <3> HIDE DEF s
    <3>2. Screen(s)
      BY <3>1 DEF s
    <3>3. s.sort \in {"size", "name"} /\ s.search \in Field /\ Len(s.search.text) <= MaxLength
      BY <3>2 DEF Screen, Shaped
    <3>4. s.search.active \in BOOLEAN
      BY <3>3 DEF Field
    <3>5. /\ OnARow(s.cursor) /\ s.cursor.count = Len(s.items) /\ Len(s.items) \in Nat
          /\ IsList(s.items)
      BY <3>2 DEF Screen, IsList
    <3>6. s.cursor \in Cursors(Len(s.items))
      BY <3>5 DEF OnARow, Cursor, Cursors
    <3>7. s.items # <<>> => Len(s.items) > 0
      BY <3>5, Shortened
    <3>8. s.items # <<>> => s.cursor.selected < Len(s.items)
      BY <3>5, <3>7 DEF OnARow
    <3> QED BY <3>3, <3>4, <3>6, <3>8 DEF s
  <2> QED BY <2>1, <2>2 DEF ListTypeOK, ListsInv
<1> QED BY ListsAreSound, <1>1, PTL

\* Every open list, the covered one too, shows what the model has now.
THEOREM ListsStayCurrent == Spec => []ListsAreCurrent
<1>1. IInv => ListsAreCurrent
  BY ListIsSeq DEF IInv, ListsInv, ListsAreCurrent, Current
<1> QED BY ListsAreSound, <1>1, PTL

\* Every frame marks the selected name, and its window is as full as it can be.
THEOREM FramesMarkTheSelection == Spec => []SelectionIsDrawn
<1>1. IInv => SelectionIsDrawn
  BY DEF IInv
<1> QED BY ListsAreSound, <1>1, PTL

\* Filtering, sorting and a change of NVS leave the selection on its name as long
\* as the name is still listed.
THEOREM SelectionFollowsTheName == Spec => KeepsTheName
<1>1. IInv /\ [Next]_vars => [KeepsStep]_vars
  BY StepGood DEF Good
<1> QED BY ListsAreSound, <1>1, PTL DEF Spec, KeepsTheName, KeepsStep

\* A command typed while the display is up to date is about the name it marks.
THEOREM CommandsTakeTheMarked == Spec => AsksForTheMarked
<1>1. IInv /\ [Next]_vars => [AsksStep]_vars
  BY StepGood DEF Good
<1> QED BY ListsAreSound, <1>1, PTL DEF Spec, AsksForTheMarked, AsksStep
=============================================================================
