----------------------------- MODULE EditValue -----------------------------
(***************************************************************************)
(* The screen that edits one value (EditValueScreen): from the value read, *)
(* through the text typed, to the value asked for and stored.              *)
(*                                                                         *)
(* Numbers keep their width. Two widths stand for the four: the widest,    *)
(* where strtoull itself may overflow, and a narrower one. A text is a     *)
(* sequence of characters. Who may edit, and what confirms it, is          *)
(* UiControl's.                                                            *)
(***************************************************************************)
EXTENDS Integers, Sequences, SequencesExt

CONSTANTS
  LongBits,         \* of unsigned long long, 64 in the program
  NarrowBits,       \* of the narrower type: 8, 16 or 32
  Typed,            \* the characters typed
  Strings,          \* values of the string edited
  MaxNumberLength,  \* kMaxNumberLength, 24 in the program
  MaxStringLength   \* kMaxEditStringLength, 255 in the program

ASSUME EditAssumption ==
  /\ NarrowBits \in Nat \ {0} /\ LongBits \in Nat /\ NarrowBits < LongBits
  /\ MaxNumberLength \in Nat \ {0} /\ MaxStringLength \in Nat \ {0}
  /\ <<>> \in Strings /\ Strings \subseteq Seq(STRING) /\ Typed \subseteq STRING

VARIABLES
  type,     \* key_.type
  stored,   \* the value in NVS
  reads,    \* whether it can be read
  text,     \* text_
  problem,  \* problem_: "none", "empty", "invalid" or "range"
  pc,       \* "closed", "edit", "confirm"
  asked,    \* the value the confirmation is about, else the one stored
  touched   \* auxiliary: something was typed or erased

vars == <<type, stored, reads, text, problem, pc, asked, touched>>

-----------------------------------------------------------------------------
(* Types and characters.                                                   *)

Unsigned == {"narrow_u", "long_u"}
Signed   == {"narrow_i", "long_i"}
Numbers  == Unsigned \cup Signed
Bits(t)  == IF t \in {"narrow_u", "narrow_i"} THEN NarrowBits ELSE LongBits

Lo(t) == IF t \in Signed THEN 0 - 2 ^ (Bits(t) - 1) ELSE 0
Hi(t) == IF t \in Signed THEN 2 ^ (Bits(t) - 1) - 1 ELSE 2 ^ Bits(t) - 1

ValuesOf(t) == IF t \in Numbers THEN Lo(t) .. Hi(t) ELSE Strings

\* static_cast to a type of fewer bits, or of another sign.
Cast(t, v) ==
  LET low == v % 2 ^ Bits(t)
  IN  IF low > Hi(t) THEN low - 2 ^ Bits(t) ELSE low

\* isdigit and isxdigit; a small letter is worth what the capital one is.
Figures ==
  <<"0", "1", "2", "3", "4", "5", "6", "7", "8", "9", "A", "B", "C", "D", "E", "F",
    "a", "b", "c", "d", "e", "f">>
ValueOfFigure(c) ==
  LET i == CHOOSE j \in DOMAIN Figures : Figures[j] = c IN IF i <= 16 THEN i - 1 ELSE i - 7
isFigure(c, base) == \E i \in 1 .. (IF base = 10 THEN 10 ELSE 22) : Figures[i] = c

-----------------------------------------------------------------------------
(* formatDecimal and parseNumber.                                          *)

Digits(n) ==
  LET digits[m \in 0 .. n] ==
        IF m < 10 THEN <<Figures[m + 1]>> ELSE Append(digits[m \div 10], Figures[(m % 10) + 1])
  IN  digits[n]

formatDecimal(v) == IF v < 0 THEN <<"-">> \o Digits(0 - v) ELSE Digits(v)

ULLONG_MAX == 2 ^ LongBits - 1
ERANGE     == -1

\* strtoull takes one figure more.
NextFigure(n, base, value) ==
  IF n = ERANGE \/ n * base + value > ULLONG_MAX THEN ERANGE ELSE n * base + value

\* Wrong on purpose: base 0, so a leading zero means octal.
strtoull_Base0(figures, base) ==
  LET radix == IF base = 10 /\ Len(figures) > 1 /\ figures[1] = "0" THEN 8 ELSE base
      upto[i \in 0 .. Len(figures)] ==
        IF i = 0 THEN 0 ELSE NextFigure(upto[i - 1], radix, ValueOfFigure(figures[i]))
  IN  upto[Len(figures)]

strtoull(figures, base) ==
  LET upto[i \in 0 .. Len(figures)] ==
        IF i = 0 THEN 0 ELSE NextFigure(upto[i - 1], base, ValueOfFigure(figures[i]))
  IN  upto[Len(figures)]

parseNumber(s, allowNegative) ==
  LET sign     == IF s # <<>> /\ s[1] \in {"-", "+"} THEN 1 ELSE 0
      negative == sign = 1 /\ s[1] = "-"
      hex      == Len(s) > sign + 1 /\ s[sign + 1] = "0" /\ s[sign + 2] \in {"x", "X"}
      base     == IF hex THEN 16 ELSE 10
      figures  == SubSeq(s, sign + (IF hex THEN 3 ELSE 1), Len(s))
      number   == strtoull(figures, base)
  IN  IF /\ figures # <<>> /\ \A i \in DOMAIN figures : isFigure(figures[i], base)
         /\ number # ERANGE
         /\ allowNegative \/ ~negative \/ number = 0
      THEN [ok |-> TRUE, negative |-> negative, magnitude |-> number]
      ELSE [ok |-> FALSE, negative |-> negative, magnitude |-> 0]

\* Wrong on purpose: no number below the negated maximum.
Limit_Symmetric(t, negative) == Hi(t)

Limit(t, negative) == IF negative THEN (0 - (Lo(t) + 1)) + 1 ELSE Hi(t)

\* EditValueScreen::parse.
parse(t, s) ==
  LET n == parseNumber(s, t \in Signed)
  IN  IF t \notin Numbers THEN [problem |-> "none", value |-> s]
      ELSE IF ~n.ok THEN [problem |-> IF s = <<>> THEN "empty" ELSE "invalid", value |-> 0]
      ELSE IF n.magnitude > Limit(t, n.negative) THEN [problem |-> "range", value |-> 0]
      ELSE [problem |-> "none",
            value |-> IF ~n.negative THEN n.magnitude
                      ELSE IF n.magnitude = 0 THEN 0
                      ELSE (0 - Cast("long_i", n.magnitude - 1)) - 1]

-----------------------------------------------------------------------------
(* The screen.                                                             *)

maxLength == IF type \in Numbers THEN MaxNumberLength ELSE MaxStringLength

Open ==
  /\ pc = "closed" /\ pc' = "edit" /\ problem' = "none" /\ touched' = FALSE
  /\ reads' \in BOOLEAN
  /\ text' = IF ~reads' THEN <<>>
             ELSE IF type \in Numbers THEN formatDecimal(stored)
             ELSE SubSeq(stored, 1, IF Len(stored) < maxLength THEN Len(stored) ELSE maxLength)
  /\ UNCHANGED <<type, stored, asked>>

Type ==
  /\ pc = "edit" /\ \E c \in Typed : text' = IF Len(text) < maxLength THEN Append(text, c) ELSE text
  /\ problem' = "none" /\ touched' = TRUE
  /\ UNCHANGED <<type, stored, reads, pc, asked>>

Erase ==
  /\ pc = "edit" /\ text' = (IF text = <<>> THEN text ELSE Front(text))
  /\ problem' = "none" /\ touched' = TRUE
  /\ UNCHANGED <<type, stored, reads, pc, asked>>

Enter ==
  /\ pc = "edit"
  /\ LET result == parse(type, text)
     IN  /\ problem' = IF result.problem = "none" THEN problem ELSE result.problem
         /\ pc' = IF result.problem = "none" THEN "confirm" ELSE "edit"
         /\ asked' = IF result.problem = "none" THEN result.value ELSE asked
  /\ UNCHANGED <<type, stored, reads, text, touched>>

Popped == pc' = "closed" /\ reads' = TRUE /\ text' = <<>> /\ problem' = "none" /\ touched' = FALSE

Cancel == pc = "edit" /\ Popped /\ UNCHANGED <<type, stored, asked>>

\* The confirmation is declined.
Decline ==
  /\ pc = "confirm" /\ pc' = "edit" /\ asked' = stored
  /\ UNCHANGED <<type, stored, reads, text, problem, touched>>

\* Confirmed: the value is set with the width of its type.
Save ==
  /\ pc = "confirm" /\ Popped
  /\ stored' = IF type \in Numbers THEN Cast(type, asked) ELSE asked
  /\ asked' = stored'
  /\ UNCHANGED type

Init ==
  /\ type \in Numbers \cup {"str"} /\ stored \in ValuesOf(type) /\ reads = TRUE
  /\ text = <<>> /\ problem = "none" /\ pc = "closed" /\ touched = FALSE
  /\ asked = stored

Next == Open \/ Type \/ Erase \/ Enter \/ Cancel \/ Decline \/ Save

Spec == Init /\ [][Next]_vars

-----------------------------------------------------------------------------
(* What a text means, without the code: an optional sign, decimal figures  *)
(* or 0x and hexadecimal ones, each worth its place.                       *)

Worth(figures, base) ==
  LET place[i \in 0 .. Len(figures)] == IF i = 0 THEN 1 ELSE base * place[i - 1]
      \* the worth of the last i figures
      worth[i \in 0 .. Len(figures)] ==
        IF i = 0 THEN 0
        ELSE worth[i - 1] + ValueOfFigure(figures[Len(figures) - i + 1]) * place[i - 1]
  IN  worth[Len(figures)]

Signs == {<<>>, <<"+">>, <<"-">>}
Marks == {<<>>, <<"0", "x">>, <<"0", "X">>}

Base(prefix) == IF prefix = <<>> THEN 10 ELSE 16

\* The ways to take s apart.
Readings(s) ==
  {r \in [sign : Signs, prefix : Marks, figures : {SubSeq(s, i, Len(s)) : i \in 1 .. Len(s)}] :
     /\ s = r.sign \o r.prefix \o r.figures
     /\ \A i \in DOMAIN r.figures : isFigure(r.figures[i], Base(r.prefix))}

Spelled(s) ==
  {(IF r.sign = <<"-">> THEN 0 - 1 ELSE 1) * Worth(r.figures, Base(r.prefix)) : r \in Readings(s)}

\* "Decimal, or hexadecimal with 0x; an optional sign. No octal surprises": a text
\* is accepted exactly when it spells a number of the type, and then that number
\* is what the user is asked to save.
AcceptsWhatItSpells ==
  type \in Numbers =>
    LET result == parse(type, text)
    IN  /\ pc = "edit" => Spelled(text) \cap ValuesOf(type) = IF result.problem = "none" THEN {result.value} ELSE {}
        /\ pc = "confirm" => asked \in Spelled(text) \cap ValuesOf(type)

\* A number opened for editing and not touched is accepted as the number stored,
\* the least and the greatest of its type too.
UntouchedNumberStays ==
  (pc = "edit" /\ type \in Numbers /\ reads /\ ~touched) => parse(type, text) = [problem |-> "none", value |-> stored]

\* EditValueScreen.cpp, above the start of the text: "Start from the current value,
\* so a small change does not mean retyping it all." A text not touched is the
\* current value, so saving it changes nothing.
UntouchedTextStays ==
  (pc = "edit" /\ type = "str" /\ reads /\ ~touched) => parse(type, text).value = stored

=============================================================================
