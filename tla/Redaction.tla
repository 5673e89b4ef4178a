----------------------------- MODULE Redaction -----------------------------
(***************************************************************************)
(* ai/redaction.py on numbers: what redact_pii's Aadhaar, card and phone   *)
(* patterns, applied one after the other, leave of digits in groups.  A    *)
(* text is a sequence of "d", a digit, "-", a blank or hyphen, "x", a      *)
(* letter, and "#", a placeholder.  A match is the leftmost, and there the *)
(* longest, which is what these greedy patterns find.  The email and PAN   *)
(* patterns, "+" and parentheses are left out.                             *)
(***************************************************************************)
EXTENDS Naturals, FiniteSets, FiniteSetsExt, SequencesExt

CONSTANTS Numbers, \* the numbers that texts hold, of digits and separators
          Before,  \* what may stand before a number
          After    \* and what behind it

Chars == {"d", "-", "x", "#"}

ASSUME NumbersAssumption == Numbers \subseteq Seq({"d", "-"})

(* The number stands by itself: there is no other digit in the text, and   *)
(* no letter sticks to it.                                                 *)
ASSUME BeforeAssumption ==
  \A b \in Before : b \in Seq({"x", "-"}) /\ (b # <<>> => b[Len(b)] # "x")
ASSUME AfterAssumption ==
  \A a \in After : a \in Seq({"x", "-"}) /\ (a # <<>> => a[1] # "x")

VARIABLES number, \* the number in the text
          text,   \* the text so far
          pass    \* the substitution that is next

Digits(n) == [i \in 1 .. n |-> "d"]
Word(t, i) == i \in DOMAIN t /\ t[i] \in {"d", "x"}

(* \b before the i-th character.                                           *)
Edge(t, i) == Word(t, i - 1) # Word(t, i)

Count(t, c) == Cardinality({i \in DOMAIN t : t[i] = c})

(* \d{lo,hi}[\s-]? and (?:\d{lo,hi}[\s-]?)?                                *)
Group(lo, hi) == {Digits(n) \o sep : n \in lo .. hi, sep \in {<<>>, <<"-">>}}
Maybe(texts)  == texts \cup {<<>>}
-----------------------------------------------------------------------------
_AADHAAR == {a \o b \o c : a, b \in Group(4, 4), c \in {Digits(4)}}

_PHONE == {a \o b \o c \o d : a \in Maybe(Group(1, 3)), b \in Maybe(Group(2, 4)),
                              c \in Group(3, 4), d \in {Digits(3), Digits(4)}}

IsAadhaar(t, i, j) == Edge(t, i) /\ Edge(t, j + 1) /\ SubSeq(t, i, j) \in _AADHAAR

IsPhone(t, i, j) == Edge(t, j + 1) /\ SubSeq(t, i, j) \in _PHONE

IsCard(t, i, j) ==
  /\ Edge(t, i) /\ Edge(t, j + 1)
  /\ \A k \in i .. j : t[k] = "d" \/ (t[k] = "-" /\ k > i /\ t[k - 1] = "d")
  /\ Count(SubSeq(t, i, j), "d") \in 13 .. 19

(* Fault: the catch-all pattern runs before the specific ones.             *)
FitsPhoneFirst(n, t, i, j) ==
  CASE n = 1 -> IsPhone(t, i, j) [] n = 2 -> IsAadhaar(t, i, j) [] n = 3 -> IsCard(t, i, j)

(* What redact_pii looks for in each of its passes.                        *)
Fits(n, t, i, j) ==
  CASE n = 1 -> IsAadhaar(t, i, j) [] n = 2 -> IsCard(t, i, j) [] n = 3 -> IsPhone(t, i, j)

Ends(n, t, i) == {j \in i .. Len(t) : Fits(n, t, i, j)}

(* pattern.sub                                                             *)
Sub(n, t) ==
  LET rest[i \in 1 .. Len(t) + 1] ==
        LET ends == Ends(n, t, i)
        IN  IF i > Len(t) THEN <<>>
            ELSE IF ends = {} THEN <<t[i]>> \o rest[i + 1]
            ELSE <<"#">> \o rest[Max(ends) + 1]
  IN  rest[1]
-----------------------------------------------------------------------------
Init ==
  /\ number \in Numbers
  /\ \E b \in Before, a \in After : text = b \o number \o a
  /\ pass = 1

Next ==
  /\ pass <= 3
  /\ text' = Sub(pass, text)
  /\ pass' = pass + 1
  /\ UNCHANGED number

vars == <<number, text, pass>>

Spec == Init /\ [][Next]_vars
-----------------------------------------------------------------------------
IsNumber(n) == IsPhone(n, 1, Len(n)) \/ IsCard(n, 1, Len(n)) \/ IsAadhaar(n, 1, Len(n))

Enclosed(n) == \E i \in DOMAIN n : \E j \in i .. Len(n) :
                 i..j # DOMAIN n /\ IsAadhaar(n, i, j)

(* The three patterns fit parts of each other's numbers, yet no digit of a *)
(* number is left and it is tagged once, "so we don't double-tag", except  *)
(* where an Aadhaar number stands between the separators of a longer one.  *)
NumbersGoWhole ==
  pass = 4 /\ IsNumber(number) /\ ~Enclosed(number) =>
    Count(text, "d") = 0 /\ Count(text, "#") = 1
-----------------------------------------------------------------------------
(* The inductive invariant behind it: until the pattern that is first to   *)
(* fit the number has had its pass, no pattern fits any part of it.        *)

TypeOK == number \in Numbers /\ text \in Seq(Chars) /\ pass \in 1 .. 4

Intact == \E b \in Before, a \in After : text = b \o number \o a
Tagged == Count(text, "d") = 0 /\ Count(text, "#") = 1

StillToCome ==
  /\ pass > 1 => ~IsAadhaar(number, 1, Len(number))
  /\ pass > 2 => ~IsCard(number, 1, Len(number))
  /\ pass <= 3

IntactOrTagged ==
  IsNumber(number) /\ ~Enclosed(number) => Tagged \/ (Intact /\ StillToCome)

IInv == TypeOK /\ IntactOrTagged
=============================================================================
