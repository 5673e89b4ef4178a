---------------------------- MODULE MCRedaction ----------------------------
(***************************************************************************)
(* Redaction of all numbers of a few groups of digits, alone or between    *)
(* words.                                                                  *)
(***************************************************************************)
EXTENDS Redaction

CONSTANTS GroupSizes,  \* how many digits a group may have
          MaxGroups    \* how many groups

RECURSIVE Written(_)
Written(sizes) ==
  IF Len(sizes) = 1 THEN Digits(sizes[1])
  ELSE Digits(sizes[1]) \o <<"-">> \o Written(Tail(sizes))

GroupedNumbers == {Written(s) : s \in SeqOf(GroupSizes, MaxGroups) \ {<<>>}}

WordsBefore == {<<>>, <<"x", "-">>}
WordsAfter  == {<<>>, <<"-", "x">>}
=============================================================================
