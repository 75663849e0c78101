----------------------------- MODULE Launchers -----------------------------
(***************************************************************************)
(* What both launchers do with lists: pass over an element, and sort.        *)
(***************************************************************************)
EXTENDS Integers, SequencesExt

\* The loop that appends what passes its test.
Only(s, S) == FoldLeft(LAMBDA found, x : IF x \in S THEN Append(found, x) ELSE found, <<>>, s)

\* The sort: before[j] are the places whose elements come before the one at place j.
Sorted(s, before) ==
  [i \in 1..Cardinality(DOMAIN before) |->
     s[CHOOSE j \in DOMAIN before : i = Cardinality(before[j]) + 1]]
=============================================================================
