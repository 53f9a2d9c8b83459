------------------------------ MODULE MCSession ------------------------------
(* Small instances of Session for TLC.                                      *)
EXTENDS SessionInv, TLC

CONSTANTS
  s1,       \* a named statement
  selA,     \* a SELECT
  selB,     \* another SELECT, exchangeable with selA
  write,    \* a statement that returns no rows
  odd,      \* SQL the analyser cannot parse
  refused   \* SQL the planner refuses

OneText  == {<<selA>>}
SelectTexts == {<<selA>>, <<selB>>, <<odd>>}
TwoTexts == {<<write, selA>>, <<write, refused>>}

SelectSymmetry == Permutations({selA, selB})
=============================================================================
