----------------------------- MODULE MCColumns ------------------------------
(* Small instances of Columns for TLC.                                      *)
EXTENDS Columns, TLC

CONSTANTS
  ana, Ana,  \* two spellings of one address
  bob,
  r1, r2, p1, p2

MCTexts == {ana, Ana, bob}
MCLower == [x \in MCTexts |-> IF x = Ana THEN ana ELSE x]

\* An address, and strings that look like the marker.
Awkward == {Text(Ana), Malformed(bob), Escaped(Text(bob)), NULL}
OldTexts == {Text(Ana), NULL}
=============================================================================
