----------------------------- MODULE Admission -----------------------------
(***************************************************************************)
(* What the accept loop of the proxy promises: at most Max connections are  *)
(* served at a time, none is taken up after the listener has been closed,   *)
(* and the drain ends only when none is being served.                       *)
(***************************************************************************)
EXTENDS Naturals, FiniteSets

CONSTANTS
  Conns,  \* client connections
  Max     \* how many may be served at a time; 0 is no limit

VARIABLES
  serving,  \* the connections being served
  gate      \* "open", then "closed", then "drained"

vars == <<serving, gate>>

Init == serving = {} /\ gate = "open"

Take(c) ==
  /\ gate = "open" /\ c \notin serving
  /\ Max > 0 => Cardinality(serving) < Max
  /\ serving' = serving \union {c}
  /\ UNCHANGED gate

Finish(c) ==
  /\ c \in serving
  /\ serving' = serving \ {c}
  /\ UNCHANGED gate

Close ==
  /\ gate = "open"
  /\ gate' = "closed"
  /\ UNCHANGED serving

Drained ==
  /\ gate = "closed" /\ serving = {}
  /\ gate' = "drained"
  /\ UNCHANGED serving

Next == (\E c \in Conns : Take(c) \/ Finish(c)) \/ Close \/ Drained

Spec == Init /\ [][Next]_vars
=============================================================================
