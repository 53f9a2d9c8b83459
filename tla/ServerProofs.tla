---------------------------- MODULE ServerProofs ----------------------------
(***************************************************************************)
(* The accept loop keeps its counters exact and implements Admission, for   *)
(* every number of connections and every limit.                             *)
(***************************************************************************)
EXTENDS Server, FiniteSetTheorems, TLAPS

\* The connection serve holds is a fresh one.
HeldInv == spc \in {"sem", "register"} => sconn \in Conns /\ stage[sconn] = "accepted"

\* How far run, the listener and close are.
PhaseInv ==
  /\ rpc \in {"config", "cipher", "server", "listen"} => spc = "off" /\ cpc = "off" /\ ~listener
  /\ rpc = "serving" => listener /\ cpc = "off"
  /\ cpc = "close" => listener
  /\ listener => cpc \in {"off", "close"}

LimitInv == MaxConnections > 0 => sem <= MaxConnections

\* The inductive invariant.
SInv == TypeOK /\ CountersExact /\ HeldInv /\ PhaseInv /\ LimitInv

CountedStages == ServingStages \union {"released"}

StageNames ==
  {"new", "queued", "accepted", "ssl", "auth", "dial", "downauth",
   "relay", "closing", "closed", "released", "ended"}

-----------------------------------------------------------------------------

\* Every step keeps the types (serve's counters apart, which CountersExact
\* keeps from going below zero).
LEMMA TypeStep ==
  ASSUME SInv, [Next]_vars, sem' \in Nat, wg' \in Nat
  PROVE  TypeOK'
<1> USE ServerAssumption DEF SInv, TypeOK
<1>1. CASE Run \/ Signal
  <2>1. CASE Starts
    <3>1. ready' \in BOOLEAN /\ listener' \in BOOLEAN /\ bound' \in BOOLEAN
      BY <2>1, Zenon DEF Starts
    <3>2. /\ UNCHANGED <<how, signalled, sconn, stage, deadline, expired, pumps, cpc>>
          /\ spc' \in {spc, "accept"}
          /\ rpc' \in {"cipher", "server", "listen", "serving"}
      BY <2>1, Zenon DEF Starts, connVars
    <3> QED
      BY <3>1, <3>2
  <2>2. CASE StartFails \/ ServeReturned
    BY <2>2 DEF StartFails, ServeReturned, acceptVars, connVars
  <2>5. CASE Signal
    <3>1. signalled' \in BOOLEAN
      BY <2>5, Zenon DEF Signal
    <3> QED
      BY <2>5, <3>1 DEF Signal, acceptVars, connVars
  <2>3. CASE Drain
    BY <2>3, Zenon DEF Drain, connVars
  <2>4. CASE DrainEnds
    BY <2>4 DEF DrainEnds, acceptVars, connVars
  <2> QED
    BY <1>1, <2>1, <2>2, <2>3, <2>4, <2>5, Zenon DEF Run
<1>2. CASE Serve
  <2>1. ASSUME NEW c \in Conns, Accept(c) PROVE TypeOK'
    BY <2>1 DEF Accept, runVars
  <2>2. CASE AcceptFails
    BY <2>2 DEF AcceptFails, runVars, connVars
  <2>3. CASE AcquireSlot
    BY <2>3 DEF AcquireSlot, runVars, HeldInv
  <2>4. CASE Register
    BY <2>4 DEF Register, runVars, HeldInv
  <2> QED
    BY <1>2, <2>1, <2>2, <2>3, <2>4 DEF Serve
<1>3. CASE Close
  <2>1. CASE TakeListener
    <3>1. listener' \in BOOLEAN
      BY <2>1, Zenon DEF TakeListener
    <3> QED
      BY <2>1, <3>1 DEF TakeListener, runVars, connVars
  <2>2. CASE CloseListener
    <3>1. stage' \in [Conns -> StageNames]
      BY <2>2 DEF CloseListener, StageNames
    <3>2. bound' \in BOOLEAN
      BY <2>2, Zenon DEF CloseListener
    <3>3. /\ UNCHANGED <<rpc, how, ready, signalled, listener, spc, sconn, deadline, expired, pumps>>
          /\ cpc' = "wait"
      BY <2>2 DEF CloseListener, runVars
    <3> QED
      BY <3>1, <3>2, <3>3 DEF StageNames
  <2>3. CASE Waited
    BY <2>3 DEF Waited, runVars, connVars
  <2> QED
    BY <1>3, <2>1, <2>2, <2>3 DEF Close
<1>4. ASSUME NEW c \in Conns,
             Dial(c) \/ Handler(c) \/ Expire(c) \/ \E d \in {"up", "down"} : Pump(c, d)
      PROVE  TypeOK'
  <2>1. CASE Dial(c)
    BY <2>1 DEF Dial, runVars, acceptVars
  <2>2. CASE StageReturns(c)
    <3>1. stage' \in [Conns -> StageNames]
      BY <2>2 DEF StageReturns, StageNames
    <3>2. pumps' \in [Conns -> [{"up", "down"} -> {"off", "run", "report", "done"}]]
      <4>1. [up |-> "run", down |-> "run"] \in [{"up", "down"} -> {"off", "run", "report", "done"}]
        OBVIOUS
      <4> QED
        BY <2>2, <4>1 DEF StageReturns
    <3> QED
      BY <2>2, <3>1, <3>2 DEF StageReturns, runVars, acceptVars, StageNames
  <2>3. CASE StageFails(c) \/ RelayReturns(c) \/ ConnsClosed(c)
    BY <2>3 DEF StageFails, RelayReturns, ConnsClosed, runVars, acceptVars
  <2>4. CASE ReleaseSlot(c) \/ WgDone(c)
    BY <2>4 DEF ReleaseSlot, WgDone, runVars
  <2>5. CASE Expire(c)
    BY <2>5 DEF Expire, runVars, acceptVars
  <2>6. ASSUME NEW d \in {"up", "down"}, Pump(c, d) PROVE TypeOK'
    BY <2>6 DEF Pump, PumpStops, PumpReports, runVars, acceptVars
  <2> QED
    BY <1>4, <2>1, <2>2, <2>3, <2>4, <2>5, <2>6, Zenon DEF Handler
<1>5. CASE Exited \/ UNCHANGED vars
  BY <1>5 DEF Exited, vars, runVars, acceptVars, connVars
<1> QED
  BY <1>1, <1>2, <1>3, <1>4, <1>5, Zenon DEF Next

-----------------------------------------------------------------------------
(* Counting connections.                                                    *)

\* The two sets the counters count are finite.
LEMMA Finite ==
  /\ IsFiniteSet(Serving) /\ Cardinality(Serving) \in Nat
  /\ IsFiniteSet(Counted) /\ Cardinality(Counted) \in Nat
<1>1. Serving \subseteq Conns /\ Counted \subseteq Conns
  BY DEF Serving, Counted
<1> QED
  BY <1>1, ServerAssumption, FS_Subset, FS_CardinalityType

\* What moving one connection to stage s does to them.
LEMMA Moves ==
  ASSUME TypeOK, NEW c \in Conns, NEW s \in StageNames,
         stage' = [stage EXCEPT ![c] = s]
  PROVE  /\ Serving' = IF s \in ServingStages THEN Serving \union {c} ELSE Serving \ {c}
         /\ Counted' = IF s \in CountedStages THEN Counted \union {c} ELSE Counted \ {c}
         /\ c \in Serving <=> stage[c] \in ServingStages
         /\ c \in Counted <=> stage[c] \in CountedStages
  BY DEF Serving, Counted, CountedStages, TypeOK

\* A handler's move within its goroutine changes neither set.
LEMMA MovesInside ==
  ASSUME TypeOK, NEW c \in Conns, NEW s \in ServingStages,
         stage' = [stage EXCEPT ![c] = s], stage[c] \in ServingStages
  PROVE  Serving' = Serving /\ Counted' = Counted
  BY DEF Serving, Counted, CountedStages, TypeOK

\* So does a connection's move before its handler has started.
LEMMA MovesOutside ==
  ASSUME TypeOK, NEW c \in Conns, NEW s \in StageNames \ CountedStages,
         stage' = [stage EXCEPT ![c] = s], stage[c] \notin CountedStages
  PROVE  Serving' = Serving /\ Counted' = Counted
  BY DEF Serving, Counted, CountedStages, TypeOK

\* A step that leaves the counters, both sets and serve's hold alone.
LEMMA SameCounts ==
  ASSUME SInv, Serving' = Serving, Counted' = Counted, sem' = sem, wg' = wg,
         (spc' = "register") <=> (spc = "register")
  PROVE  CountersExact' /\ LimitInv' /\ sem' \in Nat /\ wg' \in Nat
  BY DEF SInv, TypeOK, CountersExact, LimitInv

\* serve takes a slot.
LEMMA AcquireCounts ==
  ASSUME SInv, AcquireSlot
  PROVE  CountersExact' /\ LimitInv' /\ sem' \in Nat /\ wg' \in Nat
<1>1. Serving' = Serving /\ Counted' = Counted
  BY DEF AcquireSlot, Serving, Counted
<1> QED
  BY <1>1, ServerAssumption, Finite DEF SInv, TypeOK, CountersExact, LimitInv, AcquireSlot

\* serve hands its connection and slot to a handler, or gives the slot back.
LEMMA RegisterCounts ==
  ASSUME SInv, Register
  PROVE  CountersExact' /\ LimitInv' /\ sem' \in Nat /\ wg' \in Nat
<1>1. /\ sconn \in Conns /\ stage[sconn] = "accepted" /\ TypeOK
      /\ sem \in Nat /\ wg \in Nat /\ spc = "register" /\ spc' # "register"
      /\ wg = Cardinality(Counted)
      /\ sem = IF MaxConnections = 0 THEN 0 ELSE Cardinality(Serving) + 1
  BY DEF SInv, HeldInv, Register, TypeOK, CountersExact
<1>2. CASE listener
  <2>1. Serving' = Serving \union {sconn} /\ Counted' = Counted \union {sconn}
        /\ sconn \notin Serving /\ sconn \notin Counted
    BY <1>1, <1>2, Moves DEF Register, StageNames, ServingStages, CountedStages
  <2>2. /\ Cardinality(Serving') = Cardinality(Serving) + 1
        /\ Cardinality(Counted') = Cardinality(Counted) + 1
    BY <2>1, Finite, FS_AddElement, Zenon
  <2>3. sem' = sem /\ wg' = wg + 1
    BY <1>2 DEF Register
  <2> QED
    BY <1>1, <2>2, <2>3, ServerAssumption, Finite DEF SInv, CountersExact, LimitInv
<1>3. CASE ~listener
  <2>1. stage' = [stage EXCEPT ![sconn] = "ended"]
    BY <1>3 DEF Register
  <2>2. Serving' = Serving /\ Counted' = Counted
    BY <1>1, <2>1, MovesOutside, Zenon DEF StageNames, ServingStages, CountedStages
  <2>3. wg' = wg /\ sem' = IF MaxConnections > 0 THEN sem - 1 ELSE sem
    BY <1>3 DEF Register
  <2> QED
    BY <1>1, <2>2, <2>3, ServerAssumption, Finite DEF SInv, CountersExact, LimitInv
<1> QED
  BY <1>2, <1>3

\* A handler gives its slot back.
LEMMA ReleaseCounts ==
  ASSUME SInv, NEW c \in Conns, ReleaseSlot(c)
  PROVE  CountersExact' /\ LimitInv' /\ sem' \in Nat /\ wg' \in Nat
<1>1. /\ TypeOK /\ stage[c] = "closed" /\ stage' = [stage EXCEPT ![c] = "released"]
      /\ wg' = wg /\ spc' = spc /\ sem' = IF MaxConnections > 0 THEN sem - 1 ELSE sem
  BY DEF SInv, ReleaseSlot
<1>2. Serving' = Serving \ {c} /\ Counted' = Counted \union {c} /\ c \in Serving /\ c \in Counted
  BY <1>1, Moves, Zenon DEF StageNames, ServingStages, CountedStages
<1>3. Cardinality(Serving') = Cardinality(Serving) - 1 /\ Counted' = Counted
  <2>1. Cardinality(Serving \ {c}) = Cardinality(Serving) - 1
    BY <1>2, Finite, FS_RemoveElement, Zenon
  <2>2. Counted' = Counted
    BY <1>2
  <2> QED
    BY <1>2, <2>1, <2>2
<1>4. Cardinality(Serving') \in Nat
  <2>1. IsFiniteSet(Serving \ {c})
    BY Finite, FS_RemoveElement
  <2> QED
    BY <1>2, <2>1, FS_CardinalityType
<1> QED
  BY <1>1, <1>3, <1>4, ServerAssumption, Finite DEF SInv, TypeOK, CountersExact, LimitInv

\* A handler goroutine ends.
LEMMA DoneCounts ==
  ASSUME SInv, NEW c \in Conns, WgDone(c)
  PROVE  CountersExact' /\ LimitInv' /\ sem' \in Nat /\ wg' \in Nat
<1>1. /\ TypeOK /\ stage[c] = "released" /\ stage' = [stage EXCEPT ![c] = "ended"]
      /\ wg' = wg - 1 /\ spc' = spc /\ sem' = sem
  BY DEF SInv, WgDone
<1>2. Serving' = Serving \ {c} /\ Counted' = Counted \ {c} /\ c \notin Serving /\ c \in Counted
  BY <1>1, Moves, Zenon DEF StageNames, ServingStages, CountedStages
<1>3. Cardinality(Counted') = Cardinality(Counted) - 1 /\ Serving' = Serving
  <2>1. Cardinality(Counted \ {c}) = Cardinality(Counted) - 1
    BY <1>2, Finite, FS_RemoveElement, Zenon
  <2>2. Serving' = Serving
    BY <1>2
  <2> QED
    BY <1>2, <2>1, <2>2
<1>4. Cardinality(Counted') \in Nat
  <2>1. IsFiniteSet(Counted \ {c})
    BY Finite, FS_RemoveElement
  <2> QED
    BY <1>2, <2>1, FS_CardinalityType
<1> QED
  BY <1>1, <1>3, <1>4, ServerAssumption, Finite DEF SInv, TypeOK, CountersExact, LimitInv

-----------------------------------------------------------------------------
(* One step of the process, as the accept loop sees it.                     *)

\* A step of serve, close or a handler that neither takes nor returns a slot
\* or a count, and leaves the set of served connections alone.
Quiet ==
  /\ Serving' = Serving /\ Counted' = Counted /\ sem' = sem /\ wg' = wg
  /\ (spc' = "register") <=> (spc = "register")

\* All steps but four are quiet; of those only the ones that belong to close
\* or to the start touch the listener.
LEMMA QuietSteps ==
  ASSUME SInv, [Next]_vars
  PROVE  \/ Quiet
         \/ AcquireSlot \/ Register
         \/ \E c \in Conns : ReleaseSlot(c) \/ WgDone(c)
<1> USE DEF Quiet
<1>0. TypeOK
  BY DEF SInv
<1>1. CASE Run \/ Signal
  <2>1. stage' = stage /\ sem' = sem /\ wg' = wg
    BY <1>1 DEF Run, Signal, Starts, StartFails, Drain, ServeReturned, DrainEnds, acceptVars, connVars
  <2>2. (spc' = "register") <=> (spc = "register")
    BY <1>1 DEF SInv, PhaseInv, Run, Signal, Starts, StartFails, Drain, ServeReturned, DrainEnds,
                acceptVars
  <2> QED
    BY <2>1, <2>2 DEF Serving, Counted
<1>2. ASSUME NEW c \in Conns, Accept(c) PROVE Quiet
  <2>1. stage[c] = "queued" /\ stage' = [stage EXCEPT ![c] = "accepted"]
        /\ sem' = sem /\ wg' = wg /\ spc = "accept" /\ spc' = "sem"
    BY <1>2 DEF Accept
  <2> QED
    BY <1>0, <2>1, MovesOutside, Zenon DEF StageNames, ServingStages, CountedStages
<1>3. CASE AcceptFails
  BY <1>3 DEF AcceptFails, connVars, Serving, Counted
<1>4. CASE TakeListener \/ Waited
  BY <1>4 DEF TakeListener, Waited, connVars, Serving, Counted
<1>5. CASE CloseListener
  <2>1. \A c \in Conns : stage'[c] = stage[c] \/ (stage[c] = "queued" /\ stage'[c] = "ended")
    BY <1>5 DEF CloseListener
  <2> QED
    BY <1>5, <2>1 DEF CloseListener, Serving, Counted, ServingStages
<1>6. ASSUME NEW c \in Conns, Dial(c) PROVE Quiet
  <2>1. stage[c] = "new" /\ stage' = [stage EXCEPT ![c] = "queued"]
        /\ sem' = sem /\ wg' = wg /\ spc' = spc
    BY <1>6 DEF Dial, acceptVars
  <2> QED
    BY <1>0, <2>1, MovesOutside, Zenon DEF StageNames, ServingStages, CountedStages
<1>7. ASSUME NEW c \in Conns, StageReturns(c) \/ StageFails(c) \/ RelayReturns(c) \/ ConnsClosed(c)
      PROVE  Quiet
  <2>1. /\ stage[c] \in ServingStages
        /\ \E s \in ServingStages : stage' = [stage EXCEPT ![c] = s]
        /\ sem' = sem /\ wg' = wg /\ spc' = spc
    BY <1>7 DEF StageReturns, StageFails, RelayReturns, ConnsClosed, acceptVars, ServingStages
  <2> QED
    BY <1>0, <2>1, MovesInside, Zenon
<1>8. ASSUME NEW c \in Conns, Expire(c) \/ \E d \in {"up", "down"} : Pump(c, d) PROVE Quiet
  BY <1>8 DEF Expire, Pump, PumpStops, PumpReports, acceptVars, Serving, Counted
<1>9. CASE Exited \/ UNCHANGED vars
  BY <1>9 DEF Exited, vars, acceptVars, connVars, Serving, Counted
<1> QED
  BY <1>1, <1>2, <1>3, <1>4, <1>5, <1>6, <1>7, <1>8, <1>9 DEF Next, Serve, Close, Handler

\* The connection serve holds stays fresh.
LEMMA HeldStep ==
  ASSUME SInv, [Next]_vars
  PROVE  HeldInv'
<1> USE DEF HeldInv
<1>0. TypeOK /\ HeldInv
  BY DEF SInv
<1>1. CASE Run \/ Signal
  BY <1>0, <1>1 DEF Run, Signal, Starts, StartFails, Drain, ServeReturned, DrainEnds, acceptVars, connVars
<1>2. ASSUME NEW c \in Conns, Accept(c) PROVE HeldInv'
  BY <1>0, <1>2 DEF Accept, TypeOK
<1>3. CASE AcceptFails \/ AcquireSlot \/ Register
  BY <1>0, <1>3 DEF AcceptFails, AcquireSlot, Register, connVars
<1>4. CASE TakeListener \/ Waited
  BY <1>0, <1>4 DEF TakeListener, Waited, connVars
<1>5. CASE CloseListener
  BY <1>0, <1>5 DEF CloseListener
<1>6. ASSUME NEW c \in Conns, Dial(c) \/ Handler(c) PROVE HeldInv'
  <2>1. stage[c] # "accepted" /\ sconn' = sconn /\ spc' = spc
        /\ \E s : stage' = [stage EXCEPT ![c] = s]
    BY <1>6 DEF Dial, Handler, StageReturns, StageFails, RelayReturns, ConnsClosed,
                ReleaseSlot, WgDone, acceptVars
  <2> QED
    BY <1>0, <2>1 DEF TypeOK
<1>7. ASSUME NEW c \in Conns, Expire(c) \/ \E d \in {"up", "down"} : Pump(c, d) PROVE HeldInv'
  BY <1>0, <1>7 DEF Expire, Pump, PumpStops, PumpReports, acceptVars
<1>8. CASE Exited \/ UNCHANGED vars
  BY <1>0, <1>8 DEF Exited, vars, acceptVars, connVars
<1> QED
  BY <1>1, <1>2, <1>3, <1>4, <1>5, <1>6, <1>7, <1>8 DEF Next, Serve, Close

\* Only the start, the drain and close itself move the phases.
LEMMA PhaseStep ==
  ASSUME SInv, [Next]_vars
  PROVE  PhaseInv'
<1> USE DEF PhaseInv
<1>0. TypeOK /\ PhaseInv
  BY DEF SInv
<1>1. CASE Starts
  BY <1>0, <1>1, Zenon DEF Starts
<1>2. CASE StartFails \/ ServeReturned \/ DrainEnds \/ Signal
  BY <1>0, <1>2 DEF StartFails, ServeReturned, DrainEnds, Signal, acceptVars
<1>3. CASE Drain
  BY <1>0, <1>3 DEF Drain
<1>4. CASE Serve
  <2>1. rpc' = rpc /\ cpc' = cpc /\ listener' = listener /\ spc # "off"
    BY <1>4 DEF Serve, Accept, AcceptFails, AcquireSlot, Register, runVars
  <2> QED
    BY <1>0, <2>1
<1>5. CASE TakeListener
  <2>1. /\ rpc' = rpc /\ spc' = spc /\ ~listener' /\ cpc = "close" /\ listener
        /\ cpc' = "taken"
    BY <1>0, <1>5 DEF TakeListener, runVars
  <2> QED
    BY <1>0, <2>1
<1>6. CASE CloseListener \/ Waited
  BY <1>0, <1>6 DEF CloseListener, Waited, runVars
<1>7. ASSUME NEW c \in Conns,
             Dial(c) \/ Handler(c) \/ Expire(c) \/ \E d \in {"up", "down"} : Pump(c, d)
      PROVE  PhaseInv'
  <2>1. rpc' = rpc /\ cpc' = cpc /\ listener' = listener /\ spc' = spc
    BY <1>7, Zenon DEF Dial, Handler, StageReturns, StageFails, RelayReturns, ConnsClosed, ReleaseSlot,
                WgDone, Expire, Pump, PumpStops, PumpReports, runVars, acceptVars
  <2> QED
    BY <1>0, <2>1
<1>8. CASE Exited \/ UNCHANGED vars
  BY <1>0, <1>8 DEF Exited, vars, runVars, acceptVars
<1> QED
  BY <1>1, <1>2, <1>3, <1>4, <1>5, <1>6, <1>7, <1>8 DEF Next, Run, Close

-----------------------------------------------------------------------------
(* The theorems.                                                            *)

\* The invariant holds at the start.
LEMMA InitInv == Init => SInv
<1> SUFFICES ASSUME Init PROVE SInv
  OBVIOUS
<1>1. Serving = {} /\ Counted = {}
  BY DEF Init, Serving, Counted, ServingStages
<1>2. Cardinality(Serving) = 0 /\ Cardinality(Counted) = 0
  BY <1>1, FS_EmptySet
<1>3. TypeOK
  <2>1. ready \in BOOLEAN /\ signalled \in BOOLEAN /\ listener \in BOOLEAN /\ bound \in BOOLEAN
    BY Zenon DEF Init
  <2>2. pumps \in [Conns -> [{"up", "down"} -> {"off", "run", "report", "done"}]]
    <3>1. [up |-> "off", down |-> "off"] \in [{"up", "down"} -> {"off", "run", "report", "done"}]
      OBVIOUS
    <3> QED
      BY <3>1 DEF Init
  <2> QED
    BY <2>1, <2>2 DEF Init, TypeOK
<1> QED
  BY <1>2, <1>3, ServerAssumption DEF Init, SInv, CountersExact, HeldInv, PhaseInv, LimitInv

\* It is inductive.
LEMMA InvStep == SInv /\ [Next]_vars => SInv'
<1> SUFFICES ASSUME SInv, [Next]_vars PROVE SInv'
  OBVIOUS
<1>1. CountersExact' /\ LimitInv' /\ sem' \in Nat /\ wg' \in Nat
  BY QuietSteps, SameCounts, AcquireCounts, RegisterCounts, ReleaseCounts, DoneCounts DEF Quiet
<1> QED
  BY <1>1, TypeStep, HeldStep, PhaseStep DEF SInv

\* The semaphore and the WaitGroup of serve count exactly the connections
\* that hold them, in every reachable state.
THEOREM CountersAreExact == Spec => []CountersExact
<1>1. SInv => CountersExact
  BY DEF SInv
<1> QED
  BY <1>1, InitInv, InvStep, PTL DEF Spec

-----------------------------------------------------------------------------
(* The refinement.                                                          *)

\* Only close moves the gate.
LEMMA GateSteps ==
  ASSUME SInv, [Next]_vars
  PROVE  gate' = gate \/ TakeListener \/ Waited
<1> USE DEF gate
<1>1. CASE Starts \/ StartFails \/ ServeReturned \/ DrainEnds \/ Signal
  BY <1>1 DEF Starts, StartFails, ServeReturned, DrainEnds, Signal, acceptVars
<1>2. CASE Drain
  BY <1>2 DEF Drain, SInv, PhaseInv
<1>3. CASE Serve
  BY <1>3 DEF Serve, Accept, AcceptFails, AcquireSlot, Register
<1>4. CASE CloseListener
  BY <1>4 DEF CloseListener
<1>5. ASSUME NEW c \in Conns,
             Dial(c) \/ Handler(c) \/ Expire(c) \/ \E d \in {"up", "down"} : Pump(c, d)
      PROVE  gate' = gate
  <2>1. cpc' = cpc
    BY <1>5 DEF Dial, Handler, StageReturns, StageFails, RelayReturns, ConnsClosed, ReleaseSlot,
                WgDone, Expire, Pump, PumpStops, PumpReports, acceptVars
  <2> QED
    BY <2>1
<1>6. CASE Exited \/ UNCHANGED vars
  BY <1>6 DEF Exited, vars, acceptVars
<1> QED
  BY <1>1, <1>2, <1>3, <1>4, <1>5, <1>6 DEF Next, Run, Close

\* Every step of the process is a step of Admission, or none.
LEMMA AdmissionStep ==
  ASSUME SInv, [Next]_vars
  PROVE  [Gate!Next]_(Gate!vars)
<1> USE DEF Gate!Next, Gate!vars
<1>0. TypeOK
  BY DEF SInv
<1>1. CASE TakeListener
  <2>1. Serving' = Serving
    BY <1>1 DEF TakeListener, connVars, Serving
  <2>2. gate = "open" /\ gate' = "closed"
    BY <1>1 DEF TakeListener, SInv, PhaseInv, gate
  <2> QED
    BY <2>1, <2>2 DEF Gate!Close
<1>2. CASE Waited
  <2>1. Serving' = Serving
    BY <1>2 DEF Waited, connVars, Serving
  <2>2. gate = "closed" /\ gate' = "drained"
    BY <1>2 DEF Waited, gate
  <2>3. Counted = {}
    BY <1>2, Finite, FS_EmptySet, Zenon DEF Waited, SInv, CountersExact
  <2>4. Serving = {}
    BY <2>3 DEF Serving, Counted
  <2> QED
    BY <2>1, <2>2, <2>4 DEF Gate!Drained
<1>3. CASE gate' = gate /\ (Quiet \/ AcquireSlot)
  BY <1>3 DEF Quiet, AcquireSlot, Serving
<1>4. CASE gate' = gate /\ Register
  <2>1. sconn \in Conns /\ stage[sconn] = "accepted"
    BY <1>4 DEF Register, SInv, HeldInv
  <2>2. CASE ~listener
    <3>1. stage' = [stage EXCEPT ![sconn] = "ended"]
      BY <1>4, <2>2 DEF Register
    <3>2. Serving' = Serving
      BY <1>0, <2>1, <3>1, MovesOutside, Zenon DEF StageNames, ServingStages, CountedStages
    <3> QED
      BY <1>4, <3>2
  <2>3. CASE listener
    <3>1. stage' = [stage EXCEPT ![sconn] = "ssl"]
      BY <1>4, <2>3 DEF Register
    <3>2. Serving' = Serving \union {sconn} /\ sconn \notin Serving
      BY <1>0, <2>1, <3>1, Moves, Zenon DEF StageNames, ServingStages
    <3>3. gate = "open"
      BY <2>3 DEF SInv, PhaseInv, gate
    <3>4. MaxConnections > 0 => Cardinality(Serving) < MaxConnections
      <4>1. /\ MaxConnections \in Nat /\ Cardinality(Serving) \in Nat
            /\ MaxConnections > 0 => sem <= MaxConnections
            /\ sem = IF MaxConnections = 0 THEN 0 ELSE Cardinality(Serving) + 1
        BY <1>4, Finite, ServerAssumption DEF Register, SInv, CountersExact, LimitInv
      <4> QED
        BY <4>1
    <3>5. Gate!Take(sconn)
      BY <1>4, <3>2, <3>3, <3>4 DEF Gate!Take, Gate!Cardinality, Cardinality
    <3> QED
      BY <2>1, <3>5
  <2> QED
    BY <2>2, <2>3
<1>5. ASSUME gate' = gate, NEW c \in Conns, ReleaseSlot(c)
      PROVE  [Gate!Next]_(Gate!vars)
  <2>1. Serving' = Serving \ {c} /\ c \in Serving
    BY <1>0, <1>5, Moves, Zenon DEF ReleaseSlot, StageNames, ServingStages
  <2>2. Gate!Finish(c)
    BY <1>5, <2>1 DEF Gate!Finish
  <2> QED
    BY <2>2
<1>6. ASSUME gate' = gate, NEW c \in Conns, WgDone(c)
      PROVE  [Gate!Next]_(Gate!vars)
  <2>1. Serving' = Serving \ {c} /\ c \notin Serving
    BY <1>0, <1>6, Moves, Zenon DEF WgDone, StageNames, ServingStages
  <2>2. Serving' = Serving
    BY <2>1
  <2> QED
    BY <1>6, <2>2
<1> QED
  BY <1>1, <1>2, <1>3, <1>4, <1>5, <1>6, QuietSteps, GateSteps

\* serve, close and the handlers implement Admission, for every set of
\* connections and every limit.
THEOREM AdmissionIsImplemented == Spec => ImplementsAdmission
<1>1. Init => Gate!Init
  BY DEF Init, Gate!Init, Serving, ServingStages, gate
<1>2. SInv /\ [Next]_vars => [Gate!Next]_(Gate!vars)
  BY AdmissionStep
<1> QED
  BY <1>1, <1>2, InitInv, InvStep, PTL DEF Spec, ImplementsAdmission, Gate!Spec

\* The variables keep their types: every connection is at a stage of handle,
\* and the counters are never negative.
THEOREM ServerTypeCorrect == Spec => []TypeOK
<1>1. SInv => TypeOK
  BY DEF SInv
<1> QED
  BY <1>1, InitInv, InvStep, PTL DEF Spec
=============================================================================
