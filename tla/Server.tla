------------------------------- MODULE Server -------------------------------
(***************************************************************************)
(* The proxy process (cmd/proxy): run starts the parts and drains them on a *)
(* signal, serve accepts connections under a semaphore and a WaitGroup,     *)
(* close stops it, and one handler goroutine per connection goes through    *)
(* the two handshakes and Relay, whose two pumps report through errc.       *)
(*                                                                         *)
(* What the handshakes and the pumps exchange is in other modules; here     *)
(* each of their calls returns, fails, or does not return yet.              *)
(***************************************************************************)
EXTENDS Naturals, FiniteSets

CONSTANTS
  Conns,             \* client connections, each used once
  NoConn,            \* none of them
  MaxConnections,    \* cfg.MaxConnections
  HandshakeTimeout,  \* cfg.HandshakeTimeout > 0
  Faults             \* what may go wrong: "start", "accept"

ASSUME ServerAssumption ==
  /\ NoConn \notin Conns /\ MaxConnections \in Nat /\ HandshakeTimeout \in BOOLEAN
  /\ IsFiniteSet(Conns)

VARIABLES
  rpc,        \* where run is
  how,        \* how run ended
  ready,      \* the flag behind /healthz and /readyz
  signalled,  \* SIGINT or SIGTERM was received
  listener,   \* server.listener is set
  bound,      \* the socket itself accepts connections
  spc,        \* where serve is
  sconn,      \* the connection serve holds
  sem,        \* how many slots of the semaphore are taken
  wg,         \* the WaitGroup
  cpc,        \* where close is
  stage,      \* where each connection is, from the client's dial to the end
              \* of its handler goroutine
  deadline,   \* connections with a deadline
  expired,    \* connections whose deadline has passed
  pumps       \* the two pump goroutines of Relay

runVars == <<rpc, how, ready, signalled>>
acceptVars == <<listener, bound, spc, sconn, sem, wg, cpc>>
connVars == <<stage, deadline, expired, pumps>>
vars == <<runVars, acceptVars, connVars>>

Init ==
  /\ rpc = "config" /\ how = "none" /\ ready = FALSE /\ signalled = FALSE
  /\ listener = FALSE /\ bound = FALSE
  /\ spc = "off" /\ sconn = NoConn /\ sem = 0 /\ wg = 0 /\ cpc = "off"
  /\ stage = [c \in Conns |-> "new"]
  /\ deadline = {} /\ expired = {}
  /\ pumps = [c \in Conns |-> [up |-> "off", down |-> "off"]]

\* The process is running: once run has returned, nothing moves.
Alive == rpc # "exited"

-----------------------------------------------------------------------------
(* run.                                                                     *)

\* LoadProxyConfig, buildCipher, the health endpoint, newServer and listen in
\* this order; the health endpoint reports ready as soon as the cipher is open.
Starts ==
  /\ rpc \in {"config", "cipher", "server", "listen"}
  /\ rpc' = CASE rpc = "config" -> "cipher"
              [] rpc = "cipher" -> "server"
              [] rpc = "server" -> "listen"
              [] rpc = "listen" -> "serving"
  /\ ready' = (ready \/ rpc = "cipher")
  /\ IF rpc = "listen"
     THEN listener' = TRUE /\ bound' = TRUE /\ spc' = "accept"
     ELSE UNCHANGED <<listener, bound, spc>>
  /\ UNCHANGED <<how, signalled, sconn, sem, wg, cpc, connVars>>

\* A step of the start fails: run returns its error.
StartFails ==
  /\ "start" \in Faults
  /\ rpc \in {"config", "cipher", "server", "listen"}
  /\ rpc' = "exited" /\ how' = "error"
  /\ UNCHANGED <<ready, signalled, acceptVars, connVars>>

\* SIGINT or SIGTERM; before NotifyContext it simply ends the process.
Signal ==
  /\ Alive /\ rpc # "config" /\ ~signalled
  /\ signalled' = TRUE
  /\ UNCHANGED <<rpc, how, ready, acceptVars, connVars>>

\* run's select: the signal.  close runs in a goroutine of its own.
Drain ==
  /\ rpc = "serving" /\ signalled
  /\ rpc' = "draining" /\ ready' = FALSE /\ cpc' = "close"
  /\ UNCHANGED <<how, signalled, listener, bound, spc, sconn, sem, wg, connVars>>

\* run's select: serve has returned by itself.
ServeReturned ==
  /\ rpc = "serving" /\ spc = "failed"
  /\ rpc' = "exited" /\ how' = "error"
  /\ UNCHANGED <<ready, signalled, acceptVars, connVars>>

\* Mutant: run waits for close without a time limit.
DrainEnds_NoTimeout ==
  /\ rpc = "draining" /\ cpc = "done"
  /\ how' = "drained"
  /\ rpc' = "exited"
  /\ UNCHANGED <<ready, signalled, acceptVars, connVars>>

\* run's second select: close has returned, or the 30 seconds are over.
DrainEnds ==
  /\ rpc = "draining"
  /\ how' \in {"drained", "timeout"}
  /\ how' = "drained" => cpc = "done"
  /\ rpc' = "exited"
  /\ UNCHANGED <<ready, signalled, acceptVars, connVars>>

-----------------------------------------------------------------------------
(* serve.                                                                   *)

\* A client dials; the kernel queues the connection.
Dial(c) ==
  /\ Alive /\ bound /\ stage[c] = "new"
  /\ stage' = [stage EXCEPT ![c] = "queued"]
  /\ UNCHANGED <<runVars, acceptVars, deadline, expired, pumps>>

Accept(c) ==
  /\ Alive /\ spc = "accept" /\ bound /\ stage[c] = "queued"
  /\ stage' = [stage EXCEPT ![c] = "accepted"]
  /\ sconn' = c
  /\ spc' = "sem"
  /\ UNCHANGED <<runVars, listener, bound, sem, wg, cpc, deadline, expired, pumps>>

\* Accept fails: serve returns nil if the listener is closed, else the error.
AcceptFails ==
  /\ Alive /\ spc = "accept"
  /\ \/ ~bound /\ spc' = "returned"
     \/ bound /\ "accept" \in Faults /\ spc' = "failed"
  /\ UNCHANGED <<runVars, listener, bound, sconn, sem, wg, cpc, connVars>>

\* Mutant: the handshake gets no deadline.
AcquireSlot_NoDeadline ==
  /\ Alive /\ spc = "sem"
  /\ MaxConnections > 0 => sem < MaxConnections
  /\ sem' = IF MaxConnections > 0 THEN sem + 1 ELSE sem
  /\ spc' = "register"
  /\ UNCHANGED <<runVars, listener, bound, sconn, wg, cpc, connVars>>

\* The semaphore, where serve blocks at the limit, and the deadline.
AcquireSlot ==
  /\ Alive /\ spc = "sem"
  /\ MaxConnections > 0 => sem < MaxConnections
  /\ sem' = IF MaxConnections > 0 THEN sem + 1 ELSE sem
  /\ deadline' = IF HandshakeTimeout THEN deadline \union {sconn} ELSE deadline
  /\ spc' = "register"
  /\ UNCHANGED <<runVars, listener, bound, sconn, wg, cpc, stage, expired, pumps>>

\* Mutant: a connection accepted while close runs is served all the same.
Register_Always ==
  /\ Alive /\ spc = "register"
  /\ sconn' = NoConn
  /\ wg' = wg + 1
  /\ stage' = [stage EXCEPT ![sconn] = "ssl"]
  /\ spc' = "accept"
  /\ UNCHANGED <<runVars, sem, listener, bound, cpc, deadline, expired, pumps>>

\* Under mu: the handler is counted and started, or, once close has taken the
\* listener, the connection is dropped and serve returns.
Register ==
  /\ Alive /\ spc = "register"
  /\ sconn' = NoConn
  /\ IF listener
     THEN /\ wg' = wg + 1
          /\ stage' = [stage EXCEPT ![sconn] = "ssl"]
          /\ spc' = "accept"
          /\ UNCHANGED sem
     ELSE /\ stage' = [stage EXCEPT ![sconn] = "ended"]
          /\ sem' = IF MaxConnections > 0 THEN sem - 1 ELSE sem
          /\ spc' = "returned"
          /\ UNCHANGED wg
  /\ UNCHANGED <<runVars, listener, bound, cpc, deadline, expired, pumps>>

-----------------------------------------------------------------------------
(* close.                                                                   *)

\* Under mu: the listener is taken.
TakeListener ==
  /\ Alive /\ cpc = "close"
  /\ listener' = FALSE
  /\ cpc' = IF listener THEN "taken" ELSE "done"
  /\ UNCHANGED <<runVars, bound, spc, sconn, sem, wg, connVars>>

\* ln.Close: connections still in the kernel's queue are reset.
CloseListener ==
  /\ Alive /\ cpc = "taken"
  /\ bound' = FALSE
  /\ stage' = [c \in Conns |-> IF stage[c] = "queued" THEN "ended" ELSE stage[c]]
  /\ cpc' = "wait"
  /\ UNCHANGED <<runVars, listener, spc, sconn, sem, wg, deadline, expired, pumps>>

\* wg.Wait.
Waited ==
  /\ Alive /\ cpc = "wait" /\ wg = 0
  /\ cpc' = "done"
  /\ UNCHANGED <<runVars, listener, bound, spc, sconn, sem, wg, connVars>>

-----------------------------------------------------------------------------
(* handle.                                                                  *)

\* The call a stage makes returns: MaybeUpgradeTLS, AuthenticateUpstream,
\* DialBackendTLS, AuthenticateDownstream.  The first two use the client's
\* connection, and cannot succeed once its deadline has passed.
StageReturns(c) ==
  /\ Alive /\ stage[c] \in {"ssl", "auth", "dial", "downauth"}
  /\ stage[c] \in {"ssl", "auth"} => c \notin expired
  /\ stage' = [stage EXCEPT ![c] = CASE stage[c] = "ssl" -> "auth"
                                     [] stage[c] = "auth" -> "dial"
                                     [] stage[c] = "dial" -> "downauth"
                                     [] stage[c] = "downauth" -> "relay"]
  /\ pumps' = IF stage[c] = "downauth"
              THEN [pumps EXCEPT ![c] = [up |-> "run", down |-> "run"]] ELSE pumps
  /\ UNCHANGED <<runVars, acceptVars, deadline, expired>>

\* It fails, by itself or at the deadline: handle returns.
StageFails(c) ==
  /\ Alive /\ stage[c] \in {"ssl", "auth", "dial", "downauth"}
  /\ stage' = [stage EXCEPT ![c] = "closing"]
  /\ UNCHANGED <<runVars, acceptVars, deadline, expired, pumps>>

\* The deadline of the client's connection passes.  Nothing in the code takes
\* it off again.
Expire(c) ==
  /\ Alive /\ c \in deadline \ expired
  /\ expired' = expired \union {c}
  /\ UNCHANGED <<runVars, acceptVars, stage, deadline, pumps>>

\* A pump's loop ends: on EOF, an error, a refused message or Terminate, at
\* the deadline, or because handle has closed both connections.
PumpStops(c, d) ==
  /\ Alive /\ pumps[c][d] = "run"
  /\ pumps' = [pumps EXCEPT ![c][d] = "report"]
  /\ UNCHANGED <<runVars, acceptVars, stage, deadline, expired>>

\* Mutant: errc is not buffered, so a report needs Relay to be receiving.
PumpReports_Unbuffered(c, d) ==
  /\ Alive /\ pumps[c][d] = "report" /\ stage[c] = "relay"
  /\ pumps' = [pumps EXCEPT ![c][d] = "done"]
  /\ UNCHANGED <<runVars, acceptVars, stage, deadline, expired>>

\* The pump sends its error to errc, which has room for both.
PumpReports(c, d) ==
  /\ Alive /\ pumps[c][d] = "report"
  /\ pumps' = [pumps EXCEPT ![c][d] = "done"]
  /\ UNCHANGED <<runVars, acceptVars, stage, deadline, expired>>

\* Relay returns with the first report.
RelayReturns(c) ==
  /\ Alive /\ stage[c] = "relay"
  /\ pumps[c].up = "done" \/ pumps[c].down = "done"
  /\ stage' = [stage EXCEPT ![c] = "closing"]
  /\ UNCHANGED <<runVars, acceptVars, deadline, expired, pumps>>

\* The deferred calls of handle and of its goroutine, in their order: both
\* connections are closed, the slot is given back, the WaitGroup is counted
\* down.
ConnsClosed(c) ==
  /\ Alive /\ stage[c] = "closing"
  /\ stage' = [stage EXCEPT ![c] = "closed"]
  /\ UNCHANGED <<runVars, acceptVars, deadline, expired, pumps>>

\* Mutant: a slot is given back only by a connection that was relayed.
ReleaseSlot_RelayedOnly(c) ==
  /\ Alive /\ stage[c] = "closed"
  /\ stage' = [stage EXCEPT ![c] = "released"]
  /\ sem' = IF MaxConnections > 0 /\ pumps[c].up # "off" THEN sem - 1 ELSE sem
  /\ UNCHANGED <<runVars, listener, bound, spc, sconn, wg, cpc, deadline, expired, pumps>>

ReleaseSlot(c) ==
  /\ Alive /\ stage[c] = "closed"
  /\ stage' = [stage EXCEPT ![c] = "released"]
  /\ sem' = IF MaxConnections > 0 THEN sem - 1 ELSE sem
  /\ UNCHANGED <<runVars, listener, bound, spc, sconn, wg, cpc, deadline, expired, pumps>>

\* Mutant: the WaitGroup is counted down once more, by handle itself.
WgDone_Twice(c) ==
  /\ Alive /\ stage[c] = "released"
  /\ stage' = [stage EXCEPT ![c] = "ended"]
  /\ wg' = wg - 2
  /\ UNCHANGED <<runVars, listener, bound, spc, sconn, sem, cpc, deadline, expired, pumps>>

WgDone(c) ==
  /\ Alive /\ stage[c] = "released"
  /\ stage' = [stage EXCEPT ![c] = "ended"]
  /\ wg' = wg - 1
  /\ UNCHANGED <<runVars, listener, bound, spc, sconn, sem, cpc, deadline, expired, pumps>>

-----------------------------------------------------------------------------

Handler(c) ==
  \/ StageReturns(c) \/ StageFails(c)
  \/ RelayReturns(c) \/ ConnsClosed(c) \/ ReleaseSlot(c) \/ WgDone(c)

Pump(c, d) == PumpStops(c, d) \/ PumpReports(c, d)

Serve == (\E c \in Conns : Accept(c)) \/ AcceptFails \/ AcquireSlot \/ Register

Close == TakeListener \/ CloseListener \/ Waited

Run == Starts \/ StartFails \/ Drain \/ ServeReturned \/ DrainEnds

\* After run has returned, nothing happens any more.
Exited == ~Alive /\ UNCHANGED vars

Next ==
  \/ Run \/ Signal \/ Serve \/ Close
  \/ \E c \in Conns : Dial(c) \/ Handler(c) \/ Expire(c) \/ \E d \in {"up", "down"} : Pump(c, d)
  \/ Exited

\* What the code itself does happens; deadlines pass; a pump stops once the
\* connections are closed.  That a client dials, answers a handshake or ever
\* ends its session is not assumed, nor that the backend answers, nor that a
\* signal comes.
Fairness ==
  /\ WF_vars(Run) /\ WF_vars(Close)
  /\ WF_vars(AcquireSlot) /\ WF_vars(Register) /\ WF_vars(AcceptFails /\ ~bound)
  /\ \A c \in Conns :
       /\ WF_vars(RelayReturns(c) \/ ConnsClosed(c) \/ ReleaseSlot(c) \/ WgDone(c))
       /\ WF_vars(StageFails(c) /\ stage[c] \in {"ssl", "auth"} /\ c \in expired)
       /\ WF_vars(Expire(c))
       /\ \A d \in {"up", "down"} :
            /\ WF_vars(PumpReports(c, d))
            /\ WF_vars(PumpStops(c, d) /\ stage[c] \in {"closed", "released", "ended"})

Spec == Init /\ [][Next]_vars /\ Fairness

-----------------------------------------------------------------------------
(* Properties.                                                              *)

ServingStages == {"ssl", "auth", "dial", "downauth", "relay", "closing", "closed"}

\* The connections a handler goroutine serves.
Serving == {c \in Conns : stage[c] \in ServingStages}

\* The handler goroutines the WaitGroup counts.
Counted == {c \in Conns : stage[c] \in ServingStages \union {"released"}}

\* The types of all variables of the process.
TypeOK ==
  /\ rpc \in {"config", "cipher", "server", "listen", "serving", "draining", "exited"}
  /\ how \in {"none", "error", "drained", "timeout"}
  /\ ready \in BOOLEAN /\ signalled \in BOOLEAN
  /\ listener \in BOOLEAN /\ bound \in BOOLEAN
  /\ spc \in {"off", "accept", "sem", "register", "returned", "failed"}
  /\ sconn \in Conns \union {NoConn}
  /\ sem \in Nat /\ wg \in Nat
  /\ cpc \in {"off", "close", "taken", "wait", "done"}
  /\ stage \in [Conns -> {"new", "queued", "accepted", "ssl", "auth", "dial", "downauth",
                          "relay", "closing", "closed", "released", "ended"}]
  /\ deadline \subseteq Conns /\ expired \subseteq deadline
  /\ pumps \in [Conns -> [{"up", "down"} -> {"off", "run", "report", "done"}]]

\* serve, close and the handlers together implement Admission: MaxConnections
\* caps the connections being served, a connection accepted while close runs
\* is counted before close waits or is dropped, and "drained cleanly" is
\* reported only when no handler is left.
gate == IF cpc = "done" THEN "drained"
        ELSE IF cpc \in {"taken", "wait"} THEN "closed" ELSE "open"

Gate == INSTANCE Admission WITH Max <- MaxConnections, serving <- Serving

ImplementsAdmission == Gate!Spec

\* The semaphore holds one slot for each connection being served or about to
\* be registered, and the WaitGroup counts exactly the handler goroutines: no
\* path of serve or handle leaks or returns twice what it took.
CountersExact ==
  /\ sem = IF MaxConnections = 0 THEN 0
           ELSE Cardinality(Serving) + (IF spc = "register" THEN 1 ELSE 0)
  /\ wg = Cardinality(Counted)

\* A connection in the relay phase has no deadline (the comment on
\* HandshakeTimeout).
RelayHasNoDeadline ==
  \A c \in Conns : stage[c] = "relay" => c \notin deadline

\* A client that never finishes its handshake does not keep its slot.
HandshakesEnd ==
  \A c \in Conns : stage[c] \in {"ssl", "auth"} ~> stage[c] \notin {"ssl", "auth"} \/ ~Alive

\* The two pump goroutines of a connection end when its handler has returned.
PumpsEnd ==
  \A c \in Conns :
    stage[c] = "ended" /\ pumps[c].up # "off" ~>
      (pumps[c].up = "done" /\ pumps[c].down = "done") \/ ~Alive

\* A signal ends the process, whatever the connections do.
SignalEnds == signalled ~> ~Alive
=============================================================================
