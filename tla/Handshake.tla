------------------------------ MODULE Handshake ------------------------------
(***************************************************************************)
(* The proxy from its settings to the relay: run reads and checks the       *)
(* settings and builds the server, and handle takes one connection after    *)
(* another through the TLS negotiation, SCRAM with the client, the dial and *)
(* TLS to the backend, and SCRAM with the backend (cmd/proxy and            *)
(* internal/wire/{listener,auth,dial}.go).                                  *)
(*                                                                         *)
(* The peers are external.  A faithful peer sends what the protocol says;   *)
(* another may send something else, or close, wherever the proxy reads.     *)
(* Either can only sign with the password it has.                           *)
(***************************************************************************)
EXTENDS Config, Scram, Sequences

CONSTANTS
  Settings,  \* the environments the process may be started in
  Clients,   \* client peers: [faithful, user, password, opens]; opens is the
             \* sequence of requests before the StartupMessage
  Backends,  \* backend peers: [faithful, password, ssl, cert]
  MaxConns   \* bound on the connections

ASSUME HandshakeAssumption ==
  /\ \A e \in Settings : e.ca \in {"", "absent", "empty", "no certificate", "good"}
  /\ Clients # {} /\ Backends # {}
  /\ \A c \in Clients : c.opens \in Seq({"ssl", "gss", "cancel"})
  /\ MaxConns \in Nat

VARIABLES
  env,      \* the environment
  rpc,      \* where run is
  srv,      \* the server: [tls, backendTLS], whether each leg has a TLS config
  conn,     \* connections so far
  at,       \* where handle is
  client,   \* the peer that connected
  sent,     \* how many of its opening requests it has sent
  up,       \* the upstream leg: [tls, params, scram, told]
  backend,  \* the peer behind BackendAddr
  down      \* the downstream leg: [tls, params, scram, got]

runVars == <<env, rpc, srv>>
connVars == <<conn, client, backend>>
vars == <<runVars, connVars, at, sent, up, down>>

\* The credentials of the settings.
UpstreamUser == "keycloak"
UpstreamPassword == "kcpass"
BackendUser == "app"
BackendPassword == "dbpass"

NoUp == [tls |-> FALSE, params |-> <<>>, scram |-> NewScramServer, told |-> {}]
NoDown == [tls |-> FALSE, params |-> <<>>, scram |-> NewScramClient, got |-> Garbled]

Init ==
  /\ env \in Settings /\ rpc = "config" /\ srv = [tls |-> FALSE, backendTLS |-> FALSE]
  /\ conn = 0 /\ at = "idle" /\ sent = 0
  /\ client = CHOOSE c \in Clients : TRUE
  /\ backend = CHOOSE b \in Backends : TRUE
  /\ up = NoUp /\ down = NoDown

-----------------------------------------------------------------------------
(* run.                                                                     *)

\* Each step of the start ends the process if it fails.
Step(from, ok, to) ==
  /\ rpc = from
  /\ rpc' = IF ok THEN to ELSE "exited"
  /\ UNCHANGED <<env, connVars, at, sent, up, down>>

LoadConfig == Step("config", LoadProxyConfig(env), "cipher") /\ UNCHANGED srv

OpenCipher == Step("cipher", buildCipher(env), "server") /\ UNCHANGED srv

MakeServer ==
  /\ Step("server", newServer(env) # "error", "listen")
  /\ srv' = [srv EXCEPT !.backendTLS = newServer(env) = "tls"]

Listen ==
  /\ Step("listen", listen(env), "serving")
  /\ srv' = [srv EXCEPT !.tls = "CERT_FILE" \in env.tls]

-----------------------------------------------------------------------------
(* The upstream leg.                                                        *)

\* handle is called with a connection.
Accept(c, b) ==
  /\ rpc = "serving" /\ at = "idle" /\ conn < MaxConns
  /\ conn' = conn + 1 /\ client' = c /\ backend' = b
  /\ at' = "tls" /\ sent' = 0 /\ up' = NoUp /\ down' = NoDown
  /\ UNCHANGED runVars

\* handle returns: both connections are closed.
Closes == at' = "closed"

\* The next request of the client: one of those it opens with, then the
\* StartupMessage.
Opening == IF sent < Len(client.opens) THEN client.opens[sent + 1] ELSE "startup"

\* Mutant: the bytes of another request are not kept for readStartup.
MaybeUpgradeTLS_LosesHead ==
  /\ at = "tls"
  /\ at' = "startup" /\ sent' = sent + 1
  /\ up' = IF Opening # "ssl" THEN up
           ELSE [up EXCEPT !.told = @ \union {IF srv.tls THEN "S" ELSE "N"}, !.tls = srv.tls]
  /\ UNCHANGED <<runVars, connVars, down>>

\* An SSLRequest is answered; anything else is left for readStartup.
MaybeUpgradeTLS ==
  /\ at = "tls"
  /\ \/ /\ Opening # "ssl"
        /\ at' = "startup" /\ UNCHANGED <<sent, up>>
     \/ /\ Opening = "ssl" /\ ~srv.tls
        /\ at' = "startup" /\ sent' = sent + 1
        /\ up' = [up EXCEPT !.told = @ \union {"N"}]
     \/ /\ Opening = "ssl" /\ srv.tls
        /\ at' = "startup" /\ sent' = sent + 1
        /\ up' = [up EXCEPT !.told = @ \union {"S"}, !.tls = TRUE]
  /\ UNCHANGED <<runVars, connVars, down>>

\* readStartup declines SSL and GSS, and ends with the StartupMessage, after
\* which runUpstreamSASL asks for SCRAM; a cancel request is an error that
\* the client is not told.
readStartup ==
  /\ at = "startup"
  /\ \/ /\ Opening \in {"ssl", "gss"}
        /\ sent' = sent + 1 /\ up' = [up EXCEPT !.told = @ \union {"N"}]
        /\ UNCHANGED at
     \/ /\ Opening = "cancel"
        /\ Closes /\ UNCHANGED <<sent, up>>
     \/ /\ Opening = "startup"
        /\ up' = [up EXCEPT !.params = [user |-> client.user, database |-> "keycloak"],
                            !.scram = SetUsername(@, client.user),
                            !.told = @ \union {"SASL"}]
        /\ at' = "initial" /\ UNCHANGED sent
  /\ UNCHANGED <<runVars, connVars, down>>

\* The lookup of upstreamVerifier.  The salt is one per process.
upstreamVerifiers == [u \in {UpstreamUser} |-> MakeScramVerifier(UpstreamPassword, 1)]

\* A SASLInitialResponse of the client: of a faithful one its client-first,
\* of another also a flag the proxy does not take, no nonce, or no such
\* message at all.
ClientFirsts ==
  {clientFirst("n", "*", 2 * conn)}
    \union IF client.faithful THEN {}
           ELSE {Garbled, clientFirst("p", "*", 2 * conn), clientFirst("n", UpstreamUser, 2 * conn),
                 clientFirst("n", "*", 0)}

\* A failure is reported to the client as a fatal error.
Rejects(s) == up' = [up EXCEPT !.scram = s, !.told = @ \union {"error"}] /\ Closes

receiveSASLInitial ==
  /\ at = "initial"
  /\ \E m \in ClientFirsts :
       LET s == ServerFirst(up.scram, m, upstreamVerifiers, 2 * conn + 1)
       IN  IF s.step = 1 THEN up' = [up EXCEPT !.scram = s, !.told = @ \union {"continue"}] /\ at' = "response"
           ELSE Rejects(s)
  /\ UNCHANGED <<runVars, connVars, sent, down>>

\* The client-final, signed with the password the client has; of another
\* client also over other texts.
ClientFinals ==
  LET final(cbind, nonce) ==
        clientFinal(cbind, nonce,
                    Proof(saltedPassword(client.password, up.scram.server.salt),
                          AuthMessage(up.scram.first, up.scram.server, cbind, nonce)))
  IN  {final("n", up.scram.server.nonce)}
        \union IF client.faithful THEN {} ELSE {Garbled, final("y", up.scram.server.nonce)}

receiveSASLResponse ==
  /\ at = "response"
  /\ \E m \in ClientFinals :
       LET s == ServerFinal(up.scram, m)
       IN  IF s.step = 2 THEN up' = [up EXCEPT !.scram = s, !.told = @ \union {"final", "ok"}] /\ at' = "dial"
           ELSE Rejects(s)
  /\ UNCHANGED <<runVars, connVars, sent, down>>

-----------------------------------------------------------------------------
(* The downstream leg.                                                      *)

\* The client's parameters, for the proxy's own user.
downstreamParams(params, user) == [params EXCEPT !.user = user]

\* Mutant: a backend that declines TLS is talked to without.
DialBackendTLS_Falls ==
  IF ~srv.backendTLS \/ backend.ssl # "S" THEN "plain"
  ELSE IF backend.cert THEN "tls" ELSE "error"

\* "plain" without a TLS config; with one, "tls", or an error if the backend
\* declines or its certificate does not verify.
DialBackendTLS ==
  IF ~srv.backendTLS THEN "plain"
  ELSE IF backend.ssl = "S" /\ backend.cert THEN "tls" ELSE "error"

\* The dial, and the startup message of AuthenticateDownstream.
DialBackend ==
  /\ at = "dial"
  /\ IF DialBackendTLS = "error" THEN Closes /\ UNCHANGED down
     ELSE /\ down' = [down EXCEPT !.tls = DialBackendTLS = "tls",
                                  !.params = downstreamParams(up.params, BackendUser)]
          /\ at' = "sasl"
  /\ UNCHANGED <<runVars, connVars, sent, up>>

\* AuthenticationSASL with SCRAM among its mechanisms, answered by the
\* client-first; anything else ends the connection.
ReceiveSASL(m) ==
  /\ at = "sasl"
  /\ IF m = "SCRAM-SHA-256"
     THEN /\ down' = [down EXCEPT !.scram = ClientFirst(@, BackendUser, 2 * conn)]
          /\ at' = "continue"
     ELSE Closes /\ UNCHANGED down
  /\ UNCHANGED <<runVars, connVars, sent, up>>

\* AuthenticationSASLContinue, answered by the client-final.
ReceiveContinue(m) ==
  /\ at = "continue"
  /\ LET c == ClientFinal(down.scram, m, BackendPassword)
     IN  /\ down' = [down EXCEPT !.scram = c, !.got = m]
         /\ IF c.step = 2 THEN at' = "final" ELSE Closes
  /\ UNCHANGED <<runVars, connVars, sent, up>>

\* AuthenticationSASLFinal, or the error of a backend that does not take the
\* proof.
ReceiveFinal(m) ==
  /\ at = "final"
  /\ LET c == VerifyServerFinal(down.scram, m)
     IN  /\ down' = [down EXCEPT !.scram = c]
         /\ IF c.step = 3 THEN at' = "ok" ELSE Closes
  /\ UNCHANGED <<runVars, connVars, sent, up>>

\* AuthenticationOk, and handle goes on to Relay.
ReceiveOk(m) ==
  /\ at = "ok"
  /\ IF m = "ok" THEN at' = "relay" ELSE Closes
  /\ UNCHANGED <<runVars, connVars, sent, up, down>>

\* What the backend sends: it signs as the server that has its password.
Continues ==
  {serverFirst(<<2 * conn, 2 * conn + 1>>, 2)}
    \union IF backend.faithful THEN {} ELSE {Garbled, serverFirst(<<0, 2 * conn + 1>>, 2), serverFirst(<<2 * conn, 0>>, 0)}

\* The server's end of the exchange, with the verifier of its password.
BackendScram ==
  LET s == ServerFirst(NewScramServer, down.scram.first,
                       [u \in {BackendUser} |-> MakeScramVerifier(backend.password, down.got.salt)],
                       2 * conn + 1)
  IN  ServerFinal(s, ClientProof(down.scram, down.got, BackendPassword))

Finals ==
  LET m == ClientProof(down.scram, down.got, BackendPassword)
      signature == Signature(MakeScramVerifier(backend.password, down.got.salt),
                             AuthMessage(down.scram.first, down.got, m.cbind, m.nonce))
  IN  {IF BackendScram.step = 2 THEN serverFinal(signature) ELSE Garbled}
        \union IF backend.faithful THEN {} ELSE {Garbled, serverFinal(signature)}

AuthenticateDownstream ==
  \/ \E m \in {"SCRAM-SHA-256"} \union (IF backend.faithful THEN {} ELSE {"other"}) : ReceiveSASL(m)
  \/ at = "continue" /\ \E m \in Continues : ReceiveContinue(m)
  \/ at = "final" /\ \E m \in Finals : ReceiveFinal(m)
  \/ \E m \in {"ok"} \union (IF backend.faithful THEN {} ELSE {"error"}) : ReceiveOk(m)

\* A peer goes away, or a network call fails, wherever the proxy reads or
\* writes.
PeerFails ==
  /\ \/ at \in {"tls", "startup", "initial", "response"} /\ ~client.faithful
     \/ at \in {"dial", "sasl", "continue", "final", "ok"} /\ ~backend.faithful
  /\ Closes
  /\ UNCHANGED <<runVars, connVars, sent, up, down>>

\* Relay returns.
RelayEnds ==
  /\ at = "relay"
  /\ Closes
  /\ UNCHANGED <<runVars, connVars, sent, up, down>>

\* The handler is done with the connection.
Done ==
  /\ at = "closed"
  /\ at' = "idle" /\ sent' = 0 /\ up' = NoUp /\ down' = NoDown
  /\ UNCHANGED <<runVars, connVars>>

-----------------------------------------------------------------------------

Run == LoadConfig \/ OpenCipher \/ MakeServer \/ Listen

Handle ==
  \/ MaybeUpgradeTLS \/ readStartup \/ receiveSASLInitial \/ receiveSASLResponse
  \/ DialBackend \/ AuthenticateDownstream \/ PeerFails \/ Done

Next == Run \/ Handle \/ RelayEnds \/ \E c \in Clients, b \in Backends : Accept(c, b)

\* The process runs, and faithful peers answer.  Nothing is assumed of the
\* others, of when clients connect and of how long they stay.
Spec ==
  Init /\ [][Next]_vars /\ WF_vars(Run) /\ WF_vars(Handle /\ client.faithful /\ backend.faithful)

-----------------------------------------------------------------------------
(* Properties.                                                              *)

\* The types of the variables; a leg that has been authenticated has gone
\* through the steps of SCRAM in order.
TypeOK ==
  /\ env \in Settings /\ client \in Clients /\ backend \in Backends
  /\ rpc \in {"config", "cipher", "server", "listen", "serving", "exited"}
  /\ srv \in [tls : BOOLEAN, backendTLS : BOOLEAN]
  /\ conn \in 0..MaxConns /\ sent \in 0..Len(client.opens)
  /\ at \in {"idle", "tls", "startup", "initial", "response", "dial", "sasl", "continue", "final", "ok",
             "relay", "closed"}
  /\ up.scram.step = CASE at \in {"idle", "tls", "startup", "initial"} -> 0
                       [] at = "response" -> 1
                       [] at = "closed" -> up.scram.step
                       [] OTHER -> 2
  /\ down.scram.step = CASE at = "continue" -> 1
                         [] at = "final" -> 2
                         [] at \in {"ok", "relay"} -> 3
                         [] at = "closed" -> down.scram.step
                         [] OTHER -> 0

\* Messages are relayed, and a client is told that it is authenticated, only
\* for one that has the password of the settings and gave their user, in its
\* StartupMessage or, if that has none, in SCRAM; and they are relayed only
\* to a backend that has shown it knows the password of the proxy's own user,
\* and was asked for that user and the client's database.
RelayIsAuthenticated ==
  /\ "ok" \in up.told =>
       /\ client.password = UpstreamPassword
       /\ UpstreamUser = IF client.user # "" THEN client.user ELSE up.scram.first.name
  /\ at = "relay" =>
       /\ "ok" \in up.told
       /\ backend.password = BackendPassword
       /\ down.params = [user |-> BackendUser, database |-> up.params.database]

\* With a CA for the backend no byte of the protocol, the startup message
\* included, goes to a backend in the clear or past a certificate that does
\* not verify.
BackendLegIsTLS ==
  env.ca = "good" /\ down # NoDown => down.tls /\ backend.cert

\* Settings that LoadProxyConfig has accepted are not refused by the parts
\* that check them again: only a file, the port or the KMS ends the start.
AcceptedSettingsStart ==
  rpc = "exited" /\ LoadProxyConfig(env) => env.faults # {} \/ env.ca \in {"absent", "no certificate"}

\* Two faithful peers with the right passwords, the backend with TLS where it
\* is asked for, always get to the relay, whatever the client opens with.
FaithfulPeersAreRelayed ==
  (/\ at = "tls" /\ client.faithful /\ backend.faithful
   /\ client.user = UpstreamUser /\ client.password = UpstreamPassword
   /\ \A i \in DOMAIN client.opens : client.opens[i] # "cancel"
   /\ backend.password = BackendPassword
   /\ srv.backendTLS => backend.ssl = "S" /\ backend.cert)
  ~> at = "relay"

\* What listener.go says of an SSLRequest to a proxy with a certificate: it is
\* answered with S.
SSLRequestIsUpgraded ==
  srv.tls /\ (\E i \in 1..sent : client.opens[i] = "ssl") => up.tls
=============================================================================
