--------------------------- MODULE HandshakeProofs ---------------------------
(***************************************************************************)
(* Proofs about module Handshake, for any settings, peers and number of     *)
(* connections: what is relayed is authenticated on both legs, the leg to   *)
(* the backend is encrypted when it has to be, settings that were accepted  *)
(* start, and each leg goes through SCRAM in order.                         *)
(***************************************************************************)
EXTENDS Handshake, TLAPS

\* handle is past the upstream handshake; past the dial.
Admitted == {"dial", "sasl", "continue", "final", "ok", "relay"}
Dialled == Admitted \ {"dial"}

\* run: the settings it goes on with are the ones LoadProxyConfig accepted,
\* and the server has a TLS config for the backend if there is a CA.
StartInv ==
  /\ env \in Settings
  /\ rpc \in {"config", "cipher", "server", "listen", "serving", "exited"}
  /\ rpc \in {"cipher", "server", "listen", "serving"} => LoadProxyConfig(env)
  /\ AcceptedSettingsStart
  /\ srv = [tls |-> srv.tls, backendTLS |-> srv.backendTLS]
  /\ rpc \in {"listen", "serving"} => (srv.backendTLS <=> env.ca = "good")
  /\ at # "idle" => rpc = "serving"

\* The fields of the records that are updated.
IsUp(u) == u \in [tls : {u.tls}, params : {u.params}, scram : {u.scram}, told : {u.told}]
IsDown(d) == d \in [tls : {d.tls}, params : {d.params}, scram : {d.scram}, got : {d.got}]
IsServer(s) ==
  s \in [step : {s.step}, username : {s.username}, verifier : {s.verifier}, first : {s.first}, server : {s.server}]
IsClient(c) == c \in [step : {c.step}, first : {c.first}, signature : {c.signature}]

\* The upstream leg: the state of SCRAM at each step, and what holds of the
\* client once it has been told that it is authenticated.
Named(c, s) == UpstreamUser = IF c.user # "" THEN c.user ELSE s.first.name

UpInv ==
  /\ IsUp(up)
  /\ at \in {"tls", "startup"} => up.scram = NewScramServer
  /\ at = "initial" => up.scram = SetUsername(NewScramServer, client.user)
  /\ at = "response" =>
       /\ IsServer(up.scram)
       /\ up.scram.step = 1 /\ up.scram.verifier = MakeScramVerifier(UpstreamPassword, 1)
       /\ Named(client, up.scram)
  /\ at \in {"idle", "tls", "startup", "initial", "response"} => "ok" \notin up.told
  /\ at \in {"initial", "response"} \union Admitted =>
       up.params = [user |-> client.user, database |-> up.params.database]
  /\ at \in Admitted => "ok" \in up.told
  /\ "ok" \in up.told => client.password = UpstreamPassword /\ Named(client, up.scram)

\* The downstream leg: nothing has been sent before the dial; afterwards the
\* parameters are the proxy's own, and the signature expected of the backend
\* is under the proxy's password.
DownInv ==
  /\ IsDown(down) /\ IsClient(down.scram)
  /\ at \notin Dialled \union {"closed"} => down = NoDown
  /\ BackendLegIsTLS
  /\ at \in Dialled /\ env.ca = "good" => down.tls /\ backend.cert
  /\ at \in Dialled => down.params = [user |-> BackendUser, database |-> up.params.database]
  /\ at = "final" => down.scram.signature.key = saltedPassword(BackendPassword, down.got.salt)
  /\ at \in {"ok", "relay"} => backend.password = BackendPassword

HInv == StartInv /\ UpInv /\ DownInv

-----------------------------------------------------------------------------
\* The invariant holds before run has read its settings.
LEMMA InitHInv == Init => HInv
<1> SUFFICES ASSUME Init PROVE HInv
  OBVIOUS
<1>1. StartInv
  BY DEF Init, StartInv, AcceptedSettingsStart
<1>2. UpInv
  BY Zenon DEF Init, UpInv, NoUp, IsUp, Admitted
<1>3. DownInv
  BY Zenon DEF Init, DownInv, BackendLegIsTLS, NoDown, NewScramClient, Dialled, Admitted, IsDown, IsClient
<1> QED
  BY <1>1, <1>2, <1>3 DEF HInv

-----------------------------------------------------------------------------
(* The start.                                                               *)

\* What validateKMS accepts is what buildKMS needs.
LEMMA ValidKMSIsBuilt ==
  ASSUME NEW e, LoadProxyConfig(e) PROVE buildKMS(e) # "error"
<1>1. validateKMS(e)
  BY Zenon DEF LoadProxyConfig, Validate
<1>2. CASE hasVault(e)
  <2>1. validateVaultAuth(e) /\ buildKMS(e) = NewVaultKMS(e)
    BY <1>1, <1>2, Zenon DEF validateKMS, buildKMS
  <2>2. NewVaultKMS(e) = newVaultAuth(e)
    BY <1>2, <2>1 DEF NewVaultKMS, hasVault, validateVaultAuth
  <2>3. newVaultAuth(e) # "error"
    BY <2>1 DEF newVaultAuth, validateVaultAuth
  <2> QED
    BY <2>1, <2>2, <2>3
<1>3. CASE ~hasVault(e)
  <2>1. hasStatic(e)
    BY <1>1, <1>3, Zenon DEF validateKMS, hasStatic, hasVault
  <2>2. e.KEK = "32 bytes"
    BY <1>1, <2>1, Zenon DEF validateKMS
  <2> QED
    BY <1>3, <2>2, Zenon DEF buildKMS, NewStaticKMS
<1> QED
  BY <1>2, <1>3

\* Every step keeps what is known of the settings and of the server.
LEMMA StartStep == HInv /\ [Next]_vars => StartInv'
<1> SUFFICES ASSUME HInv, [Next]_vars PROVE StartInv'
  OBVIOUS
<1> USE DEF StartInv, AcceptedSettingsStart
<1>1. CASE LoadConfig
  BY <1>1, Zenon DEF LoadConfig, Step, HInv
<1>2. CASE OpenCipher
  <2>1. buildCipher(env) \/ env.faults # {}
    BY <1>2, ValidKMSIsBuilt DEF OpenCipher, Step, buildCipher, HInv
  <2> QED
    BY <1>2, <2>1, Zenon DEF OpenCipher, Step, HInv, connVars
<1>3. CASE MakeServer
  BY <1>3, HandshakeAssumption, Zenon DEF MakeServer, Step, newServer, LoadBackendCA, HInv, connVars
<1>4. CASE Listen
  BY <1>4, Zenon DEF Listen, Step, listen, HInv, connVars
<1>5. CASE Handle \/ RelayEnds \/ \E c \in Clients, b \in Backends : Accept(c, b)
  <2>1. UNCHANGED runVars /\ (at = "idle" => rpc = "serving")
    BY <1>5, Zenon DEF Handle, Accept, MaybeUpgradeTLS, readStartup, receiveSASLInitial, receiveSASLResponse, DialBackend,
      AuthenticateDownstream, ReceiveSASL, ReceiveContinue, ReceiveFinal, ReceiveOk, PeerFails, RelayEnds, Done
  <2> QED
    BY <2>1, Zenon DEF runVars, HInv
<1>6. CASE UNCHANGED vars
  BY <1>6, Zenon DEF vars, runVars, HInv
<1> QED
  BY <1>1, <1>2, <1>3, <1>4, <1>5, <1>6, Zenon DEF Next, Run

-----------------------------------------------------------------------------
(* The upstream leg.                                                        *)

\* The answer to a client-first.
First(m) == ServerFirst(up.scram, m, upstreamVerifiers, 2 * conn + 1)

\* ServerFirst goes on only with the verifier of the settings and their user.
LEMMA FirstFindsTheUser ==
  ASSUME UpInv, at = "initial", NEW m, First(m).step = 1
  PROVE  /\ IsServer(First(m))
         /\ First(m).verifier = MakeScramVerifier(UpstreamPassword, 1)
         /\ Named(client, First(m))
<1> DEFINE s == up.scram
           t == First(m)
           name == IF client.user # "" THEN client.user ELSE m.name
<1>1. IsServer(s) /\ s.username = client.user
  BY Zenon DEF UpInv, SetUsername, NewScramServer, IsServer
<1>2. DOMAIN upstreamVerifiers = {UpstreamUser} /\ upstreamVerifiers[UpstreamUser] = MakeScramVerifier(UpstreamPassword, 1)
  BY DEF upstreamVerifiers
<1>3. t # ScramFails(s)
  BY <1>1 DEF ScramFails, IsServer
<1> DEFINE server == serverFirst(<<m.nonce, 2 * conn + 1>>, upstreamVerifiers[name].salt)
<1>4. /\ name \in DOMAIN upstreamVerifiers
      /\ t = [s EXCEPT !.step = 1, !.verifier = upstreamVerifiers[name], !.first = m, !.server = server]
  BY <1>1, <1>3, Zenon DEF First, ServerFirst
<1> HIDE DEF server, s, t
<1>5. t = [s EXCEPT !.step = 1, !.verifier = MakeScramVerifier(UpstreamPassword, 1), !.first = m, !.server = server]
  BY <1>2, <1>4, Zenon
<1>6. IsServer(t) /\ t.verifier = MakeScramVerifier(UpstreamPassword, 1) /\ t.first = m
  BY <1>1, <1>5, Zenon DEF IsServer
<1>7. Named(client, t)
  BY <1>2, <1>4, <1>6, Zenon DEF Named
<1> QED
  BY <1>6, <1>7 DEF t

\* ServerFinal goes on only with a proof under the password of the verifier.
LEMMA FinalNeedsThePassword ==
  ASSUME NEW s, NEW m, IsServer(s), s.verifier = MakeScramVerifier(UpstreamPassword, 1), ServerFinal(s, m).step = 2
  PROVE  /\ m.kind = "client-final"
         /\ m.proof.key.password = UpstreamPassword
         /\ ServerFinal(s, m).first = s.first
BY DEF ServerFinal, ScramFails, Proof, MakeScramVerifier, saltedPassword, IsServer

\* A client signs with its own password.
LEMMA ClientSigns ==
  ASSUME NEW m \in ClientFinals, m.kind = "client-final"
  PROVE  m.proof.key.password = client.password
BY DEF ClientFinals, clientFinal, Garbled, Proof, saltedPassword

\* Every step keeps what is known of the upstream leg.
LEMMA UpStep == HInv /\ [Next]_vars => UpInv'
<1> SUFFICES ASSUME HInv, [Next]_vars PROVE UpInv'
  OBVIOUS
<1> USE DEF UpInv, Admitted, Named
<1>1. CASE Run
  <2>1. UNCHANGED <<at, up, client>>
    BY <1>1 DEF Run, LoadConfig, OpenCipher, MakeServer, Listen, Step, connVars
  <2> QED
    BY <2>1, Zenon DEF HInv
<1>2. CASE \E c \in Clients, b \in Backends : Accept(c, b)
  <2>1. up' = NoUp /\ at' = "tls"
    BY <1>2 DEF Accept
  <2> QED
    BY <2>1, Zenon DEF NoUp, IsUp
<1>3. CASE MaybeUpgradeTLS
  <2>1. /\ at = "tls" /\ at' = "startup" /\ client' = client
        /\ \/ up' = up
           \/ up' = [up EXCEPT !.told = @ \union {"N"}]
           \/ up' = [up EXCEPT !.told = @ \union {"S"}, !.tls = TRUE]
    BY <1>3 DEF MaybeUpgradeTLS, connVars
  <2>2. IsUp(up') /\ up'.scram = up.scram /\ up'.told \subseteq up.told \union {"N", "S"}
    <3>1. IsUp(up)
      BY Zenon DEF HInv
    <3>2. CASE up' = up
      BY <3>1, <3>2
    <3>3. CASE up' = [up EXCEPT !.told = @ \union {"N"}]
      BY <3>1, <3>3 DEF IsUp
    <3>4. CASE up' = [up EXCEPT !.told = @ \union {"S"}, !.tls = TRUE]
      BY <3>1, <3>4, Zenon DEF IsUp
    <3> QED
      BY <2>1, <3>2, <3>3, <3>4
  <2> QED
    BY <2>1, <2>2, Zenon DEF HInv
<1>4. CASE readStartup
  <2>1. at = "startup" /\ client' = client
    BY <1>4 DEF readStartup, connVars
  <2>2. CASE at' = "startup" /\ up' = [up EXCEPT !.told = @ \union {"N"}]
    BY <2>1, <2>2, Zenon DEF HInv, IsUp
  <2>3. CASE at' = "closed" /\ up' = up
    BY <2>1, <2>3, Zenon DEF HInv, IsUp
  <2>4. CASE /\ at' = "initial"
             /\ up' = [up EXCEPT !.params = [user |-> client.user, database |-> "keycloak"],
                                 !.scram = SetUsername(@, client.user),
                                 !.told = @ \union {"SASL"}]
    <3>1. /\ IsUp(up') /\ up'.params = [user |-> client.user, database |-> "keycloak"]
          /\ up'.scram = SetUsername(up.scram, client.user)
          /\ up'.told = up.told \union {"SASL"}
      BY <2>4, Zenon DEF HInv, IsUp
    <3>2. up'.scram = SetUsername(NewScramServer, client'.user)
      BY <2>1, <3>1, Zenon DEF HInv
    <3>3. "ok" \notin up'.told
      BY <2>1, <3>1, Zenon DEF HInv
    <3>4. up'.params = [user |-> client'.user, database |-> up'.params.database]
      <4> HIDE DEF UpInv
      <4> QED
        BY <2>1, <3>1
    <3> QED
      BY <2>4, <3>1, <3>2, <3>3, <3>4, Zenon
  <2> QED
    BY <1>4, <2>1, <2>2, <2>3, <2>4, Zenon DEF readStartup, Closes
<1>5. CASE receiveSASLInitial
  <2>1. PICK m \in ClientFirsts :
          LET s == First(m)
          IN  IF s.step = 1 THEN up' = [up EXCEPT !.scram = s, !.told = @ \union {"continue"}] /\ at' = "response"
              ELSE Rejects(s)
    BY <1>5, Zenon DEF receiveSASLInitial, First
  <2> DEFINE s == First(m)
  <2>2. at = "initial" /\ UNCHANGED client
    BY <1>5 DEF receiveSASLInitial, connVars
  <2>3. CASE s.step = 1
    <3>1. IsServer(s) /\ s.verifier = MakeScramVerifier(UpstreamPassword, 1) /\ Named(client, s)
      <4> HIDE DEF UpInv, Named
      <4> QED
        BY <2>2, <2>3, FirstFindsTheUser DEF HInv
    <3>2. at' = "response" /\ up' = [up EXCEPT !.scram = s, !.told = @ \union {"continue"}]
      BY <2>1, <2>3
    <3> HIDE DEF s
    <3> QED
      BY <2>2, <2>3, <3>1, <3>2, Zenon DEF HInv, IsUp
  <2>4. CASE s.step # 1
    <3>1. Rejects(s)
      BY <2>1, <2>4
    <3> HIDE DEF s
    <3> QED
      BY <2>2, <3>1, Zenon DEF Rejects, Closes, HInv, IsUp
  <2> QED
    BY <2>3, <2>4, Zenon
<1>6. CASE receiveSASLResponse
  <2>1. PICK m \in ClientFinals :
          LET s == ServerFinal(up.scram, m)
          IN  IF s.step = 2 THEN up' = [up EXCEPT !.scram = s, !.told = @ \union {"final", "ok"}] /\ at' = "dial"
              ELSE Rejects(s)
    BY <1>6, Zenon DEF receiveSASLResponse
  <2> DEFINE s == ServerFinal(up.scram, m)
  <2>2. at = "response" /\ UNCHANGED client
    BY <1>6 DEF receiveSASLResponse, connVars
  <2>3. CASE s.step = 2
    <3>1. client.password = UpstreamPassword /\ s.first = up.scram.first
      BY <2>2, <2>3, FinalNeedsThePassword, ClientSigns, Zenon DEF HInv
    <3>2. at' = "dial" /\ up' = [up EXCEPT !.scram = s, !.told = @ \union {"final", "ok"}]
      BY <2>1, <2>3
    <3> HIDE DEF s
    <3> QED
      BY <2>2, <2>3, <3>1, <3>2, Zenon DEF HInv, IsUp
  <2>4. CASE s.step # 2
    <3>1. Rejects(s)
      BY <2>1, <2>4
    <3> HIDE DEF s
    <3> QED
      BY <2>2, <3>1, Zenon DEF Rejects, Closes, HInv, IsUp
  <2> QED
    BY <2>3, <2>4, Zenon
<1>7. CASE DialBackend \/ AuthenticateDownstream
  <2>1. UNCHANGED <<up, client>> /\ at \in Admitted /\ at' \in Admitted \union {"closed"}
    BY <1>7, Zenon DEF DialBackend, AuthenticateDownstream, ReceiveSASL, ReceiveContinue, ReceiveFinal, ReceiveOk,
      Closes, connVars
  <2> QED
    BY <2>1, Zenon DEF HInv
<1>8. CASE PeerFails \/ RelayEnds
  <2>1. UNCHANGED <<up, client>> /\ at' = "closed"
    BY <1>8 DEF PeerFails, RelayEnds, Closes, connVars
  <2> QED
    BY <2>1, Zenon DEF HInv
<1>9. CASE Done
  BY <1>9, Zenon DEF Done, connVars, NoUp, IsUp
<1>10. CASE UNCHANGED vars
  BY <1>10, Zenon DEF vars, connVars, HInv
<1> QED
  BY <1>1, <1>2, <1>3, <1>4, <1>5, <1>6, <1>7, <1>8, <1>9, <1>10, Zenon DEF Next, Handle

-----------------------------------------------------------------------------
(* The downstream leg.                                                      *)

\* A backend signs with its own password.
LEMMA BackendSigns ==
  ASSUME NEW m \in Finals, m.kind = "server-final"
  PROVE  m.signature.key = saltedPassword(backend.password, down.got.salt)
BY DEF Finals, serverFinal, Garbled, Signature, MakeScramVerifier

\* The dial is in the clear only if there is no CA.
LEMMA DialStep == HInv /\ DialBackend => DownInv'
<1> SUFFICES ASSUME HInv, DialBackend PROVE DownInv'
  OBVIOUS
<1> USE DEF Dialled, Admitted
<1>1. /\ at = "dial" /\ down = NoDown /\ IsDown(down) /\ IsClient(down.scram)
      /\ srv.backendTLS <=> env.ca = "good"
      /\ up.params = [user |-> client.user, database |-> up.params.database]
  BY Zenon DEF DialBackend, HInv, StartInv, UpInv, DownInv
<1>2. UNCHANGED <<env, up, backend>>
  BY DEF DialBackend, runVars, connVars
<1>3. CASE DialBackendTLS = "error"
  BY <1>1, <1>2, <1>3 DEF DialBackend, Closes, DownInv, BackendLegIsTLS
<1>4. CASE DialBackendTLS # "error"
  <2>1. /\ at' = "sasl"
        /\ down' = [down EXCEPT !.tls = DialBackendTLS = "tls", !.params = downstreamParams(up.params, BackendUser)]
    BY <1>4 DEF DialBackend
  <2>2. downstreamParams(up.params, BackendUser) = [user |-> BackendUser, database |-> up.params.database]
    BY <1>1 DEF downstreamParams
  <2>3. env.ca = "good" => DialBackendTLS = "tls" /\ backend.cert
    BY <1>1, <1>4, Zenon DEF DialBackendTLS
  <2>4. /\ IsDown(down') /\ down'.scram = down.scram
        /\ down'.tls = (DialBackendTLS = "tls")
        /\ down'.params = downstreamParams(up.params, BackendUser)
    BY <1>1, <2>1, Zenon DEF IsDown
  <2> HIDE DEF Dialled, Admitted
  <2>5. env'.ca = "good" => down'.tls /\ backend'.cert
    BY <1>2, <2>3, <2>4, Zenon
  <2>6. down'.params = [user |-> BackendUser, database |-> up'.params.database]
    BY <1>2, <2>2, <2>4, Zenon
  <2> QED
    BY <1>1, <2>1, <2>4, <2>5, <2>6, Zenon DEF DownInv, BackendLegIsTLS, Dialled, Admitted
<1> QED
  BY <1>3, <1>4

\* What an answer of the backend leaves as it is.
LEMMA AnswerStep ==
  ASSUME HInv, AuthenticateDownstream
  PROVE  /\ at \in Dialled /\ UNCHANGED <<env, up, client, backend>>
         /\ IsDown(down') /\ down'.tls = down.tls /\ down'.params = down.params
<1>1. at \in Dialled /\ UNCHANGED <<env, up, client, backend>>
  BY Zenon DEF AuthenticateDownstream, ReceiveSASL, ReceiveContinue, ReceiveFinal, ReceiveOk, Dialled, Admitted,
    runVars, connVars
<1>2. \/ down' = down
      \/ \E c : down' = [down EXCEPT !.scram = c]
      \/ \E c, m : down' = [down EXCEPT !.scram = c, !.got = m]
  BY Zenon DEF AuthenticateDownstream, ReceiveSASL, ReceiveContinue, ReceiveFinal, ReceiveOk
<1>3. IsDown(down)
  BY DEF HInv, DownInv
<1> QED
  BY <1>1, <1>2, <1>3, Zenon DEF IsDown

\* After the server's final message the backend is known to have the
\* password: its signature was compared with one under that password.
LEMMA FinalShowsThePassword ==
  ASSUME HInv, NEW m \in Finals, at = "final", VerifyServerFinal(down.scram, m).step = 3
  PROVE  backend.password = BackendPassword
<1>1. IsClient(down.scram) /\ down.scram.signature.key = saltedPassword(BackendPassword, down.got.salt)
  BY Zenon DEF HInv, DownInv
<1>2. m.kind = "server-final" /\ m.signature = down.scram.signature
  BY <1>1 DEF VerifyServerFinal, ScramFails, IsClient
<1>3. saltedPassword(backend.password, down.got.salt) = saltedPassword(BackendPassword, down.got.salt)
  BY <1>1, <1>2, BackendSigns
<1> QED
  BY <1>3 DEF saltedPassword

\* An answer ends the exchange or takes it one step further.
LEMMA ExchangeStep ==
  ASSUME HInv, AuthenticateDownstream
  PROVE  /\ IsClient(down'.scram)
         /\ at' \in {"continue", "final", "ok", "relay", "closed"}
         /\ at' = "final" => down'.scram.signature.key = saltedPassword(BackendPassword, down'.got.salt)
         /\ at' \in {"ok", "relay"} => backend.password = BackendPassword
<1>1. IsDown(down) /\ IsClient(down.scram)
  BY Zenon DEF HInv, DownInv
<1>2. ASSUME NEW m, ReceiveSASL(m)
      PROVE  IsClient(down'.scram) /\ at' \in {"continue", "closed"}
  <2>1. IsClient(ClientFirst(down.scram, BackendUser, 2 * conn))
    BY <1>1, Zenon DEF ClientFirst, ScramFails, IsClient
  <2> QED
    BY <1>1, <1>2, <2>1 DEF ReceiveSASL, Closes, IsDown
<1>3. ASSUME NEW m, ReceiveContinue(m)
      PROVE  /\ IsClient(down'.scram) /\ at' \in {"final", "closed"}
             /\ at' = "final" => down'.scram.signature.key = saltedPassword(BackendPassword, down'.got.salt)
  <2> DEFINE c == ClientFinal(down.scram, m, BackendPassword)
  <2>1. IsClient(c) /\ (c.step = 2 => c.signature.key = saltedPassword(BackendPassword, m.salt))
    <3> DEFINE signature == Signature(saltedPassword(BackendPassword, m.salt),
                                      AuthMessage(down.scram.first, m, down.scram.first.gs2, m.nonce))
    <3>1. \/ c = [down.scram EXCEPT !.step = 2, !.signature = signature]
          \/ c = [down.scram EXCEPT !.step = 9]
      BY DEF ClientFinal, ScramFails
    <3>2. signature.key = saltedPassword(BackendPassword, m.salt)
      BY DEF Signature
    <3> HIDE DEF c, signature
    <3>3. CASE c = [down.scram EXCEPT !.step = 2, !.signature = signature]
      <4>1. IsClient(c) /\ c.signature = signature
        BY <1>1, <3>3, Zenon DEF IsClient
      <4> QED
        BY <3>2, <4>1
    <3>4. CASE c = [down.scram EXCEPT !.step = 9]
      BY <1>1, <3>4 DEF IsClient
    <3> QED
      BY <3>1, <3>3, <3>4
  <2>2. down' = [down EXCEPT !.scram = c, !.got = m] /\ IF c.step = 2 THEN at' = "final" ELSE at' = "closed"
    BY <1>3 DEF ReceiveContinue, Closes
  <2> HIDE DEF c
  <2>3. down'.scram = c /\ down'.got = m
    BY <1>1, <2>2 DEF IsDown
  <2> QED
    BY <2>1, <2>2, <2>3
<1>4. ASSUME NEW m \in Finals, ReceiveFinal(m)
      PROVE  /\ IsClient(down'.scram) /\ at' \in {"ok", "closed"}
             /\ at' = "ok" => backend.password = BackendPassword
  <2> DEFINE c == VerifyServerFinal(down.scram, m)
  <2>1. IsClient(c)
    BY <1>1, Zenon DEF VerifyServerFinal, ScramFails, IsClient
  <2>2. /\ at = "final" /\ down' = [down EXCEPT !.scram = c]
        /\ IF c.step = 3 THEN at' = "ok" ELSE at' = "closed"
    BY <1>4 DEF ReceiveFinal, Closes
  <2>3. c.step = 3 => backend.password = BackendPassword
    BY <2>2, FinalShowsThePassword
  <2> HIDE DEF c
  <2>4. down'.scram = c
    BY <1>1, <2>2 DEF IsDown
  <2> QED
    BY <2>1, <2>2, <2>3, <2>4
<1>5. ASSUME NEW m, ReceiveOk(m)
      PROVE  /\ down' = down /\ at' \in {"relay", "closed"}
             /\ backend.password = BackendPassword
  BY <1>5 DEF ReceiveOk, Closes, HInv, DownInv
<1> QED
  BY <1>1, <1>2, <1>3, <1>4, <1>5 DEF AuthenticateDownstream

\* Every step keeps what is known of the downstream leg.
LEMMA DownStep == HInv /\ [Next]_vars => DownInv'
<1> SUFFICES ASSUME HInv, [Next]_vars PROVE DownInv'
  OBVIOUS
<1>1. CASE Run
  <2>1. UNCHANGED <<env, at, up, down, backend>>
    BY <1>1 DEF Run, LoadConfig, OpenCipher, MakeServer, Listen, Step, connVars
  <2> QED
    BY <2>1 DEF HInv, DownInv, BackendLegIsTLS
<1>2. CASE Done \/ \E c \in Clients, b \in Backends : Accept(c, b)
  <2>1. down' = NoDown /\ at' \in {"tls", "idle"}
    BY <1>2 DEF Accept, Done
  <2> QED
    BY <2>1, Zenon DEF DownInv, BackendLegIsTLS, NoDown, NewScramClient, IsDown, IsClient, Dialled, Admitted
<1>3. CASE MaybeUpgradeTLS \/ readStartup \/ receiveSASLInitial \/ receiveSASLResponse
  <2>1. /\ at \in {"tls", "startup", "initial", "response"}
        /\ at' \in {"startup", "initial", "response", "dial", "closed"}
        /\ UNCHANGED <<env, down, backend>>
    BY <1>3, Zenon DEF MaybeUpgradeTLS, readStartup, receiveSASLInitial, receiveSASLResponse, Rejects, Closes, runVars, connVars
  <2> QED
    BY <2>1, Zenon DEF HInv, DownInv, BackendLegIsTLS, Dialled, Admitted
<1>4. CASE DialBackend
  BY <1>4, DialStep
<1>5. CASE AuthenticateDownstream
  <2>1. /\ at \in Dialled /\ UNCHANGED <<env, up, client, backend>>
        /\ IsDown(down') /\ down'.tls = down.tls /\ down'.params = down.params
    BY <1>5, AnswerStep
  <2>2. /\ IsClient(down'.scram)
        /\ at' \in {"continue", "final", "ok", "relay", "closed"}
        /\ at' = "final" => down'.scram.signature.key = saltedPassword(BackendPassword, down'.got.salt)
        /\ at' \in {"ok", "relay"} => backend.password = BackendPassword
    BY <1>5, ExchangeStep
  <2>3. /\ env'.ca = "good" => down'.tls /\ backend'.cert
        /\ down'.params = [user |-> BackendUser, database |-> up'.params.database]
    BY <2>1, Zenon DEF HInv, DownInv
  <2> QED
    BY <2>1, <2>2, <2>3, Zenon DEF DownInv, BackendLegIsTLS, Dialled, Admitted
<1>6. CASE PeerFails \/ RelayEnds
  <2>1. at' = "closed" /\ UNCHANGED <<env, up, down, backend>>
    BY <1>6 DEF PeerFails, RelayEnds, Closes, runVars, connVars
  <2> QED
    BY <2>1, Zenon DEF HInv, DownInv, BackendLegIsTLS, Dialled, Admitted
<1>7. CASE UNCHANGED vars
  <2>1. UNCHANGED <<env, at, up, down, backend>>
    BY <1>7 DEF vars, runVars, connVars
  <2> QED
    BY <2>1, Zenon DEF HInv, DownInv, BackendLegIsTLS
<1> QED
  BY <1>1, <1>2, <1>3, <1>4, <1>5, <1>6, <1>7 DEF Next, Handle

-----------------------------------------------------------------------------
(* The theorems.                                                            *)

\* So the invariant always holds.
LEMMA SpecHInv == Spec => []HInv
<1>1. HInv /\ [Next]_vars => HInv'
  BY StartStep, UpStep, DownStep DEF HInv
<1> QED
  BY InitHInv, <1>1, PTL DEF Spec

\* Whatever the peers send, a client is told that it is authenticated only if
\* it has the password and the user of the settings, and handle comes to Relay
\* only with such a client and with a backend that has shown it knows the
\* proxy's own password.
THEOREM RelayIsAuthenticatedAlways == Spec => []RelayIsAuthenticated
<1>1. HInv => RelayIsAuthenticated
  BY Zenon DEF HInv, UpInv, DownInv, RelayIsAuthenticated, Admitted, Dialled, Named
<1> QED
  BY SpecHInv, <1>1, PTL

\* With a CA no byte of the protocol goes to the backend in the clear,
\* whatever the backend answers to the SSLRequest.
THEOREM BackendLegIsTLSAlways == Spec => []BackendLegIsTLS
<1>1. HInv => BackendLegIsTLS
  BY Zenon DEF HInv, DownInv
<1> QED
  BY SpecHInv, <1>1, PTL

\* Whatever the environment, the settings that LoadProxyConfig accepts are
\* taken by buildKMS, newServer and listen, unless a file, the port or the KMS
\* is at fault.
THEOREM AcceptedSettingsStartAlways == Spec => []AcceptedSettingsStart
<1>1. HInv => AcceptedSettingsStart
  BY DEF HInv, StartInv
<1> QED
  BY SpecHInv, <1>1, PTL

-----------------------------------------------------------------------------
(* The types.                                                               *)

\* The types of everything but the two legs.
PlacesInv ==
  /\ env \in Settings /\ client \in Clients /\ backend \in Backends
  /\ rpc \in {"config", "cipher", "server", "listen", "serving", "exited"}
  /\ srv \in [tls : BOOLEAN, backendTLS : BOOLEAN]
  /\ conn \in 0..MaxConns /\ sent \in 0..Len(client.opens)
  /\ at \in {"idle", "tls", "startup", "initial"} \union {"response", "closed"} \union Admitted

\* How far SCRAM is on each leg.
UpStepInv ==
  /\ at \in {"idle", "tls", "startup", "initial"} => up.scram.step = 0
  /\ at = "response" => up.scram.step = 1
  /\ at \in Admitted => up.scram.step = 2

DownStepInv ==
  /\ at = "continue" => down.scram.step = 1
  /\ at = "final" => down.scram.step = 2
  /\ at \in {"ok", "relay"} => down.scram.step = 3
  /\ at \notin {"continue", "final", "ok", "relay", "closed"} => down.scram.step = 0

\* The three together are TypeOK.
LEMMA TypesAreOK == PlacesInv /\ UpStepInv /\ DownStepInv => TypeOK
<1> SUFFICES ASSUME PlacesInv, UpStepInv, DownStepInv PROVE TypeOK
  BY Zenon
<1>1. at \in {"idle", "tls", "startup", "initial", "response", "dial", "sasl", "continue", "final", "ok",
             "relay", "closed"}
  BY DEF PlacesInv, Admitted
<1>2. up.scram.step = CASE at \in {"idle", "tls", "startup", "initial"} -> 0
                       [] at = "response" -> 1
                       [] at = "closed" -> up.scram.step
                       [] OTHER -> 2
  BY <1>1 DEF UpStepInv, Admitted
<1>3. down.scram.step = CASE at = "continue" -> 1
                         [] at = "final" -> 2
                         [] at \in {"ok", "relay"} -> 3
                         [] at = "closed" -> down.scram.step
                         [] OTHER -> 0
  BY <1>1 DEF DownStepInv
<1> QED
  BY <1>1, <1>2, <1>3, Zenon DEF TypeOK, PlacesInv

\* The opening of a client has a length.
LEMMA OpensLength == ASSUME NEW c \in Clients PROVE Len(c.opens) \in Nat
<1> DEFINE o == c.opens
<1>1. o \in Seq({"ssl", "gss", "cancel"})
  BY HandshakeAssumption, Zenon
<1> HIDE DEF o
<1>2. Len(o) \in Nat
  BY <1>1
<1> QED
  BY <1>2 DEF o

\* They hold at the start.
LEMMA InitTypes == Init => PlacesInv /\ UpStepInv /\ DownStepInv
<1> SUFFICES ASSUME Init PROVE PlacesInv /\ UpStepInv /\ DownStepInv
  OBVIOUS
<1>1. client \in Clients /\ backend \in Backends
  <2>1. Clients # {} /\ Backends # {}
    BY HandshakeAssumption, Zenon
  <2>2. (CHOOSE c \in Clients : TRUE) \in Clients
    BY <2>1, Zenon
  <2>3. (CHOOSE b \in Backends : TRUE) \in Backends
    BY <2>1, Zenon
  <2> QED
    BY <2>2, <2>3 DEF Init
<1>2. Len(client.opens) \in Nat
  BY <1>1, OpensLength
<1>3. PlacesInv
  <2>1. sent \in 0..Len(client.opens) /\ conn \in 0..MaxConns
    <3>1. sent = 0 /\ conn = 0 /\ MaxConns \in Nat
      BY HandshakeAssumption, Zenon DEF Init
    <3> QED
      BY <1>2, <3>1
  <2>2. srv \in [tls : BOOLEAN, backendTLS : BOOLEAN]
    BY DEF Init
  <2> QED
    BY <1>1, <2>1, <2>2 DEF Init, PlacesInv
<1>4. UpStepInv /\ DownStepInv
  BY Zenon DEF Init, UpStepInv, DownStepInv, NoUp, NoDown, NewScramServer, NewScramClient, Admitted
<1> QED
  BY <1>3, <1>4

\* A request that is not the StartupMessage is one the client still had to
\* send.
LEMMA OpeningIsLeft ==
  ASSUME PlacesInv, Opening # "startup" PROVE sent + 1 \in 0..Len(client.opens)
<1>1. Len(client.opens) \in Nat
  BY OpensLength DEF PlacesInv
<1>2. sent \in 0..Len(client.opens) /\ sent < Len(client.opens)
  BY DEF PlacesInv, Opening
<1> QED
  BY <1>1, <1>2

\* Every step keeps the places.
LEMMA PlacesStep == HInv /\ PlacesInv /\ [Next]_vars => PlacesInv'
<1> SUFFICES ASSUME HInv, PlacesInv, [Next]_vars PROVE PlacesInv'
  OBVIOUS
<1>1. CASE LoadConfig \/ OpenCipher
  BY <1>1, Zenon DEF LoadConfig, OpenCipher, Step, connVars, PlacesInv
<1>2. CASE MakeServer
  <2>1. srv' \in [tls : BOOLEAN, backendTLS : BOOLEAN]
    <3>1. srv \in [tls : BOOLEAN, backendTLS : BOOLEAN] /\ (newServer(env) = "tls") \in BOOLEAN
      BY DEF PlacesInv
    <3>2. srv' = [srv EXCEPT !.backendTLS = newServer(env) = "tls"]
      BY <1>2 DEF MakeServer
    <3> QED
      BY <3>1, <3>2, Zenon
  <2> QED
    BY <1>2, <2>1 DEF MakeServer, Step, connVars, PlacesInv
<1>3. CASE Listen
  <2>1. srv' \in [tls : BOOLEAN, backendTLS : BOOLEAN]
    <3>1. srv \in [tls : BOOLEAN, backendTLS : BOOLEAN] /\ ("CERT_FILE" \in env.tls) \in BOOLEAN
      BY DEF PlacesInv
    <3>2. srv' = [srv EXCEPT !.tls = "CERT_FILE" \in env.tls]
      BY <1>3 DEF Listen
    <3> QED
      BY <3>1, <3>2, Zenon
  <2> QED
    BY <1>3, <2>1 DEF Listen, Step, connVars, PlacesInv
<1>4. ASSUME NEW c \in Clients, NEW b \in Backends, Accept(c, b) PROVE PlacesInv'
  <2>1. Len(c.opens) \in Nat
    BY OpensLength
  <2>2. conn' \in 0..MaxConns
    <3>1. MaxConns \in Nat /\ conn \in 0..MaxConns
      BY HandshakeAssumption, Zenon DEF PlacesInv
    <3>2. conn < MaxConns /\ conn' = conn + 1
      BY <1>4 DEF Accept
    <3> QED
      BY <3>1, <3>2
  <2> QED
    BY <1>4, <2>1, <2>2 DEF Accept, runVars, PlacesInv
<1>5. CASE MaybeUpgradeTLS
  <2>1. /\ at' = "startup" /\ UNCHANGED <<env, rpc, srv, conn, client, backend>>
        /\ sent' = sent \/ (Opening # "startup" /\ sent' = sent + 1)
    BY <1>5 DEF MaybeUpgradeTLS, runVars, connVars
  <2>2. sent' \in 0..Len(client.opens)
    BY <2>1, OpeningIsLeft, Zenon DEF PlacesInv
  <2> QED
    BY <2>1, <2>2 DEF PlacesInv
<1>6. CASE readStartup
  <2>1. /\ at' \in {"startup", "closed", "initial"} /\ UNCHANGED <<env, rpc, srv, conn, client, backend>>
        /\ sent' = sent \/ (Opening # "startup" /\ sent' = sent + 1)
    BY <1>6, Zenon DEF readStartup, runVars, connVars, Closes
  <2>2. sent' \in 0..Len(client.opens)
    BY <2>1, OpeningIsLeft, Zenon DEF PlacesInv
  <2> QED
    BY <2>1, <2>2 DEF PlacesInv
<1>7. CASE receiveSASLInitial \/ receiveSASLResponse \/ DialBackend \/ AuthenticateDownstream \/ PeerFails \/ RelayEnds
  <2>1. /\ UNCHANGED <<env, rpc, srv, conn, client, backend, sent>>
        /\ at' \in {"response", "closed"} \union Admitted
    BY <1>7, Zenon DEF receiveSASLInitial, receiveSASLResponse, Rejects, DialBackend, AuthenticateDownstream, ReceiveSASL,
      ReceiveContinue, ReceiveFinal, ReceiveOk, PeerFails, RelayEnds, Closes, Admitted, runVars, connVars
  <2> QED
    BY <2>1 DEF PlacesInv
<1>8. CASE Done
  <2>1. Len(client.opens) \in Nat
    BY OpensLength DEF PlacesInv
  <2> QED
    BY <1>8, <2>1 DEF Done, runVars, connVars, PlacesInv
<1>9. CASE UNCHANGED vars
  BY <1>9 DEF vars, runVars, connVars, PlacesInv
<1> QED
  BY <1>1, <1>2, <1>3, <1>4, <1>5, <1>6, <1>7, <1>8, <1>9, Zenon DEF Next, Run, Handle

\* Every step keeps the step of SCRAM with the client where at is.
LEMMA UpStepStep == HInv /\ UpStepInv /\ [Next]_vars => UpStepInv'
<1> SUFFICES ASSUME HInv, UpStepInv, [Next]_vars PROVE UpStepInv'
  OBVIOUS
<1>0. IsUp(up)
  BY Zenon DEF HInv, UpInv
<1>1. CASE Run
  <2>1. UNCHANGED <<at, up>>
    BY <1>1 DEF Run, LoadConfig, OpenCipher, MakeServer, Listen, Step
  <2> QED
    BY <2>1 DEF UpStepInv
<1>2. CASE Done \/ \E c \in Clients, b \in Backends : Accept(c, b)
  <2>1. up' = NoUp /\ at' \in {"tls", "idle"}
    BY <1>2 DEF Accept, Done
  <2> QED
    BY <2>1, Zenon DEF NoUp, NewScramServer, UpStepInv, Admitted
<1>3. CASE MaybeUpgradeTLS
  <2>1. /\ at = "tls" /\ at' = "startup"
        /\ \/ up' = up
           \/ up' = [up EXCEPT !.told = @ \union {"N"}]
           \/ up' = [up EXCEPT !.told = @ \union {"S"}, !.tls = TRUE]
    BY <1>3 DEF MaybeUpgradeTLS
  <2>2. up'.scram = up.scram
    BY <1>0, <2>1, Zenon DEF IsUp
  <2> QED
    BY <2>1, <2>2 DEF UpStepInv, Admitted
<1>4. CASE readStartup
  <2>1. at' = "closed" \/ at' = "initial" \/ (at' = "startup" /\ up' = [up EXCEPT !.told = @ \union {"N"}])
    BY <1>4 DEF readStartup, Closes
  <2>2. at = "startup"
    BY <1>4 DEF readStartup
  <2>3. CASE at' = "closed"
    BY <2>3 DEF UpStepInv, Admitted
  <2>4. CASE at' = "startup" /\ up' = [up EXCEPT !.told = @ \union {"N"}]
    <3>1. up'.scram = up.scram
      BY <1>0, <2>4 DEF IsUp
    <3> QED
      BY <2>2, <2>4, <3>1 DEF UpStepInv, Admitted
  <2>5. CASE at' = "initial"
    <3>1. UpInv'
      BY UpStep
    <3>2. up'.scram = SetUsername(NewScramServer, client'.user)
      BY <2>5, <3>1 DEF UpInv
    <3> QED
      BY <2>5, <3>2, Zenon DEF UpStepInv, Admitted, SetUsername, NewScramServer
  <2> QED
    BY <2>1, <2>3, <2>4, <2>5
<1>5. CASE receiveSASLInitial
  <2>1. at' = "response" \/ at' = "closed"
    BY <1>5 DEF receiveSASLInitial, Rejects, Closes
  <2>2. UpInv'
    BY UpStep
  <2> QED
    BY <2>1, <2>2, Zenon DEF UpInv, UpStepInv, Admitted
<1>6. CASE receiveSASLResponse
  <2>1. PICK m \in ClientFinals :
          \/ at' = "closed"
          \/ /\ at' = "dial" /\ ServerFinal(up.scram, m).step = 2
             /\ up' = [up EXCEPT !.scram = ServerFinal(up.scram, m), !.told = @ \union {"final", "ok"}]
    BY <1>6, Zenon DEF receiveSASLResponse, Rejects, Closes
  <2>2. CASE at' = "closed"
    BY <2>2 DEF UpStepInv, Admitted
  <2>3. CASE at' # "closed"
    <3> DEFINE s == ServerFinal(up.scram, m)
    <3>1. /\ at' = "dial" /\ s.step = 2
          /\ up' = [up EXCEPT !.scram = s, !.told = @ \union {"final", "ok"}]
      BY <2>1, <2>3
    <3> HIDE DEF s
    <3>2. up'.scram = s
      BY <1>0, <3>1 DEF IsUp
    <3> QED
      BY <3>1, <3>2 DEF UpStepInv, Admitted
  <2> QED
    BY <2>2, <2>3
<1>7. CASE DialBackend \/ AuthenticateDownstream
  <2>1. at \in Admitted /\ at' \in Admitted \union {"closed"} /\ up' = up
    BY <1>7, Zenon DEF DialBackend, AuthenticateDownstream, ReceiveSASL, ReceiveContinue, ReceiveFinal, ReceiveOk, Closes,
      Admitted
  <2> QED
    BY <2>1 DEF UpStepInv, Admitted
<1>8. CASE PeerFails \/ RelayEnds
  BY <1>8 DEF PeerFails, RelayEnds, Closes, UpStepInv, Admitted
<1>9. CASE UNCHANGED vars
  BY <1>9 DEF vars, UpStepInv
<1> QED
  BY <1>1, <1>2, <1>3, <1>4, <1>5, <1>6, <1>7, <1>8, <1>9 DEF Next, Handle

\* Every step keeps the step of SCRAM with the backend where at is.
LEMMA DownStepStep == HInv /\ DownStepInv /\ [Next]_vars => DownStepInv'
<1> SUFFICES ASSUME HInv, DownStepInv, [Next]_vars PROVE DownStepInv'
  OBVIOUS
<1>0. IsDown(down) /\ IsClient(down.scram)
  BY DEF HInv, DownInv
<1>1. CASE Run
  <2>1. UNCHANGED <<at, down>>
    BY <1>1 DEF Run, LoadConfig, OpenCipher, MakeServer, Listen, Step
  <2> QED
    BY <2>1 DEF DownStepInv
<1>2. CASE Done \/ \E c \in Clients, b \in Backends : Accept(c, b)
  <2>1. down' = NoDown /\ at' \in {"tls", "idle"}
    BY <1>2 DEF Accept, Done
  <2> QED
    BY <2>1 DEF NoDown, NewScramClient, DownStepInv
<1>3. CASE MaybeUpgradeTLS \/ readStartup \/ receiveSASLInitial \/ receiveSASLResponse
  <2>1. /\ at \in {"tls", "startup", "initial", "response"}
        /\ at' \in {"startup", "initial", "response", "dial", "closed"}
        /\ UNCHANGED down
    BY <1>3, Zenon DEF MaybeUpgradeTLS, readStartup, receiveSASLInitial, receiveSASLResponse, Rejects, Closes
  <2> QED
    BY <2>1 DEF DownStepInv
<1>4. CASE DialBackend
  <2>1. /\ at' = "closed" \/ at' = "sasl"
        /\ at' = "sasl" => down' = [down EXCEPT !.tls = DialBackendTLS = "tls",
                                               !.params = downstreamParams(up.params, BackendUser)]
    BY <1>4 DEF DialBackend, Closes
  <2>2. at' = "sasl" => down'.scram = down.scram
    BY <1>0, <2>1, Zenon DEF IsDown
  <2>3. at = "dial"
    BY <1>4 DEF DialBackend
  <2> QED
    BY <2>1, <2>2, <2>3 DEF DownStepInv
<1>5. ASSUME NEW m, ReceiveSASL(m) PROVE DownStepInv'
  <2> DEFINE c == ClientFirst(down.scram, BackendUser, 2 * conn)
  <2>1. at = "sasl" /\ (at' = "closed" \/ (at' = "continue" /\ down' = [down EXCEPT !.scram = c]))
    BY <1>5 DEF ReceiveSASL, Closes
  <2>2. c.step = 1
    BY <1>0, <2>1 DEF ClientFirst, IsClient, DownStepInv
  <2> HIDE DEF c
  <2>3. at' = "continue" => down'.scram = c
    BY <1>0, <2>1 DEF IsDown
  <2> QED
    BY <2>1, <2>2, <2>3 DEF DownStepInv
<1>6. ASSUME NEW m, ReceiveContinue(m) PROVE DownStepInv'
  <2> DEFINE c == ClientFinal(down.scram, m, BackendPassword)
  <2>1. /\ down' = [down EXCEPT !.scram = c, !.got = m]
        /\ at' = "closed" \/ (at' = "final" /\ c.step = 2)
    BY <1>6 DEF ReceiveContinue, Closes
  <2> HIDE DEF c
  <2>2. down'.scram = c
    BY <1>0, <2>1 DEF IsDown
  <2> QED
    BY <2>1, <2>2 DEF DownStepInv
<1>7. ASSUME NEW m, ReceiveFinal(m) PROVE DownStepInv'
  <2> DEFINE c == VerifyServerFinal(down.scram, m)
  <2>1. /\ down' = [down EXCEPT !.scram = c]
        /\ at' = "closed" \/ (at' = "ok" /\ c.step = 3)
    BY <1>7 DEF ReceiveFinal, Closes
  <2> HIDE DEF c
  <2>2. down'.scram = c
    BY <1>0, <2>1 DEF IsDown
  <2> QED
    BY <2>1, <2>2 DEF DownStepInv
<1>8. ASSUME NEW m, ReceiveOk(m) PROVE DownStepInv'
  BY <1>8 DEF ReceiveOk, Closes, DownStepInv
<1>9. CASE PeerFails \/ RelayEnds
  BY <1>9 DEF PeerFails, RelayEnds, Closes, DownStepInv
<1>10. CASE UNCHANGED vars
  BY <1>10 DEF vars, DownStepInv
<1> QED
  BY <1>1, <1>2, <1>3, <1>4, <1>5, <1>6, <1>7, <1>8, <1>9, <1>10 DEF Next, Handle, AuthenticateDownstream

\* The variables keep their types, and each leg goes through the steps of
\* SCRAM in order: handle is nowhere past an exchange that has not been taken
\* to its end.
THEOREM HandshakeTypeCorrect == Spec => []TypeOK
<1> DEFINE Types == PlacesInv /\ UpStepInv /\ DownStepInv
<1>1. Init => Types
  BY InitTypes
<1>2. HInv /\ Types /\ [Next]_vars => Types'
  BY PlacesStep, UpStepStep, DownStepStep
<1>3. Types => TypeOK
  BY TypesAreOK
<1> HIDE DEF Types
<1> QED
  BY SpecHInv, <1>1, <1>2, <1>3, PTL DEF Spec
=============================================================================
