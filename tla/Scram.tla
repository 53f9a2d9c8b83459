-------------------------------- MODULE Scram --------------------------------
(***************************************************************************)
(* internal/wire/scram.go and scram_client.go: the two sides of             *)
(* SCRAM-SHA-256, each a state and functions from it and a message to the   *)
(* next state.                                                              *)
(*                                                                         *)
(* HMAC and PBKDF2 are ideal: a salted password is the password and its     *)
(* salt, and a signature is the key and the text it is of.  The proof is    *)
(* the client key XOR the client signature; the server gets the key back    *)
(* exactly when both sides have the same salted password and the same text. *)
(* Nonces are numbers; 0 is a nonce that is missing.                        *)
(***************************************************************************)
EXTENDS Naturals

saltedPassword(password, salt) == [password |-> password, salt |-> salt]

Proof(key, auth) == [by |-> "client", key |-> key, auth |-> auth]

Signature(key, auth) == [by |-> "server", key |-> key, auth |-> auth]

\* Messages.  gs2 is the flag of the header: "n", "y" or "p"; Garbled is one
\* that does not parse.
Garbled == [kind |-> "garbled"]
clientFirst(gs2, name, nonce) == [kind |-> "client-first", gs2 |-> gs2, name |-> name, nonce |-> nonce]
serverFirst(nonce, salt) == [kind |-> "server-first", nonce |-> nonce, salt |-> salt]
\* cbind is the gs2 header that c= repeats.
clientFinal(cbind, nonce, proof) == [kind |-> "client-final", cbind |-> cbind, nonce |-> nonce, proof |-> proof]
serverFinal(signature) == [kind |-> "server-final", signature |-> signature]

\* The text both sides sign: what was said, without the proof.
AuthMessage(first, server, cbind, nonce) ==
  <<first.name, first.nonce, server, cbind, nonce>>

-----------------------------------------------------------------------------
(* The server.  A state is [step, username, verifier, first, server]; error *)
(* is a step of its own.                                                    *)

MakeScramVerifier(password, salt) == saltedPassword(password, salt)

\* An exchange that has not begun.
NewScramServer == [step |-> 0, username |-> "", verifier |-> <<>>, first |-> Garbled, server |-> Garbled]

SetUsername(s, username) == [s EXCEPT !.username = username]

ScramFails(s) == [s EXCEPT !.step = 9]

\* Without channel binding the flag is not p.
checkChannelBindingFlag(gs2) == gs2 # "p"

\* Mutant: the name in the message is the one that counts.
ServerFirst_MessageName(s, m, verifiers, nonce) ==
  IF /\ s.step = 0 /\ m.kind = "client-first" /\ m.nonce # 0
     /\ checkChannelBindingFlag(m.gs2) /\ m.name \in DOMAIN verifiers
  THEN [s EXCEPT !.step = 1, !.verifier = verifiers[m.name], !.first = m,
                 !.server = serverFirst(<<m.nonce, nonce>>, verifiers[m.name].salt)]
  ELSE ScramFails(s)

\* verifiers is the lookup, by name; nonce the server's.
ServerFirst(s, m, verifiers, nonce) ==
  LET name == IF s.username # "" THEN s.username ELSE m.name
  IN  IF /\ s.step = 0 /\ m.kind = "client-first" /\ m.nonce # 0
         /\ checkChannelBindingFlag(m.gs2) /\ name \in DOMAIN verifiers
      THEN [s EXCEPT !.step = 1, !.verifier = verifiers[name], !.first = m,
                     !.server = serverFirst(<<m.nonce, nonce>>, verifiers[name].salt)]
      ELSE ScramFails(s)

\* The nonce of the message is only checked as part of the text that was
\* signed.
ServerFinal(s, m) ==
  IF /\ s.step = 1 /\ m.kind = "client-final" /\ m.cbind = s.first.gs2
     /\ m.proof = Proof(s.verifier, AuthMessage(s.first, s.server, m.cbind, m.nonce))
  THEN [s EXCEPT !.step = 2] ELSE ScramFails(s)

-----------------------------------------------------------------------------
(* The client.  A state is [step, first, signature].                        *)

NewScramClient == [step |-> 0, first |-> Garbled, signature |-> <<>>]

ClientFirst(c, name, nonce) ==
  IF c.step = 0 THEN [c EXCEPT !.step = 1, !.first = clientFirst("n", name, nonce)] ELSE ScramFails(c)

\* The server's nonce extends the client's.
ClientFinal(c, m, password) ==
  IF c.step = 1 /\ m.kind = "server-first" /\ m.salt # 0 /\ m.nonce[1] = c.first.nonce
  THEN [c EXCEPT !.step = 2,
                 !.signature = Signature(saltedPassword(password, m.salt),
                                         AuthMessage(c.first, m, c.first.gs2, m.nonce))]
  ELSE ScramFails(c)

\* The message that ClientFinal returns with step 2.
ClientProof(c, m, password) ==
  clientFinal(c.first.gs2, m.nonce,
              Proof(saltedPassword(password, m.salt), AuthMessage(c.first, m, c.first.gs2, m.nonce)))

\* Mutant: any signature will do.
VerifyServerFinal_Any(c, m) ==
  IF c.step = 2 /\ m.kind = "server-final" THEN [c EXCEPT !.step = 3] ELSE ScramFails(c)

VerifyServerFinal(c, m) ==
  IF c.step = 2 /\ m.kind = "server-final" /\ m.signature = c.signature
  THEN [c EXCEPT !.step = 3] ELSE ScramFails(c)
=============================================================================
