---------------------------- MODULE MCHandshake ----------------------------
(* Settings and peers of Handshake for TLC.                                 *)
EXTENDS Handshake

\* A good environment with the static KMS.
Static ==
  [required |-> Required, KEK |-> "32 bytes", vault |-> {}, fields |-> TRUE, numbers |-> TRUE,
   tls |-> {}, ca |-> "", faults |-> {}]

\* Every choice of the settings of the KMS.
KMSSettings ==
  {[Static EXCEPT !.KEK = k, !.vault = v] :
     k \in {"", "not base64", "short", "32 bytes"},
     v \in SUBSET {"ADDR", "KEY_NAME", "TOKEN", "ROLE_ID", "SECRET_ID", "KUBERNETES_ROLE"}}

\* Every choice of the settings of TLS, with what is found in the files.
TLSSettings ==
  {[Static EXCEPT !.tls = t, !.ca = c, !.faults = f] :
     t \in SUBSET {"CERT_FILE", "KEY_FILE"},
     c \in {"", "absent", "empty", "no certificate", "good"},
     f \in {{}, {"keypair"}}}

OtherSettings ==
  {[Static EXCEPT !.required = Required \ {v}] : v \in Required}
    \union {[Static EXCEPT !.faults = {f}] : f \in {"dekset", "kms", "port"}}
    \union {[Static EXCEPT !.fields = FALSE], [Static EXCEPT !.numbers = FALSE]}

MCSettings == KMSSettings \union TLSSettings \union OtherSettings

\* Keycloak, opening in the ways of pgjdbc and libpq; and peers that fail.
Keycloak(opens) == [faithful |-> TRUE, user |-> UpstreamUser, password |-> UpstreamPassword, opens |-> opens]
MCClients ==
  {Keycloak(o) : o \in {<<>>, <<"ssl">>, <<"gss", "ssl">>}}
    \union {[faithful |-> FALSE, user |-> u, password |-> p, opens |-> <<"ssl">>] :
              u \in {UpstreamUser, "other", ""}, p \in {UpstreamPassword, "other"}}
    \union {[Keycloak(<<"cancel">>) EXCEPT !.faithful = FALSE]}

Postgres == [faithful |-> TRUE, password |-> BackendPassword, ssl |-> "S", cert |-> TRUE]
MCBackends ==
  {Postgres, [Postgres EXCEPT !.password = "other"]}
    \union {[faithful |-> FALSE, password |-> p, ssl |-> s, cert |-> c] :
              p \in {BackendPassword, "other"}, s \in {"S", "N"}, c \in BOOLEAN}
=============================================================================
