------------------------------- MODULE Config -------------------------------
(***************************************************************************)
(* internal/config/proxy.go and the parts of cmd/proxy and internal/kms     *)
(* that check the settings once more when they use them.                    *)
(*                                                                         *)
(* The settings are the environment of the process and what it finds with   *)
(* them:                                                                    *)
(*   required  the required variables that are set                          *)
(*   KEK       KKP_KEK: "", "not base64", "short" or "32 bytes"             *)
(*   vault     the KKP_VAULT_ variables that are set                        *)
(*   fields    KKP_FIELDS is one of the known values                        *)
(*   numbers   KKP_MAX_CONNECTIONS and KKP_HANDSHAKE_TIMEOUT, if set, parse *)
(*   tls       the KKP_TLS_ variables that are set                          *)
(*   ca        the file of KKP_BACKEND_CA_FILE: "" if not set, else         *)
(*             "absent", "empty", "no certificate" or "good"                *)
(*   faults    what is wrong outside of the settings: "dekset" (the file of *)
(*             KKP_DEKSET_FILE), "kms", "port", "keypair"                   *)
(***************************************************************************)
EXTENDS Naturals, FiniteSets

Required ==
  {"LISTEN_ADDR", "BACKEND_ADDR", "UPSTREAM_USER", "UPSTREAM_PASSWORD", "BACKEND_USER", "BACKEND_PASSWORD"}

hasToken(env) == "TOKEN" \in env.vault
hasAppRole(env) == {"ROLE_ID", "SECRET_ID"} \intersect env.vault # {}
hasK8s(env) == "KUBERNETES_ROLE" \in env.vault

boolCount(env) == Cardinality({m \in 1..3 : <<hasToken(env), hasAppRole(env), hasK8s(env)>>[m]})

\* Mutant: half an AppRole is one.
validateVaultAuth_HalfRole(env) == "KEY_NAME" \in env.vault /\ boolCount(env) = 1

\* The name of the KEK and exactly one way to log in.
validateVaultAuth(env) ==
  /\ "KEY_NAME" \in env.vault
  /\ boolCount(env) = 1
  /\ hasAppRole(env) => {"ROLE_ID", "SECRET_ID"} \subseteq env.vault

hasStatic(env) == env.KEK \in {"short", "32 bytes"}
hasVault(env) == "ADDR" \in env.vault

validateKMS(env) ==
  /\ hasStatic(env) <=> ~hasVault(env)
  /\ hasStatic(env) => env.KEK = "32 bytes"
  /\ hasVault(env) => validateVaultAuth(env)

Validate(env) ==
  /\ env.required = Required
  /\ validateKMS(env)
  /\ "CERT_FILE" \in env.tls <=> "KEY_FILE" \in env.tls

LoadProxyConfig(env) ==
  /\ env.KEK # "not base64"
  /\ env.fields /\ env.numbers
  /\ Validate(env)

-----------------------------------------------------------------------------
(* What uses them.                                                          *)

\* newVaultAuth: the way to log in, or "error".
newVaultAuth(env) ==
  CASE \/ boolCount(env) # 1
       \/ hasAppRole(env) /\ ~({"ROLE_ID", "SECRET_ID"} \subseteq env.vault) -> "error"
    [] hasAppRole(env) -> "approle"
    [] hasK8s(env) -> "kubernetes"
    [] OTHER -> "token"

NewVaultKMS(env) == IF {"ADDR", "KEY_NAME"} \subseteq env.vault THEN newVaultAuth(env) ELSE "error"

NewStaticKMS(env) == IF env.KEK = "32 bytes" THEN "static" ELSE "error"

buildKMS(env) == IF hasVault(env) THEN NewVaultKMS(env) ELSE NewStaticKMS(env)

\* The KMS wraps fresh keys or opens those of the file.
buildCipher(env) == buildKMS(env) # "error" /\ {"dekset", "kms"} \intersect env.faults = {}

\* LoadBackendCA: "none" for an empty file.
LoadBackendCA(env) ==
  CASE env.ca = "empty" -> "none"
    [] env.ca = "good" -> "tls"
    [] OTHER -> "error"

\* newServer's backendTLSConfig: "none", "tls", or "error".
newServer(env) == IF env.ca = "" THEN "none" ELSE LoadBackendCA(env)

\* listen binds the port and loads the key pair.
listen(env) == "port" \notin env.faults /\ ("CERT_FILE" \in env.tls => "keypair" \notin env.faults)
=============================================================================
