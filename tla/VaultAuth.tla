------------------------------ MODULE VaultAuth ------------------------------
(***************************************************************************)
(* The token cache behind VaultKMS (internal/kms/vault.go): goroutines that *)
(* call Wrap and Unwrap share one vaultAuth, whose fields token and expiry  *)
(* are guarded by mu and whose logins are serialised by loginMu.            *)
(*                                                                         *)
(* One action is one critical section of mu, one operation on loginMu, or   *)
(* the answer to one HTTP request.  Vault is external: it issues tokens     *)
(* with a lease, forgets them when the lease is over and answers 403 to     *)
(* those it does not know.                                                  *)
(*                                                                         *)
(* Time is a counter.  Local computation takes no time: the clock advances  *)
(* only while every goroutine waits for Vault or for loginMu, and never     *)
(* beyond the HTTP client's Timeout for a request.                          *)
(***************************************************************************)
EXTENDS Naturals

CONSTANTS
  Procs,      \* goroutines that use the KMS
  Nobody,     \* none of them
  Leases,     \* lease durations Vault may grant; 0 is a token without expiry
  RenewSkew,  \* renewSkew
  Timeout,    \* the HTTP client's timeout
  Faults,     \* what may go wrong: see the actions that mention it
  MaxNow,     \* bound on the clock
  MaxTokens   \* bound on the number of tokens Vault issues

ASSUME TimesAssumption ==
  /\ Leases \subseteq Nat /\ RenewSkew \in Nat /\ Timeout \in Nat
  /\ MaxNow \in Nat /\ MaxTokens \in Nat \ {0}

ASSUME NobodyAssumption == Nobody \notin Procs

None == 0      \* the empty token; as an expiry, one that never comes

maxPostAttempts == 2

VARIABLES
  auth,       \* the strategy newVaultAuth chose
  token,      \* vaultAuth.token
  expiry,     \* vaultAuth.expiry
  loginMu,    \* the goroutine that holds it
  pc,         \* where each goroutine is
  attempt,    \* the loop variable of post
  tok,        \* the token currentToken returned, or the login got
  now,        \* the clock
  since,      \* when the request in flight was sent
  issued,     \* Vault: the number of tokens it has issued, which are 1..issued
  lease,      \* Vault: the lease of each token
  ends,       \* Vault: when it forgets each token (None: never)
  revoked,    \* Vault: tokens revoked
  rejected,   \* tokens Vault has answered 403 to
  bad,        \* the token the first attempt of this call was rejected with
  out         \* how the goroutine's last call ended

cacheVars == <<token, expiry>>
vaultVars == <<issued, lease, ends, revoked, rejected>>
vars == <<auth, cacheVars, loginMu, pc, attempt, tok, now, since, vaultVars, bad, out>>

-----------------------------------------------------------------------------
(* newVaultAuth.                                                            *)

Config == [token : BOOLEAN, roleID : BOOLEAN, secretID : BOOLEAN, k8s : BOOLEAN]

\* Exactly one mode; an AppRole needs both halves of its credential.
newVaultAuth(c) ==
  LET hasAppRole == c.roleID \/ c.secretID
      modes == {m \in {"token", "approle", "k8s"} :
                  \/ m = "token" /\ c.token
                  \/ m = "approle" /\ hasAppRole
                  \/ m = "k8s" /\ c.k8s}
  IN  IF \A m \in {"token", "approle", "k8s"} : modes # {m} THEN "refused"
      ELSE IF hasAppRole /\ ~(c.roleID /\ c.secretID) THEN "refused"
      ELSE IF c.token THEN "static" ELSE "login"

\* A static token is one Vault issued before the process started.
Init ==
  /\ \E c \in Config : auth = newVaultAuth(c) /\ auth # "refused"
  /\ token = None /\ expiry = None
  /\ loginMu = Nobody
  /\ pc = [p \in Procs |-> "idle"]
  /\ attempt = [p \in Procs |-> 1]
  /\ tok = [p \in Procs |-> None]
  /\ now = 0
  /\ since = [p \in Procs |-> 0]
  /\ issued = IF auth = "static" THEN 1 ELSE 0
  /\ lease = [t \in 1..MaxTokens |-> 0]
  /\ ends = [t \in 1..MaxTokens |-> None]
  /\ revoked = {} /\ rejected = {}
  /\ bad = [p \in Procs |-> None]
  /\ out = [p \in Procs |-> "none"]

-----------------------------------------------------------------------------
(* currentToken.                                                            *)

\* freshToken and usableToken, each one critical section of mu.
Fresh  == token # None /\ (expiry = None \/ expiry > now + RenewSkew)
Usable == token # None /\ (expiry = None \/ now < expiry)

Goes(p, place) == pc' = [pc EXCEPT ![p] = place]

\* currentToken returns t, and post sends the Transit request with it.
Returns(p, t) ==
  /\ tok' = [tok EXCEPT ![p] = t]
  /\ since' = [since EXCEPT ![p] = now]
  /\ Goes(p, "do")

\* currentToken returns an error, which post returns.
CallEnds(p, how) ==
  /\ out' = [out EXCEPT ![p] = how]
  /\ tok' = [tok EXCEPT ![p] = None]
  /\ bad' = [bad EXCEPT ![p] = None]
  /\ attempt' = [attempt EXCEPT ![p] = 1]
  /\ since' = [since EXCEPT ![p] = 0]
  /\ Goes(p, "idle")

\* A goroutine calls Wrap or Unwrap.
post(p) ==
  /\ pc[p] = "idle"
  /\ Goes(p, "token")
  /\ out' = [out EXCEPT ![p] = "none"]
  /\ UNCHANGED <<auth, cacheVars, loginMu, attempt, tok, now, since, vaultVars, bad>>

\* The static token, or the cached one if it is fresh.
CheckFresh(p) ==
  /\ pc[p] = "token"
  /\ \/ auth = "static" /\ Returns(p, 1)
     \/ auth = "login" /\ Fresh /\ Returns(p, token)
     \/ auth = "login" /\ ~Fresh /\ Goes(p, "trylock") /\ UNCHANGED <<tok, since>>
  /\ UNCHANGED <<auth, cacheVars, loginMu, attempt, now, vaultVars, bad, out>>

TryLock(p) ==
  /\ pc[p] = "trylock"
  /\ IF loginMu = Nobody
     THEN loginMu' = p /\ Goes(p, "recheck")
     ELSE Goes(p, "usable") /\ UNCHANGED loginMu
  /\ UNCHANGED <<auth, cacheVars, attempt, tok, now, since, vaultVars, bad, out>>

\* Mutant: a goroutine that finds a login in flight always waits for it.
ServeUsable_Waits(p) ==
  /\ pc[p] = "usable"
  /\ Goes(p, "lock")
  /\ UNCHANGED <<auth, cacheVars, loginMu, attempt, tok, now, since, vaultVars, bad, out>>

\* A login is in flight: the cached token serves while it is usable.
ServeUsable(p) ==
  /\ pc[p] = "usable"
  /\ IF Usable THEN Returns(p, token)
     ELSE Goes(p, "lock") /\ UNCHANGED <<tok, since>>
  /\ UNCHANGED <<auth, cacheVars, loginMu, attempt, now, vaultVars, bad, out>>

Lock(p) ==
  /\ pc[p] = "lock" /\ loginMu = Nobody
  /\ loginMu' = p
  /\ Goes(p, "recheck")
  /\ UNCHANGED <<auth, cacheVars, attempt, tok, now, since, vaultVars, bad, out>>

\* Under the login lock: a concurrent login may have renewed the token; if
\* not, the login request goes out.
Recheck(p) ==
  /\ pc[p] = "recheck"
  /\ IF Fresh
     THEN Returns(p, token) /\ loginMu' = Nobody
     ELSE /\ Goes(p, "login") /\ UNCHANGED <<tok, loginMu>>
          /\ since' = [since EXCEPT ![p] = now]
  /\ UNCHANGED <<auth, cacheVars, attempt, now, vaultVars, bad, out>>

\* Vault issues a token, whose lease starts now.
VaultIssues(p) ==
  /\ pc[p] = "login" /\ issued < MaxTokens
  /\ \E l \in Leases :
       /\ issued' = issued + 1
       /\ lease' = [lease EXCEPT ![issued + 1] = l]
       /\ ends' = [ends EXCEPT ![issued + 1] = IF l = 0 THEN None ELSE now + l]
       /\ tok' = [tok EXCEPT ![p] = issued + 1]
  /\ Goes(p, "issued")
  /\ UNCHANGED <<auth, cacheVars, loginMu, attempt, now, since, revoked, rejected, bad, out>>

\* Mutant: a failed login is tried again until it succeeds.
LoginFails_Retries(p) ==
  /\ pc[p] \in {"login", "issued"}
  /\ "login" \in Faults \/ issued = MaxTokens
  /\ IF Usable
     THEN Returns(p, token) /\ loginMu' = Nobody
     ELSE Goes(p, "login") /\ since' = [since EXCEPT ![p] = now] /\ UNCHANGED <<tok, loginMu>>
  /\ UNCHANGED <<auth, cacheVars, attempt, now, vaultVars, bad, out>>

\* The login fails (no answer in time, an error status, no credential to send,
\* or the bound on tokens is reached): the cached token serves if it is usable.
LoginFails(p) ==
  /\ pc[p] \in {"login", "issued"}
  /\ "login" \in Faults \/ issued = MaxTokens
  /\ IF Usable
     THEN Returns(p, token) /\ UNCHANGED <<attempt, bad, out>>
     ELSE CallEnds(p, "error")
  /\ loginMu' = Nobody
  /\ UNCHANGED <<auth, cacheVars, now, vaultVars>>

\* The login succeeds.  vaultLogin counts the lease from the moment it has
\* read the answer.
LoginReturns(p) ==
  /\ pc[p] = "issued"
  /\ token' = tok[p]
  /\ expiry' = IF lease[tok[p]] = 0 THEN None ELSE now + lease[tok[p]]
  /\ loginMu' = Nobody
  /\ Returns(p, tok[p])
  /\ UNCHANGED <<auth, attempt, now, vaultVars, bad, out>>

-----------------------------------------------------------------------------
(* post: the answer to the Transit request, and reauth.                     *)

\* Vault knows token t.
Valid(t) == t \notin revoked /\ (ends[t] = None \/ now < ends[t])

\* Vault takes the token and serves the request.
Served(p) ==
  /\ pc[p] = "do" /\ Valid(tok[p])
  /\ CallEnds(p, "ok")
  /\ UNCHANGED <<auth, cacheVars, loginMu, now, vaultVars>>

\* No answer in time, or an error status other than 403.
RequestFails(p) ==
  /\ pc[p] = "do" /\ "request" \in Faults
  /\ CallEnds(p, "error")
  /\ UNCHANGED <<auth, cacheVars, loginMu, now, vaultVars>>

\* 403: Vault does not know the token, or its policy denies the request.
Forbidden(p) ==
  /\ pc[p] = "do"
  /\ ~Valid(tok[p]) \/ "denied" \in Faults
  /\ rejected' = rejected \union {tok[p]}
  /\ Goes(p, "forbidden")
  /\ UNCHANGED <<auth, cacheVars, loginMu, attempt, tok, now, since, issued, lease,
                 ends, revoked, bad, out>>

\* Mutant: the cache is dropped whatever it holds.
Reauth_DropsAny(p) ==
  /\ pc[p] = "forbidden"
  /\ IF attempt[p] < maxPostAttempts /\ auth = "login"
     THEN /\ token' = None /\ expiry' = None
          /\ attempt' = [attempt EXCEPT ![p] = attempt[p] + 1]
          /\ bad' = [bad EXCEPT ![p] = tok[p]]
          /\ Goes(p, "token")
          /\ UNCHANGED <<tok, since, out>>
     ELSE CallEnds(p, "forbidden") /\ UNCHANGED cacheVars
  /\ UNCHANGED <<auth, loginMu, now, vaultVars>>

\* Mutant: the rejected token stays in the cache.
Reauth_KeepsToken(p) ==
  /\ pc[p] = "forbidden"
  /\ IF attempt[p] < maxPostAttempts /\ auth = "login"
     THEN /\ attempt' = [attempt EXCEPT ![p] = attempt[p] + 1]
          /\ bad' = [bad EXCEPT ![p] = tok[p]]
          /\ Goes(p, "token")
          /\ UNCHANGED <<tok, since, out>>
     ELSE CallEnds(p, "forbidden")
  /\ UNCHANGED <<auth, cacheVars, loginMu, now, vaultVars>>

\* Mutant: one attempt more than maxPostAttempts.
Reauth_OneMore(p) ==
  /\ pc[p] = "forbidden"
  /\ IF attempt[p] <= maxPostAttempts /\ auth = "login"
     THEN /\ IF token = tok[p] THEN token' = None /\ expiry' = None
             ELSE UNCHANGED cacheVars
          /\ attempt' = [attempt EXCEPT ![p] = attempt[p] + 1]
          /\ bad' = [bad EXCEPT ![p] = tok[p]]
          /\ Goes(p, "token")
          /\ UNCHANGED <<tok, since, out>>
     ELSE CallEnds(p, "forbidden") /\ UNCHANGED cacheVars
  /\ UNCHANGED <<auth, loginMu, now, vaultVars>>

\* post after a 403: reauth drops the token if it is still the cached one and
\* the request is made once more; a second 403, or a static token, is an error.
Reauth(p) ==
  /\ pc[p] = "forbidden"
  /\ IF attempt[p] < maxPostAttempts /\ auth = "login"
     THEN /\ IF token = tok[p] THEN token' = None /\ expiry' = None
             ELSE UNCHANGED cacheVars
          /\ attempt' = [attempt EXCEPT ![p] = attempt[p] + 1]
          /\ bad' = [bad EXCEPT ![p] = tok[p]]
          /\ Goes(p, "token")
          /\ UNCHANGED <<tok, since, out>>
     ELSE CallEnds(p, "forbidden") /\ UNCHANGED cacheVars
  /\ UNCHANGED <<auth, loginMu, now, vaultVars>>

-----------------------------------------------------------------------------
(* Vault and the clock (external).                                          *)

Revoke ==
  /\ "revoked" \in Faults
  /\ \E t \in 1..issued : t \notin revoked /\ revoked' = revoked \union {t}
  /\ UNCHANGED <<auth, cacheVars, loginMu, pc, attempt, tok, now, since, issued, lease,
                 ends, rejected, bad, out>>

InFlight(p) == pc[p] \in {"do", "login", "issued"}

Waits(p) == pc[p] = "lock" /\ loginMu # Nobody

Tick ==
  /\ now < MaxNow
  /\ \A p \in Procs :
       \/ pc[p] = "idle" \/ Waits(p)
       \/ InFlight(p) /\ now < since[p] + Timeout
  /\ now' = now + 1
  /\ UNCHANGED <<auth, cacheVars, loginMu, pc, attempt, tok, since, vaultVars, bad, out>>

Step(p) ==
  \/ CheckFresh(p) \/ TryLock(p) \/ ServeUsable(p) \/ Recheck(p)
  \/ VaultIssues(p) \/ LoginFails(p) \/ LoginReturns(p)
  \/ Served(p) \/ RequestFails(p) \/ Forbidden(p) \/ Reauth(p)

Next ==
  \/ \E p \in Procs : post(p) \/ Step(p) \/ Lock(p)
  \/ Revoke
  \/ Tick

\* A goroutine that can run does; the HTTP client's Timeout ends every
\* request; sync.Mutex hands the lock to a waiter in the end, however often
\* others take it.
Fairness == \A p \in Procs : WF_vars(Step(p)) /\ SF_vars(Lock(p))

Spec == Init /\ [][Next]_vars /\ Fairness

-----------------------------------------------------------------------------
(* Properties.                                                              *)

Places == {"idle", "token", "trylock", "usable", "lock", "recheck", "login", "issued",
           "do", "forbidden"}

\* The types of all variables.
TypeOK ==
  /\ auth \in {"static", "login"}
  /\ token \in 0..issued /\ expiry \in Nat
  /\ loginMu \in Procs \union {Nobody}
  /\ pc \in [Procs -> Places]
  /\ attempt \in [Procs -> 1..maxPostAttempts]
  /\ tok \in [Procs -> 0..issued] /\ bad \in [Procs -> 0..issued]
  /\ now \in Nat /\ since \in [Procs -> Nat]
  /\ issued \in 0..MaxTokens
  /\ lease \in [1..MaxTokens -> Nat] /\ ends \in [1..MaxTokens -> Nat]
  /\ revoked \in SUBSET (1..MaxTokens) /\ rejected \in SUBSET (1..MaxTokens)
  /\ out \in [Procs -> {"none", "ok", "error", "forbidden"}]

\* The second attempt of a call is made with a token Vault issued after the
\* one it has just rejected: neither the cache of another goroutine, nor a
\* login that overtakes another, nor the fallback after a failed login, brings
\* the rejected token (or an older one) back.
RetryUsesANewerToken ==
  \A p \in Procs : pc[p] = "do" /\ attempt[p] = 2 => tok[p] > bad[p]

\* The cache loses a token only if Vault has rejected that very token: a late
\* 403 for an old token never throws away the one a login has just brought,
\* and the cache never goes back to an older token.
CacheLosesOnlyRejected ==
  [][token' # token => token' > token \/ (token' = None /\ token \in rejected)]_vars

\* A goroutine waits for another one's login only while the cache holds no
\* usable token (the comment on currentToken).
UsableTokenNeverWaits ==
  \A p \in Procs : Waits(p) /\ Usable => pc[loginMu] \notin {"login", "issued"}

\* With a healthy Vault every call succeeds, although leases end while calls,
\* logins and retries are in flight.
HealthyCallsSucceed ==
  \A p \in Procs : out[p] \in {"none", "ok"}

\* Every call of Wrap or Unwrap ends, even if others keep taking the login
\* lock and logins keep failing.
CallsEnd == \A p \in Procs : pc[p] # "idle" ~> pc[p] = "idle"
=============================================================================
