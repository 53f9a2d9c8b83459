--------------------------- MODULE VaultAuthProofs ---------------------------
(***************************************************************************)
(* Theorems about VaultAuth, for any number of goroutines, leases, tokens   *)
(* and ticks: the cache and the retry, who waits for a login, and that calls *)
(* to a healthy Vault succeed.                                              *)
(***************************************************************************)
EXTENDS VaultAuth, TLAPS

\* The goroutine that holds loginMu is the one between its acquisition and
\* its release.
LockInv ==
  \A p \in Procs : pc[p] \in {"recheck", "login", "issued"} <=> loginMu = p

\* A token that is on its way to the cache is newer than all others.
NewestInv ==
  \A p \in Procs : pc[p] = "issued" =>
    /\ tok[p] = issued /\ token < issued
    /\ \A q \in Procs : bad[q] < issued /\ (q # p => tok[q] < issued)

\* What a goroutine sends comes from the cache, or from before the cache was
\* emptied or renewed.
SentInv ==
  \A p \in Procs :
    /\ pc[p] \in {"do", "forbidden", "issued"} => tok[p] >= 1
    /\ pc[p] \in {"do", "forbidden"} /\ auth = "login" => token = None \/ tok[p] <= token
    /\ pc[p] = "forbidden" => tok[p] \in rejected

\* Between the two attempts of a call the cache is empty or newer than what
\* was rejected.
RetryInv ==
  \A p \in Procs :
    /\ attempt[p] = 2 => auth = "login" /\ pc[p] # "idle"
    /\ attempt[p] = 2 /\ pc[p] \notin {"do", "forbidden"} => token = None \/ token > bad[p]
    /\ attempt[p] = 2 /\ pc[p] \in {"do", "forbidden"} => tok[p] > bad[p]

\* A static token was issued, and nobody logs in.
StaticInv ==
  auth = "static" => /\ issued >= 1
                     /\ \A p \in Procs : pc[p] \in {"idle", "token", "do", "forbidden"}

\* The inductive invariant.
VInv == TypeOK /\ LockInv /\ NewestInv /\ SentInv /\ RetryInv /\ StaticInv

\* The invariant holds before the first call.
LEMMA InitVInv ==
  ASSUME Init
  PROVE  VInv
<1>1. auth \in {"static", "login"}
  BY Zenon DEF Init, newVaultAuth
<1>2. issued \in {0, 1} /\ (auth = "static" => issued = 1) /\ issued \in 0..MaxTokens
  BY TimesAssumption DEF Init
<1>3. TypeOK
  BY <1>1, <1>2, TimesAssumption DEF Init, TypeOK, None, maxPostAttempts, Places
<1>4. LockInv
  BY NobodyAssumption, Zenon DEF Init, LockInv
<1>5. NewestInv /\ SentInv /\ RetryInv
  BY DEF Init, NewestInv, SentInv, RetryInv
<1>6. StaticInv
  BY <1>2 DEF Init, StaticInv
<1> QED
  BY <1>3, <1>4, <1>5, <1>6 DEF VInv

\* The steps that change neither a token nor what Vault knows.
LEMMA QuietStep ==
  ASSUME VInv, NEW p \in Procs, post(p) \/ TryLock(p) \/ Lock(p)
  PROVE  VInv'
<1>1. /\ UNCHANGED <<auth, token, expiry, attempt, tok, now, since, issued, lease, ends, revoked,
                     rejected, bad>>
      /\ \/ pc[p] = "idle" /\ pc' = [pc EXCEPT ![p] = "token"] /\ loginMu' = loginMu
         \/ pc[p] = "trylock" /\ pc' = [pc EXCEPT ![p] = "usable"] /\ loginMu' = loginMu
         \/ /\ pc[p] \in {"trylock", "lock"} /\ loginMu = Nobody
            /\ pc' = [pc EXCEPT ![p] = "recheck"] /\ loginMu' = p
      /\ out' = out \/ out' = [out EXCEPT ![p] = "none"]
  BY Zenon DEF post, TryLock, Lock, Goes, cacheVars, vaultVars
<1>2. TypeOK'
  BY <1>1, Zenon DEF VInv, TypeOK, Places
<1>3. LockInv'
  BY <1>1, NobodyAssumption DEF VInv, TypeOK, LockInv
<1>4. NewestInv' /\ SentInv'
  BY <1>1, Zenon DEF VInv, TypeOK, NewestInv, SentInv
<1>5. RetryInv' /\ StaticInv'
  BY <1>1, Zenon DEF VInv, TypeOK, RetryInv, StaticInv
<1> QED
  BY <1>2, <1>3, <1>4, <1>5 DEF VInv

\* currentToken returns a cached (or the static) token, or goes on.
LEMMA TokenStep ==
  ASSUME VInv, NEW p \in Procs, CheckFresh(p) \/ ServeUsable(p) \/ Recheck(p)
  PROVE  VInv'
<1>1. /\ UNCHANGED <<auth, token, expiry, attempt, now, issued, lease, ends, revoked, rejected,
                     bad, out>>
      /\ pc[p] \in {"token", "usable", "recheck"}
      /\ loginMu' = loginMu \/ pc[p] = "recheck"
  BY Zenon DEF CheckFresh, ServeUsable, Recheck, Returns, Goes, cacheVars, vaultVars
<1>2. \/ /\ pc' = [pc EXCEPT ![p] = "do"] /\ loginMu' = IF pc[p] = "recheck" THEN Nobody ELSE loginMu
         /\ \E t \in 1..issued : /\ tok' = [tok EXCEPT ![p] = t]
                                 /\ auth = "static" \/ t = token
         /\ since' = [since EXCEPT ![p] = now]
      \/ /\ pc[p] = "token" /\ pc' = [pc EXCEPT ![p] = "trylock"] /\ UNCHANGED <<tok, loginMu, since>>
      \/ /\ pc[p] = "usable" /\ pc' = [pc EXCEPT ![p] = "lock"] /\ UNCHANGED <<tok, loginMu, since>>
      \/ /\ pc[p] = "recheck" /\ pc' = [pc EXCEPT ![p] = "login"] /\ UNCHANGED <<tok, loginMu>>
         /\ since' = [since EXCEPT ![p] = now]
  <2>1. token # None => token \in 1..issued
    BY DEF VInv, TypeOK, None
  <2>2. auth = "static" => 1 \in 1..issued
    BY DEF VInv, TypeOK, StaticInv
  <2>3. CASE CheckFresh(p)
    BY <2>1, <2>2, <2>3, Zenon DEF CheckFresh, Returns, Goes, Fresh
  <2>4. CASE ServeUsable(p)
    BY <2>1, <2>4, Zenon DEF ServeUsable, Returns, Goes, Usable
  <2>5. CASE Recheck(p)
    BY <2>1, <2>5, Zenon DEF Recheck, Returns, Goes, Fresh
  <2> QED  BY <2>3, <2>4, <2>5, Zenon
<1>3. TypeOK'
  <2>1. tok' \in [Procs -> 0..issued] /\ since' \in [Procs -> Nat]
    <3>1. tok \in [Procs -> 0..issued] /\ since \in [Procs -> Nat] /\ now \in Nat
      BY Zenon DEF VInv, TypeOK
    <3>2. issued \in Nat
      BY DEF VInv, TypeOK
    <3> QED  BY <1>2, <3>1, <3>2
  <2>2. /\ loginMu' \in Procs \union {Nobody}
        /\ pc' \in [Procs -> Places]
    BY <1>2, Zenon DEF VInv, TypeOK, Places
  <2> QED  BY <1>1, <2>1, <2>2, Zenon DEF VInv, TypeOK
<1>4. LockInv'
  BY <1>1, <1>2, NobodyAssumption, Zenon DEF VInv, TypeOK, LockInv
<1>5. NewestInv'
  <2> SUFFICES ASSUME NEW q \in Procs, pc'[q] = "issued"
               PROVE  /\ tok'[q] = issued /\ token < issued
                      /\ \A r \in Procs : bad[r] < issued /\ (r # q => tok'[r] < issued)
    BY <1>1, Zenon DEF NewestInv
  <2>1. pc \in [Procs -> Places] /\ tok \in [Procs -> 0..issued] /\ issued \in Nat
    BY DEF VInv, TypeOK
  <2>2. q # p /\ pc[q] = "issued"
    BY <1>2, <2>1, Zenon
  <2>3. auth # "static"
    BY <2>2 DEF VInv, StaticInv
  <2>4. /\ tok[q] = issued /\ token < issued
        /\ \A r \in Procs : bad[r] < issued /\ (r # q => tok[r] < issued)
    BY <2>2, Zenon DEF VInv, NewestInv
  <2>5. \A r \in Procs : tok'[r] = tok[r] \/ (r = p /\ tok'[r] = token)
    BY <1>2, <2>1, <2>3, Zenon
  <2>6. tok'[q] = tok[q]
    BY <2>2, <2>1, <1>2
  <2> QED  BY <2>2, <2>4, <2>5, <2>6
<1>6. SentInv' /\ RetryInv' /\ StaticInv'
  <2>1. /\ pc \in [Procs -> Places] /\ tok \in [Procs -> 0..issued] /\ issued \in Nat
        /\ token \in 0..issued
    BY DEF VInv, TypeOK
  <2>2. \A r \in Procs : r # p => pc'[r] = pc[r] /\ tok'[r] = tok[r]
    BY <1>2, <2>1, Zenon
  <2>3. \/ /\ pc'[p] = "do" /\ tok'[p] \in 1..issued /\ (auth = "static" \/ tok'[p] = token)
           /\ auth = "static" => pc[p] = "token"
        \/ pc'[p] \in {"trylock", "lock", "login"} /\ auth # "static"
    <3>1. auth = "static" => pc[p] = "token"
      BY <1>1 DEF VInv, StaticInv
    <3>2. pc'[p] = "trylock" => auth # "static"
      BY <1>1, <2>1, Zenon DEF CheckFresh, ServeUsable, Recheck, Returns, Goes
    <3> QED  BY <1>2, <2>1, <3>1, <3>2, Zenon
  <2>4. SentInv'
    BY <1>1, <2>1, <2>2, <2>3 DEF VInv, SentInv, None
  <2>5. RetryInv'
    BY <1>1, <2>1, <2>2, <2>3 DEF VInv, RetryInv, None
  <2>6. StaticInv'
    BY <1>1, <2>2, <2>3, Zenon DEF VInv, StaticInv
  <2> QED  BY <2>4, <2>5, <2>6, Zenon
<1> QED
  BY <1>3, <1>4, <1>5, <1>6, Zenon DEF VInv

\* Facts about the types used everywhere.
LEMMA Typed ==
  ASSUME VInv
  PROVE  /\ pc \in [Procs -> Places] /\ attempt \in [Procs -> {1, 2}]
         /\ issued \in Nat /\ issued <= MaxTokens /\ token \in 0..issued /\ expiry \in Nat /\ now \in Nat
         /\ tok \in [Procs -> 0..issued] /\ bad \in [Procs -> 0..issued]
         /\ since \in [Procs -> Nat] /\ MaxTokens \in Nat
<1>1. 1..maxPostAttempts = {1, 2}
  BY DEF maxPostAttempts
<1>2. attempt \in [Procs -> {1, 2}]
  BY <1>1 DEF VInv, TypeOK
<1> QED
  BY <1>2, TimesAssumption DEF VInv, TypeOK

\* A call ends: its goroutine forgets its tokens and, if it held the login
\* lock, releases it.
LEMMA CallEndsStep ==
  ASSUME VInv, NEW p \in Procs, NEW how \in {"ok", "error", "forbidden"}, CallEnds(p, how),
         loginMu' = IF pc[p] \in {"login", "issued"} THEN Nobody ELSE loginMu,
         pc[p] \in {"do", "forbidden", "login", "issued"},
         UNCHANGED <<auth, token, expiry, now, issued, lease, ends, revoked, rejected>>
  PROVE  VInv'
<1>1. /\ out' = [out EXCEPT ![p] = how] /\ tok' = [tok EXCEPT ![p] = 0]
      /\ bad' = [bad EXCEPT ![p] = 0] /\ attempt' = [attempt EXCEPT ![p] = 1]
      /\ since' = [since EXCEPT ![p] = 0] /\ pc' = [pc EXCEPT ![p] = "idle"]
  BY Zenon DEF CallEnds, Goes, None
<1>2. TypeOK'
  <2>1. /\ pc' \in [Procs -> Places] /\ attempt' \in [Procs -> 1..maxPostAttempts]
        /\ tok' \in [Procs -> 0..issued] /\ bad' \in [Procs -> 0..issued]
        /\ since' \in [Procs -> Nat]
    BY <1>1, Typed DEF Places, maxPostAttempts
  <2>2. /\ out' \in [Procs -> {"none", "ok", "error", "forbidden"}]
        /\ loginMu' \in Procs \union {Nobody}
    BY <1>1, Zenon DEF VInv, TypeOK
  <2> QED  BY <2>1, <2>2, Zenon DEF VInv, TypeOK
<1>3. \A q \in Procs : IF q = p
        THEN pc'[q] = "idle" /\ tok'[q] = 0 /\ bad'[q] = 0 /\ attempt'[q] = 1
        ELSE pc'[q] = pc[q] /\ tok'[q] = tok[q] /\ bad'[q] = bad[q] /\ attempt'[q] = attempt[q]
  BY <1>1, Typed, Zenon
<1>4. LockInv'
  BY <1>3, NobodyAssumption, Zenon DEF VInv, LockInv
<1>5. NewestInv'
  <2> SUFFICES ASSUME NEW q \in Procs, pc'[q] = "issued"
               PROVE  /\ tok'[q] = issued /\ token < issued
                      /\ \A r \in Procs : bad'[r] < issued /\ (r # q => tok'[r] < issued)
    BY Zenon DEF NewestInv
  <2>1. q # p /\ pc[q] = "issued" /\ tok'[q] = tok[q]
    BY <1>3
  <2>2. /\ tok[q] = issued /\ token < issued /\ tok[q] >= 1
        /\ \A r \in Procs : bad[r] < issued /\ (r # q => tok[r] < issued)
    BY <2>1, Zenon DEF VInv, NewestInv, SentInv
  <2>3. 0 < issued
    BY <2>2, Typed
  <2> QED  BY <1>3, <2>1, <2>2, <2>3, Zenon
<1>6. SentInv'
  BY <1>3, Zenon DEF VInv, SentInv
<1>7. RetryInv'
  BY <1>3 DEF VInv, RetryInv
<1>8. StaticInv'
  BY <1>3 DEF VInv, StaticInv
<1> QED
  BY <1>2, <1>4, <1>5, <1>6, <1>7, <1>8, Zenon DEF VInv

\* Vault issues a token.
LEMMA IssueStep ==
  ASSUME VInv, NEW p \in Procs, VaultIssues(p)
  PROVE  VInv'
<1>1. PICK l \in Leases :
        /\ pc[p] = "login" /\ issued < MaxTokens /\ issued' = issued + 1
        /\ lease' = [lease EXCEPT ![issued + 1] = l]
        /\ ends' = [ends EXCEPT ![issued + 1] = IF l = 0 THEN None ELSE now + l]
        /\ tok' = [tok EXCEPT ![p] = issued + 1] /\ pc' = [pc EXCEPT ![p] = "issued"]
        /\ UNCHANGED <<auth, token, expiry, loginMu, attempt, now, since, revoked, rejected, bad, out>>
  BY Zenon DEF VaultIssues, Goes, cacheVars
<1>2. TypeOK'
  <2>1. issued' \in 0..MaxTokens /\ l \in Nat /\ now \in Nat
    BY <1>1, Typed, TimesAssumption
  <2>2. lease' \in [1..MaxTokens -> Nat] /\ ends' \in [1..MaxTokens -> Nat]
    <3>1. lease \in [1..MaxTokens -> Nat] /\ ends \in [1..MaxTokens -> Nat]
      BY Zenon DEF VInv, TypeOK
    <3>2. (IF l = 0 THEN None ELSE now + l) \in Nat
      BY <2>1 DEF None
    <3> QED  BY <1>1, <2>1, <3>1, <3>2, Zenon
  <2>3. /\ token \in 0..issued' /\ bad \in [Procs -> 0..issued'] /\ tok' \in [Procs -> 0..issued']
        /\ pc' \in [Procs -> Places]
    BY <1>1, Typed DEF Places
  <2> QED  BY <1>1, <2>1, <2>2, <2>3, Zenon DEF VInv, TypeOK
<1>3. \A q \in Procs : IF q = p THEN pc'[q] = "issued" /\ tok'[q] = issued + 1
                       ELSE pc'[q] = pc[q] /\ tok'[q] = tok[q] /\ pc[q] # "issued"
  <2>1. \A q \in Procs : q # p => pc[q] # "issued"
    BY <1>1, Zenon DEF VInv, LockInv
  <2> QED  BY <1>1, <2>1, Typed, Zenon
<1>4. LockInv'
  BY <1>1, <1>3, Zenon DEF VInv, LockInv
<1>5. NewestInv'
  <2>1. \A q \in Procs : bad[q] < issued + 1 /\ tok[q] < issued + 1
    BY Typed
  <2>2. token < issued + 1
    BY Typed
  <2> QED  BY <1>1, <1>3, <2>1, <2>2, Zenon DEF NewestInv
<1>6. SentInv'
  <2>1. issued + 1 >= 1
    BY Typed
  <2> QED  BY <1>1, <1>3, <2>1 DEF VInv, SentInv
<1>7. RetryInv'
  BY <1>1, <1>3, Zenon DEF VInv, RetryInv
<1>8. StaticInv'
  BY <1>1, <1>3, Typed, Zenon DEF VInv, StaticInv
<1> QED
  BY <1>2, <1>4, <1>5, <1>6, <1>7, <1>8, Zenon DEF VInv

\* The login's token reaches the cache.
LEMMA LoginStep ==
  ASSUME VInv, NEW p \in Procs, LoginReturns(p)
  PROVE  VInv' /\ token' > token
<1>1. /\ pc[p] = "issued" /\ token' = tok[p] /\ loginMu' = Nobody
      /\ tok' = [tok EXCEPT ![p] = tok[p]] /\ since' = [since EXCEPT ![p] = now]
      /\ pc' = [pc EXCEPT ![p] = "do"]
      /\ UNCHANGED <<auth, attempt, now, issued, lease, ends, revoked, rejected, bad, out>>
  BY Zenon DEF LoginReturns, Returns, Goes, vaultVars
<1>2. /\ tok[p] = issued /\ token < issued /\ tok[p] >= 1
      /\ \A q \in Procs : bad[q] < issued /\ tok[q] <= issued
  <2>1. /\ tok[p] = issued /\ token < issued /\ tok[p] >= 1
        /\ \A q \in Procs : bad[q] < issued
    BY <1>1, Zenon DEF VInv, NewestInv, SentInv
  <2>2. \A q \in Procs : tok[q] <= issued
    BY Typed
  <2> QED  BY <2>1, <2>2, Zenon
<1>3. \A q \in Procs : /\ tok'[q] = tok[q]
                       /\ IF q = p THEN pc'[q] = "do" ELSE pc'[q] = pc[q] /\ pc[q] # "issued"
  <2>1. \A q \in Procs : q # p => pc[q] # "issued"
    BY <1>1, Zenon DEF VInv, LockInv
  <2> QED  BY <1>1, <2>1, Typed, Zenon
<1>4. TypeOK'
  <2>1. expiry' \in Nat
    <3>1. expiry' = IF lease[tok[p]] = 0 THEN None ELSE now + lease[tok[p]]
      BY DEF LoginReturns
    <3>2. lease[tok[p]] \in Nat
      <4>1. tok[p] \in 1..MaxTokens
        BY <1>2, Typed
      <4> QED  BY <4>1 DEF VInv, TypeOK
    <3> QED  BY <3>1, <3>2, Typed DEF None
  <2>2. /\ token' \in 0..issued /\ tok' \in [Procs -> 0..issued] /\ since' \in [Procs -> Nat]
        /\ pc' \in [Procs -> Places]
    BY <1>1, Typed, Zenon DEF Places
  <2> QED  BY <1>1, <2>1, <2>2, Zenon DEF VInv, TypeOK
<1>5. LockInv'
  BY <1>1, <1>3, NobodyAssumption, Zenon DEF VInv, LockInv
<1>6. NewestInv'
  BY <1>3, Zenon DEF NewestInv
<1>7. SentInv'
  BY <1>1, <1>2, <1>3 DEF VInv, SentInv
<1>8. RetryInv'
  BY <1>1, <1>2, <1>3, Zenon DEF VInv, RetryInv
<1>9. StaticInv'
  BY <1>1, <1>3, Zenon DEF VInv, StaticInv
<1> QED
  BY <1>1, <1>2, <1>4, <1>5, <1>6, <1>7, <1>8, <1>9, Zenon DEF VInv

\* The login fails.
LEMMA LoginFailsStep ==
  ASSUME VInv, NEW p \in Procs, LoginFails(p)
  PROVE  VInv'
<1>1. /\ pc[p] \in {"login", "issued"} /\ loginMu' = Nobody
      /\ UNCHANGED <<auth, token, expiry, now, issued, lease, ends, revoked, rejected>>
  BY Zenon DEF LoginFails, cacheVars, vaultVars
<1>2. CASE ~Usable
  BY <1>1, <1>2, CallEndsStep DEF LoginFails
<1>3. CASE Usable
  <2>1. /\ tok' = [tok EXCEPT ![p] = token] /\ since' = [since EXCEPT ![p] = now]
        /\ pc' = [pc EXCEPT ![p] = "do"] /\ UNCHANGED <<attempt, bad, out>>
        /\ token # 0
    BY <1>3, Zenon DEF LoginFails, Returns, Goes, Usable, None
  <2>2. \A q \in Procs : IF q = p THEN pc'[q] = "do" /\ tok'[q] = token
                         ELSE pc'[q] = pc[q] /\ tok'[q] = tok[q] /\ pc[q] # "issued"
    <3>1. \A q \in Procs : q # p => pc[q] # "issued"
      BY <1>1, Zenon DEF VInv, LockInv
    <3> QED  BY <2>1, <3>1, Typed
  <2>3. TypeOK'
    <3>1. /\ tok' \in [Procs -> 0..issued] /\ since' \in [Procs -> Nat] /\ pc' \in [Procs -> Places]
      BY <2>1, Typed, Zenon DEF Places
    <3> QED  BY <1>1, <2>1, <3>1, Zenon DEF VInv, TypeOK
  <2>4. LockInv'
    BY <1>1, <2>2, NobodyAssumption, Zenon DEF VInv, LockInv
  <2>5. NewestInv'
    BY <2>2, Zenon DEF NewestInv
  <2>6. SentInv'
    <3>1. token >= 1 /\ token <= token
      BY <2>1, Typed
    <3> QED  BY <1>1, <2>2, <3>1, Zenon DEF VInv, SentInv
  <2>7. RetryInv'
    BY <1>1, <2>1, <2>2, Zenon DEF VInv, RetryInv, None
  <2>8. StaticInv'
    BY <1>1, <2>2, Zenon DEF VInv, StaticInv
  <2> QED  BY <2>3, <2>4, <2>5, <2>6, <2>7, <2>8 DEF VInv
<1> QED
  BY <1>2, <1>3

\* Vault answers the Transit request.
LEMMA AnswerStep ==
  ASSUME VInv, NEW p \in Procs, Served(p) \/ RequestFails(p) \/ Forbidden(p)
  PROVE  VInv'
<1>1. CASE Served(p)
  BY <1>1, CallEndsStep, Zenon DEF Served, cacheVars, vaultVars
<1>2. CASE RequestFails(p)
  BY <1>2, CallEndsStep, Zenon DEF RequestFails, cacheVars, vaultVars
<1>3. CASE Forbidden(p)
  <2>1. /\ pc[p] = "do" /\ rejected' = rejected \union {tok[p]}
        /\ pc' = [pc EXCEPT ![p] = "forbidden"]
        /\ UNCHANGED <<auth, token, expiry, loginMu, attempt, tok, now, since, issued, lease,
                       ends, revoked, bad, out>>
    BY <1>3, Zenon DEF Forbidden, Goes, cacheVars
  <2>2. \A q \in Procs : pc'[q] = IF q = p THEN "forbidden" ELSE pc[q]
    BY <2>1, Typed
  <2>3. tok[p] \in 1..MaxTokens
    <3>1. tok[p] >= 1
      BY <2>1, Zenon DEF VInv, SentInv
    <3> QED  BY <3>1, Typed
  <2>4. TypeOK'
    <3>1. pc' \in [Procs -> Places] /\ rejected' \in SUBSET (1..MaxTokens)
      BY <2>1, <2>3, Zenon DEF VInv, TypeOK, Places
    <3> QED  BY <2>1, <3>1, Zenon DEF VInv, TypeOK
  <2>5. LockInv' /\ NewestInv'
    BY SMTT(30), <2>1, <2>2 DEF VInv, LockInv, NewestInv
  <2>6. SentInv'
    BY <2>1, <2>2, Zenon DEF VInv, SentInv
  <2>7. RetryInv' /\ StaticInv'
    BY SMTT(30), <2>1, <2>2 DEF VInv, RetryInv, StaticInv
  <2> QED  BY <2>4, <2>5, <2>6, <2>7, Zenon DEF VInv
<1> QED
  BY <1>1, <1>2, <1>3, Zenon

\* post after a 403.
LEMMA ReauthStep ==
  ASSUME VInv, NEW p \in Procs, Reauth(p)
  PROVE  /\ VInv'
         /\ token' # token => token' = None /\ token \in rejected
<1>1. /\ pc[p] = "forbidden"
      /\ UNCHANGED <<auth, loginMu, now, issued, lease, ends, revoked, rejected>>
  BY Zenon DEF Reauth, vaultVars
<1>2. CASE ~(attempt[p] < maxPostAttempts /\ auth = "login")
  BY <1>1, <1>2, CallEndsStep, Zenon DEF Reauth, cacheVars
<1>3. CASE attempt[p] < maxPostAttempts /\ auth = "login"
  <2>1. /\ attempt' = [attempt EXCEPT ![p] = attempt[p] + 1] /\ bad' = [bad EXCEPT ![p] = tok[p]]
        /\ pc' = [pc EXCEPT ![p] = "token"] /\ UNCHANGED <<tok, since, out>>
        /\ IF token = tok[p] THEN token' = 0 /\ expiry' = 0 ELSE token' = token /\ expiry' = expiry
    BY <1>3, Zenon DEF Reauth, Goes, cacheVars, None
  <2>2. attempt[p] = 1
    BY <1>3, Typed DEF maxPostAttempts
  <2>3. \A q \in Procs : IF q = p
          THEN pc'[q] = "token" /\ attempt'[q] = 2 /\ bad'[q] = tok[p]
          ELSE pc'[q] = pc[q] /\ attempt'[q] = attempt[q] /\ bad'[q] = bad[q]
    BY <2>1, <2>2, Typed
  <2>4. tok[p] \in rejected /\ tok[p] >= 1 /\ (token = None \/ tok[p] <= token)
    BY <1>1, <1>3 DEF VInv, SentInv
  <2>5. token' = 0 \/ (token' = token /\ token # tok[p])
    BY <2>1, Zenon
  <2>6. TypeOK'
    <3>1. /\ pc' \in [Procs -> Places] /\ bad' \in [Procs -> 0..issued] /\ expiry' \in Nat
          /\ token' \in 0..issued
      BY <2>1, Typed DEF Places
    <3>2. attempt' \in [Procs -> 1..maxPostAttempts]
      BY <2>1, <2>2, Typed DEF maxPostAttempts
    <3> QED  BY <1>1, <2>1, <3>1, <3>2, Zenon DEF VInv, TypeOK
  <2>7. LockInv'
    BY <1>1, <2>3, Zenon DEF VInv, LockInv
  <2>8. NewestInv'
    <3> SUFFICES ASSUME NEW q \in Procs, pc'[q] = "issued"
                 PROVE  /\ tok[q] = issued /\ token' < issued
                        /\ \A r \in Procs : bad'[r] < issued /\ (r # q => tok[r] < issued)
      BY <1>1, <2>1 DEF NewestInv
    <3>1. q # p /\ pc[q] = "issued"
      BY <2>3
    <3>2. /\ tok[q] = issued /\ token < issued
          /\ \A r \in Procs : bad[r] < issued /\ (r # q => tok[r] < issued)
      BY <3>1 DEF VInv, NewestInv
    <3>3. token' < issued
      BY <2>5, <3>2, Typed
    <3> QED  BY <2>3, <3>1, <3>2, <3>3, Zenon
  <2>9. SentInv'
    <3> SUFFICES ASSUME NEW q \in Procs
                 PROVE  /\ pc'[q] \in {"do", "forbidden", "issued"} => tok[q] >= 1
                        /\ pc'[q] \in {"do", "forbidden"} => token' = None \/ tok[q] <= token'
                        /\ pc'[q] = "forbidden" => tok[q] \in rejected
      BY <1>1, <2>1, Zenon DEF SentInv
    <3>1. pc'[q] = pc[q] \/ pc'[q] = "token"
      BY <2>3
    <3>2. /\ pc[q] \in {"do", "forbidden", "issued"} => tok[q] >= 1
          /\ pc[q] \in {"do", "forbidden"} => token = None \/ tok[q] <= token
          /\ pc[q] = "forbidden" => tok[q] \in rejected
      BY <1>3, Zenon DEF VInv, SentInv
    <3> QED  BY <2>5, <3>1, <3>2, Zenon DEF None
  <2>10. RetryInv'
    <3>1. token' = None \/ token' > tok[p]
      BY <2>4, <2>5, Typed DEF None
    <3>2. \A q \in Procs : q # p =>
            /\ attempt[q] = 2 => auth = "login" /\ pc[q] # "idle"
            /\ attempt[q] = 2 /\ pc[q] \notin {"do", "forbidden"} => token' = None \/ token' > bad[q]
            /\ attempt[q] = 2 /\ pc[q] \in {"do", "forbidden"} => tok[q] > bad[q]
      BY <2>5 DEF VInv, RetryInv, None
    <3> QED  BY <1>1, <1>3, <2>1, <2>3, <3>1, <3>2, Zenon DEF RetryInv
  <2>11. StaticInv'
    BY <1>1, <1>3, Zenon DEF StaticInv
  <2>12. token' # token => token' = None /\ token \in rejected
    BY <2>1, <2>4, Zenon DEF None
  <2> QED  BY <2>6, <2>7, <2>8, <2>9, <2>10, <2>11, <2>12, Zenon DEF VInv
<1> QED
  BY <1>2, <1>3, Zenon

\* The clock, a revocation, or nothing.
LEMMA WorldStep ==
  ASSUME VInv, Revoke \/ Tick \/ UNCHANGED vars
  PROVE  VInv' /\ token' = token
<1>1. /\ UNCHANGED <<auth, token, expiry, loginMu, pc, attempt, tok, since, issued, lease, ends,
                     rejected, bad, out>>
      /\ revoked' = revoked \/ \E t \in 1..issued : revoked' = revoked \union {t}
      /\ now' = now \/ now' = now + 1
  BY Zenon DEF Revoke, Tick, vars, cacheVars, vaultVars
<1>2. TypeOK'
  <2>1. revoked' \in SUBSET (1..MaxTokens)
    <3>1. revoked \in SUBSET (1..MaxTokens) /\ 1..issued \subseteq 1..MaxTokens
      BY Typed DEF VInv, TypeOK
    <3> QED  BY <1>1, <3>1, Zenon
  <2>2. now' \in Nat
    BY <1>1, Typed
  <2> QED  BY <1>1, <2>1, <2>2, Zenon DEF VInv, TypeOK
<1> QED
  BY <1>1, <1>2, Zenon DEF VInv, LockInv, NewestInv, SentInv, RetryInv, StaticInv

\* Every step keeps the invariant and treats the cache well.
LEMMA NextVInv ==
  ASSUME VInv, [Next]_vars
  PROVE  /\ VInv'
         /\ token' # token => token' > token \/ (token' = None /\ token \in rejected)
<1>1. CASE Revoke \/ Tick \/ UNCHANGED vars
  BY <1>1, WorldStep, Zenon
<1>2. ASSUME NEW p \in Procs, post(p) \/ Step(p) \/ Lock(p)
      PROVE  /\ VInv'
             /\ token' # token => token' > token \/ (token' = None /\ token \in rejected)
  <2>1. CASE post(p) \/ TryLock(p) \/ Lock(p)
    BY <2>1, QuietStep, Zenon DEF post, TryLock, Lock, cacheVars
  <2>2. CASE CheckFresh(p) \/ ServeUsable(p) \/ Recheck(p)
    BY <2>2, TokenStep, Zenon DEF CheckFresh, ServeUsable, Recheck, cacheVars
  <2>3. CASE VaultIssues(p)
    BY <2>3, IssueStep, Zenon DEF VaultIssues, cacheVars
  <2>4. CASE LoginFails(p)
    BY <2>4, LoginFailsStep, Zenon DEF LoginFails, cacheVars
  <2>5. CASE LoginReturns(p)
    BY <2>5, LoginStep
  <2>6. CASE Served(p) \/ RequestFails(p) \/ Forbidden(p)
    BY <2>6, AnswerStep, Zenon DEF Served, RequestFails, Forbidden, cacheVars
  <2>7. CASE Reauth(p)
    BY <2>7, ReauthStep, Zenon
  <2> QED  BY <1>2, <2>1, <2>2, <2>3, <2>4, <2>5, <2>6, <2>7, Zenon DEF Step
<1> QED
  BY <1>1, <1>2 DEF Next

\* After a 403, post never sends the rejected token or an older one again,
\* whatever the other goroutines do to the cache in between.
THEOREM RetryIsNewer == Spec => []RetryUsesANewerToken
<1>1. Init => VInv
  BY InitVInv
<1>2. VInv /\ [Next]_vars => VInv'
  BY NextVInv
<1>3. VInv => RetryUsesANewerToken
  BY DEF VInv, RetryInv, RetryUsesANewerToken
<1> QED
  BY <1>1, <1>2, <1>3, PTL DEF Spec

\* reauth and the logins never lose a token that Vault still takes: the cache
\* moves to a newer token, or drops one that was rejected.
THEOREM CacheIsMonotone == Spec => CacheLosesOnlyRejected
<1>1. Init => VInv
  BY InitVInv, Zenon
<1>2. VInv /\ [Next]_vars => VInv'
  BY NextVInv, Zenon
<1>3. VInv /\ [Next]_vars =>
        [token' # token => token' > token \/ (token' = None /\ token \in rejected)]_vars
  BY NextVInv
<1> QED
  BY <1>1, <1>2, <1>3, PTL DEF Spec, CacheLosesOnlyRejected

-----------------------------------------------------------------------------
(* Waiting, and calls to a healthy Vault.                                   *)

\* A request in flight, or just refused, is no older than the HTTP Timeout.
ClockInv ==
  \A p \in Procs : pc[p] \in {"login", "issued", "do", "forbidden"} =>
    since[p] <= now /\ now <= since[p] + Timeout

\* A login's answer carries one of Vault's leases, and Vault forgets the token
\* no earlier than that long after the login was sent.
IssuedInv ==
  \A p \in Procs : pc[p] = "issued" =>
    /\ lease[tok[p]] \in Leases
    /\ \/ ends[tok[p]] = None
       \/ lease[tok[p]] # 0 /\ since[p] + lease[tok[p]] <= ends[tok[p]]

\* While a goroutine waits for loginMu, a usable token is one that
\* cachedToken returned a moment ago, and nobody is logging in.
WaitInv ==
  (\E p \in Procs : pc[p] = "lock") /\ Usable =>
    Fresh /\ \A q \in Procs : pc[q] \notin {"login", "issued"}

\* The expiry in the cache is the end of the token, as Vault counts it, but
\* for the time the answer was on its way.
CacheInv ==
  token # None =>
    ends[token] = None \/ (expiry # None /\ expiry <= ends[token] + Timeout)

\* A token newer than the one of a call in flight outlasts that call and the
\* skew.
RenewedInv ==
  \A p \in Procs :
    pc[p] \in {"do", "forbidden"} /\ auth = "login" /\ token > tok[p] =>
      expiry = None \/ expiry > since[p] + Timeout + RenewSkew

\* The second attempt of a call begins with an empty cache or a fresh token.
SecondInv ==
  \A p \in Procs : attempt[p] = 2 /\ pc[p] \in {"token", "trylock", "usable"} =>
    token = None \/ Fresh

\* Vault still knows the token of a second attempt when the attempt ends.
LastsInv ==
  \A p \in Procs : pc[p] = "do" /\ (attempt[p] = 2 \/ auth = "static") =>
    ends[tok[p]] = None \/ ends[tok[p]] > since[p] + Timeout

\* Without faults only the first attempt of a call is refused.
HealthInv ==
  /\ \A p \in Procs : pc[p] = "forbidden" => attempt[p] = 1 /\ auth = "login"
  /\ auth = "static" => \A t \in 1..MaxTokens : ends[t] = None
  /\ revoked = {}

\* What a goroutine's step leaves alone: the clock, the strategy, what Vault
\* has revoked, the tokens issued so far, and the other goroutines.
LEMMA Others ==
  ASSUME VInv, NEW p \in Procs, post(p) \/ Step(p) \/ Lock(p)
  PROVE  /\ now' = now /\ auth' = auth /\ revoked' = revoked
         /\ \A q \in Procs : q # p =>
              /\ pc'[q] = pc[q] /\ tok'[q] = tok[q] /\ since'[q] = since[q]
              /\ attempt'[q] = attempt[q] /\ out'[q] = out[q]
         /\ \A t \in 1..issued : ends'[t] = ends[t] /\ lease'[t] = lease[t]
<1> USE Typed
<1>0. /\ out \in [Procs -> {"none", "ok", "error", "forbidden"}]
      /\ lease \in [1..MaxTokens -> Nat] /\ ends \in [1..MaxTokens -> Nat]
  BY Zenon DEF VInv, TypeOK
<1>1. CASE post(p)
  BY <1>0, <1>1, Zenon DEF post, Goes, vaultVars
<1>2. CASE CheckFresh(p)
  BY <1>0, <1>2, Zenon DEF CheckFresh, Returns, Goes, vaultVars
<1>3. CASE TryLock(p)
  BY <1>0, <1>3, Zenon DEF TryLock, Goes, vaultVars
<1>4. CASE ServeUsable(p)
  BY <1>0, <1>4, Zenon DEF ServeUsable, Returns, Goes, vaultVars
<1>5. CASE Lock(p)
  BY <1>0, <1>5 DEF Lock, Goes, vaultVars
<1>6. CASE Recheck(p)
  BY <1>0, <1>6, Zenon DEF Recheck, Returns, Goes, vaultVars
<1>7. CASE VaultIssues(p)
  <2>1. issued + 1 \notin 1..issued /\ 1..issued \subseteq 1..MaxTokens
    OBVIOUS
  <2> QED  BY <1>0, <1>7, <2>1, Zenon DEF VaultIssues, Goes
<1>8. CASE LoginFails(p)
  BY <1>0, <1>8 DEF LoginFails, CallEnds, Returns, Goes, vaultVars
<1>9. CASE LoginReturns(p)
  BY <1>0, <1>9, Zenon DEF LoginReturns, Returns, Goes, vaultVars
<1>10. CASE Served(p)
  BY <1>0, <1>10, Zenon DEF Served, CallEnds, Goes, vaultVars
<1>11. CASE RequestFails(p)
  BY <1>0, <1>11, Zenon DEF RequestFails, CallEnds, Goes, vaultVars
<1>12. CASE Forbidden(p)
  BY <1>0, <1>12, Zenon DEF Forbidden, Goes
<1>13. CASE Reauth(p)
  BY <1>0, <1>13 DEF Reauth, CallEnds, Goes, vaultVars
<1> QED
  BY <1>1, <1>2, <1>3, <1>4, <1>5, <1>6, <1>7, <1>8, <1>9, <1>10, <1>11, <1>12, <1>13, Zenon DEF Step

\* Every request is sent now, and only these steps send one or hear of one.
LEMMA OwnClock ==
  ASSUME VInv, NEW p \in Procs, post(p) \/ Step(p) \/ Lock(p)
  PROVE  \/ pc'[p] \notin {"login", "issued", "do", "forbidden"}
         \/ since'[p] = now
         \/ since'[p] = since[p] /\ pc[p] \in {"login", "issued", "do", "forbidden"}
<1> USE Typed
<1>1. CASE post(p)
  BY <1>1, Zenon DEF post, Goes
<1>2. CASE CheckFresh(p)
  BY <1>2, Zenon DEF CheckFresh, Returns, Goes
<1>3. CASE TryLock(p)
  BY <1>3, Zenon DEF TryLock, Goes
<1>4. CASE ServeUsable(p)
  BY <1>4, Zenon DEF ServeUsable, Returns, Goes
<1>5. CASE Lock(p)
  BY <1>5, Zenon DEF Lock, Goes
<1>6. CASE Recheck(p)
  BY <1>6, Zenon DEF Recheck, Returns, Goes
<1>7. CASE VaultIssues(p)
  BY <1>7, Zenon DEF VaultIssues, Goes
<1>8. CASE LoginFails(p)
  BY <1>8, Zenon DEF LoginFails, CallEnds, Returns, Goes
<1>9. CASE LoginReturns(p)
  BY <1>9, Zenon DEF LoginReturns, Returns, Goes
<1>10. CASE Served(p)
  BY <1>10, Zenon DEF Served, CallEnds, Goes
<1>11. CASE RequestFails(p)
  BY <1>11, Zenon DEF RequestFails, CallEnds, Goes
<1>12. CASE Forbidden(p)
  BY <1>12, Zenon DEF Forbidden, Goes
<1>13. CASE Reauth(p)
  BY <1>13, Zenon DEF Reauth, CallEnds, Goes
<1> QED
  BY <1>1, <1>2, <1>3, <1>4, <1>5, <1>6, <1>7, <1>8, <1>9, <1>10, <1>11, <1>12, <1>13, Zenon DEF Step

\* The HTTP Timeout bounds the age of every request.
LEMMA ClockNext ==
  ASSUME VInv, ClockInv, [Next]_vars
  PROVE  ClockInv'
<1> USE Typed, TimesAssumption
<1>1. CASE Revoke \/ UNCHANGED vars
  BY <1>1, Zenon DEF Revoke, vars, ClockInv
<1>2. CASE Tick
  <2>1. /\ pc' = pc /\ since' = since /\ now' = now + 1
        /\ \A p \in Procs : pc[p] \in {"login", "issued", "do", "forbidden"} =>
             now < since[p] + Timeout
    BY <1>2 DEF Tick, Waits, InFlight
  <2> QED  BY <2>1 DEF ClockInv
<1>3. ASSUME NEW p \in Procs, post(p) \/ Step(p) \/ Lock(p)
      PROVE  ClockInv'
  <2>1. now' = now /\ \A q \in Procs : q # p => pc'[q] = pc[q] /\ since'[q] = since[q]
    BY <1>3, Others, Zenon
  <2>2. \/ pc'[p] \notin {"login", "issued", "do", "forbidden"}
        \/ since'[p] = now
        \/ since'[p] = since[p] /\ pc[p] \in {"login", "issued", "do", "forbidden"}
    BY <1>3, OwnClock
  <2> QED  BY <2>1, <2>2 DEF ClockInv
<1> QED
  BY <1>1, <1>2, <1>3, Zenon DEF Next

\* Which step leads a goroutine where.
LEMMA Moves ==
  ASSUME VInv, NEW p \in Procs, post(p) \/ Step(p) \/ Lock(p)
  PROVE  /\ pc'[p] = "issued" => VaultIssues(p)
         /\ pc'[p] = "login" => Recheck(p) /\ ~Fresh
         /\ pc'[p] = "lock" => ServeUsable(p) /\ ~Usable
         /\ pc'[p] = "forbidden" => Forbidden(p)
         /\ pc'[p] = "trylock" => CheckFresh(p)
         /\ pc'[p] = "usable" => TryLock(p)
         /\ pc'[p] = "token" => post(p) \/ Reauth(p)
         /\ pc'[p] = "do" => \/ CheckFresh(p) \/ ServeUsable(p) \/ Recheck(p)
                             \/ LoginFails(p) \/ LoginReturns(p)
<1> USE Typed
<1>1. CASE post(p)
  BY <1>1, Zenon DEF post, Goes
<1>2. CASE CheckFresh(p)
  BY <1>2 DEF CheckFresh, Returns, Goes
<1>3. CASE TryLock(p)
  BY <1>3 DEF TryLock, Goes
<1>4. CASE ServeUsable(p)
  BY <1>4, Zenon DEF ServeUsable, Returns, Goes
<1>5. CASE Lock(p)
  BY <1>5 DEF Lock, Goes
<1>6. CASE Recheck(p)
  BY <1>6, Zenon DEF Recheck, Returns, Goes
<1>7. CASE VaultIssues(p)
  BY <1>7, Zenon DEF VaultIssues, Goes
<1>8. CASE LoginFails(p)
  BY <1>8, Zenon DEF LoginFails, CallEnds, Returns, Goes
<1>9. CASE LoginReturns(p)
  BY <1>9 DEF LoginReturns, Returns, Goes
<1>10. CASE Served(p)
  BY <1>10 DEF Served, CallEnds, Goes
<1>11. CASE RequestFails(p)
  BY <1>11, Zenon DEF RequestFails, CallEnds, Goes
<1>12. CASE Forbidden(p)
  BY <1>12, Zenon DEF Forbidden, Goes
<1>13. CASE Reauth(p)
  BY <1>13, Zenon DEF Reauth, CallEnds, Goes
<1> QED
  BY <1>1, <1>2, <1>3, <1>4, <1>5, <1>6, <1>7, <1>8, <1>9, <1>10, <1>11, <1>12, <1>13, Zenon DEF Step

\* Only a login that returns and a 403 touch the cache.
LEMMA CacheKept ==
  ASSUME VInv, NEW p \in Procs, post(p) \/ Step(p) \/ Lock(p), ~LoginReturns(p), ~Reauth(p)
  PROVE  token' = token /\ expiry' = expiry
BY Zenon DEF Step, post, Lock, CheckFresh, TryLock, ServeUsable, Recheck, VaultIssues, LoginFails,
       Served, RequestFails, Forbidden, cacheVars

\* What Vault grants with a token stays true until its login returns.
LEMMA IssuedNext ==
  ASSUME VInv, ClockInv, IssuedInv, [Next]_vars
  PROVE  IssuedInv'
<1> USE Typed, TimesAssumption
<1>1. CASE Revoke \/ Tick \/ UNCHANGED vars
  BY <1>1, Zenon DEF Revoke, Tick, vars, vaultVars, IssuedInv
<1>2. ASSUME NEW p \in Procs, post(p) \/ Step(p) \/ Lock(p)
      PROVE  IssuedInv'
  <2> SUFFICES ASSUME NEW q \in Procs, pc'[q] = "issued"
               PROVE  /\ lease'[tok'[q]] \in Leases
                      /\ \/ ends'[tok'[q]] = None
                         \/ /\ lease'[tok'[q]] # 0
                            /\ since'[q] + lease'[tok'[q]] <= ends'[tok'[q]]
    BY Zenon DEF IssuedInv
  <2>1. CASE q # p
    <3>1. pc[q] = "issued" /\ tok'[q] = tok[q] /\ since'[q] = since[q]
      BY <1>2, <2>1, Others, Zenon
    <3>2. tok[q] \in 1..issued
      BY <3>1 DEF VInv, SentInv
    <3>3. ends'[tok[q]] = ends[tok[q]] /\ lease'[tok[q]] = lease[tok[q]]
      BY <1>2, <3>2, Others, Zenon
    <3> QED  BY <3>1, <3>3, Zenon DEF IssuedInv
  <2>2. CASE q = p
    <3>1. VaultIssues(p)
      BY <1>2, <2>2, Moves, Zenon
    <3>2. PICK l \in Leases :
            /\ pc[p] = "login" /\ issued < MaxTokens /\ since' = since
            /\ lease' = [lease EXCEPT ![issued + 1] = l]
            /\ ends' = [ends EXCEPT ![issued + 1] = IF l = 0 THEN None ELSE now + l]
            /\ tok' = [tok EXCEPT ![p] = issued + 1]
      BY <3>1, Zenon DEF VaultIssues
    <3>3. issued + 1 \in 1..MaxTokens /\ l \in Nat
      BY <3>2
    <3>4. lease \in [1..MaxTokens -> Nat] /\ ends \in [1..MaxTokens -> Nat]
      BY Zenon DEF VInv, TypeOK
    <3>5. tok'[p] = issued + 1 /\ lease'[issued + 1] = l
          /\ ends'[issued + 1] = IF l = 0 THEN None ELSE now + l
      BY <3>2, <3>3, <3>4, Zenon
    <3>6. since[p] <= now
      BY <3>2, Zenon DEF ClockInv
    <3> QED  BY <2>2, <3>2, <3>3, <3>5, <3>6
  <2> QED  BY <2>1, <2>2, Zenon
<1> QED
  BY <1>1, <1>2, Zenon DEF Next

\* While a goroutine waits for the login lock, a usable token in the cache is
\* a fresh one and nobody logs in, provided that leases outlast renewSkew.
LEMMA WaitNext ==
  ASSUME VInv, IssuedInv, WaitInv, [Next]_vars,
         \A l \in Leases : l = 0 \/ l > RenewSkew
  PROVE  WaitInv'
<1> USE Typed, TimesAssumption
<1> SUFFICES ASSUME NEW q \in Procs, pc'[q] = "lock", Usable'
             PROVE  Fresh' /\ \A r \in Procs : pc'[r] \notin {"login", "issued"}
  BY Zenon DEF WaitInv
<1>1. CASE Revoke \/ UNCHANGED vars
  BY <1>1, Zenon DEF Revoke, vars, cacheVars, WaitInv, Usable, Fresh
<1>2. CASE Tick
  <2>1. pc' = pc /\ token' = token /\ expiry' = expiry /\ now' = now + 1
    BY <1>2, Zenon DEF Tick, cacheVars
  <2>2. Usable
    BY <2>1 DEF Usable
  <2>3. \A r \in Procs : pc[r] \notin {"login", "issued"}
    BY <2>1, <2>2, Zenon DEF WaitInv
  <2>4. loginMu \in Procs
    BY <1>2, <2>1, Zenon DEF Tick, Waits, InFlight, VInv, TypeOK
  <2>5. pc[loginMu] = "recheck"
    BY <2>3, <2>4 DEF VInv, LockInv
  <2> QED  BY <1>2, <2>4, <2>5 DEF Tick, Waits, InFlight
<1>3. ASSUME NEW p \in Procs, post(p) \/ Step(p) \/ Lock(p)
      PROVE  Fresh' /\ \A r \in Procs : pc'[r] \notin {"login", "issued"}
  <2>1. now' = now /\ \A r \in Procs : r # p => pc'[r] = pc[r]
    BY <1>3, Others, Zenon
  <2>2. CASE LoginReturns(p)
    <3>1. /\ pc[p] = "issued" /\ token' = tok[p] /\ pc'[p] = "do"
          /\ expiry' = IF lease[tok[p]] = 0 THEN None ELSE now + lease[tok[p]]
      BY <2>2 DEF LoginReturns, Returns, Goes
    <3>2. lease[tok[p]] \in Leases
      BY <3>1, Zenon DEF IssuedInv
    <3>3. tok[p] # None
      BY <3>1 DEF VInv, SentInv, None
    <3>4. expiry' = None \/ expiry' > now + RenewSkew
      <4>1. lease[tok[p]] \in Nat /\ (lease[tok[p]] = 0 \/ lease[tok[p]] > RenewSkew)
        BY <3>2, Zenon
      <4> QED  BY <3>1, <4>1
    <3>5. \A r \in Procs : r # p => pc[r] \notin {"login", "issued"}
      BY <3>1, Zenon DEF VInv, LockInv
    <3> QED  BY <2>1, <3>1, <3>3, <3>4, <3>5, Zenon DEF Fresh
  <2>3. CASE Reauth(p)
    <3>1. token' = None \/ (token' = token /\ expiry' = expiry)
      BY <2>3, Zenon DEF Reauth, cacheVars
    <3>2. token' = token /\ expiry' = expiry
      BY <3>1, Zenon DEF Usable
    <3>3. pc'[p] \in {"token", "idle"} /\ Usable
      BY <2>1, <2>3, <3>2, Zenon DEF Reauth, CallEnds, Goes, Usable
    <3>4. pc[q] = "lock"
      BY <2>1, <3>3, Zenon
    <3> QED  BY <2>1, <3>2, <3>3, <3>4, Zenon DEF WaitInv, Fresh
  <2>4. CASE ~LoginReturns(p) /\ ~Reauth(p)
    <3>1. token' = token /\ expiry' = expiry /\ Usable
      BY <1>3, <2>1, <2>4, CacheKept, Zenon DEF Usable
    <3>2. pc'[p] # "lock"
      BY <1>3, <3>1, Moves, Zenon
    <3>3. pc[q] = "lock"
      BY <2>1, <3>2
    <3>4. Fresh /\ \A r \in Procs : pc[r] \notin {"login", "issued"}
      BY <3>1, <3>3 DEF WaitInv
    <3>5. pc'[p] \notin {"login", "issued"}
      BY <1>3, <3>4, Moves, Zenon DEF VaultIssues
    <3> QED  BY <2>1, <3>1, <3>4, <3>5, Zenon DEF Fresh
  <2> QED  BY <2>2, <2>3, <2>4, Zenon
<1> QED
  BY <1>1, <1>2, <1>3 DEF Next

\* What the login brings to the cache, and when it was sent.
LEMMA LoginBrings ==
  ASSUME VInv, ClockInv, IssuedInv, NEW p \in Procs, LoginReturns(p)
  PROVE  LET l == lease[tok[p]] IN
         /\ pc[p] = "issued" /\ pc'[p] = "do" /\ auth = "login" /\ tok[p] \in 1..issued
         /\ token' = tok[p] /\ tok'[p] = tok[p] /\ since'[p] = now
         /\ l \in Leases /\ l \in Nat /\ ends[tok[p]] \in Nat
         /\ expiry' = IF l = 0 THEN 0 ELSE now + l
         /\ since[p] <= now /\ now <= since[p] + Timeout
         /\ ends[tok[p]] = 0 \/ (l # 0 /\ since[p] + l <= ends[tok[p]])
<1> USE Typed, TimesAssumption
<1>1. /\ pc[p] = "issued" /\ token' = tok[p] /\ pc'[p] = "do" /\ tok'[p] = tok[p]
      /\ since'[p] = now
      /\ expiry' = IF lease[tok[p]] = 0 THEN None ELSE now + lease[tok[p]]
  BY Zenon DEF LoginReturns, Returns, Goes
<1>2. tok[p] \in 1..issued /\ auth = "login"
  <2>1. tok[p] >= 1
    BY <1>1, Zenon DEF VInv, SentInv
  <2>2. auth # "static"
    BY <1>1, Zenon DEF VInv, StaticInv
  <2>3. auth \in {"static", "login"}
    BY Zenon DEF VInv, TypeOK
  <2> QED  BY <2>1, <2>2, <2>3
<1>3. ends[tok[p]] \in Nat
  <2>1. tok[p] \in 1..MaxTokens
    BY <1>2
  <2> QED  BY <2>1, Zenon DEF VInv, TypeOK
<1>4. since[p] <= now /\ now <= since[p] + Timeout
  BY <1>1, Zenon DEF ClockInv
<1>5. /\ lease[tok[p]] \in Leases
      /\ ends[tok[p]] = 0 \/ (lease[tok[p]] # 0 /\ since[p] + lease[tok[p]] <= ends[tok[p]])
  BY <1>1, Zenon DEF IssuedInv, None
<1>6. lease[tok[p]] \in Nat
  BY <1>5, Zenon
<1> QED
  BY <1>1, <1>2, <1>3, <1>4, <1>5, <1>6, Zenon DEF None

\* The cache believes in a token for at most Timeout longer than Vault does.
LEMMA CacheNext ==
  ASSUME VInv, ClockInv, IssuedInv, CacheInv, [Next]_vars
  PROVE  CacheInv'
<1> USE Typed, TimesAssumption DEF None
<1>1. CASE Revoke \/ Tick \/ UNCHANGED vars
  BY <1>1, Zenon DEF Revoke, Tick, vars, vaultVars, cacheVars, CacheInv
<1>2. ASSUME NEW p \in Procs, post(p) \/ Step(p) \/ Lock(p)
      PROVE  CacheInv'
  <2>1. \A t \in 1..issued : ends'[t] = ends[t]
    BY <1>2, Others, Zenon
  <2>2. CASE LoginReturns(p)
    <3> DEFINE l == lease[tok[p]]
               e == ends[tok[p]]
    <3>1. /\ tok[p] \in 1..issued /\ token' = tok[p] /\ l \in Nat /\ e \in Nat
          /\ expiry' = (IF l = 0 THEN 0 ELSE now + l)
          /\ now <= since[p] + Timeout
          /\ e = 0 \/ (l # 0 /\ since[p] + l <= e)
      BY <2>2, LoginBrings, Zenon
    <3>2. ends'[token'] = e
      BY <2>1, <3>1, Zenon
    <3> HIDE DEF l, e
    <3>3. e = 0 \/ (expiry' # 0 /\ expiry' <= e + Timeout)
      BY <3>1
    <3> QED  BY <3>2, <3>3, Zenon DEF CacheInv
  <2>3. CASE ~LoginReturns(p)
    <3>1. token' = 0 \/ (token' = token /\ expiry' = expiry)
      BY <1>2, <2>3, CacheKept, Zenon DEF Reauth, cacheVars
    <3>2. token = 0 \/ token \in 1..issued
      OBVIOUS
    <3> QED  BY <2>1, <3>1, <3>2, Zenon DEF CacheInv
  <2> QED  BY <2>2, <2>3
<1> QED
  BY <1>1, <1>2 DEF Next

\* A token that reaches the cache while a request with an older one is in
\* flight stays fresh until that request's Timeout.
LEMMA RenewedNext ==
  ASSUME VInv, ClockInv, IssuedInv, RenewedInv, [Next]_vars,
         \A l \in Leases : l = 0 \/ l > RenewSkew + Timeout
  PROVE  RenewedInv'
<1> USE Typed, TimesAssumption DEF None
<1>1. CASE Revoke \/ Tick \/ UNCHANGED vars
  BY <1>1, Zenon DEF Revoke, Tick, vars, cacheVars, RenewedInv
<1>2. ASSUME NEW p \in Procs, post(p) \/ Step(p) \/ Lock(p)
      PROVE  RenewedInv'
  <2> SUFFICES ASSUME NEW q \in Procs, pc'[q] \in {"do", "forbidden"}, auth = "login",
                      token' > tok'[q]
               PROVE  expiry' = 0 \/ expiry' > since'[q] + Timeout + RenewSkew
    BY <1>2, Others, Zenon DEF RenewedInv
  <2>1. CASE q = p
    <3>1. CASE pc'[p] = "forbidden"
      <4>1. pc[p] = "do" /\ UNCHANGED <<token, expiry, tok, since>>
        BY <1>2, <3>1, Moves, Zenon DEF Forbidden, cacheVars
      <4> QED  BY <2>1, <4>1, Zenon DEF RenewedInv
    <3>2. CASE pc'[p] = "do"
      <4>1. \/ CheckFresh(p) \/ ServeUsable(p) \/ Recheck(p)
            \/ LoginFails(p) \/ LoginReturns(p)
        BY <1>2, <3>2, Moves, Zenon
      <4>2. CASE CheckFresh(p)
        BY <2>1, <3>2, <4>2 DEF CheckFresh, Returns, Goes, cacheVars
      <4>3. CASE ServeUsable(p)
        BY <2>1, <3>2, <4>3 DEF ServeUsable, Returns, Goes, cacheVars
      <4>4. CASE Recheck(p)
        BY <2>1, <3>2, <4>4 DEF Recheck, Returns, Goes, cacheVars
      <4>5. CASE LoginFails(p)
        BY <2>1, <3>2, <4>5 DEF LoginFails, Returns, CallEnds, Goes, cacheVars
      <4>6. CASE LoginReturns(p)
        BY <2>1, <4>6, LoginBrings
      <4> QED  BY <4>1, <4>2, <4>3, <4>4, <4>5, <4>6, Zenon
    <3> QED  BY <2>1, <3>1, <3>2
  <2>2. CASE q # p
    <3>1. pc[q] = pc'[q] /\ tok'[q] = tok[q] /\ since'[q] = since[q]
      BY <1>2, <2>2, Others, Zenon
    <3>2. CASE LoginReturns(p)
      <4> DEFINE l == lease[tok[p]]
      <4>1. l \in Leases /\ l \in Nat /\ expiry' = IF l = 0 THEN 0 ELSE now + l
        BY <3>2, LoginBrings, Zenon
      <4>2. l = 0 \/ l > RenewSkew + Timeout
        BY <4>1, Zenon
      <4>3. since[q] <= now /\ since[q] \in Nat
        BY <3>1, Zenon DEF ClockInv
      <4> HIDE DEF l
      <4> QED  BY <3>1, <4>1, <4>2, <4>3
    <3>3. CASE ~LoginReturns(p)
      <4>1. token' = 0 \/ (token' = token /\ expiry' = expiry)
        BY <1>2, <3>3, CacheKept, Zenon DEF Reauth, cacheVars
      <4>2. tok[q] \in Nat
        OBVIOUS
      <4>3. token' = token /\ expiry' = expiry
        BY <3>1, <4>1, <4>2
      <4> QED  BY <3>1, <4>3 DEF RenewedInv
    <3> QED  BY <3>2, <3>3
  <2> QED  BY <2>1, <2>2
<1> QED
  BY <1>1, <1>2 DEF Next

\* Between its two attempts a call finds the cache empty or fresh.
LEMMA SecondNext ==
  ASSUME VInv, ClockInv, IssuedInv, RenewedInv, SecondInv, [Next]_vars,
         \A l \in Leases : l = 0 \/ l > RenewSkew + Timeout
  PROVE  SecondInv'
<1> USE Typed, TimesAssumption DEF None
<1> DEFINE Between == {"token", "trylock", "usable"}
<1> SUFFICES ASSUME NEW q \in Procs, attempt'[q] = 2, pc'[q] \in Between
             PROVE  token' = 0 \/ Fresh'
  BY DEF SecondInv
<1>1. CASE Revoke \/ UNCHANGED vars
  BY <1>1, Zenon DEF Revoke, vars, cacheVars, SecondInv, Fresh
<1>2. CASE Tick
  BY <1>2 DEF Tick, Waits, InFlight
<1>3. ASSUME NEW p \in Procs, post(p) \/ Step(p) \/ Lock(p)
      PROVE  token' = 0 \/ Fresh'
  <2>1. now' = now
    BY <1>3, Others
  <2>2. CASE LoginReturns(p)
    <3> DEFINE l == lease[tok[p]]
    <3>1. /\ l \in Leases /\ l \in Nat /\ expiry' = (IF l = 0 THEN 0 ELSE now + l)
          /\ token' = tok[p] /\ tok[p] \in 1..issued
      BY <2>2, LoginBrings, Zenon
    <3>2. l = 0 \/ l > RenewSkew + Timeout
      BY <3>1, Zenon
    <3> HIDE DEF l
    <3>3. expiry' = 0 \/ expiry' > now + RenewSkew
      BY <3>1, <3>2
    <3> QED  BY <2>1, <3>1, <3>3, Zenon DEF Fresh
  <2>3. CASE Reauth(p) /\ q = p
    <3>1. /\ pc[p] = "forbidden" /\ auth = "login"
          /\ token' = 0 \/ (token' = token /\ expiry' = expiry /\ token # tok[p])
      BY <2>3, Zenon DEF Reauth, CallEnds, Goes, cacheVars
    <3>2. token = 0 \/ tok[p] <= token
      BY <3>1, Zenon DEF VInv, SentInv
    <3>3. now <= since[p] + Timeout
      BY <3>1 DEF ClockInv
    <3>4. token > tok[p] => expiry = 0 \/ expiry > since[p] + Timeout + RenewSkew
      BY <3>1, Zenon DEF RenewedInv
    <3>5. CASE token' # 0
      <4>1. token > tok[p] /\ token # 0
        BY <3>1, <3>2, <3>5
      <4>2. expiry = 0 \/ expiry > now + RenewSkew
        BY <3>3, <3>4, <4>1
      <4> QED  BY <2>1, <3>1, <3>5, <4>1, <4>2, Zenon DEF Fresh
    <3> QED  BY <3>5
  <2>4. CASE ~LoginReturns(p) /\ ~(Reauth(p) /\ q = p)
    <3>1. token' = 0 \/ (token' = token /\ expiry' = expiry)
      BY <1>3, <2>4, CacheKept, Zenon DEF Reauth, cacheVars
    <3>2. attempt[q] = 2 /\ pc[q] \in Between
      <4>1. CASE q # p
        BY <1>3, <4>1, Others, Zenon
      <4>2. CASE q = p
        <5>1. post(p) \/ CheckFresh(p) \/ TryLock(p)
          BY <1>3, <2>4, <4>2, Moves, Zenon
        <5>2. ~post(p)
          BY <4>2, Zenon DEF post, VInv, RetryInv
        <5> QED  BY <4>2, <5>1, <5>2, Zenon DEF CheckFresh, TryLock
      <4> QED  BY <4>1, <4>2, Zenon
    <3>3. token = 0 \/ Fresh
      BY <3>2, Zenon DEF SecondInv
    <3> QED  BY <2>1, <3>1, <3>3 DEF Fresh
  <2> QED  BY <2>2, <2>3, <2>4, Zenon
<1> QED
  BY <1>1, <1>2, <1>3, Zenon DEF Next

\* A fresh token outlives the request it is sent with.
LEMMA FreshLasts ==
  ASSUME VInv, CacheInv, Fresh, RenewSkew >= 2 * Timeout
  PROVE  token \in 1..issued /\ (ends[token] = 0 \/ ends[token] > now + Timeout)
<1> USE Typed, TimesAssumption DEF None
<1>1. token \in 1..issued
  BY DEF Fresh
<1>2. ends[token] \in Nat
  <2>1. token \in 1..MaxTokens
    BY <1>1
  <2> QED  BY <2>1, Zenon DEF VInv, TypeOK
<1>3. ends[token] = 0 \/ (expiry # 0 /\ expiry <= ends[token] + Timeout)
  BY DEF CacheInv, Fresh
<1>4. expiry = 0 \/ expiry > now + RenewSkew
  BY DEF Fresh
<1> QED
  BY <1>1, <1>2, <1>3, <1>4

\* What the last attempt of a call is sent with.
LEMMA LastSends ==
  ASSUME VInv, ClockInv, IssuedInv, CacheInv, SecondInv, HealthInv, Faults = {},
         issued < MaxTokens, RenewSkew >= 2 * Timeout,
         \A l \in Leases : l = 0 \/ l > RenewSkew + Timeout,
         NEW p \in Procs, post(p) \/ Step(p) \/ Lock(p), pc'[p] = "do",
         attempt'[p] = 2 \/ auth = "static"
  PROVE  /\ since'[p] = now /\ tok'[p] \in 1..issued
         /\ ends[tok'[p]] = 0 \/ ends[tok'[p]] > now + Timeout
<1> USE Typed, TimesAssumption DEF None
<1>1. CheckFresh(p) \/ ServeUsable(p) \/ Recheck(p) \/ LoginReturns(p)
  <2>1. ~LoginFails(p)
    BY DEF LoginFails
  <2> QED  BY <2>1, Moves, Zenon
<1>2. CASE CheckFresh(p) /\ auth = "static"
  <2>1. since'[p] = now /\ tok'[p] = 1
    BY <1>2, Zenon DEF CheckFresh, Returns
  <2>2. 1 \in 1..issued
    BY <1>2 DEF VInv, StaticInv
  <2>3. 1 \in 1..MaxTokens
    BY <2>2
  <2>4. ends[1] = 0
    BY <1>2, <2>3, Zenon DEF HealthInv
  <2> QED  BY <2>1, <2>2, <2>4, Zenon
<1>3. CASE (CheckFresh(p) /\ auth # "static") \/ ServeUsable(p) \/ Recheck(p)
  <2>1. since'[p] = now /\ tok'[p] = token /\ Fresh
    <3>1. CASE CheckFresh(p) /\ auth # "static"
      BY <3>1, Zenon DEF CheckFresh, Returns, Goes
    <3>2. CASE Recheck(p)
      BY <3>2 DEF Recheck, Returns, Goes
    <3>3. CASE ServeUsable(p)
      <4>1. /\ since'[p] = now /\ tok'[p] = token /\ token # 0 /\ pc[p] = "usable"
            /\ attempt' = attempt
        BY <3>3 DEF ServeUsable, Returns, Goes, Usable
      <4>2. auth # "static"
        BY <4>1, Zenon DEF VInv, StaticInv
      <4>3. Fresh
        BY <4>1, <4>2, Zenon DEF SecondInv
      <4> QED  BY <4>1, <4>3, Zenon
    <3> QED  BY <1>3, <3>1, <3>2, <3>3
  <2> QED  BY <2>1, FreshLasts, Zenon
<1>4. CASE LoginReturns(p)
  <2> DEFINE l == lease[tok[p]]
             e == ends[tok[p]]
  <2>1. /\ tok[p] \in 1..issued /\ tok'[p] = tok[p] /\ since'[p] = now
        /\ l \in Leases /\ l \in Nat /\ e \in Nat
        /\ since[p] <= now /\ now <= since[p] + Timeout
        /\ e = 0 \/ (l # 0 /\ since[p] + l <= e)
    BY <1>4, LoginBrings, Zenon
  <2>2. l = 0 \/ l > RenewSkew + Timeout
    BY <2>1, Zenon
  <2>3. e = ends[tok'[p]]
    BY <2>1, Zenon
  <2> HIDE DEF l, e
  <2>4. e = 0 \/ e > now + Timeout
    BY <2>1, <2>2
  <2> QED  BY <2>1, <2>3, <2>4, Zenon
<1> QED
  BY <1>1, <1>2, <1>3, <1>4, Zenon

\* Vault takes the token of a call's last attempt when it arrives, and so no
\* call fails.
LEMMA HealthNext ==
  ASSUME VInv, ClockInv, IssuedInv, CacheInv, SecondInv, LastsInv, HealthInv,
         HealthyCallsSucceed, [Next]_vars, Faults = {},
         issued < MaxTokens, RenewSkew >= 2 * Timeout,
         \A l \in Leases : l = 0 \/ l > RenewSkew + Timeout
  PROVE  LastsInv' /\ HealthInv' /\ HealthyCallsSucceed'
<1> USE Typed, TimesAssumption DEF None
<1>1. CASE Revoke
  BY <1>1, Zenon DEF Revoke
<1>2. CASE Tick \/ UNCHANGED vars
  BY <1>2, Zenon DEF Tick, vars, vaultVars, cacheVars, LastsInv, HealthInv, HealthyCallsSucceed
<1>3. ASSUME NEW p \in Procs, post(p) \/ Step(p) \/ Lock(p)
      PROVE  LastsInv' /\ HealthInv' /\ HealthyCallsSucceed'
  <2>1. /\ now' = now /\ auth' = auth /\ revoked' = revoked
        /\ \A q \in Procs : q # p =>
              /\ pc'[q] = pc[q] /\ tok'[q] = tok[q] /\ since'[q] = since[q]
              /\ attempt'[q] = attempt[q] /\ out'[q] = out[q]
        /\ \A t \in 1..issued : ends'[t] = ends[t]
    BY <1>3, Others, Zenon
  <2>2. LastsInv'
    <3> SUFFICES ASSUME NEW q \in Procs, pc'[q] = "do", attempt'[q] = 2 \/ auth = "static"
                 PROVE  ends'[tok'[q]] = 0 \/ ends'[tok'[q]] > since'[q] + Timeout
      BY <2>1 DEF LastsInv
    <3>1. CASE q = p
      <4>1. /\ since'[p] = now /\ tok'[p] \in 1..issued
            /\ ends[tok'[p]] = 0 \/ ends[tok'[p]] > now + Timeout
        BY <1>3, <3>1, LastSends, Zenon
      <4> QED  BY <2>1, <3>1, <4>1
    <3>2. CASE q # p
      <4>1. pc[q] = "do" /\ tok'[q] = tok[q] /\ since'[q] = since[q] /\ attempt'[q] = attempt[q]
        BY <2>1, <3>2
      <4>2. tok[q] \in 1..issued
        BY <4>1 DEF VInv, SentInv
      <4>3. ends[tok[q]] = 0 \/ ends[tok[q]] > since[q] + Timeout
        BY <4>1 DEF LastsInv
      <4> QED  BY <2>1, <4>1, <4>2, <4>3
    <3> QED  BY <3>1, <3>2
  <2>3. ASSUME Forbidden(p)
        PROVE  attempt'[p] = 1 /\ auth = "login"
    <3>1. pc[p] = "do" /\ ~Valid(tok[p]) /\ attempt' = attempt
      BY <2>3, Zenon DEF Forbidden
    <3>2. tok[p] \in 1..MaxTokens
      BY <3>1 DEF VInv, SentInv
    <3>3. ends[tok[p]] \in Nat
      BY <3>2, Zenon DEF VInv, TypeOK
    <3>4. ends[tok[p]] # 0 /\ ~(now < ends[tok[p]])
      BY <3>1 DEF Valid, HealthInv
    <3>5. now <= since[p] + Timeout
      BY <3>1 DEF ClockInv
    <3>6. ~(ends[tok[p]] = 0 \/ ends[tok[p]] > since[p] + Timeout)
      BY <3>3, <3>4, <3>5
    <3>7. attempt[p] # 2 /\ auth # "static"
      BY <3>1, <3>6, Zenon DEF LastsInv
    <3>8. auth \in {"static", "login"}
      BY DEF VInv, TypeOK
    <3> QED  BY <3>1, <3>7, <3>8
  <2>4. HealthInv'
    <3>1. \A q \in Procs : pc'[q] = "forbidden" => attempt'[q] = 1 /\ auth = "login"
      <4> TAKE q \in Procs
      <4>1. CASE q = p
        BY <1>3, <2>3, <4>1, Moves
      <4>2. CASE q # p
        BY <2>1, <4>2, Zenon DEF HealthInv
      <4> QED  BY <4>1, <4>2, Zenon
    <3>2. ASSUME auth = "static"
          PROVE  ends' = ends
      <4>1. pc[p] \in {"idle", "token", "do", "forbidden"}
        BY <3>2 DEF VInv, StaticInv
      <4>2. ~VaultIssues(p)
        BY <4>1 DEF VaultIssues
      <4> QED  BY <1>3, <4>2, Zenon DEF Step, post, Lock, CheckFresh, TryLock, ServeUsable, Recheck,
                 LoginFails, LoginReturns, Served, RequestFails, Forbidden, Reauth, vaultVars
    <3> QED  BY <2>1, <3>1, <3>2, Zenon DEF HealthInv
  <2>5. HealthyCallsSucceed'
    <3>1. out' = out \/ out'[p] \in {"none", "ok"}
      <4>0. out \in [Procs -> {"none", "ok", "error", "forbidden"}]
        BY Zenon DEF VInv, TypeOK
      <4>1. CASE post(p)
        BY <4>0, <4>1, Zenon DEF post
      <4>2. CASE Served(p)
        BY <4>0, <4>2, Zenon DEF Served, CallEnds
      <4>3. CASE Reauth(p)
        <5>1. attempt[p] < maxPostAttempts /\ auth = "login"
          BY <4>3 DEF Reauth, HealthInv, maxPostAttempts
        <5> QED  BY <4>3, <5>1, Zenon DEF Reauth
      <4>4. ~LoginFails(p) /\ ~RequestFails(p)
        BY DEF LoginFails, RequestFails
      <4> QED  BY <1>3, <4>1, <4>2, <4>3, <4>4, Zenon DEF Step, Lock, CheckFresh, TryLock, ServeUsable,
                 Recheck, VaultIssues, LoginReturns, Forbidden
    <3> QED  BY <2>1, <3>1, Zenon DEF HealthyCallsSucceed
  <2> QED  BY <2>2, <2>4, <2>5, Zenon
<1> QED
  BY <1>1, <1>2, <1>3 DEF Next

\* The types of the variables, for any number of goroutines and tokens.
THEOREM VaultTypeCorrect == Spec => []TypeOK
<1>1. Init => VInv
  BY InitVInv
<1>2. VInv /\ [Next]_vars => VInv'
  BY NextVInv
<1>3. VInv => TypeOK
  BY DEF VInv
<1> QED
  BY <1>1, <1>2, <1>3, PTL DEF Spec

\* currentToken waits for another goroutine's login only when the cache holds
\* nothing usable.  The leases must outlast renewSkew: a token that is due for
\* renewal as it arrives sends the next goroutine to login while others wait.
THEOREM UsableTokenNeverWaitsAlways ==
  ASSUME \A l \in Leases : l = 0 \/ l > RenewSkew
  PROVE  Spec => []UsableTokenNeverWaits
<1> DEFINE WInv == VInv /\ ClockInv /\ IssuedInv /\ WaitInv
<1>1. Init => WInv
  <2> SUFFICES ASSUME Init PROVE WInv
    OBVIOUS
  <2>1. VInv
    BY InitVInv
  <2>2. pc = [p \in Procs |-> "idle"]
    BY DEF Init
  <2> QED  BY <2>1, <2>2 DEF ClockInv, IssuedInv, WaitInv
<1>2. WInv /\ [Next]_vars => WInv'
  BY NextVInv, ClockNext, IssuedNext, WaitNext
<1>3. WInv => UsableTokenNeverWaits
  <2> SUFFICES ASSUME WInv, NEW p \in Procs, Waits(p), Usable
               PROVE  pc[loginMu] \notin {"login", "issued"}
    BY DEF UsableTokenNeverWaits
  <2>1. loginMu \in Procs
    BY Zenon DEF Waits, VInv, TypeOK
  <2> QED  BY <2>1, Zenon DEF WaitInv, Waits
<1> QED
  BY <1>1, <1>2, <1>3, PTL DEF Spec

\* With a healthy Vault no call of Wrap or Unwrap fails, however leases end
\* while calls, logins and retries are in flight.  The three constants must
\* leave room: renewSkew covers two HTTP timeouts (30 s and 10 s in vault.go),
\* and a lease outlasts renewSkew and one timeout.  The bound on tokens is not
\* the program's: the theorem is about the behaviours that stay below it.
THEOREM HealthyCallsSucceedAlways ==
  ASSUME Faults = {}, RenewSkew >= 2 * Timeout,
         \A l \in Leases : l = 0 \/ l > RenewSkew + Timeout
  PROVE  Spec /\ [](issued < MaxTokens) => []HealthyCallsSucceed
<1> DEFINE HInv == /\ VInv /\ ClockInv /\ IssuedInv /\ CacheInv /\ RenewedInv /\ SecondInv
                   /\ LastsInv /\ HealthInv /\ HealthyCallsSucceed
<1>1. Init => HInv
  <2> SUFFICES ASSUME Init PROVE HInv
    OBVIOUS
  <2>1. VInv
    BY InitVInv
  <2>2. /\ pc = [p \in Procs |-> "idle"] /\ token = None
        /\ out = [p \in Procs |-> "none"] /\ revoked = {}
        /\ ends = [t \in 1..MaxTokens |-> None]
    BY DEF Init
  <2> QED  BY <2>1, <2>2, Zenon DEF ClockInv, IssuedInv, CacheInv, RenewedInv, SecondInv, LastsInv,
             HealthInv, HealthyCallsSucceed
<1>2. HInv /\ issued < MaxTokens /\ [Next]_vars => HInv'
  BY NextVInv, ClockNext, IssuedNext, CacheNext, RenewedNext, SecondNext, HealthNext, Zenon
<1>3. HInv => HealthyCallsSucceed
  OBVIOUS
<1> QED
  BY <1>1, <1>2, <1>3, PTL DEF Spec
=============================================================================
