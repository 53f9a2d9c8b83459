------------------------------ MODULE Columns -------------------------------
(***************************************************************************)
(* The encrypted columns over their whole life: Keycloak writes, reads and  *)
(* searches them through replicas of the proxy, cmd/backfill encrypts and   *)
(* hashes the rows that were there before, and the operator mints and       *)
(* rotates the keys and restarts the replicas.                              *)
(*                                                                         *)
(* A row has at most one column of each kind a field set knows: EMAIL       *)
(* (searched: deterministic, lowered, with a blind index), SECRET (not      *)
(* searched) and VALUE, an attribute, which is encrypted or not by the name *)
(* it is written with.  A statement that Keycloak sends runs as one step;   *)
(* which plan it runs under is the subject of modules Session and           *)
(* Statements.                                                              *)
(***************************************************************************)
EXTENDS Cipher, Sequences, FiniteSets

CONSTANTS
  Cols,           \* the columns of the configured field set
  Rows,
  Replicas,       \* proxy processes
  Inputs,         \* what Keycloak's users enter
  Legacy,         \* what rows held before the migration
  DEKSetFile,     \* replicas with KKP_DEKSET_FILE configured
  BlindIndexed,   \* the rule of EMAIL names a blind-index column
  Versions,       \* values the operator gives to -key-version
  Online,         \* backfill runs while Keycloak is up
  Faults,         \* "crash" of the backfill, "short" SELECTs of it, "leak" of rows
                  \* read without a plan
  MaxKeys,        \* bound on the keys minted
  MaxKEK,         \* bound on KEK rotations
  MaxMishaps      \* bound on the three together

ASSUME ColumnsAssumption ==
  /\ Cols \subseteq {"EMAIL", "SECRET", "VALUE"} /\ (BlindIndexed => "EMAIL" \in Cols)
  /\ DEKSetFile \subseteq Replicas /\ BlindIndexed \in BOOLEAN
  /\ Online \in BOOLEAN /\ MaxKeys \in Nat /\ MaxKEK \in Nat /\ MaxMishaps \in Nat
  /\ Versions \subseteq Nat \ {0}

\* What a column may hold.
Kinds == {"null", "text", "escaped", "malformed", "lowered", "envelope"}

\* Texts are texts, and nobody enters an envelope in lower case.  What rows
\* held before the migration does not begin with the sentinel.
ASSUME ValuesAssumption ==
  /\ \A v \in Inputs \union Legacy :
       /\ v.kind \in Kinds
       /\ v.kind = "text" => v.of \in Texts
       /\ v.kind = "lowered" => v.of.kind # "envelope"
  /\ \A v \in Legacy : ~HasSentinel(v)

VARIABLES
  db,       \* the stored values
  hash,     \* the blind-index column of EMAIL
  truth,    \* what Keycloak last wrote, or the legacy value
  keycloak, \* Keycloak is up
  held,     \* the value Keycloak read last
  kek,      \* the KEK of the static KMS
  file,     \* dekset.json
  minted,   \* keys minted so far
  cipher,   \* the cipher of each replica, NoCipher when it is down
  task,     \* what backfill is doing
  tcipher,  \* its cipher
  todo,     \* columns it has not come to
  batch,    \* rows it has selected and not yet rewritten, with their values
  done,     \* the last encrypt-rows reported success
  cut,      \* history: a SELECT of the last encrypt-rows came back short
  mishaps   \* crashes, short SELECTs and leaks so far

rowVars == <<db, hash, truth>>
kcVars == <<keycloak, held>>
keyVars == <<kek, file, minted>>
endVars == <<done, cut>>
taskVars == <<task, tcipher, todo, batch, endVars>>
vars == <<rowVars, kcVars, keyVars, cipher, taskVars, mishaps>>

\* Mutant: the walk ends after the first column.
FixedColumns_First == <<"EMAIL">>

\* fs.Columns(), in its order: fixed columns only.
FixedColumns ==
  (IF "EMAIL" \in Cols THEN <<"EMAIL">> ELSE <<>>) \o (IF "SECRET" \in Cols THEN <<"SECRET">> ELSE <<>>)

Scheme(col) == IF col = "EMAIL" THEN "d" ELSE "n"

\* The associated data.  Reads, writes and backfill spell the column alike.
AAD(col) == col

Init ==
  /\ db \in [Rows -> [Cols -> Legacy]]
  /\ hash = [r \in Rows |-> NULL]
  /\ truth = db
  /\ keycloak = FALSE /\ held = NULL
  /\ kek = 1 /\ file = NoSet /\ minted = 0
  /\ cipher = [p \in Replicas |-> NoCipher]
  /\ task = "idle" /\ tcipher = NoCipher /\ todo = <<>> /\ batch = {}
  /\ done = FALSE /\ cut = FALSE
  /\ mishaps = 0

-----------------------------------------------------------------------------
(* The operator.                                                            *)

\* backfill generate-dekset, which overwrites the file.
runGenerate(version) ==
  /\ minted + 3 <= MaxKeys
  /\ file' = GenerateDEKSet(kek, version, minted + 1)
  /\ minted' = minted + 3
  /\ UNCHANGED <<rowVars, kcVars, kek, cipher, taskVars, mishaps>>

\* The set is re-wrapped with RotateKEK and put in place with its KEK.
RotateFile ==
  /\ file # NoSet /\ kek < MaxKEK
  /\ file' = RotateKEK(kek, kek + 1, file) /\ file' # NoSet
  /\ kek' = kek + 1
  /\ UNCHANGED <<rowVars, kcVars, minted, cipher, taskVars, mishaps>>

\* buildCipher: from the file, or from a set minted for this process alone.
buildCipher(p) ==
  /\ cipher[p] = NoCipher
  /\ IF p \in DEKSetFile
     THEN /\ file # NoSet
          /\ cipher' = [cipher EXCEPT ![p] = OpenCipher(kek, file)]
          /\ UNCHANGED minted
     ELSE /\ minted + 3 <= MaxKeys
          /\ cipher' = [cipher EXCEPT ![p] = OpenCipher(kek, GenerateDEKSet(kek, 1, minted + 1))]
          /\ minted' = minted + 3
  /\ UNCHANGED <<rowVars, kcVars, kek, file, taskVars, mishaps>>

\* A replica stops or crashes.  The cipher is only in its memory.
ProxyStops(p) ==
  /\ cipher[p] # NoCipher
  /\ cipher' = [cipher EXCEPT ![p] = NoCipher]
  /\ UNCHANGED <<rowVars, kcVars, keyVars, taskVars, mishaps>>

\* Keycloak is stopped for the migration and started after it.
KeycloakStarts ==
  /\ ~keycloak /\ (Online \/ task = "idle")
  /\ keycloak' = TRUE
  /\ UNCHANGED <<rowVars, held, keyVars, cipher, taskVars, mishaps>>

KeycloakStops ==
  /\ keycloak
  /\ keycloak' = FALSE
  /\ UNCHANGED <<rowVars, held, keyVars, cipher, taskVars, mishaps>>

-----------------------------------------------------------------------------
(* The proxy's transformations.                                             *)

\* Mutant: an envelope is encrypted like any other value.
encryptParam_NoRefusal(c, col, v) ==
  IF v = NULL THEN NULL
  ELSE Encrypt(c, Scheme(col), IF col = "EMAIL" THEN NormalizeLowercase(v) ELSE v, AAD(col))

\* A bound PII parameter; one that already is an envelope is refused.
encryptParam(c, col, v) ==
  IF v = NULL THEN NULL
  ELSE IF Parse(v) = "envelope" THEN Failed
  ELSE Encrypt(c, Scheme(col), IF col = "EMAIL" THEN NormalizeLowercase(v) ELSE v, AAD(col))

\* An attribute value is encrypted if its name is one of PII, else escaped.
applyAttributeCondition(c, pii, v) ==
  IF pii THEN encryptParam(c, "VALUE", v) ELSE Escape(v)

\* The hash that is written beside an EMAIL, from the value before it is
\* encrypted; a cipher without the key fails the Bind.
appendBlindIndexWrites(c, v) ==
  IF c.index = 0 THEN Failed
  ELSE IF v = NULL THEN NULL
  ELSE Compute(c, NormalizeLowercase(v), AAD("EMAIL"))

\* The term of a search by blind index, already without its wildcards.
hashBlindIndexParam(c, v) ==
  IF c.index = 0 THEN Failed ELSE Compute(c, NormalizeLowercase(v), AAD("EMAIL"))

-----------------------------------------------------------------------------
(* Keycloak, through replica p.                                             *)

Request(p) == keycloak /\ cipher[p] # NoCipher

\* EncryptBind on INSERT or UPDATE, and the row it writes.  An error ends the
\* connection and nothing is written.
EncryptBind(p, r, col, pii, v) ==
  LET h == IF col = "EMAIL" /\ BlindIndexed THEN appendBlindIndexWrites(cipher[p], v) ELSE hash[r]
      s == IF col = "VALUE" THEN applyAttributeCondition(cipher[p], pii, v)
                            ELSE encryptParam(cipher[p], col, v)
  IN  /\ Request(p)
      /\ IF h = Failed \/ s = Failed
         THEN UNCHANGED rowVars
         ELSE /\ db' = [db EXCEPT ![r][col] = s]
              /\ hash' = [hash EXCEPT ![r] = h]
              /\ truth' = [truth EXCEPT ![r][col] = v]
      /\ UNCHANGED <<keycloak, held, keyVars, cipher, taskVars, mishaps>>

\* DecryptDataRow on a column with a plan.  An error ends the connection.
DecryptDataRow(p, r, col) ==
  LET v == Decrypt(cipher[p], db[r][col], AAD(col))
  IN  /\ Request(p)
      /\ held' = IF v = Failed THEN held ELSE v
      /\ UNCHANGED <<rowVars, keycloak, keyVars, cipher, taskVars, mishaps>>

\* A row without a plan, or an ambiguous column, is passed on as stored.
PassThrough(p, r, col) ==
  /\ "leak" \in Faults /\ Request(p) /\ mishaps < MaxMishaps
  /\ mishaps' = mishaps + 1
  /\ held' = db[r][col]
  /\ UNCHANGED <<rowVars, keycloak, keyVars, cipher, taskVars>>

-----------------------------------------------------------------------------
(* cmd/backfill, which opens the DEK set file and works on the database      *)
(* directly: for each column one SELECT and then one UPDATE per row.         *)

Offline == Online \/ ~keycloak

runEncrypt ==
  /\ task = "idle" /\ Offline /\ OpenCipher(kek, file) # NoCipher
  /\ task' = "encrypt" /\ tcipher' = OpenCipher(kek, file)
  /\ todo' = FixedColumns /\ batch' = {} /\ cut' = FALSE
  /\ UNCHANGED <<rowVars, kcVars, keyVars, cipher, done, mishaps>>

runHashRows ==
  /\ task = "idle" /\ Offline /\ BlindIndexed
  /\ OpenCipher(kek, file) # NoCipher /\ OpenCipher(kek, file).index # 0
  /\ task' = "hash" /\ tcipher' = OpenCipher(kek, file)
  /\ todo' = <<"EMAIL">> /\ batch' = {}
  /\ UNCHANGED <<rowVars, kcVars, keyVars, cipher, endVars, mishaps>>

\* Mutant: the SELECT takes every row that is not null.
Selected_Marked(col) ==
  {r \in Rows : db[r][col] # NULL /\ (task = "hash" => hash[r] = NULL)}

\* Mutant: the SELECT takes rows without a value, too.
Selected_Nulls(col) ==
  {r \in Rows : IF task = "encrypt" THEN ~HasSentinel(db[r][col]) ELSE hash[r] = NULL}

\* The rows the SELECT of a column returns.
Selected(col) ==
  {r \in Rows : /\ db[r][col] # NULL
                /\ IF task = "encrypt" THEN ~HasSentinel(db[r][col]) ELSE hash[r] = NULL}

\* The loop over rows.Next keeps the rows it got.
Batch(got) == {[row |-> r, col |-> Head(todo), value |-> db[r][Head(todo)]] : r \in got}

\* Mutant: the loop ends one row early.
selectColumn_DropsOne ==
  /\ task # "idle" /\ todo # <<>> /\ batch = {}
  /\ \E r \in Rows : batch' = Batch(Selected(Head(todo)) \ {r})
  /\ todo' = Tail(todo)
  /\ UNCHANGED <<rowVars, kcVars, keyVars, cipher, task, tcipher, endVars, mishaps>>

selectColumn ==
  /\ task # "idle" /\ todo # <<>> /\ batch = {}
  /\ batch' = Batch(Selected(Head(todo)))
  /\ todo' = Tail(todo)
  /\ UNCHANGED <<rowVars, kcVars, keyVars, cipher, task, tcipher, endVars, mishaps>>

\* The SELECT fails on the way.  rows.Next says no, nobody asks rows.Err, and
\* the command goes on with the rows that had come.
SelectCutShort ==
  /\ "short" \in Faults /\ mishaps < MaxMishaps
  /\ task # "idle" /\ todo # <<>> /\ batch = {}
  /\ \E got \in SUBSET Selected(Head(todo)) : got # Selected(Head(todo)) /\ batch' = Batch(got)
  /\ todo' = Tail(todo)
  /\ cut' = (cut \/ task = "encrypt") /\ mishaps' = mishaps + 1
  /\ UNCHANGED <<rowVars, kcVars, keyVars, cipher, task, tcipher, done>>

\* Mutant: the value is encrypted as it stands.
encryptColumn_AsIs(b) ==
  /\ task = "encrypt" /\ b \in batch
  /\ db' = [db EXCEPT ![b.row][b.col] = Encrypt(tcipher, Scheme(b.col), b.value, AAD(b.col))]
  /\ batch' = batch \ {b}
  /\ UNCHANGED <<hash, truth, kcVars, keyVars, cipher, task, tcipher, todo, endVars, mishaps>>

\* Mutant: the column is spelt in the associated data as in the SQL.
encryptColumn_SpeltAsInSQL(b) ==
  /\ task = "encrypt" /\ b \in batch
  /\ db' = [db EXCEPT ![b.row][b.col] =
       Encrypt(tcipher, Scheme(b.col), NormalizeLowercase(b.value), "email")]
  /\ batch' = batch \ {b}
  /\ UNCHANGED <<hash, truth, kcVars, keyVars, cipher, task, tcipher, todo, endVars, mishaps>>

\* One UPDATE of encryptColumn, by id alone.
encryptColumn(b) ==
  /\ task = "encrypt" /\ b \in batch
  /\ db' = [db EXCEPT ![b.row][b.col] =
       Encrypt(tcipher, Scheme(b.col),
               IF b.col = "EMAIL" THEN NormalizeLowercase(b.value) ELSE b.value, AAD(b.col))]
  /\ batch' = batch \ {b}
  /\ UNCHANGED <<hash, truth, kcVars, keyVars, cipher, task, tcipher, todo, endVars, mishaps>>

\* One UPDATE of hashColumn; a value that does not decrypt ends the command.
hashColumn(b) ==
  LET v == Decrypt(tcipher, b.value, AAD(b.col))
  IN  /\ task = "hash" /\ b \in batch
      /\ IF v = Failed
         THEN /\ task' = "idle" /\ tcipher' = NoCipher /\ todo' = <<>> /\ batch' = {}
              /\ UNCHANGED hash
         ELSE /\ hash' = [hash EXCEPT ![b.row] = Compute(tcipher, NormalizeLowercase(v), AAD(b.col))]
              /\ batch' = batch \ {b}
              /\ UNCHANGED <<task, todo, tcipher>>
      /\ UNCHANGED <<db, truth, kcVars, keyVars, cipher, endVars, mishaps>>

TaskEnds ==
  /\ task # "idle" /\ todo = <<>> /\ batch = {}
  /\ task' = "idle" /\ tcipher' = NoCipher /\ done' = (done \/ task = "encrypt")
  /\ UNCHANGED <<rowVars, kcVars, keyVars, cipher, todo, batch, cut, mishaps>>

\* The command dies, or returns the error of a statement, between two UPDATEs;
\* each UPDATE was its own transaction.
Crash ==
  /\ "crash" \in Faults /\ task # "idle" /\ mishaps < MaxMishaps
  /\ mishaps' = mishaps + 1
  /\ task' = "idle" /\ tcipher' = NoCipher /\ todo' = <<>> /\ batch' = {}
  /\ done' = (done /\ task # "encrypt")
  /\ UNCHANGED <<rowVars, kcVars, keyVars, cipher, cut>>

-----------------------------------------------------------------------------

Keycloak ==
  \E p \in Replicas, r \in Rows, col \in Cols :
    \/ \E v \in Inputs \union {held}, pii \in BOOLEAN : EncryptBind(p, r, col, pii, v)
    \/ DecryptDataRow(p, r, col)
    \/ PassThrough(p, r, col)

Backfill ==
  \/ runEncrypt \/ runHashRows \/ selectColumn \/ SelectCutShort \/ TaskEnds
  \/ \E b \in batch : encryptColumn(b) \/ hashColumn(b)

Operator ==
  \/ \E v \in Versions : runGenerate(v)
  \/ RotateFile \/ KeycloakStarts \/ KeycloakStops
  \/ \E p \in Replicas : buildCipher(p) \/ ProxyStops(p)

Next == Keycloak \/ Backfill \/ Crash \/ Operator

\* A command that runs goes on.  The operator mints a set, and until an
\* encrypt-rows has reported success stops Keycloak and runs it, the first
\* time and again after each that did not; after that nothing is expected.
Fairness ==
  /\ \A v \in Versions : WF_vars(file = NoSet /\ runGenerate(v))
  /\ WF_vars(selectColumn \/ TaskEnds \/ \E b \in batch : encryptColumn(b) \/ hashColumn(b))
  /\ SF_vars(~done /\ runEncrypt)
  /\ WF_vars(~done /\ KeycloakStops)

Spec == Init /\ [][Next]_vars /\ Fairness

-----------------------------------------------------------------------------
(* Properties.                                                              *)

\* The types of the variables; values nest, so only their kinds are typed.
TypeOK ==
  /\ DOMAIN db = Rows /\ DOMAIN truth = Rows
  /\ \A r \in Rows, col \in Cols : db[r][col].kind \in Kinds
  /\ \A r \in Rows : hash[r] = NULL \/ hash[r].kind = "hash"
  /\ keycloak \in BOOLEAN
  /\ kek \in 1..(1 + MaxKEK) /\ minted \in 0..MaxKeys
  /\ task \in {"idle", "encrypt", "hash"} /\ mishaps \in 0..MaxMishaps
  /\ done \in BOOLEAN /\ cut \in BOOLEAN
  /\ task = "idle" => todo = <<>> /\ batch = {} /\ tcipher = NoCipher
  /\ \A b \in batch : b.row \in Rows /\ b.col \in Cols /\ b.value # NULL

\* Equal as the column compares values: EMAIL without regard to case.
Same(col, v, w) ==
  IF col = "EMAIL" THEN NormalizeLowercase(v) = NormalizeLowercase(w) ELSE v = w

ReadsAs(p, r, col) == Decrypt(cipher[p], db[r][col], AAD(col))

\* A planned read returns what Keycloak last wrote, encrypted by the proxy or
\* the backfill, escaped, or still as it was before the migration.
ReadsReturnWhatWasWritten ==
  \A p \in Replicas, r \in Rows, col \in Cols :
    cipher[p] # NoCipher => Same(col, ReadsAs(p, r, col), truth[r][col])

\* Whatever keys a replica holds, a planned read returns what was written or
\* fails; it never returns something else.
ReadsNeverLie ==
  \A p \in Replicas, r \in Rows, col \in Cols :
    cipher[p] # NoCipher =>
      \/ ReadsAs(p, r, col) = Failed
      \/ Same(col, ReadsAs(p, r, col), truth[r][col])

\* No envelope is ever encrypted again, not even one that reached Keycloak
\* unread and came back as a value.
NeverDoubleEncrypted ==
  \A r \in Rows, col \in Cols :
    db[r][col].kind = "envelope" =>
      LET v == db[r][col].ciphertext.of
      IN  v.kind # "envelope" /\ ~(v.kind = "lowered" /\ v.of.kind = "envelope")

\* A search through any replica finds an encrypted row exactly when it looks
\* for its value, by the encrypted column and by the blind index, whoever
\* encrypted or hashed the row.
SearchMatchesExactly ==
  \A p \in Replicas, r \in Rows, v \in Inputs :
    "EMAIL" \in Cols /\ cipher[p] # NoCipher /\ v # NULL /\ Parse(v) # "envelope" =>
      LET same == Same("EMAIL", v, truth[r]["EMAIL"])
      IN  /\ db[r]["EMAIL"].kind = "envelope" =>
               ((db[r]["EMAIL"] = encryptParam(cipher[p], "EMAIL", v)) <=> same)
          /\ hash[r] # NULL => ((hash[r] = hashBlindIndexParam(cipher[p], v)) <=> same)

\* encrypt-rows leaves a row alone that is encrypted already, under whichever
\* key, so that a second run is harmless: encryptColumn's comment says that
\* "rows whose value already starts with the sentinel are skipped by the
\* SELECT filter".  docs/runbook.md:69-71 expects the opposite of rows under
\* an old key; that is RewritesOldMarkers, which the code does not do.
BackfillSkipsEncrypted ==
  [][task = "encrypt" =>
       \A r \in Rows, col \in Cols :
         db[r][col].kind = "envelope" /\ ~keycloak => db'[r][col] = db[r][col]]_vars

\* The fixed columns have no plaintext.
FixedEncrypted ==
  \A r \in Rows, col \in Cols \ {"VALUE"} : db[r][col] = NULL \/ db[r][col].kind = "envelope"

\* When encrypt-rows is about to report success and none of its SELECTs was
\* cut short, no fixed column of any row holds plaintext: its walk of
\* fs.Columns() and its UPDATEs leave nothing out, whatever Keycloak, earlier
\* crashes and earlier runs did.
EncryptRowsIsComplete ==
  task = "encrypt" /\ todo = <<>> /\ batch = {} /\ ~cut => FixedEncrypted

\* The migration ends: however often encrypt-rows dies on the way, the fixed
\* columns get encrypted, or a run whose SELECT was cut short has told the
\* operator that they are.
FixedColumnsGetEncrypted == <>(FixedEncrypted \/ (done /\ cut))

\* What runEncrypt's comment says without an exception: it "walks every
\* configured PII column and rewrites unmarked rows as ciphertext", so that
\* a run that reports success leaves none.
SuccessMeansEncrypted ==
  [][task = "encrypt" /\ TaskEnds => FixedEncrypted]_vars

\* docs/runbook.md:69-71, of encrypt-rows after a DEK rotation: "it walks rows
\* that still carry the old marker version and rewrites them".
RewritesOldMarkers ==
  [][task = "encrypt" /\ TaskEnds =>
       \A r \in Rows, col \in Cols \ {"VALUE"} :
         db[r][col].kind = "envelope" => db[r][col].version = tcipher.version]_vars

\* A replica with another DEK set still reads the rows that were written
\* before (the first step of the runbook's DEK rotation).
NewSetReadsOldRows ==
  \A p \in Replicas, r \in Rows, col \in Cols :
    cipher[p] # NoCipher => ReadsAs(p, r, col) # Failed

\* A replica of a deployment with a blind index has its key, also after the
\* KEK has been rotated.
BlindIndexStaysAvailable ==
  \A p \in Replicas : BlindIndexed /\ cipher[p] # NoCipher => cipher[p].index # 0
=============================================================================
