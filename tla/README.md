# Verification of keycloak-kms-proxy

TLA+ specifications of keycloak-kms-proxy, the TLC runs that check them on small
instances, and TLAPS proofs of the properties that matter most.

The proxy sits between Keycloak and PostgreSQL. It encrypts the personal data
(PII) in the parameters Keycloak binds and decrypts it in the rows that come back.
What is hard to test in it is concurrent, long-lived or combinatorial: two pumps
that share one session, a client that pipelines, a token cache used by many
goroutines, an accept loop that is closed while it runs, columns that hold
plaintext, escaped values and ciphertext of several keys at once, and a planner and
two rewriters that have to agree on every statement.

## Inventory

| Part | State | Operations | Hard behaviour | Modules |
|---|---|---|---|---|
| Session (`internal/wire/session.go`, `relay.go`) | statement and portal maps, `execQueue`, `describes`, cached columns, read plans | one observer per protocol message | pipelining, errors that skip a batch, re-used statements | `Session` |
| SQL analysis and planning (`internal/rewrite`) | none | analyse, plan writes and reads, rewrite for the blind index | joins, CTEs, parameter numbers, what must be refused | `Sql`, `Analysis`, `Planner`, `BlindIndex` |
| Transformation (`internal/wire/transform.go`) | none of its own | encrypt a Bind, decrypt a DataRow | order of hashing and encrypting, LIKE terms, marker look-alikes | `Statements`, `Columns` |
| Field set (`internal/config/fields.go`) | rules and policies | lookups, the walk of columns | | `Planner`, `Columns` |
| Cipher, marker (`internal/crypto`) | a key version and its keys | encrypt, decrypt, escape, hash | keys of another set or version | `Cipher` |
| Envelope, static KMS (`internal/kms`) | the DEK set | mint, open, rotate | what a rotation carries over | `Cipher`, `Columns` |
| Vault KMS (`internal/kms/vault.go`) | cached token, expiry, two mutexes | Wrap, Unwrap, login, retry | concurrent logins, late 403s, leases that end in flight | `VaultAuth` |
| Settings (`internal/config/proxy.go`) | the environment | load, validate | checked in one place, used in four | `Config` |
| Handshakes (`internal/wire/auth.go`, `scram*.go`, `listener.go`, `dial.go`) | two SCRAM exchanges, two TLS decisions | one step per message | peers that deviate or vanish at any message | `Scram`, `Handshake` |
| Process (`cmd/proxy`) | listener, semaphore, WaitGroup, deadlines | run, serve, handle, close | close against accept, leaked slots and goroutines | `Server`, `Admission`, `Handshake` |
| Backfill (`cmd/backfill`) | the rows it has selected | generate-dekset, encrypt-rows, hash-rows | crashes between UPDATEs, writes under its feet | `Columns` |
| Metrics, tools | | | | not modelled |

How they fit together: `Handshake` is the way from the settings to the relay;
`Server` runs one handler per connection, with each handshake as a stage that
returns, fails or hangs. The handler runs `Session`, which decides under which plan
a statement's parameters and rows are transformed. `Statements` is one statement
through the whole of plan, rewrite, Bind, backend and DataRow. `Columns` is a stored
value over years of writes, migrations and keys. `buildCipher` calls the KMS, whose
Vault form is `VaultAuth`.

## Modules

### Session

`PreparedStatement` and `Portal` are heap objects in Go and pointers to them are
in maps, queues and each other. The model has two heaps (`stmt`, `portal`), a
pointer is an index and 0 is nil. `execQueue` and `describes` are the code's two
queues, Sync boundaries included. Each `On...` action is one case of
`observeFrontend` or `observeBackend` under the session lock; the frontend pump
then sends in a step of its own (`Send`), because the lock is not held there. A
failing observer (`OnParse` and `OnQuery` on refused SQL, `OnBindFails` for an
encryption error, `DataRowFails`) ends its pump.

A SQL text is a model value. What the analyser makes of it is in the constants:
texts that do not parse, texts that `PlanWrite` refuses, texts that return rows.
A read plan records whose FROM tables and whose columns it was made of; it fits a
row if both are the row's.

The backend and the client are external. The backend answers in order, skips to
Sync after an error, ends each Sync and each simple query with ReadyForQuery, and
loses its portals with the transaction. The client sends at any time without
waiting for answers, once the startup's ReadyForQuery has come. `Disciplined`
says that it names statements as pgjdbc does (a name is not parsed again, the
unnamed one apart); `QueryInBatch` says that it may send a simple query inside an
unsynced batch.

`execPopped`, `descPopped`, `bDescribed` and the fields `obj`, `slot`, `width`,
`dslot` of a message are history: they say which queue entries belong to which
message and are read by properties only, and `obj` by the external backend.

### Sql, Analysis, Planner, BlindIndex, Statements

`Sql` has the syntax trees that pg_query hands to the analyser, restricted to the
forms Keycloak's statements have, and what PostgreSQL does with them (external):
SELECT with joins, sub-selects, CTEs and UNION, INSERT, UPDATE, DELETE, WHERE with
three-valued logic, `=` and LIKE. A text is a sequence of characters here, because
LIKE looks into it. `LIKE $n ESCAPE ''`, as pgjdbc sends it, arrives as
`like_escape($n, '')`; PostgreSQL then doubles every backslash of the pattern, so that
none of them escapes.

`Analysis` is `analyze.go`, one operator per function of the walk. `Planner` is
`fields.go`, `plan.go` and `read.go`: the field sets of `KKP_FIELDS`, `PlanWrite`
with what it refuses (`Unplannable`), `PlanRead`. `BlindIndex` is `blindindex.go`:
the rewrite of a LIKE filter to the hash column and the hash added to INSERT and
UPDATE, with the number of its new parameter.

`Statements` runs them. A step takes one statement with its bound values through
`OnParse`, `EncryptBind`, the backend and `DecryptDataRow`, on `db`; beside it
`plain` is the database of a Keycloak without the proxy, on which the original
statement runs. The properties compare the two: that is the reference definition
the planner and the rewriters are checked against. `lenient` is the planner of
`KKP_LENIENT`, which refuses nothing and promises nothing about plaintext.

### Config, Scram, Handshake

`Config` is `LoadProxyConfig` and `Validate`, and next to them the checks that
`NewVaultKMS`, `newVaultAuth`, `NewStaticKMS`, `LoadBackendCA` and `listen` make
again. `Scram` has the SCRAM server and client as functions from a state and a
message to the next state, with ideal keys and signatures. `Handshake` composes
them: `run`'s four steps of starting, and `handle` from `MaybeUpgradeTLS` to
`Relay`, one action per message received. A connection has two peers. A faithful
one sends what the protocol says; another may send something else or close wherever
the proxy reads, but signs only with the password it has.

### VaultAuth

Goroutines call Wrap or Unwrap. One action is one critical section of `mu`, one
operation on `loginMu`, or one HTTP answer. Vault numbers its tokens in the order
it issues them. `Faults` chooses among failing logins, failing requests, 403s
by policy and revocation. Time passes only while every goroutine is idle, in a
request or waiting for `loginMu`, and a request lasts at most `Timeout`.

### Server and Admission

`run`, `serve`, `close`, the handlers and both pumps of every connection. A
handler goes through `ssl`, `auth`, `dial`, `downauth`, `relay`; each stage
returns, fails or hangs. `close` takes the listener under the lock, closes it and
waits; `serve` accepts, takes a slot of the semaphore and registers under the
lock. `Admission` is the abstract specification: a set of connections being
served, bounded by `Max`, behind a gate that is open, closed, drained. The
refinement mapping takes `serving` to the connections whose handler holds a slot
and reads the gate off `close`'s progress.

### Cipher and Columns

`Cipher` holds pure operators: a value is null, text, an escaped value, a
malformed look-alike, a lower-cased value or an envelope; encryption is ideal.
`Columns` is the life of the encrypted columns: Keycloak's writes, reads and
searches through several replicas, encrypt-rows and hash-rows with one SELECT per
column and then one UPDATE per row, DEK sets minted and rotated, replicas restarted. A
SELECT that fails on the way (`SelectCutShort`) gives the command fewer rows, and it
goes on: it never calls `rows.Err()`. `done` says that the last encrypt-rows returned
without an error; `cut` is history: one of its SELECTs was short. A row read without a plan (`PassThrough`) hands Keycloak ciphertext, which it may write
back.

## Runs

Every run finishes in two minutes or less with two workers. Runs of `Session`,
`Columns`, `Statements` and `Handshake` switch deadlock checking off: a connection
ends, and the bounds on messages, keys, rows and connections stop the model.
Deadlock is checked in `VaultAuth` and `Server`.

| Run | Shows |
|---|---|
| `session_pipeline` | whatever a pipelining client sends and wherever errors fall, rows reach their portal, Describe answers reach their statement, both queues are empty when the backend is idle, and refused SQL never leaves the proxy, not even as the second statement of a text |
| `session_pgjdbc` | a statement described once and re-used: rows use their own plan, described rows have one, also those of simple queries, and Binds are planned for the statement the backend executes |
| `statements` | under each field set and a strict planner: the tables, decrypted, are those of a database without the proxy; answers are the same for filters by equality and by LIKE patterns that stand for themselves; no PII is at rest in plaintext; the hash beside an address is always its own; a blind-index search for `%term%` finds exactly the rows equal to the term as it was bound; only statements with literals, or unsearchable filters, are refused |
| `handshake` | from any settings: only a client with the settings' user and password is told it is authenticated, and it is relayed only to a backend that has proved it knows the password of the proxy's user; with a CA nothing goes to the backend before verified TLS; settings that load also start; two faithful peers always reach the relay |
| `vault_faults` | the cache only moves to newer tokens or drops a rejected one; a retry uses a newer token; a goroutine with a usable token does not wait for a login; every call ends |
| `vault_healthy` | with a healthy Vault and leases above the skew every call succeeds |
| `server_lifecycle` | semaphore and WaitGroup are exact; the accept loop implements `Admission`; client handshakes end, pumps end, a signalled process exits |
| `columns_rows` | reads and searches, by column and by blind index, are exact for fixed columns and attributes across backfill, crashes, short SELECTs and leaked ciphertext; nothing is encrypted twice; encrypt-rows touches no encrypted row, and when it ends has left no plaintext in a fixed column unless one of its SELECTs was short; run again after crashes, it gets there |
| `columns_keys` | with other keys, or keys of one process only, a read fails or is right, never wrong |

### Where the code and its documents disagree

Three runs end in a counterexample to a comment of the repository; each
finding in `PROJECT.json` quotes the line.

| Run | Disagreement |
|---|---|
| `session_mixed` | a simple query in a failed, unsynced batch leaves its boundary in the queues, and later rows go to the wrong portal |
| `server_deadline` | the handshake deadline is not cleared after AuthOK |
| `columns_kekrotation` | `RotateKEK` drops the blind-index key |

Six more configurations can be run by hand. Each ends in a counterexample to a
document too.

| Configuration, property | Disagreement |
|---|---|
| `MCColumns_rotation.cfg`, `NewSetReadsOldRows` | a replica with the new DEK set does not read the rows of the old one; `docs/runbook.md:65-67` says that the proxy "can both decrypt the old marker version and write the new one" |
| `MCColumns_markers.cfg`, `RewritesOldMarkers` | encrypt-rows with a new set leaves every encrypted row as it is (`BackfillSkipsEncrypted`): its SELECT excludes all markers; `docs/runbook.md:69-71` says that it "walks rows that still carry the old marker version and rewrites them". `cmd/backfill/encrypt.go:101-103` says what the code does |
| `MCColumns_short.cfg`, `SuccessMeansEncrypted` | an encrypt-rows one of whose SELECTs failed on the way reports success and has left plaintext; `cmd/backfill/encrypt.go:101-102` says that it "rewrites any plaintext (markerless) values in the given column" |
| `MCStatements_lower.cfg`, `LikeWithoutWildcardsMatches` | `LOWER(EMAIL) LIKE $1` finds nothing: the term is encrypted, the backend lowers the ciphertext; `README.md:81` says that the proxy encrypts such a term "so the equality matches stored ciphertext" |
| `MCStatements_escape.cfg`, `LikeWithoutWildcardsMatches` | `EMAIL LIKE 'b\_'` does not find the address `b_`: the term is encrypted, or hashed, with its backslash; `internal/wire/transform_test.go:216-217` says that "Backslash-escaped wildcards (\%, \_) are literal", and `transform.go:159-160` says so of `\%` |
| `MCHandshake_ssl.cfg`, `SSLRequestIsUpgraded` | a client that asks for GSS encryption first (libpq does) gets `N` to its SSLRequest from a proxy with a certificate; `internal/wire/listener.go:16-18` says that "the proxy responds 'S' and the connection is upgraded to TLS" |

Other things the code does, met while modelling, that lie outside the modelled
class of statements or settings:

* `maxParamRef` does not look into casts, function calls and lists; a parameter
  with the highest number there is taken for free, and the hash replaces it.
* Under `ESCAPE ''` a backslash escapes nothing, but `hasLikeWildcards` skips the
  character after it: the pattern `b\_` is taken for a term, and finds the address `b\_`
  and not the others it matches. `AnswersMatch` leaves such patterns out: it is about
  those that match only the bound text (`IsLiteral`).
* Filters inside sub-selects, CTEs and the arms of a UNION are not collected: their
  parameters are neither encrypted nor refused. The statements of the run filter there by
  other columns only.
* INSERT with several rows, without a column list, or with ON CONFLICT DO UPDATE is
  planned in part or not at all, and the values are stored as they are, although
  `internal/rewrite/plan.go:12-13` says that such statements are refused. `SealedAtRest`
  is about INSERTs of one row.
* With a blind index NOT LIKE and LIKE with a literal are rewritten to the hash
  column like `col LIKE $n`; in `$n LIKE col` the term is hashed and the filter is not
  rewritten.
* A parameter that is used in two PII positions is encrypted once and then refused as an
  envelope. `RefusesOnlyLiterals` is about statements without one.
* If the first FROM item is a join, the statement has no target table and its filters are
  not encrypted; a non-recursive CTE named like the table it reads has no tables.
* A result column under an alias is not recognised as PII; a UNION of two different
  PII columns fails to decrypt.
* Renaming an attribute to a PII name leaves its value as it was.
* An empty file as `KKP_BACKEND_CA_FILE` makes `LoadBackendCA` return no TLS
  config and the backend leg is plaintext (`BackendLegIsTLS` says "good" for this
  reason).
* `/readyz` answers ready before the listener is open; the client is told that it
  is authenticated before the backend is dialled; the backend leg has no deadline.
* A simple-query text that does not parse is entered as one result cycle, whatever
  it holds; COPY and SQL-level cursors have no statement in the session; the
  startup's ReadyForQuery goes through `OnReadyForQuery` too, so a client that
  pipelined before it would lose a boundary.

### Assumptions that matter

Some properties hold under an assumption. The first three are constants of a
module and are needed: TLC finds a counterexample when the constant is changed.

* `Disciplined = TRUE` in `session_pgjdbc`: the client names statements as pgjdbc
  does. A client that parses a name again after the backend has skipped its first
  Parse binds to a statement that the session and the backend understand
  differently, because `OnParse` replaces the statement when it is sent.
* Leases above `RenewSkew` in `vault_faults` and `vault_healthy`, as the README of
  the repository recommends. With shorter ones no token is ever fresh, goroutines
  queue for logins one after the other, and wait although the cache holds a usable
  token.
* `Online = FALSE` in the runs of `Columns`: backfill runs with Keycloak stopped, as
  `cmd/backfill/main.go` says. Otherwise its UPDATE, by id alone, overwrites what
  Keycloak wrote after the SELECT.
* `~lenient` in the antecedents of `Statements`' properties: a lenient planner
  stores literals in plaintext, which is its purpose. Both kinds are explored.
* Values in `Columns`: a legacy value does not begin with the sentinel (it could
  not be told from an encrypted one), and nobody enters an envelope in lower case.

Two limits of the code are visible in the model without a run: a Transit request
may be in flight when its token's lease ends (the 403 retry repairs it, which is
what `HealthyCallsSucceed` shows), and encrypt-rows walks the fixed columns only,
so attribute values that were there before stay as they were until they are
written again.

### Bounds

* `Session`: five client messages, enough for a batch that fails, the batch
  pipelined behind it and the answer that would be misattributed, and for a
  statement that is parsed, described and synced and then bound and executed. One or
  two statement names and two to three texts let each re-use happen.
* `Statements`: two rows in all tables together, so that a filter can find one and
  not the other; 37 pairs of statement and binding, taken from the kinds in
  `testdata/keycloak` and the rewriter's tests, in any order; short texts: two spellings of one address,
  another with a backslash, wildcards at either end, and a wildcard behind a backslash.
* `Handshake`: every combination of the settings that matter together, two
  connections, so that the second meets what the first left; seven kinds of deviating
  clients and eight of deviating backends.
* `VaultAuth`: two goroutines, two tokens and a clock of 3 with all faults, so that a
  lease ends and a token is rejected and replaced; three goroutines (one that logs
  in, one that is queued, one that uses the result), leases of 4 or 5 and a clock
  of 9, so that tokens are renewed several times, with none.
* `Server`: two connections for one slot, so that one waits; the proofs cover any number.
* `Columns`: one row (rows do not interact: a batch of the backfill is keyed by row
  and column) with all three kinds of column, one replica and one set of keys, or
  two replicas and three sets for the run about keys; one crash, short SELECT or leak; one or two
  KEKs.

Symmetry is used only in runs without temporal properties, over goroutines
(`vault_healthy`) and over two interchangeable SELECTs (`session_pgjdbc`).

### Fairness

* `VaultAuth`: weak fairness of a goroutine's steps (the scheduler runs it and the
  HTTP client's timeout ends requests); strong fairness of taking `loginMu`,
  because Go's mutex hands itself to a waiter that has starved.
* `Server`: weak fairness of `serve`, `close`, `run`'s select (its drain timer
  included), of handlers and pumps where the code or a deadline makes the call return. Clients
  and the backend are under no obligation: they may be silent for ever.
* `Handshake`: weak fairness of `run` and of a handler between two faithful peers,
  who answer by definition. Nothing is assumed of other peers.
* `Columns`: a command that runs goes on unless it crashes, and the operator mints a
  set, stops Keycloak and runs encrypt-rows, again after each crash, until one has
  reported success; nothing makes the operator run it after that. Only
  `FixedColumnsGetEncrypted` uses it; it is an assumption on the operator, who the
  migration guide tells to do so. Its conclusion is that the fixed columns get encrypted,
  or that success was reported after a short SELECT. Crashes are bounded.

## Proofs

Twenty-seven theorems, checked by TLAPS from the named assumptions on the constants
(names and texts are what their comments say, bounds are naturals, the set of
connections is finite, the values of `Columns` are as above). A theorem that needs more
than these says so in its `ASSUME`, and the run that checks the same property has
constants that meet it.

* `SessionProofs!TypeCorrect`: `TypeOK` is inductive; it says that no queue entry and no
  message points outside the heaps. `VaultTypeCorrect`, `ServerTypeCorrect`,
  `ColumnsTypeCorrect` and `HandshakeTypeCorrect` are its counterparts; the last one
  says that each leg goes through the steps of SCRAM in order.
* `SessionProofs!RefusedSQLIsNeverSent`: the SQL the planner refuses is in no message on
  the way to the backend. The invariant adds that a message the frontend pump has
  observed and not sent holds none either.
* `SessionOrderProofs!ResultsReachTheirPortal`: `RowsReachTheirPortal` for any number of
  messages, given a client without simple queries inside unsynced batches (run
  `session_mixed` shows the need). The invariant `IInv` (`SessionInv`) looks at the
  *pipe*, all messages observed and not finished by the backend. Each owns a run of
  positions in the history of `execQueue`; the runs are consecutive (`ChainInv`), the
  queue holds what the messages put there (`ContentInv`), and the oldest entry is the
  one the backend answers next (`BaseInv`). After an error the oldest entry may be any
  one of the dead batch, and no boundary lies before the next Sync (`DeadInv`).
  `ClientInv` carries the client's discipline along the pipe; `PortalsInv` says that a
  name means the same portal to a message and to the backend when it gets there. The
  property alone is not inductive because a pop concerns entries pushed many messages
  earlier. The first half of `SessionOrderProofs` is about pushes and pops as values,
  the second half takes the steps one by one, errors and recovery last.
* `SessionDescribeProofs!DescribesReachTheirStatementAlways` and
  `DrainedWhenIdleAlways`, for the same clients. `DescInv` reads the `describes` queue
  as one of the shape of `execQueue`: a Describe is seen as a message with one entry, a
  Sync or a simple query as one with a boundary, any other message as one without
  entries (`Seen`, `SeenPipe`, `SeenQueue`). The lemmas on pushes, pops and recovery
  then hold for it too. `PendingInv` adds which objects each entry is about.
* `SessionPlanProofs!BindsUseTheBackendsStatementAlways`, for a client that names
  statements the way pgjdbc does (`Disciplined`): from `StmtInv`. A name other than the
  unnamed one is parsed once (`FreshInv`); what a Bind or a Describe on its way means by
  a name is what the backend will hold under it when it gets there, if it holds one
  (`UsesInv`); and the same is so of the names the client may still use (`LiveInv`).
  After an error the unnamed statement of the session and of the backend may differ
  until the next Parse, hence `AllDead` and `Reparsed`.
* `SessionDescribeProofs!RowsUseTheirOwnPlanAlways` and `DescribedRowsHaveAPlanAlways`,
  for clients with both restrictions: from `PlansInv`, in which `HeapInv` says that the
  columns on a statement and the plan on a portal are those of its own SQL
  (`ColumnsInv`) and that the portals of the backend, the pending Describes and the
  simple queries point to the objects of their statements (`PointersInv`). A step keeps
  it because columns are learned for, and plans derived from, the right object, which is
  what `IInv`, `DescInv` and `StmtInv` provide.
* `VaultAuthProofs!RetryIsNewer` and `CacheIsMonotone`: from an invariant that orders
  tokens: a login holds `loginMu` and its token is newer than every cached one; a call's
  rejected token has left the cache, and the cache never returns to it.
* `VaultAuthProofs!UsableTokenNeverWaitsAlways`, if every lease is unlimited or longer
  than `RenewSkew`: while somebody waits for `loginMu` and the cached token is usable,
  nobody is logging in (`WaitInv`). A shorter lease yields a token that is usable and
  due for renewal at once, and the next caller then logs in while others wait.
* `VaultAuthProofs!HealthyCallsSucceedAlways`: without faults, with `RenewSkew` at least
  two HTTP timeouts (30 s and 10 s in the code) and leases that are unlimited or longer
  than `RenewSkew` plus a timeout. `CacheInv` bounds how far the proxy's expiry may lie
  after the end Vault has in mind; `RenewedInv` and `SecondInv` show that the token of
  a second attempt was issued recently, and `LastsInv` that Vault still knows it when
  the attempt ends. The token bound of the model is not the program's, so the theorem is
  about the behaviours that stay below it (`[](issued < MaxTokens)`).
* `ServerProofs!CountersAreExact` and `AdmissionIsImplemented`: from `SInv`, which ties
  each counter to the set of connections in the stages that hold it, says which phases
  of `run`, `serve` and `close` go together, and that a slot is held before a connection
  is served. Each step then maps to a step of `Admission` or to a stutter.
* `HandshakeProofs!RelayIsAuthenticatedAlways`, `BackendLegIsTLSAlways` and
  `AcceptedSettingsStartAlways`, for any settings, clients, backends and number of
  connections. `HInv` has three parts. `StartInv`: how far `run` has come says which
  checks the settings have passed, and a served process's TLS config comes from its CA
  file. `UpInv`: at each point of the upstream leg the SCRAM server holds the verifier
  of the settings and the user the client has named; a proof it accepts is then one made
  with the settings' password. `DownInv`: the SCRAM client expects the signature of its
  own exchange under the backend password, so the server-final it accepts comes from a
  peer that has it; and nothing was sent downstream except through `DialBackendTLS`. The
  properties only speak of the end of an exchange, and say nothing about the message
  that has to be remembered from its beginning, so they are not inductive.
* `ColumnsProofs!NeverDoubleEncryptedAlways`, for any rows, inputs, keys, replicas and
  faults, also with `Online`: from `PlainInv`, which says of every stored value, of what
  is inside it, of what Keycloak holds and of what the backfill has selected that it is
  no envelope made unreadable by lower-casing, and of the values encrypt-rows has
  selected that they have no sentinel. Keycloak may hold an envelope; `encryptParam`
  refuses it.
* `ColumnsProofs!ReadsNeverLieAlways` and `BackfillSkipsEncryptedAlways`, if Keycloak is
  down while the backfill runs: from `TruthInv`, which says that a stored value stands
  for what Keycloak wrote whatever key it is under (a malformed look-alike apart, which
  every read refuses), and that the values encrypt-rows has selected are still in the
  table. The keys do not occur in the argument: a cipher with the wrong ones fails.
* `ColumnsProofs!EncryptRowsIsCompleteAlways`, for any rows, keys and faults, also with
  `Online`: from `WalkInv`, which says that while encrypt-rows runs and no SELECT of it was
  short, every value of a fixed column is NULL, an envelope, in the batch, or in a column
  the walk has still to come to. `FixedInv` adds that only envelopes have the sentinel
  there, so that the SELECT passes over nothing else. The property speaks of the end of
  the walk only and is not inductive. Keycloak's writes do not disturb it: they leave
  envelopes or NULL.
* `ColumnsProofs!ReadsReturnWhatWasWrittenAlways`, if Keycloak is down while the backfill
  runs, every replica opens the DEK set file (`DEKSetFile = Replicas`) and there are keys
  for one set only (`MaxKeys < 6`, so that `generate` runs once); the KEK may be rotated
  any number of times.
  `SetInv`: every cipher in use was opened from that file and has its two data keys.
  `SealedInv`: every stored envelope is exactly what such a cipher makes of its content.
  With `TruthInv` a read then succeeds, and returns what was written.
* `ColumnsProofs!SearchMatchesExactlyAlways`, if moreover the KEK is not rotated
  (`MaxKEK <= 1`, because `RotateKEK` drops the index key): `HashInv` adds that a row
  has no hash or the one of its value.

Many leaves name the backend that proves them, which saves the prover from trying
another one first. `SessionOrderProofs`, `SessionPlanProofs` and `SessionDescribeProofs`
take ten to fifteen minutes each, the other five modules about ten together.

Only model-checked: liveness (`CallsEnd`, `HandshakesEnd`, `PumpsEnd`, `SignalEnds`,
`FixedColumnsGetEncrypted`, `FaithfulPeersAreRelayed`), which is out of the prover's
reach; and all of `Statements`, whose operators recurse over syntax trees. Every other
property of a passing run is also a theorem.

## What is not modelled

* `migrate-blind-index`: DDL run once before anything else. The hash column is
  there from the start.
* SQL outside module `Sql`, as listed above, and SQL functions other than LOWER and UPPER
  in filters.
* Format codes. The session stores them, and `appendBlindIndexWrites` adds text codes for
  its parameters, but no decision looks at them: a PII value is transformed as the bytes
  that came, whichever format they are in. The model has text.
* Replay in SCRAM. A nonce is part of the ideal exchange, and a deviating peer sends
  messages of its own, never one recorded from another connection: that nonces are fresh is
  not tested.
* The bytes of envelopes, SCRAM messages and TLS records, and the cryptography: it is
  ideal.
* Metrics, logging and the leak detectors that only log; the health endpoint beyond
  its ready flag.
* The tools that build the test corpora.

Proxy and backfill are taken to be configured with the same field set. `Session`,
`Statements` and `Columns` are three views of one system and not one specification: a
message-level model with syntax trees and keys in it would have no instance small
enough to check. They meet at the plan: `Session` shows that a row is
decrypted under its own statement's plan, `Statements` that this plan is the right one,
`Columns` that what it does to a value lasts.
