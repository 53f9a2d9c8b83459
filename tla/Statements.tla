----------------------------- MODULE Statements -----------------------------
(***************************************************************************)
(* Statements through the proxy, from the client's text and parameters to   *)
(* the rows of the answer, on a database of encrypted columns; and the same *)
(* statements on a database that never saw the proxy.                       *)
(*                                                                         *)
(* One statement is one step: OnParse plans and rewrites it, EncryptBind    *)
(* transforms its parameters, the backend runs it, DecryptDataRow transforms*)
(* its rows.  How the messages of several statements interleave is the      *)
(* subject of module Session, keys and migration are that of Columns: here  *)
(* there is one cipher, and every row was written through the proxy.        *)
(***************************************************************************)
EXTENDS BlindIndex, FiniteSets

CONSTANTS
  Parameterised, \* pairs of a statement and a binding; its PII values are parameters
  Literals,      \* the same with literals, or searches the planner must refuse
  Columns,       \* the columns of each table
  FieldSets,     \* values of KKP_FIELDS
  MaxRows        \* bound on the rows of all tables together

ASSUME StatementsAssumption ==
  /\ \A t \in DOMAIN Columns : "ID" \in Columns[t]
  /\ FieldSets \subseteq {"", "disabled", "email-only", "email-only-blind-index"}
  /\ MaxRows \in Nat

VARIABLES
  fields,   \* KKP_FIELDS
  lenient,  \* the planner is lenient
  db,       \* the tables of the backend
  plain,    \* the tables of a database without the proxy
  last      \* the last statement, if it was refused or returned rows

vars == <<fields, lenient, db, plain, last>>

cipher == NewCipher(1, 1, 2, 3)

fs == selectFields(fields)

\* Columns that store lower case and compare without regard to case.
Folded == {c \in UNION {Columns[t] : t \in DOMAIN Columns} :
             HasRule(fs, "USER_ENTITY", c) /\ ColumnRule(fs, "USER_ENTITY", c).lower}

Silent == [stmt |-> NoNode, b |-> <<>>, outcome |-> "none", rows |-> {}]

Init ==
  /\ fields \in FieldSets /\ lenient \in BOOLEAN
  /\ db = [t \in DOMAIN Columns |-> {}] /\ plain = db
  /\ last = Silent

-----------------------------------------------------------------------------
(* OnParse.                                                                 *)

\* The prepared statement: the text the backend gets, the analysis, the plan,
\* and the new parameter of each hash, by its source.
OnParse(stmt) ==
  LET a == Analyze(stmt)
      plan == PlanWrite(fs, a)
      sql == BlindIndexQuery(stmt, plan.BlindIndexFilters)
  IN  [SQL |-> BlindIndexWriteSQL(sql, plan.BlindIndexWrites), Analysis |-> a, WritePlan |-> plan,
       NewParam |-> NewParams(sql, plan.BlindIndexWrites)]

-----------------------------------------------------------------------------
(* EncryptBind.  Bindings are sequences; Refused is none.                   *)

Refused == <<Failed>>

Set(b, param, v) == [b EXCEPT ![param] = v]

encryptParam(b, pr) ==
  IF b[pr.param] = NULL THEN b
  ELSE IF Parse(b[pr.param]) = "envelope" THEN Refused
  ELSE Set(b, pr.param,
           Encrypt(cipher, pr.rule.scheme,
                   IF pr.rule.lower THEN NormalizeLowercase(b[pr.param]) ELSE b[pr.param],
                   AAD(pr.table, pr.col)))

\* A wildcard that is not escaped.
RECURSIVE hasLikeWildcards(_)
hasLikeWildcards(p) ==
  IF p = <<>> THEN FALSE
  ELSE IF Head(p) = "\\" THEN hasLikeWildcards(SubSeq(p, 3, Len(p)))
  ELSE Head(p) \in {"%", "_"} \/ hasLikeWildcards(Tail(p))

Wildcards(v) == v.kind = "text" /\ hasLikeWildcards(v.of)

\* One leading % and one trailing %, unless that is escaped.
stripOuterWildcards(p) ==
  LET q == IF p # <<>> /\ Head(p) = "%" THEN Tail(p) ELSE p
      n == Len(q)
  IN  IF n > 0 /\ q[n] = "%" /\ (n < 2 \/ q[n - 1] # "\\") THEN Front(q) ELSE q

Stripped(v) == IF v.kind = "text" THEN Text(stripOuterWildcards(v.of)) ELSE v

encryptLikeParam(b, pr) ==
  IF b[pr.param] = NULL \/ Wildcards(b[pr.param]) THEN b ELSE encryptParam(b, pr)

\* Mutant: the wildcards around a term are hashed with it.
hashBlindIndexParam_Unstripped(b, pr) ==
  IF b[pr.param] = NULL THEN b
  ELSE Set(b, pr.param, Compute(cipher, NormalizeLowercase(b[pr.param]), AAD(pr.table, pr.col)))

hashBlindIndexParam(b, pr) ==
  IF b[pr.param] = NULL \/ Wildcards(Stripped(b[pr.param])) THEN b
  ELSE Set(b, pr.param,
           Compute(cipher, NormalizeLowercase(Stripped(b[pr.param])), AAD(pr.table, pr.col)))

\* The hashes of the values still in plaintext, at the parameters that
\* BlindIndexWriteSQL allocated.
appendBlindIndexWrites(b, new, writes) ==
  LET size == Max({Len(b)} \union {new[p] : p \in DOMAIN new})
      sources(i) == {k \in DOMAIN writes : new[writes[k].param] = i}
      hash(w) == IF b[w.param] = NULL THEN NULL
                 ELSE Compute(cipher, NormalizeLowercase(b[w.param]), AAD(w.table, w.col))
  IN  [i \in 1..size |->
         IF sources(i) # {} THEN hash(writes[Max(sources(i))])
         ELSE IF i <= Len(b) THEN b[i] ELSE NULL]

applyAttributeCondition(b, cond) ==
  LET name == b[cond.name]
      matches == name.kind = "text" /\ IsPrefix(cond.prefix, name.of)
      one(acc, pr) == IF acc = Refused THEN Refused
                      ELSE IF matches THEN encryptParam(acc, pr)
                      ELSE Set(acc, pr.param, Escape(acc[pr.param]))
  IN  FoldLeft(one, b, cond.values)

\* Each part of the plan in turn, until one refuses.
Each(op(_, _), b, rules) ==
  FoldLeft(LAMBDA acc, pr : IF acc = Refused THEN Refused ELSE op(acc, pr), b, rules)

\* Mutant: the hashes are taken after the values have been encrypted.
EncryptBind_HashLast(ps, b) ==
  LET plan == ps.WritePlan
      b1 == Each(encryptParam, b, plan.Params)
      b2 == Each(applyAttributeCondition, b1, plan.AttributeConditions)
      b3 == Each(encryptLikeParam, b2, plan.LikeParams)
      b4 == Each(hashBlindIndexParam, b3, plan.BlindIndexFilters)
  IN  IF b4 = Refused THEN b4 ELSE appendBlindIndexWrites(b4, ps.NewParam, plan.BlindIndexWrites)

EncryptBind(ps, b) ==
  LET plan == ps.WritePlan
      b0 == appendBlindIndexWrites(b, ps.NewParam, plan.BlindIndexWrites)
      b1 == Each(encryptParam, b0, plan.Params)
      b2 == Each(applyAttributeCondition, b1, plan.AttributeConditions)
      b3 == Each(encryptLikeParam, b2, plan.LikeParams)
  IN  Each(hashBlindIndexParam, b3, plan.BlindIndexFilters)

-----------------------------------------------------------------------------
(* DecryptDataRow.                                                          *)

\* The row as the client gets it; an error ends the connection.
DecryptDataRow(row, plan) ==
  [i \in DOMAIN row |->
     IF i \in DOMAIN plan.Fields
     THEN Decrypt(cipher, row[i], AAD(plan.Fields[i].table, plan.Fields[i].col))
     ELSE row[i]]

-----------------------------------------------------------------------------
(* A statement.                                                             *)

Ends(stmt, b, outcome, rows) == last' = [stmt |-> stmt, b |-> b, outcome |-> outcome, rows |-> rows]

Returns(stmt) == stmt.node = "select" \/ (stmt.node = "update" /\ stmt.returning # <<>>)

RowsOf(stmt, d, b, ci) ==
  CASE stmt.node = "select" -> Answer(stmt, d, b, ci)
    [] stmt.node = "update" -> Returned(stmt, d[stmt.table], b, ci)
    [] OTHER -> {}

ColumnsReturned(stmt) ==
  CASE stmt.node = "select" -> Header(stmt)
    [] stmt.node = "update" -> stmt.returning
    [] OTHER -> <<>>

\* A strict planner refuses the statement, or EncryptBind its binding.
IsRefused(ps, eb) == (~lenient /\ Unplannable(fs, ps.Analysis)) \/ eb = Refused

\* Nothing reaches the backend.
Refuse(stmt, b) ==
  /\ \E ps \in {OnParse(stmt)} : IsRefused(ps, EncryptBind(ps, b))
  /\ Ends(stmt, b, "refused", {})
  /\ UNCHANGED <<fields, lenient, db, plain>>

\* What the backend does, and the rows that come back, through the read plan.
Execute(stmt, b, ps, eb) ==
  LET plan == PlanRead(fs, ps.Analysis.FromTables, ColumnsReturned(stmt))
      rows == {DecryptDataRow(row, plan) : row \in RowsOf(ps.SQL, db, eb, {})}
      failed == \E row \in rows : \E i \in DOMAIN row : row[i] = Failed
      t == stmt.table
  IN  /\ IF stmt.node = "select" THEN UNCHANGED <<db, plain>>
         ELSE /\ plain' = IF ~Accepted(stmt, plain, b) THEN plain
                          ELSE [plain EXCEPT ![t] = Written(stmt, @, Columns[t], b, Folded)]
              /\ db' = IF ~Accepted(ps.SQL, db, eb) THEN db
                       ELSE [db EXCEPT ![t] = Written(ps.SQL, @, Columns[t], eb, {})]
              /\ Cardinality(UNION {plain'[u] : u \in DOMAIN Columns}) <= MaxRows
      /\ IF Returns(stmt) THEN Ends(stmt, b, IF failed THEN "error" ELSE "ok", rows)
                         ELSE last' = Silent

\* The singletons make TLC plan and encrypt a statement once.
Run(stmt, b) ==
  /\ UNCHANGED <<fields, lenient>>
  /\ \E ps \in {OnParse(stmt)} : \E eb \in {EncryptBind(ps, b)} :
       ~IsRefused(ps, eb) /\ Execute(stmt, b, ps, eb)

Next ==
  \E s \in Parameterised \union Literals : Refuse(s[1], s[2]) \/ Run(s[1], s[2])

Spec == Init /\ [][Next]_vars

-----------------------------------------------------------------------------
(* Properties.                                                              *)

\* The types of the variables: rows have exactly the columns of their table,
\* and the hash column, which BlindIndexWriteSQL adds, has only hashes.
TypeOK ==
  /\ fields \in FieldSets /\ lenient \in BOOLEAN
  /\ \A t \in DOMAIN Columns : \A r \in db[t] \union plain[t] : DOMAIN r = Columns[t]
  /\ \A r \in db["USER_ENTITY"] : r["EMAIL_HASH"].kind \in {"null", "hash"}
  /\ last.outcome \in {"none", "ok", "refused", "error"}

\* The hash column, which only the proxy knows.
Visible(t) == Columns[t] \ {"EMAIL_HASH"}

ReadThrough(t, r) ==
  [c \in Visible(t) |->
     IF isReadablePIIColumn(fs, t, c) THEN Decrypt(cipher, r[c], AAD(t, c)) ELSE r[c]]

\* With a strict planner the backend's tables, decrypted, are the ones a
\* database without the proxy would have after the same statements: every
\* parameter, PII or not, ended up in its own column, and every UPDATE and
\* DELETE found the same rows.
TablesAgree ==
  ~lenient =>
    \A t \in DOMAIN Columns :
      {ReadThrough(t, r) : r \in db[t]} = {[c \in Visible(t) |-> r[c]] : r \in plain[t]}

IsSealed(v) == v = NULL \/ Parse(v) = "envelope"

\* Whatever statements ran past a strict planner, no PII value is at rest in
\* plaintext: not in a column with a rule, and not in an attribute whose name
\* has the prefix of the policy.  Said of INSERTs of one row: Analyze looks at
\* the first VALUES list only (plan.go:12-13).
SealedAtRest ==
  ~lenient =>
    \A t \in DOMAIN Columns : \A r \in db[t] :
      /\ \A c \in Columns[t] : HasRule(fs, t, c) => IsSealed(r[c])
      /\ HasPolicy(fs, t) /\ IsPrefix(fs.attrs[t].prefix, r[fs.attrs[t].name].of) =>
           \A c \in Columns[t] \intersect fs.attrs[t].values : IsSealed(r[c])

\* With a blind index the hash beside an address is that of the address the
\* row has now, whichever INSERT and UPDATEs brought it there; a row without
\* an address has no hash.
HashFollowsEmail ==
  ~lenient /\ HasRule(fs, "USER_ENTITY", "EMAIL") /\ ColumnRule(fs, "USER_ENTITY", "EMAIL").index # "" =>
    \A r \in db["USER_ENTITY"] :
      r["EMAIL_HASH"] =
        IF r["EMAIL"] = NULL THEN NULL
        ELSE Compute(cipher, Decrypt(cipher, r["EMAIL"], AAD("USER_ENTITY", "EMAIL")), AAD("USER_ENTITY", "EMAIL"))

\* The LIKEs of a condition on a column with a rule.
RECURSIVE LikesIn(_)
LikesIn(e) ==
  CASE e.node = "bool" -> UNION {LikesIn(e.args[i]) : i \in DOMAIN e.args}
    [] e.node = "aexpr" /\ e.kind # "OP" /\ ColumnsOf(e.l) \intersect Folded # {} -> {e}
    [] OTHER -> {}

\* The pattern, as the backend reads it, stands for the bound text alone.
IsLiteral(like, b) ==
  LET pattern == Value(like.r, <<>>, b)
      bound == Value(Unwrapped(like.r), <<>>, b)
  IN  pattern.kind = "text" => \A s \in Texts : Matches(s, pattern.of) <=> s = bound.of

\* A statement that returns rows returns the ones the database without the
\* proxy would: its filters find the same rows among the ciphertexts, through
\* equality, the blind index, or a LIKE whose pattern stands for itself (under
\* ESCAPE '' one without % and _, with any \ ; otherwise without \ too), and
\* every ciphertext in its answer is decrypted as its own column.
AnswersMatch ==
  [][~lenient /\ last'.outcome \in {"ok", "error"}
       /\ (\A like \in LikesIn(last'.stmt.where) : IsLiteral(like, last'.b)) =>
       last'.outcome = "ok" /\ last'.rows = RowsOf(last'.stmt, plain, last'.b, Folded)]_vars

\* The condition of a blind search, as equality: with the bound term, the %
\* around it gone, or with what no row has if it still has a wildcard.
RECURSIVE ByTerm(_, _)
ByTerm(e, b) ==
  LET term == Stripped(b[paramNumber(e.r)])
  IN  CASE e.node = "bool" -> [e EXCEPT !.args = [i \in DOMAIN e.args |-> ByTerm(e.args[i], b)]]
        [] e \in LikesIn(e) -> AExpr("OP", "=", e.l, Const(IF Wildcards(term) THEN Failed ELSE term))
        [] OTHER -> e

\* With a blind index a LIKE on the address finds exactly the rows whose
\* address is the bound term without the % around it, in any case: all that
\* are equal to it, none that only contains it, and none at all if a wildcard
\* is left (transform.go:122-127).  Equal as bound: a \ of the term is a
\* character of the address.
BlindSearchIsExact ==
  [][~lenient /\ fields = "email-only-blind-index" /\ last'.outcome = "ok" =>
       last'.rows = RowsOf([last'.stmt EXCEPT !.where = ByTerm(@, last'.b)], plain, last'.b, Folded)]_vars

\* The planner refuses no statement that binds its PII values, and a lenient
\* one refuses none at all; nor does EncryptBind refuse a binding in which
\* every PII position has a parameter of its own.
RefusesOnlyLiterals ==
  last.outcome = "refused" => ~lenient /\ <<last.stmt, last.b>> \in Literals

\* What README.md says of LIKE on a deterministic column, through LOWER too: a
\* pattern without wildcards finds the rows of that value.  A wildcard behind
\* a \ counts as none: it is literal (transform.go:191-192,
\* transform_test.go:216-217).
LikeWithoutWildcardsMatches ==
  ~lenient /\ last.outcome = "ok" /\ last.stmt.node = "select" =>
    last.rows = RowsOf(last.stmt, plain, last.b, Folded)
=============================================================================
