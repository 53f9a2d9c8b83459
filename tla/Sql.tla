-------------------------------- MODULE Sql ---------------------------------
(***************************************************************************)
(* SQL as the proxy and its backend see it: the syntax trees of pg_query    *)
(* and the answers PostgreSQL gives.  Both are external, and modelled as    *)
(* far as internal/rewrite looks into a tree and Keycloak's statements go.  *)
(*                                                                         *)
(* An identifier is in upper case: PostgreSQL folds what is not quoted, and *)
(* every lookup of the proxy folds again.  A text is a sequence of          *)
(* characters, because LIKE looks into it.                                  *)
(***************************************************************************)
EXTENDS Cipher, SequencesExt

-----------------------------------------------------------------------------
(* Trees.                                                                   *)

NoNode == [node |-> "none"]
ParamRef(n) == [node |-> "param", number |-> n]
Const(v) == [node |-> "const", of |-> v]
\* rel is "" for a column that is not qualified.
ColumnRef(rel, col) == [node |-> "column", rel |-> rel, col |-> col]
FuncCall(name, args) == [node |-> "call", name |-> name, args |-> args]
BoolExpr(op, args) == [node |-> "bool", op |-> op, args |-> args]
\* kind is the way it was written: "OP", "LIKE" or "ILIKE".
AExpr(kind, op, l, r) == [node |-> "aexpr", kind |-> kind, op |-> op, l |-> l, r |-> r]

RangeVar(name, alias) == [node |-> "rel", name |-> name, alias |-> alias]
JoinExpr(l, r, on) == [node |-> "join", l |-> l, r |-> r, on |-> on]
RangeSubselect(query, alias) == [node |-> "sub", query |-> query, alias |-> alias]

\* A statement; with is a sequence of [name, query], from of FROM items and
\* targets of column references.
SelectStmt(with, from, targets, where) ==
  [node |-> "select", with |-> with, l |-> NoNode, r |-> NoNode,
   from |-> from, targets |-> targets, where |-> where]
Union(l, r) ==
  [node |-> "select", with |-> <<>>, l |-> l, r |-> r, from |-> <<>>, targets |-> <<>>, where |-> NoNode]
\* rows are the VALUES lists.
InsertStmt(table, cols, rows) == [node |-> "insert", table |-> table, cols |-> cols, rows |-> rows]
\* sets is a sequence of [col, val], returning of columns.
UpdateStmt(table, sets, where, returning) ==
  [node |-> "update", table |-> table, sets |-> sets, where |-> where, returning |-> returning]
DeleteStmt(table, where) == [node |-> "delete", table |-> table, where |-> where]

-----------------------------------------------------------------------------
(* LIKE.                                                                    *)

\* A string matches a pattern, with \ as the escape character.
RECURSIVE Matches(_, _)
Matches(s, p) ==
  IF p = <<>> THEN s = <<>>
  ELSE CASE Head(p) = "%" -> Matches(s, Tail(p)) \/ (s # <<>> /\ Matches(Tail(s), p))
         [] Head(p) = "_" -> s # <<>> /\ Matches(Tail(s), Tail(p))
         [] Head(p) = "\\" /\ Len(p) > 1 ->
              s # <<>> /\ Head(s) = p[2] /\ Matches(Tail(s), SubSeq(p, 3, Len(p)))
         [] OTHER -> s # <<>> /\ Head(s) = Head(p) /\ Matches(Tail(s), Tail(p))

\* An envelope or a hash is a long string that a copy of itself and a pattern
\* of % alone match.  Another pattern could match its characters by accident;
\* it is taken not to, and no answer that is compared depends on it.
Like(v, p) ==
  IF p.kind = "text" /\ v.kind = "text" THEN Matches(v.of, p.of)
  ELSE v = p \/ (p.kind = "text" /\ p.of # <<>> /\ ToSet(p.of) = {"%"})

\* like_escape(p, esc), which is how pgjdbc's LIKE p ESCAPE esc arrives: with
\* '' no character escapes, so that every \ is doubled; with \ the pattern is
\* as it was.  No other escape is in use, and no envelope or hash has a \.
Doubled(p) == FlattenSeq([i \in DOMAIN p |-> IF p[i] = "\\" THEN <<"\\", "\\">> ELSE <<p[i]>>])

like_escape(v, esc) == IF v.kind = "text" /\ esc = Text(<<>>) THEN Text(Doubled(v.of)) ELSE v

-----------------------------------------------------------------------------
(* Expressions.  env gives the columns in scope their values, b the         *)
(* parameters; the columns in ci compare without regard to case.            *)

RECURSIVE Value(_, _, _)
Value(e, env, b) ==
  CASE e.node = "param" -> b[e.number]
    [] e.node = "const" -> e.of
    [] e.node = "column" -> env[CHOOSE k \in DOMAIN env : k[2] = e.col /\ e.rel \in {"", k[1]}]
    [] e.node = "call" /\ e.name = "lower" -> NormalizeLowercase(Value(e.args[1], env, b))
    [] OTHER -> like_escape(Value(e.args[1], env, b), Value(e.args[2], env, b))

RECURSIVE ColumnsOf(_)
ColumnsOf(e) ==
  CASE e.node = "column" -> {e.col}
    [] e.node = "call" -> UNION {ColumnsOf(e.args[i]) : i \in DOMAIN e.args}
    [] OTHER -> {}

Compares(e, env, b, ci) ==
  LET fold == e.kind = "ILIKE" \/ (ColumnsOf(e.l) \union ColumnsOf(e.r)) \intersect ci # {}
      v == Value(e.l, env, b)
      w == Value(e.r, env, b)
      l == IF fold THEN NormalizeLowercase(v) ELSE v
      r == IF fold THEN NormalizeLowercase(w) ELSE w
  IN  CASE e.op = "=" -> l = r
        [] e.op = "<>" -> l # r
        [] e.op \in {"~~", "~~*"} -> Like(l, r)
        [] OTHER -> ~Like(l, r)

Unknown(e, env, b) == NULL \in {Value(e.l, env, b), Value(e.r, env, b)}

\* Three-valued logic: a condition is true, false, or neither.
RECURSIVE IsTrue(_, _, _, _), IsFalse(_, _, _, _)
IsTrue(e, env, b, ci) ==
  CASE e.node = "none" -> TRUE
    [] e.node = "aexpr" -> ~Unknown(e, env, b) /\ Compares(e, env, b, ci)
    [] e.op = "and" -> \A i \in DOMAIN e.args : IsTrue(e.args[i], env, b, ci)
    [] e.op = "or" -> \E i \in DOMAIN e.args : IsTrue(e.args[i], env, b, ci)
    [] OTHER -> IsFalse(e.args[1], env, b, ci)
IsFalse(e, env, b, ci) ==
  CASE e.node = "none" -> FALSE
    [] e.node = "aexpr" -> ~Unknown(e, env, b) /\ ~Compares(e, env, b, ci)
    [] e.op = "and" -> \E i \in DOMAIN e.args : IsFalse(e.args[i], env, b, ci)
    [] e.op = "or" -> \A i \in DOMAIN e.args : IsFalse(e.args[i], env, b, ci)
    [] OTHER -> IsTrue(e.args[1], env, b, ci)

-----------------------------------------------------------------------------
(* Queries, over a database d that maps a table to its rows.                *)

\* The rows of a relation under its alias.
Aliased(rows, alias) ==
  {[k \in {alias} \X DOMAIN r |-> r[k[2]]] : r \in rows}

Names(targets) == [i \in DOMAIN targets |-> targets[i].col]

RECURSIVE Header(_)
Header(sel) == IF sel.l = NoNode THEN Names(sel.targets) ELSE Header(sel.l)

\* A derived table's rows, by the names of its columns.
Named(names, rows) ==
  {[c \in ToSet(names) |-> row[CHOOSE i \in DOMAIN names : names[i] = c]] : row \in rows}

RECURSIVE Answer(_, _, _, _), Source(_, _, _, _)

\* The rows of a SELECT; d also has the CTEs in scope.
Answer(sel, d, b, ci) ==
  LET with(acc, cte) == (cte.name :> Named(Header(cte.query), Answer(cte.query, acc, b, ci))) @@ acc
      scope == FoldLeft(with, d, sel.with)
      cross(acc, item) == {x @@ y : x \in acc, y \in Source(item, scope, b, ci)}
      envs == {env \in FoldLeft(cross, {<<>>}, sel.from) : IsTrue(sel.where, env, b, ci)}
  IN  IF sel.l # NoNode THEN Answer(sel.l, scope, b, ci) \union Answer(sel.r, scope, b, ci)
      ELSE {[i \in DOMAIN sel.targets |-> Value(sel.targets[i], env, b)] : env \in envs}

Source(item, d, b, ci) ==
  CASE item.node = "rel" -> Aliased(d[item.name], item.alias)
    [] item.node = "sub" -> Aliased(Named(Header(item.query), Answer(item.query, d, b, ci)), item.alias)
    [] OTHER -> {env \in {x @@ y : x \in Source(item.l, d, b, ci), y \in Source(item.r, d, b, ci)} :
                   IsTrue(item.on, env, b, ci)}

-----------------------------------------------------------------------------
(* Writes.  A column of ci stores its values in lower case.                 *)

Stored(col, v, ci) == IF col \in ci THEN NormalizeLowercase(v) ELSE v

Hits(stmt, r, b, ci) ==
  IsTrue(stmt.where, [k \in {stmt.table} \X DOMAIN r |-> r[k[2]]], b, ci)

\* Positions of col in an INSERT's column list.
InsertedRow(stmt, list, columns, b, ci) ==
  [c \in columns |->
     IF Contains(stmt.cols, c)
     THEN Stored(c, Value(list[CHOOSE i \in DOMAIN stmt.cols : stmt.cols[i] = c], <<>>, b), ci)
     ELSE NULL]

UpdatedRow(stmt, r, b, ci) ==
  [c \in DOMAIN r |->
     IF \E i \in DOMAIN stmt.sets : stmt.sets[i].col = c
     THEN LET i == CHOOSE i \in DOMAIN stmt.sets : stmt.sets[i].col = c
          IN  Stored(c, Value(stmt.sets[i].val, <<>>, b), ci)
     ELSE r[c]]

\* An INSERT fails if a list has not one value per column, or an ID is taken.
Accepted(stmt, d, b) ==
  stmt.node = "insert" =>
    \A i \in DOMAIN stmt.rows :
      /\ Len(stmt.rows[i]) = Len(stmt.cols)
      /\ \A r \in d[stmt.table] :
           r["ID"] # Value(stmt.rows[i][CHOOSE j \in DOMAIN stmt.cols : stmt.cols[j] = "ID"], <<>>, b)

\* The rows of UPDATE ... RETURNING.
Returned(stmt, rows, b, ci) ==
  {[i \in DOMAIN stmt.returning |-> UpdatedRow(stmt, r, b, ci)[stmt.returning[i]]] :
     r \in {x \in rows : Hits(stmt, x, b, ci)}}

\* The table a write leaves.
Written(stmt, rows, columns, b, ci) ==
  CASE stmt.node = "insert" ->
         rows \union {InsertedRow(stmt, stmt.rows[i], columns, b, ci) : i \in DOMAIN stmt.rows}
    [] stmt.node = "update" ->
         {IF Hits(stmt, r, b, ci) THEN UpdatedRow(stmt, r, b, ci) ELSE r : r \in rows}
    [] OTHER -> {r \in rows : ~Hits(stmt, r, b, ci)}
=============================================================================
