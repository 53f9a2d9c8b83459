------------------------------ MODULE Analysis ------------------------------
(***************************************************************************)
(* internal/rewrite/analyze.go: what the proxy knows of a statement.        *)
(*                                                                         *)
(* FromTables is a set here: the planner only asks which of its relations   *)
(* claim a column.                                                          *)
(***************************************************************************)
EXTENDS Sql

ColumnParam(col, param) == [col |-> col, param |-> param]

\* The parameter an operand is, 0 for anything else; like_escape($n, ...)
\* counts as $n.
RECURSIVE paramNumber(_)
paramNumber(n) ==
  CASE n.node = "param" -> n.number
    [] n.node = "call" /\ n.name = "like_escape" -> paramNumber(n.args[1])
    [] OTHER -> 0

\* The column an operand is, through LOWER and UPPER; "" for anything else.
RECURSIVE columnName(_)
columnName(n) ==
  CASE n.node = "column" -> n.col
    [] n.node = "call" /\ n.name \in {"lower", "upper"} /\ Len(n.args) = 1 -> columnName(n.args[1])
    [] OTHER -> ""

bucketFor(op) ==
  CASE op = "=" -> "eq"
    [] op \in {"~~", "~~*"} -> "like"
    [] OTHER -> "none"

\* The columns a WHERE clause compares, in one of the two ways, with their
\* parameters.
RECURSIVE collectWhere(_, _)
collectWhere(n, bucket) ==
  CASE n.node = "bool" ->
         FlattenSeq([i \in DOMAIN n.args |-> collectWhere(n.args[i], bucket)])
    [] n.node = "aexpr" /\ n.kind \in {"OP", "LIKE", "ILIKE"} /\ bucketFor(n.op) = bucket ->
         IF columnName(n.l) # "" THEN <<ColumnParam(columnName(n.l), paramNumber(n.r))>>
         ELSE IF columnName(n.r) # "" THEN <<ColumnParam(columnName(n.r), paramNumber(n.l))>>
         ELSE <<>>
    [] OTHER -> <<>>

-----------------------------------------------------------------------------
(* The base relations of a SELECT.  ctes is the scope of CTE names, active  *)
(* the ones being resolved.                                                 *)

extendCTEScope(parent, with) ==
  [n \in {with[i].name : i \in DOMAIN with} |->
     with[CHOOSE i \in DOMAIN with :
            with[i].name = n /\ \A j \in DOMAIN with : with[j].name = n => j <= i].query] @@ parent

RECURSIVE walkSelect(_, _, _), walkFromItem(_, _, _)

\* A base relation, or what the query of a CTE reads.
addRelation(name, ctes, active) ==
  IF name \notin DOMAIN ctes THEN {name}
  ELSE IF name \in active THEN {}
  ELSE walkSelect(ctes[name], ctes, active \union {name})

\* Mutant: only the left side of a join.
walkFromItem_Left(item, ctes, active) ==
  CASE item.node = "rel" -> addRelation(item.name, ctes, active)
    [] item.node = "join" -> walkFromItem(item.l, ctes, active)
    [] OTHER -> walkSelect(item.query, ctes, active)

walkFromItem(item, ctes, active) ==
  CASE item.node = "rel" -> addRelation(item.name, ctes, active)
    [] item.node = "join" -> walkFromItem(item.l, ctes, active) \union walkFromItem(item.r, ctes, active)
    [] OTHER -> walkSelect(item.query, ctes, active)

walkSelect(sel, ctes, active) ==
  IF sel = NoNode THEN {}
  ELSE LET scope == extendCTEScope(ctes, sel.with)
       IN  walkSelect(sel.l, scope, active) \union walkSelect(sel.r, scope, active)
           \union UNION {walkFromItem(sel.from[i], scope, active) : i \in DOMAIN sel.from}

selectTables(sel) == walkSelect(sel, <<>>, {})

-----------------------------------------------------------------------------

Analyzed(kind, table, tables, writes, where) ==
  [Kind |-> kind, Table |-> table, FromTables |-> tables, WriteColumns |-> writes,
   FilterColumns |-> collectWhere(where, "eq"), LikeFilterColumns |-> collectWhere(where, "like")]

\* Only the first VALUES list is looked at; a column without a value in it
\* has parameter 0.
analyzeInsert(ins) ==
  Analyzed("insert", ins.table, {ins.table},
    [i \in DOMAIN ins.cols |->
       ColumnParam(ins.cols[i],
                   IF ins.rows # <<>> /\ i <= Len(ins.rows[1]) THEN paramNumber(ins.rows[1][i]) ELSE 0)],
    NoNode)

analyzeUpdate(upd) ==
  Analyzed("update", upd.table, {upd.table},
    [i \in DOMAIN upd.sets |-> ColumnParam(upd.sets[i].col, paramNumber(upd.sets[i].val))], upd.where)

\* Table is the first FROM item if that is a plain relation.
analyzeSelect(sel) ==
  Analyzed("select",
    IF sel.from # <<>> /\ sel.from[1].node = "rel" THEN sel.from[1].name ELSE "",
    selectTables(sel), <<>>, sel.where)

analyzeDelete(del) == Analyzed("delete", del.table, {del.table}, <<>>, del.where)

\* Analyze of one statement that pg_query parses.
Analyze(stmt) ==
  CASE stmt.node = "insert" -> analyzeInsert(stmt)
    [] stmt.node = "update" -> analyzeUpdate(stmt)
    [] stmt.node = "select" -> analyzeSelect(stmt)
    [] OTHER -> analyzeDelete(stmt)
=============================================================================
