----------------------------- MODULE BlindIndex -----------------------------
(***************************************************************************)
(* internal/rewrite/blindindex.go: the two rewritings of a statement that   *)
(* bring in the hash column.                                                *)
(***************************************************************************)
EXTENDS Planner

-----------------------------------------------------------------------------
(* BlindIndexQuery: <col> LIKE $n becomes <hash> = $n.                      *)

Unwrapped(n) == IF n.node = "call" /\ n.name = "like_escape" THEN n.args[1] ELSE n

\* mapping takes a column to its hash column.
RECURSIVE mutateWhereClause(_, _)
mutateWhereClause(n, mapping) ==
  CASE n.node = "bool" -> [n EXCEPT !.args = [i \in DOMAIN n.args |-> mutateWhereClause(n.args[i], mapping)]]
    [] n.node = "aexpr" /\ n.kind \in {"LIKE", "ILIKE"} /\ columnName(n.l) \in DOMAIN mapping ->
         AExpr("OP", "=", ColumnRef("", mapping[columnName(n.l)]), Unwrapped(n.r))
    [] OTHER -> n

BlindIndexQuery(stmt, filters) ==
  IF filters = <<>> \/ stmt.node = "insert" THEN stmt
  ELSE LET mapping == [c \in {filters[i].col : i \in DOMAIN filters} |->
                         filters[CHOOSE i \in DOMAIN filters : filters[i].col = c].rule.index]
       IN  [stmt EXCEPT !.where = mutateWhereClause(stmt.where, mapping)]

-----------------------------------------------------------------------------
(* BlindIndexWriteSQL: the hash is written beside its column, as a new      *)
(* parameter.                                                               *)

\* The parameters the walk of maxParamRef comes to: not those in function
\* calls.
RECURSIVE ParamsIn(_)
ParamsIn(n) ==
  CASE n.node = "param" -> {n.number}
    [] n.node = "bool" -> UNION {ParamsIn(n.args[i]) : i \in DOMAIN n.args}
    [] n.node = "aexpr" -> ParamsIn(n.l) \union ParamsIn(n.r)
    [] n.node = "insert" -> UNION {ParamsIn(e) : e \in UNION {ToSet(n.rows[i]) : i \in DOMAIN n.rows}}
    [] n.node = "update" -> UNION {ParamsIn(n.sets[i].val) : i \in DOMAIN n.sets} \union ParamsIn(n.where)
    [] OTHER -> {}

\* Mutant: the parameters of the WHERE clause are forgotten.
maxParamRef_NoWhere(stmt) ==
  Max({0} \union (ParamsIn(stmt) \ IF stmt.node = "update" THEN ParamsIn(stmt.where) ELSE {}))

maxParamRef(stmt) == Max({0} \union ParamsIn(stmt))

\* allocs, by source parameter: a parameter that is the source of several
\* hashes has the number of the last.
NewParams(stmt, writes) ==
  [p \in {writes[i].param : i \in DOMAIN writes} |->
     maxParamRef(stmt) + Max({i \in DOMAIN writes : writes[i].param = p})]

\* Mutant: the hash column gets the parameter of its source.
BlindIndexWriteSQL_Source(stmt, writes) ==
  IF writes = <<>> THEN stmt
  ELSE IF stmt.node = "insert"
  THEN [stmt EXCEPT !.cols = @ \o [i \in DOMAIN writes |-> writes[i].rule.index],
                    !.rows = [i \in DOMAIN @ |->
                                IF i = 1 THEN @[i] \o [j \in DOMAIN writes |-> ParamRef(writes[j].param)] ELSE @[i]]]
  ELSE [stmt EXCEPT !.sets = @ \o [i \in DOMAIN writes |->
                                     [col |-> writes[i].rule.index, val |-> ParamRef(writes[i].param)]]]

\* In an INSERT only the first VALUES list gets the value.
BlindIndexWriteSQL(stmt, writes) ==
  LET new(w) == ParamRef(NewParams(stmt, writes)[w.param])
  IN  IF writes = <<>> THEN stmt
      ELSE IF stmt.node = "insert"
      THEN [stmt EXCEPT !.cols = @ \o [i \in DOMAIN writes |-> writes[i].rule.index],
                        !.rows = [i \in DOMAIN @ |->
                                    IF i = 1 THEN @[i] \o [j \in DOMAIN writes |-> new(writes[j])] ELSE @[i]]]
      ELSE [stmt EXCEPT !.sets = @ \o [i \in DOMAIN writes |->
                                         [col |-> writes[i].rule.index, val |-> new(writes[i])]]]
=============================================================================
