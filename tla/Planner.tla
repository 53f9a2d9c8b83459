------------------------------ MODULE Planner -------------------------------
(***************************************************************************)
(* internal/config/fields.go and internal/rewrite/{plan,read}.go: the field *)
(* sets, the write plan of a statement and the read plan of its rows.       *)
(***************************************************************************)
EXTENDS Analysis

-----------------------------------------------------------------------------
(* Field sets.                                                              *)

Rule(scheme, lower, index) == [scheme |-> scheme, lower |-> lower, index |-> index]

Det == Rule("d", TRUE, "")
Nondet == Rule("n", FALSE, "")

\* A policy encrypts the value columns of rows whose name has the prefix.
AttributePolicy(name, values, prefix, rule) ==
  [name |-> name, values |-> values, prefix |-> prefix, rule |-> rule]

FieldSet(columns, attrs) == [columns |-> columns, attrs |-> attrs]

Default ==
  FieldSet(
    [k \in {"USER_ENTITY"} \X {"USERNAME", "EMAIL"} |-> Det]
      @@ [k \in ({"USER_ENTITY"} \X {"FIRST_NAME", "LAST_NAME"})
                \union ({"CREDENTIAL"} \X {"SECRET_DATA", "CREDENTIAL_DATA"}) |-> Nondet],
    "USER_ATTRIBUTE" :> AttributePolicy("NAME", {"VALUE", "LONG_VALUE"}, <<"pii-">>, Nondet))

\* The value of KKP_FIELDS.
selectFields(value) ==
  CASE value = "" -> Default
    [] value = "disabled" -> FieldSet(<<>>, <<>>)
    [] value = "email-only" -> FieldSet(<<"USER_ENTITY", "EMAIL">> :> Det, <<>>)
    [] OTHER -> FieldSet(<<"USER_ENTITY", "EMAIL">> :> Rule("d", TRUE, "EMAIL_HASH"), <<>>)

ColumnRule(fs, table, col) == fs.columns[<<table, col>>]

HasRule(fs, table, col) == <<table, col>> \in DOMAIN fs.columns

\* The associated data.
AAD(table, col) == <<table, col>>

-----------------------------------------------------------------------------
(* PlanWrite.  A planner has a field set and may be lenient: what it would  *)
(* refuse it then leaves alone.                                             *)

ParamRule(param, table, col, rule) == [param |-> param, table |-> table, col |-> col, rule |-> rule]

\* The ParamRules of a sequence of ColumnParams.
Rules(fs, table, cps) ==
  [i \in DOMAIN cps |-> ParamRule(cps[i].param, table, cps[i].col, ColumnRule(fs, table, cps[i].col))]

Bound(cps) == SelectSeq(cps, LAMBDA cp : cp.param # 0)

Literal(cps) == \E i \in DOMAIN cps : cps[i].param = 0

\* The ColumnParams among cps that the field set has a rule for.
PII(fs, table, cps) == SelectSeq(cps, LAMBDA cp : HasRule(fs, table, cp.col))

BlindIndexed(rules) == SelectSeq(rules, LAMBDA pr : pr.rule.index # "")

planWrittenColumns(fs, a) == Rules(fs, a.Table, Bound(PII(fs, a.Table, a.WriteColumns)))

Searchable(fs, table, cps) ==
  SelectSeq(PII(fs, table, cps), LAMBDA cp : ColumnRule(fs, table, cp.col).scheme = "d")

planFilteredColumns(fs, a) == Rules(fs, a.Table, Bound(Searchable(fs, a.Table, a.FilterColumns)))

planLikeFilteredColumns(fs, a) == Rules(fs, a.Table, Bound(Searchable(fs, a.Table, a.LikeFilterColumns)))

\* Mutant: only the columns written are looked at.
paramForColumn_Written(a, col) ==
  LET named == SelectSeq(a.WriteColumns, LAMBDA cp : cp.col = col)
  IN  IF named = <<>> THEN 0 ELSE named[1].param

\* The first column of that name that is written, else compared; 0 if none.
paramForColumn(a, col) ==
  LET named == SelectSeq(a.WriteColumns \o a.FilterColumns, LAMBDA cp : cp.col = col)
  IN  IF named = <<>> THEN 0 ELSE named[1].param

HasPolicy(fs, table) == table \in DOMAIN fs.attrs

AttributeValues(fs, a) ==
  SelectSeq(a.WriteColumns,
    LAMBDA cp : HasPolicy(fs, a.Table) /\ cp.col \in fs.attrs[a.Table].values)

\* At most one condition: the name it depends on and the values it is about.
planAttributes(fs, a) ==
  LET values == Bound(AttributeValues(fs, a))
      pol == fs.attrs[a.Table]
      name == paramForColumn(a, pol.name)
  IN  IF values = <<>> \/ name = 0 THEN <<>>
      ELSE <<[name |-> name, prefix |-> pol.prefix,
              values |-> [i \in DOMAIN values |->
                            ParamRule(values[i].param, a.Table, values[i].col, pol.rule)]]>>

\* Mutant: a literal is refused in a filter only.
Unplannable_Written(fs, a) ==
  \/ Literal(PII(fs, a.Table, a.FilterColumns))
  \/ Searchable(fs, a.Table, a.FilterColumns) # PII(fs, a.Table, a.FilterColumns)
  \/ AttributeValues(fs, a) # <<>> /\ paramForColumn(a, fs.attrs[a.Table].name) = 0

\* ErrUnencryptablePII or ErrUnsearchablePII.
Unplannable(fs, a) ==
  \/ Literal(PII(fs, a.Table, a.WriteColumns))
  \/ Literal(PII(fs, a.Table, a.FilterColumns))
  \/ Searchable(fs, a.Table, a.FilterColumns) # PII(fs, a.Table, a.FilterColumns)
  \/ Literal(AttributeValues(fs, a))
  \/ AttributeValues(fs, a) # <<>> /\ paramForColumn(a, fs.attrs[a.Table].name) = 0

\* The plan of a statement that is not refused.
PlanWrite(fs, a) ==
  [Params |-> planWrittenColumns(fs, a) \o planFilteredColumns(fs, a),
   AttributeConditions |-> planAttributes(fs, a),
   LikeParams |-> SelectSeq(planLikeFilteredColumns(fs, a), LAMBDA pr : pr.rule.index = ""),
   BlindIndexFilters |-> BlindIndexed(planLikeFilteredColumns(fs, a)),
   BlindIndexWrites |-> BlindIndexed(planWrittenColumns(fs, a))]

-----------------------------------------------------------------------------
(* PlanRead.                                                                *)

isReadablePIIColumn(fs, table, col) ==
  HasRule(fs, table, col) \/ (HasPolicy(fs, table) /\ col \in fs.attrs[table].values)

\* The relations that configure a result column as PII.
columnOwner(fs, tables, col) == {t \in tables : isReadablePIIColumn(fs, t, col)}

\* The fields with exactly one owner, by position; the others of a PII name
\* are ambiguous.
PlanRead(fs, tables, cols) ==
  LET owners == [i \in DOMAIN cols |-> columnOwner(fs, tables, cols[i])]
      one(i) == \E t \in tables : owners[i] = {t}
      fields == {i \in DOMAIN cols : one(i)}
  IN  [Fields |-> [i \in fields |-> [table |-> CHOOSE t \in tables : owners[i] = {t}, col |-> cols[i]]],
       Ambiguous |-> {i \in DOMAIN cols : owners[i] # {} /\ ~one(i)}]
=============================================================================
