---------------------------- MODULE MCStatements ----------------------------
(* Statements of the kinds in testdata/keycloak and of the rewriter's tests, *)
(* on small tables, for TLC.                                                *)
EXTENDS Statements

\* Two addresses, one with a \, a spelling of one, and patterns.
a == <<"a">>
A == <<"A">>
bb == <<"b", "\\", "A">>
under == <<"b", "_">>
escaped == <<"b", "\\", "_">>
Around(x) == <<"%">> \o x \o <<"%">>
Plain ==
  {a, A, bb, under, escaped, <<"b", "A">>, <<"%">>, <<>>, <<"A", "%">>, Around(A), Around(bb), Around(escaped),
   <<"1">>, <<"2">>, <<"pii-", "x">>, <<"x">>}
LowerChar(c) == IF c = "A" THEN "a" ELSE c
\* Patterns reach LIKE with a \ doubled, and in lower case.
Lowercase(x) == [i \in DOMAIN x |-> LowerChar(x[i])]
MCTexts == UNION {{x, Lowercase(x)} : x \in Plain \union {Doubled(x) : x \in Plain}}
MCLower == [x \in MCTexts |-> Lowercase(x)]

One == Text(<<"1">>)
Two == Text(<<"2">>)
Realm == One
Awkward == Malformed(bb)

MCColumns ==
  [USER_ENTITY |-> {"ID", "EMAIL", "USERNAME", "REALM_ID", "EMAIL_HASH"},
   CREDENTIAL |-> {"ID", "USER_ID", "SECRET_DATA"},
   USER_ATTRIBUTE |-> {"ID", "NAME", "VALUE"}]

P(n) == ParamRef(n)
C(col) == ColumnRef("", col)
Eq(l, r) == AExpr("OP", "=", l, r)
LikeEsc(l, r) == AExpr("LIKE", "~~", l, FuncCall("like_escape", <<r, Const(Text(<<>>))>>))
Like0(l, r) == AExpr("LIKE", "~~", l, r)
And(l, r) == BoolExpr("and", <<l, r>>)
Or(l, r) == BoolExpr("or", <<l, r>>)
Not(e) == BoolExpr("not", <<e>>)
From(t) == <<RangeVar(t, "T")>>
SetTo(col, val) == [col |-> col, val |-> val]

\* A statement with each of a set of bindings.
With(stmt, bindings) == {<<stmt, b>> : b \in bindings}

Emails == {Text(A), Text(bb), NULL}

Users ==
  With(InsertStmt("USER_ENTITY", <<"EMAIL", "REALM_ID", "USERNAME", "ID">>, <<<<P(1), P(2), P(3), P(4)>>>>),
       {<<e, Realm, Text(bb), i>> : e \in Emails, i \in {One, Two}})
  \union
  With(UpdateStmt("USER_ENTITY", <<SetTo("EMAIL", P(1)), SetTo("REALM_ID", P(2)), SetTo("USERNAME", P(3))>>,
                  Eq(C("ID"), P(4)), <<>>),
       {<<Text(A), Realm, Text(a), One>>, <<Text(bb), Two, Text(a), One>>, <<NULL, Realm, Text(bb), One>>})
  \union
  With(UpdateStmt("USER_ENTITY", <<SetTo("EMAIL", P(1))>>,
                  And(LikeEsc(C("EMAIL"), P(2)), Eq(P(3), C("REALM_ID"))), <<"ID", "EMAIL">>),
       {<<Text(bb), Text(A), Realm>>})
  \union
  With(DeleteStmt("USER_ENTITY", Eq(C("EMAIL"), P(1))), {<<Text(a)>>})

Searches ==
  With(SelectStmt(<<>>, From("USER_ENTITY"), <<C("ID"), C("EMAIL"), C("USERNAME")>>,
                  And(Eq(ColumnRef("T", "EMAIL"), P(1)), Eq(C("REALM_ID"), P(2)))),
       {<<e, Realm>> : e \in {Text(a), Text(bb)}})
  \union
  With(SelectStmt(<<>>, From("USER_ENTITY"), <<C("ID"), C("EMAIL")>>,
                  And(Or(LikeEsc(C("USERNAME"), P(1)), LikeEsc(C("EMAIL"), P(2))), Not(Eq(C("REALM_ID"), P(3))))),
       {<<Text(a), Text(p), Two>> : p \in {A, bb, escaped, Around(A), Around(bb), Around(escaped), <<"A", "%">>}})
  \union
  With(SelectStmt(<<>>, From("USER_ENTITY"), <<C("ID"), C("EMAIL")>>, Like0(C("EMAIL"), P(1))),
       {<<Text(p)>> : p \in {A, bb}})

Secrets ==
  With(InsertStmt("CREDENTIAL", <<"ID", "USER_ID", "SECRET_DATA">>, <<<<P(1), P(2), P(3)>>>>),
       {<<One, One, s>> : s \in {Text(A), Awkward}})
  \union
  With(SelectStmt(<<>>,
         <<JoinExpr(RangeVar("CREDENTIAL", "C"), RangeVar("USER_ENTITY", "U"),
                    Eq(ColumnRef("U", "ID"), ColumnRef("C", "USER_ID")))>>,
         <<ColumnRef("U", "EMAIL"), ColumnRef("C", "SECRET_DATA")>>, NoNode), {<<>>})
  \union
  With(SelectStmt(<<[name |-> "W", query |-> SelectStmt(<<>>, From("CREDENTIAL"), <<C("SECRET_DATA")>>, NoNode)]>>,
         <<RangeSubselect(SelectStmt(<<>>, From("USER_ENTITY"), <<C("EMAIL"), C("ID")>>, NoNode), "S"),
           RangeVar("W", "W")>>,
         <<ColumnRef("W", "SECRET_DATA"), ColumnRef("S", "EMAIL")>>, NoNode), {<<>>})
  \union
  With(Union(SelectStmt(<<>>, From("USER_ENTITY"), <<C("EMAIL")>>, Eq(C("REALM_ID"), P(1))),
             SelectStmt(<<>>, From("USER_ENTITY"), <<C("EMAIL")>>, Eq(C("ID"), P(2)))), {<<Two, Two>>})

Attributes ==
  With(InsertStmt("USER_ATTRIBUTE", <<"NAME", "VALUE", "ID">>, <<<<P(1), P(2), P(3)>>>>),
       {<<Text(n), v, One>> : n \in {<<"pii-", "x">>, <<"x">>}, v \in {Text(A), Awkward}})
  \union
  With(UpdateStmt("USER_ATTRIBUTE", <<SetTo("VALUE", P(1))>>, Eq(C("NAME"), P(2)), <<>>),
       {<<Text(bb), Text(<<"pii-", "x">>)>>})
  \union
  With(SelectStmt(<<>>, From("USER_ATTRIBUTE"), <<C("NAME"), C("VALUE")>>, Eq(C("ID"), P(1))), {<<One>>})

MCParameterised == Users \union Searches \union Secrets \union Attributes

MCLiterals ==
  With(UpdateStmt("USER_ENTITY", <<SetTo("EMAIL", Const(Text(bb)))>>, Eq(C("ID"), P(1)), <<>>), {<<One>>})
  \union
  With(SelectStmt(<<>>, From("USER_ENTITY"), <<C("ID")>>, Eq(C("EMAIL"), Const(Text(bb)))), {<<>>})
  \union
  With(SelectStmt(<<>>, From("CREDENTIAL"), <<C("ID")>>, Eq(C("SECRET_DATA"), P(1))), {<<Text(A)>>})
  \union
  With(UpdateStmt("USER_ATTRIBUTE", <<SetTo("VALUE", P(1))>>, Eq(C("ID"), P(2)), <<>>), {<<Text(A), One>>})

\* The searches of README.md's paragraph on LIKE: through LOWER.
MCLowered ==
  With(InsertStmt("USER_ENTITY", <<"EMAIL", "REALM_ID", "USERNAME", "ID">>, <<<<P(1), P(2), P(3), P(4)>>>>),
       {<<e, Realm, Text(bb), i>> : e \in Emails, i \in {One, Two}})
  \union
  With(SelectStmt(<<>>, From("USER_ENTITY"), <<C("ID"), C("EMAIL")>>,
                  LikeEsc(FuncCall("lower", <<C("EMAIL")>>), P(1))), {<<Text(a)>>})

\* An address with a _, searched for with the _ behind a \.
MCEscaped ==
  With(InsertStmt("USER_ENTITY", <<"EMAIL", "REALM_ID", "USERNAME", "ID">>, <<<<P(1), P(2), P(3), P(4)>>>>),
       {<<Text(under), Realm, Text(bb), One>>})
  \union
  With(SelectStmt(<<>>, From("USER_ENTITY"), <<C("ID"), C("EMAIL")>>, Like0(C("EMAIL"), P(1))), {<<Text(escaped)>>})
=============================================================================
