------------------------- MODULE SessionPlanProofs --------------------------
(***************************************************************************)
(* The objects of the session.  The first part shows that the columns and  *)
(* the plan on an object are those of its own SQL (HeapInv), given that a  *)
(* RowDescription is learned for the statement it describes, which         *)
(* SessionDescribeProofs provides.  The second part shows that a statement *)
(* name means the same statement to the session and to the backend by the  *)
(* time the backend acts on it (StmtInv), for a client that names          *)
(* statements the way pgjdbc does.                                         *)
(***************************************************************************)
EXTENDS SessionProofs

-----------------------------------------------------------------------------
(* The heaps only grow: a portal keeps its statement, a statement its SQL   *)
(* and the fact that its columns are known.                                 *)

HeapGrows ==
  /\ Len(stmt) <= Len(stmt') /\ Len(portal) <= Len(portal')
  /\ \A x \in 1..Len(stmt) :
       /\ stmt'[x].sql = stmt[x].sql
       /\ stmt[x].cols # NoQuery => stmt'[x].cols # NoQuery
  /\ \A x \in 1..Len(portal) : portal'[x].stmt = portal[x].stmt

\* A step that leaves the heaps alone.
LEMMA HeapSame ==
  ASSUME TypeOK, UNCHANGED <<stmt, portal>>
  PROVE  HeapGrows
  BY Lengths DEF HeapGrows

\* learnColumns.
LEMMA HeapLearns ==
  ASSUME TypeOK, NEW s \in 1..Len(stmt), NEW p \in 0..Len(portal), NEW cols \in Queries,
         LearnColumns(s, p, cols)
  PROVE  HeapGrows
<1>1. Len(stmt) \in Nat /\ Len(portal) \in Nat /\ Len(stmt') = Len(stmt) /\ Len(portal') = Len(portal)
  BY LearnType, Lengths, Zenon
<1>2. stmt \in Seq(PreparedStatement) /\ portal \in Seq([stmt : 0..Len(stmt), plan : Plans])
  BY Zenon DEF TypeOK
<1>3. \A x \in 1..Len(stmt) :
        /\ stmt'[x].sql = stmt[x].sql
        /\ stmt[x].cols # NoQuery => stmt'[x].cols # NoQuery
  <2>1. \A x \in 1..Len(stmt) : stmt[x] \in PreparedStatement
    BY <1>2, SeqEntry, Zenon
  <2>2. stmt' = [stmt EXCEPT ![s].cols = cols]
    BY Zenon DEF LearnColumns
  <2>3. cols # NoQuery
    BY QueriesAssumption
  <2> QED  BY <1>1, <1>2, <2>1, <2>2, <2>3 DEF PreparedStatement
<1>4. \A x \in 1..Len(portal) : portal'[x].stmt = portal[x].stmt
  <2>1. \A x \in 1..Len(portal) : portal[x] \in [stmt : 0..Len(stmt), plan : Plans]
    BY <1>2, SeqEntry, Zenon
  <2>2. portal' = IF p = nil THEN portal
                  ELSE [portal EXCEPT ![p].plan = planRead(stmt[s], cols)]
    BY Zenon DEF LearnColumns
  <2> QED  BY <1>1, <1>2, <2>1, <2>2
<1> QED
  BY <1>1, <1>3, <1>4 DEF HeapGrows

\* OnRowDescription.
LEMMA HeapRowDescription ==
  ASSUME TypeOK, NEW cols \in Queries, OnRowDescription(cols)
  PROVE  HeapGrows
<1>1. CASE UNCHANGED <<stmt, portal>>
  BY <1>1, HeapSame, Zenon
<1>2. CASE DescribePending /\ Head(describes).stmt # nil
  <2>1. Head(describes) \in [boundary : BOOLEAN, stmt : 0..Len(stmt), portal : 0..Len(portal)]
    BY <1>2, SeqTail, Zenon DEF DescribePending, TypeOK
  <2>2. Head(describes).stmt \in 1..Len(stmt) /\ Head(describes).portal \in 0..Len(portal)
    BY <1>2, <2>1, Lengths DEF nil
  <2>3. LearnColumns(Head(describes).stmt, Head(describes).portal, cols)
    BY <1>2, Zenon DEF OnRowDescription
  <2> QED  BY <2>2, <2>3, HeapLearns, Zenon
<1>3. CASE ~DescribePending /\ CurrentExecuting # nil /\ portal[CurrentExecuting].stmt # nil
  <2>1. CurrentExecuting \in 1..Len(portal)
    BY <1>3, CurrentType, Lengths DEF nil
  <2>2. portal[CurrentExecuting].stmt \in 1..Len(stmt)
    BY <1>3, <2>1, PortalStmt, Lengths DEF nil
  <2>3. LearnColumns(portal[CurrentExecuting].stmt, CurrentExecuting, cols)
    BY <1>3, Zenon DEF OnRowDescription
  <2>4. CurrentExecuting \in 0..Len(portal)
    BY CurrentType
  <2> QED  BY <2>2, <2>3, <2>4, HeapLearns, Zenon
<1> QED
  BY <1>1, <1>2, <1>3, Zenon DEF OnRowDescription

\* DecryptDataRow.
LEMMA HeapDecrypts ==
  ASSUME TypeOK, DecryptDataRow
  PROVE  HeapGrows
<1>1. Len(stmt) \in Nat /\ Len(portal) \in Nat /\ Len(portal') = Len(portal) /\ UNCHANGED stmt
  BY DecryptType, Lengths DEF DecryptDataRow
<1>2. portal \in Seq([stmt : 0..Len(stmt), plan : Plans])
  BY DEF TypeOK
<1>3. \A x \in 1..Len(portal) : portal[x] \in [stmt : 0..Len(stmt), plan : Plans]
  BY <1>2, SeqEntry, Zenon
<1>4. portal' = IF CurrentExecuting = nil THEN portal
                ELSE [portal EXCEPT ![CurrentExecuting].plan = ensureReadPlan(CurrentExecuting)]
  BY DEF DecryptDataRow
<1>5. \A x \in 1..Len(portal) : portal'[x].stmt = portal[x].stmt
  BY <1>1, <1>2, <1>3, <1>4
<1> QED
  BY <1>1, <1>5 DEF HeapGrows

\* Appending to the heaps.
LEMMA HeapAppends ==
  ASSUME TypeOK, NEW S, NEW a \in Seq(S), NEW P, NEW b \in Seq(P),
         stmt' = stmt \o a, portal' = portal \o b
  PROVE  HeapGrows
<1>1. stmt \in Seq(PreparedStatement) /\ portal \in Seq([stmt : 0..Len(stmt), plan : Plans])
  BY DEF TypeOK
<1>2. Len(a) \in Nat /\ Len(b) \in Nat /\ Len(stmt) \in Nat /\ Len(portal) \in Nat
  BY Lengths, SeqLength
<1>3. /\ Len(stmt') = Len(stmt) + Len(a) /\ \A x \in 1..Len(stmt) : stmt'[x] = stmt[x]
  BY <1>1, <1>2
<1>4. /\ Len(portal') = Len(portal) + Len(b) /\ \A x \in 1..Len(portal) : portal'[x] = portal[x]
  BY <1>1, <1>2
<1> QED
  BY <1>2, <1>3, <1>4 DEF HeapGrows

\* OnQuery.
LEMMA HeapQuery ==
  ASSUME TypeOK, NEW t \in SimpleTexts, OnQuery(t)
  PROVE  HeapGrows
<1>1. PICK k \in 0..Len(t) :
        /\ stmt' = stmt \o [i \in 1..k |-> [sql |-> t[i], cols |-> NoQuery]]
        /\ portal' = portal \o [i \in 1..k |-> [stmt |-> Len(stmt) + i, plan |-> NoPlan]]
  BY Zenon DEF OnQuery
<1> DEFINE a == [i \in 1..k |-> [sql |-> t[i], cols |-> NoQuery]]
           b == [i \in 1..k |-> [stmt |-> Len(stmt) + i, plan |-> NoPlan]]
           S == {[sql |-> t[i], cols |-> NoQuery] : i \in 1..k}
           P == {[stmt |-> Len(stmt) + i, plan |-> NoPlan] : i \in 1..k}
<1>2. k \in Nat
  BY TextsAssumption, SeqLength
<1>3. a \in Seq(S) /\ b \in Seq(P)
  <2>1. \A i \in 1..k : [sql |-> t[i], cols |-> NoQuery] \in S
    BY Zenon
  <2>2. \A i \in 1..k : [stmt |-> Len(stmt) + i, plan |-> NoPlan] \in P
    BY Zenon
  <2> HIDE DEF S, P
  <2>3. a \in Seq(S)
    BY <1>2, <2>1
  <2>4. b \in Seq(P)
    BY <1>2, <2>2
  <2> QED  BY <2>3, <2>4, Zenon
<1>4. stmt' = stmt \o a /\ portal' = portal \o b
  BY <1>1, Zenon
<1> HIDE DEF a, b, S, P
<1> QED
  BY <1>3, <1>4, HeapAppends, Zenon

\* Every step only adds to the heaps.
LEMMA HeapNext ==
  ASSUME TypeOK, [Next]_vars
  PROVE  HeapGrows
<1>1. stmt \in Seq(PreparedStatement) /\ portal \in Seq([stmt : 0..Len(stmt), plan : Plans])
  BY DEF TypeOK
<1>2. ASSUME NEW s \in StmtNames, NEW q \in Queries, OnParse(s, q) PROVE HeapGrows
  <2>1. CASE q \in Rejected
    BY <1>2, <2>1, HeapSame, Zenon DEF OnParse
  <2>2. CASE q \notin Rejected
    <3>1. stmt' = Append(stmt, [sql |-> q, cols |-> NoQuery]) /\ portal' = portal
      BY <1>2, <2>2, Zenon DEF OnParse
    <3>2. Len(stmt') = Len(stmt) + 1 /\ \A x \in 1..Len(stmt) : stmt'[x] = stmt[x]
      <4>1. [sql |-> q, cols |-> NoQuery] \in PreparedStatement
        BY Zenon DEF PreparedStatement
      <4> QED  BY <1>1, <3>1, <4>1
    <3> QED  BY <3>1, <3>2, Lengths DEF HeapGrows
  <2> QED  BY <2>1, <2>2, Zenon
<1>3. ASSUME NEW s \in StmtNames, NEW p \in PortalNames, OnBind(s, p) \/ OnBindFails(s, p)
      PROVE  HeapGrows
  <2>1. portal' = Append(portal, [stmt |-> statements[s], plan |-> NoPlan]) /\ stmt' = stmt
    BY <1>3, Zenon DEF OnBind, OnBindFails
  <2>2. Len(portal') = Len(portal) + 1 /\ \A x \in 1..Len(portal) : portal'[x] = portal[x]
    BY <1>1, <2>1, Lengths
  <2> QED  BY <2>1, <2>2, Lengths DEF HeapGrows
<1>4. ASSUME NEW s \in StmtNames, NEW p \in PortalNames,
             OnExecute(p) \/ OnDescribeP(p) \/ OnCloseP(p) \/ OnDescribeS(s) \/ OnCloseS(s)
      PROVE  HeapGrows
  BY <1>4, HeapSame, Zenon DEF OnExecute, OnDescribeP, OnCloseP, OnDescribeS, OnCloseS
<1>5. CASE OnSync \/ Send \/ ClientGone
  BY <1>5, HeapSame, Zenon DEF OnSync, Send, ClientGone, sessionVars
<1>6. CASE Frontend
  BY <1>2, <1>3, <1>4, <1>5, <1>6, HeapQuery, NamesAssumption, Zenon DEF Frontend
<1>7. CASE RowDescription
  <2>1. stmt[Described].sql \in Queries
    BY <1>7, DescribedType, Zenon DEF RowDescription, Working
  <2> QED  BY <1>7, <2>1, HeapRowDescription, Zenon DEF RowDescription
<1>8. CASE QueryRowDescription
  <2>1. cur.text[bdone + 1] \in Queries
    BY <1>8, QueriesAssumption, Zenon DEF QueryRowDescription
  <2> QED  BY <1>8, <2>1, HeapRowDescription, Zenon DEF QueryRowDescription
<1>9. CASE DataRow \/ DataRowFails
  BY <1>9, HeapDecrypts, Zenon DEF DataRow, DataRowFails
<1>10. CASE Parsed \/ Bound \/ Closed \/ Skip \/ BackendGone
  BY <1>10, HeapSame, Zenon DEF Parsed, Bound, Closed, Skip, BackendGone, sessionVars
<1>11. CASE StartupReady \/ ErrorResponse \/ ReadyForQuery
  BY <1>11, HeapSame, Zenon
    DEF StartupReady, ErrorResponse, ReadyForQuery, OnReadyForQuery, OnErrorResponse
<1>12. CASE NoData \/ ExecuteDone \/ QueryStatementDone
  BY <1>12, HeapSame, Zenon
    DEF NoData, ExecuteDone, QueryStatementDone, OnNoData, popExecuting
<1>13. CASE Backend
  BY <1>7, <1>8, <1>9, <1>10, <1>11, <1>12, <1>13, Zenon DEF Backend
<1>14. CASE UNCHANGED vars
  BY <1>14, HeapSame, Zenon DEF vars, sessionVars
<1> QED
  BY <1>6, <1>13, <1>14, Zenon DEF Next

\* What a Bind or a Describe of a statement means is what the backend holds.
LEMMA UseFacts ==
  ASSUME TypeOK, StmtInv, Working({"Bind", "DescribeS"}), bStmts[cur.stmt] # nil
  PROVE  Meant(cur, portal) = bStmts[cur.stmt]
<1>1. /\ pipe \in Seq(Message) /\ pipe # <<>> /\ pipe[1] = cur /\ bstate = "idle"
      /\ Uses(cur)
  BY PipeType DEF Working, Uses
<1>2. 1 \in 1..Len(pipe)
  BY <1>1, TailFacts
<1>3. Names(pipe, 1 - 1, cur.stmt, Meant(cur, portal), bstate, bStmts)
  BY <1>1, <1>2, Zenon DEF StmtInv, UsesInv
<1>4. NoneSets(pipe, 0, 1 - 1, cur.stmt)
  BY DEF NoneSets
<1> QED
  BY <1>1, <1>3, <1>4, Zenon DEF Names, AllDead

-----------------------------------------------------------------------------
(* The columns and the plans in the heaps.                                  *)

\* Every plan that planRead makes from a statement's own columns is its own.
LEMMA PlanOwn ==
  ASSUME NEW ps \in PreparedStatement
  PROVE  planRead(ps, ps.sql) \in {NoPlan, OwnPlan(ps.sql)}
  BY Zenon DEF planRead, OwnPlan

\* Steps that leave the heaps alone.
LEMMA ColumnsSame ==
  ASSUME ColumnsInv, UNCHANGED <<stmt, portal, bDescribed>>
  PROVE  ColumnsInv'
  BY Zenon DEF ColumnsInv

\* A RowDescription is learned for the statement it describes.
LEMMA ColumnsLearn ==
  ASSUME TypeOK, ColumnsInv, NEW s \in 1..Len(stmt), NEW p \in 0..Len(portal),
         p # nil => portal[p].stmt = s,
         LearnColumns(s, p, stmt[s].sql), bDescribed' \subseteq bDescribed \union {s}
  PROVE  ColumnsInv' /\ stmt'[s].cols # NoQuery
<1> DEFINE q == stmt[s].sql
<1>1. /\ Len(stmt) \in Nat /\ Len(portal) \in Nat
      /\ stmt \in Seq(PreparedStatement) /\ portal \in Seq([stmt : 0..Len(stmt), plan : Plans])
  BY Lengths, Zenon DEF TypeOK
<1>2. \A x \in 1..Len(stmt) : stmt[x] \in PreparedStatement
  BY <1>1, SeqEntry, Zenon
<1>3. q \in Queries /\ q # NoQuery
  BY <1>2, QueriesAssumption, Zenon DEF PreparedStatement
<1>4. Len(stmt') = Len(stmt) /\ Len(portal') = Len(portal)
  BY <1>3, LearnType, Zenon
<1>5. \A x \in 1..Len(stmt) :
        /\ stmt'[x].sql = stmt[x].sql
        /\ stmt'[x].cols = IF x = s THEN q ELSE stmt[x].cols
  <2>1. stmt' = [stmt EXCEPT ![s].cols = q]
    BY Zenon DEF LearnColumns
  <2> HIDE DEF q
  <2> QED  BY <1>1, <1>2, <2>1 DEF PreparedStatement
<1>6. \A x \in 1..Len(portal) :
        /\ portal'[x].stmt = portal[x].stmt
        /\ portal'[x].plan = IF x = p THEN planRead(stmt[s], q) ELSE portal[x].plan
  <2>1. portal' = IF p = nil THEN portal ELSE [portal EXCEPT ![p].plan = planRead(stmt[s], q)]
    BY Zenon DEF LearnColumns
  <2>2. \A x \in 1..Len(portal) : portal[x] \in [stmt : 0..Len(stmt), plan : Plans]
    BY <1>1, SeqEntry, Zenon
  <2>3. nil \notin 1..Len(portal)
    BY <1>1 DEF nil
  <2> HIDE DEF q
  <2> QED  BY <1>1, <2>1, <2>2, <2>3
<1>7. planRead(stmt[s], q) \in {NoPlan, OwnPlan(q)}
  BY <1>2, PlanOwn, Zenon
<1>8. \A x \in 1..Len(stmt') : stmt'[x].cols \in {NoQuery, stmt'[x].sql}
  BY <1>4, <1>5, Zenon DEF ColumnsInv
<1>9. \A x \in 1..Len(portal') :
        portal'[x].plan # NoPlan =>
          portal'[x].stmt # nil /\ portal'[x].plan = OwnPlan(stmt'[portal'[x].stmt].sql)
  <2> SUFFICES ASSUME NEW x \in 1..Len(portal), portal'[x].plan # NoPlan
               PROVE  portal'[x].stmt # nil /\ portal'[x].plan = OwnPlan(stmt'[portal'[x].stmt].sql)
    BY <1>4, Zenon
  <2>1. s # nil
    BY <1>1 DEF nil
  <2>2. CASE x = p
    <3>1. portal[x].stmt = s /\ portal'[x].plan = OwnPlan(q)
      BY <1>1, <1>6, <1>7, <2>2 DEF nil
    <3> QED  BY <1>5, <1>6, <2>1, <3>1, Zenon
  <2>3. CASE x # p
    <3>1. portal[x].stmt # nil /\ portal[x].plan = OwnPlan(stmt[portal[x].stmt].sql)
          /\ portal'[x].plan = portal[x].plan
      BY <1>6, <2>3, Zenon DEF ColumnsInv
    <3>2. portal[x].stmt \in 1..Len(stmt)
      BY <1>1, <3>1, PortalStmt DEF nil
    <3> QED  BY <1>5, <1>6, <3>1, <3>2, Zenon
  <2> QED  BY <2>2, <2>3, Zenon
<1>10. \A x \in bDescribed' : stmt'[x].cols # NoQuery
  <2> SUFFICES ASSUME NEW x \in bDescribed' PROVE stmt'[x].cols # NoQuery
    BY Zenon
  <2>1. x \in 1..Len(stmt) /\ (x = s \/ stmt[x].cols # NoQuery)
    BY Zenon DEF TypeOK, ColumnsInv
  <2> QED  BY <1>3, <1>5, <2>1, Zenon
<1> QED
  BY <1>3, <1>5, <1>8, <1>9, <1>10, Zenon DEF ColumnsInv

\* The plan a row is decrypted with, for a portal of the heap.
LEMMA RowPlanOwn ==
  ASSUME TypeOK, ColumnsInv, NEW p \in 1..Len(portal)
  PROVE  /\ portal[p].stmt = nil => ensureReadPlan(p) = NoPlan
         /\ portal[p].stmt # nil =>
              /\ portal[p].stmt \in 1..Len(stmt)
              /\ ensureReadPlan(p) \in {NoPlan, OwnPlan(stmt[portal[p].stmt].sql)}
              /\ stmt[portal[p].stmt].cols # NoQuery
                   /\ stmt[portal[p].stmt].sql \notin Unparsable => ensureReadPlan(p) # NoPlan
<1> DEFINE s == portal[p].stmt
<1>1. CASE s = nil
  <2>1. portal[p].plan = NoPlan
    BY <1>1, Zenon DEF ColumnsInv
  <2> QED  BY <1>1, <2>1, Zenon DEF ensureReadPlan
<1>2. CASE s # nil
  <2>1. s \in 1..Len(stmt)
    BY <1>2, PortalStmt, Lengths DEF nil
  <2>2. stmt[s] \in PreparedStatement
    BY <2>1, SeqEntry DEF TypeOK
  <2>3. portal[p].plan \in {NoPlan, OwnPlan(stmt[s].sql)} /\ stmt[s].cols \in {NoQuery, stmt[s].sql}
    BY <1>2, <2>1, Zenon DEF ColumnsInv
  <2>4. stmt[s].sql # NoQuery
    BY <2>2, QueriesAssumption, Zenon DEF PreparedStatement
  <2>5. CASE portal[p].plan = NoPlan /\ stmt[s].cols # NoQuery
    <3>1. ensureReadPlan(p) = planRead(stmt[s], stmt[s].sql)
      BY <1>2, <2>3, <2>5, Zenon DEF ensureReadPlan
    <3>2. stmt[s].sql \notin Unparsable => planRead(stmt[s], stmt[s].sql) # NoPlan
      BY <2>4, Zenon DEF planRead, NoPlan
    <3> QED  BY <1>2, <2>1, <2>2, <3>1, <3>2, PlanOwn, Zenon
  <2>6. CASE ~(portal[p].plan = NoPlan /\ stmt[s].cols # NoQuery)
    BY <1>2, <2>1, <2>3, <2>6, Zenon DEF ensureReadPlan
  <2> QED  BY <2>5, <2>6, Zenon
<1> QED
  BY <1>1, <1>2, Zenon

\* Decrypting a row keeps the portal's own plan.
LEMMA ColumnsDecrypt ==
  ASSUME TypeOK, ColumnsInv, DecryptDataRow, UNCHANGED bDescribed
  PROVE  ColumnsInv'
<1>1. /\ Len(stmt) \in Nat /\ Len(portal) \in Nat /\ Len(portal') = Len(portal) /\ UNCHANGED stmt
      /\ portal \in Seq([stmt : 0..Len(stmt), plan : Plans])
  BY DecryptType, Lengths, Zenon DEF DecryptDataRow, TypeOK
<1>2. CASE CurrentExecuting = nil
  BY <1>1, <1>2, ColumnsSame, Zenon DEF DecryptDataRow
<1>3. CASE CurrentExecuting # nil
  <2> DEFINE p == CurrentExecuting
             pl == ensureReadPlan(p)
  <2>1. p \in 1..Len(portal)
    BY <1>1, <1>3, CurrentType DEF nil
  <2>2. portal' = [portal EXCEPT ![p].plan = pl]
    BY <1>3, Zenon DEF DecryptDataRow
  <2>3. \/ pl = NoPlan
        \/ portal[p].stmt # nil /\ pl = OwnPlan(stmt[portal[p].stmt].sql)
    BY <2>1, RowPlanOwn, Zenon
  <2> HIDE DEF p, pl
  <2>4. \A x \in 1..Len(portal) :
          /\ portal'[x].stmt = portal[x].stmt
          /\ portal'[x].plan = IF x = p THEN pl ELSE portal[x].plan
    <3>1. \A x \in 1..Len(portal) : portal[x] \in [stmt : 0..Len(stmt), plan : Plans]
      BY <1>1, SeqEntry, Zenon
    <3> QED  BY <1>1, <2>2, <3>1
  <2> QED  BY <1>1, <2>3, <2>4, Zenon DEF ColumnsInv
<1> QED
  BY <1>2, <1>3, Zenon

\* New statements have no columns, new portals no plan.
LEMMA ColumnsAppend ==
  ASSUME TypeOK, ColumnsInv, HeapGrows, UNCHANGED bDescribed,
         \A x \in 1..Len(stmt) : stmt'[x] = stmt[x],
         \A x \in 1..Len(stmt') : x \notin 1..Len(stmt) => stmt'[x].cols = NoQuery,
         \A x \in 1..Len(portal) : portal'[x] = portal[x],
         \A x \in 1..Len(portal') : x \notin 1..Len(portal) => portal'[x].plan = NoPlan
  PROVE  ColumnsInv'
<1>1. \A x \in 1..Len(stmt') : stmt'[x].cols \in {NoQuery, stmt'[x].sql}
  BY Zenon DEF ColumnsInv
<1>2. ASSUME NEW x \in 1..Len(portal'), portal'[x].plan # NoPlan
      PROVE  portal'[x].stmt # nil /\ portal'[x].plan = OwnPlan(stmt'[portal'[x].stmt].sql)
  <2>1. x \in 1..Len(portal) /\ portal'[x] = portal[x]
    BY <1>2
  <2>2. portal[x].stmt # nil /\ portal[x].plan = OwnPlan(stmt[portal[x].stmt].sql)
    BY <1>2, <2>1 DEF ColumnsInv
  <2>3. portal[x].stmt \in 1..Len(stmt)
    BY <2>1, <2>2, PortalStmt, Lengths DEF nil
  <2> QED  BY <2>1, <2>2, <2>3
<1>3. \A x \in bDescribed' : stmt'[x].cols # NoQuery
  BY Zenon DEF ColumnsInv, TypeOK
<1> QED
  BY <1>1, <1>2, <1>3, Zenon DEF ColumnsInv

-----------------------------------------------------------------------------
(* The statement a RowDescription is learned for.                           *)

\* The Describe the backend answers is attributed to the statement the backend
\* describes.
LEMMA DescribedFacts ==
  ASSUME PlansInv, Working({"DescribeS", "DescribeP"}), Described # nil
  PROVE  /\ DescribePending /\ Head(describes).stmt = Described
         /\ Head(describes).portal \in 0..Len(portal)
         /\ Head(describes).portal # nil => portal[Head(describes).portal].stmt = Described
<1>1. /\ StmtInv /\ HeapInv /\ TypeOK /\ PortalsInv
      /\ PortalsPoint /\ DescribesPoint
  BY DEF PlansInv, HeapInv, PointersInv
<1>2. /\ DescribePending
      /\ cur.type = "DescribeS" => Head(describes).stmt = cur.obj /\ Head(describes).portal = nil
      /\ cur.type = "DescribeP" => Head(describes).portal = cur.obj
  BY Zenon DEF PlansInv, DescribesReachTheirStatement
<1>3. /\ describes # <<>> /\ Head(describes) = describes[1] /\ 1 \in 1..Len(describes)
      /\ Head(describes) \in [boundary : BOOLEAN, stmt : 0..Len(stmt), portal : 0..Len(portal)]
  <2> DEFINE D == [boundary : BOOLEAN, stmt : 0..Len(stmt), portal : 0..Len(portal)]
  <2>1. describes \in Seq(D)
    BY <1>1 DEF TypeOK
  <2>2. describes # <<>>
    BY <1>2, Zenon DEF DescribePending
  <2> HIDE DEF D
  <2>3. 1 \in 1..Len(describes) /\ Head(describes) = describes[1] /\ Head(describes) \in D
    BY <2>1, <2>2, SeqTail, SeqEmpty, SeqEntry
  <2> QED  BY <2>2, <2>3, Zenon DEF D
<1>4. c2b # <<>> /\ cur \in Message /\ cur.type \in {"DescribeS", "DescribeP"}
  BY <1>1, CurType, Zenon DEF Working
<1>5. CASE cur.type = "DescribeS"
  <2>1. Working({"Bind", "DescribeS"}) /\ bStmts[cur.stmt] # nil /\ Described = bStmts[cur.stmt]
    BY <1>5, Zenon DEF Working, Described
  <2>2. cur.obj = Described
    <3>1. Meant(cur, portal) = bStmts[cur.stmt]
      BY <1>1, <2>1, UseFacts, Zenon
    <3> QED  BY <1>5, <2>1, <3>1, Zenon DEF Meant
  <2> QED  BY <1>2, <1>3, <1>5, <2>2, Zenon
<1>6. CASE cur.type = "DescribeP"
  <2>1. Described = bPortals[cur.portal].stmt /\ cur.portal \in PortalNames
    BY <1>4, <1>6, Zenon DEF Described, Message
  <2>2. bPortals[cur.portal].obj # nil /\ portal[bPortals[cur.portal].obj].stmt = Described
    BY <1>1, <2>1, Zenon DEF PortalsPoint
  <2>3. pipe \in Seq(Message) /\ pipe # <<>> /\ pipe[1] = cur
    BY <1>1, <1>4, PipeType, Zenon
  <2>4. 1 \in 1..Len(pipe) /\ 1 - 1 = 0
    BY <2>3, TailFacts
  <2>5. Agrees(pipe, 0, cur.portal, cur.obj, bPortals) /\ NoneBinds(pipe, 0, cur.portal)
    BY <1>1, <1>6, <2>3, <2>4 DEF PortalsInv, MessagesAgree, NoneBinds
  <2>6. bPortals[cur.portal].obj = cur.obj
    BY <2>2, <2>5, Zenon DEF Agrees
  <2>7. Head(describes).stmt = portal[Head(describes).portal].stmt
    BY <1>1, <1>2, <1>3, <1>6, <2>2, <2>6, Zenon DEF DescribesPoint
  <2> QED  BY <1>2, <1>3, <1>6, <2>2, <2>6, <2>7, Zenon
<1> QED
  BY <1>4, <1>5, <1>6, Zenon

\* The statement of a simple query that the backend works on: its portal heads
\* execQueue, and belongs to a statement with that text.
LEMMA StatementFacts ==
  ASSUME PlansInv, Working({"Query"}), bdone < Len(cur.text)
  PROVE  /\ ~DescribePending /\ CurrentExecuting = cur.obj + bdone
         /\ CurrentExecuting \in 1..Len(portal) /\ CurrentExecuting # nil
         /\ portal[CurrentExecuting].stmt \in 1..Len(stmt)
         /\ portal[CurrentExecuting].stmt # nil
         /\ stmt[portal[CurrentExecuting].stmt].sql = cur.text[bdone + 1]
<1>1. TypeOK /\ QueriesPoint
  BY Zenon DEF PlansInv, HeapInv, PointersInv
<1>2. ~DescribePending
  BY DEF PlansInv, DescribesReachTheirStatement
<1>3. CurrentExecuting = cur.obj + bdone
  BY DEF PlansInv, RowsReachTheirPortal
<1>4. /\ c2b # <<>> /\ cur.type = "Query" /\ cur \in Message /\ bdone \in Nat
      /\ pipe \in Seq(Message) /\ pipe # <<>> /\ pipe[1] = cur
  BY <1>1, PipeType, Zenon DEF Working, TypeOK
<1>5. 1 \in 1..Len(pipe) /\ cur.obj \in Nat /\ Len(cur.text) \in Nat
  BY <1>4, TailFacts, SeqLength DEF Message
<1>6. Planned(cur, portal, stmt)
  BY <1>1, <1>4, <1>5 DEF QueriesPoint
<1>7. bdone + 1 \in 1..Len(cur.text) /\ cur.obj + (bdone + 1) - 1 = cur.obj + bdone
  BY <1>4, <1>5
<1>8. /\ cur.obj + bdone \in 1..Len(portal) /\ portal[cur.obj + bdone].stmt \in 1..Len(stmt)
      /\ stmt[portal[cur.obj + bdone].stmt].sql = cur.text[bdone + 1]
  BY <1>4, <1>6, <1>7, Zenon DEF Planned
<1>9. portal[CurrentExecuting].stmt # nil /\ CurrentExecuting # nil
  BY <1>1, <1>3, <1>8, Lengths DEF nil
<1> QED
  BY <1>2, <1>3, <1>8, <1>9, Zenon

\* The answer to a Describe teaches the statement it describes.
LEMMA ColumnsRowDescription ==
  ASSUME PlansInv, RowDescription
  PROVE  ColumnsInv'
<1>1. TypeOK /\ ColumnsInv /\ Working({"DescribeS", "DescribeP"}) /\ Described # nil /\ c2b # <<>>
  BY Zenon DEF PlansInv, HeapInv, RowDescription, Working
<1>2. Described \in 1..Len(stmt)
  BY <1>1, DescribedType, Zenon
<1>3. /\ DescribePending /\ Head(describes).stmt = Described
      /\ Head(describes).portal \in 0..Len(portal)
      /\ Head(describes).portal # nil => portal[Head(describes).portal].stmt = Described
  BY <1>1, DescribedFacts, Zenon
<1>4. LearnColumns(Described, Head(describes).portal, stmt[Described].sql)
  BY <1>1, <1>3, Zenon DEF RowDescription, OnRowDescription
<1>5. bDescribed' \subseteq bDescribed \union {Described}
  BY Zenon DEF RowDescription
<1> QED
  BY <1>1, <1>2, <1>3, <1>4, <1>5, ColumnsLearn, Zenon

\* The RowDescription of a simple query teaches its statement.
LEMMA ColumnsQueryRowDescription ==
  ASSUME PlansInv, QueryRowDescription
  PROVE  ColumnsInv' /\ stmt'[portal[cur.obj + bdone].stmt].cols # NoQuery
<1> DEFINE p == CurrentExecuting
           s == portal[p].stmt
<1>1. TypeOK /\ ColumnsInv /\ Working({"Query"}) /\ bdone < Len(cur.text)
  BY Zenon DEF PlansInv, HeapInv, QueryRowDescription
<1>2. /\ ~DescribePending /\ p = cur.obj + bdone /\ p \in 1..Len(portal) /\ p # nil
      /\ s \in 1..Len(stmt) /\ s # nil /\ stmt[s].sql = cur.text[bdone + 1]
  BY <1>1, StatementFacts, Zenon
<1>3. LearnColumns(s, p, stmt[s].sql) /\ bDescribed' \subseteq bDescribed \union {s}
  BY <1>2, Zenon DEF QueryRowDescription, OnRowDescription
<1>4. p \in 0..Len(portal)
  BY <1>1, CurrentType, Zenon
<1>5. portal[p].stmt = s
  BY Zenon
<1> HIDE DEF s
<1>6. ColumnsInv' /\ stmt'[s].cols # NoQuery
  BY <1>1, <1>2, <1>3, <1>4, <1>5, ColumnsLearn, Zenon
<1> QED
  BY <1>2, <1>5, <1>6, Zenon

\* What OnQuery appends to the two heaps, as sequences.
LEMMA QueryHeap ==
  ASSUME NEW k \in Nat, NEW t, NEW n
  PROVE  /\ [i \in 1..k |-> [sql |-> t[i], cols |-> NoQuery]]
              \in Seq({[sql |-> t[i], cols |-> NoQuery] : i \in 1..k})
         /\ Len([i \in 1..k |-> [sql |-> t[i], cols |-> NoQuery]]) = k
         /\ [i \in 1..k |-> [stmt |-> n + i, plan |-> NoPlan]]
              \in Seq({[stmt |-> n + i, plan |-> NoPlan] : i \in 1..k})
         /\ Len([i \in 1..k |-> [stmt |-> n + i, plan |-> NoPlan]]) = k
<1> DEFINE f(i) == [sql |-> t[i], cols |-> NoQuery]
           g(i) == [stmt |-> n + i, plan |-> NoPlan]
           S == {f(i) : i \in 1..k}
           P == {g(i) : i \in 1..k}
<1>1. \A i \in 1..k : f(i) \in S /\ g(i) \in P
  BY Zenon
<1> HIDE DEF f, g, S, P
<1>2. [i \in 1..k |-> f(i)] \in Seq(S) /\ Len([i \in 1..k |-> f(i)]) = k
  BY <1>1
<1>3. [i \in 1..k |-> g(i)] \in Seq(P) /\ Len([i \in 1..k |-> g(i)]) = k
  BY <1>1
<1> QED
  BY <1>2, <1>3, Zenon DEF f, g, S, P

\* What is appended to a heap.
LEMMA JoinFacts ==
  ASSUME NEW S, NEW h \in Seq(S), NEW T, NEW a \in Seq(T)
  PROVE  /\ Len(h \o a) = Len(h) + Len(a) /\ \A x \in 1..Len(h) : (h \o a)[x] = h[x]
         /\ \A x \in 1..Len(h \o a) : x \notin 1..Len(h) =>
               (h \o a)[x] = a[x - Len(h)] /\ x - Len(h) \in 1..Len(a)
<1>1. Len(h) \in Nat /\ Len(a) \in Nat
  BY SeqLength
<1>2. Len(h \o a) = Len(h) + Len(a)
  BY <1>1
<1>3. \A x \in 1..Len(h) : (h \o a)[x] = h[x]
  BY <1>1
<1>4. \A x \in 1..Len(h \o a) : x \notin 1..Len(h) =>
        (h \o a)[x] = a[x - Len(h)] /\ x - Len(h) \in 1..Len(a)
  BY <1>1, <1>2
<1> QED
  BY <1>2, <1>3, <1>4, Zenon

\* The entries of the second of two joined sequences.
LEMMA JoinIndex ==
  ASSUME NEW S, NEW h \in Seq(S), NEW T, NEW a \in Seq(T), NEW i \in 1..Len(a)
  PROVE  (h \o a)[Len(h) + i] = a[i]
<1>1. Len(h) \in Nat /\ Len(a) \in Nat
  BY SeqLength, Zenon
<1>2. Len(h) + i \in 1..(Len(h) + Len(a)) /\ Len(h) + i \notin 1..Len(h)
      /\ (Len(h) + i) - Len(h) = i
  BY <1>1
<1> QED
  BY <1>1, <1>2

\* OnParse, OnBind and OnQuery append to the heaps.
LEMMA ColumnsQuery ==
  ASSUME TypeOK, ColumnsInv, HeapGrows, NEW t \in SimpleTexts, OnQuery(t)
  PROVE  ColumnsInv'
<1>1. PICK k \in 0..Len(t) :
        /\ stmt' = stmt \o [i \in 1..k |-> [sql |-> t[i], cols |-> NoQuery]]
        /\ portal' = portal \o [i \in 1..k |-> [stmt |-> Len(stmt) + i, plan |-> NoPlan]]
  BY Zenon DEF OnQuery
<1>2. /\ stmt \in Seq(PreparedStatement) /\ portal \in Seq([stmt : 0..Len(stmt), plan : Plans])
      /\ Len(stmt) \in Nat /\ Len(portal) \in Nat /\ k \in Nat
  BY TextsAssumption, SeqLength, Lengths DEF TypeOK
<1>3. /\ Len(stmt') = Len(stmt) + k /\ \A x \in 1..Len(stmt) : stmt'[x] = stmt[x]
      /\ \A x \in 1..Len(stmt') : x \notin 1..Len(stmt) => stmt'[x].cols = NoQuery
  <2> DEFINE a == [i \in 1..k |-> [sql |-> t[i], cols |-> NoQuery]]
             S == {[sql |-> t[i], cols |-> NoQuery] : i \in 1..k}
  <2>1. \A i \in 1..k : a[i] \in S /\ a[i].cols = NoQuery
    BY Zenon
  <2>2. a \in Seq(S) /\ Len(a) = k
    BY <1>2, QueryHeap, Zenon
  <2>3. stmt' = stmt \o a
    BY <1>1, Zenon
  <2> HIDE DEF a, S
  <2>4. /\ Len(stmt') = Len(stmt) + k /\ \A x \in 1..Len(stmt) : stmt'[x] = stmt[x]
        /\ \A x \in 1..Len(stmt') : x \notin 1..Len(stmt) =>
              stmt'[x] = a[x - Len(stmt)] /\ x - Len(stmt) \in 1..k
    BY <1>2, <2>2, <2>3, JoinFacts, Zenon
  <2> QED  BY <2>1, <2>4, Zenon
<1>4. /\ Len(portal') = Len(portal) + k /\ \A x \in 1..Len(portal) : portal'[x] = portal[x]
      /\ \A x \in 1..Len(portal') : x \notin 1..Len(portal) => portal'[x].plan = NoPlan
  <2> DEFINE b == [i \in 1..k |-> [stmt |-> Len(stmt) + i, plan |-> NoPlan]]
             P == {[stmt |-> Len(stmt) + i, plan |-> NoPlan] : i \in 1..k}
  <2>1. \A i \in 1..k : b[i] \in P /\ b[i].plan = NoPlan
    BY Zenon
  <2>2. b \in Seq(P) /\ Len(b) = k
    BY <1>2, QueryHeap, Zenon
  <2>3. portal' = portal \o b
    BY <1>1, Zenon
  <2> HIDE DEF b, P
  <2>4. /\ Len(portal') = Len(portal) + k /\ \A x \in 1..Len(portal) : portal'[x] = portal[x]
        /\ \A x \in 1..Len(portal') : x \notin 1..Len(portal) =>
              portal'[x] = b[x - Len(portal)] /\ x - Len(portal) \in 1..k
    BY <1>2, <2>2, <2>3, JoinFacts, Zenon
  <2> QED  BY <2>1, <2>4, Zenon
<1>5. UNCHANGED bDescribed
  BY Zenon DEF OnQuery, backendVars
<1> QED
  BY <1>3, <1>4, <1>5, ColumnsAppend, Zenon

\* OnParse and OnBind add objects with no columns and no plan.
LEMMA ColumnsObjects ==
  ASSUME TypeOK, ColumnsInv, HeapGrows, NEW s \in StmtNames,
         \/ \E q \in Queries : OnParse(s, q)
         \/ \E p \in PortalNames : OnBind(s, p) \/ OnBindFails(s, p)
  PROVE  ColumnsInv'
<1>1. /\ stmt \in Seq(PreparedStatement) /\ portal \in Seq([stmt : 0..Len(stmt), plan : Plans])
      /\ Len(stmt) \in Nat /\ Len(portal) \in Nat /\ statements[s] \in 0..Len(stmt)
  BY Lengths, Zenon DEF TypeOK
<1>2. ASSUME NEW q \in Queries, OnParse(s, q) PROVE ColumnsInv'
  <2>1. CASE q \in Rejected
    BY <1>2, <2>1, ColumnsSame, Zenon DEF OnParse, backendVars
  <2>2. CASE q \notin Rejected
    <3>1. stmt' = Append(stmt, [sql |-> q, cols |-> NoQuery]) /\ UNCHANGED <<portal, bDescribed>>
      BY <1>2, <2>2, Zenon DEF OnParse, backendVars
    <3>2. [sql |-> q, cols |-> NoQuery] \in PreparedStatement
      BY Zenon DEF PreparedStatement
    <3>3. /\ \A x \in 1..Len(stmt) : stmt'[x] = stmt[x]
          /\ \A x \in 1..Len(stmt') : x \notin 1..Len(stmt) => stmt'[x].cols = NoQuery
      BY <1>1, <3>1, <3>2
    <3> QED  BY <3>1, <3>3, ColumnsAppend, Zenon
  <2> QED  BY <2>1, <2>2, Zenon
<1>3. ASSUME NEW p \in PortalNames, OnBind(s, p) \/ OnBindFails(s, p) PROVE ColumnsInv'
  <2>1. /\ portal' = Append(portal, [stmt |-> statements[s], plan |-> NoPlan])
        /\ UNCHANGED <<stmt, bDescribed>>
    BY <1>3, Zenon DEF OnBind, OnBindFails, backendVars
  <2>2. /\ \A x \in 1..Len(portal) : portal'[x] = portal[x]
        /\ \A x \in 1..Len(portal') : x \notin 1..Len(portal) => portal'[x].plan = NoPlan
    BY <1>1, <2>1
  <2> QED  BY <2>1, <2>2, ColumnsAppend, Zenon
<1> QED
  BY <1>2, <1>3, Zenon

\* Every step keeps columns and plans those of their statements.
LEMMA ColumnsNext ==
  ASSUME PlansInv, [Next]_vars
  PROVE  ColumnsInv'
<1>1. TypeOK /\ ColumnsInv
  BY Zenon DEF PlansInv, HeapInv
<1>2. HeapGrows
  BY <1>1, HeapNext, Zenon
<1>3. ASSUME NEW s \in StmtNames, NEW p \in PortalNames,
             \/ OnExecute(p) \/ OnDescribeP(p) \/ OnCloseP(p) \/ OnDescribeS(s) \/ OnCloseS(s)
      PROVE  ColumnsInv'
  BY <1>1, <1>3, ColumnsSame, Zenon
    DEF OnExecute, OnDescribeP, OnCloseP, OnDescribeS, OnCloseS, backendVars
<1>4. CASE OnSync \/ Send \/ ClientGone
  BY <1>1, <1>4, ColumnsSame, Zenon DEF OnSync, Send, ClientGone, sessionVars, backendVars
<1>5. CASE Frontend
  BY <1>1, <1>2, <1>3, <1>4, <1>5, ColumnsObjects, ColumnsQuery, NamesAssumption, Zenon
    DEF Frontend
<1>6. CASE DataRow \/ DataRowFails
  BY <1>1, <1>6, ColumnsDecrypt, Zenon DEF DataRow, DataRowFails, backendVars
<1>7. CASE Parsed \/ Bound \/ Closed \/ Skip \/ BackendGone
  BY <1>1, <1>7, ColumnsSame, Zenon
    DEF Parsed, Bound, Closed, Skip, BackendGone, sessionVars, backendVars
<1>8. CASE StartupReady \/ ErrorResponse \/ ReadyForQuery
  BY <1>1, <1>8, ColumnsSame, Zenon
     DEF StartupReady, ErrorResponse, ReadyForQuery, OnReadyForQuery, OnErrorResponse
<1>9. CASE NoData \/ ExecuteDone \/ QueryStatementDone
  BY <1>1, <1>9, ColumnsSame, Zenon
    DEF NoData, ExecuteDone, QueryStatementDone, OnNoData, popExecuting
<1>10. CASE Backend
  BY <1>6, <1>7, <1>8, <1>9, <1>10, ColumnsRowDescription, ColumnsQueryRowDescription,
    Zenon DEF Backend
<1>11. CASE UNCHANGED vars
  BY <1>1, <1>11, ColumnsSame, Zenon DEF vars, sessionVars, backendVars
<1> QED
  BY <1>5, <1>10, <1>11, Zenon DEF Next

-----------------------------------------------------------------------------
(* The pointers.                                                            *)

\* The backend keeps or loses its portals.
LEMMA PortalsKept ==
  ASSUME TypeOK, HeapGrows, PortalsPoint,
         \A n \in PortalNames : bPortals'[n] \in {bPortals[n], [obj |-> nil, stmt |-> nil]}
  PROVE  PortalsPoint'
<1> SUFFICES ASSUME NEW n \in PortalNames
             PROVE  IF bPortals'[n].obj = nil THEN bPortals'[n].stmt = nil
                    ELSE /\ bPortals'[n].stmt # nil
                         /\ portal'[bPortals'[n].obj].stmt = bPortals'[n].stmt
  BY Zenon DEF PortalsPoint
<1>1. CASE bPortals'[n] = bPortals[n] /\ bPortals[n].obj # nil
  <2>1. bPortals[n].obj \in 1..Len(portal)
    BY <1>1, Lengths DEF TypeOK, nil
  <2> QED  BY <1>1, <2>1, Zenon DEF PortalsPoint, HeapGrows
<1>2. CASE bPortals'[n] = bPortals[n] /\ bPortals[n].obj = nil
  BY <1>2, Zenon DEF PortalsPoint
<1>3. CASE bPortals'[n] = [obj |-> nil, stmt |-> nil]
  BY <1>3
<1> QED
  BY <1>1, <1>2, <1>3, Zenon

\* BindComplete: the backend binds the portal to the statement the session did.
LEMMA PortalsBound ==
  ASSUME TypeOK, StmtInv, PortalsPoint, Bound
  PROVE  PortalsPoint'
<1>1. /\ Working({"Bind"}) /\ bStmts[cur.stmt] # nil /\ UNCHANGED portal
      /\ bPortals' = [bPortals EXCEPT ![cur.portal] = [obj |-> cur.obj, stmt |-> bStmts[cur.stmt]]]
  BY Zenon DEF Bound, sessionVars
<1>2. Working({"Bind", "DescribeS"}) /\ cur.type = "Bind" /\ c2b # <<>>
  BY <1>1, Zenon DEF Working
<1>3. portal[cur.obj].stmt = bStmts[cur.stmt]
  <2>1. Meant(cur, portal) = bStmts[cur.stmt]
    BY <1>1, <1>2, UseFacts, Zenon
  <2> QED  BY <1>2, <2>1, Zenon DEF Meant
<1>4. cur.obj # nil
  <2>1. pipe \in Seq(Message) /\ pipe # <<>> /\ pipe[1] = cur /\ Uses(cur)
    BY <1>2, PipeType, Zenon DEF Uses
  <2>2. 1 \in 1..Len(pipe)
    BY <2>1, TailFacts
  <2> QED  BY <1>2, <2>1, <2>2, Zenon DEF StmtInv, UsesInv
<1>5. bPortals \in [PortalNames -> [obj : 0..Len(portal), stmt : 0..Len(stmt)]]
  BY Zenon DEF TypeOK
<1>6. \A n \in PortalNames :
        bPortals'[n] = IF n = cur.portal THEN [obj |-> cur.obj, stmt |-> bStmts[cur.stmt]]
                       ELSE bPortals[n]
  BY <1>1, <1>5, Zenon
<1> QED
  BY <1>1, <1>3, <1>4, <1>6 DEF PortalsPoint

\* Every step keeps the backend's portals bound as the session bound them.
LEMMA PortalsPointNext ==
  ASSUME PlansInv, [Next]_vars
  PROVE  PortalsPoint'
<1>1. TypeOK /\ StmtInv /\ PortalsPoint
  BY Zenon DEF PlansInv, HeapInv, PointersInv
<1>2. HeapGrows /\ bPortals \in [PortalNames -> [obj : 0..Len(portal), stmt : 0..Len(stmt)]]
  BY <1>1, HeapNext, Zenon DEF TypeOK
<1>3. ASSUME UNCHANGED bPortals PROVE PortalsPoint'
  BY <1>1, <1>2, <1>3, PortalsKept, Zenon
<1>4. CASE Frontend
  BY <1>3, <1>4, Zenon
    DEF Frontend, OnParse, OnBind, OnBindFails, OnExecute, OnDescribeP, OnCloseP,
     OnDescribeS, OnCloseS, OnSync, OnQuery, Send, ClientGone, backendVars
<1>5. CASE Closed
  <2>1. \A n \in PortalNames : bPortals'[n] \in {bPortals[n], [obj |-> nil, stmt |-> nil]}
    BY <1>2, <1>5, Zenon DEF Closed
  <2> QED  BY <1>1, <1>2, <2>1, PortalsKept, Zenon
<1>6. CASE ErrorResponse \/ ReadyForQuery
  <2>1. \A n \in PortalNames : bPortals'[n] \in {bPortals[n], [obj |-> nil, stmt |-> nil]}
    BY <1>6, Zenon DEF ErrorResponse, ReadyForQuery, NoPortals
  <2> QED  BY <1>1, <1>2, <2>1, PortalsKept, Zenon
<1>7. CASE StartupReady \/ Parsed \/ RowDescription \/ NoData \/ ExecuteDone \/ Skip
  BY <1>3, <1>7, Zenon DEF StartupReady, Parsed, RowDescription, NoData, ExecuteDone, Skip
<1>8. CASE DataRow \/ DataRowFails \/ QueryRowDescription \/ QueryStatementDone \/ BackendGone
  BY <1>3, <1>8, Zenon
    DEF DataRow, DataRowFails, QueryRowDescription, QueryStatementDone, BackendGone,
     backendVars
<1>9. CASE UNCHANGED vars
  BY <1>3, <1>9, Zenon DEF vars, backendVars
<1>10. CASE Bound
  BY <1>1, <1>10, PortalsBound, Zenon
<1> QED
  BY <1>4, <1>5, <1>6, <1>7, <1>8, <1>9, <1>10, Zenon DEF Next, Backend

\* Entries of the queue of pending Describes are kept or popped.
LEMMA DescribesPop ==
  ASSUME TypeOK, HeapGrows, DescribesPoint, NEW k \in 0..Len(describes),
         describes' = Rest(describes, k)
  PROVE  DescribesPoint'
<1> DEFINE D == [boundary : BOOLEAN, stmt : 0..Len(stmt), portal : 0..Len(portal)]
<1>1. describes \in Seq(D)
  BY Zenon DEF TypeOK
<1>2. /\ Len(describes') = Len(describes) - k /\ Len(describes) \in Nat
      /\ \A j \in 1..Len(describes') : describes'[j] = describes[k + j] /\ k + j \in 1..Len(describes)
  <2> HIDE DEF D
  <2>1. /\ Len(Rest(describes, k)) = Len(describes) - k /\ Len(describes) \in Nat
        /\ \A j \in 1..(Len(describes) - k) : Rest(describes, k)[j] = describes[j + k]
    BY <1>1, RestFacts, SeqLength, Zenon
  <2>2. \A j \in 1..(Len(describes) - k) : j + k = k + j /\ k + j \in 1..Len(describes)
    BY <2>1
  <2> QED  BY <2>1, <2>2, Zenon
<1>3. \A j \in 1..Len(describes) : describes[j].portal \in 0..Len(portal)
  <2>1. \A j \in 1..Len(describes) : describes[j] \in D
    <3> HIDE DEF D
    <3> QED  BY <1>1, SeqEntry, Zenon
  <2> QED  BY <2>1, Zenon
<1>4. \A j \in 1..Len(describes) :
        describes[j].portal # nil => describes[j].stmt = portal'[describes[j].portal].stmt
  <2> SUFFICES ASSUME NEW j \in 1..Len(describes), describes[j].portal # nil
               PROVE  describes[j].stmt = portal'[describes[j].portal].stmt
    BY Zenon
  <2>1. describes[j].portal \in 1..Len(portal)
    BY <1>3, Lengths DEF nil
  <2> QED  BY <2>1, Zenon DEF DescribesPoint, HeapGrows
<1> QED
  BY <1>2, <1>4 DEF DescribesPoint

\* A step that leaves the queue of pending Describes alone.
LEMMA DescribesKept ==
  ASSUME TypeOK, HeapGrows, DescribesPoint, UNCHANGED describes
  PROVE  DescribesPoint'
<1>1. describes \in Seq([boundary : BOOLEAN, stmt : 0..Len(stmt), portal : 0..Len(portal)])
  BY Zenon DEF TypeOK
<1>2. 0 \in 0..Len(describes) /\ Rest(describes, 0) = describes
  <2> DEFINE D == [boundary : BOOLEAN, stmt : 0..Len(stmt), portal : 0..Len(portal)]
  <2>1. describes \in Seq(D)
    BY <1>1, Zenon
  <2> HIDE DEF D
  <2> QED  BY <2>1 DEF Rest
<1> QED
  BY <1>2, DescribesPop, Zenon

\* An entry is pushed.
LEMMA DescribesPush ==
  ASSUME TypeOK, HeapGrows, DescribesPoint, UNCHANGED portal,
         NEW e \in [boundary : BOOLEAN, stmt : 0..Len(stmt), portal : 0..Len(portal)],
         describes' = Append(describes, e), e.portal # nil => e.stmt = portal[e.portal].stmt
  PROVE  DescribesPoint'
<1> DEFINE D == [boundary : BOOLEAN, stmt : 0..Len(stmt), portal : 0..Len(portal)]
<1>1. describes \in Seq(D) /\ e \in D
  BY Zenon DEF TypeOK
<1>2. /\ Len(describes') = Len(describes) + 1 /\ Len(describes) \in Nat
      /\ describes'[Len(describes) + 1] = e
      /\ \A j \in 1..Len(describes) : describes'[j] = describes[j]
  <2> HIDE DEF D
  <2> QED  BY <1>1
<1> QED
  BY <1>2 DEF DescribesPoint

\* A boundary is pushed by a Sync and a simple query.
LEMMA DescribesBoundary ==
  ASSUME TypeOK, HeapGrows, DescribesPoint, describes' = Append(describes, boundaryEntry)
  PROVE  DescribesPoint'
<1> DEFINE D == [boundary : BOOLEAN, stmt : 0..Len(stmt), portal : 0..Len(portal)]
<1>1. describes \in Seq(D) /\ boundaryEntry \in D /\ boundaryEntry.portal = nil
  BY Lengths DEF TypeOK, boundaryEntry, nil
<1>2. /\ Len(describes') = Len(describes) + 1 /\ Len(describes) \in Nat
      /\ describes'[Len(describes) + 1] = boundaryEntry
      /\ \A j \in 1..Len(describes) : describes'[j] = describes[j] /\ describes[j] \in D
  <2> HIDE DEF D
  <2> QED  BY <1>1, SeqEntry
<1>3. ASSUME NEW j \in 1..Len(describes), describes[j].portal # nil
      PROVE  describes[j].stmt = portal'[describes[j].portal].stmt
  <2>1. describes[j].portal \in 1..Len(portal)
    BY <1>2, <1>3, Lengths DEF nil
  <2> QED  BY <1>3, <2>1, Zenon DEF DescribesPoint, HeapGrows
<1> QED
  BY <1>1, <1>2, <1>3 DEF DescribesPoint

\* Every step keeps the pending Describes of portals on their statements.
LEMMA DescribesPointNext ==
  ASSUME PlansInv, [Next]_vars
  PROVE  DescribesPoint'
<1>1. TypeOK /\ DescribesPoint
  BY Zenon DEF PlansInv, HeapInv, PointersInv
<1>2. /\ HeapGrows /\ Len(portal) \in Nat /\ Len(stmt) \in Nat
      /\ statements \in [StmtNames -> 0..Len(stmt)] /\ portals \in [PortalNames -> 0..Len(portal)]
  BY <1>1, HeapNext, Lengths, Zenon DEF TypeOK
<1>3. ASSUME UNCHANGED describes PROVE DescribesPoint'
  BY <1>1, <1>2, <1>3, DescribesKept, Zenon
<1>4. ASSUME NEW s \in StmtNames, OnDescribeS(s) PROVE DescribesPoint'
  <2> DEFINE e == [boundary |-> FALSE, stmt |-> statements[s], portal |-> nil]
  <2>1. describes' = Append(describes, e) /\ UNCHANGED portal
    BY <1>4, Zenon DEF OnDescribeS
  <2>2. /\ e \in [boundary : BOOLEAN, stmt : 0..Len(stmt), portal : 0..Len(portal)]
        /\ e.portal = nil
    BY <1>2 DEF nil
  <2> QED  BY <1>1, <1>2, <2>1, <2>2, DescribesPush, Zenon
<1>5. ASSUME NEW p \in PortalNames, OnDescribeP(p) PROVE DescribesPoint'
  <2> DEFINE e == [boundary |-> FALSE, portal |-> portals[p],
                   stmt |-> IF portals[p] = nil THEN nil ELSE portal[portals[p]].stmt]
  <2>1. describes' = Append(describes, e) /\ UNCHANGED portal
    BY <1>5, Zenon DEF OnDescribeP
  <2>2. (IF portals[p] = nil THEN nil ELSE portal[portals[p]].stmt) \in 0..Len(stmt)
    <3>1. portals[p] # nil => portals[p] \in 1..Len(portal)
      BY <1>2 DEF nil
    <3> QED  BY <1>1, <1>2, <3>1, PortalStmt DEF nil
  <2>3. /\ e \in [boundary : BOOLEAN, stmt : 0..Len(stmt), portal : 0..Len(portal)]
        /\ e.portal # nil => e.stmt = portal[e.portal].stmt
    BY <1>2, <2>2, Zenon
  <2> HIDE DEF e
  <2> QED  BY <1>1, <1>2, <2>1, <2>3, DescribesPush, Zenon
<1>6. CASE OnSync
  BY <1>1, <1>2, <1>6, DescribesBoundary, Zenon DEF OnSync
<1>7. ASSUME NEW t \in SimpleTexts, OnQuery(t) PROVE DescribesPoint'
  <2>1. UNCHANGED describes \/ describes' = Append(describes, boundaryEntry)
    BY <1>7, Zenon DEF OnQuery
  <2> QED  BY <1>1, <1>2, <1>3, <2>1, DescribesBoundary, Zenon
<1>8. ASSUME NEW s \in StmtNames, NEW p \in PortalNames,
             \/ OnBind(s, p) \/ OnBindFails(s, p) \/ OnExecute(p) \/ OnCloseP(p) \/ OnCloseS(s)
      PROVE  DescribesPoint'
  BY <1>3, <1>8, Zenon DEF OnBind, OnBindFails, OnExecute, OnCloseP, OnCloseS
<1>9. ASSUME NEW s \in StmtNames, NEW q \in Queries, OnParse(s, q) PROVE DescribesPoint'
  BY <1>3, <1>9, Zenon DEF OnParse
<1>10. CASE Send \/ ClientGone
  BY <1>3, <1>10, Zenon DEF Send, ClientGone, sessionVars
<1>11. CASE Frontend
  BY <1>4, <1>5, <1>6, <1>7, <1>8, <1>9, <1>10, <1>11, NamesAssumption, Zenon DEF Frontend
<1>12. ASSUME NEW k \in 0..Len(describes), PopDescribe(k) PROVE DescribesPoint'
  BY <1>1, <1>2, <1>12, DescribesPop, Zenon DEF PopDescribe
<1>13. CASE StartupReady \/ ErrorResponse \/ ReadyForQuery
  BY <1>12, <1>13, Zenon
     DEF StartupReady, ErrorResponse, ReadyForQuery, OnReadyForQuery, OnErrorResponse
<1>14. CASE RowDescription \/ NoData \/ QueryRowDescription
  <2>1. DescribePending => 1 \in 0..Len(describes)
    <3> DEFINE D == [boundary : BOOLEAN, stmt : 0..Len(stmt), portal : 0..Len(portal)]
    <3>1. describes \in Seq(D)
      BY <1>1 DEF TypeOK
    <3> HIDE DEF D
    <3> QED  BY <3>1, SeqEmpty DEF DescribePending
  <2>2. 0 \in 0..Len(describes)
    BY <1>1, SeqLength DEF TypeOK
  <2> QED
    BY <1>3, <1>12, <1>14, <2>1, <2>2, Zenon
       DEF RowDescription, NoData, QueryRowDescription, OnRowDescription, OnNoData
<1>15. CASE Parsed \/ Bound \/ Closed \/ Skip \/ BackendGone
  BY <1>3, <1>15, Zenon DEF Parsed, Bound, Closed, Skip, BackendGone, sessionVars
<1>16. CASE DataRow \/ DataRowFails \/ ExecuteDone \/ QueryStatementDone
  BY <1>3, <1>16, Zenon
    DEF DataRow, DataRowFails, ExecuteDone, QueryStatementDone, DecryptDataRow,
     popExecuting
<1>17. CASE UNCHANGED vars
  BY <1>3, <1>17, Zenon DEF vars, sessionVars
<1> QED
  BY <1>11, <1>13, <1>14, <1>15, <1>16, <1>17, Zenon DEF Next, Backend

\* A step adds at most the message it observes to the pipe.
LEMMA PipeMessages ==
  ASSUME TypeOK, [Next]_vars, NEW i \in 1..Len(pipe')
  PROVE  \/ \E j \in 1..Len(pipe) : pipe'[i] = pipe[j]
         \/ Frontend /\ fpump = "recv" /\ fpump' = "send" /\ pipe'[i] = fmsg'
<1>1. c2b \in Seq(Message) /\ fmsg \in Message /\ pipe \in Seq(Message) /\ Len(c2b) \in Nat
  BY PipeType, SeqLength, Zenon DEF TypeOK
<1>2. ASSUME UNCHANGED pipe PROVE \E j \in 1..Len(pipe) : pipe'[i] = pipe[j]
  BY <1>2, Zenon
<1>3. ASSUME Frontend, fpump = "recv", UNCHANGED c2b, fpump' \in {"send", "done"}
      PROVE  \/ \E j \in 1..Len(pipe) : pipe'[i] = pipe[j]
             \/ Frontend /\ fpump = "recv" /\ fpump' = "send" /\ pipe'[i] = fmsg'
  <2>1. CASE fpump' = "done"
    BY <1>2, <1>3, <2>1, Zenon DEF pipe
  <2>2. CASE fpump' = "send"
    <3>1. pipe = c2b /\ pipe' = Append(c2b, fmsg')
      BY <1>3, <2>2, Zenon DEF pipe
    <3>2. fmsg' \in Message
      BY NextType, Zenon DEF TypeOK
    <3>3. /\ Len(pipe') = Len(pipe) + 1 /\ pipe'[Len(pipe) + 1] = fmsg'
          /\ \A j \in 1..Len(pipe) : pipe'[j] = pipe[j]
      BY <1>1, <3>1, <3>2
    <3> QED  BY <1>1, <1>3, <2>2, <3>1, <3>3
  <2> QED  BY <1>3, <2>1, <2>2, Zenon
<1>4. ASSUME UNCHANGED <<fpump, fmsg>>, c2b' = Tail(c2b), c2b # <<>>
      PROVE  \E j \in 1..Len(pipe) : pipe'[i] = pipe[j]
  <2>1. pipe' = Tail(pipe) /\ pipe # <<>>
    BY <1>4, PipeTail, PipeType, Zenon
  <2>2. /\ Len(pipe) \in Nat /\ Len(Tail(pipe)) = Len(pipe) - 1
        /\ \A j \in 1..Len(Tail(pipe)) : Tail(pipe)[j] = pipe[j + 1]
    BY <1>1, <2>1, TailFacts, Zenon
  <2>3. i + 1 \in 1..Len(pipe) /\ pipe'[i] = pipe[i + 1]
    BY <2>1, <2>2
  <2> QED  BY <2>3, Zenon
<1>5. CASE Frontend
  <2>1. CASE Send
    <3>1. UNCHANGED pipe
      BY <2>1, Zenon DEF Send, pipe
    <3> QED  BY <1>2, <3>1, Zenon
  <2>2. CASE ClientGone
    <3>1. pipe' = c2b
      BY <2>2, Zenon DEF ClientGone, pipe
    <3>2. pipe = c2b \/ pipe = Append(c2b, fmsg)
      BY Zenon DEF pipe
    <3>3. i \in 1..Len(pipe) /\ pipe'[i] = pipe[i]
      BY <1>1, <3>1, <3>2
    <3> QED  BY <3>3, Zenon
  <2>3. CASE ~Send /\ ~ClientGone
    <3>1. fpump = "recv" /\ UNCHANGED c2b
      BY <1>5, <2>3, Zenon
        DEF Frontend, OnParse, OnBind, OnBindFails, OnExecute, OnDescribeP, OnCloseP,
         OnDescribeS, OnCloseS, OnSync, OnQuery, MaySend
    <3>2. fpump' \in {"send", "done"}
      BY <1>5, <2>3, Zenon
        DEF Frontend, OnParse, OnBind, OnBindFails, OnExecute, OnDescribeP, OnCloseP,
         OnDescribeS, OnCloseS, OnSync, OnQuery, Observed, FrontendEnds
    <3> QED  BY <1>3, <1>5, <3>1, <3>2, Zenon
  <2> QED  BY <2>1, <2>2, <2>3, Zenon
<1>6. CASE Parsed \/ Bound \/ Closed \/ RowDescription \/ NoData \/ ExecuteDone
  BY <1>4, <1>6, Zenon
    DEF Parsed, Bound, Closed, RowDescription, NoData, ExecuteDone, Working, Finished,
     pumpVars
<1>7. CASE Skip \/ ReadyForQuery
  BY <1>4, <1>7, Zenon DEF Skip, ReadyForQuery, Finished, pumpVars
<1>8. CASE ErrorResponse
  <2>1. UNCHANGED <<fpump, fmsg>> /\ c2b # <<>> /\ (UNCHANGED c2b \/ c2b' = Tail(c2b))
    BY <1>8, Zenon DEF ErrorResponse, Working, Finished, pumpVars
  <2>2. UNCHANGED c2b => UNCHANGED pipe
    BY <2>1, Zenon DEF pipe
  <2> QED  BY <1>2, <1>4, <2>1, <2>2, Zenon
<1>9. CASE \/ StartupReady \/ DataRow \/ DataRowFails \/ QueryRowDescription \/ QueryStatementDone
           \/ BackendGone
  <2>1. UNCHANGED <<fpump, fmsg, c2b>>
    BY <1>9, Zenon
      DEF StartupReady, DataRow, DataRowFails, QueryRowDescription, QueryStatementDone,
       BackendGone, pumpVars
  <2> QED  BY <1>2, <2>1, Zenon DEF pipe
<1>10. CASE UNCHANGED vars
  <2>1. UNCHANGED <<fpump, fmsg, c2b>>
    BY <1>10, Zenon DEF vars, pumpVars
  <2> QED  BY <1>2, <2>1, Zenon DEF pipe
<1> QED
  BY <1>5, <1>6, <1>7, <1>8, <1>9, <1>10, Zenon DEF Next, Backend

\* OnQuery makes one statement and one portal for each statement of its text.
LEMMA QueryPlanned ==
  ASSUME TypeOK, NEW t \in SimpleTexts, OnQuery(t), fpump' = "send"
  PROVE  Planned(fmsg', portal', stmt')
<1>1. PICK k \in 0..Len(t) :
        /\ stmt' = stmt \o [i \in 1..k |-> [sql |-> t[i], cols |-> NoQuery]]
        /\ portal' = portal \o [i \in 1..k |-> [stmt |-> Len(stmt) + i, plan |-> NoPlan]]
        /\ IF k < Len(t) THEN FrontendEnds
           ELSE Observed(Msg("Query", Unnamed, Unnamed, Len(portal) + 1, t, Len(t) + 1))
  BY Zenon DEF OnQuery
<1>2. /\ stmt \in Seq(PreparedStatement) /\ portal \in Seq([stmt : 0..Len(stmt), plan : Plans])
      /\ Len(stmt) \in Nat /\ Len(portal) \in Nat /\ t \in Seq(Queries) /\ Len(t) \in Nat
  BY TextsAssumption, SeqLength, Lengths DEF TypeOK
<1>3. ~(k < Len(t))
  BY <1>1, Zenon DEF FrontendEnds
<1>4. k = Len(t) /\ k \in Nat
  BY <1>2, <1>3
<1>5. fmsg'.type = "Query" /\ fmsg'.text = t /\ fmsg'.obj = Len(portal) + 1
  BY <1>1, <1>3 DEF Observed, Msg
<1>6. /\ Len(stmt') = Len(stmt) + k
      /\ \A i \in 1..k : stmt'[Len(stmt) + i].sql = t[i]
  <2> DEFINE a == [i \in 1..k |-> [sql |-> t[i], cols |-> NoQuery]]
             S == {[sql |-> t[i], cols |-> NoQuery] : i \in 1..k}
  <2>1. \A i \in 1..k : a[i] \in S /\ a[i].sql = t[i]
    BY Zenon
  <2>2. a \in Seq(S) /\ Len(a) = k
    BY <1>4, QueryHeap
  <2>3. stmt' = stmt \o a
    BY <1>1, Zenon
  <2> HIDE DEF a, S
  <2>4. Len(stmt') = Len(stmt) + k /\ \A i \in 1..k : stmt'[Len(stmt) + i] = a[i]
    <3>1. stmt \in Seq(PreparedStatement)
      BY <1>2, Zenon
    <3>2. a \in Seq(S)
      BY <2>2, Zenon
    <3>3. Len(stmt \o a) = Len(stmt) + Len(a)
      BY <3>1, <3>2
    <3>4. \A i \in 1..Len(a) : (stmt \o a)[Len(stmt) + i] = a[i]
      BY <3>1, <3>2, JoinIndex, Zenon
    <3> QED  BY <2>2, <2>3, <3>3, <3>4, Zenon
  <2> QED  BY <2>1, <2>4, Zenon
<1>7. /\ Len(portal') = Len(portal) + k
      /\ \A i \in 1..k : portal'[Len(portal) + i].stmt = Len(stmt) + i
  <2> DEFINE b == [i \in 1..k |-> [stmt |-> Len(stmt) + i, plan |-> NoPlan]]
             P == {[stmt |-> Len(stmt) + i, plan |-> NoPlan] : i \in 1..k}
  <2>1. \A i \in 1..k : b[i] \in P /\ b[i].stmt = Len(stmt) + i
    BY Zenon
  <2>2. b \in Seq(P) /\ Len(b) = k
    BY <1>4, QueryHeap
  <2>3. portal' = portal \o b
    BY <1>1, Zenon
  <2> HIDE DEF b, P
  <2>4. Len(portal') = Len(portal) + k /\ \A i \in 1..k : portal'[Len(portal) + i] = b[i]
    <3>1. portal \in Seq([stmt : 0..Len(stmt), plan : Plans])
      BY <1>2, Zenon
    <3>2. b \in Seq(P)
      BY <2>2, Zenon
    <3>3. Len(portal \o b) = Len(portal) + Len(b)
      BY <3>1, <3>2
    <3>4. \A i \in 1..Len(b) : (portal \o b)[Len(portal) + i] = b[i]
      BY <3>1, <3>2, JoinIndex, Zenon
    <3> QED  BY <2>2, <2>3, <3>3, <3>4, Zenon
  <2> QED  BY <2>1, <2>4, Zenon
<1> SUFFICES ASSUME NEW i \in 1..k
             PROVE  LET x == fmsg'.obj + i - 1
                    IN  /\ x \in 1..Len(portal') /\ portal'[x].stmt \in 1..Len(stmt')
                        /\ stmt'[portal'[x].stmt].sql = t[i]
  BY <1>4, <1>5, Zenon DEF Planned
<1>8. fmsg'.obj + i - 1 = Len(portal) + i
  BY <1>2, <1>4, <1>5
<1>9. Len(portal) + i \in 1..Len(portal') /\ Len(stmt) + i \in 1..Len(stmt')
  BY <1>2, <1>4, <1>6, <1>7
<1> QED
  BY <1>6, <1>7, <1>8, <1>9, Zenon

\* Every step keeps the portals of the simple queries on their statements.
LEMMA QueriesPointNext ==
  ASSUME PlansInv, [Next]_vars
  PROVE  QueriesPoint'
<1>1. TypeOK /\ QueriesPoint
  BY Zenon DEF PlansInv, HeapInv, PointersInv
<1>2. /\ HeapGrows /\ Len(portal) \in Nat /\ Len(stmt) \in Nat
      /\ Len(portal') \in Nat /\ Len(stmt') \in Nat
  <2>1. HeapGrows /\ TypeOK'
    BY <1>1, HeapNext, NextType, Zenon
  <2>2. Len(portal') \in Nat /\ Len(stmt') \in Nat
    BY <2>1, SeqLength, Zenon DEF TypeOK
  <2> QED  BY <1>1, <2>1, <2>2, Lengths, Zenon
<1>3. ASSUME NEW m, Planned(m, portal, stmt) PROVE Planned(m, portal', stmt')
  <2> SUFFICES ASSUME m.type = "Query", NEW t \in 1..Len(m.text)
               PROVE  LET x == m.obj + t - 1
                      IN  /\ x \in 1..Len(portal') /\ portal'[x].stmt \in 1..Len(stmt')
                          /\ stmt'[portal'[x].stmt].sql = m.text[t]
    BY Zenon DEF Planned
  <2> DEFINE x == m.obj + t - 1
  <2>1. x \in 1..Len(portal) /\ portal[x].stmt \in 1..Len(stmt) /\ stmt[portal[x].stmt].sql = m.text[t]
    BY <1>3, Zenon DEF Planned
  <2> HIDE DEF x
  <2>2. portal'[x].stmt = portal[x].stmt /\ stmt'[portal[x].stmt].sql = m.text[t]
    BY <1>2, <2>1, Zenon DEF HeapGrows
  <2>3. x \in 1..Len(portal') /\ portal[x].stmt \in 1..Len(stmt')
    BY <1>2, <2>1 DEF HeapGrows
  <2> QED  BY <2>2, <2>3, Zenon DEF x
<1>4. ASSUME Frontend, fpump = "recv", fpump' = "send" PROVE Planned(fmsg', portal', stmt')
  <2>1. ASSUME NEW t \in SimpleTexts, OnQuery(t) PROVE Planned(fmsg', portal', stmt')
    BY <1>1, <1>4, <2>1, QueryPlanned, Zenon
  <2>2. ASSUME NEW s \in StmtNames, NEW q \in Queries, OnParse(s, q) PROVE fmsg'.type # "Query"
    BY <1>4, <2>2 DEF OnParse, FrontendEnds, Observed, Msg
  <2>3. ASSUME NEW s \in StmtNames, NEW p \in PortalNames, OnBind(s, p) \/ OnBindFails(s, p)
        PROVE  fmsg'.type # "Query"
    BY <1>4, <2>3 DEF OnBind, OnBindFails, FrontendEnds, Observed, Msg
  <2>4. ASSUME NEW p \in PortalNames, OnExecute(p) PROVE fmsg'.type # "Query"
    BY <2>4, Zenon DEF OnExecute, Observed, Msg
  <2>5. ASSUME NEW p \in PortalNames, OnDescribeP(p) PROVE fmsg'.type # "Query"
    BY <2>5, Zenon DEF OnDescribeP, Observed, Msg
  <2>6. ASSUME NEW p \in PortalNames, OnCloseP(p) PROVE fmsg'.type # "Query"
    BY <2>6, Zenon DEF OnCloseP, Observed, Msg
  <2>7. ASSUME NEW s \in StmtNames, OnDescribeS(s) \/ OnCloseS(s) PROVE fmsg'.type # "Query"
    <3>1. CASE OnDescribeS(s)
      BY <3>1, Zenon DEF OnDescribeS, Observed, Msg
    <3>2. CASE OnCloseS(s)
      BY <3>2, Zenon DEF OnCloseS, Observed, Msg
    <3> QED  BY <2>7, <3>1, <3>2, Zenon
  <2>8. CASE OnSync
    <3>1. fmsg'.type # "Query"
      BY <2>8, Zenon DEF OnSync, Observed, Msg
    <3> QED  BY <3>1, Zenon DEF Planned
  <2>9. ASSUME fmsg'.type # "Query" PROVE Planned(fmsg', portal', stmt')
    BY <2>9, Zenon DEF Planned
  <2>10. ~Send /\ ~ClientGone
    BY <1>4, Zenon DEF Send, ClientGone
  <2> QED  BY <1>4, <2>1, <2>2, <2>3, <2>4, <2>5, <2>6, <2>7, <2>8, <2>9, <2>10 DEF Frontend
<1> SUFFICES ASSUME NEW i \in 1..Len(pipe') PROVE Planned(pipe'[i], portal', stmt')
  BY Zenon DEF QueriesPoint
<1>5. CASE \E j \in 1..Len(pipe) : pipe'[i] = pipe[j]
  <2>1. PICK j \in 1..Len(pipe) : pipe'[i] = pipe[j]
    BY <1>5, Zenon
  <2>2. Planned(pipe[j], portal, stmt)
    BY <1>1, Zenon DEF QueriesPoint
  <2>3. Planned(pipe[j], portal', stmt')
    BY <1>3, <2>2, Zenon
  <2> QED  BY <2>1, <2>3, Zenon
<1>6. CASE Frontend /\ fpump = "recv" /\ fpump' = "send" /\ pipe'[i] = fmsg'
  BY <1>4, <1>6, Zenon
<1> QED
  BY <1>1, <1>5, <1>6, PipeMessages, Zenon

\* Steps that leave the simple query being answered alone.
LEMMA CursorKept ==
  ASSUME TypeOK, HeapGrows, CursorInv, QueriesPoint, UNCHANGED <<bdone, bdesc>>,
         c2b # <<>> => c2b' # <<>> /\ cur' = cur
  PROVE  CursorInv'
<1> SUFFICES ASSUME bdesc
             PROVE  /\ c2b' # <<>> /\ cur'.type = "Query" /\ bdone < Len(cur'.text)
                    /\ stmt'[portal'[cur'.obj + bdone].stmt].cols # NoQuery
  BY Zenon DEF CursorInv
<1>1. /\ c2b # <<>> /\ cur.type = "Query" /\ bdone < Len(cur.text) /\ cur' = cur /\ c2b' # <<>>
      /\ stmt[portal[cur.obj + bdone].stmt].cols # NoQuery
  BY Zenon DEF CursorInv
<1>2. /\ cur \in Message /\ bdone \in Nat /\ pipe \in Seq(Message) /\ pipe # <<>> /\ pipe[1] = cur
  BY <1>1, PipeType, Zenon DEF TypeOK
<1>3. 1 \in 1..Len(pipe) /\ cur.obj \in Nat /\ Len(cur.text) \in Nat
  BY <1>2, TailFacts, SeqLength DEF Message
<1>4. bdone + 1 \in 1..Len(cur.text) /\ cur.obj + (bdone + 1) - 1 = cur.obj + bdone
  BY <1>1, <1>2, <1>3
<1>5. Planned(cur, portal, stmt)
  BY <1>2, <1>3, Zenon DEF QueriesPoint
<1>6. cur.obj + bdone \in 1..Len(portal) /\ portal[cur.obj + bdone].stmt \in 1..Len(stmt)
  BY <1>1, <1>4, <1>5, Zenon DEF Planned
<1>7. portal'[cur.obj + bdone].stmt = portal[cur.obj + bdone].stmt
  BY <1>6, Zenon DEF HeapGrows
<1>8. stmt'[portal[cur.obj + bdone].stmt].cols # NoQuery
  BY <1>1, <1>6, Zenon DEF HeapGrows
<1> QED
  BY <1>1, <1>7, <1>8, Zenon

\* Every step keeps the columns of the described statement known.
LEMMA CursorNext ==
  ASSUME PlansInv, [Next]_vars
  PROVE  CursorInv'
<1>1. TypeOK /\ CursorInv /\ QueriesPoint
  BY Zenon DEF PlansInv, HeapInv, PointersInv
<1>2. HeapGrows
  BY <1>1, HeapNext, Zenon
<1>3. ASSUME bdesc' = FALSE PROVE CursorInv'
  BY <1>3, Zenon DEF CursorInv
<1>4. ASSUME UNCHANGED <<bdone, bdesc, c2b>> PROVE CursorInv'
  BY <1>1, <1>2, <1>4, CursorKept, Zenon DEF cur
<1>5. CASE Send
  <2>1. c2b' = Append(c2b, fmsg) /\ UNCHANGED <<bdone, bdesc>>
    BY <1>5, Zenon DEF Send, backendVars
  <2>2. c2b \in Seq(Message) /\ fmsg \in Message
    BY <1>1 DEF TypeOK
  <2>3. c2b # <<>> => c2b' # <<>> /\ Head(c2b') = Head(c2b)
    <3>1. /\ Append(c2b, fmsg) \in Seq(Message) /\ Append(c2b, fmsg) # <<>>
          /\ Len(c2b) \in Nat /\ \A i \in 1..Len(c2b) : Append(c2b, fmsg)[i] = c2b[i]
      BY <2>2, AppendFacts, Zenon
    <3>2. c2b # <<>> => 1 \in 1..Len(c2b) /\ Head(c2b) = c2b[1]
      BY <1>1, CurType, Zenon DEF cur
    <3>3. Head(Append(c2b, fmsg)) = Append(c2b, fmsg)[1]
      BY <3>1, SeqTail
    <3> QED  BY <2>1, <3>1, <3>2, <3>3, Zenon
  <2> QED  BY <1>1, <1>2, <2>1, <2>3, CursorKept, Zenon DEF cur
<1>6. CASE Frontend
  BY <1>4, <1>5, <1>6, Zenon
    DEF Frontend, OnParse, OnBind, OnBindFails, OnExecute, OnDescribeP, OnCloseP,
     OnDescribeS, OnCloseS, OnSync, OnQuery, ClientGone, backendVars
<1>7. CASE Parsed \/ Bound \/ Closed \/ RowDescription \/ NoData \/ ExecuteDone \/ Skip
           \/ ReadyForQuery \/ QueryStatementDone
  BY <1>3, <1>7, Zenon DEF Parsed, Bound, Closed, RowDescription, NoData, ExecuteDone, Skip,
     ReadyForQuery, QueryStatementDone, Finished
<1>8. CASE StartupReady \/ DataRow \/ DataRowFails \/ BackendGone
  BY <1>4, <1>8, Zenon DEF StartupReady, DataRow, DataRowFails, BackendGone, backendVars
<1>9. CASE ErrorResponse
  BY <1>3, <1>4, <1>9, Zenon DEF ErrorResponse, Finished
<1>10. CASE QueryRowDescription
  <2>1. /\ c2b # <<>> /\ cur.type = "Query" /\ bdone < Len(cur.text) /\ UNCHANGED <<c2b, bdone>>
        /\ Working({"Query"})
    BY <1>10, Zenon DEF QueryRowDescription, Working
  <2>2. stmt'[portal[cur.obj + bdone].stmt].cols # NoQuery
    BY <1>10, ColumnsQueryRowDescription, Zenon
  <2>3. CurrentExecuting = cur.obj + bdone /\ CurrentExecuting \in 1..Len(portal)
    BY <2>1, StatementFacts, Zenon
  <2>4. portal'[cur.obj + bdone].stmt = portal[cur.obj + bdone].stmt
    BY <1>2, <2>3, Zenon DEF HeapGrows
  <2>5. cur' = cur
    BY <2>1, Zenon DEF cur
  <2> QED  BY <2>1, <2>2, <2>4, <2>5, Zenon DEF CursorInv
<1>11. CASE UNCHANGED vars
  BY <1>4, <1>11, Zenon DEF vars, backendVars
<1> QED
  BY <1>6, <1>7, <1>8, <1>9, <1>10, <1>11, Zenon DEF Next, Backend

-----------------------------------------------------------------------------
(* The invariant, and what it says of the rows.                             *)

\* The heaps are empty when the session starts.
LEMMA HeapInit ==
  ASSUME Init
  PROVE  HeapInv
<1>1. pipe = <<>> /\ Len(pipe) = 0 /\ Len(stmt) = 0 /\ Len(portal) = 0 /\ Len(describes) = 0
  BY SeqEmpty, Zenon DEF Init, pipe
<1>2. ColumnsInv
  BY <1>1 DEF Init, ColumnsInv
<1>3. PortalsPoint
  BY Zenon DEF Init, PortalsPoint, NoPortals
<1>4. DescribesPoint /\ QueriesPoint /\ CursorInv
  BY <1>1 DEF Init, DescribesPoint, QueriesPoint, CursorInv
<1> QED
  BY <1>2, <1>3, <1>4, Zenon DEF HeapInv, PointersInv

\* Every step keeps the columns, the plans and the pointers right, as long as
\* results and descriptions reach their objects and names mean the same on
\* both sides.
LEMMA HeapStep ==
  ASSUME PlansInv, [Next]_vars
  PROVE  HeapInv'
  BY ColumnsNext, PortalsPointNext, DescribesPointNext, QueriesPointNext, CursorNext, Zenon
     DEF HeapInv, PointersInv

\* The portal a row is decrypted for, its statement and the SQL of the row.
LEMMA RowFacts ==
  ASSUME PlansInv, SendingRows
  PROVE  /\ CurrentExecuting \in 1..Len(portal) /\ CurrentExecuting # nil
         /\ portal[CurrentExecuting].stmt # nil
         /\ RowSQL = stmt[portal[CurrentExecuting].stmt].sql
         /\ RowPlan = ensureReadPlan(CurrentExecuting)
         /\ (cur.type = "Execute" => Executing.stmt \in bDescribed) =>
              stmt[portal[CurrentExecuting].stmt].cols # NoQuery
<1>1. TypeOK /\ ColumnsInv /\ PortalsPoint /\ CursorInv
  BY Zenon DEF PlansInv, HeapInv, PointersInv
<1>2. CASE Working({"Execute"}) /\ Executing.obj # nil
  <2>1. c2b # <<>> /\ cur.type = "Execute" /\ cur \in Message
    BY <1>1, <1>2, CurType, Zenon DEF Working
  <2>2. CurrentExecuting = Executing.obj
    BY <1>2, Zenon DEF PlansInv, RowsReachTheirPortal
  <2>3. Executing.stmt # nil /\ portal[Executing.obj].stmt = Executing.stmt
    BY <1>1, <1>2, <2>1, Zenon DEF PortalsPoint, Executing, Message
  <2>4. CurrentExecuting \in 1..Len(portal)
    BY <1>1, <1>2, <2>2, CurrentType, Lengths DEF nil
  <2>5. RowSQL = stmt[Executing.stmt].sql /\ RowPlan = ensureReadPlan(CurrentExecuting)
    BY <1>2, <2>1, <2>2, Zenon DEF RowSQL, RowPlan
  <2>6. Executing.stmt \in bDescribed => stmt[Executing.stmt].cols # NoQuery
    BY <1>1, Zenon DEF ColumnsInv
  <2> QED  BY <1>2, <2>1, <2>2, <2>3, <2>4, <2>5, <2>6, Zenon
<1>3. CASE Working({"Query"}) /\ bdone < Len(cur.text) /\ bdesc
  <2>1. /\ CurrentExecuting = cur.obj + bdone
        /\ CurrentExecuting \in 1..Len(portal) /\ CurrentExecuting # nil
        /\ portal[CurrentExecuting].stmt # nil
        /\ stmt[portal[CurrentExecuting].stmt].sql = cur.text[bdone + 1]
    BY <1>3, StatementFacts, Zenon
  <2>2. cur.type = "Query"
    BY <1>3, Zenon DEF Working
  <2>3. stmt[portal[cur.obj + bdone].stmt].cols # NoQuery
    BY <1>1, <1>3, Zenon DEF CursorInv
  <2> QED  BY <2>1, <2>2, <2>3, Zenon DEF RowSQL, RowPlan
<1> QED
  BY <1>2, <1>3, Zenon DEF SendingRows

\* The plan of a row is its statement's own, and there is one if the statement
\* was ever described.
LEMMA RowPlans ==
  ASSUME PlansInv
  PROVE  RowsUseTheirOwnPlan /\ DescribedRowsHaveAPlan
<1>1. TypeOK /\ ColumnsInv
  BY Zenon DEF PlansInv, HeapInv
<1>2. ASSUME SendingRows PROVE RowPlan \in {NoPlan, [from |-> RowSQL, cols |-> RowSQL]}
  BY <1>1, <1>2, RowFacts, RowPlanOwn, Zenon DEF OwnPlan
<1>3. ASSUME SendingRows, cur.type = "Execute" => Executing.stmt \in bDescribed,
             RowSQL \notin Unparsable
      PROVE  RowPlan # NoPlan
  BY <1>1, <1>3, RowFacts, RowPlanOwn, Zenon
<1> QED
  BY <1>2, <1>3, Zenon DEF RowsUseTheirOwnPlan, DescribedRowsHaveAPlan

-----------------------------------------------------------------------------
(* What statement names mean.                                               *)

\* Only the first e messages matter.
LEMMA NamesPrefix ==
  ASSUME NEW p, NEW r, NEW e \in Nat, \A i \in 1..e : r[i] = p[i],
         NEW n, NEW x, NEW bs, NEW st
  PROVE  /\ Names(r, e, n, x, bs, st) <=> Names(p, e, n, x, bs, st)
         /\ Reparsed(r, e) <=> Reparsed(p, e)
<1>1. Reparsed(r, e) <=> Reparsed(p, e)
  BY Zenon DEF Reparsed
<1>2. AllDead(r, e, bs) <=> AllDead(p, e, bs)
  BY Zenon DEF AllDead
<1>3. \A k : NoneSets(r, k, e, n) <=> NoneSets(p, k, e, n)
  BY Zenon DEF NoneSets
<1> QED
  BY <1>1, <1>2, <1>3, Zenon DEF Names

\* A message that neither changes the name nor ends a batch that used it.
LEMMA NamesKeep ==
  ASSUME NEW p \in Seq(Message), NEW m \in Message, NEW n, NEW x, NEW bs, NEW st,
         Names(p, Len(p), n, x, bs, st), n = Unnamed => Reparsed(p, Len(p)),
         ~Sets(m, n), n = Unnamed => m.type # "Sync"
  PROVE  /\ Names(Append(p, m), Len(p) + 1, n, x, bs, st)
         /\ n = Unnamed => Reparsed(Append(p, m), Len(p) + 1)
<1> DEFINE r == Append(p, m)
           l == Len(p)
<1>1. l \in Nat /\ (\A i \in 1..l : r[i] = p[i]) /\ r[l + 1] = m
  BY AppendFacts, Zenon
<1>2. \A i \in 1..(l + 1) : i \in 1..l \/ i = l + 1
  BY <1>1
<1>3. \A i \in 1..l : i \in 1..(l + 1)
  BY <1>1
<1> HIDE DEF r, l
<1>4. Names(p, l, n, x, bs, st) /\ (n = Unnamed => Reparsed(p, l))
  BY Zenon DEF l
<1>5. n = Unnamed => Reparsed(r, l + 1)
  BY <1>1, <1>2, <1>3, <1>4, Zenon DEF Reparsed
<1>6. n = Unnamed /\ AllDead(p, l, bs) => AllDead(r, l + 1, bs)
  BY <1>1, <1>2, Zenon DEF AllDead
<1>7. \A k : NoneSets(r, k, l + 1, n) => NoneSets(p, k, l, n)
  BY <1>1, <1>3, Zenon DEF NoneSets
<1>8. Names(r, l + 1, n, x, bs, st)
  <2>1. CASE n = Unnamed /\ AllDead(p, l, bs)
    BY <1>6, <2>1, Zenon DEF Names
  <2>2. CASE ~(n = Unnamed /\ AllDead(p, l, bs))
    <3>1. /\ NoneSets(p, 0, l, n) => st[n] \in {nil, x}
          /\ \A k \in 1..l : Sets(p[k], n) /\ NoneSets(p, k, l, n) =>
                x = p[k].obj /\ (n # Unnamed => p[k].type = "Parse")
      BY <1>4, <2>2, Zenon DEF Names
    <3>2. ASSUME NEW k \in 1..(l + 1), Sets(r[k], n), NoneSets(r, k, l + 1, n)
          PROVE  x = r[k].obj /\ (n # Unnamed => r[k].type = "Parse")
      <4>1. k \in 1..l
        BY <1>1, <1>2, <3>2, Zenon
      <4> QED  BY <1>1, <1>7, <3>1, <3>2, <4>1, Zenon
    <3> QED  BY <1>7, <3>1, <3>2, Zenon DEF Names
  <2> QED  BY <2>1, <2>2, Zenon
<1> QED
  BY <1>5, <1>8, Zenon DEF r, l

\* A Parse of the name.
LEMMA NamesParse ==
  ASSUME NEW p \in Seq(Message), NEW m \in Message, NEW n, NEW bs, NEW st, Parses(m, n)
  PROVE  /\ Names(Append(p, m), Len(p) + 1, n, m.obj, bs, st)
         /\ n = Unnamed => Reparsed(Append(p, m), Len(p) + 1)
<1> DEFINE r == Append(p, m)
           l == Len(p)
<1>1. l \in Nat /\ r[l + 1] = m
  BY AppendFacts, Zenon
<1>2. \A i \in 1..(l + 1) : i < l + 1 \/ i = l + 1
  BY <1>1
<1>3. l + 1 \in 1..(l + 1) /\ 0 < l + 1
  BY <1>1
<1> HIDE DEF r, l
<1>4. Sets(m, n) /\ m.type = "Parse"
  BY Zenon DEF Parses, Sets
<1>5. \A k \in 1..(l + 1) : NoneSets(r, k, l + 1, n) => k = l + 1
  BY <1>1, <1>2, <1>3, <1>4, Zenon DEF NoneSets
<1>6. ~NoneSets(r, 0, l + 1, n)
  BY <1>1, <1>3, <1>4, Zenon DEF NoneSets
<1>7. Names(r, l + 1, n, m.obj, bs, st)
  BY <1>1, <1>4, <1>5, <1>6, Zenon DEF Names
<1>8. n = Unnamed => Reparsed(r, l + 1)
  BY <1>1, <1>2, <1>3, <1>4, Zenon DEF Reparsed, Parses
<1> QED
  BY <1>7, <1>8, Zenon DEF r, l

\* What a backend that finishes message m may do: from state bs to bt, with the
\* statements st before and tt after.
Effect(m, bs, bt, st, tt) ==
  /\ bs = "skip" /\ m.type # "Sync" => bt = "skip"
  /\ \A n \in StmtNames : ~Sets(m, n) => tt[n] \in {nil, st[n]}
  /\ \A n \in StmtNames : Sets(m, n) =>
       \/ tt[n] = nil
       \/ Parses(m, n) /\ tt[n] = m.obj
       \/ bt = "skip" /\ tt[n] = st[n]

\* Finishing the head of the pipe.
LEMMA NamesTail ==
  ASSUME NEW p \in Seq(Message), p # <<>>, NEW e \in 0..(Len(p) - 1), NEW n \in StmtNames, NEW x,
         NEW bs, NEW bt, NEW st, NEW tt, Effect(p[1], bs, bt, st, tt),
         Names(p, e + 1, n, x, bs, st), n = Unnamed => Reparsed(p, e + 1),
         n # Unnamed /\ Parses(p[1], n) => st[n] = nil
  PROVE  /\ Names(Tail(p), e, n, x, bt, tt)
         /\ n = Unnamed => Reparsed(Tail(p), e)
<1> DEFINE r == Tail(p)
<1>1. /\ Len(p) \in Nat /\ Len(r) = Len(p) - 1 /\ e \in Nat /\ Len(p) >= 1
      /\ \A i \in 1..Len(r) : r[i] = p[i + 1]
  BY TailFacts
<1>2. \A i \in 1..e : r[i] = p[i + 1] /\ i + 1 \in 1..(e + 1) /\ 1 < i + 1 /\ 0 < i + 1
  BY <1>1
<1>3. \A i \in 1..(e + 1) : i = 1 \/ (i - 1 \in 1..e /\ p[i] = r[i - 1] /\ i = (i - 1) + 1)
  BY <1>1
<1>4. 1 \in 1..(e + 1)
  BY <1>1
<1>5. \A i, j \in 1..e : i < j <=> i + 1 < j + 1
  BY <1>1
<1> HIDE DEF r
<1>6. n = Unnamed => Reparsed(r, e)
  <2> SUFFICES ASSUME n = Unnamed, NEW j \in 1..e, r[j].type = "Sync"
               PROVE  \E k \in 1..e : j < k /\ Parses(r[k], Unnamed)
    BY Zenon DEF Reparsed
  <2>1. PICK k \in 1..(e + 1) : j + 1 < k /\ Parses(p[k], Unnamed)
    BY <1>2, Zenon DEF Reparsed
  <2>2. k - 1 \in 1..e /\ j < k - 1 /\ p[k] = r[k - 1]
    BY <1>1, <1>3, <2>1
  <2> QED  BY <2>1, <2>2, Zenon
<1>7. n = Unnamed /\ AllDead(p, e + 1, bs) => AllDead(r, e, bt)
  BY <1>2, <1>4, Zenon DEF AllDead, Effect
<1>8. \A k \in 1..e : NoneSets(r, k, e, n) => NoneSets(p, k + 1, e + 1, n)
  <2> SUFFICES ASSUME NEW k \in 1..e, NoneSets(r, k, e, n), NEW h \in 1..(e + 1), k + 1 < h
               PROVE  ~Sets(p[h], n)
    BY Zenon DEF NoneSets
  <2>1. h - 1 \in 1..e /\ k < h - 1 /\ p[h] = r[h - 1]
    BY <1>1, <1>3
  <2> QED  BY <2>1, Zenon DEF NoneSets
<1>9. NoneSets(r, 0, e, n) => NoneSets(p, 1, e + 1, n)
  <2> SUFFICES ASSUME NoneSets(r, 0, e, n), NEW h \in 1..(e + 1), 1 < h
               PROVE  ~Sets(p[h], n)
    BY Zenon DEF NoneSets
  <2>1. h - 1 \in 1..e /\ 0 < h - 1 /\ p[h] = r[h - 1]
    BY <1>1, <1>3
  <2> QED  BY <2>1, Zenon DEF NoneSets
<1>10. ASSUME ~(n = Unnamed /\ AllDead(p, e + 1, bs))
       PROVE  Names(r, e, n, x, bt, tt)
  <2>1. /\ NoneSets(p, 0, e + 1, n) => st[n] \in {nil, x}
        /\ \A k \in 1..(e + 1) : Sets(p[k], n) /\ NoneSets(p, k, e + 1, n) =>
              x = p[k].obj /\ (n # Unnamed => p[k].type = "Parse")
    BY <1>10, Zenon DEF Names
  <2>2. ASSUME NEW k \in 1..e, Sets(r[k], n), NoneSets(r, k, e, n)
        PROVE  x = r[k].obj /\ (n # Unnamed => r[k].type = "Parse")
    BY <1>2, <1>8, <2>1, <2>2, Zenon
  <2>3. CASE ~NoneSets(r, 0, e, n)
    BY <2>2, <2>3, Zenon DEF Names
  <2>4. CASE NoneSets(r, 0, e, n) /\ ~Sets(p[1], n)
    <3>1. NoneSets(p, 0, e + 1, n)
      BY <1>3, <1>9, <2>4, <1>1 DEF NoneSets
    <3>2. tt[n] \in {nil, x}
      BY <2>1, <2>4, <3>1, Zenon DEF Effect
    <3> QED  BY <2>2, <3>2, Zenon DEF Names
  <2>5. CASE NoneSets(r, 0, e, n) /\ Sets(p[1], n)
    <3>1. x = p[1].obj /\ (n # Unnamed => p[1].type = "Parse")
      BY <1>4, <1>9, <2>1, <2>5, Zenon
    <3>2. CASE tt[n] \in {nil, p[1].obj}
      BY <2>2, <3>1, <3>2, Zenon DEF Names
    <3>3. CASE bt = "skip" /\ tt[n] = st[n] /\ n # Unnamed
      <4>1. st[n] = nil
        BY <2>5, <3>1, <3>3, Zenon DEF Parses, Sets
      <4> QED  BY <2>2, <3>3, <4>1, Zenon DEF Names
    <3>4. CASE bt = "skip" /\ n = Unnamed
      <4>1. \A j \in 1..e : r[j].type # "Sync"
        <5> SUFFICES ASSUME NEW j \in 1..e, r[j].type = "Sync" PROVE FALSE
          BY Zenon
        <5>1. PICK k \in 1..e : j < k /\ Parses(r[k], Unnamed)
          BY <1>6, <3>4, Zenon DEF Reparsed
        <5>2. 0 < k /\ Sets(r[k], n)
          BY <1>1, <3>4, <5>1 DEF Parses, Sets
        <5> QED  BY <2>5, <5>2, Zenon DEF NoneSets
      <4> QED  BY <3>4, <4>1, Zenon DEF Names, AllDead
    <3> QED  BY <2>5, <3>2, <3>3, <3>4, Zenon DEF Effect
  <2> QED  BY <2>3, <2>4, <2>5, Zenon
<1> QED
  BY <1>6, <1>7, <1>10, Zenon DEF r, Names

\* The names parsed once, when the head of the pipe is finished.
LEMMA FreshTail ==
  ASSUME NEW p \in Seq(Message), p # <<>>, NEW bs, NEW bt, NEW st, NEW tt, NEW us,
         Effect(p[1], bs, bt, st, tt), FreshInv(p, st, us)
  PROVE  FreshInv(Tail(p), tt, us)
<1> DEFINE r == Tail(p)
<1>1. /\ Len(p) \in Nat /\ Len(r) = Len(p) - 1 /\ Len(p) >= 1
      /\ \A i \in 1..Len(r) : r[i] = p[i + 1]
  BY TailFacts, Zenon
<1>2. 1 \in 1..Len(p) /\ \A i \in 1..Len(r) : i + 1 \in 1..Len(p) /\ i + 1 # 1 /\ r[i] = p[i + 1]
  BY <1>1
<1>3. \A i, j \in 1..Len(r) : i + 1 = j + 1 => i = j
  BY <1>1
<1> HIDE DEF r
<1>4. \A n \in StmtNames : st[n] = nil /\ ~Parses(p[1], n) => tt[n] = nil
  BY Zenon DEF Effect
<1>5. ASSUME NEW k \in 1..Len(r), NEW n \in StmtNames \ {Unnamed}, Parses(r[k], n)
      PROVE  tt[n] = nil /\ \A h \in 1..Len(r) : Parses(r[h], n) => h = k
  <2>1. Parses(p[k + 1], n) /\ k + 1 \in 1..Len(p)
    BY <1>2, <1>5, Zenon
  <2>2. st[n] = nil /\ \A h \in 1..Len(p) : Parses(p[h], n) => h = k + 1
    BY <2>1, Zenon DEF FreshInv
  <2>3. ~Parses(p[1], n)
    BY <1>2, <2>2, Zenon
  <2>4. \A h \in 1..Len(r) : Parses(r[h], n) => h = k
    BY <1>2, <1>3, <2>2, Zenon
  <2> QED  BY <1>4, <2>2, <2>3, <2>4, Zenon
<1>6. ASSUME NEW n \in StmtNames \ {Unnamed}, n \notin us
      PROVE  tt[n] = nil /\ \A k \in 1..Len(r) : ~Parses(r[k], n)
  <2>1. st[n] = nil /\ \A k \in 1..Len(p) : ~Parses(p[k], n)
    BY <1>6, Zenon DEF FreshInv
  <2> QED  BY <1>2, <1>4, <2>1, Zenon
<1> QED
  BY <1>5, <1>6, Zenon DEF FreshInv, r

\* The names that Binds and Describes use keep their meaning when a message is
\* finished,
LEMMA UsesTail ==
  ASSUME NEW p \in Seq(Message), p # <<>>, NEW bs, NEW bt, NEW st, NEW tt, NEW po, NEW us,
         Effect(p[1], bs, bt, st, tt), FreshInv(p, st, us), UsesInv(p, bs, st, po)
  PROVE  UsesInv(Tail(p), bt, tt, po)
<1> DEFINE r == Tail(p)
<1>1. /\ Len(p) \in Nat /\ Len(r) = Len(p) - 1 /\ Len(p) >= 1
      /\ \A i \in 1..Len(r) : r[i] = p[i + 1]
  BY TailFacts, Zenon
<1>2. \A n \in StmtNames : n # Unnamed /\ Parses(p[1], n) => st[n] = nil
  BY <1>1 DEF FreshInv
<1>3. ASSUME NEW i \in 1..Len(r), Uses(r[i])
      PROVE  /\ Names(r, i - 1, r[i].stmt, Meant(r[i], po), bt, tt)
             /\ r[i].stmt = Unnamed => Reparsed(r, i - 1)
             /\ r[i].type = "Bind" => r[i].obj # nil
  <2>1. /\ r[i] = p[i + 1] /\ i + 1 \in 1..Len(p) /\ i - 1 \in 0..(Len(p) - 1)
        /\ (i + 1) - 1 = (i - 1) + 1
    BY <1>1
  <2>2. r[i].stmt \in StmtNames
    BY <2>1, Numbers, Zenon DEF Message
  <2>3. /\ Names(p, (i - 1) + 1, r[i].stmt, Meant(r[i], po), bs, st)
        /\ r[i].stmt = Unnamed => Reparsed(p, (i - 1) + 1)
        /\ r[i].type = "Bind" => r[i].obj # nil
    <3>1. /\ Names(p, (i + 1) - 1, p[i + 1].stmt, Meant(p[i + 1], po), bs, st)
          /\ p[i + 1].stmt = Unnamed => Reparsed(p, (i + 1) - 1)
          /\ p[i + 1].type = "Bind" => p[i + 1].obj # nil
      BY <1>3, <2>1, Zenon DEF UsesInv
    <3> QED  BY <2>1, <3>1, Zenon
  <2> DEFINE e == i - 1
             n == r[i].stmt
             x == Meant(r[i], po)
  <2>4. /\ e \in 0..(Len(p) - 1) /\ n \in StmtNames /\ Names(p, e + 1, n, x, bs, st)
        /\ n = Unnamed => Reparsed(p, e + 1)
    BY <2>1, <2>2, <2>3, Zenon
  <2> HIDE DEF e, n, x
  <2>5. Names(Tail(p), e, n, x, bt, tt) /\ (n = Unnamed => Reparsed(Tail(p), e))
    BY <1>2, <2>4, NamesTail, Zenon
  <2> QED  BY <2>3, <2>5, Zenon DEF e, n, x
<1> QED
  BY <1>3, Zenon DEF UsesInv

\* and so do the names the client holds.
LEMMA LiveTail ==
  ASSUME NEW p \in Seq(Message), p # <<>>, NEW bs, NEW bt, NEW st, NEW tt, NEW us,
         NEW lv \in SUBSET StmtNames, NEW ss,
         Effect(p[1], bs, bt, st, tt), FreshInv(p, st, us), LiveInv(p, bs, st, lv, ss)
  PROVE  LiveInv(Tail(p), bt, tt, lv, ss)
<1> DEFINE e == Len(Tail(p))
<1>1. /\ Len(p) \in Nat /\ e = Len(p) - 1 /\ Len(p) >= 1 /\ e \in 0..(Len(p) - 1) /\ e + 1 = Len(p)
  BY TailFacts
<1>2. \A n \in StmtNames : n # Unnamed /\ Parses(p[1], n) => st[n] = nil
  BY <1>1 DEF FreshInv
<1> HIDE DEF e
<1>3. ASSUME NEW n \in lv
      PROVE  Names(Tail(p), e, n, ss[n], bt, tt) /\ (n = Unnamed => Reparsed(Tail(p), e))
  <2>1. /\ Names(p, e + 1, n, ss[n], bs, st) /\ n \in StmtNames
        /\ n = Unnamed => Reparsed(p, e + 1)
    BY <1>1, Zenon DEF LiveInv
  <2> QED  BY <1>1, <1>2, <2>1, NamesTail, Zenon
<1> QED
  BY <1>3, Zenon DEF LiveInv, e

\* The heap of portals may grow under the messages of the pipe.
LEMMA UsesHeap ==
  ASSUME TypeOK, HeapGrows, NEW bs, NEW st, UsesInv(pipe, bs, st, portal)
  PROVE  UsesInv(pipe, bs, st, portal')
<1>1. \A i \in 1..Len(pipe) : pipe[i] \in Message /\ Points(pipe[i], Len(stmt), Len(portal))
  <2>1. /\ c2b \in Seq(Message) /\ fmsg \in Message /\ Points(fmsg, Len(stmt), Len(portal))
        /\ \A i \in 1..Len(c2b) : Points(c2b[i], Len(stmt), Len(portal))
    BY Zenon DEF TypeOK
  <2>2. CASE fpump # "send"
    BY <2>1, <2>2, SeqEntry, Zenon DEF pipe
  <2>3. CASE fpump = "send"
    <3>1. /\ pipe = Append(c2b, fmsg) /\ Len(c2b) \in Nat /\ Len(pipe) = Len(c2b) + 1
          /\ \A i \in 1..Len(c2b) : pipe[i] = c2b[i]
          /\ pipe[Len(c2b) + 1] = fmsg
      BY <2>1, <2>3, AppendFacts, Zenon DEF pipe
    <3>2. \A i \in 1..Len(pipe) : i \in 1..Len(c2b) \/ i = Len(c2b) + 1
      BY <3>1
    <3> QED  BY <2>1, <3>1, <3>2, SeqEntry, Zenon
  <2> QED  BY <2>2, <2>3, Zenon
<1>2. ASSUME NEW i \in 1..Len(pipe), Uses(pipe[i]), pipe[i].type = "Bind" => pipe[i].obj # nil
      PROVE  Meant(pipe[i], portal') = Meant(pipe[i], portal)
  <2>1. CASE pipe[i].type = "Bind"
    <3>1. pipe[i].obj \in Nat /\ pipe[i].obj <= Len(portal) /\ pipe[i].obj # 0
      BY <1>1, <1>2, <2>1, Zenon DEF Points, Message, nil
    <3>2. pipe[i].obj \in 1..Len(portal)
      BY <3>1, Lengths
    <3> QED  BY <2>1, <3>2, Zenon DEF HeapGrows, Meant
  <2>2. CASE pipe[i].type # "Bind"
    BY <2>2, Zenon DEF Meant
  <2> QED  BY <2>1, <2>2, Zenon
<1> QED
  BY <1>2, Zenon DEF UsesInv

-----------------------------------------------------------------------------
(* Steps.                                                                   *)

\* The backend finishes a message.
LEMMA NamesFinish ==
  ASSUME TypeOK, StmtInv, HeapGrows, c2b # <<>>, Finished,
         UNCHANGED <<pumpVars, clientVars, statements>>,
         Effect(cur, bstate, bstate', bStmts, bStmts')
  PROVE  StmtInv'
<1>1. pipe' = Tail(pipe) /\ pipe # <<>> /\ pipe \in Seq(Message) /\ pipe[1] = cur
  BY PipeTail, PipeType, Zenon DEF Finished, pumpVars
<1>2. (up' <=> up) /\ UNCHANGED <<live, used, statements>> /\ live \in SUBSET StmtNames
  BY Zenon DEF up, pumpVars, clientVars, TypeOK
<1>3. /\ FreshInv(pipe, bStmts, used) /\ UsesInv(pipe, bstate, bStmts, portal')
      /\ up => LiveInv(pipe, bstate, bStmts, live, statements)
  BY UsesHeap, Zenon DEF StmtInv
<1>4. FreshInv(pipe', bStmts', used)
  BY <1>1, <1>3, FreshTail, Zenon
<1>5. UsesInv(pipe', bstate', bStmts', portal')
  BY <1>1, <1>3, UsesTail, Zenon
<1>6. up => LiveInv(pipe', bstate', bStmts', live, statements)
  BY <1>1, <1>2, <1>3, LiveTail, Zenon
<1> QED
  BY <1>2, <1>4, <1>5, <1>6, Zenon DEF StmtInv

\* The pipe and the backend's statements stay, and the backend is not in a
\* failed batch or stays in it.
LEMMA NamesSame ==
  ASSUME TypeOK, StmtInv, HeapGrows, UNCHANGED <<fpump, fmsg, c2b, statements, live, used, bStmts>>,
         bstate = "skip" => bstate' = "skip"
  PROVE  StmtInv'
<1>1. pipe' = pipe /\ (up' <=> up)
  BY Zenon DEF pipe, up
<1>2. \A e, n, x : Names(pipe, e, n, x, bstate, bStmts) => Names(pipe, e, n, x, bstate', bStmts)
  BY Zenon DEF Names, AllDead
<1>3. /\ FreshInv(pipe, bStmts, used) /\ UsesInv(pipe, bstate, bStmts, portal')
      /\ up => LiveInv(pipe, bstate, bStmts, live, statements)
  BY UsesHeap, Zenon DEF StmtInv
<1>4. UsesInv(pipe, bstate', bStmts, portal')
  BY <1>2, <1>3, Zenon DEF UsesInv
<1>5. up => LiveInv(pipe, bstate', bStmts, live, statements)
  BY <1>2, <1>3, Zenon DEF LiveInv
<1> QED
  BY <1>1, <1>3, <1>4, <1>5, Zenon DEF StmtInv

\* The frontend pump returns; it may drop a message it has not sent.
LEMMA NamesEnds ==
  ASSUME TypeOK, StmtInv, HeapGrows, UNCHANGED <<c2b, bstate, bStmts>>, used \subseteq used',
         fpump' = "done"
  PROVE  StmtInv'
<1>1. pipe' = c2b /\ ~up' /\ c2b \in Seq(Message) /\ fmsg \in Message
  BY Zenon DEF pipe, up, TypeOK
<1>2. FreshInv(pipe, bStmts, used) /\ UsesInv(pipe, bstate, bStmts, portal')
  BY UsesHeap, Zenon DEF StmtInv
<1>3. Len(c2b) \in Nat /\ \A i \in 1..Len(c2b) : i \in 1..Len(pipe) /\ pipe[i] = c2b[i]
  <2>1. CASE fpump = "send"
    <3>1. pipe = Append(c2b, fmsg)
      BY <2>1, Zenon DEF pipe
    <3> QED  BY <1>1, <3>1, AppendFacts
  <2>2. CASE fpump # "send"
    BY <1>1, <2>2, SeqLength, Zenon DEF pipe
  <2> QED  BY <2>1, <2>2, Zenon
<1>4. FreshInv(c2b, bStmts, used')
  BY <1>2, <1>3, Zenon DEF FreshInv
<1>5. UsesInv(c2b, bstate, bStmts, portal')
  <2> SUFFICES ASSUME NEW i \in 1..Len(c2b), Uses(c2b[i])
               PROVE  /\ Names(c2b, i - 1, c2b[i].stmt, Meant(c2b[i], portal'), bstate, bStmts)
                      /\ c2b[i].stmt = Unnamed => Reparsed(c2b, i - 1)
                      /\ c2b[i].type = "Bind" => c2b[i].obj # nil
    BY Zenon DEF UsesInv
  <2>1. i - 1 \in Nat /\ \A j \in 1..(i - 1) : j \in 1..Len(c2b)
    BY <1>3
  <2>2. /\ Names(pipe, i - 1, c2b[i].stmt, Meant(c2b[i], portal'), bstate, bStmts)
        /\ c2b[i].stmt = Unnamed => Reparsed(pipe, i - 1)
        /\ c2b[i].type = "Bind" => c2b[i].obj # nil
    BY <1>2, <1>3, Zenon DEF UsesInv
  <2>3. \A j \in 1..(i - 1) : pipe[j] = c2b[j]
    BY <1>3, <2>1, Zenon
  <2> QED  BY <2>1, <2>2, <2>3, NamesPrefix, Zenon
<1> QED
  BY <1>1, <1>4, <1>5, Zenon DEF StmtInv

\* The frontend pump observes message m.
LEMMA NamesObserve ==
  ASSUME TypeOK, StmtInv, HeapGrows, NEW m \in Message, fpump = "recv", Observed(m),
         UNCHANGED <<c2b, bstate, bStmts>>,
         Uses(m) => /\ m.stmt \in live /\ Meant(m, portal') = statements[m.stmt]
                    /\ m.type = "Bind" => m.obj # nil,
         \A n \in live' :
           \/ Parses(m, n) /\ statements'[n] = m.obj
           \/ /\ n \in live /\ ~Sets(m, n) /\ statements'[n] = statements[n]
              /\ n = Unnamed => m.type # "Sync",
         used \subseteq used',
         \A n \in StmtNames : n # Unnamed /\ Parses(m, n) => n \notin used /\ n \in used'
  PROVE  StmtInv'
<1> DEFINE l == Len(pipe)
<1>1. pipe' = Append(pipe, m) /\ up /\ up' /\ pipe \in Seq(Message)
  BY PipeAppend, PipeType, Zenon
<1>2. /\ l \in Nat /\ Len(pipe') = l + 1 /\ (\A i \in 1..l : pipe'[i] = pipe[i]) /\ pipe'[l + 1] = m
  BY <1>1, AppendFacts
<1>3. /\ FreshInv(pipe, bStmts, used) /\ UsesInv(pipe, bstate, bStmts, portal')
      /\ LiveInv(pipe, bstate, bStmts, live, statements)
  BY <1>1, UsesHeap, Zenon DEF StmtInv
<1>4. \A i \in 1..(l + 1) : i \in 1..l \/ i = l + 1
  BY <1>2
<1>5. FreshInv(pipe', bStmts, used')
  <2>1. ASSUME NEW k \in 1..(l + 1), NEW n \in StmtNames \ {Unnamed}, Parses(pipe'[k], n)
        PROVE  bStmts[n] = nil /\ \A h \in 1..(l + 1) : Parses(pipe'[h], n) => h = k
    <3>1. CASE Parses(m, n)
      <4>1. n \notin used
        BY <3>1, Zenon
      <4>2. bStmts[n] = nil /\ \A h \in 1..l : ~Parses(pipe[h], n)
        BY <1>3, <4>1, Zenon DEF FreshInv
      <4> QED  BY <1>2, <1>4, <2>1, <4>2
    <3>2. CASE ~Parses(m, n)
      <4>1. k \in 1..l
        BY <1>2, <1>4, <2>1, <3>2, Zenon
      <4>2. Parses(pipe[k], n)
        BY <1>2, <2>1, <4>1, Zenon
      <4>3. bStmts[n] = nil /\ \A h \in 1..l : Parses(pipe[h], n) => h = k
        BY <1>3, <4>1, <4>2, Zenon DEF FreshInv
      <4> QED  BY <1>2, <1>4, <3>2, <4>3, Zenon
    <3> QED  BY <3>1, <3>2, Zenon
  <2>2. ASSUME NEW n \in StmtNames \ {Unnamed}, n \notin used'
        PROVE  bStmts[n] = nil /\ \A k \in 1..(l + 1) : ~Parses(pipe'[k], n)
    <3>1. n \notin used /\ ~Parses(m, n)
      BY <2>2, Zenon
    <3>2. bStmts[n] = nil /\ \A h \in 1..l : ~Parses(pipe[h], n)
      BY <1>3, <3>1, Zenon DEF FreshInv
    <3> QED  BY <1>2, <1>4, <3>1, <3>2, Zenon
  <2> QED  BY <1>2, <2>1, <2>2, Zenon DEF FreshInv
<1>6. UsesInv(pipe', bstate, bStmts, portal')
  <2> SUFFICES ASSUME NEW i \in 1..(l + 1), Uses(pipe'[i])
               PROVE  /\ Names(pipe', i - 1, pipe'[i].stmt, Meant(pipe'[i], portal'), bstate, bStmts)
                      /\ pipe'[i].stmt = Unnamed => Reparsed(pipe', i - 1)
                      /\ pipe'[i].type = "Bind" => pipe'[i].obj # nil
    BY <1>2, Zenon DEF UsesInv
  <2>1. i - 1 \in Nat /\ \A j \in 1..(i - 1) : pipe'[j] = pipe[j]
    <3>1. l \in Nat
      BY <1>2, Zenon
    <3> HIDE DEF l
    <3>2. i - 1 \in Nat /\ \A j \in 1..(i - 1) : j \in 1..l
      BY <3>1
    <3> QED  BY <1>2, <3>2, Zenon
  <2>2. CASE i \in 1..l
    <3>1. /\ Names(pipe, i - 1, pipe[i].stmt, Meant(pipe[i], portal'), bstate, bStmts)
          /\ pipe[i].stmt = Unnamed => Reparsed(pipe, i - 1)
          /\ pipe[i].type = "Bind" => pipe[i].obj # nil /\ pipe'[i] = pipe[i]
      BY <1>2, <1>3, <2>2, Zenon DEF UsesInv
    <3>2. pipe'[i] = pipe[i]
      BY <1>2, <2>2, Zenon
    <3> QED  BY <2>1, <3>1, <3>2, NamesPrefix, Zenon
  <2>3. CASE i = l + 1
    <3>1. pipe'[i] = m /\ i - 1 = l
      BY <1>2, <2>3
    <3>2. /\ m.stmt \in live /\ Meant(m, portal') = statements[m.stmt]
          /\ m.type = "Bind" => m.obj # nil
      BY <3>1, Zenon
    <3>3. /\ Names(pipe, l, m.stmt, statements[m.stmt], bstate, bStmts)
          /\ m.stmt = Unnamed => Reparsed(pipe, l)
      BY <1>3, <3>2, Zenon DEF LiveInv
    <3>4. l \in Nat /\ \A j \in 1..l : pipe'[j] = pipe[j]
      BY <1>2, Zenon
    <3> HIDE DEF l
    <3>5. /\ Names(pipe', l, m.stmt, statements[m.stmt], bstate, bStmts)
          /\ m.stmt = Unnamed => Reparsed(pipe', l)
      BY <3>3, <3>4, NamesPrefix, Zenon
    <3> QED  BY <3>1, <3>2, <3>5, Zenon
  <2> QED  BY <1>4, <2>2, <2>3, Zenon
<1>7. LiveInv(pipe', bstate, bStmts, live', statements')
  <2> SUFFICES ASSUME NEW n \in live'
               PROVE  /\ Names(pipe', l + 1, n, statements'[n], bstate, bStmts)
                      /\ n = Unnamed => Reparsed(pipe', l + 1)
    BY <1>2, Zenon DEF LiveInv
  <2>1. CASE Parses(m, n) /\ statements'[n] = m.obj
    BY <1>1, <2>1, NamesParse, Zenon
  <2>2. CASE /\ n \in live /\ ~Sets(m, n) /\ statements'[n] = statements[n]
             /\ n = Unnamed => m.type # "Sync"
    <3>1. /\ Names(pipe, l, n, statements[n], bstate, bStmts)
          /\ n = Unnamed => Reparsed(pipe, l)
      BY <1>3, <2>2, Zenon DEF LiveInv
    <3> QED  BY <1>1, <2>2, <3>1, NamesKeep, Zenon
  <2> QED  BY <2>1, <2>2, Zenon
<1> QED
  BY <1>1, <1>5, <1>6, <1>7, Zenon DEF StmtInv

\* OnParse.
LEMMA NamesParseStep ==
  ASSUME TypeOK, StmtInv, Disciplined, NEW s \in StmtNames, NEW q \in Queries, OnParse(s, q)
  PROVE  StmtInv'
<1>1. Next
  BY Zenon DEF Next, Frontend
<1>2. HeapGrows /\ TypeOK'
  BY <1>1, HeapNext, NextType, Zenon
<1>3. /\ fpump = "recv" /\ UNCHANGED <<c2b, bstate, bStmts>> /\ (s # Unnamed => s \notin used)
      /\ live' = live \union {s} /\ used' = used \union {s}
  BY Zenon DEF OnParse, MaySend, MayParse, ClientSent, backendVars
<1>4. CASE q \in Rejected
  BY <1>2, <1>3, <1>4, NamesEnds, Zenon DEF OnParse, FrontendEnds
<1>5. CASE q \notin Rejected
  <2> DEFINE m == Msg("Parse", s, Unnamed, Len(stmt) + 1, <<q>>, 0)
  <2>1. /\ Observed(m) /\ statements' = [statements EXCEPT ![s] = Len(stmt) + 1]
        /\ statements \in [StmtNames -> 0..Len(stmt)] /\ live \subseteq StmtNames
    BY <1>5, Zenon DEF OnParse, TypeOK
  <2>2. m \in Message
    BY <1>2, <2>1, Zenon DEF Observed, TypeOK
  <2>3. m.type = "Parse" /\ m.stmt = s /\ m.obj = Len(stmt) + 1
    BY Zenon DEF Msg
  <2> HIDE DEF m
  <2>4. ~Uses(m) /\ \A n : (Parses(m, n) <=> n = s) /\ (Sets(m, n) <=> n = s)
    BY <2>3, Zenon DEF Uses, Parses, Sets
  <2>5. ASSUME NEW n \in live'
        PROVE  \/ Parses(m, n) /\ statements'[n] = m.obj
               \/ /\ n \in live /\ ~Sets(m, n) /\ statements'[n] = statements[n]
                  /\ n = Unnamed => m.type # "Sync"
    BY <1>3, <2>1, <2>3, <2>4, Zenon
  <2>6. /\ used \subseteq used'
        /\ \A n \in StmtNames : n # Unnamed /\ Parses(m, n) => n \notin used /\ n \in used'
    BY <1>3, <2>4, Zenon
  <2> QED  BY <1>2, <1>3, <2>1, <2>2, <2>4, <2>5, <2>6, NamesObserve, Zenon
<1> QED
  BY <1>4, <1>5, Zenon

\* Bind and the Describe of a statement use a name the client holds.
LEMMA NamesUseStep ==
  ASSUME TypeOK, StmtInv, Disciplined, NEW s \in StmtNames, NEW p \in PortalNames,
         OnBind(s, p) \/ OnBindFails(s, p) \/ OnDescribeS(s)
  PROVE  StmtInv'
<1>1. Next
  BY Zenon DEF Next, Frontend
<1>2. HeapGrows /\ TypeOK' /\ Len(portal) \in Nat
  BY <1>1, HeapNext, NextType, Lengths, Zenon
<1>3. /\ fpump = "recv" /\ UNCHANGED <<c2b, bstate, bStmts, statements, live, used>> /\ s \in live
  BY Zenon DEF OnBind, OnBindFails, OnDescribeS, MaySend, MayUse, ClientSent, backendVars
<1>4. CASE OnBindFails(s, p)
  BY <1>2, <1>3, <1>4, NamesEnds, Zenon DEF OnBindFails, FrontendEnds
<1>5. ASSUME NEW m \in Message, Observed(m), Uses(m), m.stmt = s, Meant(m, portal') = statements[s],
             m.type = "Bind" => m.obj # nil
      PROVE  StmtInv'
  <2>1. \A n : ~Parses(m, n) /\ ~Sets(m, n) /\ m.type # "Sync"
    BY <1>5, Zenon DEF Uses, Parses, Sets
  <2> QED  BY <1>2, <1>3, <1>5, <2>1, NamesObserve, Zenon
<1>6. CASE OnBind(s, p)
  <2> DEFINE m == Msg("Bind", s, p, Len(portal) + 1, <<>>, 0)
  <2>1. Observed(m) /\ portal' = Append(portal, [stmt |-> statements[s], plan |-> NoPlan])
    BY <1>6, Zenon DEF OnBind
  <2>2. m \in Message
    BY <1>2, <2>1, Zenon DEF Observed, TypeOK
  <2>3. m.type = "Bind" /\ m.stmt = s /\ m.obj = Len(portal) + 1
    BY Zenon DEF Msg
  <2>4. portal'[Len(portal) + 1] = [stmt |-> statements[s], plan |-> NoPlan]
    <3>1. portal \in Seq([stmt : 0..Len(stmt), plan : Plans])
      BY Zenon DEF TypeOK
    <3> QED  BY <1>2, <2>1, <3>1
  <2>5. m.obj # nil
    BY <1>2, <2>3 DEF nil
  <2> HIDE DEF m
  <2>6. Uses(m) /\ Meant(m, portal') = statements[s]
    BY <2>3, <2>4 DEF Uses, Meant
  <2> QED  BY <1>5, <2>1, <2>2, <2>3, <2>5, <2>6, Zenon
<1>7. CASE OnDescribeS(s)
  <2> DEFINE m == Msg("DescribeS", s, Unnamed, statements[s], <<>>, 0)
  <2>1. Observed(m)
    BY <1>7, Zenon DEF OnDescribeS
  <2>2. m \in Message
    BY <1>2, <2>1, Zenon DEF Observed, TypeOK
  <2>3. m.type = "DescribeS" /\ m.stmt = s /\ m.obj = statements[s]
    BY Zenon DEF Msg
  <2> HIDE DEF m
  <2>4. Uses(m) /\ Meant(m, portal') = statements[s]
    BY <2>3, Zenon DEF Uses, Meant
  <2> QED  BY <1>5, <2>1, <2>2, <2>3, <2>4, Zenon
<1> QED
  BY <1>4, <1>6, <1>7, Zenon

\* Messages that use no statement name, or forget one.
LEMMA NamesOtherStep ==
  ASSUME TypeOK, StmtInv, NEW s \in StmtNames, NEW p \in PortalNames,
         OnExecute(p) \/ OnDescribeP(p) \/ OnCloseP(p) \/ OnCloseS(s)
  PROVE  StmtInv'
<1>1. Next
  BY Zenon DEF Next, Frontend
<1>2. HeapGrows /\ TypeOK' /\ fmsg' \in Message
  BY <1>1, HeapNext, NextType, Zenon DEF TypeOK
<1>3. /\ fpump = "recv" /\ UNCHANGED <<c2b, bstate, bStmts, used>>
  BY Zenon DEF OnExecute, OnDescribeP, OnCloseP, OnCloseS, MaySend, ClientSent, backendVars
<1>4. CASE OnExecute(p) \/ OnDescribeP(p) \/ OnCloseP(p)
  <2>1. UNCHANGED <<live, statements>>
    BY <1>4, Zenon DEF OnExecute, OnDescribeP, OnCloseP, ClientSent
  <2>2. Observed(fmsg') /\ fmsg'.type \in {"Execute", "DescribeP", "CloseP"}
    <3>1. CASE OnExecute(p)
      BY <3>1, Zenon DEF OnExecute, Observed, Msg
    <3>2. CASE OnDescribeP(p)
      BY <3>2, Zenon DEF OnDescribeP, Observed, Msg
    <3>3. CASE OnCloseP(p)
      BY <3>3, Zenon DEF OnCloseP, Observed, Msg
    <3> QED  BY <1>4, <3>1, <3>2, <3>3, Zenon
  <2>3. ~Uses(fmsg') /\ fmsg'.type # "Sync" /\ \A n : ~Parses(fmsg', n) /\ ~Sets(fmsg', n)
    BY <2>2, Zenon DEF Uses, Parses, Sets
  <2> QED  BY <1>2, <1>3, <2>1, <2>2, <2>3, NamesObserve, Zenon
<1>5. CASE OnCloseS(s)
  <2>1. live' = live \ {s} /\ statements' = [statements EXCEPT ![s] = nil]
    BY <1>5, Zenon DEF OnCloseS, ClientSent
  <2>2. Observed(fmsg') /\ fmsg'.type = "CloseS" /\ fmsg'.stmt = s
    BY <1>5, Zenon DEF OnCloseS, Observed, Msg
  <2>3. /\ ~Uses(fmsg') /\ fmsg'.type # "Sync"
        /\ \A n : ~Parses(fmsg', n) /\ (Sets(fmsg', n) <=> n = s)
    BY <2>2, Zenon DEF Uses, Parses, Sets
  <2>4. \A n \in live' : n \in live /\ n # s /\ statements'[n] = statements[n]
    BY <2>1, Zenon DEF TypeOK
  <2> QED  BY <1>2, <1>3, <2>2, <2>3, <2>4, NamesObserve, Zenon
<1> QED
  BY <1>4, <1>5, Zenon

\* A Sync and a simple query: the client gives up the unnamed statement.
LEMMA NamesSyncStep ==
  ASSUME TypeOK, StmtInv, OnSync \/ \E t \in SimpleTexts : OnQuery(t)
  PROVE  StmtInv'
<1>1. Next
  BY Zenon DEF Next, Frontend
<1>2. HeapGrows /\ TypeOK' /\ fmsg' \in Message
  BY <1>1, HeapNext, NextType, Zenon DEF TypeOK
<1>3. /\ fpump = "recv" /\ UNCHANGED <<c2b, bstate, bStmts, used, statements>>
      /\ live' = live \ {Unnamed}
  BY Zenon DEF OnSync, OnQuery, MaySend, ClientSent, backendVars
<1>4. \/ FrontendEnds
      \/ Observed(fmsg') /\ fmsg'.type \in {"Sync", "Query"}
  <2>1. CASE OnSync
    BY <2>1, Zenon DEF OnSync, Observed, Msg
  <2>2. ASSUME NEW t \in SimpleTexts, OnQuery(t)
        PROVE  FrontendEnds \/ (Observed(fmsg') /\ fmsg'.type \in {"Sync", "Query"})
    <3>1. \/ FrontendEnds
          \/ Observed(Msg("Query", Unnamed, Unnamed, Len(portal) + 1, t, Len(t) + 1))
      BY <2>2, Zenon DEF OnQuery
    <3> QED  BY <3>1 DEF Observed, Msg
  <2> QED  BY <2>1, <2>2, Zenon
<1>5. CASE FrontendEnds
  BY <1>2, <1>3, <1>5, NamesEnds, Zenon DEF FrontendEnds
<1>6. CASE Observed(fmsg') /\ fmsg'.type \in {"Sync", "Query"}
  <2>1. ~Uses(fmsg') /\ \A n : ~Parses(fmsg', n) /\ ~Sets(fmsg', n)
    BY <1>6, Zenon DEF Uses, Parses, Sets
  <2>2. \A n \in live' : n \in live /\ n # Unnamed
    BY <1>3, Zenon
  <2> QED  BY <1>2, <1>3, <1>6, <2>1, <2>2, NamesObserve, Zenon
<1> QED
  BY <1>4, <1>5, <1>6, Zenon

\* Every step of the client's pump.
LEMMA NamesFrontend ==
  ASSUME TypeOK, StmtInv, Disciplined, Frontend
  PROVE  StmtInv'
<1>1. HeapGrows /\ TypeOK'
  BY HeapNext, NextType, Zenon DEF Next
<1>2. ASSUME NEW s \in StmtNames, NEW q \in Queries, OnParse(s, q) PROVE StmtInv'
  BY <1>2, NamesParseStep, Zenon
<1>3. ASSUME NEW s \in StmtNames, NEW p \in PortalNames, OnBind(s, p) \/ OnBindFails(s, p)
      PROVE  StmtInv'
  BY <1>3, NamesUseStep, Zenon
<1>4. ASSUME NEW p \in PortalNames, OnExecute(p) \/ OnDescribeP(p) \/ OnCloseP(p) PROVE StmtInv'
  BY <1>4, NamesOtherStep, NamesAssumption, Zenon
<1>5. ASSUME NEW s \in StmtNames, OnDescribeS(s) \/ OnCloseS(s) PROVE StmtInv'
  BY <1>5, NamesUseStep, NamesOtherStep, NamesAssumption, Zenon
<1>6. CASE Send
  <2>1. pipe' = pipe /\ up /\ up'
    BY <1>6, Zenon DEF Send, pipe, up
  <2>2. UNCHANGED <<portal, statements, live, used, bstate, bStmts>>
    BY <1>6, Zenon DEF Send, sessionVars, clientVars, backendVars
  <2> QED  BY <2>1, <2>2, Zenon DEF StmtInv
<1>7. CASE ClientGone
  BY <1>1, <1>7, NamesEnds, Zenon DEF ClientGone, clientVars, backendVars
<1> QED
  BY <1>2, <1>3, <1>4, <1>5, <1>6, <1>7, NamesSyncStep, Zenon DEF Frontend

\* A message is answered or skipped.
LEMMA NamesFinishSteps ==
  ASSUME TypeOK, StmtInv,
         \/ Parsed \/ Bound \/ Closed \/ RowDescription \/ NoData \/ ExecuteDone \/ Skip
         \/ ReadyForQuery
  PROVE  StmtInv'
<1>1. /\ HeapGrows /\ bStmts \in [StmtNames -> 0..Len(stmt)]
      /\ (c2b # <<>> => cur \in Message /\ cur.stmt \in StmtNames)
  BY HeapNext, CurType, Zenon DEF Next, Backend, TypeOK, Message
<1>2. ASSUME c2b # <<>>, Finished, UNCHANGED <<pumpVars, clientVars, statements>>,
             Effect(cur, bstate, bstate', bStmts, bStmts')
      PROVE  StmtInv'
  BY <1>1, <1>2, NamesFinish, Zenon
<1>3. CASE Parsed
  <2>1. /\ c2b # <<>> /\ Finished /\ UNCHANGED <<pumpVars, clientVars, statements>>
        /\ bstate = "idle" /\ cur.type = "Parse"
        /\ bStmts' = [bStmts EXCEPT ![cur.stmt] = cur.obj]
    BY <1>3, Zenon DEF Parsed, Working, sessionVars
  <2>2. Effect(cur, bstate, bstate', bStmts, bStmts')
    BY <1>1, <2>1, Zenon DEF Effect, Sets, Parses
  <2> QED  BY <1>2, <2>1, <2>2, Zenon
<1>4. CASE Closed
  <2>1. /\ c2b # <<>> /\ Finished /\ UNCHANGED <<pumpVars, clientVars, statements>>
        /\ bstate = "idle" /\ cur.type \in {"CloseS", "CloseP"}
        /\ cur.type = "CloseS" => bStmts' = [bStmts EXCEPT ![cur.stmt] = nil]
        /\ cur.type = "CloseP" => UNCHANGED bStmts
    BY <1>4, Zenon DEF Closed, Working, sessionVars
  <2>2. Effect(cur, bstate, bstate', bStmts, bStmts')
    BY <1>1, <2>1, Zenon DEF Effect, Sets, Parses
  <2> QED  BY <1>2, <2>1, <2>2, Zenon
<1>5. CASE Bound \/ ExecuteDone \/ RowDescription \/ NoData
  <2>1. /\ c2b # <<>> /\ Finished /\ UNCHANGED <<pumpVars, clientVars, statements>>
        /\ bstate = "idle" /\ cur.type \notin {"Parse", "CloseS"} /\ UNCHANGED bStmts
    BY <1>5, Zenon
      DEF Bound, ExecuteDone, RowDescription, NoData, Working, sessionVars, popExecuting,
       OnRowDescription, OnNoData
  <2>2. Effect(cur, bstate, bstate', bStmts, bStmts')
    BY <2>1, Zenon DEF Effect, Sets
  <2> QED  BY <1>2, <2>1, <2>2, Zenon
<1>6. CASE Skip
  <2>1. /\ c2b # <<>> /\ Finished /\ UNCHANGED <<pumpVars, clientVars, statements>>
        /\ bstate' = "skip" /\ UNCHANGED bStmts
    BY <1>6, Zenon DEF Skip, sessionVars
  <2>2. Effect(cur, bstate, bstate', bStmts, bStmts')
    BY <2>1, Zenon DEF Effect
  <2> QED  BY <1>2, <2>1, <2>2, Zenon
<1>7. CASE ReadyForQuery
  <2>1. /\ c2b # <<>> /\ Finished /\ UNCHANGED <<pumpVars, clientVars, statements>>
        /\ cur.type \in {"Sync", "Query"} /\ (bstate = "skip" => cur.type = "Sync")
        /\ \A n \in StmtNames : bStmts'[n] \in {nil, bStmts[n]}
    BY <1>1, <1>7, Zenon DEF ReadyForQuery, OnReadyForQuery
  <2>2. Effect(cur, bstate, bstate', bStmts, bStmts')
    BY <2>1, Zenon DEF Effect, Sets
  <2> QED  BY <1>2, <2>1, <2>2, Zenon
<1> QED
  BY <1>3, <1>4, <1>5, <1>6, <1>7, Zenon

\* ErrorResponse.
LEMMA NamesErrorStep ==
  ASSUME TypeOK, StmtInv, ErrorResponse
  PROVE  StmtInv'
<1>1. /\ HeapGrows /\ bStmts \in [StmtNames -> 0..Len(stmt)] /\ c2b # <<>> /\ bstate = "idle"
      /\ UNCHANGED <<pumpVars, clientVars, statements>>
  BY HeapNext, Zenon DEF Next, Backend, TypeOK, ErrorResponse, Working, OnErrorResponse
<1>2. cur \in Message /\ cur.stmt \in StmtNames
  BY <1>1, CurType, Zenon DEF Message
<1>3. CASE cur.type \in {"Sync", "Query"}
  <2>1. UNCHANGED <<c2b, bStmts>>
    BY <1>3, Zenon DEF ErrorResponse
  <2> QED  BY <1>1, <2>1, NamesSame, Zenon DEF pumpVars, clientVars
<1>4. CASE cur.type \notin {"Sync", "Query"}
  <2>1. /\ bstate' = "skip" /\ Finished
        /\ bStmts' = IF cur.type = "Parse" /\ cur.stmt = Unnamed
                     THEN [bStmts EXCEPT ![Unnamed] = nil] ELSE bStmts
    BY <1>4, Zenon DEF ErrorResponse
  <2>2. Effect(cur, bstate, bstate', bStmts, bStmts')
    BY <1>1, <1>2, <2>1, Zenon DEF Effect, Sets, Parses
  <2> QED  BY <1>1, <2>1, <2>2, NamesFinish, Zenon
<1> QED
  BY <1>3, <1>4, Zenon

\* Every step of the backend.
LEMMA NamesBackend ==
  ASSUME TypeOK, StmtInv, Backend
  PROVE  StmtInv'
<1>1. HeapGrows
  BY HeapNext, Zenon DEF Next
<1>2. CASE StartupReady
  BY <1>1, <1>2, NamesSame, Zenon DEF StartupReady, OnReadyForQuery, pumpVars, clientVars
<1>3. CASE DataRow \/ DataRowFails
  BY <1>1, <1>3, NamesSame, Zenon
    DEF DataRow, DataRowFails, DecryptDataRow, pumpVars, clientVars, backendVars
<1>4. CASE QueryRowDescription
  BY <1>1, <1>4, NamesSame, Zenon
    DEF QueryRowDescription, OnRowDescription, pumpVars, clientVars
<1>5. CASE QueryStatementDone
  BY <1>1, <1>5, NamesSame, Zenon DEF QueryStatementDone, popExecuting, pumpVars, clientVars
<1>6. CASE BackendGone
  BY <1>1, <1>6, NamesSame, Zenon DEF BackendGone, sessionVars, clientVars, backendVars
<1> QED
  BY <1>2, <1>3, <1>4, <1>5, <1>6, NamesFinishSteps, NamesErrorStep, Zenon DEF Backend

\* No name is in use when the session starts.
LEMMA NamesInit ==
  ASSUME Init
  PROVE  StmtInv
<1>1. pipe = <<>> /\ Len(pipe) = 0 /\ live = {} /\ \A n \in StmtNames : bStmts[n] = nil
  BY SeqEmpty, Zenon DEF Init, pipe
<1> QED
  BY <1>1 DEF StmtInv, FreshInv, UsesInv, LiveInv

\* Every step of a connection whose client names statements as pgjdbc does
\* preserves the invariant.
LEMMA NamesNext ==
  ASSUME TypeOK, StmtInv, Disciplined, [Next]_vars
  PROVE  StmtInv'
<1>1. CASE UNCHANGED vars
  <2>1. HeapGrows
    BY HeapNext, Zenon
  <2> QED  BY <1>1, <2>1, NamesSame, Zenon
        DEF vars, sessionVars, pumpVars, clientVars, backendVars
<1> QED
  BY <1>1, NamesFrontend, NamesBackend, Zenon DEF Next

\* For a client that names statements the way pgjdbc does, the statement whose
\* write plan EncryptBind used on a Bind's parameters is the one the backend
\* binds them to, whatever is pipelined and whatever fails.
THEOREM BindsUseTheBackendsStatementAlways ==
  ASSUME Disciplined
  PROVE  Spec => []BindsUseTheBackendsStatement
<1> DEFINE J == TypeOK /\ StmtInv
<1>1. Init => J
  BY InitType, NamesInit, Zenon
<1>2. J /\ [Next]_vars => J'
  BY NextType, NamesNext, Zenon
<1>3. J => BindsUseTheBackendsStatement
  <2> SUFFICES ASSUME J, Working({"Bind"}), bStmts[cur.stmt] # nil
               PROVE  portal[cur.obj].stmt = bStmts[cur.stmt]
    BY Zenon DEF BindsUseTheBackendsStatement
  <2>1. Working({"Bind", "DescribeS"}) /\ cur.type = "Bind"
    BY Zenon DEF Working
  <2>2. Meant(cur, portal) = bStmts[cur.stmt]
    BY <2>1, UseFacts, Zenon
  <2> QED  BY <2>1, <2>2, Zenon DEF Meant
<1> QED
  BY <1>1, <1>2, <1>3, PTL DEF Spec
=============================================================================
