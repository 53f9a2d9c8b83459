--------------------------- MODULE SessionProofs ----------------------------
(***************************************************************************)
(* Theorems about Session, for every value of its constants: sequences and *)
(* messages, type correctness, and that refused SQL is never sent.         *)
(*                                                                         *)
(* SessionOrderProofs is about execQueue, SessionPlanProofs about the      *)
(* objects on the heaps and the names of statements, and                   *)
(* SessionDescribeProofs about the describes queue and, by combining the   *)
(* others, about the read plans.                                           *)
(***************************************************************************)
EXTENDS SessionInv, TLAPS

\* A sequence as a function on its indices.
LEMMA SeqLength ==
  ASSUME NEW S, NEW q \in Seq(S)
  PROVE  /\ Len(q) \in Nat /\ q \in [1..Len(q) -> S] /\ DOMAIN q = 1..Len(q)
OBVIOUS

\* An entry of a sequence is one of its elements.
LEMMA SeqEntry ==
  ASSUME NEW S, NEW q \in Seq(S), NEW i \in 1..Len(q)
  PROVE  q[i] \in S
OBVIOUS

\* The empty sequence has length 0, any other one a positive length.
LEMMA SeqEmpty ==
  ASSUME NEW S
  PROVE  <<>> \in Seq(S) /\ Len(<<>>) = 0 /\ \A q \in Seq(S) : q # <<>> => Len(q) \in Nat \ {0}
OBVIOUS

\* A sequence over a set is one over any larger set.
LEMMA SeqWider ==
  ASSUME NEW S, NEW T, NEW q \in Seq(S), S \subseteq T
  PROVE  q \in Seq(T)
OBVIOUS

\* Replacing one entry of a sequence leaves its length and the other entries.
LEMMA SeqExcept ==
  ASSUME NEW S, NEW q \in Seq(S), NEW i \in 1..Len(q), NEW x \in S
  PROVE  LET r == [q EXCEPT ![i] = x]
         IN  r \in Seq(S) /\ Len(r) = Len(q) /\ \A j \in 1..Len(q) : r[j] = IF j = i THEN x ELSE q[j]
OBVIOUS

\* The length and the entries of a concatenation.
LEMMA SeqJoin ==
  ASSUME NEW S, NEW q \in Seq(S), NEW r \in Seq(S)
  PROVE  /\ q \o r \in Seq(S) /\ Len(q \o r) = Len(q) + Len(r)
         /\ \A i \in 1..(Len(q) + Len(r)) :
              (q \o r)[i] = IF i <= Len(q) THEN q[i] ELSE r[i - Len(q)]
OBVIOUS

\* The length and the entries of the tail of a sequence.
LEMMA SeqTail ==
  ASSUME NEW S, NEW q \in Seq(S), q # <<>>
  PROVE  /\ Head(q) \in S /\ Tail(q) \in Seq(S) /\ Len(Tail(q)) = Len(q) - 1
         /\ \A i \in 1..Len(Tail(q)) : Tail(q)[i] = q[i + 1]
OBVIOUS

\* The length and the entries of a sequence with one more entry.
LEMMA SeqAppend ==
  ASSUME NEW S, NEW q \in Seq(S), NEW x \in S
  PROVE  /\ Append(q, x) \in Seq(S) /\ Append(q, x) # <<>> /\ Len(Append(q, x)) = Len(q) + 1
         /\ \A i \in 1..Len(q) : Append(q, x)[i] = q[i]
         /\ Append(q, x)[Len(q) + 1] = x
OBVIOUS

\* Sequences with the same entries are equal.
LEMMA SeqSame ==
  ASSUME NEW S, NEW q \in Seq(S), NEW r \in Seq(S), Len(q) = Len(r),
         \A i \in 1..Len(q) : q[i] = r[i]
  PROVE  q = r
OBVIOUS

\* The empty sequence is neutral for concatenation.
LEMMA SeqJoinEmpty ==
  ASSUME NEW S, NEW q \in Seq(S) PROVE q \o <<>> = q /\ <<>> \o q = q
OBVIOUS

\* The subsequence of all entries is the sequence.
LEMMA SubSeqAll ==
  ASSUME NEW S, NEW q \in Seq(S) PROVE SubSeq(q, 1, Len(q)) = q
OBVIOUS

-----------------------------------------------------------------------------
(* Sequences and messages.                                                  *)

\* Rest(q, k) is q without its first k entries.
LEMMA RestFacts ==
  ASSUME NEW S, NEW q \in Seq(S), NEW k \in 0..Len(q)
  PROVE  /\ Rest(q, k) \in Seq(S)
         /\ Len(Rest(q, k)) = Len(q) - k
         /\ \A i \in 1..(Len(q) - k) : Rest(q, k)[i] = q[i + k]
<1>1. Rest(q, k) = [i \in 1..(Len(q) - k) |-> q[i + k]]
  BY DEF Rest
<1> QED
  BY <1>1

\* A message built by the session has the type of a message.
LEMMA MsgType ==
  ASSUME TypeOK, NEW t \in Types, NEW s \in StmtNames, NEW p \in PortalNames,
         NEW o \in Nat, NEW x \in Seq(Queries), NEW w \in Nat
  PROVE  Msg(t, s, p, o, x, w) \in Message
<1>1. execPopped + Len(execQueue) \in Nat /\ descPopped + Len(describes) \in Nat
  BY SeqLength DEF TypeOK
<1> QED
  BY <1>1, Zenon DEF Msg, Message

\* The placeholder message points nowhere.
LEMMA NoMsgType ==
  NoMsg \in Message /\ \A ns, np \in Nat : Points(NoMsg, ns, np)
  BY NamesAssumption DEF NoMsg, Message, Points, Types, nil

\* The empty portal table points nowhere.
LEMMA NoPortalsType ==
  \A ns, np \in Nat :
    NoPortals \in [PortalNames -> [obj : 0..np, stmt : 0..ns]]
  BY DEF NoPortals, nil

-----------------------------------------------------------------------------
(* Type correctness.                                                        *)

\* Every pointer fits heaps of ns statements and np portals.
Fits(ns, np) ==
  /\ portal \in Seq([stmt : 0..ns, plan : Plans])
  /\ statements \in [StmtNames -> 0..ns]
  /\ portals \in [PortalNames -> 0..np]
  /\ execQueue \in Seq(0..np)
  /\ describes \in Seq([boundary : BOOLEAN, stmt : 0..ns, portal : 0..np])
  /\ Points(fmsg, ns, np)
  /\ \A i \in 1..Len(c2b) : Points(c2b[i], ns, np)
  /\ bStmts \in [StmtNames -> 0..ns]
  /\ bPortals \in [PortalNames -> [obj : 0..np, stmt : 0..ns]]
  /\ bDescribed \in SUBSET (1..ns)

\* Pointers stay valid when the heaps grow to ns statements and np portals.
LEMMA Widening ==
  ASSUME TypeOK, NEW ns \in Nat, NEW np \in Nat,
         Len(stmt) <= ns, Len(portal) <= np
  PROVE  Fits(ns, np)
<1>1. Len(stmt) \in Nat /\ Len(portal) \in Nat
  BY SeqLength, Zenon DEF TypeOK
<1>2. 0..Len(stmt) \subseteq 0..ns /\ 0..Len(portal) \subseteq 0..np
  BY <1>1
<1>3. portal \in Seq([stmt : 0..ns, plan : Plans])
  <2> DEFINE S == [stmt : 0..Len(stmt), plan : Plans]
             T == [stmt : 0..ns, plan : Plans]
  <2>1. S \subseteq T
    BY <1>2, Zenon
  <2>2. portal \in Seq(S)
    BY Zenon DEF TypeOK
  <2> HIDE DEF S, T
  <2>3. portal \in Seq(T)
    BY <2>1, <2>2, SeqWider, Zenon
  <2> QED  BY <2>3, Zenon DEF T
<1>4. execQueue \in Seq(0..np)
  BY <1>2, SeqWider, Zenon DEF TypeOK
<1>5. describes \in Seq([boundary : BOOLEAN, stmt : 0..ns, portal : 0..np])
  <2> DEFINE S == [boundary : BOOLEAN, stmt : 0..Len(stmt), portal : 0..Len(portal)]
             T == [boundary : BOOLEAN, stmt : 0..ns, portal : 0..np]
  <2>1. S \subseteq T
    BY <1>2
  <2>2. describes \in Seq(S)
    BY Zenon DEF TypeOK
  <2> HIDE DEF S, T
  <2>3. describes \in Seq(T)
    BY <2>1, <2>2, SeqWider
  <2> QED  BY <2>3 DEF T
<1>6. Points(fmsg, ns, np)
  <2>1. fmsg \in Message /\ Points(fmsg, Len(stmt), Len(portal))
    BY Zenon DEF TypeOK
  <2> QED  BY <1>1, <2>1 DEF Points, Message
<1>7. \A i \in 1..Len(c2b) : Points(c2b[i], ns, np)
  <2> SUFFICES ASSUME NEW i \in 1..Len(c2b) PROVE Points(c2b[i], ns, np)
    OBVIOUS
  <2>1. c2b[i] \in Message /\ Points(c2b[i], Len(stmt), Len(portal))
    BY SeqEntry, Zenon DEF TypeOK
  <2> QED  BY <1>1, <2>1 DEF Points, Message
<1>8. /\ statements \in [StmtNames -> 0..ns]
      /\ portals \in [PortalNames -> 0..np]
      /\ bStmts \in [StmtNames -> 0..ns]
      /\ bDescribed \in SUBSET (1..ns)
  BY <1>1 DEF TypeOK
<1>9. bPortals \in [PortalNames -> [obj : 0..np, stmt : 0..ns]]
  BY <1>1 DEF TypeOK
<1> QED
  BY <1>3, <1>4, <1>5, <1>6, <1>7, <1>8, <1>9, Zenon DEF Fits

\* Popping entries keeps the types of the queues.
LEMMA PopExecType ==
  ASSUME TypeOK, NEW k \in 0..Len(execQueue), PopExec(k)
  PROVE  execQueue' \in Seq(0..Len(portal)) /\ execPopped' \in Nat
<1>1. execQueue \in Seq(0..Len(portal)) /\ execPopped \in Nat
  BY Zenon DEF TypeOK
<1> QED
  BY <1>1, RestFacts, SeqLength DEF PopExec

\* The same for the pending Describes.
LEMMA PopDescribeType ==
  ASSUME TypeOK, NEW k \in 0..Len(describes), PopDescribe(k)
  PROVE  /\ describes' \in Seq([boundary : BOOLEAN, stmt : 0..Len(stmt),
                                portal : 0..Len(portal)])
         /\ descPopped' \in Nat
<1> DEFINE D == [boundary : BOOLEAN, stmt : 0..Len(stmt), portal : 0..Len(portal)]
<1>1. describes \in Seq(D) /\ descPopped \in Nat
  BY Zenon DEF TypeOK
<1> HIDE DEF D
<1>2. describes' \in Seq(D) /\ descPopped' \in Nat
  BY <1>1, RestFacts, SeqLength DEF PopDescribe
<1> QED
  BY <1>2 DEF D

\* What OnErrorResponse and OnReadyForQuery do to the types.
LEMMA ResyncType ==
  ASSUME TypeOK, OnErrorResponse \/ OnReadyForQuery
  PROVE  /\ execQueue' \in Seq(0..Len(portal)) /\ execPopped' \in Nat
         /\ describes' \in Seq([boundary : BOOLEAN, stmt : 0..Len(stmt),
                                portal : 0..Len(portal)])
         /\ descPopped' \in Nat
         /\ UNCHANGED <<statements, portals, stmt, portal>>
<1>1. PICK k \in 0..Len(execQueue) : PopExec(k)
  BY Zenon DEF OnErrorResponse, OnReadyForQuery
<1>2. PICK j \in 0..Len(describes) : PopDescribe(j)
  BY Zenon DEF OnErrorResponse, OnReadyForQuery
<1>3. execQueue' \in Seq(0..Len(portal)) /\ execPopped' \in Nat
  BY <1>1, PopExecType
<1>4. /\ describes' \in Seq([boundary : BOOLEAN, stmt : 0..Len(stmt),
                             portal : 0..Len(portal)])
      /\ descPopped' \in Nat
  BY <1>2, PopDescribeType, Zenon
<1> QED
  BY <1>3, <1>4 DEF OnErrorResponse, OnReadyForQuery

\* A read plan is a plan.
LEMMA PlanType ==
  ASSUME NEW ps \in PreparedStatement, NEW cols \in Queries \union {NoQuery}
  PROVE  planRead(ps, cols) \in Plans
  BY DEF planRead, PreparedStatement, Plans, NoPlan

\* Writing the plan of a portal keeps the portal heap's type and length.
LEMMA SetPlanType ==
  ASSUME TypeOK, NEW p \in 1..Len(portal), NEW pl \in Plans
  PROVE  /\ [portal EXCEPT ![p].plan = pl] \in Seq([stmt : 0..Len(stmt), plan : Plans])
         /\ Len([portal EXCEPT ![p].plan = pl]) = Len(portal)
<1> DEFINE P == [stmt : 0..Len(stmt), plan : Plans]
           e == [portal[p] EXCEPT !.plan = pl]
<1>1. portal \in Seq(P)
  BY Zenon DEF TypeOK
<1>2. portal[p] \in P
  BY <1>1, SeqEntry, Zenon
<1>3. e \in P
  BY <1>2, Zenon
<1>4. [portal EXCEPT ![p].plan = pl] = [portal EXCEPT ![p] = e]
  BY Zenon
<1> HIDE DEF P, e
<1>5. [portal EXCEPT ![p] = e] \in Seq(P) /\ Len([portal EXCEPT ![p] = e]) = Len(portal)
  BY <1>1, <1>3, SeqExcept
<1> QED
  BY <1>4, <1>5, Zenon DEF P

\* learnColumns keeps the types and lengths of both heaps.
LEMMA LearnType ==
  ASSUME TypeOK, NEW s \in 1..Len(stmt), NEW p \in 0..Len(portal), NEW cols \in Queries,
         LearnColumns(s, p, cols)
  PROVE  /\ stmt' \in Seq(PreparedStatement) /\ Len(stmt') = Len(stmt)
         /\ portal' \in Seq([stmt : 0..Len(stmt), plan : Plans])
         /\ Len(portal') = Len(portal)
<1> DEFINE e == [stmt[s] EXCEPT !.cols = cols]
<1>1. stmt \in Seq(PreparedStatement) /\ portal \in Seq([stmt : 0..Len(stmt), plan : Plans])
  BY Zenon DEF TypeOK
<1>2. stmt[s] \in PreparedStatement
  BY <1>1, SeqEntry
<1>3. e \in PreparedStatement
  BY <1>2, Zenon DEF PreparedStatement
<1>4. stmt' = [stmt EXCEPT ![s] = e]
  BY Zenon DEF LearnColumns
<1> HIDE DEF e
<1>5. stmt' \in Seq(PreparedStatement) /\ Len(stmt') = Len(stmt)
  BY <1>1, <1>3, <1>4, SeqExcept
<1>6. planRead(stmt[s], cols) \in Plans
  BY <1>2, PlanType, Zenon
<1>7. CASE p = nil
  BY <1>1, <1>5, <1>7, Zenon DEF LearnColumns
<1>8. CASE p # nil
  <2>1. p \in 1..Len(portal)
    BY <1>8, <1>1, SeqLength DEF nil
  <2> QED
    BY <1>5, <1>6, <1>8, <2>1, SetPlanType, Zenon DEF LearnColumns
<1> QED
  BY <1>7, <1>8, Zenon

\* The head of the result queue is nil or a portal.
LEMMA CurrentType ==
  ASSUME TypeOK
  PROVE  CurrentExecuting \in 0..Len(portal)
<1>1. execQueue \in Seq(0..Len(portal)) /\ portal \in Seq([stmt : 0..Len(stmt), plan : Plans])
  BY Zenon DEF TypeOK
<1>2. Len(portal) \in Nat
  BY <1>1, SeqLength, Zenon
<1>3. execQueue # <<>> => Head(execQueue) \in 0..Len(portal)
  BY <1>1, SeqTail, Zenon
<1>4. nil \in 0..Len(portal)
  BY <1>2 DEF nil
<1> QED
  BY <1>3, <1>4, Zenon DEF CurrentExecuting

\* The statement of a portal is nil or a statement.
LEMMA PortalStmt ==
  ASSUME TypeOK, NEW p \in 1..Len(portal)
  PROVE  portal[p].stmt \in 0..Len(stmt) /\ portal[p].plan \in Plans
<1> DEFINE P == [stmt : 0..Len(stmt), plan : Plans]
<1>1. portal \in Seq(P)
  BY Zenon DEF TypeOK
<1>2. portal[p] \in P
  <2> HIDE DEF P
  <2> QED  BY <1>1, SeqEntry, Zenon
<1> QED
  BY <1>2, Zenon

\* OnRowDescription keeps all types and the lengths of the heaps.
LEMMA RowDescriptionType ==
  ASSUME TypeOK, NEW cols \in Queries, OnRowDescription(cols)
  PROVE  /\ stmt' \in Seq(PreparedStatement) /\ Len(stmt') = Len(stmt)
         /\ portal' \in Seq([stmt : 0..Len(stmt), plan : Plans])
         /\ Len(portal') = Len(portal)
         /\ describes' \in Seq([boundary : BOOLEAN, stmt : 0..Len(stmt),
                                portal : 0..Len(portal)])
         /\ descPopped' \in Nat
         /\ UNCHANGED <<statements, portals, execQueue, execPopped>>
<1> DEFINE D == [boundary : BOOLEAN, stmt : 0..Len(stmt), portal : 0..Len(portal)]
<1>1. /\ stmt \in Seq(PreparedStatement) /\ portal \in Seq([stmt : 0..Len(stmt), plan : Plans])
      /\ describes \in Seq(D) /\ descPopped \in Nat
  BY Zenon DEF TypeOK
<1>2. Len(stmt) \in Nat /\ Len(portal) \in Nat
  BY <1>1, SeqLength, Zenon
<1>3. CASE DescribePending
  <2>1. 1 \in 0..Len(describes) /\ Head(describes) \in D
    <3> HIDE DEF D
    <3> QED  BY <1>1, <1>3, SeqEmpty, SeqTail DEF DescribePending
  <2>2. describes' \in Seq(D) /\ descPopped' \in Nat
    BY <1>3, <2>1, PopDescribeType, Zenon DEF OnRowDescription
  <2>3. CASE Head(describes).stmt = nil
    BY <1>1, <1>3, <2>2, <2>3, Zenon DEF OnRowDescription
  <2>4. CASE Head(describes).stmt # nil
    <3>1. Head(describes).stmt \in 1..Len(stmt) /\ Head(describes).portal \in 0..Len(portal)
      BY <1>2, <2>1, <2>4 DEF nil
    <3>2. LearnColumns(Head(describes).stmt, Head(describes).portal, cols)
      BY <1>3, <2>4, Zenon DEF OnRowDescription
    <3> QED
      BY <1>3, <2>2, <3>1, <3>2, LearnType, Zenon DEF OnRowDescription
  <2> QED  BY <2>3, <2>4, Zenon
<1>4. CASE ~DescribePending
  <2>1. describes' \in Seq(D) /\ descPopped' \in Nat
    BY <1>1, <1>4, Zenon DEF OnRowDescription
  <2>2. CASE CurrentExecuting = nil \/ portal[CurrentExecuting].stmt = nil
    BY <1>1, <1>4, <2>1, <2>2, Zenon DEF OnRowDescription
  <2>3. CASE ~(CurrentExecuting = nil \/ portal[CurrentExecuting].stmt = nil)
    <3>1. CurrentExecuting \in 1..Len(portal)
      BY <1>2, <2>3, CurrentType DEF nil
    <3>2. portal[CurrentExecuting].stmt \in 1..Len(stmt)
      BY <1>2, <2>3, <3>1, PortalStmt DEF nil
    <3>3. LearnColumns(portal[CurrentExecuting].stmt, CurrentExecuting, cols)
      BY <1>4, <2>3, Zenon DEF OnRowDescription
    <3>4. /\ stmt' \in Seq(PreparedStatement) /\ Len(stmt') = Len(stmt)
          /\ portal' \in Seq([stmt : 0..Len(stmt), plan : Plans])
          /\ Len(portal') = Len(portal)
      <4>1. CurrentExecuting \in 0..Len(portal)
        BY <3>1
      <4> QED  BY <3>2, <3>3, <4>1, LearnType, Zenon
    <3> QED
      BY <2>1, <3>4, Zenon DEF OnRowDescription
  <2> QED  BY <2>2, <2>3, Zenon
<1> QED  BY <1>3, <1>4

\* DecryptDataRow keeps the portal heap's type and length.
LEMMA DecryptType ==
  ASSUME TypeOK, DecryptDataRow
  PROVE  /\ portal' \in Seq([stmt : 0..Len(stmt), plan : Plans])
         /\ Len(portal') = Len(portal)
<1>1. stmt \in Seq(PreparedStatement) /\ portal \in Seq([stmt : 0..Len(stmt), plan : Plans])
  BY Zenon DEF TypeOK
<1>2. Len(stmt) \in Nat /\ Len(portal) \in Nat
  BY <1>1, SeqLength
<1>3. CASE CurrentExecuting = nil
  BY <1>1, <1>3 DEF DecryptDataRow
<1>4. CASE CurrentExecuting # nil
  <2>1. CurrentExecuting \in 1..Len(portal)
    BY <1>2, <1>4, CurrentType DEF nil
  <2> DEFINE p == CurrentExecuting
  <2>2. portal[p].stmt \in 0..Len(stmt) /\ portal[p].plan \in Plans
    BY <2>1, PortalStmt, Zenon
  <2>3. ensureReadPlan(p) \in Plans
    <3>1. CASE portal[p].stmt = nil
      BY <2>2, <3>1, Zenon DEF ensureReadPlan
    <3>2. CASE portal[p].stmt # nil
      <4>1. stmt[portal[p].stmt] \in PreparedStatement
        BY <1>1, <1>2, <2>2, <3>2, SeqEntry DEF nil
      <4>2. stmt[portal[p].stmt].cols \in Queries \union {NoQuery}
        BY <4>1, Zenon DEF PreparedStatement
      <4>3. planRead(stmt[portal[p].stmt], stmt[portal[p].stmt].cols) \in Plans
        BY <4>1, <4>2, PlanType, Zenon
      <4> QED  BY <2>2, <4>3, Zenon DEF ensureReadPlan
    <3> QED  BY <3>1, <3>2, Zenon
  <2>4. portal' = [portal EXCEPT ![p].plan = ensureReadPlan(p)]
    BY <1>4, Zenon DEF DecryptDataRow
  <2> HIDE DEF p
  <2>5. p \in 1..Len(portal)
    BY <2>1, Zenon DEF p
  <2> QED
    BY <2>3, <2>4, <2>5, SetPlanType, Zenon
<1> QED  BY <1>3, <1>4, Zenon

\* The initial state has the types.
LEMMA InitType == Init => TypeOK
<1> SUFFICES ASSUME Init PROVE TypeOK
  BY Zenon
<1>1. Len(stmt) = 0 /\ Len(portal) = 0
  BY Zenon DEF Init
<1>2. fmsg \in Message /\ Points(fmsg, Len(stmt), Len(portal))
  BY <1>1, NoMsgType, Zenon DEF Init
<1>3. bPortals \in [PortalNames -> [obj : 0..Len(portal), stmt : 0..Len(stmt)]]
  BY <1>1, NoPortalsType, Zenon DEF Init
<1>4. /\ statements \in [StmtNames -> 0..Len(stmt)]
      /\ portals \in [PortalNames -> 0..Len(portal)]
      /\ bStmts \in [StmtNames -> 0..Len(stmt)]
  BY <1>1 DEF Init, nil
<1>5. /\ stmt \in Seq(PreparedStatement)
      /\ portal \in Seq([stmt : 0..Len(stmt), plan : Plans])
      /\ execQueue \in Seq(0..Len(portal))
      /\ describes \in Seq([boundary : BOOLEAN, stmt : 0..Len(stmt), portal : 0..Len(portal)])
      /\ c2b \in Seq(Message) /\ Len(c2b) = 0
  BY SeqEmpty, Zenon DEF Init
<1>6. /\ execPopped \in Nat /\ descPopped \in Nat
      /\ fpump \in {"recv", "send", "done"} /\ bpump \in {"run", "done"}
      /\ open \in BOOLEAN
      /\ live \in SUBSET StmtNames /\ used \in SUBSET StmtNames
      /\ bstate \in {"startup", "idle", "skip", "failed"}
      /\ bdone \in Nat /\ bdesc \in BOOLEAN
      /\ bDescribed \in SUBSET (1..Len(stmt))
  BY Zenon DEF Init
<1>7. sent \in 0..MaxMsgs
  BY ClientAssumption DEF Init
<1>8. \A i \in 1..Len(c2b) : Points(c2b[i], Len(stmt), Len(portal))
  BY <1>5
<1> QED
  BY <1>2, <1>3, <1>4, <1>5, <1>6, <1>7, <1>8, Zenon DEF TypeOK

\* The lengths and positions a message is built from are numbers.
LEMMA Lengths ==
  ASSUME TypeOK
  PROVE  Len(stmt) \in Nat /\ Len(portal) \in Nat /\ Len(c2b) \in Nat
  BY SeqLength, Zenon DEF TypeOK

\* Sending a message keeps the client's variables typed.
LEMMA SentType ==
  ASSUME TypeOK, NEW type, MaySend(type), NEW isSync \in BOOLEAN,
         NEW l \in SUBSET StmtNames, NEW u \in SUBSET StmtNames,
         ClientSent(isSync, l, u)
  PROVE  /\ sent' \in 0..MaxMsgs /\ open' \in BOOLEAN
         /\ live' \in SUBSET StmtNames /\ used' \in SUBSET StmtNames
<1>1. sent \in 0..MaxMsgs /\ MaxMsgs \in Nat
  BY ClientAssumption, Zenon DEF TypeOK
<1> QED
  BY <1>1 DEF MaySend, ClientSent

\* OnParse keeps the types.
LEMMA ParseType ==
  ASSUME TypeOK, NEW s \in StmtNames, NEW q \in Queries, OnParse(s, q)
  PROVE  TypeOK'
<1> DEFINE m == Msg("Parse", s, Unnamed, Len(stmt) + 1, <<q>>, 0)
           e == [sql |-> q, cols |-> NoQuery]
<1>1. /\ sent' \in 0..MaxMsgs /\ open' \in BOOLEAN
      /\ live' \in SUBSET StmtNames /\ used' \in SUBSET StmtNames
  <2>1. live \union {s} \in SUBSET StmtNames /\ used \union {s} \in SUBSET StmtNames
    BY Zenon DEF TypeOK
  <2> QED  BY <2>1, SentType, Zenon DEF OnParse
<1>2. CASE q \in Rejected
  BY <1>1, <1>2, Zenon DEF OnParse, FrontendEnds, TypeOK, backendVars
<1>3. CASE q \notin Rejected
  <2>1. Len(stmt) \in Nat /\ Len(portal) \in Nat
    BY Lengths
  <2>2. stmt' \in Seq(PreparedStatement) /\ Len(stmt') = Len(stmt) + 1
    <3>1. stmt \in Seq(PreparedStatement) /\ e \in PreparedStatement
      BY Zenon DEF TypeOK, PreparedStatement
    <3> HIDE DEF e
    <3>2. stmt' = Append(stmt, e)
      BY <1>3 DEF OnParse, e
    <3> QED  BY <3>1, <3>2
  <2>3. m \in Message /\ m.type = "Parse" /\ m.obj = Len(stmt) + 1
    <3>1. <<q>> \in Seq(Queries) /\ "Parse" \in Types /\ Len(stmt) + 1 \in Nat
      BY <2>1 DEF Types
    <3>2. m \in Message
      BY <3>1, MsgType, NamesAssumption, Zenon
    <3> QED  BY <3>2 DEF Msg
  <2>4. fmsg' \in Message /\ Points(fmsg', Len(stmt'), Len(portal)) /\ fpump' = "send"
    <3> HIDE DEF m
    <3> QED  BY <1>3, <2>1, <2>2, <2>3 DEF OnParse, Observed, Points, m
  <2>5. statements' \in [StmtNames -> 0..Len(stmt')]
    <3>1. statements' = [statements EXCEPT ![s] = Len(stmt) + 1]
      BY <1>3 DEF OnParse
    <3>2. statements \in [StmtNames -> 0..Len(stmt)]
      BY DEF TypeOK
    <3> QED  BY <2>1, <2>2, <3>1, <3>2
  <2>6. Len(stmt) <= Len(stmt') /\ Len(stmt') \in Nat
    BY <2>1, <2>2
  <2>7. Fits(Len(stmt'), Len(portal))
    BY <2>1, <2>6, Widening
  <2>8. UNCHANGED <<portals, execQueue, describes, portal, execPopped, descPopped, bpump,
                    c2b, bstate, bdone, bdesc, bStmts, bPortals, bDescribed>>
    BY <1>3 DEF OnParse, Observed, backendVars
  <2> QED
    BY <1>1, <2>2, <2>4, <2>5, <2>7, <2>8, Zenon DEF TypeOK, Fits
<1> QED  BY <1>2, <1>3

\* OnBind and OnBindFails keep the types.
LEMMA BindType ==
  ASSUME TypeOK, NEW s \in StmtNames, NEW p \in PortalNames,
         OnBind(s, p) \/ OnBindFails(s, p)
  PROVE  TypeOK'
<1> DEFINE m == Msg("Bind", s, p, Len(portal) + 1, <<>>, 0)
           e == [stmt |-> statements[s], plan |-> NoPlan]
           P == [stmt : 0..Len(stmt), plan : Plans]
<1>1. /\ sent' \in 0..MaxMsgs /\ open' \in BOOLEAN
      /\ live' \in SUBSET StmtNames /\ used' \in SUBSET StmtNames
  <2>1. live \in SUBSET StmtNames /\ used \in SUBSET StmtNames
    BY Zenon DEF TypeOK
  <2> QED  BY <2>1, SentType, Zenon DEF OnBind, OnBindFails
<1>2. Len(stmt) \in Nat /\ Len(portal) \in Nat
  BY Lengths
<1>3. portal' \in Seq(P) /\ Len(portal') = Len(portal) + 1
  <2>1. portal \in Seq(P) /\ statements[s] \in 0..Len(stmt)
    BY DEF TypeOK
  <2>2. e \in P
    BY <2>1 DEF NoPlan, Plans
  <2>3. portal' = Append(portal, e)
    BY Zenon DEF OnBind, OnBindFails
  <2> HIDE DEF e, P
  <2> QED  BY <2>1, <2>2, <2>3
<1>4. portals' \in [PortalNames -> 0..Len(portal')]
  <2>1. portals' = [portals EXCEPT ![p] = Len(portal) + 1]
    BY Zenon DEF OnBind, OnBindFails
  <2>2. portals \in [PortalNames -> 0..Len(portal)]
    BY Zenon DEF TypeOK
  <2> QED  BY <1>2, <1>3, <2>1, <2>2
<1>5. Len(portal) <= Len(portal') /\ Len(portal') \in Nat
  BY <1>2, <1>3
<1>6. Fits(Len(stmt), Len(portal'))
  BY <1>2, <1>5, Widening
<1>7. m \in Message /\ m.type = "Bind" /\ m.obj = Len(portal) + 1
  <2>1. <<>> \in Seq(Queries) /\ "Bind" \in Types /\ Len(portal) + 1 \in Nat
    BY <1>2 DEF Types
  <2>2. m \in Message
    BY <2>1, MsgType, Zenon
  <2> QED  BY <2>2, Zenon DEF Msg
<1>8. fmsg' \in Message /\ Points(fmsg', Len(stmt), Len(portal')) /\ fpump' \in {"send", "done"}
  <2> HIDE DEF m
  <2>1. CASE OnBind(s, p)
    BY SMTT(30), <1>2, <1>3, <1>7, <2>1 DEF OnBind, Observed, Points, m
  <2>2. CASE OnBindFails(s, p)
    BY <1>6, <2>2, Zenon DEF OnBindFails, FrontendEnds, Fits, TypeOK
  <2> QED  BY <2>1, <2>2, Zenon
<1>9. UNCHANGED <<statements, execQueue, describes, stmt, execPopped, descPopped, bpump,
                  c2b, bstate, bdone, bdesc, bStmts, bPortals, bDescribed>>
  BY Zenon DEF OnBind, OnBindFails, Observed, FrontendEnds, backendVars
<1> QED
  BY <1>1, <1>3, <1>4, <1>6, <1>8, <1>9, Zenon DEF TypeOK, Fits

\* OnExecute keeps the types.
LEMMA ExecuteType ==
  ASSUME TypeOK, NEW p \in PortalNames, OnExecute(p)
  PROVE  TypeOK'
<1> DEFINE w == IF portals[p] = nil THEN 0 ELSE 1
           m == Msg("Execute", Unnamed, p, portals[p], <<>>, w)
<1>1. /\ sent' \in 0..MaxMsgs /\ open' \in BOOLEAN
      /\ live' \in SUBSET StmtNames /\ used' \in SUBSET StmtNames
  <2>1. live \in SUBSET StmtNames /\ used \in SUBSET StmtNames
    BY Zenon DEF TypeOK
  <2> QED  BY <2>1, SentType, Zenon DEF OnExecute
<1>2. Len(portal) \in Nat /\ portals[p] \in 0..Len(portal) /\ w \in Nat
  BY Lengths, Zenon DEF TypeOK
<1>3. execQueue' \in Seq(0..Len(portal))
  <2> DEFINE S == 0..Len(portal)
  <2>1. execQueue \in Seq(S) /\ portals[p] \in S
    BY <1>2, Zenon DEF TypeOK
  <2>2. execQueue' = execQueue \/ execQueue' = Append(execQueue, portals[p])
    BY Zenon DEF OnExecute
  <2> HIDE DEF S
  <2>3. execQueue' \in Seq(S)
    BY <2>1, <2>2
  <2> QED  BY <2>3 DEF S
<1>4. m \in Message /\ m.type = "Execute" /\ m.obj = portals[p]
  <2>1. <<>> \in Seq(Queries) /\ "Execute" \in Types /\ portals[p] \in Nat
    BY <1>2 DEF Types
  <2> HIDE DEF w
  <2>2. m \in Message
    BY <1>2, <2>1, MsgType, NamesAssumption, Zenon
  <2> QED  BY <2>2, Zenon DEF Msg
<1>5. fmsg' \in Message /\ Points(fmsg', Len(stmt), Len(portal)) /\ fpump' = "send"
  <2>1. fmsg' = m /\ fpump' = "send"
    BY Zenon DEF OnExecute, Observed
  <2> HIDE DEF m
  <2> QED  BY <1>2, <1>4, <2>1 DEF Points
<1>6. UNCHANGED <<statements, portals, describes, stmt, portal, execPopped, descPopped, bpump,
                  c2b, bstate, bdone, bdesc, bStmts, bPortals, bDescribed>>
  BY Zenon DEF OnExecute, Observed, backendVars
<1> QED
  BY <1>1, <1>3, <1>5, <1>6, Zenon DEF TypeOK

\* OnDescribe keeps the types.
LEMMA DescribeType ==
  ASSUME TypeOK, NEW s \in StmtNames, NEW p \in PortalNames,
         OnDescribeS(s) \/ OnDescribeP(p)
  PROVE  TypeOK'
<1> DEFINE D == [boundary : BOOLEAN, stmt : 0..Len(stmt), portal : 0..Len(portal)]
           ms == Msg("DescribeS", s, Unnamed, statements[s], <<>>, 0)
           mp == Msg("DescribeP", Unnamed, p, portals[p], <<>>, 0)
           es == [boundary |-> FALSE, stmt |-> statements[s], portal |-> nil]
           ep == [boundary |-> FALSE, portal |-> portals[p],
                  stmt |-> IF portals[p] = nil THEN nil ELSE portal[portals[p]].stmt]
<1>1. /\ sent' \in 0..MaxMsgs /\ open' \in BOOLEAN
      /\ live' \in SUBSET StmtNames /\ used' \in SUBSET StmtNames
  <2>1. live \in SUBSET StmtNames /\ used \in SUBSET StmtNames
    BY Zenon DEF TypeOK
  <2> QED  BY <2>1, SentType, Zenon DEF OnDescribeS, OnDescribeP
<1>2. /\ Len(stmt) \in Nat /\ Len(portal) \in Nat
      /\ statements[s] \in 0..Len(stmt) /\ portals[p] \in 0..Len(portal)
  BY Lengths, Zenon DEF TypeOK
<1>3. es \in D /\ ep \in D
  <2>1. portals[p] # nil => portal[portals[p]].stmt \in 0..Len(stmt)
    BY <1>2, PortalStmt DEF nil
  <2> QED  BY SMTT(30), <1>2, <2>1 DEF nil
<1>4. describes' \in Seq(D)
  <2>1. describes' = Append(describes, es) \/ describes' = Append(describes, ep)
    BY Zenon DEF OnDescribeS, OnDescribeP
  <2>2. describes \in Seq(D)
    BY Zenon DEF TypeOK
  <2> HIDE DEF D, es, ep
  <2> QED  BY <1>3, <2>1, <2>2
<1>5. /\ ms \in Message /\ ms.type = "DescribeS" /\ ms.obj = statements[s]
      /\ mp \in Message /\ mp.type = "DescribeP" /\ mp.obj = portals[p]
  <2>1. /\ <<>> \in Seq(Queries) /\ "DescribeS" \in Types /\ "DescribeP" \in Types
        /\ statements[s] \in Nat /\ portals[p] \in Nat
    BY <1>2 DEF Types
  <2>2. ms \in Message /\ mp \in Message
    BY <2>1, MsgType, NamesAssumption, Zenon
  <2> QED  BY <2>2, Zenon DEF Msg
<1>6. fmsg' \in Message /\ Points(fmsg', Len(stmt), Len(portal)) /\ fpump' = "send"
  <2>1. fmsg' \in {ms, mp} /\ fpump' = "send"
    BY Zenon DEF OnDescribeS, OnDescribeP, Observed
  <2> HIDE DEF ms, mp
  <2> QED  BY <1>2, <1>5, <2>1 DEF Points
<1>7. UNCHANGED <<statements, portals, execQueue, stmt, portal, execPopped, descPopped, bpump,
                  c2b, bstate, bdone, bdesc, bStmts, bPortals, bDescribed>>
  BY Zenon DEF OnDescribeS, OnDescribeP, Observed, backendVars
<1> QED
  BY <1>1, <1>4, <1>6, <1>7, Zenon DEF TypeOK

\* OnSync and OnClose keep the types.
LEMMA SyncCloseType ==
  ASSUME TypeOK, NEW s \in StmtNames, NEW p \in PortalNames,
         OnSync \/ OnCloseS(s) \/ OnCloseP(p)
  PROVE  TypeOK'
<1> DEFINE D == [boundary : BOOLEAN, stmt : 0..Len(stmt), portal : 0..Len(portal)]
           m0 == Msg("Sync", Unnamed, Unnamed, nil, <<>>, 1)
           ms == Msg("CloseS", s, Unnamed, nil, <<>>, 0)
           mp == Msg("CloseP", Unnamed, p, nil, <<>>, 0)
<1>1. /\ sent' \in 0..MaxMsgs /\ open' \in BOOLEAN
      /\ live' \in SUBSET StmtNames /\ used' \in SUBSET StmtNames
  <2>1. /\ live \in SUBSET StmtNames /\ used \in SUBSET StmtNames
        /\ live \ {Unnamed} \in SUBSET StmtNames /\ live \ {s} \in SUBSET StmtNames
    BY Zenon DEF TypeOK
  <2> QED  BY <2>1, SentType, Zenon DEF OnSync, OnCloseS, OnCloseP
<1>2. Len(stmt) \in Nat /\ Len(portal) \in Nat
  BY Lengths
<1>3. execQueue' \in Seq(0..Len(portal))
  <2> DEFINE S == 0..Len(portal)
  <2>1. execQueue \in Seq(S) /\ syncBoundary \in S
    BY <1>2 DEF TypeOK, syncBoundary
  <2>2. execQueue' = execQueue \/ execQueue' = Append(execQueue, syncBoundary)
    BY Zenon DEF OnSync, OnCloseS, OnCloseP
  <2> HIDE DEF S
  <2>3. execQueue' \in Seq(S)
    BY <2>1, <2>2
  <2> QED  BY <2>3 DEF S
<1>4. describes' \in Seq(D)
  <2>1. describes \in Seq(D) /\ boundaryEntry \in D
    BY <1>2 DEF TypeOK, boundaryEntry, nil
  <2>2. describes' = describes \/ describes' = Append(describes, boundaryEntry)
    BY Zenon DEF OnSync, OnCloseS, OnCloseP
  <2> HIDE DEF D
  <2> QED  BY <2>1, <2>2
<1>5. /\ m0 \in Message /\ m0.obj = 0
      /\ ms \in Message /\ ms.obj = 0
      /\ mp \in Message /\ mp.obj = 0
  <2>1. /\ <<>> \in Seq(Queries) /\ "Sync" \in Types /\ "CloseS" \in Types
        /\ "CloseP" \in Types /\ nil \in Nat /\ 1 \in Nat /\ 0 \in Nat
    BY DEF Types, nil
  <2>2. m0 \in Message /\ ms \in Message /\ mp \in Message
    BY <2>1, MsgType, NamesAssumption, Zenon
  <2> QED  BY <2>2, Zenon DEF Msg, nil
<1>6. fmsg' \in Message /\ Points(fmsg', Len(stmt), Len(portal)) /\ fpump' = "send"
  <2>1. fmsg' \in {m0, ms, mp} /\ fpump' = "send"
    BY Zenon DEF OnSync, OnCloseS, OnCloseP, Observed
  <2> HIDE DEF m0, ms, mp
  <2> QED  BY <1>2, <1>5, <2>1 DEF Points
<1>7. /\ statements' \in [StmtNames -> 0..Len(stmt)]
      /\ portals' \in [PortalNames -> 0..Len(portal)]
  <2>1. /\ statements \in [StmtNames -> 0..Len(stmt)]
        /\ portals \in [PortalNames -> 0..Len(portal)]
    BY Zenon DEF TypeOK
  <2>2. statements' = statements \/ statements' = [statements EXCEPT ![s] = nil]
    BY Zenon DEF OnSync, OnCloseS, OnCloseP
  <2>3. portals' = portals \/ portals' = [portals EXCEPT ![p] = nil]
    BY Zenon DEF OnSync, OnCloseS, OnCloseP
  <2> QED  BY <1>2, <2>1, <2>2, <2>3 DEF nil
<1>8. UNCHANGED <<stmt, portal, execPopped, descPopped, bpump,
                  c2b, bstate, bdone, bdesc, bStmts, bPortals, bDescribed>>
  BY Zenon DEF OnSync, OnCloseS, OnCloseP, Observed, backendVars
<1> QED
  BY <1>1, <1>3, <1>4, <1>6, <1>7, <1>8, Zenon DEF TypeOK

\* OnQuery keeps the types.
LEMMA QueryType ==
  ASSUME TypeOK, NEW t \in SimpleTexts, OnQuery(t)
  PROVE  TypeOK'
<1> DEFINE m == Msg("Query", Unnamed, Unnamed, Len(portal) + 1, t, Len(t) + 1)
<1>1. /\ sent' \in 0..MaxMsgs /\ open' \in BOOLEAN
      /\ live' \in SUBSET StmtNames /\ used' \in SUBSET StmtNames
  <2>1. live \ {Unnamed} \in SUBSET StmtNames /\ used \in SUBSET StmtNames
    BY Zenon DEF TypeOK
  <2> QED  BY <2>1, SentType, Zenon DEF OnQuery
<1>2. /\ Len(stmt) \in Nat /\ Len(portal) \in Nat
      /\ t \in Seq(Queries) /\ Len(t) \in Nat /\ Len(t) >= 1
  BY Lengths, SeqLength, TextsAssumption
<1>3. PICK k \in 0..Len(t) :
        /\ stmt' = stmt \o [i \in 1..k |-> [sql |-> t[i], cols |-> NoQuery]]
        /\ portal' = portal \o [i \in 1..k |-> [stmt |-> Len(stmt) + i, plan |-> NoPlan]]
        /\ LET entries == [i \in 1..k |-> Len(portal) + i]
           IN  IF k < Len(t)
               THEN /\ FrontendEnds
                    /\ execQueue' = execQueue \o entries
                    /\ UNCHANGED describes
               ELSE /\ Observed(m)
                    /\ execQueue' = execQueue \o Append(entries, syncBoundary)
                    /\ describes' = Append(describes, boundaryEntry)
  BY Zenon DEF OnQuery
<1> DEFINE S == [i \in 1..k |-> [sql |-> t[i], cols |-> NoQuery]]
           P == [i \in 1..k |-> [stmt |-> Len(stmt) + i, plan |-> NoPlan]]
           E == [i \in 1..k |-> Len(portal) + i]
<1>4. stmt' \in Seq(PreparedStatement) /\ Len(stmt') = Len(stmt) + k
  <2>1. S \in Seq(PreparedStatement) /\ Len(S) = k
    <3>1. \A i \in 1..k : [sql |-> t[i], cols |-> NoQuery] \in PreparedStatement
      BY <1>2, SeqEntry DEF PreparedStatement
    <3> QED  BY <3>1
  <2>2. stmt \in Seq(PreparedStatement)
    BY DEF TypeOK
  <2>3. stmt' = stmt \o S
    BY <1>3, Zenon
  <2> HIDE DEF S
  <2> QED  BY <2>1, <2>2, <2>3, SeqJoin, Zenon
<1>5. Len(stmt') \in Nat /\ Len(stmt) <= Len(stmt')
  BY <1>2, <1>4
<1>6. /\ portal' \in Seq([stmt : 0..Len(stmt'), plan : Plans])
      /\ Len(portal') = Len(portal) + k
  <2> DEFINE T == [stmt : 0..Len(stmt'), plan : Plans]
  <2>1. P \in Seq(T) /\ Len(P) = k
    <3>1. \A i \in 1..k : [stmt |-> Len(stmt) + i, plan |-> NoPlan] \in T
      BY <1>2, <1>4 DEF NoPlan, Plans
    <3> HIDE DEF T
    <3> QED  BY <3>1
  <2>2. portal \in Seq(T)
    <3>1. Fits(Len(stmt'), Len(portal))
      BY <1>2, <1>5, Widening
    <3> QED  BY <3>1, Zenon DEF Fits
  <2>3. portal' = portal \o P
    BY <1>3, Zenon
  <2> HIDE DEF P, T
  <2>4. portal' \in Seq(T) /\ Len(portal') = Len(portal) + k
    BY <2>1, <2>2, <2>3, SeqJoin, Zenon
  <2> QED  BY <2>4, Zenon DEF T
<1>7. Len(portal') \in Nat /\ Len(portal) <= Len(portal')
  BY <1>2, <1>6
<1>8. Fits(Len(stmt'), Len(portal'))
  BY <1>5, <1>7, Widening, Zenon
<1>9. execQueue' \in Seq(0..Len(portal'))
  <2> DEFINE T == 0..Len(portal')
  <2>1. E \in Seq(T) /\ Len(E) = k
    <3>1. \A i \in 1..k : Len(portal) + i \in T
      BY <1>2, <1>6
    <3> HIDE DEF T
    <3> QED  BY <3>1
  <2>2. execQueue \in Seq(T) /\ syncBoundary \in T
    BY <1>7, <1>8 DEF Fits, syncBoundary
  <2> DEFINE F == Append(E, syncBoundary)
  <2>3. execQueue' = execQueue \o E \/ execQueue' = execQueue \o F
    BY <1>3, Zenon
  <2> HIDE DEF E, T
  <2>4. F \in Seq(T)
    BY <2>1, <2>2, SeqAppend, Zenon
  <2> HIDE DEF F
  <2>5. execQueue' \in Seq(T)
    BY <2>1, <2>2, <2>3, <2>4, SeqJoin, Zenon
  <2> QED  BY <2>5, Zenon DEF T
<1>10. describes' \in Seq([boundary : BOOLEAN, stmt : 0..Len(stmt'), portal : 0..Len(portal')])
  <2> DEFINE D == [boundary : BOOLEAN, stmt : 0..Len(stmt'), portal : 0..Len(portal')]
  <2>1. describes \in Seq(D)
    BY <1>8, Zenon DEF Fits
  <2>2. boundaryEntry \in D
    BY <1>5, <1>7 DEF boundaryEntry, nil
  <2>3. describes' = describes \/ describes' = Append(describes, boundaryEntry)
    BY <1>3, Zenon
  <2> HIDE DEF D
  <2>4. describes' \in Seq(D)
    BY <2>1, <2>2, <2>3
  <2> QED  BY <2>4 DEF D
<1>11. /\ fmsg' \in Message /\ Points(fmsg', Len(stmt'), Len(portal'))
       /\ fpump' \in {"send", "done"} /\ bpump' = bpump
  <2>1. CASE k < Len(t)
    <3>1. FrontendEnds
      BY <1>3, <2>1, Zenon
    <3>2. fmsg \in Message /\ Points(fmsg, Len(stmt'), Len(portal'))
      BY <1>8, Zenon DEF Fits, TypeOK
    <3> QED  BY <3>1, <3>2 DEF FrontendEnds
  <2>2. CASE ~(k < Len(t))
    <3>1. m \in Message /\ m.type = "Query" /\ m.obj = Len(portal) + 1
      <4>1. "Query" \in Types /\ Len(portal) + 1 \in Nat /\ Len(t) + 1 \in Nat
        BY <1>2 DEF Types
      <4>2. m \in Message
        BY <1>2, <4>1, MsgType, NamesAssumption, Zenon
      <4> QED  BY <4>2, Zenon DEF Msg
    <3>2. fmsg' = m /\ fpump' = "send" /\ bpump' = bpump
      BY <1>3, <2>2 DEF Observed
    <3> HIDE DEF m
    <3> QED  BY <1>2, <1>6, <2>2, <3>1, <3>2 DEF Points
  <2> QED  BY <2>1, <2>2
<1>12. UNCHANGED <<statements, portals, execPopped, descPopped,
                   c2b, bstate, bdone, bdesc, bStmts, bPortals, bDescribed>>
  BY Zenon DEF OnQuery, backendVars
<1> QED
  BY <1>1, <1>4, <1>6, <1>8, <1>9, <1>10, <1>11, <1>12, Zenon DEF TypeOK, Fits

\* Sending an observed message and losing the client keep the types.
LEMMA PumpType ==
  ASSUME TypeOK, Send \/ ClientGone
  PROVE  TypeOK'
<1>1. /\ fmsg' \in Message /\ Points(fmsg', Len(stmt), Len(portal))
      /\ fpump' \in {"recv", "done"}
  BY NoMsgType, Lengths DEF Send, ClientGone
<1>2. c2b' \in Seq(Message) /\ \A i \in 1..Len(c2b') : Points(c2b'[i], Len(stmt), Len(portal))
  <2>1. /\ c2b \in Seq(Message) /\ \A i \in 1..Len(c2b) : Points(c2b[i], Len(stmt), Len(portal))
        /\ fmsg \in Message /\ Points(fmsg, Len(stmt), Len(portal))
    BY DEF TypeOK
  <2>2. c2b' = Append(c2b, fmsg) \/ c2b' = c2b
    BY DEF Send, ClientGone
  <2>3. CASE c2b' = Append(c2b, fmsg)
    <3>1. /\ c2b' \in Seq(Message) /\ Len(c2b') = Len(c2b) + 1 /\ Len(c2b) \in Nat
          /\ (\A i \in 1..Len(c2b) : c2b'[i] = c2b[i]) /\ c2b'[Len(c2b) + 1] = fmsg
      BY <2>1, <2>3, SeqAppend, SeqLength
    <3>2. \A i \in 1..Len(c2b') : i \in 1..Len(c2b) \/ i = Len(c2b) + 1
      BY <3>1
    <3> QED  BY <2>1, <3>1, <3>2, Zenon
  <2> QED  BY <2>1, <2>2, <2>3, Zenon
<1>3. UNCHANGED <<sessionVars, bpump, clientVars, backendVars>>
  BY DEF Send, ClientGone
<1> QED
  BY <1>1, <1>2, <1>3, Zenon DEF TypeOK, sessionVars, clientVars, backendVars

\* Every frontend step keeps the types.
LEMMA FrontendType ==
  ASSUME TypeOK, Frontend
  PROVE  TypeOK'
<1>1. ASSUME NEW s \in StmtNames, NEW q \in Queries, OnParse(s, q) PROVE TypeOK'
  BY <1>1, ParseType
<1>2. ASSUME NEW s \in StmtNames, NEW p \in PortalNames, OnBind(s, p) \/ OnBindFails(s, p)
      PROVE  TypeOK'
  BY <1>2, BindType
<1>3. ASSUME NEW p \in PortalNames, OnExecute(p) PROVE TypeOK'
  BY <1>3, ExecuteType
<1>4. ASSUME NEW p \in PortalNames, OnDescribeP(p) PROVE TypeOK'
  BY <1>4, DescribeType, NamesAssumption, Zenon
<1>5. ASSUME NEW p \in PortalNames, OnCloseP(p) PROVE TypeOK'
  BY <1>5, SyncCloseType, NamesAssumption
<1>6. ASSUME NEW s \in StmtNames, OnDescribeS(s) PROVE TypeOK'
  BY <1>6, DescribeType, NamesAssumption
<1>7. ASSUME NEW s \in StmtNames, OnCloseS(s) PROVE TypeOK'
  BY <1>7, SyncCloseType, NamesAssumption, Zenon
<1>8. ASSUME OnSync PROVE TypeOK'
  BY <1>8, SyncCloseType, NamesAssumption
<1>9. ASSUME NEW t \in SimpleTexts, OnQuery(t) PROVE TypeOK'
  BY <1>9, QueryType, Zenon
<1>10. ASSUME Send \/ ClientGone PROVE TypeOK'
  BY <1>10, PumpType
<1> QED
  BY <1>1, <1>2, <1>3, <1>4, <1>5, <1>6, <1>7, <1>8, <1>9, <1>10 DEF Frontend

\* The message the backend works on is a message that points into the heaps.
LEMMA CurType ==
  ASSUME TypeOK, c2b # <<>>
  PROVE  /\ cur \in Message /\ Points(cur, Len(stmt), Len(portal))
         /\ cur = c2b[1] /\ 1 \in 1..Len(c2b)
<1>1. c2b \in Seq(Message) /\ \A i \in 1..Len(c2b) : Points(c2b[i], Len(stmt), Len(portal))
  BY Zenon DEF TypeOK
<1>2. Len(c2b) \in Nat /\ Len(c2b) # 0
  BY <1>1, SeqEmpty, Zenon
<1>3. Head(c2b) = c2b[1] /\ c2b[1] \in Message
  BY <1>1, <1>2, SeqEntry
<1> QED
  BY <1>1, <1>2, <1>3 DEF cur

\* Finishing a message keeps the types of the pipeline.
LEMMA FinishedType ==
  ASSUME TypeOK, c2b # <<>>, Finished
  PROVE  /\ c2b' \in Seq(Message)
         /\ \A i \in 1..Len(c2b') : Points(c2b'[i], Len(stmt), Len(portal))
         /\ bdone' \in Nat /\ bdesc' \in BOOLEAN
<1>1. c2b \in Seq(Message) /\ \A i \in 1..Len(c2b) : Points(c2b[i], Len(stmt), Len(portal))
  BY DEF TypeOK
<1>2. /\ Tail(c2b) \in Seq(Message) /\ Len(Tail(c2b)) = Len(c2b) - 1 /\ Len(c2b) \in Nat
      /\ \A i \in 1..Len(Tail(c2b)) : Tail(c2b)[i] = c2b[i + 1]
  BY <1>1, SeqTail, SeqLength
<1>3. \A i \in 1..Len(Tail(c2b)) : Points(Tail(c2b)[i], Len(stmt), Len(portal))
  BY <1>1, <1>2
<1> QED
  BY <1>2, <1>3, Zenon DEF Finished

\* Parsed, Bound and Closed keep the types.
LEMMA CompletesType ==
  ASSUME TypeOK, Parsed \/ Bound \/ Closed
  PROVE  TypeOK'
<1>1. c2b # <<>> /\ Finished
  BY Zenon DEF Parsed, Bound, Closed, Working
<1>2. /\ c2b' \in Seq(Message)
      /\ \A i \in 1..Len(c2b') : Points(c2b'[i], Len(stmt), Len(portal))
      /\ bdone' \in Nat /\ bdesc' \in BOOLEAN
  BY <1>1, FinishedType, Zenon
<1>3. /\ cur \in Message /\ Points(cur, Len(stmt), Len(portal))
      /\ Len(stmt) \in Nat /\ Len(portal) \in Nat
  BY <1>1, CurType, Lengths
<1>4. /\ cur.stmt \in StmtNames /\ cur.portal \in PortalNames
      /\ cur.type = "Parse" => cur.obj \in 0..Len(stmt)
      /\ cur.type = "Bind" => cur.obj \in 0..Len(portal)
  BY <1>3 DEF Message, Points
<1>5. /\ bStmts \in [StmtNames -> 0..Len(stmt)]
      /\ bPortals \in [PortalNames -> [obj : 0..Len(portal), stmt : 0..Len(stmt)]]
  BY Zenon DEF TypeOK
<1>6. bStmts' \in [StmtNames -> 0..Len(stmt)]
  <2>1. CASE Parsed
    BY <1>4, <1>5, <2>1 DEF Parsed, Working
  <2>2. CASE Bound
    BY <1>5, <2>2, Zenon DEF Bound
  <2>3. CASE Closed
    <3>1. bStmts' = bStmts \/ bStmts' = [bStmts EXCEPT ![cur.stmt] = nil]
      BY <2>3, Zenon DEF Closed
    <3> QED  BY <1>3, <1>4, <1>5, <3>1 DEF nil
  <2> QED  BY <2>1, <2>2, <2>3, Zenon
<1>7. bPortals' \in [PortalNames -> [obj : 0..Len(portal), stmt : 0..Len(stmt)]]
  <2>1. CASE Parsed
    BY <1>5, <2>1, Zenon DEF Parsed
  <2>2. CASE Bound
    <3>1. [obj |-> cur.obj, stmt |-> bStmts[cur.stmt]] \in [obj : 0..Len(portal), stmt : 0..Len(stmt)]
      BY <1>4, <1>5, <2>2, Zenon DEF Bound, Working
    <3>2. bPortals' = [bPortals EXCEPT ![cur.portal] = [obj |-> cur.obj, stmt |-> bStmts[cur.stmt]]]
      BY <2>2, Zenon DEF Bound
    <3> QED  BY <1>5, <3>1, <3>2, Zenon
  <2>3. CASE Closed
    <3> DEFINE none == [obj |-> nil, stmt |-> nil]
               R == [obj : 0..Len(portal), stmt : 0..Len(stmt)]
    <3>1. none \in R
      BY <1>3 DEF nil
    <3>2. bPortals \in [PortalNames -> R]
      BY <1>5
    <3>3. \/ bPortals' = [bPortals EXCEPT ![cur.portal] = none]
          \/ bPortals' = [p \in PortalNames |->
                            IF bPortals[p].stmt = bStmts[cur.stmt] THEN none ELSE bPortals[p]]
      BY <2>3, Zenon DEF Closed
    <3> HIDE DEF none, R
    <3>4. bPortals' \in [PortalNames -> R]
      BY <3>1, <3>2, <3>3
    <3> QED  BY <3>4 DEF R
  <2> QED  BY <2>1, <2>2, <2>3
<1>8. UNCHANGED <<sessionVars, pumpVars, clientVars, bstate, bDescribed>>
  BY Zenon DEF Parsed, Bound, Closed
<1> QED
  BY <1>2, <1>6, <1>7, <1>8, Zenon DEF TypeOK, sessionVars, pumpVars, clientVars

\* The statement a Describe is about is a statement.
LEMMA DescribedType ==
  ASSUME TypeOK, c2b # <<>>
  PROVE  /\ Described \in 0..Len(stmt)
         /\ Described # nil => /\ Described \in 1..Len(stmt)
                               /\ stmt[Described].sql \in Queries
<1>1. cur \in Message /\ Len(stmt) \in Nat
  BY CurType, Lengths
<1>2. cur.stmt \in StmtNames /\ cur.portal \in PortalNames
  BY <1>1 DEF Message
<1>3. Described \in 0..Len(stmt)
  BY <1>2, Zenon DEF Described, TypeOK
<1>4. ASSUME Described # nil PROVE Described \in 1..Len(stmt)
  BY <1>1, <1>3, <1>4 DEF nil
<1>5. ASSUME Described # nil PROVE stmt[Described].sql \in Queries
  <2>1. stmt[Described] \in PreparedStatement
    BY <1>4, <1>5, SeqEntry DEF TypeOK
  <2> QED  BY <2>1, Zenon DEF PreparedStatement
<1> QED
  BY <1>3, <1>4, <1>5, Zenon

\* RowDescription keeps the types.
LEMMA BackendRowDescriptionType ==
  ASSUME TypeOK, RowDescription
  PROVE  TypeOK'
<1>1. c2b # <<>> /\ Finished /\ Described # nil
  BY Zenon DEF RowDescription, Working
<1>2. /\ c2b' \in Seq(Message)
      /\ \A i \in 1..Len(c2b') : Points(c2b'[i], Len(stmt), Len(portal))
      /\ bdone' \in Nat /\ bdesc' \in BOOLEAN
  BY <1>1, FinishedType
<1>3. Described \in 1..Len(stmt) /\ stmt[Described].sql \in Queries
  BY <1>1, DescribedType, Zenon
<1>4. /\ stmt' \in Seq(PreparedStatement) /\ Len(stmt') = Len(stmt)
      /\ portal' \in Seq([stmt : 0..Len(stmt), plan : Plans])
      /\ Len(portal') = Len(portal)
      /\ describes' \in Seq([boundary : BOOLEAN, stmt : 0..Len(stmt),
                             portal : 0..Len(portal)])
      /\ descPopped' \in Nat
      /\ UNCHANGED <<statements, portals, execQueue, execPopped>>
  BY <1>3, RowDescriptionType, Zenon DEF RowDescription
<1>5. bDescribed' \in SUBSET (1..Len(stmt))
  BY <1>3, Zenon DEF RowDescription, TypeOK
<1>6. UNCHANGED <<pumpVars, clientVars, bstate, bStmts, bPortals>>
  BY Zenon DEF RowDescription
<1> QED
  BY <1>2, <1>4, <1>5, <1>6, Zenon DEF TypeOK, pumpVars, clientVars

\* QueryRowDescription keeps the types.
LEMMA QueryRowDescriptionType ==
  ASSUME TypeOK, QueryRowDescription
  PROVE  TypeOK'
<1>1. cur.text[bdone + 1] \in Queries
  <2>1. cur \in Message /\ bdone \in Nat /\ bdone < Len(cur.text)
    BY CurType, Zenon DEF QueryRowDescription, Working, TypeOK
  <2>2. cur.text \in Seq(Queries)
    BY <2>1 DEF Message
  <2>3. bdone + 1 \in 1..Len(cur.text)
    BY <2>1, <2>2, SeqLength
  <2> QED  BY <2>2, <2>3, SeqEntry, Zenon
<1>2. /\ stmt' \in Seq(PreparedStatement) /\ Len(stmt') = Len(stmt)
      /\ portal' \in Seq([stmt : 0..Len(stmt), plan : Plans])
      /\ Len(portal') = Len(portal)
      /\ describes' \in Seq([boundary : BOOLEAN, stmt : 0..Len(stmt),
                             portal : 0..Len(portal)])
      /\ descPopped' \in Nat
      /\ UNCHANGED <<statements, portals, execQueue, execPopped>>
  BY <1>1, RowDescriptionType, Zenon DEF QueryRowDescription
<1>3. UNCHANGED <<pumpVars, c2b, clientVars, bstate, bdone, bStmts, bPortals, bDescribed>>
      /\ bdesc' \in BOOLEAN
  BY Zenon DEF QueryRowDescription
<1> QED
  BY <1>2, <1>3, Zenon DEF TypeOK, pumpVars, clientVars

\* Rows keep the types.
LEMMA DataRowType ==
  ASSUME TypeOK, DataRow \/ DataRowFails
  PROVE  TypeOK'
<1>1. /\ portal' \in Seq([stmt : 0..Len(stmt), plan : Plans])
      /\ Len(portal') = Len(portal)
      /\ UNCHANGED <<statements, portals, execQueue, describes, stmt, execPopped, descPopped>>
  BY DecryptType, Zenon DEF DataRow, DataRowFails, DecryptDataRow
<1>2. UNCHANGED <<fpump, fmsg, c2b, clientVars, backendVars>> /\ bpump' \in {"run", "done"}
  BY Zenon DEF DataRow, DataRowFails, pumpVars, TypeOK
<1> QED
  BY <1>1, <1>2, Zenon DEF TypeOK, clientVars, backendVars

\* The end of a result keeps the types.
LEMMA ResultDoneType ==
  ASSUME TypeOK, ExecuteDone \/ QueryStatementDone
  PROVE  TypeOK'
<1>1. execQueue' \in Seq(0..Len(portal)) /\ execPopped' \in Nat
  <2> DEFINE k == IF CurrentExecuting = nil THEN 0 ELSE 1
  <2>1. PopExec(k)
    BY Zenon DEF ExecuteDone, QueryStatementDone, popExecuting
  <2>2. execQueue \in Seq(0..Len(portal))
    BY DEF TypeOK
  <2>3. execQueue # <<>> => Len(execQueue) \in Nat \ {0}
    BY <2>2, SeqEmpty, Zenon
  <2>4. Len(execQueue) \in Nat
    BY <2>2, SeqLength
  <2>5. k \in 0..Len(execQueue)
    <3>1. CASE execQueue = <<>>
      BY <2>4, <3>1 DEF CurrentExecuting
    <3>2. CASE execQueue # <<>>
      BY <2>3, <3>2
    <3> QED  BY <3>1, <3>2
  <2> HIDE DEF k
  <2> QED  BY <2>1, <2>5, PopExecType, Zenon
<1>2. /\ c2b' \in Seq(Message)
      /\ \A i \in 1..Len(c2b') : Points(c2b'[i], Len(stmt), Len(portal))
      /\ bdone' \in Nat /\ bdesc' \in BOOLEAN
  <2>1. CASE ExecuteDone
    BY <2>1, FinishedType DEF ExecuteDone, Working
  <2>2. CASE QueryStatementDone
    <3>1. c2b' = c2b /\ bdone' = bdone + 1 /\ bdesc' = FALSE
      BY <2>2 DEF QueryStatementDone
    <3>2. /\ c2b \in Seq(Message) /\ bdone \in Nat
          /\ \A i \in 1..Len(c2b) : Points(c2b[i], Len(stmt), Len(portal))
      BY Zenon DEF TypeOK
    <3>3. bdone' \in Nat
      BY <3>1, <3>2
    <3>4. bdesc' \in BOOLEAN
      BY <3>1, Zenon
    <3> QED  BY <3>1, <3>2, <3>3, <3>4, Zenon
  <2> QED  BY <2>1, <2>2
<1>3. UNCHANGED <<statements, portals, describes, stmt, portal, descPopped, pumpVars,
                  clientVars, bstate, bStmts, bPortals, bDescribed>>
  BY Zenon DEF ExecuteDone, QueryStatementDone, popExecuting
<1> QED
  BY <1>1, <1>2, <1>3, Zenon DEF TypeOK, pumpVars, clientVars

\* NoData keeps the types.
LEMMA NoDataType ==
  ASSUME TypeOK, NoData
  PROVE  TypeOK'
<1> DEFINE D == [boundary : BOOLEAN, stmt : 0..Len(stmt), portal : 0..Len(portal)]
           k == IF DescribePending THEN 1 ELSE 0
<1>1. /\ c2b' \in Seq(Message)
      /\ \A i \in 1..Len(c2b') : Points(c2b'[i], Len(stmt), Len(portal))
      /\ bdone' \in Nat /\ bdesc' \in BOOLEAN
  BY FinishedType, Zenon DEF NoData, Working
<1>2. describes' \in Seq(D) /\ descPopped' \in Nat
  <2>1. PopDescribe(k)
    BY DEF NoData, OnNoData
  <2>2. describes \in Seq(D)
    BY Zenon DEF TypeOK
  <2>3. k \in 0..Len(describes)
    <3> HIDE DEF D
    <3>1. CASE describes = <<>>
      BY <3>1 DEF DescribePending
    <3>2. CASE describes # <<>>
      <4>1. Len(describes) \in Nat \ {0}
        BY <2>2, <3>2, SeqEmpty, Zenon
      <4> QED  BY <4>1
    <3> QED  BY <3>1, <3>2, Zenon
  <2> HIDE DEF k
  <2> QED  BY <2>1, <2>3, PopDescribeType, Zenon
<1>3. UNCHANGED <<statements, portals, execQueue, stmt, portal, execPopped, pumpVars,
                  clientVars, bstate, bStmts, bPortals, bDescribed>>
  BY DEF NoData, OnNoData
<1> QED
  BY <1>1, <1>2, <1>3, Zenon DEF TypeOK, pumpVars, clientVars

\* Errors, skipped messages and ReadyForQuery keep the types.
LEMMA ResyncStepType ==
  ASSUME TypeOK, StartupReady \/ ErrorResponse \/ ReadyForQuery
  PROVE  TypeOK'
<1>1. /\ execQueue' \in Seq(0..Len(portal)) /\ execPopped' \in Nat
      /\ describes' \in Seq([boundary : BOOLEAN, stmt : 0..Len(stmt), portal : 0..Len(portal)])
      /\ descPopped' \in Nat
      /\ UNCHANGED <<statements, portals, stmt, portal>>
  BY ResyncType, Zenon DEF StartupReady, ErrorResponse, ReadyForQuery
<1>2. /\ c2b' \in Seq(Message)
      /\ \A i \in 1..Len(c2b') : Points(c2b'[i], Len(stmt), Len(portal))
      /\ bdone' \in Nat /\ bdesc' \in BOOLEAN
  <2>1. CASE UNCHANGED <<c2b, bdone, bdesc>>
    BY <2>1, Zenon DEF TypeOK
  <2>2. CASE c2b # <<>> /\ Finished
    BY <2>2, FinishedType, Zenon
  <2> QED  BY <2>1, <2>2, Zenon DEF StartupReady, ErrorResponse, ReadyForQuery, Working
<1>3. Len(stmt) \in Nat /\ Len(portal) \in Nat
  BY Lengths
<1>4. bStmts' \in [StmtNames -> 0..Len(stmt)]
  <2>1. bStmts' = bStmts \/ bStmts' = [bStmts EXCEPT ![Unnamed] = nil]
    BY Zenon DEF StartupReady, ErrorResponse, ReadyForQuery
  <2>2. bStmts \in [StmtNames -> 0..Len(stmt)]
    BY DEF TypeOK
  <2> QED  BY <1>3, <2>1, <2>2 DEF nil
<1>5. bPortals' \in [PortalNames -> [obj : 0..Len(portal), stmt : 0..Len(stmt)]]
  <2>1. bPortals' \in {bPortals, NoPortals}
    BY Zenon DEF StartupReady, ErrorResponse, ReadyForQuery
  <2>2. bPortals \in [PortalNames -> [obj : 0..Len(portal), stmt : 0..Len(stmt)]]
    BY DEF TypeOK
  <2> QED  BY <1>3, <2>1, <2>2, NoPortalsType
<1>6. UNCHANGED <<pumpVars, clientVars, bDescribed>> /\ bstate' \in {"idle", "skip", "failed"}
  BY Zenon DEF StartupReady, ErrorResponse, ReadyForQuery
<1> QED
  BY <1>1, <1>2, <1>4, <1>5, <1>6, Zenon DEF TypeOK, pumpVars, clientVars

\* Skipping a message and losing the backend keep the types.
LEMMA SkipType ==
  ASSUME TypeOK, Skip \/ BackendGone
  PROVE  TypeOK'
<1>1. /\ c2b' \in Seq(Message)
      /\ \A i \in 1..Len(c2b') : Points(c2b'[i], Len(stmt), Len(portal))
      /\ bdone' \in Nat /\ bdesc' \in BOOLEAN
  <2>1. CASE Skip
    BY <2>1, FinishedType DEF Skip
  <2>2. CASE BackendGone
    BY <2>2 DEF BackendGone, TypeOK, backendVars
  <2> QED  BY <2>1, <2>2
<1>2. /\ UNCHANGED <<sessionVars, fpump, fmsg, clientVars, bstate, bStmts, bPortals, bDescribed>>
      /\ bpump' \in {"run", "done"}
  BY DEF Skip, BackendGone, pumpVars, backendVars, TypeOK
<1> QED
  BY <1>1, <1>2, Zenon DEF TypeOK, sessionVars, clientVars

\* Every step keeps the types.
LEMMA NextType ==
  ASSUME TypeOK, [Next]_vars
  PROVE  TypeOK'
<1>1. CASE UNCHANGED vars
  BY <1>1, Zenon DEF TypeOK, vars, sessionVars, pumpVars, clientVars, backendVars
<1>2. CASE Frontend
  BY <1>2, FrontendType
<1>3. CASE Backend
  BY <1>3, CompletesType, BackendRowDescriptionType, NoDataType, DataRowType,
    ResultDoneType,
     QueryRowDescriptionType, ResyncStepType, SkipType, Zenon DEF Backend
<1> QED
  BY <1>1, <1>2, <1>3 DEF Next

\* The session's pointers are always nil or valid: no handler of session.go
\* dereferences or stores a pointer to an object that was never made, however
\* the client pipelines and whatever the backend answers.
THEOREM TypeCorrect == Spec => []TypeOK
<1>1. Init => TypeOK
  BY InitType
<1>2. TypeOK /\ [Next]_vars => TypeOK'
  BY NextType
<1> QED
  BY <1>1, <1>2, PTL DEF Spec

-----------------------------------------------------------------------------
(* Refused SQL.                                                             *)

\* No statement of the message's text is one PlanWrite refuses.
Clean(m) == \A k \in 1..Len(m.text) : m.text[k] \notin Rejected

\* Neither what was sent nor what is about to be sent holds refused SQL.
RefusedInv ==
  /\ RefusedSQLStaysHere
  /\ fpump = "send" => Clean(fmsg)

\* OnParse of a text PlanWrite refuses ends the pump.
LEMMA ParseClean ==
  ASSUME RefusedInv, NEW s \in StmtNames, NEW q \in Queries, OnParse(s, q)
  PROVE  RefusedInv'
<1>1. c2b' = c2b
  BY DEF OnParse
<1>2. CASE q \in Rejected
  BY <1>1, <1>2 DEF RefusedInv, RefusedSQLStaysHere, OnParse, FrontendEnds
<1>3. CASE q \notin Rejected
  <2>1. fmsg'.text = <<q>>
    BY <1>3 DEF OnParse, Observed, Msg
  <2>2. Clean(fmsg')
    BY <1>3, <2>1 DEF Clean
  <2> QED  BY <1>1, <2>2, Zenon DEF RefusedInv, RefusedSQLStaysHere, Clean
<1> QED
  BY <1>2, <1>3, Zenon

\* The other messages of the extended protocol carry no SQL.
LEMMA ExtendedClean ==
  ASSUME RefusedInv, NEW s \in StmtNames, NEW p \in PortalNames,
         \/ OnBind(s, p) \/ OnBindFails(s, p) \/ OnExecute(p) \/ OnDescribeP(p)
         \/ OnCloseP(p) \/ OnDescribeS(s) \/ OnCloseS(s) \/ OnSync
  PROVE  RefusedInv'
<1>1. c2b' = c2b
  BY Zenon
    DEF OnBind, OnBindFails, OnExecute, OnDescribeP, OnCloseP, OnDescribeS, OnCloseS, OnSync
<1>2. fpump' = "done" \/ fmsg'.text = <<>>
  <2>1. PICK m : (Observed(m) /\ m.text = <<>>) \/ FrontendEnds
    <3>1. CASE OnBind(s, p)
      BY <3>1 DEF OnBind, Msg
    <3>2. CASE OnBindFails(s, p)
      BY <3>2, Zenon DEF OnBindFails, Msg
    <3>3. CASE OnExecute(p)
      BY <3>3 DEF OnExecute, Msg
    <3>4. CASE OnDescribeP(p)
      BY <3>4 DEF OnDescribeP, Msg
    <3>5. CASE OnCloseP(p)
      BY <3>5 DEF OnCloseP, Msg
    <3>6. CASE OnDescribeS(s)
      BY <3>6 DEF OnDescribeS, Msg
    <3>7. CASE OnCloseS(s)
      BY <3>7 DEF OnCloseS, Msg
    <3>8. CASE OnSync
      BY <3>8 DEF OnSync, Msg
    <3> QED  BY <3>1, <3>2, <3>3, <3>4, <3>5, <3>6, <3>7, <3>8, Zenon
  <2> QED  BY <2>1, Zenon DEF Observed, FrontendEnds
<1>3. fpump' = "send" => Clean(fmsg')
  BY <1>2 DEF Clean
<1> QED
  BY <1>1, <1>3, Zenon DEF RefusedInv, RefusedSQLStaysHere, Clean

\* A simple query is sent only when all its statements were planned.
LEMMA QueryClean ==
  ASSUME RefusedInv, NEW t \in SimpleTexts, OnQuery(t)
  PROVE  RefusedInv'
<1>1. c2b' = c2b
  BY Zenon DEF OnQuery
<1>2. PICK k \in 0..Len(t) :
        /\ \A i \in 1..k : t[i] \notin Rejected
        /\ IF k < Len(t) THEN FrontendEnds
           ELSE Observed(Msg("Query", Unnamed, Unnamed, Len(portal) + 1, t, Len(t) + 1))
  BY Zenon DEF OnQuery
<1>3. CASE k < Len(t)
  BY <1>1, <1>2, <1>3, Zenon DEF RefusedInv, RefusedSQLStaysHere, FrontendEnds
<1>4. CASE ~(k < Len(t))
  <2>1. fmsg'.text = t
    BY <1>2, <1>4 DEF Observed, Msg
  <2>2. k = Len(t)
    BY <1>2, <1>4, TextsAssumption, SeqLength
  <2>3. Clean(fmsg')
    BY <1>2, <2>1, <2>2 DEF Clean
  <2> QED  BY <1>1, <2>3 DEF RefusedInv, RefusedSQLStaysHere, Clean
<1> QED
  BY <1>3, <1>4

\* Sending the observed message.
LEMMA SendClean ==
  ASSUME TypeOK, RefusedInv, Send \/ ClientGone
  PROVE  RefusedInv'
<1>1. CASE Send
  <2>1. c2b' = Append(c2b, fmsg) /\ fpump' = "recv" /\ Clean(fmsg)
    BY <1>1 DEF Send, RefusedInv
  <2>2. c2b \in Seq(Message) /\ fmsg \in Message
    BY DEF TypeOK
  <2>3. \A i \in 1..Len(c2b) : Clean(c2b[i])
    BY Zenon DEF RefusedInv, RefusedSQLStaysHere, Clean
  <2>4. \A i \in 1..Len(c2b') : Clean(c2b'[i])
    BY <2>1, <2>2, <2>3
  <2> QED  BY <2>1, <2>4, Zenon DEF RefusedInv, RefusedSQLStaysHere, Clean
<1>2. CASE ClientGone
  BY <1>2 DEF ClientGone, RefusedInv, RefusedSQLStaysHere
<1> QED
  BY <1>1, <1>2

\* The backend takes messages, it adds none.
LEMMA BackendClean ==
  ASSUME TypeOK, RefusedInv, Backend \/ UNCHANGED vars
  PROVE  RefusedInv'
<1>1. UNCHANGED <<fpump, fmsg, c2b>> \/ (UNCHANGED <<fpump, fmsg>> /\ c2b # <<>> /\ Finished)
  <2>1. CASE Parsed \/ Bound \/ Closed \/ RowDescription \/ NoData \/ ExecuteDone
    BY <2>1, Zenon
      DEF Parsed, Bound, Closed, RowDescription, NoData, ExecuteDone, Working, pumpVars
  <2>2. CASE DataRow \/ DataRowFails \/ QueryRowDescription \/ QueryStatementDone \/ BackendGone
    BY <2>2, Zenon
      DEF DataRow, DataRowFails, QueryRowDescription, QueryStatementDone, BackendGone,
                pumpVars
  <2>3. CASE StartupReady \/ Skip \/ ReadyForQuery
    BY <2>3, Zenon DEF StartupReady, Skip, ReadyForQuery, pumpVars
  <2>4. CASE ErrorResponse
    BY <2>4 DEF ErrorResponse, Working, pumpVars
  <2>5. CASE UNCHANGED vars
    BY <2>5 DEF vars, pumpVars
  <2> QED  BY <2>1, <2>2, <2>3, <2>4, <2>5, Zenon DEF Backend
<1>2. \A i \in 1..Len(c2b) : Clean(c2b[i])
  BY Zenon DEF RefusedInv, RefusedSQLStaysHere, Clean
<1>3. CASE UNCHANGED <<fpump, fmsg, c2b>>
  BY <1>3 DEF RefusedInv, RefusedSQLStaysHere, Clean
<1>4. CASE UNCHANGED <<fpump, fmsg>> /\ c2b # <<>> /\ Finished
  <2>1. c2b \in Seq(Message) /\ c2b' = Tail(c2b)
    BY <1>4 DEF TypeOK, Finished
  <2>2. /\ Len(Tail(c2b)) = Len(c2b) - 1 /\ Len(c2b) \in Nat
        /\ \A i \in 1..Len(Tail(c2b)) : Tail(c2b)[i] = c2b[i + 1]
    BY <1>4, <2>1, SeqTail, SeqLength, Zenon
  <2>3. \A i \in 1..Len(c2b') : Clean(c2b'[i])
    BY <1>2, <2>1, <2>2
  <2> QED  BY <1>4, <2>3 DEF RefusedInv, RefusedSQLStaysHere, Clean
<1> QED
  BY <1>1, <1>3, <1>4

\* Refused SQL stays here: a statement PlanWrite refuses, alone in a Parse or
\* anywhere in the text of a simple query, ends the frontend pump before
\* server.Send, so the backend never sees it, whatever the client sends and in
\* whatever state the connection is.
THEOREM RefusedSQLIsNeverSent == Spec => []RefusedSQLStaysHere
<1>1. Init => TypeOK /\ RefusedInv
  BY InitType, SeqEmpty DEF Init, RefusedInv, RefusedSQLStaysHere
<1>2. TypeOK /\ RefusedInv /\ [Next]_vars => (TypeOK /\ RefusedInv)'
  <2> SUFFICES ASSUME TypeOK, RefusedInv, [Next]_vars PROVE RefusedInv'
    BY NextType, Zenon
  <2>1. CASE Backend \/ UNCHANGED vars
    BY <2>1, BackendClean
  <2>2. CASE Frontend
    BY <2>2, ParseClean, ExtendedClean, QueryClean, SendClean, NamesAssumption DEF Frontend
  <2> QED  BY <2>1, <2>2 DEF Next
<1>3. RefusedInv => RefusedSQLStaysHere
  BY DEF RefusedInv
<1> QED
  BY <1>1, <1>2, <1>3, PTL DEF Spec

\* The tail of a pipe, by index.
LEMMA TailFacts ==
  ASSUME NEW p \in Seq(Message), p # <<>>
  PROVE  /\ Tail(p) \in Seq(Message)
         /\ Len(p) \in Nat /\ Len(p) >= 1 /\ Len(Tail(p)) = Len(p) - 1
         /\ \A i \in 1..Len(Tail(p)) : Tail(p)[i] = p[i + 1]
  BY SeqTail, SeqEmpty

\* The numbers of a message.
LEMMA Numbers ==
  ASSUME NEW p \in Seq(Message)
  PROVE  \A i \in 1..Len(p) :
           /\ p[i] \in Message
           /\ p[i].slot \in Nat /\ p[i].width \in Nat /\ p[i].obj \in Nat
           /\ Ends(p[i]) = p[i].slot + p[i].width
           /\ p[i].text \in Seq(Queries)
<1>1. \A i \in 1..Len(p) : p[i] \in Message
  BY SeqEntry
<1> QED
  BY <1>1, Zenon DEF Message, Ends

\* A longer pipe, by index.
LEMMA AppendFacts ==
  ASSUME NEW p \in Seq(Message), NEW m \in Message
  PROVE  /\ Append(p, m) \in Seq(Message) /\ Append(p, m) # <<>>
         /\ Len(p) \in Nat /\ Len(Append(p, m)) = Len(p) + 1
         /\ \A i \in 1..Len(p) : Append(p, m)[i] = p[i]
         /\ Append(p, m)[Len(p) + 1] = m
  BY SeqEmpty

\* The pipe is a sequence of messages, and the backend works on its head.
LEMMA PipeType ==
  ASSUME TypeOK
  PROVE  /\ pipe \in Seq(Message)
         /\ c2b # <<>> => pipe # <<>> /\ pipe[1] = cur /\ cur \in Message
         /\ pipe = <<>> => c2b = <<>> /\ fpump # "send"
<1>1. c2b \in Seq(Message) /\ fmsg \in Message
  BY DEF TypeOK
<1>2. CASE fpump = "send"
  <2>1. /\ Append(c2b, fmsg) \in Seq(Message) /\ Append(c2b, fmsg) # <<>>
        /\ Len(c2b) \in Nat /\ \A i \in 1..Len(c2b) : Append(c2b, fmsg)[i] = c2b[i]
    BY <1>1, AppendFacts
  <2>2. c2b # <<>> => cur \in Message /\ cur = c2b[1] /\ 1 \in 1..Len(c2b)
    BY CurType
  <2> QED  BY <1>2, <2>1, <2>2 DEF pipe
<1>3. CASE fpump # "send"
  <2>1. c2b # <<>> => cur \in Message /\ cur = c2b[1]
    BY CurType
  <2> QED  BY <1>1, <1>3, <2>1 DEF pipe
<1> QED
  BY <1>2, <1>3

\* Finishing a message removes the head of the pipe.
LEMMA PipeTail ==
  ASSUME TypeOK, c2b # <<>>, c2b' = Tail(c2b), UNCHANGED <<fpump, fmsg>>
  PROVE  pipe' = Tail(pipe)
<1>1. c2b \in Seq(Message) /\ fmsg \in Message
  BY DEF TypeOK
<1>2. CASE fpump = "send"
  <2>1. Tail(Append(c2b, fmsg)) = Append(Tail(c2b), fmsg)
    BY <1>1
  <2> QED  BY <1>2, <2>1, Zenon DEF pipe
<1>3. CASE fpump # "send"
  BY <1>3 DEF pipe
<1> QED
  BY <1>2, <1>3

\* Observing a message appends it to the pipe.
LEMMA PipeAppend ==
  ASSUME NEW m, fpump = "recv", Observed(m), UNCHANGED c2b
  PROVE  pipe' = Append(pipe, m) /\ up /\ up'
  BY DEF Observed, pipe, up

\* The queue and the number of popped entries, as values.
LEMMA QueueType ==
  ASSUME TypeOK
  PROVE  /\ execQueue \in Seq(Nat) /\ execPopped \in Nat /\ bdone \in Nat
         /\ Len(execQueue) \in Nat
<1>1. execQueue \in Seq(0..Len(portal)) /\ execPopped \in Nat /\ bdone \in Nat
  BY DEF TypeOK
<1>2. 0..Len(portal) \subseteq Nat
  BY Lengths
<1>3. execQueue \in Seq(Nat)
  BY <1>1, <1>2, SeqWider
<1> QED
  BY <1>1, <1>3, SeqLength
=============================================================================
