----------------------------- MODULE SessionInv -----------------------------
(***************************************************************************)
(* The inductive invariants of Session.  IInv is why execQueue stays        *)
(* aligned with the backend, and DescInv why the queue of Describes does,   *)
(* for a client that sends no simple query inside an unsynced batch.        *)
(* StmtInv is why the proxy and the backend mean the same by a statement    *)
(* name, for a disciplined client, and PlansInv why a read plan is the one  *)
(* of the statement whose rows it decrypts.                                 *)
(*                                                                         *)
(* The pipe is every message the session has observed and the backend has   *)
(* not finished.  A message owns a run of positions ("slots") in the whole  *)
(* history of execQueue; popping only ever removes the oldest positions, so *)
(* position execPopped + j of the history is execQueue[j].                  *)
(***************************************************************************)
EXTENDS Session

pipe == IF fpump = "send" THEN Append(c2b, fmsg) ELSE c2b

Ends(m) == m.slot + m.width

\* How many execQueue entries a message has.
Widths(m) ==
  /\ m.type = "Execute" => m.width = IF m.obj = nil THEN 0 ELSE 1
  /\ m.type = "Sync" => m.width = 1
  /\ m.type = "Query" => m.width = Len(m.text) + 1 /\ m.obj # nil
  /\ m.type \notin {"Execute", "Sync", "Query"} => m.width = 0

\* What the t-th of them is.
Entry(m, t) ==
  IF m.type = "Execute" THEN m.obj
  ELSE IF m.type = "Query" /\ t < m.width THEN m.obj + t - 1
  ELSE syncBoundary

\* The slots of consecutive messages are consecutive.
ChainInv(p) ==
  /\ \A i \in 1..Len(p) : Widths(p[i])
  /\ \A i, j \in 1..Len(p) : i < j => Ends(p[i]) <= p[j].slot
  /\ \A i \in 1..Len(p) : i + 1 <= Len(p) => p[i + 1].slot = Ends(p[i])

\* The queue holds what the messages of the pipe put there.
ContentInv(p, q, popped) ==
  \A i \in 1..Len(p) :
    /\ Ends(p[i]) <= popped + Len(q)
    /\ \A t \in 1..p[i].width :
         p[i].slot + t > popped => q[p[i].slot + t - popped] = Entry(p[i], t)

\* Until the pump returns, nothing else is in the queue behind the pipe.
TopInv(p, q, popped) ==
  p # <<>> => Ends(p[Len(p)]) = popped + Len(q)

\* The oldest entry left is the one the backend answers next, given its state
\* bs, how many statements bd of a simple query it has completed, and whether
\* the frontend pump is still up.
IdleInv(p, q, popped, bd, up) ==
  IF p # <<>> THEN popped = p[1].slot + bd ELSE up => q = <<>>

\* After a failed Sync or simple query only its boundary is left of it.
FailedInv(p, popped) == popped + 1 = Ends(p[1])

\* After any other error the oldest entry may be any one of the dead batch.
DeadInv(p, q, popped, up) ==
  /\ \A i \in 1..Len(p) : p[i].type = "Sync" => popped <= p[i].slot
  /\ p # <<>> => \A j \in 1..Len(q) :
                   popped + j <= p[1].slot => q[j] # syncBoundary
  /\ p = <<>> /\ up => \A j \in 1..Len(q) : q[j] # syncBoundary

BaseInv(p, q, popped, bs, bd, up) ==
  /\ bs = "startup" => p = <<>> /\ q = <<>>
  /\ bs = "idle" => IdleInv(p, q, popped, bd, up)
  /\ bs = "failed" => FailedInv(p, popped)
  /\ bs = "skip" => DeadInv(p, q, popped, up)

\* The simple query being answered has some statements completed.
ProgressInv ==
  /\ bdone > 0 => c2b # <<>> /\ cur.type = "Query"
  /\ c2b # <<>> /\ cur.type = "Query" => bdone <= Len(cur.text)
  /\ bstate = "failed" => c2b # <<>> /\ cur.type \in {"Sync", "Query"}

Extended(m) == m.type \notin {"Sync", "Query"}

\* A simple query never follows an extended message without a Sync between.
BatchInv(p) ==
  \A i, j \in 1..Len(p) :
    i < j /\ Extended(p[i]) /\ p[j].type = "Query" =>
      \E k \in 1..Len(p) : i < k /\ k < j /\ p[k].type = "Sync"

OpenInv(p, op) ==
  ~op => \A i \in 1..Len(p) :
           Extended(p[i]) => \E k \in 1..Len(p) : i < k /\ p[k].type = "Sync"

\* After an error a Sync comes before the next simple query.
SyncFirst(p) ==
  \A j \in 1..Len(p) : p[j].type = "Query" =>
    \E k \in 1..Len(p) : k < j /\ p[k].type = "Sync"

HasSync(p) == \E k \in 1..Len(p) : p[k].type = "Sync"

\* The k-th message changes what portal name n means.
Binds(p, k, n) == p[k].type \in {"Bind", "CloseP"} /\ p[k].portal = n

\* Among the first e messages none changes portal name n.
NoneBinds(p, e, n) == \A k \in 1..e : ~Binds(p, k, n)

\* Of the first e messages the k-th is the last to change portal name n.
LastBinds(p, k, e, n) ==
  k <= e /\ Binds(p, k, n) /\ \A h \in 1..e : k < h => ~Binds(p, h, n)

\* The portal object x that a message behind the first e messages means by
\* name n is the one the backend will hold, if it holds one at all.
Agrees(p, e, n, x, bp) ==
  /\ NoneBinds(p, e, n) => bp[n].obj \in {nil, x}
  /\ \A k \in 1..e : LastBinds(p, k, e, n) => x = p[k].obj

MessagesAgree(p, bp) ==
  /\ \A i \in 1..Len(p) : p[i].type \in {"Execute", "DescribeP"} =>
       Agrees(p, i - 1, p[i].portal, p[i].obj, bp)
  /\ \A i \in 1..Len(p) : p[i].type = "CloseP" => p[i].obj = nil

SessionAgrees(p, ps, bp) ==
  \A n \in PortalNames : Agrees(p, Len(p), n, ps[n], bp)

up == fpump # "done"

ExecInv ==
  /\ ChainInv(pipe)
  /\ ContentInv(pipe, execQueue, execPopped)
  /\ up => TopInv(pipe, execQueue, execPopped)
  /\ BaseInv(pipe, execQueue, execPopped, bstate, bdone, up)
  /\ ProgressInv

ClientInv ==
  /\ BatchInv(pipe)
  /\ up => OpenInv(pipe, open)
  /\ bstate = "skip" => SyncFirst(pipe)
  /\ bstate = "skip" /\ up /\ ~open => HasSync(pipe)

PortalsInv ==
  /\ MessagesAgree(pipe, bPortals)
  /\ up => SessionAgrees(pipe, portals, bPortals)
  /\ bstate = "skip" => bPortals = NoPortals

\* The inductive invariant.
IInv == TypeOK /\ ExecInv /\ ClientInv /\ PortalsInv
-----------------------------------------------------------------------------
(* The queue of pending Describes.  A Describe has one entry in it, a Sync  *)
(* and a simple query have one boundary.  Seen(m) is message m as a message *)
(* of execQueue with those entries, so that the same invariant says that    *)
(* the queue is aligned with the backend.                                   *)

IsDescribe(m) == m.type \in {"DescribeS", "DescribeP"}

Seen(m) ==
  [type   |-> IF IsDescribe(m) THEN "Execute" ELSE IF Extended(m) THEN "Parse" ELSE "Sync",
   stmt   |-> m.stmt, portal |-> m.portal, obj |-> 1, text |-> m.text,
   slot   |-> m.dslot,
   width  |-> IF Extended(m) /\ ~IsDescribe(m) THEN 0 ELSE 1,
   dslot  |-> m.dslot]

SeenPipe(p) == [i \in 1..Len(p) |-> Seen(p[i])]

SeenQueue(d) == [j \in 1..Len(d) |-> IF d[j].boundary THEN syncBoundary ELSE 1]

\* The entry of a Describe is about the objects the Describe named.
PendingInv(p, d, popped) ==
  \A i \in 1..Len(p) :
    IsDescribe(p[i]) /\ p[i].dslot >= popped =>
      LET e == d[p[i].dslot + 1 - popped]
      IN  IF p[i].type = "DescribeS" THEN e.stmt = p[i].obj /\ e.portal = nil
          ELSE e.portal = p[i].obj

DescInv ==
  /\ ChainInv(SeenPipe(pipe))
  /\ ContentInv(SeenPipe(pipe), SeenQueue(describes), descPopped)
  /\ up => TopInv(SeenPipe(pipe), SeenQueue(describes), descPopped)
  /\ BaseInv(SeenPipe(pipe), SeenQueue(describes), descPopped, bstate, 0, up)
  /\ PendingInv(pipe, describes, descPopped)

-----------------------------------------------------------------------------
(* Statement names, for a disciplined client: what a Bind or a Describe     *)
(* means by a name is what the backend holds under it, if it holds one.     *)

Uses(m) == m.type \in {"Bind", "DescribeS"}

\* The statement object a Bind or a Describe of a statement stands for, given
\* the heap of portals.
Meant(m, po) == IF m.type = "Bind" THEN po[m.obj].stmt ELSE m.obj

Parses(m, n) == m.type = "Parse" /\ m.stmt = n

\* A message changes what statement name n means.
Sets(m, n) == m.type \in {"Parse", "CloseS"} /\ m.stmt = n

\* Behind every Sync among the first e messages the unnamed statement is
\* parsed again.
Reparsed(p, e) ==
  \A j \in 1..e : p[j].type = "Sync" =>
    \E k \in 1..e : j < k /\ Parses(p[k], Unnamed)

\* The first e messages are of a batch that has failed.
AllDead(p, e, bs) == bs = "skip" /\ \A j \in 1..e : p[j].type # "Sync"

\* None of the messages behind the k-th, of the first e, changes name n.
NoneSets(p, k, e, n) == \A h \in 1..e : k < h => ~Sets(p[h], n)

\* Object x is what the backend, whose statements are st, will hold under
\* name n behind the first e messages, if it holds one at all.
Names(p, e, n, x, bs, st) ==
  \/ n = Unnamed /\ AllDead(p, e, bs)
  \/ /\ NoneSets(p, 0, e, n) => st[n] \in {nil, x}
     /\ \A k \in 1..e :
          Sets(p[k], n) /\ NoneSets(p, k, e, n) =>
            x = p[k].obj /\ (n # Unnamed => p[k].type = "Parse")

\* A name is parsed once, unless it is the unnamed.
FreshInv(p, st, us) ==
  /\ \A k \in 1..Len(p), n \in StmtNames \ {Unnamed} :
       Parses(p[k], n) =>
         st[n] = nil /\ \A h \in 1..Len(p) : Parses(p[h], n) => h = k
  /\ \A n \in StmtNames \ {Unnamed} : n \notin us =>
       st[n] = nil /\ \A k \in 1..Len(p) : ~Parses(p[k], n)

UsesInv(p, bs, st, po) ==
  \A i \in 1..Len(p) : Uses(p[i]) =>
    /\ Names(p, i - 1, p[i].stmt, Meant(p[i], po), bs, st)
    /\ p[i].stmt = Unnamed => Reparsed(p, i - 1)
    /\ p[i].type = "Bind" => p[i].obj # nil

LiveInv(p, bs, st, lv, ss) ==
  \A n \in lv :
    /\ Names(p, Len(p), n, ss[n], bs, st)
    /\ n = Unnamed => Reparsed(p, Len(p))

StmtInv ==
  /\ FreshInv(pipe, bStmts, used)
  /\ UsesInv(pipe, bstate, bStmts, portal)
  /\ up => LiveInv(pipe, bstate, bStmts, live, statements)

-----------------------------------------------------------------------------
(* The heap: result columns and read plans are those of their statement.    *)

OwnPlan(q) == [from |-> q, cols |-> q]

ColumnsInv ==
  /\ \A s \in 1..Len(stmt) : stmt[s].cols \in {NoQuery, stmt[s].sql}
  /\ \A p \in 1..Len(portal) :
       portal[p].plan # NoPlan =>
         portal[p].stmt # nil /\ portal[p].plan = OwnPlan(stmt[portal[p].stmt].sql)
  /\ \A s \in bDescribed : stmt[s].cols # NoQuery

\* A portal of the backend is bound to the statement of the session's object.
PortalsPoint ==
  \A n \in PortalNames :
    IF bPortals[n].obj = nil THEN bPortals[n].stmt = nil
    ELSE bPortals[n].stmt # nil /\ portal[bPortals[n].obj].stmt = bPortals[n].stmt

\* A pending Describe of a portal is about the portal's statement.
DescribesPoint ==
  \A j \in 1..Len(describes) :
    describes[j].portal # nil => describes[j].stmt = portal[describes[j].portal].stmt

\* The portals of a simple query, in the heaps po and st, belong to the
\* statements of its text.
Planned(m, po, st) ==
  m.type = "Query" =>
    \A t \in 1..Len(m.text) :
      LET x == m.obj + t - 1
      IN  /\ x \in 1..Len(po) /\ po[x].stmt \in 1..Len(st)
          /\ st[po[x].stmt].sql = m.text[t]

QueriesPoint == \A i \in 1..Len(pipe) : Planned(pipe[i], portal, stmt)

\* The columns of the statement whose rows a simple query sends are known.
CursorInv ==
  bdesc => /\ c2b # <<>> /\ cur.type = "Query" /\ bdone < Len(cur.text)
           /\ stmt[portal[cur.obj + bdone].stmt].cols # NoQuery

PointersInv == PortalsPoint /\ DescribesPoint /\ QueriesPoint /\ CursorInv

HeapInv == ColumnsInv /\ PointersInv

\* What a step needs to keep HeapInv: results and descriptions reach their
\* objects, and names mean the same on both sides.  Together with IInv and
\* DescInv, which imply the first two, this is inductive.
PlansInv ==
  /\ TypeOK /\ PortalsInv /\ StmtInv /\ HeapInv
  /\ RowsReachTheirPortal /\ DescribesReachTheirStatement
=============================================================================
