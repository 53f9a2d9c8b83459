------------------------------- MODULE Session -------------------------------
(***************************************************************************)
(* One relayed PostgreSQL connection of the proxy: the protocol state that  *)
(* internal/wire/session.go keeps, driven by the two pump goroutines of     *)
(* internal/wire/relay.go.                                                  *)
(*                                                                         *)
(* The frontend pump takes a message from the client, updates the session  *)
(* under its lock (observeFrontend) and then, without the lock, sends it to *)
(* the backend.  The backend pump takes each answer, updates the session   *)
(* under the lock (observeBackend) and passes it on.  The client pipelines: *)
(* it never waits for an answer before it sends the next message.          *)
(*                                                                         *)
(* PreparedStatement and Portal are heap objects in the code: the maps     *)
(* statements and portals, the two queues and other objects hold pointers   *)
(* to them.  Here the heaps are the sequences stmt and portal, a pointer is *)
(* an index, and 0 is nil.                                                 *)
(*                                                                         *)
(* The PostgreSQL backend and the client are external.  The backend is what *)
(* the session's comments and tests take it to be: it answers messages in  *)
(* order, skips the rest of a batch up to Sync after an error, ends every  *)
(* Sync and every simple query with ReadyForQuery, and loses its portals   *)
(* when a transaction ends or fails.  Producing an answer touches backend  *)
(* state only, so it is one step with the pump's handling of that answer.  *)
(***************************************************************************)
EXTENDS Naturals, Sequences

CONSTANTS
  StmtNames,     \* prepared-statement names the client uses
  PortalNames,   \* portal names the client uses
  Unnamed,       \* the empty name, a statement and a portal name
  Queries,       \* SQL texts of a single statement
  NoQuery,       \* stands for "no SQL": columns not learned, no plan
  Unparsable,    \* the texts rewrite.Analyze cannot parse
  Rejected,      \* the texts PlanWrite refuses
  RowQueries,    \* the texts that return rows
  Traffic,       \* message types the client sends, and "Gone" if a peer may go
  SimpleTexts,   \* texts of simple-protocol queries, as statement sequences
  MaxMsgs,       \* bound: messages the client sends on the connection
  Disciplined,   \* TRUE: the client names statements the way pgjdbc does
  QueryInBatch   \* TRUE: the client may send Query inside an unsynced batch

ASSUME NamesAssumption == Unnamed \in StmtNames /\ Unnamed \in PortalNames

ASSUME QueriesAssumption ==
  /\ NoQuery \notin Queries
  /\ Unparsable \subseteq Queries
  /\ Rejected \subseteq Queries \ Unparsable
  /\ RowQueries \subseteq Queries

\* A text that does not parse stands for one result, so it is a sequence of
\* one; the statements of a longer text have all been parsed.
ASSUME TextsAssumption ==
  \A t \in SimpleTexts :
    /\ t \in Seq(Queries)
    /\ Len(t) >= 1
    /\ Len(t) > 1 => \A k \in 1..Len(t) : t[k] \notin Unparsable

ASSUME ClientAssumption ==
  /\ MaxMsgs \in Nat
  /\ Disciplined \in BOOLEAN
  /\ QueryInBatch \in BOOLEAN

VARIABLES
  statements,  \* Session.statements: name -> PreparedStatement pointer
  portals,     \* Session.portals: name -> Portal pointer
  execQueue,   \* Session.execQueue: Portal pointers and sync boundaries
  describes,   \* Session.describes: pending Describes and sync boundaries
  stmt,        \* heap of PreparedStatements
  portal,      \* heap of Portals
  execPopped,  \* history: entries popped from execQueue so far
  descPopped,  \* history: entries popped from describes so far
  fpump,       \* pumpClientToBackend: receiving, about to send, or returned
  fmsg,        \* the message it has observed and not yet sent
  bpump,       \* pumpBackendToClient: running or returned
  c2b,         \* messages sent to the backend and not finished by it
  sent,        \* client: messages sent so far
  open,        \* client: it has sent extended messages since its last Sync
  live,        \* client: statement names it holds
  used,        \* client: statement names it has ever parsed
  bstate,      \* backend: startup, idle, skip (until Sync), failed
  bdone,       \* backend: statements of the current simple query completed
  bdesc,       \* backend: it has sent the current one's RowDescription
  bStmts,      \* backend: name -> PreparedStatement it was parsed as
  bPortals,    \* backend: name -> Portal it was bound as, and its statement
  bDescribed   \* history: statements whose RowDescription it has sent

sessionVars == <<statements, portals, execQueue, describes, stmt, portal,
                 execPopped, descPopped>>
pumpVars    == <<fpump, fmsg, bpump>>
clientVars  == <<sent, open, live, used>>
backendVars == <<bstate, bdone, bdesc, bStmts, bPortals, bDescribed>>
vars        == <<sessionVars, pumpVars, c2b, clientVars, backendVars>>

nil == 0

\* syncBoundary: a queue value no Portal pointer equals.
syncBoundary == 0

\* A read plan is what PlanRead was given: the FROM tables of one statement
\* and the result columns of one.  It fits a row when both are the row's.
NoPlan == [from |-> NoQuery, cols |-> NoQuery]
Plans  == [from : Queries \union {NoQuery}, cols : Queries \union {NoQuery}]

PreparedStatement == [sql : Queries, cols : Queries \union {NoQuery}]

\* A frontend message.  obj is the object the session made or looked up for
\* it; slot and dslot are the positions in the whole history of the two
\* queues at which its entries start, width how many execQueue entries it
\* has.  None of these travels on the wire.
Types   == {"Parse", "Bind", "DescribeS", "DescribeP", "Execute", "Sync",
            "Query", "CloseS", "CloseP"}
Message == [type : Types, stmt : StmtNames, portal : PortalNames, obj : Nat,
            text : Seq(Queries), slot : Nat, width : Nat, dslot : Nat]

\* The object of a message is in the heap of its kind: ns statements or np
\* portals.
Points(m, ns, np) == m.obj <= IF m.type \in {"Parse", "DescribeS"} THEN ns ELSE np

Msg(t, s, p, o, text, w) ==
  [type |-> t, stmt |-> s, portal |-> p, obj |-> o, text |-> text,
   slot |-> execPopped + Len(execQueue), width |-> w,
   dslot |-> descPopped + Len(describes)]

NoMsg == [type |-> "Sync", stmt |-> Unnamed, portal |-> Unnamed, obj |-> nil,
          text |-> <<>>, slot |-> 0, width |-> 0, dslot |-> 0]

NoPortals == [p \in PortalNames |-> [obj |-> nil, stmt |-> nil]]

Init ==
  /\ statements = [s \in StmtNames |-> nil]
  /\ portals = [p \in PortalNames |-> nil]
  /\ execQueue = <<>> /\ describes = <<>>
  /\ stmt = <<>> /\ portal = <<>>
  /\ execPopped = 0 /\ descPopped = 0
  /\ fpump = "recv" /\ fmsg = NoMsg /\ bpump = "run"
  /\ c2b = <<>>
  /\ sent = 0 /\ open = FALSE /\ live = {} /\ used = {}
  /\ bstate = "startup" /\ bdone = 0 /\ bdesc = FALSE
  /\ bStmts = [s \in StmtNames |-> nil]
  /\ bPortals = NoPortals
  /\ bDescribed = {}

-----------------------------------------------------------------------------
(* The client (external).                                                   *)

\* The client may send a message.  It has seen the ReadyForQuery that ends
\* the startup phase, as the protocol demands.
MaySend(type) ==
  fpump = "recv" /\ sent < MaxMsgs /\ bstate # "startup" /\ type \in Traffic

\* A statement name a disciplined client uses in Bind or Describe: one it has
\* parsed and not closed, and the unnamed one only in the batch it was parsed.
MayUse(s) == Disciplined => s \in live

\* A name a disciplined client gives to Parse: the unnamed, or a fresh one.
MayParse(s) == Disciplined /\ s # Unnamed => s \notin used

ClientSent(isSync, newLive, newUsed) ==
  /\ sent' = sent + 1
  /\ open' = ~isSync
  /\ live' = newLive
  /\ used' = newUsed

-----------------------------------------------------------------------------
(* Frontend messages: observeFrontend.                                      *)

Observed(m) == fpump' = "send" /\ fmsg' = m /\ UNCHANGED bpump

\* The pump returns on an error, before server.Send.
FrontendEnds == fpump' = "done" /\ UNCHANGED <<fmsg, bpump>>

\* Mutant: the statement under a name that is parsed again keeps its columns.
OnParse_KeepsColumns(s, q) ==
  /\ MaySend("Parse") /\ MayParse(s)
  /\ ClientSent(FALSE, live \union {s}, used \union {s})
  /\ q \notin Rejected
  /\ stmt' = Append(stmt, [sql  |-> q,
                           cols |-> IF statements[s] = nil THEN NoQuery
                                    ELSE stmt[statements[s]].cols])
  /\ statements' = [statements EXCEPT ![s] = Len(stmt) + 1]
  /\ Observed(Msg("Parse", s, Unnamed, Len(stmt) + 1, <<q>>, 0))
  /\ UNCHANGED <<portals, execQueue, describes, portal, execPopped, descPopped,
                 c2b, backendVars>>

\* Mutant: the first statement parsed under a name stays.
OnParse_KeepsFirst(s, q) ==
  /\ MaySend("Parse") /\ MayParse(s)
  /\ ClientSent(FALSE, live \union {s}, used \union {s})
  /\ q \notin Rejected
  /\ stmt' = Append(stmt, [sql |-> q, cols |-> NoQuery])
  /\ statements' = IF statements[s] = nil
                   THEN [statements EXCEPT ![s] = Len(stmt) + 1] ELSE statements
  /\ Observed(Msg("Parse", s, Unnamed, Len(stmt) + 1, <<q>>, 0))
  /\ UNCHANGED <<portals, execQueue, describes, portal, execPopped, descPopped,
                 c2b, backendVars>>

\* OnParse: a plan error ends the pump; otherwise the name gets a fresh
\* object, whose result columns are not known.
OnParse(s, q) ==
  /\ MaySend("Parse") /\ MayParse(s)
  /\ ClientSent(FALSE, live \union {s}, used \union {s})
  /\ IF q \in Rejected
     THEN FrontendEnds /\ UNCHANGED <<statements, stmt>>
     ELSE /\ stmt' = Append(stmt, [sql |-> q, cols |-> NoQuery])
          /\ statements' = [statements EXCEPT ![s] = Len(stmt) + 1]
          /\ Observed(Msg("Parse", s, Unnamed, Len(stmt) + 1, <<q>>, 0))
  /\ UNCHANGED <<portals, execQueue, describes, portal, execPopped, descPopped,
                 c2b, backendVars>>

\* OnBind, with EncryptBind: the portal gets the statement the session holds
\* under that name, and the parameters are encrypted by that statement's plan.
OnBind(s, p) ==
  /\ MaySend("Bind") /\ MayUse(s)
  /\ ClientSent(FALSE, live, used)
  /\ portal' = Append(portal, [stmt |-> statements[s], plan |-> NoPlan])
  /\ portals' = [portals EXCEPT ![p] = Len(portal) + 1]
  /\ Observed(Msg("Bind", s, p, Len(portal) + 1, <<>>, 0))
  /\ UNCHANGED <<statements, execQueue, describes, stmt, execPopped, descPopped,
                 c2b, backendVars>>

\* OnBind followed by an EncryptBind that fails (a value that is already an
\* envelope, a cipher error): the portal is recorded and the pump returns.
OnBindFails(s, p) ==
  /\ MaySend("Bind") /\ MayUse(s)
  /\ statements[s] # nil /\ stmt[statements[s]].sql \notin Unparsable
  /\ ClientSent(FALSE, live, used)
  /\ portal' = Append(portal, [stmt |-> statements[s], plan |-> NoPlan])
  /\ portals' = [portals EXCEPT ![p] = Len(portal) + 1]
  /\ FrontendEnds
  /\ UNCHANGED <<statements, execQueue, describes, stmt, execPopped, descPopped,
                 c2b, backendVars>>

\* OnExecute: only a portal the session knows is enqueued.
OnExecute(p) ==
  /\ MaySend("Execute")
  /\ ClientSent(FALSE, live, used)
  /\ execQueue' = IF portals[p] = nil THEN execQueue
                  ELSE Append(execQueue, portals[p])
  /\ Observed(Msg("Execute", Unnamed, p, portals[p], <<>>,
                  IF portals[p] = nil THEN 0 ELSE 1))
  /\ UNCHANGED <<statements, portals, describes, stmt, portal, execPopped,
                 descPopped, c2b, backendVars>>

\* OnDescribe of a statement: an unknown name still takes a slot.
OnDescribeS(s) ==
  /\ MaySend("DescribeS") /\ MayUse(s)
  /\ ClientSent(FALSE, live, used)
  /\ describes' = Append(describes, [boundary |-> FALSE, stmt |-> statements[s],
                                     portal |-> nil])
  /\ Observed(Msg("DescribeS", s, Unnamed, statements[s], <<>>, 0))
  /\ UNCHANGED <<statements, portals, execQueue, stmt, portal, execPopped,
                 descPopped, c2b, backendVars>>

\* OnDescribe of a portal.
OnDescribeP(p) ==
  /\ MaySend("DescribeP")
  /\ ClientSent(FALSE, live, used)
  /\ describes' = Append(describes,
                    [boundary |-> FALSE, portal |-> portals[p],
                     stmt |-> IF portals[p] = nil THEN nil
                              ELSE portal[portals[p]].stmt])
  /\ Observed(Msg("DescribeP", Unnamed, p, portals[p], <<>>, 0))
  /\ UNCHANGED <<statements, portals, execQueue, stmt, portal, execPopped,
                 descPopped, c2b, backendVars>>

boundaryEntry == [boundary |-> TRUE, stmt |-> nil, portal |-> nil]

\* Mutant: the queue of pending Describes gets no boundary.
OnSync_ExecOnly ==
  /\ MaySend("Sync")
  /\ ClientSent(TRUE, live \ {Unnamed}, used)
  /\ execQueue' = Append(execQueue, syncBoundary)
  /\ Observed(Msg("Sync", Unnamed, Unnamed, nil, <<>>, 1))
  /\ UNCHANGED <<statements, portals, describes, stmt, portal, execPopped,
                 descPopped, c2b, backendVars>>

\* OnSync: a boundary on both queues.
OnSync ==
  /\ MaySend("Sync")
  /\ ClientSent(TRUE, live \ {Unnamed}, used)
  /\ execQueue' = Append(execQueue, syncBoundary)
  /\ describes' = Append(describes, boundaryEntry)
  /\ Observed(Msg("Sync", Unnamed, Unnamed, nil, <<>>, 1))
  /\ UNCHANGED <<statements, portals, stmt, portal, execPopped, descPopped,
                 c2b, backendVars>>

\* Mutant: only the first statement of the text is planned.
OnQuery_PlansFirst(t) ==
  /\ MaySend("Query") /\ (QueryInBatch \/ ~open)
  /\ ClientSent(TRUE, live \ {Unnamed}, used)
  /\ t[1] \notin Rejected
  /\ stmt' = stmt \o [i \in 1..Len(t) |-> [sql |-> t[i], cols |-> NoQuery]]
  /\ portal' = portal \o [i \in 1..Len(t) |-> [stmt |-> Len(stmt) + i,
                                               plan |-> NoPlan]]
  /\ Observed(Msg("Query", Unnamed, Unnamed, Len(portal) + 1, t, Len(t) + 1))
  /\ execQueue' = Append(execQueue \o [i \in 1..Len(t) |-> Len(portal) + i],
                         syncBoundary)
  /\ describes' = Append(describes, boundaryEntry)
  /\ UNCHANGED <<statements, portals, execPopped, descPopped, c2b, backendVars>>

\* Mutant: one result entry is queued for the whole text, whose statement
\* and portal are never made.
OnQuery_OneEntry(t) ==
  /\ MaySend("Query") /\ (QueryInBatch \/ ~open)
  /\ ClientSent(TRUE, live \ {Unnamed}, used)
  /\ Observed(Msg("Query", Unnamed, Unnamed, Len(portal) + 1, t, Len(t) + 1))
  /\ execQueue' = execQueue \o <<Len(portal) + 1, syncBoundary>>
  /\ describes' = Append(describes, boundaryEntry)
  /\ UNCHANGED <<statements, portals, stmt, portal, execPopped, descPopped, c2b,
                 backendVars>>

\* OnQuery: one synthetic statement and portal per statement of the text up
\* to the first one PlanWrite refuses, each enqueued; then, if none was
\* refused, the boundaries of OnSync.
OnQuery(t) ==
  /\ MaySend("Query") /\ (QueryInBatch \/ ~open)
  /\ ClientSent(TRUE, live \ {Unnamed}, used)
  /\ \E k \in 0..Len(t) :
       /\ \A i \in 1..k : t[i] \notin Rejected
       /\ k < Len(t) => t[k + 1] \in Rejected
       /\ stmt' = stmt \o [i \in 1..k |-> [sql |-> t[i], cols |-> NoQuery]]
       /\ portal' = portal \o [i \in 1..k |-> [stmt |-> Len(stmt) + i,
                                               plan |-> NoPlan]]
       /\ LET entries == [i \in 1..k |-> Len(portal) + i]
          IN  IF k < Len(t)
              THEN /\ FrontendEnds
                   /\ execQueue' = execQueue \o entries
                   /\ UNCHANGED describes
              ELSE /\ Observed(Msg("Query", Unnamed, Unnamed, Len(portal) + 1, t,
                                   Len(t) + 1))
                   /\ execQueue' = execQueue \o Append(entries, syncBoundary)
                   /\ describes' = Append(describes, boundaryEntry)
  /\ UNCHANGED <<statements, portals, execPopped, descPopped, c2b, backendVars>>

\* OnClose of a statement: the name is forgotten; objects that point to the
\* statement keep it.
OnCloseS(s) ==
  /\ MaySend("CloseS")
  /\ ClientSent(FALSE, live \ {s}, used)
  /\ statements' = [statements EXCEPT ![s] = nil]
  /\ Observed(Msg("CloseS", s, Unnamed, nil, <<>>, 0))
  /\ UNCHANGED <<portals, execQueue, describes, stmt, portal, execPopped,
                 descPopped, c2b, backendVars>>

\* OnClose of a portal.
OnCloseP(p) ==
  /\ MaySend("CloseP")
  /\ ClientSent(FALSE, live, used)
  /\ portals' = [portals EXCEPT ![p] = nil]
  /\ Observed(Msg("CloseP", Unnamed, p, nil, <<>>, 0))
  /\ UNCHANGED <<statements, execQueue, describes, stmt, portal, execPopped,
                 descPopped, c2b, backendVars>>

\* pumpClientToBackend: server.Send of the observed message, outside the lock.
Send ==
  /\ fpump = "send"
  /\ fpump' = "recv"
  /\ fmsg' = NoMsg
  /\ c2b' = Append(c2b, fmsg)
  /\ UNCHANGED <<sessionVars, bpump, clientVars, backendVars>>

\* The client is gone (EOF, Terminate, a failed Send): the pump returns.
ClientGone ==
  /\ "Gone" \in Traffic /\ fpump # "done"
  /\ fpump' = "done"
  /\ fmsg' = NoMsg
  /\ UNCHANGED <<sessionVars, bpump, c2b, clientVars, backendVars>>

Frontend ==
  \/ \E s \in StmtNames, q \in Queries : OnParse(s, q)
  \/ \E s \in StmtNames, p \in PortalNames : OnBind(s, p) \/ OnBindFails(s, p)
  \/ \E p \in PortalNames : OnExecute(p) \/ OnDescribeP(p) \/ OnCloseP(p)
  \/ \E s \in StmtNames : OnDescribeS(s) \/ OnCloseS(s)
  \/ OnSync
  \/ \E t \in SimpleTexts : OnQuery(t)
  \/ Send
  \/ ClientGone

-----------------------------------------------------------------------------
(* Handlers of backend messages: observeBackend.                            *)

Rest(q, k) == SubSeq(q, k + 1, Len(q))

ExecBoundaries == {i \in 1..Len(execQueue) : execQueue[i] = syncBoundary}
DescBoundaries == {i \in 1..Len(describes) : describes[i].boundary}

\* The loops of OnErrorResponse pop k entries: those before the first boundary.
DropsToBoundary(B, len, k) ==
  /\ k \in 0..len
  /\ \A i \in 1..k : i \notin B
  /\ k < len => k + 1 \in B

\* The loops of OnReadyForQuery pop k entries: through the first boundary, or
\* all of them when there is none.
PopsThroughBoundary(B, len, k) ==
  /\ k \in 0..len
  /\ \A i \in 1..len : i < k => i \notin B
  /\ k < len => k \in B

PopExec(k) ==
  /\ execQueue' = Rest(execQueue, k)
  /\ execPopped' = execPopped + k

PopDescribe(k) ==
  /\ describes' = Rest(describes, k)
  /\ descPopped' = descPopped + k

\* Mutant: an error drops the whole queue, later batches included.
OnErrorResponse_ClearsAll ==
  /\ PopExec(Len(execQueue))
  /\ PopDescribe(Len(describes))
  /\ UNCHANGED <<statements, portals, stmt, portal>>

OnErrorResponse ==
  /\ \E k \in 0..Len(execQueue) :
       DropsToBoundary(ExecBoundaries, Len(execQueue), k) /\ PopExec(k)
  /\ \E k \in 0..Len(describes) :
       DropsToBoundary(DescBoundaries, Len(describes), k) /\ PopDescribe(k)
  /\ UNCHANGED <<statements, portals, stmt, portal>>

\* Mutant: ReadyForQuery pops one entry, which it takes for the boundary.
OnReadyForQuery_PopsOne ==
  /\ PopExec(IF execQueue = <<>> THEN 0 ELSE 1)
  /\ PopDescribe(IF describes = <<>> THEN 0 ELSE 1)
  /\ UNCHANGED <<statements, portals, stmt, portal>>

OnReadyForQuery ==
  /\ \E k \in 0..Len(execQueue) :
       PopsThroughBoundary(ExecBoundaries, Len(execQueue), k) /\ PopExec(k)
  /\ \E k \in 0..Len(describes) :
       PopsThroughBoundary(DescBoundaries, Len(describes), k) /\ PopDescribe(k)
  /\ UNCHANGED <<statements, portals, stmt, portal>>

\* CurrentExecuting: nil when the queue is empty or paused at a boundary.
CurrentExecuting == IF execQueue = <<>> THEN nil ELSE Head(execQueue)

\* popExecuting, the whole of OnCommandComplete, OnEmptyQueryResponse and
\* OnPortalSuspended: a boundary is never popped.
popExecuting ==
  /\ PopExec(IF CurrentExecuting = nil THEN 0 ELSE 1)
  /\ UNCHANGED <<statements, portals, describes, stmt, portal, descPopped>>

\* planRead: a statement without analysis has no plan.
planRead(ps, cols) ==
  IF ps.sql \in Unparsable THEN NoPlan ELSE [from |-> ps.sql, cols |-> cols]

\* Mutant: a portal that was never described itself has no plan.
ensureReadPlan_PortalOnly(p) == portal[p].plan

\* ensureReadPlan: the portal's plan, or one from the statement's columns.
ensureReadPlan(p) ==
  LET ps == stmt[portal[p].stmt]
  IN  IF portal[p].plan = NoPlan /\ portal[p].stmt # nil /\ ps.cols # NoQuery
      THEN planRead(ps, ps.cols)
      ELSE portal[p].plan

\* learnColumns on statement s, and the plan it gives portal p (if not nil).
LearnColumns(s, p, cols) ==
  /\ stmt' = [stmt EXCEPT ![s].cols = cols]
  /\ portal' = IF p = nil THEN portal
               ELSE [portal EXCEPT ![p].plan = planRead(stmt[s], cols)]

\* A pending Describe is answered when one heads the queue.
DescribePending == describes # <<>> /\ ~Head(describes).boundary

OnRowDescription(cols) ==
  /\ IF DescribePending
     THEN /\ PopDescribe(1)
          /\ LET pd == Head(describes)
             IN  IF pd.stmt = nil THEN UNCHANGED <<stmt, portal>>
                 ELSE LearnColumns(pd.stmt, pd.portal, cols)
     ELSE /\ UNCHANGED <<describes, descPopped>>
          /\ LET p == CurrentExecuting
             IN  IF p = nil \/ portal[p].stmt = nil
                 THEN UNCHANGED <<stmt, portal>>
                 ELSE LearnColumns(portal[p].stmt, p, cols)
  /\ UNCHANGED <<statements, portals, execQueue, execPopped>>

OnNoData ==
  /\ PopDescribe(IF DescribePending THEN 1 ELSE 0)
  /\ UNCHANGED <<statements, portals, execQueue, stmt, portal, execPopped>>

\* DecryptDataRow: without an executing portal, or without a plan, the row
\* passes as it is; otherwise the portal keeps the plan it was read with.
DecryptDataRow ==
  /\ LET p == CurrentExecuting
     IN  portal' = IF p = nil THEN portal
                   ELSE [portal EXCEPT ![p].plan = ensureReadPlan(p)]
  /\ UNCHANGED <<statements, portals, execQueue, describes, stmt, execPopped,
                 descPopped>>

-----------------------------------------------------------------------------
(* The backend (external), each answer handled by pumpBackendToClient.      *)

cur == Head(c2b)

Working(types) ==
  bpump = "run" /\ bstate = "idle" /\ c2b # <<>> /\ cur.type \in types

Finished == c2b' = Tail(c2b) /\ bdone' = 0 /\ bdesc' = FALSE

\* The ReadyForQuery of the startup phase goes through the relay too.
StartupReady ==
  /\ bpump = "run" /\ bstate = "startup"
  /\ OnReadyForQuery
  /\ bstate' = "idle"
  /\ UNCHANGED <<pumpVars, c2b, clientVars, bdone, bdesc, bStmts, bPortals,
                 bDescribed>>

\* ParseComplete.  A name that exists is an error unless it is the unnamed.
Parsed ==
  /\ Working({"Parse"})
  /\ cur.stmt = Unnamed \/ bStmts[cur.stmt] = nil
  /\ bStmts' = [bStmts EXCEPT ![cur.stmt] = cur.obj]
  /\ Finished
  /\ UNCHANGED <<sessionVars, pumpVars, clientVars, bstate, bPortals, bDescribed>>

\* BindComplete.
Bound ==
  /\ Working({"Bind"})
  /\ bStmts[cur.stmt] # nil
  /\ cur.portal = Unnamed \/ bPortals[cur.portal].obj = nil
  /\ bPortals' = [bPortals EXCEPT ![cur.portal] = [obj  |-> cur.obj,
                                                   stmt |-> bStmts[cur.stmt]]]
  /\ Finished
  /\ UNCHANGED <<sessionVars, pumpVars, clientVars, bstate, bStmts, bDescribed>>

\* CloseComplete.  Portals of a closed statement are closed with it.
Closed ==
  /\ Working({"CloseS", "CloseP"})
  /\ IF cur.type = "CloseP"
     THEN /\ bPortals' = [bPortals EXCEPT ![cur.portal] = [obj |-> nil, stmt |-> nil]]
          /\ UNCHANGED bStmts
     ELSE /\ bStmts' = [bStmts EXCEPT ![cur.stmt] = nil]
          /\ bPortals' = [p \in PortalNames |->
                            IF bPortals[p].stmt = bStmts[cur.stmt]
                            THEN [obj |-> nil, stmt |-> nil] ELSE bPortals[p]]
  /\ Finished
  /\ UNCHANGED <<sessionVars, pumpVars, clientVars, bstate, bDescribed>>

\* The statement a Describe names, as the backend sees it.
Described == IF cur.type = "DescribeS" THEN bStmts[cur.stmt]
             ELSE bPortals[cur.portal].stmt

RowDescription ==
  /\ Working({"DescribeS", "DescribeP"})
  /\ Described # nil /\ stmt[Described].sql \in RowQueries
  /\ OnRowDescription(stmt[Described].sql)
  /\ bDescribed' = bDescribed \union {Described}
  /\ Finished
  /\ UNCHANGED <<pumpVars, clientVars, bstate, bStmts, bPortals>>

NoData ==
  /\ Working({"DescribeS", "DescribeP"})
  /\ Described # nil /\ stmt[Described].sql \notin RowQueries
  /\ OnNoData
  /\ Finished
  /\ UNCHANGED <<pumpVars, clientVars, bstate, bStmts, bPortals, bDescribed>>

\* The portal a row of the current Execute comes from, as the backend sees it.
Executing == bPortals[cur.portal]

\* Some statement's rows may follow now.
SendingRows ==
  \/ /\ Working({"Execute"})
     /\ Executing.obj # nil /\ stmt[Executing.stmt].sql \in RowQueries
  \/ /\ Working({"Query"})
     /\ bdone < Len(cur.text) /\ bdesc

DataRow ==
  /\ SendingRows
  /\ DecryptDataRow
  /\ UNCHANGED <<pumpVars, c2b, clientVars, backendVars>>

\* A field of the row does not decrypt: the pump returns.
DataRowFails ==
  /\ SendingRows
  /\ CurrentExecuting # nil
  /\ ensureReadPlan(CurrentExecuting) # NoPlan
  /\ DecryptDataRow
  /\ bpump' = "done"
  /\ UNCHANGED <<fpump, fmsg, c2b, clientVars, backendVars>>

\* CommandComplete, EmptyQueryResponse or PortalSuspended of an Execute.
ExecuteDone ==
  /\ Working({"Execute"})
  /\ Executing.obj # nil
  /\ popExecuting
  /\ Finished
  /\ UNCHANGED <<pumpVars, clientVars, bstate, bStmts, bPortals, bDescribed>>

\* RowDescription of the next statement of a simple query.
QueryRowDescription ==
  /\ Working({"Query"})
  /\ bdone < Len(cur.text) /\ ~bdesc
  /\ cur.text[bdone + 1] \in RowQueries
  /\ OnRowDescription(cur.text[bdone + 1])
  /\ bdesc' = TRUE
  /\ UNCHANGED <<pumpVars, c2b, clientVars, bstate, bdone, bStmts, bPortals,
                 bDescribed>>

\* CommandComplete or EmptyQueryResponse of a statement of a simple query.
QueryStatementDone ==
  /\ Working({"Query"})
  /\ bdone < Len(cur.text)
  /\ bdesc \/ cur.text[bdone + 1] \notin RowQueries
  /\ popExecuting
  /\ bdone' = bdone + 1
  /\ bdesc' = FALSE
  /\ UNCHANGED <<pumpVars, c2b, clientVars, bstate, bStmts, bPortals, bDescribed>>

\* ErrorResponse to any message: the transaction's portals are gone.  After a
\* failed simple query, or a Sync whose commit failed, ReadyForQuery follows;
\* after any other message the backend skips up to the next Sync.  A Parse of
\* the unnamed statement has dropped the previous one before it fails.
ErrorResponse ==
  /\ Working(Types)
  /\ cur.type = "Query" => bdone < Len(cur.text)
  /\ OnErrorResponse
  /\ bPortals' = NoPortals
  /\ IF cur.type \in {"Sync", "Query"}
     THEN bstate' = "failed" /\ UNCHANGED <<c2b, bdone, bdesc>>
     ELSE bstate' = "skip" /\ Finished
  /\ bStmts' = IF cur.type = "Parse" /\ cur.stmt = Unnamed
               THEN [bStmts EXCEPT ![Unnamed] = nil] ELSE bStmts
  /\ UNCHANGED <<pumpVars, clientVars, bDescribed>>

\* A message of a failed batch is dropped without an answer.
Skip ==
  /\ bpump = "run" /\ bstate = "skip" /\ c2b # <<>> /\ cur.type # "Sync"
  /\ Finished
  /\ UNCHANGED <<sessionVars, pumpVars, clientVars, bstate, bStmts, bPortals,
                 bDescribed>>

\* ReadyForQuery ends a Sync, or a simple query after its last statement or an
\* error.  The transaction may have ended with it; a simple query drops the
\* unnamed statement.
ReadyForQuery ==
  /\ bpump = "run" /\ bstate # "startup" /\ c2b # <<>>
  /\ \/ cur.type = "Sync"
     \/ /\ cur.type = "Query"
        /\ bstate = "failed" \/ (bstate = "idle" /\ bdone = Len(cur.text))
  /\ OnReadyForQuery
  /\ bstate' = "idle"
  /\ bStmts' = IF cur.type = "Query" THEN [bStmts EXCEPT ![Unnamed] = nil] ELSE bStmts
  /\ bPortals' \in {bPortals, NoPortals}
  /\ Finished
  /\ UNCHANGED <<pumpVars, clientVars, bDescribed>>

\* The backend, or the write to the client, is gone: the pump returns.
BackendGone ==
  /\ "Gone" \in Traffic /\ bpump = "run"
  /\ bpump' = "done"
  /\ UNCHANGED <<sessionVars, fpump, fmsg, c2b, clientVars, backendVars>>

Backend ==
  \/ StartupReady
  \/ Parsed \/ Bound \/ Closed
  \/ RowDescription \/ NoData
  \/ DataRow \/ DataRowFails \/ ExecuteDone
  \/ QueryRowDescription \/ QueryStatementDone
  \/ ErrorResponse \/ Skip \/ ReadyForQuery
  \/ BackendGone

Next == Frontend \/ Backend

Spec == Init /\ [][Next]_vars

-----------------------------------------------------------------------------
(* Properties.                                                              *)

\* The types of all variables, with every pointer nil or into its heap.
TypeOK ==
  /\ stmt \in Seq(PreparedStatement)
  /\ portal \in Seq([stmt : 0..Len(stmt), plan : Plans])
  /\ statements \in [StmtNames -> 0..Len(stmt)]
  /\ portals \in [PortalNames -> 0..Len(portal)]
  /\ execQueue \in Seq(0..Len(portal))
  /\ describes \in Seq([boundary : BOOLEAN, stmt : 0..Len(stmt),
                        portal : 0..Len(portal)])
  /\ execPopped \in Nat /\ descPopped \in Nat
  /\ fpump \in {"recv", "send", "done"}
  /\ fmsg \in Message /\ Points(fmsg, Len(stmt), Len(portal))
  /\ bpump \in {"run", "done"}
  /\ c2b \in Seq(Message)
  /\ \A i \in 1..Len(c2b) : Points(c2b[i], Len(stmt), Len(portal))
  /\ sent \in 0..MaxMsgs /\ open \in BOOLEAN
  /\ live \in SUBSET StmtNames /\ used \in SUBSET StmtNames
  /\ bstate \in {"startup", "idle", "skip", "failed"}
  /\ bdone \in Nat /\ bdesc \in BOOLEAN
  /\ bStmts \in [StmtNames -> 0..Len(stmt)]
  /\ bPortals \in [PortalNames -> [obj : 0..Len(portal), stmt : 0..Len(stmt)]]
  /\ bDescribed \in SUBSET (1..Len(stmt))

\* A result belongs to the Execute, or the statement of the simple query, the
\* backend is answering: whatever was pipelined and whatever failed before,
\* the head of execQueue is the very portal object of that Execute or
\* statement.  A row is therefore never decrypted with a stranger's plan and
\* no CommandComplete advances a stranger's entry.
RowsReachTheirPortal ==
  /\ Working({"Execute"}) /\ Executing.obj # nil =>
       CurrentExecuting = Executing.obj
  /\ Working({"Query"}) /\ bdone < Len(cur.text) =>
       CurrentExecuting = cur.obj + bdone

\* A RowDescription or NoData that answers a Describe is attributed to the
\* statement and portal that Describe named, and the RowDescription of a
\* simple query is never taken for the answer to a Describe.
DescribesReachTheirStatement ==
  /\ Working({"DescribeS", "DescribeP"}) /\ Described # nil =>
       /\ DescribePending
       /\ cur.type = "DescribeS" => Head(describes).stmt = cur.obj
                                    /\ Head(describes).portal = nil
       /\ cur.type = "DescribeP" => Head(describes).portal = cur.obj
  /\ Working({"Query"}) => ~DescribePending

\* When everything sent has been answered and the client is still there, no
\* entry is left behind in either queue: the pipeline resynchronises after
\* every error.
DrainedWhenIdle ==
  fpump = "recv" /\ c2b = <<>> /\ bstate = "idle" =>
    execQueue = <<>> /\ describes = <<>>

\* The plan of a row the backend sends now, and the SQL it comes from.
RowSQL  == IF cur.type = "Execute" THEN stmt[Executing.stmt].sql
           ELSE cur.text[bdone + 1]
RowPlan == IF CurrentExecuting = nil THEN NoPlan ELSE ensureReadPlan(CurrentExecuting)

\* A row is decrypted, if at all, by the tables and columns of the statement
\* it comes from.
RowsUseTheirOwnPlan ==
  SendingRows => RowPlan \in {NoPlan, [from |-> RowSQL, cols |-> RowSQL]}

\* A row of a statement the backend has described at any time on this
\* connection (or of a simple query, which always describes itself) has a
\* plan, unless its SQL could not be analysed: the rows of a server-prepared
\* statement that is executed again with a bare Bind and Execute included.
DescribedRowsHaveAPlan ==
  /\ SendingRows
  /\ cur.type = "Execute" => Executing.stmt \in bDescribed
  /\ RowSQL \notin Unparsable
  => RowPlan # NoPlan

\* The statement whose write plan encrypted a Bind's parameters is the
\* statement the backend binds them to.
BindsUseTheBackendsStatement ==
  Working({"Bind"}) /\ bStmts[cur.stmt] # nil =>
    portal[cur.obj].stmt = bStmts[cur.stmt]

\* SQL that PlanWrite refuses never reaches the backend, alone or as one
\* statement of a longer text.
RefusedSQLStaysHere ==
  \A i \in 1..Len(c2b) : \A k \in 1..Len(c2b[i].text) :
    c2b[i].text[k] \notin Rejected
=============================================================================
