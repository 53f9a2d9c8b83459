----------------------- MODULE SessionDescribeProofs ------------------------
(***************************************************************************)
(* Describes reach their statement.  The describes queue is read as a queue*)
(* of the shape of execQueue: every Describe is seen as a message with one *)
(* entry, every Sync and simple query as one with a boundary, and every    *)
(* other message as one with no entry (Seen, SeenPipe, SeenQueue).  The    *)
(* lemmas of SessionOrderProofs about pipes and queues as values then apply*)
(* to it, and PendingInv adds what each entry points to.  With HeapInv and *)
(* StmtInv of SessionPlanProofs this gives the theorems about read plans.  *)
(***************************************************************************)
EXTENDS SessionOrderProofs, SessionPlanProofs

-----------------------------------------------------------------------------
(* The queue of pending Describes as a queue of the shape of execQueue.     *)

Entries == [boundary : BOOLEAN, stmt : Nat, portal : Nat]

\* A message as the queue of pending Describes sees it.
LEMMA SeenFacts ==
  ASSUME NEW m \in Message
  PROVE  /\ Seen(m) \in Message /\ Widths(Seen(m))
         /\ Seen(m).slot = m.dslot /\ m.dslot \in Nat /\ Seen(m).obj = 1
         /\ Seen(m).type = "Sync" <=> m.type \in {"Sync", "Query"}
         /\ Extended(Seen(m)) <=> Extended(m)
         /\ IsDescribe(m) => Seen(m).type = "Execute" /\ Seen(m).width = 1
         /\ ~Extended(m) => Seen(m).type = "Sync" /\ Seen(m).width = 1
         /\ Extended(m) /\ ~IsDescribe(m) => Seen(m).type = "Parse" /\ Seen(m).width = 0
         /\ Ends(Seen(m)) = Seen(m).slot + Seen(m).width
<1>1. m.dslot \in Nat
  BY Zenon DEF Message
<1>2. Seen(m) \in Message
  <2>1. m.stmt \in StmtNames /\ m.portal \in PortalNames /\ m.text \in Seq(Queries)
    BY Zenon DEF Message
  <2>2. /\ (IF IsDescribe(m) THEN "Execute" ELSE IF Extended(m) THEN "Parse" ELSE "Sync") \in Types
        /\ (IF Extended(m) /\ ~IsDescribe(m) THEN 0 ELSE 1) \in Nat /\ 1 \in Nat
    BY Zenon DEF Types
  <2> QED  BY <1>1, <2>1, <2>2, Zenon DEF Message, Seen
<1> QED
  BY <1>1, <1>2, Zenon DEF Seen, Widths, Extended, IsDescribe, nil, Ends

\* The pipe as the queue of pending Describes sees it, by index.
LEMMA SeenPipeFacts ==
  ASSUME NEW p \in Seq(Message)
  PROVE  /\ SeenPipe(p) \in Seq(Message) /\ Len(SeenPipe(p)) = Len(p) /\ Len(p) \in Nat
         /\ \A i \in 1..Len(p) : SeenPipe(p)[i] = Seen(p[i]) /\ p[i] \in Message
         /\ SeenPipe(p) = <<>> <=> p = <<>>
<1>1. Len(p) \in Nat /\ \A i \in 1..Len(p) : p[i] \in Message
  BY SeqLength, SeqEntry, Zenon
<1>2. \A i \in 1..Len(p) : Seen(p[i]) \in Message
  BY <1>1, SeenFacts, Zenon
<1>3. SeenPipe(p) \in Seq(Message) /\ Len(SeenPipe(p)) = Len(p)
  BY <1>1, <1>2 DEF SeenPipe
<1>4. \A i \in 1..Len(p) : SeenPipe(p)[i] = Seen(p[i])
  BY Zenon DEF SeenPipe
<1>5. SeenPipe(p) = <<>> <=> p = <<>>
  BY <1>3, SeqEmpty, Zenon
<1> QED
  BY <1>1, <1>3, <1>4, <1>5, Zenon

\* A message sent to the backend, as that queue sees it.
LEMMA SeenAppend ==
  ASSUME NEW p \in Seq(Message), NEW m \in Message
  PROVE  SeenPipe(Append(p, m)) = Append(SeenPipe(p), Seen(m))
<1>1. /\ Append(p, m) \in Seq(Message) /\ Len(p) \in Nat /\ Len(Append(p, m)) = Len(p) + 1
      /\ \A i \in 1..Len(p) : Append(p, m)[i] = p[i]
      /\ Append(p, m)[Len(p) + 1] = m
  BY AppendFacts, Zenon
<1>2. /\ SeenPipe(p) \in Seq(Message) /\ Len(SeenPipe(p)) = Len(p) /\ Seen(m) \in Message
      /\ \A i \in 1..Len(p) : SeenPipe(p)[i] = Seen(p[i])
  BY SeenPipeFacts, SeenFacts
<1>3. /\ SeenPipe(Append(p, m)) \in Seq(Message) /\ Len(SeenPipe(Append(p, m))) = Len(p) + 1
      /\ \A i \in 1..(Len(p) + 1) : SeenPipe(Append(p, m))[i] = Seen(Append(p, m)[i])
  BY <1>1, SeenPipeFacts, Zenon
<1>4. /\ Append(SeenPipe(p), Seen(m)) \in Seq(Message)
      /\ Len(Append(SeenPipe(p), Seen(m))) = Len(p) + 1
      /\ \A i \in 1..Len(p) : Append(SeenPipe(p), Seen(m))[i] = SeenPipe(p)[i]
      /\ Append(SeenPipe(p), Seen(m))[Len(p) + 1] = Seen(m)
  BY <1>2, AppendFacts
<1>5. \A i \in 1..(Len(p) + 1) : SeenPipe(Append(p, m))[i] = Append(SeenPipe(p), Seen(m))[i]
  <2> SUFFICES ASSUME NEW i \in 1..(Len(p) + 1)
               PROVE  SeenPipe(Append(p, m))[i] = Append(SeenPipe(p), Seen(m))[i]
    BY Zenon
  <2>1. i \in 1..Len(p) \/ i = Len(p) + 1
    BY <1>1
  <2>2. CASE i \in 1..Len(p)
    BY <1>1, <1>2, <1>3, <1>4, <2>2, Zenon
  <2>3. CASE i = Len(p) + 1
    BY <1>1, <1>3, <1>4, <2>3, Zenon
  <2> QED  BY <2>1, <2>2, <2>3, Zenon
<1> QED
  BY <1>3, <1>4, <1>5, SeqSame, Zenon

\* A finished message, as that queue sees it.
LEMMA SeenTail ==
  ASSUME NEW p \in Seq(Message), p # <<>>
  PROVE  /\ SeenPipe(Tail(p)) = Tail(SeenPipe(p)) /\ SeenPipe(p) # <<>>
         /\ SeenPipe(p)[1] = Seen(p[1]) /\ p[1] \in Message
<1>1. /\ Tail(p) \in Seq(Message) /\ Len(p) \in Nat /\ Len(p) >= 1
      /\ Len(Tail(p)) = Len(p) - 1 /\ \A i \in 1..Len(Tail(p)) : Tail(p)[i] = p[i + 1]
  BY TailFacts, Zenon
<1>2. /\ SeenPipe(p) \in Seq(Message) /\ Len(SeenPipe(p)) = Len(p) /\ SeenPipe(p) # <<>>
      /\ \A i \in 1..Len(p) : SeenPipe(p)[i] = Seen(p[i]) /\ p[i] \in Message
  BY SeenPipeFacts, Zenon
<1>3. /\ SeenPipe(Tail(p)) \in Seq(Message) /\ Len(SeenPipe(Tail(p))) = Len(p) - 1
      /\ \A i \in 1..(Len(p) - 1) : SeenPipe(Tail(p))[i] = Seen(Tail(p)[i])
  BY <1>1, SeenPipeFacts, Zenon
<1>4. /\ Tail(SeenPipe(p)) \in Seq(Message) /\ Len(Tail(SeenPipe(p))) = Len(p) - 1
      /\ \A i \in 1..(Len(p) - 1) : Tail(SeenPipe(p))[i] = SeenPipe(p)[i + 1]
  BY <1>2, TailFacts, Zenon
<1>5. \A i \in 1..(Len(p) - 1) : i + 1 \in 1..Len(p)
  BY <1>1
<1>6. \A i \in 1..(Len(p) - 1) : SeenPipe(Tail(p))[i] = Tail(SeenPipe(p))[i]
  BY <1>1, <1>2, <1>3, <1>4, <1>5, Zenon
<1>7. 1 \in 1..Len(p)
  BY <1>1
<1> QED
  BY <1>2, <1>3, <1>4, <1>6, <1>7, SeqSame, Zenon

\* The queue of pending Describes as a queue of portals, by index.
LEMMA SeenQueueFacts ==
  ASSUME NEW d \in Seq(Entries)
  PROVE  /\ SeenQueue(d) \in Seq(Nat) /\ Len(SeenQueue(d)) = Len(d) /\ Len(d) \in Nat
         /\ \A j \in 1..Len(d) : /\ SeenQueue(d)[j] = IF d[j].boundary THEN syncBoundary ELSE 1
                                 /\ SeenQueue(d)[j] = syncBoundary <=> d[j].boundary
         /\ SeenQueue(d) = <<>> <=> d = <<>>
         /\ {j \in 1..Len(d) : d[j].boundary} =
              {j \in 1..Len(SeenQueue(d)) : SeenQueue(d)[j] = syncBoundary}
<1>1. Len(d) \in Nat
  BY SeqLength, Zenon
<1>2. SeenQueue(d) \in Seq(Nat) /\ Len(SeenQueue(d)) = Len(d)
  BY <1>1 DEF SeenQueue, syncBoundary
<1>3. \A j \in 1..Len(d) : SeenQueue(d)[j] = IF d[j].boundary THEN syncBoundary ELSE 1
  BY Zenon DEF SeenQueue
<1>4. \A j \in 1..Len(d) : SeenQueue(d)[j] = syncBoundary <=> d[j].boundary
  BY <1>3 DEF syncBoundary
<1>5. SeenQueue(d) = <<>> <=> d = <<>>
  BY <1>2, SeqEmpty, Zenon
<1> QED
  BY <1>1, <1>2, <1>3, <1>4, <1>5, Zenon

\* An entry pushed to the queue by OnDescribe, OnSync or OnQuery.
LEMMA SeenPush ==
  ASSUME NEW d \in Seq(Entries), NEW e \in Entries
  PROVE  SeenQueue(Append(d, e)) = SeenQueue(d) \o <<IF e.boundary THEN syncBoundary ELSE 1>>
<1> DEFINE x == IF e.boundary THEN syncBoundary ELSE 1
           r == SeenQueue(d) \o <<x>>
<1>1. /\ Append(d, e) \in Seq(Entries) /\ Len(d) \in Nat /\ Len(Append(d, e)) = Len(d) + 1
      /\ \A i \in 1..Len(d) : Append(d, e)[i] = d[i]
      /\ Append(d, e)[Len(d) + 1] = e
  BY SeqLength
<1>2. /\ SeenQueue(d) \in Seq(Nat) /\ Len(SeenQueue(d)) = Len(d) /\ x \in Nat
      /\ \A j \in 1..Len(d) : SeenQueue(d)[j] = IF d[j].boundary THEN syncBoundary ELSE 1
  BY SeenQueueFacts, Zenon DEF syncBoundary
<1>3. /\ SeenQueue(Append(d, e)) \in Seq(Nat) /\ Len(SeenQueue(Append(d, e))) = Len(d) + 1
      /\ \A j \in 1..(Len(d) + 1) : SeenQueue(Append(d, e))[j] =
           IF Append(d, e)[j].boundary THEN syncBoundary ELSE 1
  BY <1>1, SeenQueueFacts, Zenon
<1>4. /\ r \in Seq(Nat) /\ Len(r) = Len(d) + 1
      /\ (\A i \in 1..Len(d) : r[i] = SeenQueue(d)[i]) /\ r[Len(d) + 1] = x
  <2> HIDE DEF x
  <2>1. <<x>> \in Seq(Nat) /\ Len(<<x>>) = 1 /\ <<x>>[1] = x
    BY <1>2
  <2>2. /\ r \in Seq(Nat) /\ Len(r) = Len(d) + 1
        /\ \A i \in 1..(Len(d) + 1) : r[i] = IF i <= Len(d) THEN SeenQueue(d)[i] ELSE <<x>>[i - Len(d)]
    BY <1>2, <2>1, SeqJoin
  <2> HIDE DEF r
  <2> QED  BY <1>1, <2>1, <2>2
<1>5. \A i \in 1..(Len(d) + 1) : SeenQueue(Append(d, e))[i] = r[i]
  <2> SUFFICES ASSUME NEW i \in 1..(Len(d) + 1) PROVE SeenQueue(Append(d, e))[i] = r[i]
    BY Zenon
  <2>1. i \in 1..Len(d) \/ i = Len(d) + 1
    BY <1>1
  <2>2. CASE i \in 1..Len(d)
    BY <1>1, <1>2, <1>3, <1>4, <2>2, Zenon
  <2>3. CASE i = Len(d) + 1
    BY <1>1, <1>3, <1>4, <2>3, Zenon
  <2> QED  BY <2>1, <2>2, <2>3, Zenon
<1> HIDE DEF r
<1>6. SeenQueue(Append(d, e)) = r
  BY <1>3, <1>4, <1>5, SeqSame, Zenon
<1> QED
  BY <1>6, Zenon DEF r

\* Entries popped from the queue.
LEMMA SeenRest ==
  ASSUME NEW d \in Seq(Entries), NEW k \in 0..Len(d)
  PROVE  SeenQueue(Rest(d, k)) = Rest(SeenQueue(d), k) /\ k \in 0..Len(SeenQueue(d))
<1>1. /\ Rest(d, k) \in Seq(Entries) /\ Len(Rest(d, k)) = Len(d) - k /\ Len(d) \in Nat
      /\ \A i \in 1..(Len(d) - k) : Rest(d, k)[i] = d[i + k]
  BY RestFacts, SeqLength, Zenon
<1>2. /\ SeenQueue(d) \in Seq(Nat) /\ Len(SeenQueue(d)) = Len(d)
      /\ \A j \in 1..Len(d) : SeenQueue(d)[j] = IF d[j].boundary THEN syncBoundary ELSE 1
  BY SeenQueueFacts, Zenon
<1>3. /\ SeenQueue(Rest(d, k)) \in Seq(Nat) /\ Len(SeenQueue(Rest(d, k))) = Len(d) - k
      /\ \A j \in 1..(Len(d) - k) : SeenQueue(Rest(d, k))[j] =
           IF Rest(d, k)[j].boundary THEN syncBoundary ELSE 1
  BY <1>1, SeenQueueFacts, Zenon
<1>4. /\ Rest(SeenQueue(d), k) \in Seq(Nat) /\ Len(Rest(SeenQueue(d), k)) = Len(d) - k
      /\ \A i \in 1..(Len(d) - k) : Rest(SeenQueue(d), k)[i] = SeenQueue(d)[i + k]
  BY <1>2, RestFacts
<1>5. \A i \in 1..(Len(d) - k) : i + k \in 1..Len(d)
  BY <1>1
<1>6. \A i \in 1..(Len(d) - k) : SeenQueue(Rest(d, k))[i] = Rest(SeenQueue(d), k)[i]
  BY <1>1, <1>2, <1>3, <1>4, <1>5, Zenon
<1> QED
  BY <1>2, <1>3, <1>4, <1>6, SeqSame, Zenon

-----------------------------------------------------------------------------
(* Which entry belongs to which Describe.                                   *)

\* The entry of a Describe that is not popped is in the queue.
LEMMA PendingIndex ==
  ASSUME NEW p \in Seq(Message), NEW d \in Seq(Entries), NEW n \in Nat,
         ContentInv(SeenPipe(p), SeenQueue(d), n), NEW i \in 1..Len(p), IsDescribe(p[i])
  PROVE  /\ p[i].dslot \in Nat /\ p[i].dslot + 1 <= n + Len(d)
         /\ p[i].dslot >= n => /\ p[i].dslot + 1 - n \in 1..Len(d)
                               /\ ~d[p[i].dslot + 1 - n].boundary
<1>1. /\ SeenPipe(p)[i] = Seen(p[i]) /\ p[i] \in Message /\ Len(SeenPipe(p)) = Len(p)
  BY SeenPipeFacts, Zenon
<1>2. /\ Seen(p[i]).slot = p[i].dslot /\ p[i].dslot \in Nat /\ Seen(p[i]).obj = 1
      /\ Seen(p[i]).type = "Execute" /\ Seen(p[i]).width = 1
      /\ Ends(Seen(p[i])) = p[i].dslot + 1
  BY <1>1, SeenFacts, Zenon
<1>3. /\ Len(SeenQueue(d)) = Len(d) /\ Len(d) \in Nat
      /\ \A j \in 1..Len(d) : SeenQueue(d)[j] = syncBoundary <=> d[j].boundary
  BY SeenQueueFacts, Zenon
<1>4. /\ p[i].dslot + 1 <= n + Len(d)
      /\ \A t \in 1..1 : p[i].dslot + t > n =>
           SeenQueue(d)[p[i].dslot + t - n] = Entry(Seen(p[i]), t)
  <2>1. /\ Ends(Seen(p[i])) <= n + Len(SeenQueue(d))
        /\ \A t \in 1..Seen(p[i]).width : Seen(p[i]).slot + t > n =>
             SeenQueue(d)[Seen(p[i]).slot + t - n] = Entry(Seen(p[i]), t)
    BY <1>1, Zenon DEF ContentInv
  <2> QED  BY <1>2, <1>3, <2>1, Zenon
<1>5. ASSUME p[i].dslot >= n
      PROVE  p[i].dslot + 1 - n \in 1..Len(d) /\ ~d[p[i].dslot + 1 - n].boundary
  <2>1. p[i].dslot + 1 - n \in 1..Len(d) /\ p[i].dslot + 1 > n /\ 1 \in 1..1
    BY <1>2, <1>3, <1>4, <1>5
  <2>2. SeenQueue(d)[p[i].dslot + 1 - n] = Entry(Seen(p[i]), 1)
    BY <1>4, <2>1, Zenon
  <2>3. Entry(Seen(p[i]), 1) # syncBoundary
    BY <1>2 DEF Entry, syncBoundary
  <2> QED  BY <1>3, <2>1, <2>2, <2>3, Zenon
<1> QED
  BY <1>2, <1>4, <1>5, Zenon

\* The entries stay those of their Describes when a message is finished,
LEMMA PendingTail ==
  ASSUME NEW p \in Seq(Message), p # <<>>, NEW d, NEW n, PendingInv(p, d, n)
  PROVE  PendingInv(Tail(p), d, n)
  BY TailFacts DEF PendingInv

\* when entries are popped,
LEMMA PendingPop ==
  ASSUME NEW p \in Seq(Message), NEW d \in Seq(Entries), NEW n \in Nat, NEW k \in 0..Len(d),
         ContentInv(SeenPipe(p), SeenQueue(d), n), PendingInv(p, d, n)
  PROVE  PendingInv(p, Rest(d, k), n + k)
<1> SUFFICES ASSUME NEW i \in 1..Len(p), IsDescribe(p[i]), p[i].dslot >= n + k
             PROVE  LET e == Rest(d, k)[p[i].dslot + 1 - (n + k)]
                    IN  IF p[i].type = "DescribeS" THEN e.stmt = p[i].obj /\ e.portal = nil
                        ELSE e.portal = p[i].obj
  BY Zenon DEF PendingInv
<1>1. p[i].dslot \in Nat /\ p[i].dslot + 1 <= n + Len(d)
  BY PendingIndex, Zenon
<1>2. Len(d) \in Nat /\ \A j \in 1..(Len(d) - k) : Rest(d, k)[j] = d[j + k]
  BY RestFacts, SeqLength, Zenon
<1>3. /\ p[i].dslot + 1 - (n + k) \in 1..(Len(d) - k) /\ p[i].dslot >= n
      /\ p[i].dslot + 1 - (n + k) + k = p[i].dslot + 1 - n
  BY <1>1, <1>2
<1>4. Rest(d, k)[p[i].dslot + 1 - (n + k)] = d[p[i].dslot + 1 - n]
  BY <1>2, <1>3, Zenon
<1> QED
  BY <1>3, <1>4, Zenon DEF PendingInv

\* when an entry is pushed,
LEMMA PendingPush ==
  ASSUME NEW p \in Seq(Message), NEW d \in Seq(Entries), NEW n \in Nat, NEW e \in Entries,
         ContentInv(SeenPipe(p), SeenQueue(d), n), PendingInv(p, d, n)
  PROVE  PendingInv(p, Append(d, e), n)
<1> SUFFICES ASSUME NEW i \in 1..Len(p), IsDescribe(p[i]), p[i].dslot >= n
             PROVE  LET x == Append(d, e)[p[i].dslot + 1 - n]
                    IN  IF p[i].type = "DescribeS" THEN x.stmt = p[i].obj /\ x.portal = nil
                        ELSE x.portal = p[i].obj
  BY Zenon DEF PendingInv
<1>1. p[i].dslot + 1 - n \in 1..Len(d)
  BY PendingIndex, Zenon
<1>2. Append(d, e)[p[i].dslot + 1 - n] = d[p[i].dslot + 1 - n]
  BY <1>1
<1> QED
  BY <1>2, Zenon DEF PendingInv

\* The message that is appended is about its own entry.
LEMMA PendingAppend ==
  ASSUME NEW p \in Seq(Message), NEW m \in Message, NEW d, NEW n, PendingInv(p, d, n),
         IsDescribe(m) => LET x == d[m.dslot + 1 - n]
                          IN  IF m.type = "DescribeS" THEN x.stmt = m.obj /\ x.portal = nil
                              ELSE x.portal = m.obj
  PROVE  PendingInv(Append(p, m), d, n)
<1>1. /\ Len(p) \in Nat /\ Len(Append(p, m)) = Len(p) + 1
      /\ \A i \in 1..Len(p) : Append(p, m)[i] = p[i]
      /\ Append(p, m)[Len(p) + 1] = m
  BY AppendFacts, Zenon
<1>2. \A i \in 1..(Len(p) + 1) : i \in 1..Len(p) \/ i = Len(p) + 1
  BY <1>1
<1> QED
  BY <1>1, <1>2, Zenon DEF PendingInv

\* and when the client goes before a message is sent.
LEMMA PendingDropped ==
  ASSUME NEW p \in Seq(Message), NEW m \in Message, NEW d, NEW n, PendingInv(Append(p, m), d, n)
  PROVE  PendingInv(p, d, n)
<1>1. /\ Len(p) \in Nat /\ Len(Append(p, m)) = Len(p) + 1
      /\ \A i \in 1..Len(p) : Append(p, m)[i] = p[i]
  BY AppendFacts, Zenon
<1>2. \A i \in 1..Len(p) : i \in 1..(Len(p) + 1)
  BY <1>1
<1> QED
  BY <1>1, <1>2, Zenon DEF PendingInv

-----------------------------------------------------------------------------
(* Frontend steps.                                                          *)

\* The queue of pending Describes is a sequence of entries.
LEMMA DescType ==
  ASSUME TypeOK
  PROVE  describes \in Seq(Entries) /\ descPopped \in Nat /\ Len(describes) \in Nat
<1>1. /\ Len(stmt) \in Nat /\ Len(portal) \in Nat /\ descPopped \in Nat
      /\ describes \in Seq([boundary : BOOLEAN, stmt : 0..Len(stmt), portal : 0..Len(portal)])
  BY Lengths, Zenon DEF TypeOK
<1>2. 0..Len(stmt) \subseteq Nat /\ 0..Len(portal) \subseteq Nat
  BY <1>1
<1>3. [boundary : BOOLEAN, stmt : 0..Len(stmt), portal : 0..Len(portal)] \subseteq Entries
  BY <1>2, Zenon DEF Entries
<1> QED
  BY <1>1, <1>3, SeqWider, SeqLength, Zenon

\* Observing a message that has no entry.
LEMMA DescSilent ==
  ASSUME IInv, DescInv, NEW m \in Message, fpump = "recv", Observed(m), bstate # "startup",
         UNCHANGED <<c2b, describes, descPopped, backendVars>>,
         m.dslot = descPopped + Len(describes), Extended(m), ~IsDescribe(m)
  PROVE  DescInv'
<1> DEFINE p == SeenPipe(pipe)
           q == SeenQueue(describes)
           n == descPopped
<1>1. TypeOK
  BY Zenon DEF IInv
<1>2. pipe' = Append(pipe, m) /\ up /\ up' /\ pipe \in Seq(Message)
  BY <1>1, PipeAppend, PipeType, Zenon
<1>3. describes \in Seq(Entries) /\ n \in Nat /\ UNCHANGED <<describes, descPopped, bstate>>
  BY <1>1, DescType, Zenon DEF backendVars
<1>4. /\ Seen(m) \in Message /\ Widths(Seen(m)) /\ Seen(m).width = 0 /\ Seen(m).slot = m.dslot
  BY SeenFacts, Zenon
<1>5. p \in Seq(Message) /\ q \in Seq(Nat) /\ Len(q) = Len(describes) /\ Len(q) \in Nat
  BY <1>2, <1>3, SeenPipeFacts, SeenQueueFacts, Zenon
<1>6. /\ ChainInv(p) /\ ContentInv(p, q, n) /\ TopInv(p, q, n)
      /\ BaseInv(p, q, n, bstate, 0, TRUE) /\ PendingInv(pipe, describes, n)
  BY <1>2, BaseUp, Zenon DEF DescInv
<1>7. bstate = "failed" => p # <<>>
  BY <1>2, SeenPipeFacts, ProgressFacts, Zenon
<1>8. PendingInv(pipe', describes, n)
  BY <1>2, <1>6, PendingAppend, Zenon
<1>9. SeenPipe(pipe') = Append(p, Seen(m))
  BY <1>2, SeenAppend, Zenon
<1>10. q \o <<>> = q /\ <<>> \in Seq(Nat) /\ Len(<<>>) = 0
  BY <1>5, SeqJoinEmpty
<1> HIDE DEF p, q
<1>11. ChainInv(Append(p, Seen(m)))
  BY <1>3, <1>4, <1>5, <1>6, ChainAppend, Zenon
<1>12. ContentInv(Append(p, Seen(m)), q, n) /\ TopInv(Append(p, Seen(m)), q, n)
  <2>1. \A t \in 1..Seen(m).width : <<>>[t] = Entry(Seen(m), t)
    BY <1>4
  <2>2. /\ ContentInv(Append(p, Seen(m)), q \o <<>>, n)
        /\ TopInv(Append(p, Seen(m)), q \o <<>>, n)
    BY <1>3, <1>4, <1>5, <1>6, <1>10, <2>1, ContentAppend, Zenon
  <2> QED  BY <1>10, <2>2, Zenon
<1>13. BaseInv(Append(p, Seen(m)), q, n, bstate, 0, TRUE)
  <2>1. BaseInv(Append(p, Seen(m)), q \o <<>>, n, bstate, 0, TRUE)
    BY <1>3, <1>4, <1>5, <1>6, <1>7, <1>10, BaseAppend, Zenon
  <2> QED  BY <1>10, <2>1, Zenon
<1>14. BaseInv(SeenPipe(pipe'), SeenQueue(describes'), descPopped', bstate', 0, up')
  BY <1>2, <1>3, <1>9, <1>13, Zenon DEF q, BaseInv, IdleInv, DeadInv
<1> QED
  BY <1>2, <1>3, <1>8, <1>9, <1>11, <1>12, <1>14, Zenon DEF DescInv, q

\* Observing a Describe, a Sync or a simple query.
LEMMA DescPush ==
  ASSUME IInv, DescInv, NEW m \in Message, NEW e \in Entries,
         fpump = "recv", Observed(m), bstate # "startup",
         UNCHANGED <<c2b, descPopped, backendVars>>, describes' = Append(describes, e),
         m.dslot = descPopped + Len(describes),
         (~Extended(m) /\ e.boundary) \/ (IsDescribe(m) /\ ~e.boundary),
         m.type = "DescribeS" => e.stmt = m.obj /\ e.portal = nil,
         m.type = "DescribeP" => e.portal = m.obj
  PROVE  DescInv'
<1> DEFINE p == SeenPipe(pipe)
           q == SeenQueue(describes)
           n == descPopped
           x == <<IF e.boundary THEN syncBoundary ELSE 1>>
<1>1. TypeOK
  BY Zenon DEF IInv
<1>2. pipe' = Append(pipe, m) /\ up /\ up' /\ pipe \in Seq(Message)
  BY <1>1, PipeAppend, PipeType, Zenon
<1>3. describes \in Seq(Entries) /\ n \in Nat /\ UNCHANGED <<descPopped, bstate>> /\ Len(describes) \in Nat
  BY <1>1, DescType, Zenon DEF backendVars
<1>4. /\ Seen(m) \in Message /\ Widths(Seen(m)) /\ Seen(m).width = 1 /\ Seen(m).slot = m.dslot
      /\ Seen(m).obj = 1 /\ Seen(m).type = IF e.boundary THEN "Sync" ELSE "Execute"
  BY SeenFacts, Zenon DEF Extended, IsDescribe
<1>5. p \in Seq(Message) /\ q \in Seq(Nat) /\ Len(q) = Len(describes) /\ Len(q) \in Nat
  BY <1>2, <1>3, SeenPipeFacts, SeenQueueFacts, Zenon
<1>6. /\ ChainInv(p) /\ ContentInv(p, q, n) /\ TopInv(p, q, n)
      /\ BaseInv(p, q, n, bstate, 0, TRUE) /\ PendingInv(pipe, describes, n)
  BY <1>2, BaseUp, Zenon DEF DescInv
<1>7. bstate = "failed" => p # <<>>
  BY <1>2, SeenPipeFacts, ProgressFacts, Zenon
<1>8. PendingInv(pipe', describes', n)
  <2>1. PendingInv(pipe, describes', n)
    BY <1>2, <1>3, <1>6, PendingPush, Zenon
  <2>2. describes'[m.dslot + 1 - n] = e
    <3>1. m.dslot + 1 - n = Len(describes) + 1
      BY <1>3
    <3>2. Append(describes, e)[Len(describes) + 1] = e
      BY <1>3
    <3> QED  BY <3>1, <3>2, Zenon
  <2> QED  BY <1>2, <2>1, <2>2, PendingAppend, Zenon DEF IsDescribe
<1>9. SeenPipe(pipe') = Append(p, Seen(m)) /\ SeenQueue(describes') = q \o x
  BY <1>2, <1>3, SeenAppend, SeenPush, Zenon
<1>10. x \in Seq(Nat) /\ Len(x) = 1 /\ x[1] = IF e.boundary THEN syncBoundary ELSE 1
  BY DEF syncBoundary
<1> HIDE DEF p, q, x
<1>11. ChainInv(Append(p, Seen(m)))
  BY <1>3, <1>4, <1>5, <1>6, ChainAppend, Zenon
<1>12. ContentInv(Append(p, Seen(m)), q \o x, n) /\ TopInv(Append(p, Seen(m)), q \o x, n)
  <2>1. \A t \in 1..Seen(m).width : x[t] = Entry(Seen(m), t)
    <3>1. Entry(Seen(m), 1) = IF e.boundary THEN syncBoundary ELSE 1
      BY <1>4, Zenon DEF Entry
    <3>2. \A t \in 1..Seen(m).width : t = 1
      BY <1>4
    <3> QED  BY <1>10, <3>1, <3>2, Zenon
  <2> QED  BY <1>3, <1>4, <1>5, <1>6, <1>10, <2>1, ContentAppend, Zenon
<1>13. BaseInv(Append(p, Seen(m)), q \o x, n, bstate, 0, TRUE)
  BY <1>3, <1>4, <1>5, <1>6, <1>7, <1>10, BaseAppend, Zenon
<1>14. BaseInv(SeenPipe(pipe'), SeenQueue(describes'), descPopped', bstate', 0, up')
  BY <1>2, <1>3, <1>9, <1>13, Zenon DEF BaseInv, IdleInv, DeadInv
<1> QED
  BY <1>2, <1>3, <1>8, <1>9, <1>11, <1>12, <1>14, Zenon DEF DescInv

\* The frontend pump returns before it sends a message.
LEMMA DescEnds ==
  ASSUME IInv, DescInv, fpump = "recv", FrontendEnds,
         UNCHANGED <<c2b, describes, descPopped, backendVars>>
  PROVE  DescInv'
<1>1. pipe' = pipe /\ up /\ ~up' /\ UNCHANGED bstate
  BY Zenon DEF FrontendEnds, pipe, up, backendVars
<1> QED
  BY <1>1, Zenon DEF DescInv, BaseInv, IdleInv, DeadInv

\* Parse, Bind, Execute and Close have no entry.
LEMMA DescNoEntry ==
  ASSUME IInv, DescInv, Next, fpump = "recv", bstate # "startup",
         UNCHANGED <<c2b, describes, descPopped, backendVars>>,
         Observed(fmsg'), fmsg'.dslot = descPopped + Len(describes),
         fmsg'.type \in {"Parse", "Bind", "Execute", "CloseS", "CloseP"}
  PROVE  DescInv'
<1>1. TypeOK'
  BY NextType, Zenon DEF IInv
<1>2. fmsg' \in Message
  BY <1>1, Zenon DEF TypeOK
<1> QED
  BY <1>2, DescSilent, Zenon DEF Extended, IsDescribe

\* OnParse pushes no entry.
LEMMA DescParse ==
  ASSUME IInv, DescInv, NEW s \in StmtNames, NEW q \in Queries, OnParse(s, q)
  PROVE  DescInv'
<1>1. Next
  BY Zenon DEF Next, Frontend
<1>2. CASE q \notin Rejected
  BY <1>1, <1>2, DescNoEntry DEF OnParse, MaySend, Observed, Msg
<1>3. CASE q \in Rejected
  BY <1>3, DescEnds, Zenon DEF OnParse, MaySend
<1> QED
  BY <1>2, <1>3, Zenon

\* Neither do OnBind, OnExecute and the Closes.
LEMMA DescSilentSteps ==
  ASSUME IInv, DescInv, NEW s \in StmtNames, NEW p \in PortalNames,
         OnBind(s, p) \/ OnBindFails(s, p) \/ OnExecute(p) \/ OnCloseS(s) \/ OnCloseP(p)
  PROVE  DescInv'
<1>1. Next
  BY Zenon DEF Next, Frontend
<1>2. CASE OnBind(s, p)
  BY <1>1, <1>2, DescNoEntry, Zenon DEF OnBind, MaySend, Observed, Msg
<1>3. CASE OnBindFails(s, p)
  BY <1>3, DescEnds, Zenon DEF OnBindFails, MaySend
<1>4. CASE OnExecute(p)
  BY <1>1, <1>4, DescNoEntry, Zenon DEF OnExecute, MaySend, Observed, Msg
<1>5. CASE OnCloseS(s)
  BY <1>1, <1>5, DescNoEntry, Zenon DEF OnCloseS, MaySend, Observed, Msg
<1>6. CASE OnCloseP(p)
  BY <1>1, <1>6, DescNoEntry, Zenon DEF OnCloseP, MaySend, Observed, Msg
<1> QED
  BY <1>2, <1>3, <1>4, <1>5, <1>6, Zenon

\* Describe, Sync and simple queries.
LEMMA DescPushSteps ==
  ASSUME IInv, DescInv, NEW s \in StmtNames, NEW p \in PortalNames,
         OnDescribeS(s) \/ OnDescribeP(p) \/ OnSync \/ \E t \in SimpleTexts : OnQuery(t)
  PROVE  DescInv'
<1>1. TypeOK /\ TypeOK'
  <2>1. Next
    BY Zenon DEF Next, Frontend
  <2> QED  BY <2>1, NextType, Zenon DEF IInv
<1>2. /\ fmsg' \in Message /\ boundaryEntry \in Entries /\ Len(stmt) \in Nat /\ Len(portal) \in Nat
      /\ statements[s] \in 0..Len(stmt) /\ portals[p] \in 0..Len(portal)
  <2>1. /\ fmsg' \in Message /\ statements \in [StmtNames -> 0..Len(stmt)]
        /\ portals \in [PortalNames -> 0..Len(portal)]
    BY <1>1, Zenon DEF TypeOK
  <2>2. Len(stmt) \in Nat /\ Len(portal) \in Nat
    BY <1>1, Lengths, Zenon
  <2>3. boundaryEntry \in Entries
    BY DEF Entries, boundaryEntry, nil
  <2> QED  BY <2>1, <2>2, <2>3, Zenon
<1>3. ASSUME NEW e \in Entries, fpump = "recv", bstate # "startup", Observed(fmsg'),
             UNCHANGED <<c2b, descPopped, backendVars>>, describes' = Append(describes, e),
             fmsg'.dslot = descPopped + Len(describes),
             \/ fmsg'.type \in {"Sync", "Query"} /\ e.boundary
             \/ fmsg'.type = "DescribeS" /\ ~e.boundary /\ e.stmt = fmsg'.obj /\ e.portal = nil
             \/ fmsg'.type = "DescribeP" /\ ~e.boundary /\ e.portal = fmsg'.obj
      PROVE  DescInv'
  <2> DEFINE m == fmsg'
  <2>1. /\ m \in Message /\ Observed(m) /\ m.dslot = descPopped + Len(describes)
        /\ \/ m.type \in {"Sync", "Query"} /\ e.boundary
           \/ m.type = "DescribeS" /\ ~e.boundary /\ e.stmt = m.obj /\ e.portal = nil
           \/ m.type = "DescribeP" /\ ~e.boundary /\ e.portal = m.obj
    BY <1>2, <1>3, Zenon
  <2> HIDE DEF m
  <2>2. (~Extended(m) /\ e.boundary) \/ (IsDescribe(m) /\ ~e.boundary)
    BY <2>1, Zenon DEF Extended, IsDescribe
  <2>3. /\ m.type = "DescribeS" => e.stmt = m.obj /\ e.portal = nil
        /\ m.type = "DescribeP" => e.portal = m.obj
    BY <2>1, Zenon
  <2> QED  BY <1>3, <2>1, <2>2, <2>3, DescPush, Zenon
<1>4. CASE OnDescribeS(s)
  <2> DEFINE e == [boundary |-> FALSE, stmt |-> statements[s], portal |-> nil]
  <2>1. e \in Entries
    BY <1>2 DEF Entries, nil
  <2>2. ~e.boundary /\ e.stmt = statements[s] /\ e.portal = nil /\ describes' = Append(describes, e)
    BY <1>4, Zenon DEF OnDescribeS
  <2>3. /\ fpump = "recv" /\ bstate # "startup" /\ UNCHANGED <<c2b, descPopped, backendVars>>
        /\ fmsg' = Msg("DescribeS", s, Unnamed, statements[s], <<>>, 0) /\ Observed(fmsg')
    BY <1>4, Zenon DEF OnDescribeS, MaySend, Observed
  <2> HIDE DEF e
  <2> QED  BY <1>3, <2>1, <2>2, <2>3, Zenon DEF Msg
<1>5. CASE OnDescribeP(p)
  <2> DEFINE e == [boundary |-> FALSE, portal |-> portals[p],
                   stmt |-> IF portals[p] = nil THEN nil ELSE portal[portals[p]].stmt]
  <2>1. e \in Entries
    <3>1. portals[p] # nil => portal[portals[p]].stmt \in Nat
      BY <1>1, <1>2, PortalStmt DEF nil
    <3> QED  BY <1>2, <3>1 DEF Entries, nil
  <2>2. ~e.boundary /\ e.portal = portals[p] /\ describes' = Append(describes, e)
    BY <1>5, Zenon DEF OnDescribeP
  <2>3. /\ fpump = "recv" /\ bstate # "startup" /\ UNCHANGED <<c2b, descPopped, backendVars>>
        /\ fmsg' = Msg("DescribeP", Unnamed, p, portals[p], <<>>, 0) /\ Observed(fmsg')
    BY <1>5, Zenon DEF OnDescribeP, MaySend, Observed
  <2> HIDE DEF e
  <2> QED  BY <1>3, <2>1, <2>2, <2>3, Zenon DEF Msg
<1>6. CASE OnSync
  <2>1. /\ fpump = "recv" /\ bstate # "startup" /\ UNCHANGED <<c2b, descPopped, backendVars>>
        /\ fmsg' = Msg("Sync", Unnamed, Unnamed, nil, <<>>, 1) /\ Observed(fmsg')
        /\ describes' = Append(describes, boundaryEntry)
    BY <1>6, Zenon DEF OnSync, MaySend, Observed
  <2>2. boundaryEntry.boundary
    BY Zenon DEF boundaryEntry
  <2> QED  BY <1>2, <1>3, <2>1, <2>2, Zenon DEF Msg
<1>7. ASSUME NEW t \in SimpleTexts, OnQuery(t) PROVE DescInv'
  <2>1. fpump = "recv" /\ bstate # "startup" /\ UNCHANGED <<c2b, descPopped, backendVars>>
    BY <1>7, Zenon DEF OnQuery, MaySend
  <2>2. \/ FrontendEnds /\ UNCHANGED describes
        \/ /\ Observed(Msg("Query", Unnamed, Unnamed, Len(portal) + 1, t, Len(t) + 1))
           /\ describes' = Append(describes, boundaryEntry)
    BY <1>7, Zenon DEF OnQuery
  <2>3. CASE FrontendEnds /\ UNCHANGED describes
    BY <2>1, <2>3, DescEnds, Zenon
  <2>4. CASE /\ Observed(Msg("Query", Unnamed, Unnamed, Len(portal) + 1, t, Len(t) + 1))
             /\ describes' = Append(describes, boundaryEntry)
    <3>1. fmsg' = Msg("Query", Unnamed, Unnamed, Len(portal) + 1, t, Len(t) + 1) /\ Observed(fmsg')
      BY <2>4, Zenon DEF Observed
    <3>2. boundaryEntry.boundary
      BY Zenon DEF boundaryEntry
    <3> QED  BY <1>2, <1>3, <2>1, <2>4, <3>1, <3>2, Zenon DEF Msg
  <2> QED  BY <2>2, <2>3, <2>4, Zenon
<1> QED
  BY <1>4, <1>5, <1>6, <1>7, Zenon

\* Sending a message, and losing the client.
LEMMA DescPumpSteps ==
  ASSUME IInv, DescInv, Send \/ ClientGone
  PROVE  DescInv'
<1>1. TypeOK /\ ProgressInv /\ c2b \in Seq(Message) /\ fmsg \in Message
  BY Zenon DEF IInv, ExecInv, TypeOK
<1>2. UNCHANGED <<describes, descPopped, bstate>>
  BY Zenon DEF Send, ClientGone, sessionVars, backendVars
<1>3. CASE Send
  <2>1. pipe' = pipe /\ up /\ up'
    BY <1>3, Zenon DEF Send, pipe, up
  <2> QED  BY <1>2, <2>1, Zenon DEF DescInv, BaseInv, IdleInv, DeadInv
<1>4. CASE ClientGone
  <2>1. pipe' = c2b /\ up /\ ~up'
    BY <1>4, Zenon DEF ClientGone, pipe, up
  <2>2. CASE fpump = "send"
    <3> DEFINE q == SeenQueue(describes)
    <3>1. pipe = Append(c2b, fmsg)
      BY <2>2, Zenon DEF pipe
    <3>2. /\ SeenPipe(pipe) = Append(SeenPipe(c2b), Seen(fmsg))
          /\ SeenPipe(c2b) \in Seq(Message) /\ Seen(fmsg) \in Message
          /\ bstate = "failed" => SeenPipe(c2b) # <<>>
      BY <1>1, <3>1, SeenAppend, SeenPipeFacts, SeenFacts DEF ProgressInv
    <3>3. /\ ChainInv(SeenPipe(pipe)) /\ ContentInv(SeenPipe(pipe), q, descPopped)
          /\ BaseInv(SeenPipe(pipe), q, descPopped, bstate, 0, TRUE)
          /\ PendingInv(pipe, describes, descPopped)
      BY <2>1, BaseUp, Zenon DEF DescInv
    <3>4. PendingInv(c2b, describes, descPopped)
      BY <1>1, <3>1, <3>3, PendingDropped, Zenon
    <3> HIDE DEF q
    <3>5. /\ ChainInv(SeenPipe(c2b)) /\ ContentInv(SeenPipe(c2b), q, descPopped)
          /\ BaseInv(SeenPipe(c2b), q, descPopped, bstate, 0, FALSE)
      <4> DEFINE r == SeenPipe(c2b)
      <4>1. /\ ChainInv(Append(r, Seen(fmsg))) /\ ContentInv(Append(r, Seen(fmsg)), q, descPopped)
            /\ BaseInv(Append(r, Seen(fmsg)), q, descPopped, bstate, 0, TRUE)
        BY <3>2, <3>3, Zenon
      <4> HIDE DEF r
      <4> QED  BY <3>2, <4>1, DroppedSlots, Zenon DEF r
    <3>6. BaseInv(SeenPipe(pipe'), SeenQueue(describes'), descPopped', bstate', 0, up')
      BY <1>2, <2>1, <3>5, Zenon DEF BaseInv, IdleInv, DeadInv, q
    <3> QED  BY <1>2, <2>1, <3>4, <3>5, <3>6, Zenon DEF DescInv, q
  <2>3. CASE fpump # "send"
    <3>1. pipe' = pipe
      BY <2>1, <2>3, Zenon DEF pipe
    <3> QED  BY <1>2, <2>1, <3>1, Zenon DEF DescInv, BaseInv, IdleInv, DeadInv
  <2> QED  BY <2>2, <2>3, Zenon
<1> QED
  BY <1>3, <1>4, Zenon

\* Every step of the client's pump keeps the queue aligned.
LEMMA DescFrontend ==
  ASSUME IInv, DescInv, Frontend
  PROVE  DescInv'
<1>1. ASSUME NEW s \in StmtNames, NEW q \in Queries, OnParse(s, q) PROVE DescInv'
  BY <1>1, DescParse, Zenon
<1>2. ASSUME NEW s \in StmtNames, NEW p \in PortalNames, OnBind(s, p) \/ OnBindFails(s, p)
      PROVE  DescInv'
  BY <1>2, DescSilentSteps, Zenon
<1>3. ASSUME NEW p \in PortalNames, OnExecute(p) \/ OnDescribeP(p) \/ OnCloseP(p) PROVE DescInv'
  BY <1>3, DescSilentSteps, DescPushSteps, NamesAssumption, Zenon
<1>4. ASSUME NEW s \in StmtNames, OnDescribeS(s) \/ OnCloseS(s) PROVE DescInv'
  BY <1>4, DescSilentSteps, DescPushSteps, NamesAssumption, Zenon
<1>5. CASE OnSync \/ \E t \in SimpleTexts : OnQuery(t)
  BY <1>5, DescPushSteps, NamesAssumption, Zenon
<1> QED
  BY <1>1, <1>2, <1>3, <1>4, <1>5, DescPumpSteps, Zenon DEF Frontend

-----------------------------------------------------------------------------
(* Backend steps.                                                           *)

\* What the invariant says of the head of the pipe.
LEMMA DescHead ==
  ASSUME IInv, DescInv, c2b # <<>>
  PROVE  /\ pipe \in Seq(Message) /\ pipe # <<>> /\ pipe[1] = cur /\ cur \in Message
         /\ SeenPipe(pipe) \in Seq(Message) /\ SeenPipe(pipe) # <<>>
         /\ SeenPipe(pipe)[1] = Seen(cur) /\ 1 \in 1..Len(SeenPipe(pipe))
         /\ describes \in Seq(Entries) /\ descPopped \in Nat
         /\ SeenQueue(describes) \in Seq(Nat) /\ Len(SeenQueue(describes)) = Len(describes)
         /\ Len(describes) \in Nat /\ Seen(cur).slot = cur.dslot /\ cur.dslot \in Nat
         /\ Ends(Seen(cur)) = cur.dslot + Seen(cur).width
         /\ Ends(Seen(cur)) <= descPopped + Len(describes)
         /\ bstate = "idle" => descPopped = cur.dslot
         /\ cur.type \in {"Sync", "Query"} => Seen(cur).type = "Sync" /\ Seen(cur).width = 1
<1>1. TypeOK
  BY Zenon DEF IInv
<1>2. pipe \in Seq(Message) /\ pipe # <<>> /\ pipe[1] = cur /\ cur \in Message
  BY <1>1, PipeType, Zenon
<1>3. /\ SeenPipe(pipe) \in Seq(Message) /\ SeenPipe(pipe) # <<>> /\ SeenPipe(pipe)[1] = Seen(cur)
  BY <1>2, SeenPipeFacts, SeenTail, Zenon
<1>4. 1 \in 1..Len(SeenPipe(pipe))
  BY <1>3, TailFacts
<1>5. /\ describes \in Seq(Entries) /\ descPopped \in Nat
      /\ SeenQueue(describes) \in Seq(Nat) /\ Len(SeenQueue(describes)) = Len(describes)
      /\ Len(describes) \in Nat
  BY <1>1, DescType, SeenQueueFacts, Zenon
<1>6. /\ Seen(cur).slot = cur.dslot /\ cur.dslot \in Nat
      /\ Ends(Seen(cur)) = cur.dslot + Seen(cur).width
      /\ cur.type \in {"Sync", "Query"} => Seen(cur).type = "Sync" /\ Seen(cur).width = 1
  BY <1>2, SeenFacts, Zenon DEF Extended
<1>7. Ends(Seen(cur)) <= descPopped + Len(describes)
  BY <1>3, <1>4, <1>5, Zenon DEF DescInv, ContentInv
<1>8. bstate = "idle" => descPopped = cur.dslot
  BY <1>3, <1>6 DEF DescInv, BaseInv, IdleInv
<1> QED
  BY <1>2, <1>3, <1>4, <1>5, <1>6, <1>7, <1>8, Zenon

\* The backend finishes the head of the pipe while k entries are popped.
LEMMA DescFinish ==
  ASSUME IInv, DescInv, c2b # <<>>, Finished, UNCHANGED <<pumpVars>>,
         NEW k \in 0..Len(describes), PopDescribe(k), bstate' \in {"idle", "skip"},
         BaseInv(Tail(SeenPipe(pipe)), Rest(SeenQueue(describes), k), descPopped + k, bstate', 0, up)
  PROVE  DescInv'
<1> DEFINE p == SeenPipe(pipe)
           q == SeenQueue(describes)
           n == descPopped
<1>1. TypeOK /\ UNCHANGED <<fpump, fmsg>>
  BY DEF IInv, pumpVars
<1>2. pipe' = Tail(pipe) /\ (up' <=> up)
  BY <1>1, PipeTail, Zenon DEF Finished, up
<1>3. /\ pipe \in Seq(Message) /\ pipe # <<>> /\ p \in Seq(Message) /\ p # <<>>
      /\ describes \in Seq(Entries) /\ n \in Nat /\ q \in Seq(Nat)
  BY DescHead, Zenon
<1>4. SeenPipe(pipe') = Tail(p) /\ Tail(pipe) \in Seq(Message) /\ Tail(p) \in Seq(Message)
  BY <1>2, <1>3, SeenTail, TailFacts, Zenon
<1>5. /\ describes' = Rest(describes, k) /\ descPopped' = n + k
      /\ SeenQueue(describes') = Rest(q, k) /\ k \in 0..Len(q)
  BY <1>3, SeenRest, Zenon DEF PopDescribe
<1>6. /\ ChainInv(p) /\ ContentInv(p, q, n) /\ (up => TopInv(p, q, n))
      /\ PendingInv(pipe, describes, n)
  BY Zenon DEF DescInv
<1>7. PendingInv(pipe', describes', descPopped')
  <2>1. PendingInv(Tail(pipe), describes, n)
    BY <1>3, <1>6, PendingTail, Zenon
  <2>2. ContentInv(SeenPipe(Tail(pipe)), q, n)
    BY <1>2, <1>3, <1>4, <1>6, ContentTail, Zenon
  <2> QED  BY <1>2, <1>3, <1>4, <1>5, <2>1, <2>2, PendingPop, Zenon
<1>8. BaseInv(SeenPipe(pipe'), SeenQueue(describes'), descPopped', bstate', 0, up')
  BY <1>2, <1>4, <1>5, Zenon DEF BaseInv, IdleInv, DeadInv
<1> HIDE DEF p, q
<1>9. /\ ChainInv(Tail(p)) /\ ContentInv(Tail(p), q, n) /\ (up => TopInv(Tail(p), q, n))
  BY <1>3, <1>6, ChainTail, ContentTail, TopTail, Zenon
<1>10. ContentInv(Tail(p), Rest(q, k), n + k) /\ (up => TopInv(Tail(p), Rest(q, k), n + k))
  BY <1>3, <1>4, <1>5, <1>9, ContentPop, Zenon
<1> QED
  BY <1>2, <1>4, <1>5, <1>7, <1>8, <1>9, <1>10, Zenon DEF DescInv

\* A step that pops nothing.
LEMMA DescPopNothing ==
  ASSUME TypeOK, UNCHANGED <<describes, descPopped>>
  PROVE  PopDescribe(0) /\ 0 \in 0..Len(describes)
<1>1. describes \in Seq(Entries) /\ Len(describes) \in Nat /\ descPopped \in Nat
  BY DescType
<1>2. Rest(describes, 0) = describes
  BY <1>1, SubSeqAll DEF Rest
<1> QED
  BY <1>1, <1>2 DEF PopDescribe

\* A message is answered and its entry, if it has one, is popped.
LEMMA DescAnswer ==
  ASSUME IInv, DescInv, c2b # <<>>, Finished, UNCHANGED <<pumpVars>>, bstate' = "idle",
         NEW k \in 0..Len(describes), PopDescribe(k), descPopped + k = Ends(Seen(cur))
  PROVE  DescInv'
<1> DEFINE p == SeenPipe(pipe)
           q == SeenQueue(describes)
<1>1. /\ p \in Seq(Message) /\ p # <<>> /\ p[1] = Seen(cur) /\ q \in Seq(Nat)
      /\ descPopped \in Nat /\ k \in 0..Len(q)
      /\ ChainInv(p) /\ (up => TopInv(p, q, descPopped))
  BY DescHead, Zenon DEF DescInv
<1> HIDE DEF p, q
<1>2. IdleInv(Tail(p), Rest(q, k), descPopped + k, 0, up)
  <2> HIDE DEF up
  <2> QED  BY <1>1, IdleTail, Zenon
<1>3. BaseInv(Tail(p), Rest(q, k), descPopped + k, bstate', 0, up)
  BY <1>2, Zenon DEF BaseInv
<1> QED
  BY <1>3, DescFinish, Zenon DEF p, q

\* The entries of the head of the pipe, while the backend works on it.
LEMMA DescFirst ==
  ASSUME IInv, DescInv, c2b # <<>>, bstate = "idle", ~Extended(cur) \/ IsDescribe(cur)
  PROVE  /\ 1 \in 1..Len(describes) /\ describes # <<>> /\ Head(describes) = describes[1]
         /\ Ends(Seen(cur)) = descPopped + 1 /\ 1 \in 0..Len(describes)
         /\ Head(describes).boundary <=> ~Extended(cur)
<1> DEFINE q == SeenQueue(describes)
<1>1. /\ pipe[1] = cur /\ cur \in Message
      /\ SeenPipe(pipe)[1] = Seen(cur) /\ 1 \in 1..Len(SeenPipe(pipe))
      /\ describes \in Seq(Entries) /\ descPopped \in Nat /\ Len(q) = Len(describes)
      /\ Len(describes) \in Nat /\ Seen(cur).slot = cur.dslot /\ cur.dslot \in Nat
      /\ Ends(Seen(cur)) = cur.dslot + Seen(cur).width
      /\ Ends(Seen(cur)) <= descPopped + Len(describes) /\ descPopped = cur.dslot
  BY DescHead
<1>2. /\ Seen(cur).width = 1 /\ Seen(cur).obj = 1
      /\ Seen(cur).type = IF Extended(cur) THEN "Execute" ELSE "Sync"
  BY <1>1, SeenFacts, Zenon DEF Extended, IsDescribe
<1>3. Ends(Seen(cur)) = descPopped + 1 /\ 1 \in 1..Len(describes) /\ 1 \in 0..Len(describes)
  BY <1>1, <1>2
<1>4. \A t \in 1..Seen(cur).width : Seen(cur).slot + t > descPopped =>
        q[Seen(cur).slot + t - descPopped] = Entry(Seen(cur), t)
  BY <1>1, Zenon DEF DescInv, ContentInv
<1>5. q[1] = Entry(Seen(cur), 1)
  <2>1. /\ 1 \in 1..Seen(cur).width /\ Seen(cur).slot + 1 > descPopped
        /\ Seen(cur).slot + 1 - descPopped = 1
    BY <1>1, <1>2
  <2> HIDE DEF q
  <2> QED  BY <1>4, <2>1, Zenon
<1>6. Entry(Seen(cur), 1) = syncBoundary <=> ~Extended(cur)
  BY <1>2 DEF Entry, syncBoundary
<1>7. q[1] = syncBoundary <=> describes[1].boundary
  BY <1>1, <1>3, SeenQueueFacts, Zenon
<1>8. describes # <<>> /\ Head(describes) = describes[1]
  BY <1>1, <1>3, SeqEmpty
<1> QED
  BY <1>3, <1>5, <1>6, <1>7, <1>8, Zenon

\* The head of the queue is the entry of the Describe the backend answers.
LEMMA DescribeFacts ==
  ASSUME IInv, DescInv, Working({"DescribeS", "DescribeP"})
  PROVE  /\ DescribePending /\ 1 \in 0..Len(describes) /\ Ends(Seen(cur)) = descPopped + 1
         /\ cur.type = "DescribeS" => Head(describes).stmt = cur.obj /\ Head(describes).portal = nil
         /\ cur.type = "DescribeP" => Head(describes).portal = cur.obj
<1>1. c2b # <<>> /\ bstate = "idle" /\ IsDescribe(cur) /\ Extended(cur)
  BY Zenon DEF Working, IsDescribe, Extended
<1>2. /\ 1 \in 1..Len(describes) /\ describes # <<>> /\ Head(describes) = describes[1]
      /\ Ends(Seen(cur)) = descPopped + 1 /\ 1 \in 0..Len(describes)
      /\ ~Head(describes).boundary
  BY <1>1, DescFirst, Zenon
<1>3. /\ pipe[1] = cur /\ descPopped = cur.dslot /\ descPopped \in Nat
      /\ pipe \in Seq(Message) /\ pipe # <<>>
  BY <1>1, DescHead, Zenon
<1>4. 1 \in 1..Len(pipe)
  BY <1>3, TailFacts
<1>5. cur.dslot + 1 - descPopped = 1 /\ cur.dslot >= descPopped
  BY <1>3
<1>6. IF cur.type = "DescribeS" THEN describes[1].stmt = cur.obj /\ describes[1].portal = nil
      ELSE describes[1].portal = cur.obj
  <2>1. LET x == describes[cur.dslot + 1 - descPopped]
        IN  IF cur.type = "DescribeS" THEN x.stmt = cur.obj /\ x.portal = nil
            ELSE x.portal = cur.obj
    <3>1. PendingInv(pipe, describes, descPopped)
      BY Zenon DEF DescInv
    <3> QED  BY <1>1, <1>3, <1>4, <1>5, <3>1, Zenon DEF PendingInv
  <2> QED  BY <1>5, <2>1, Zenon
<1> QED
  BY <1>2, <1>6, Zenon DEF DescribePending

\* While a simple query is answered the queue is paused at a boundary.
LEMMA NoDescribeFacts ==
  ASSUME IInv, DescInv, Working({"Query"})
  PROVE  ~DescribePending
<1>1. c2b # <<>> /\ bstate = "idle" /\ ~Extended(cur)
  BY DEF Working, Extended
<1> QED
  BY <1>1, DescFirst, Zenon DEF DescribePending

\* A step that leaves the pipe and the queue alone.
LEMMA DescSame ==
  ASSUME DescInv, UNCHANGED <<fpump, fmsg, c2b, describes, descPopped, bstate>>
  PROVE  DescInv'
<1>1. pipe' = pipe /\ (up' <=> up)
  BY DEF pipe, up
<1> QED
  BY <1>1, Zenon DEF DescInv, BaseInv, IdleInv, DeadInv

\* Answers that leave the queue as it is.
LEMMA DescSameSteps ==
  ASSUME IInv, DescInv,
         DataRow \/ DataRowFails \/ QueryRowDescription \/ QueryStatementDone \/ BackendGone
  PROVE  DescInv'
<1>1. CASE DataRow \/ DataRowFails
  BY <1>1, DescSame, Zenon DEF DataRow, DataRowFails, DecryptDataRow, pumpVars, backendVars
<1>2. CASE QueryStatementDone
  BY <1>2, DescSame, Zenon DEF QueryStatementDone, popExecuting, pumpVars
<1>3. CASE BackendGone
  BY <1>3, DescSame, Zenon DEF BackendGone, sessionVars, backendVars
<1>4. CASE QueryRowDescription
  <2>1. ~DescribePending
    BY <1>4, NoDescribeFacts, Zenon DEF QueryRowDescription
  <2>2. UNCHANGED <<describes, descPopped>>
    BY <1>4, <2>1, Zenon DEF QueryRowDescription, OnRowDescription
  <2> QED  BY <1>4, <2>2, DescSame, Zenon DEF QueryRowDescription, pumpVars
<1> QED
  BY <1>1, <1>2, <1>3, <1>4, Zenon

\* Answers to messages without an entry.
LEMMA DescSilentAnswers ==
  ASSUME IInv, DescInv, Parsed \/ Bound \/ Closed \/ ExecuteDone
  PROVE  DescInv'
<1>1. /\ TypeOK /\ c2b # <<>> /\ Finished /\ UNCHANGED <<pumpVars>> /\ bstate = "idle" /\ bstate' = "idle"
      /\ UNCHANGED <<describes, descPopped>>
      /\ cur.type \in {"Parse", "Bind", "CloseS", "CloseP", "Execute"}
  BY Zenon DEF IInv, Parsed, Bound, Closed, ExecuteDone, popExecuting, sessionVars, Working
<1>2. PopDescribe(0) /\ 0 \in 0..Len(describes)
  BY <1>1, DescPopNothing, Zenon
<1>3. /\ cur \in Message /\ cur.dslot \in Nat /\ descPopped = cur.dslot
      /\ Ends(Seen(cur)) = cur.dslot + Seen(cur).width
  BY <1>1, DescHead, Zenon
<1>4. Seen(cur).width = 0
  BY <1>1, <1>3, SeenFacts, Zenon DEF Extended, IsDescribe
<1>5. descPopped + 0 = Ends(Seen(cur))
  BY <1>3, <1>4, Zenon
<1> QED
  BY <1>1, <1>2, <1>5, DescAnswer, Zenon

\* Answers to a Describe.
LEMMA DescDescribeAnswers ==
  ASSUME IInv, DescInv, RowDescription \/ NoData
  PROVE  DescInv'
<1>1. /\ Working({"DescribeS", "DescribeP"}) /\ c2b # <<>> /\ Finished /\ UNCHANGED <<pumpVars>>
      /\ bstate' = "idle"
  BY Zenon DEF RowDescription, NoData, Working
<1>2. /\ DescribePending /\ 1 \in 0..Len(describes) /\ descPopped + 1 = Ends(Seen(cur))
  BY <1>1, DescribeFacts, Zenon
<1>3. PopDescribe(1)
  BY <1>2, Zenon DEF RowDescription, NoData, OnRowDescription, OnNoData
<1> QED
  BY <1>1, <1>2, <1>3, DescAnswer, Zenon

\* Popping no entry changes nothing.
LEMMA DescPoppedNothing ==
  ASSUME describes \in Seq(Entries), descPopped \in Nat, PopDescribe(0)
  PROVE  UNCHANGED <<describes, descPopped>>
<1>1. Rest(describes, 0) = describes
  BY SubSeqAll DEF Rest
<1>2. descPopped + 0 = descPopped
  OBVIOUS
<1> QED
  BY <1>1, <1>2, Zenon DEF PopDescribe

\* The startup phase ends.
LEMMA DescStartup ==
  ASSUME IInv, DescInv, StartupReady
  PROVE  DescInv'
<1>1. /\ TypeOK /\ bstate = "startup" /\ bstate' = "idle" /\ UNCHANGED <<fpump, fmsg, c2b>>
  BY Zenon DEF IInv, StartupReady, pumpVars
<1>2. /\ SeenPipe(pipe) = <<>> /\ SeenQueue(describes) = <<>> /\ describes \in Seq(Entries)
      /\ pipe \in Seq(Message) /\ descPopped \in Nat
  BY <1>1, DescType, PipeType, Zenon DEF DescInv, BaseInv
<1>3. describes = <<>> /\ Len(describes) = 0
  BY <1>2, SeenQueueFacts, SeqEmpty, Zenon
<1>4. PICK k \in 0..Len(describes) : PopDescribe(k)
  BY Zenon DEF StartupReady, OnReadyForQuery
<1>5. k = 0
  BY <1>3
<1>6. describes' = <<>> /\ descPopped' = descPopped
  <2>1. PopDescribe(0)
    BY <1>4, <1>5, Zenon
  <2> QED  BY <1>2, <1>3, <2>1, DescPoppedNothing, Zenon
<1>7. pipe' = pipe /\ (up' <=> up) /\ UNCHANGED <<describes, descPopped>>
  BY <1>1, <1>3, <1>6, Zenon DEF pipe, up
<1>8. BaseInv(SeenPipe(pipe'), SeenQueue(describes'), descPopped', bstate', 0, up')
  BY <1>1, <1>2, <1>7, Zenon DEF BaseInv, IdleInv
<1> QED
  BY <1>7, <1>8, Zenon DEF DescInv

\* When the backend owes a ReadyForQuery, the first boundary of the queue is
\* the one of the message it answers.
LEMMA DescBoundary ==
  ASSUME IInv, DescInv, c2b # <<>>, bstate # "startup", cur.type \in {"Sync", "Query"},
         bstate = "skip" => cur.type = "Sync"
  PROVE  FirstBoundary(SeenQueue(describes), cur.dslot + 1 - descPopped)
<1> DEFINE q == SeenQueue(describes)
           n == descPopped
           m == Seen(cur)
<1>1. /\ SeenPipe(pipe) # <<>> /\ SeenPipe(pipe)[1] = m /\ 1 \in 1..Len(SeenPipe(pipe))
      /\ n \in Nat /\ Len(q) \in Nat /\ m.slot = cur.dslot /\ cur.dslot \in Nat
      /\ Ends(m) = cur.dslot + m.width /\ Ends(m) <= n + Len(q)
      /\ m.type = "Sync" /\ m.width = 1
  <2>1. /\ SeenPipe(pipe) # <<>> /\ SeenPipe(pipe)[1] = m /\ 1 \in 1..Len(SeenPipe(pipe))
        /\ m.type = "Sync" /\ m.width = 1
    BY DescHead, Zenon
  <2>2. /\ n \in Nat /\ Len(q) \in Nat /\ m.slot = cur.dslot /\ cur.dslot \in Nat
        /\ Ends(m) = cur.dslot + m.width /\ Ends(m) <= n + Len(q)
    BY DescHead, Zenon
  <2> QED  BY <2>1, <2>2, Zenon
<1>2. bstate \in {"idle", "failed", "skip"}
  BY Zenon DEF IInv, TypeOK
<1>3. BaseInv(SeenPipe(pipe), q, n, bstate, 0, up)
  BY Zenon DEF DescInv
<1>4. \A t \in 1..m.width : m.slot + t > n => q[m.slot + t - n] = Entry(m, t)
  BY <1>1, Zenon DEF DescInv, ContentInv
<1> HIDE DEF q, m
<1>5. n <= cur.dslot /\ \A j \in 1..Len(q) : n + j <= cur.dslot => q[j] # syncBoundary
  <2>1. CASE bstate = "idle"
    <3>1. n = cur.dslot
      BY <1>1, <1>3, <2>1 DEF BaseInv, IdleInv
    <3> QED  BY <1>1, <3>1
  <2>2. CASE bstate = "failed"
    <3>1. n + 1 = cur.dslot + 1
      BY <1>1, <1>3, <2>2, Zenon DEF BaseInv, FailedInv
    <3> QED  BY <1>1, <3>1
  <2>3. CASE bstate = "skip"
    BY <1>1, <1>3, <2>3, Zenon DEF BaseInv, DeadInv
  <2> QED  BY <1>2, <2>1, <2>2, <2>3, Zenon
<1>6. cur.dslot + 1 - n \in 1..Len(q)
  BY <1>1, <1>5
<1>7. q[cur.dslot + 1 - n] = syncBoundary
  <2>1. 1 \in 1..m.width /\ m.slot + 1 > n
    BY <1>1, <1>5
  <2>2. Entry(m, 1) = syncBoundary
    BY <1>1, Zenon DEF Entry
  <2> QED  BY <1>1, <1>4, <2>1, <2>2, Zenon
<1>8. \A j \in 1..Len(q) : j < cur.dslot + 1 - n => n + j <= cur.dslot
  BY <1>1
<1> QED
  BY <1>5, <1>6, <1>7, <1>8, Zenon DEF FirstBoundary, q

\* The loops of OnErrorResponse and OnReadyForQuery on the queue of pending
\* Describes.
LEMMA DescLoops ==
  ASSUME TypeOK, NEW w, FirstBoundary(SeenQueue(describes), w), NEW k
  PROVE  /\ DropsToBoundary(DescBoundaries, Len(describes), k) => k + 1 = w
         /\ PopsThroughBoundary(DescBoundaries, Len(describes), k) => k = w
<1>1. describes \in Seq(Entries)
  BY DescType
<1>2. /\ SeenQueue(describes) \in Seq(Nat) /\ Len(SeenQueue(describes)) = Len(describes)
      /\ DescBoundaries = {j \in 1..Len(SeenQueue(describes)) : SeenQueue(describes)[j] = syncBoundary}
  BY <1>1, SeenQueueFacts, Zenon DEF DescBoundaries
<1> QED
  BY <1>2, Loops

\* A ReadyForQuery.
LEMMA DescReady ==
  ASSUME IInv, DescInv, ReadyForQuery
  PROVE  DescInv'
<1>1. /\ TypeOK /\ c2b # <<>> /\ Finished /\ bstate # "startup" /\ bstate' = "idle"
      /\ cur.type \in {"Sync", "Query"} /\ (bstate = "skip" => cur.type = "Sync")
      /\ UNCHANGED <<pumpVars>>
  BY DEF IInv, ReadyForQuery
<1>2. PICK k \in 0..Len(describes) :
        PopsThroughBoundary(DescBoundaries, Len(describes), k) /\ PopDescribe(k)
  BY DEF ReadyForQuery, OnReadyForQuery
<1>3. k = cur.dslot + 1 - descPopped
  BY <1>1, <1>2, DescBoundary, DescLoops, Zenon
<1>4. /\ descPopped \in Nat /\ cur.dslot \in Nat /\ Ends(Seen(cur)) = cur.dslot + Seen(cur).width
      /\ Seen(cur).width = 1
  BY <1>1, DescHead, Zenon
<1>5. descPopped + k = Ends(Seen(cur))
  BY <1>3, <1>4
<1> QED
  BY <1>1, <1>2, <1>5, DescAnswer, Zenon

\* An extended message fails, or is skipped after one that failed.
LEMMA DescDead ==
  ASSUME IInv, DescInv, c2b # <<>>, Finished, UNCHANGED <<pumpVars>>, bstate' = "skip",
         Extended(cur), NEW k \in 0..Len(describes), PopDescribe(k),
         \A i \in 1..k : ~describes[i].boundary,
         DeadInv(SeenPipe(pipe), SeenQueue(describes), descPopped, up)
  PROVE  DescInv'
<1> DEFINE p == SeenPipe(pipe)
           q == SeenQueue(describes)
<1>1. /\ p \in Seq(Message) /\ p # <<>> /\ p[1] = Seen(cur) /\ q \in Seq(Nat) /\ cur \in Message
      /\ descPopped \in Nat /\ k \in 0..Len(q) /\ describes \in Seq(Entries)
      /\ Len(q) = Len(describes) /\ Len(q) \in Nat
      /\ ChainInv(p) /\ ContentInv(p, q, descPopped) /\ (up => TopInv(p, q, descPopped))
  <2>1. ChainInv(p) /\ ContentInv(p, q, descPopped) /\ (up => TopInv(p, q, descPopped))
    BY Zenon DEF DescInv
  <2> QED  BY <2>1, DescHead, Zenon
<1>2. Extended(p[1])
  <2>1. Extended(Seen(cur))
    BY <1>1, SeenFacts, Zenon
  <2> QED  BY <1>1, <2>1, Zenon
<1>3. \A i \in 1..k : q[i] # syncBoundary
  <2>1. \A i \in 1..k : i \in 1..Len(describes)
    BY <1>1
  <2> QED  BY <1>1, <2>1, SeenQueueFacts, Zenon
<1>4. DeadInv(p, q, descPopped, up)
  OBVIOUS
<1> HIDE DEF p, q
<1>5. DeadInv(Tail(p), Rest(q, k), descPopped + k, up)
  <2> HIDE DEF up
  <2> QED  BY <1>1, <1>2, <1>3, <1>4, DeadTail, Zenon
<1>6. BaseInv(Tail(p), Rest(q, k), descPopped + k, bstate', 0, up)
  BY <1>5, Zenon DEF BaseInv
<1> QED
  BY <1>6, DescFinish, Zenon DEF p, q

\* A skipped message of a failed batch.
LEMMA DescSkip ==
  ASSUME IInv, DescInv, Skip
  PROVE  DescInv'
<1>1. /\ TypeOK /\ ClientInv /\ c2b # <<>> /\ Finished /\ bstate = "skip" /\ bstate' = "skip"
      /\ cur.type # "Sync" /\ UNCHANGED <<pumpVars>> /\ UNCHANGED <<describes, descPopped>>
  BY DEF IInv, Skip, sessionVars
<1>2. pipe[1] = cur /\ 1 \in 1..Len(pipe)
  BY <1>1, HeadFacts, Zenon
<1>3. Extended(cur)
  <2>1. ASSUME cur.type = "Query" PROVE FALSE
    <3>1. PICK j \in 1..Len(pipe) : j < 1
      BY <1>1, <1>2, <2>1, Zenon DEF ClientInv, SyncFirst
    <3> QED  BY <3>1
  <2> QED  BY <1>1, <2>1, Zenon DEF Extended
<1>4. DeadInv(SeenPipe(pipe), SeenQueue(describes), descPopped, up)
  BY <1>1, Zenon DEF DescInv, BaseInv
<1>5. PopDescribe(0) /\ 0 \in 0..Len(describes)
  BY <1>1, DescPopNothing, Zenon
<1>6. \A i \in 1..0 : ~describes[i].boundary
  OBVIOUS
<1> QED
  BY <1>1, <1>3, <1>4, <1>5, <1>6, DescDead, Zenon

\* An ErrorResponse.
LEMMA DescError ==
  ASSUME IInv, DescInv, ErrorResponse
  PROVE  DescInv'
<1>1. /\ TypeOK /\ c2b # <<>> /\ bstate = "idle" /\ UNCHANGED <<pumpVars>>
      /\ cur.type \in {"Sync", "Query"} => bstate' = "failed" /\ UNCHANGED c2b
      /\ cur.type \notin {"Sync", "Query"} => bstate' = "skip" /\ Finished
  BY Zenon DEF IInv, ErrorResponse, Working
<1>2. PICK k \in 0..Len(describes) :
        DropsToBoundary(DescBoundaries, Len(describes), k) /\ PopDescribe(k)
  BY Zenon DEF ErrorResponse, OnErrorResponse
<1>3. /\ SeenPipe(pipe) \in Seq(Message) /\ SeenPipe(pipe) # <<>> /\ SeenPipe(pipe)[1] = Seen(cur)
      /\ Seen(cur).slot = cur.dslot /\ descPopped = cur.dslot /\ descPopped \in Nat
      /\ Ends(Seen(cur)) = cur.dslot + Seen(cur).width /\ Len(describes) \in Nat
      /\ describes \in Seq(Entries) /\ Len(SeenQueue(describes)) = Len(describes)
      /\ cur.type \in {"Sync", "Query"} => Seen(cur).width = 1
  BY <1>1, DescHead, Zenon
<1>4. CASE cur.type \in {"Sync", "Query"}
  <2>1. k + 1 = cur.dslot + 1 - descPopped
    BY <1>1, <1>2, <1>4, DescBoundary, DescLoops, Zenon
  <2>2. k = 0
    <3>1. descPopped = cur.dslot /\ descPopped \in Nat
      BY <1>3, Zenon
    <3> QED  BY <2>1, <3>1
  <2>3. UNCHANGED <<describes, descPopped>>
    <3>1. PopDescribe(0)
      BY <1>2, <2>2, Zenon
    <3> QED  BY <1>3, <3>1, DescPoppedNothing, Zenon
  <2>4. pipe' = pipe /\ (up' <=> up)
    BY <1>1, <1>4, Zenon DEF pipe, up, pumpVars
  <2>5. descPopped + 1 = Ends(Seen(cur))
    BY <1>3, <1>4, Zenon
  <2>6. BaseInv(SeenPipe(pipe'), SeenQueue(describes'), descPopped', bstate', 0, up')
    BY <1>1, <1>3, <1>4, <2>3, <2>4, <2>5, Zenon DEF BaseInv, FailedInv
  <2> QED  BY <2>3, <2>4, <2>6, Zenon DEF DescInv
<1>5. CASE cur.type \notin {"Sync", "Query"}
  <2>1. Extended(cur)
    BY <1>5, Zenon DEF Extended
  <2>2. \A i \in 1..k : ~describes[i].boundary
    <3>1. \A i \in 1..k : i \notin DescBoundaries /\ i \in 1..Len(describes)
      BY <1>2, <1>3 DEF DropsToBoundary
    <3> QED  BY <3>1, Zenon DEF DescBoundaries
  <2>3. DeadInv(SeenPipe(pipe), SeenQueue(describes), descPopped, up)
    <3>1. ChainInv(SeenPipe(pipe))
      BY Zenon DEF DescInv
    <3> HIDE DEF up
    <3> QED  BY <1>3, <3>1, DeadIdle, Zenon
  <2> QED  BY <1>1, <1>2, <1>5, <2>1, <2>2, <2>3, DescDead, Zenon
<1> QED
  BY <1>4, <1>5, Zenon

\* The queue is aligned when the session starts.
LEMMA DescInit ==
  ASSUME Init
  PROVE  DescInv
<1>1. pipe = <<>> /\ Len(pipe) = 0 /\ describes = <<>> /\ bstate = "startup"
  BY SeqEmpty, Zenon DEF Init, pipe
<1>2. pipe \in Seq(Message) /\ describes \in Seq(Entries)
  BY <1>1
<1>3. /\ SeenPipe(pipe) = <<>> /\ Len(SeenPipe(pipe)) = 0 /\ SeenQueue(describes) = <<>>
  BY <1>1, <1>2, SeenPipeFacts, SeenQueueFacts, Zenon
<1>4. ChainInv(SeenPipe(pipe))
  BY <1>3 DEF ChainInv
<1>5. ContentInv(SeenPipe(pipe), SeenQueue(describes), descPopped)
  BY <1>3 DEF ContentInv
<1>6. TopInv(SeenPipe(pipe), SeenQueue(describes), descPopped)
  BY <1>3, Zenon DEF TopInv
<1>7. PendingInv(pipe, describes, descPopped)
  BY <1>1 DEF PendingInv
<1>8. BaseInv(SeenPipe(pipe), SeenQueue(describes), descPopped, bstate, 0, up)
  BY <1>1, <1>3, Zenon DEF BaseInv
<1> QED
  BY <1>4, <1>5, <1>6, <1>7, <1>8, Zenon DEF DescInv

\* Every step keeps the queue of pending Describes aligned.
LEMMA DescNext ==
  ASSUME IInv, DescInv, [Next]_vars
  PROVE  DescInv'
<1>1. CASE UNCHANGED vars
  BY <1>1, DescSame, Zenon DEF vars, sessionVars, pumpVars, backendVars
<1>2. CASE Frontend
  BY <1>2, DescFrontend, Zenon
<1>3. CASE Backend
  BY <1>3, DescSameSteps, DescSilentAnswers, DescDescribeAnswers, DescStartup, DescReady,
     DescSkip, DescError, Zenon DEF Backend
<1> QED
  BY <1>1, <1>2, <1>3, Zenon DEF Next

\* The invariant attributes the answer to a Describe to that Describe.
LEMMA DescribesAligned ==
  ASSUME IInv, DescInv
  PROVE  DescribesReachTheirStatement
  BY DescribeFacts, NoDescribeFacts, Zenon DEF DescribesReachTheirStatement

\* For a client that never sends a simple query inside an unsynced batch,
\* OnRowDescription and OnNoData attribute every answer to a Describe to the
\* statement and portal that Describe named.
THEOREM DescribesReachTheirStatementAlways ==
  ASSUME ~QueryInBatch
  PROVE  Spec => []DescribesReachTheirStatement
<1> DEFINE J == IInv /\ DescInv
<1>1. Init => J
  BY InitInv, DescInit, Zenon
<1>2. J /\ [Next]_vars => J'
  BY NextStep, DescNext, Zenon
<1>3. J => DescribesReachTheirStatement
  BY DescribesAligned, Zenon
<1> QED
  BY <1>1, <1>2, <1>3, PTL DEF Spec

\* For the same client, both queues are empty whenever the backend has
\* answered everything: OnErrorResponse and OnReadyForQuery leave no entry of
\* a failed batch behind.
THEOREM DrainedWhenIdleAlways ==
  ASSUME ~QueryInBatch
  PROVE  Spec => []DrainedWhenIdle
<1> DEFINE J == IInv /\ DescInv
<1>1. Init => J
  BY InitInv, DescInit, Zenon
<1>2. J /\ [Next]_vars => J'
  BY NextStep, DescNext, Zenon
<1>3. J => DrainedWhenIdle
  <2> SUFFICES ASSUME J, fpump = "recv", c2b = <<>>, bstate = "idle"
               PROVE  execQueue = <<>> /\ describes = <<>>
    BY Zenon DEF DrainedWhenIdle
  <2>1. pipe = <<>> /\ up
    BY Zenon DEF pipe, up
  <2>2. execQueue = <<>>
    BY <2>1, Zenon DEF IInv, ExecInv, BaseInv, IdleInv
  <2>3. TypeOK /\ pipe \in Seq(Message) /\ describes \in Seq(Entries)
    BY PipeType, DescType, Zenon DEF IInv
  <2>4. SeenPipe(pipe) = <<>>
    BY <2>1, <2>3, SeenPipeFacts, Zenon
  <2>5. SeenQueue(describes) = <<>>
    BY <2>1, <2>4, Zenon DEF DescInv, BaseInv, IdleInv
  <2> QED  BY <2>2, <2>3, <2>5, SeenQueueFacts, Zenon
<1> QED
  BY <1>1, <1>2, <1>3, PTL DEF Spec

-----------------------------------------------------------------------------
(* The read plans.                                                          *)

\* The invariants together: names mean the same on both sides, results and
\* descriptions reach their objects, and columns and plans are those of their
\* statements.
LEMMA PlansAlways ==
  ASSUME Disciplined, ~QueryInBatch
  PROVE  Spec => []PlansInv
<1> DEFINE J == IInv /\ DescInv /\ StmtInv /\ HeapInv
<1>1. Init => J
  BY InitInv, DescInit, NamesInit, HeapInit, Zenon
<1>2. J => PlansInv
  BY ResultsAligned, DescribesAligned, Zenon DEF PlansInv, IInv
<1>3. J /\ [Next]_vars => J'
  <2> SUFFICES ASSUME J, [Next]_vars PROVE J'
    BY Zenon
  <2>1. IInv' /\ DescInv'
    BY NextStep, DescNext, Zenon
  <2>2. StmtInv'
    BY NamesNext, Zenon DEF IInv
  <2>3. HeapInv'
    BY <1>2, HeapStep, Zenon
  <2> QED  BY <2>1, <2>2, <2>3, Zenon
<1> QED
  BY <1>1, <1>2, <1>3, PTL DEF Spec

\* A row is decrypted, if at all, by the tables and columns of the statement
\* it comes from: OnRowDescription attributes columns to the right statement
\* and ensureReadPlan plans with the right portal, whatever is pipelined and
\* whatever fails.
THEOREM RowsUseTheirOwnPlanAlways ==
  ASSUME Disciplined, ~QueryInBatch
  PROVE  Spec => []RowsUseTheirOwnPlan
<1>1. Spec => []PlansInv
  BY PlansAlways, Zenon
<1>2. PlansInv => RowsUseTheirOwnPlan
  BY RowPlans, Zenon
<1> QED
  BY <1>1, <1>2, PTL

\* A row of a statement the backend has ever described on the connection has a
\* plan, also when a server-prepared statement is run again with a bare Bind
\* and Execute: ensureReadPlan derives it from the columns that learnColumns
\* left on the statement.
THEOREM DescribedRowsHaveAPlanAlways ==
  ASSUME Disciplined, ~QueryInBatch
  PROVE  Spec => []DescribedRowsHaveAPlan
<1>1. Spec => []PlansInv
  BY PlansAlways, Zenon
<1>2. PlansInv => DescribedRowsHaveAPlan
  BY RowPlans, Zenon
<1> QED
  BY <1>1, <1>2, PTL
=============================================================================
