------------------------- MODULE SessionOrderProofs -------------------------
(***************************************************************************)
(* Results reach their portal: the inductive invariant IInv of SessionInv  *)
(* is preserved by every step, for every value of the constants, as long   *)
(* as the client sends no simple query inside an unsynced batch.           *)
(*                                                                         *)
(* The first part is about the pipe p, the queue q and the number n of     *)
(* entries popped so far, as values: what each invariant becomes when a    *)
(* message is appended to the pipe, when its first message is finished,    *)
(* and when entries are pushed to or popped from the queue.  The second    *)
(* part takes the steps of Session one by one, the last ones being those   *)
(* that resynchronise the queue after an error.                            *)
(***************************************************************************)
EXTENDS SessionProofs

-----------------------------------------------------------------------------
(* A message is finished: the pipe loses its head.                          *)

\* The slots of the remaining messages are still consecutive.
LEMMA ChainTail ==
  ASSUME NEW p \in Seq(Message), p # <<>>, ChainInv(p)
  PROVE  ChainInv(Tail(p))
  BY TailFacts DEF ChainInv

\* The queue still holds what the remaining messages put there, and nothing
\* else behind it.
LEMMA ContentTail ==
  ASSUME NEW p \in Seq(Message), p # <<>>, NEW q, NEW n, ContentInv(p, q, n)
  PROVE  ContentInv(Tail(p), q, n)
  BY TailFacts DEF ContentInv

\* The same for the end of the queue.
LEMMA TopTail ==
  ASSUME NEW p \in Seq(Message), p # <<>>, NEW q, NEW n, TopInv(p, q, n)
  PROVE  TopInv(Tail(p), q, n)
<1>1. Tail(p) # <<>> => Tail(p)[Len(Tail(p))] = p[Len(p)]
  <2> SUFFICES ASSUME Tail(p) # <<>> PROVE Tail(p)[Len(Tail(p))] = p[Len(p)]
    BY Zenon
  <2>1. Len(Tail(p)) \in Nat \ {0}
    BY TailFacts, SeqEmpty, Zenon
  <2> QED  BY <2>1, TailFacts
<1> QED
  BY <1>1, Zenon DEF TopInv

\* Batches stay separated by Sync.
LEMMA BatchTail ==
  ASSUME NEW p \in Seq(Message), p # <<>>, BatchInv(p)
  PROVE  BatchInv(Tail(p))
<1> SUFFICES ASSUME NEW i \in 1..Len(Tail(p)), NEW j \in 1..Len(Tail(p)),
                    i < j, Extended(Tail(p)[i]), Tail(p)[j].type = "Query"
             PROVE  \E k \in 1..Len(Tail(p)) : i < k /\ k < j /\ Tail(p)[k].type = "Sync"
  BY Zenon DEF BatchInv
<1>1. PICK k \in 1..Len(p) : i + 1 < k /\ k < j + 1 /\ p[k].type = "Sync"
  <2>1. i + 1 \in 1..Len(p) /\ j + 1 \in 1..Len(p) /\ i + 1 < j + 1
    BY TailFacts
  <2>2. Extended(p[i + 1]) /\ p[j + 1].type = "Query"
    BY TailFacts, Zenon
  <2> QED  BY <2>1, <2>2, Zenon DEF BatchInv
<1>2. k - 1 \in 1..Len(Tail(p)) /\ Tail(p)[k - 1] = p[k]
  BY <1>1, TailFacts
<1> QED
  BY <1>1, <1>2

\* What the client has left open stays open.
LEMMA OpenTail ==
  ASSUME NEW p \in Seq(Message), p # <<>>, NEW op, OpenInv(p, op)
  PROVE  OpenInv(Tail(p), op)
<1> SUFFICES ASSUME ~op, NEW i \in 1..Len(Tail(p)), Extended(Tail(p)[i])
             PROVE  \E k \in 1..Len(Tail(p)) : i < k /\ Tail(p)[k].type = "Sync"
  BY Zenon DEF OpenInv
<1>1. PICK k \in 1..Len(p) : i + 1 < k /\ p[k].type = "Sync"
  <2>1. i + 1 \in 1..Len(p) /\ Extended(p[i + 1])
    BY TailFacts
  <2> QED  BY <2>1, Zenon DEF OpenInv
<1>2. k - 1 \in 1..Len(Tail(p)) /\ Tail(p)[k - 1] = p[k]
  BY <1>1, TailFacts
<1> QED
  BY <1>1, <1>2

\* The portal a message means by name nm, when the head of the pipe has been
\* finished: the head bound nm and the backend holds its object, the head left
\* nm alone, or the backend holds nothing under nm.
LEMMA AgreesTail ==
  ASSUME NEW p \in Seq(Message), p # <<>>, NEW e \in 0..(Len(p) - 1), NEW nm, NEW x,
         NEW bp, NEW bq, Agrees(p, e + 1, nm, x, bp),
         \/ bq[nm].obj = nil
         \/ ~Binds(p, 1, nm) /\ bq[nm].obj = bp[nm].obj
         \/ Binds(p, 1, nm) /\ bq[nm].obj = p[1].obj
  PROVE  Agrees(Tail(p), e, nm, x, bq)
<1>0. Len(p) \in Nat /\ Len(p) >= 1 /\ e \in Nat /\ e <= Len(p) - 1
  BY TailFacts
<1>1. \A k \in 1..e : Binds(Tail(p), k, nm) <=> Binds(p, k + 1, nm)
  BY <1>0, TailFacts DEF Binds
<1>2. ASSUME NEW k \in 1..e, LastBinds(Tail(p), k, e, nm) PROVE x = Tail(p)[k].obj
  <2>1. k + 1 \in 1..(e + 1) /\ Binds(p, k + 1, nm)
    BY <1>1, <1>2 DEF LastBinds
  <2>2. \A h \in 1..(e + 1) : k + 1 < h => ~Binds(p, h, nm)
    <3> SUFFICES ASSUME NEW h \in 1..(e + 1), k + 1 < h PROVE ~Binds(p, h, nm)
      BY Zenon
    <3>1. h - 1 \in 1..e /\ k < h - 1
      BY <1>0
    <3>2. ~Binds(Tail(p), h - 1, nm)
      BY <1>2, <3>1, Zenon DEF LastBinds
    <3>3. h - 1 + 1 = h
      BY <1>0
    <3> QED  BY <1>1, <3>1, <3>2, <3>3, Zenon
  <2>3. x = p[k + 1].obj
    BY <2>1, <2>2 DEF Agrees, LastBinds
  <2>4. Tail(p)[k] = p[k + 1]
    BY <1>0, TailFacts
  <2> QED  BY <2>3, <2>4, Zenon
<1>3. ASSUME NoneBinds(Tail(p), e, nm) PROVE bq[nm].obj \in {nil, x}
  <2>1. \A h \in 1..(e + 1) : 1 < h => ~Binds(p, h, nm)
    <3> SUFFICES ASSUME NEW h \in 1..(e + 1), 1 < h PROVE ~Binds(p, h, nm)
      BY Zenon
    <3>1. h - 1 \in 1..e /\ h - 1 + 1 = h
      BY <1>0
    <3> QED  BY <1>1, <1>3, <3>1, Zenon DEF NoneBinds
  <2>2. 1 \in 1..(e + 1)
    BY <1>0
  <2>3. CASE Binds(p, 1, nm)
    <3>1. x = p[1].obj
      BY <1>0, <2>1, <2>2, <2>3 DEF Agrees, LastBinds
    <3> QED  BY <2>3, <3>1, Zenon
  <2>4. CASE ~Binds(p, 1, nm)
    <3>1. \A h \in 1..(e + 1) : h = 1 \/ 1 < h
      BY <1>0
    <3>2. NoneBinds(p, e + 1, nm)
      BY <2>1, <2>4, <3>1, Zenon DEF NoneBinds
    <3>3. bp[nm].obj \in {nil, x}
      BY <3>2, Zenon DEF Agrees
    <3> QED  BY <2>4, <3>3, Zenon
  <2> QED  BY <2>3, <2>4, Zenon
<1> QED
  BY <1>2, <1>3, Zenon DEF Agrees

\* All messages and the session agree with the backend on portals once the
\* head is finished, if each name is as AgreesTail wants it.
LEMMA PortalsTail ==
  ASSUME NEW p \in Seq(Message), p # <<>>, NEW ps, NEW bp, NEW bq,
         \A nm \in PortalNames :
           \/ bq[nm].obj = nil
           \/ ~Binds(p, 1, nm) /\ bq[nm].obj = bp[nm].obj
           \/ Binds(p, 1, nm) /\ bq[nm].obj = p[1].obj
  PROVE  /\ MessagesAgree(p, bp) => MessagesAgree(Tail(p), bq)
         /\ SessionAgrees(p, ps, bp) => SessionAgrees(Tail(p), ps, bq)
<1>1. ASSUME MessagesAgree(p, bp), NEW i \in 1..Len(Tail(p)),
             Tail(p)[i].type \in {"Execute", "DescribeP"}
      PROVE  Agrees(Tail(p), i - 1, Tail(p)[i].portal, Tail(p)[i].obj, bq)
  <2>1. i - 1 \in 0..(Len(p) - 1) /\ i + 1 \in 1..Len(p) /\ Tail(p)[i] = p[i + 1]
        /\ (i - 1) + 1 = (i + 1) - 1
    BY TailFacts
  <2>2. p[i + 1].portal \in PortalNames
    BY <2>1, Numbers, Zenon DEF Message
  <2>3. Agrees(p, (i - 1) + 1, p[i + 1].portal, p[i + 1].obj, bp)
    BY <1>1, <2>1, Zenon DEF MessagesAgree
  <2> QED  BY <2>1, <2>2, <2>3, AgreesTail, Zenon
<1>2. ASSUME MessagesAgree(p, bp), NEW i \in 1..Len(Tail(p)), Tail(p)[i].type = "CloseP"
      PROVE  Tail(p)[i].obj = nil
  BY <1>2, TailFacts DEF MessagesAgree
<1>3. ASSUME SessionAgrees(p, ps, bp), NEW nm \in PortalNames
      PROVE  Agrees(Tail(p), Len(Tail(p)), nm, ps[nm], bq)
  <2>1. Len(Tail(p)) \in 0..(Len(p) - 1) /\ Len(Tail(p)) + 1 = Len(p)
    BY TailFacts
  <2>2. Agrees(p, Len(Tail(p)) + 1, nm, ps[nm], bp)
    BY <1>3, <2>1, Zenon DEF SessionAgrees
  <2> QED  BY <2>1, <2>2, AgreesTail, Zenon
<1> QED
  BY <1>1, <1>2, <1>3, Zenon DEF MessagesAgree, SessionAgrees

-----------------------------------------------------------------------------
(* Entries are popped from the queue.                                       *)

\* Popping entries keeps what is known of the rest.
LEMMA ContentPop ==
  ASSUME NEW p \in Seq(Message), NEW S, NEW q \in Seq(S), NEW n \in Nat,
         NEW k \in 0..Len(q)
  PROVE  /\ ContentInv(p, q, n) => ContentInv(p, Rest(q, k), n + k)
         /\ TopInv(p, q, n) => TopInv(p, Rest(q, k), n + k)
<1>1. Len(q) \in Nat /\ k \in Nat /\ k <= Len(q)
  BY SeqLength
<1>2. /\ Len(Rest(q, k)) = Len(q) - k
      /\ \A i \in 1..(Len(q) - k) : Rest(q, k)[i] = q[i + k]
  BY RestFacts, Zenon
<1>3. ASSUME ContentInv(p, q, n) PROVE ContentInv(p, Rest(q, k), n + k)
  <2> SUFFICES ASSUME NEW i \in 1..Len(p)
               PROVE  /\ Ends(p[i]) <= n + k + Len(Rest(q, k))
                      /\ \A t \in 1..p[i].width :
                           p[i].slot + t > n + k =>
                             Rest(q, k)[p[i].slot + t - (n + k)] = Entry(p[i], t)
    BY Zenon DEF ContentInv
  <2>1. /\ p[i].slot \in Nat /\ p[i].width \in Nat
        /\ Ends(p[i]) = p[i].slot + p[i].width /\ Ends(p[i]) <= n + Len(q)
    BY <1>3, Numbers, Zenon DEF ContentInv
  <2>2. ASSUME NEW t \in 1..p[i].width, p[i].slot + t > n + k
        PROVE  Rest(q, k)[p[i].slot + t - (n + k)] = Entry(p[i], t)
    <3>0. ASSUME NEW s \in Nat, NEW w \in Nat, NEW l \in Nat, NEW u \in 1..w,
                 s + w <= n + l, s + u > n + k
          PROVE  /\ s + u - (n + k) \in 1..(l - k)
                 /\ s + u - (n + k) + k = s + u - n
                 /\ s + u > n
      BY <1>1, <3>0
    <3>1. /\ p[i].slot + t - (n + k) \in 1..(Len(q) - k)
          /\ p[i].slot + t - (n + k) + k = p[i].slot + t - n
          /\ p[i].slot + t > n
      <4>1. p[i].slot + p[i].width <= n + Len(q)
        BY <2>1, Zenon
      <4> QED  BY <1>1, <2>1, <2>2, <3>0, <4>1, Zenon
    <3>2. q[p[i].slot + t - n] = Entry(p[i], t)
      BY <1>3, <3>1, Zenon DEF ContentInv
    <3> QED  BY <1>2, <3>1, <3>2, Zenon
  <2> QED  BY <1>1, <1>2, <2>1, <2>2
<1>4. ASSUME TopInv(p, q, n) PROVE TopInv(p, Rest(q, k), n + k)
  BY <1>1, <1>2, <1>4 DEF TopInv
<1> QED
  BY <1>3, <1>4, Zenon

-----------------------------------------------------------------------------
(* A message is observed: the pipe gets a new last message and the queue    *)
(* gets its entries.                                                        *)

\* The slots of a pipe stay consecutive when the new message starts where the
\* queue ends.
LEMMA ChainAppend ==
  ASSUME NEW p \in Seq(Message), NEW m \in Message, NEW q, NEW n \in Nat, Len(q) \in Nat,
         ChainInv(p), ContentInv(p, q, n), TopInv(p, q, n),
         Widths(m), m.slot = n + Len(q)
  PROVE  ChainInv(Append(p, m))
<1> DEFINE r == Append(p, m)
<1>1. \A i \in 1..Len(r) : Widths(r[i])
  BY AppendFacts DEF ChainInv
<1>2. ASSUME NEW i \in 1..Len(r), NEW j \in 1..Len(r), i < j PROVE Ends(r[i]) <= r[j].slot
  <2>1. i \in 1..Len(p) /\ r[i] = p[i]
    BY <1>2, AppendFacts
  <2>2. CASE j = Len(p) + 1
    <3>1. Ends(p[i]) <= n + Len(q)
      BY <2>1, Zenon DEF ContentInv
    <3> QED  BY <2>1, <2>2, <3>1, AppendFacts, Zenon
  <2>3. CASE j # Len(p) + 1
    <3>1. j \in 1..Len(p) /\ r[j] = p[j]
      BY <2>3, AppendFacts
    <3> QED  BY <1>2, <2>1, <3>1, Zenon DEF ChainInv
  <2> QED  BY <2>2, <2>3, Zenon
<1>3. ASSUME NEW i \in 1..Len(r), i + 1 <= Len(r) PROVE r[i + 1].slot = Ends(r[i])
  <2>1. i \in 1..Len(p) /\ r[i] = p[i]
    BY <1>3, AppendFacts
  <2>2. CASE i = Len(p)
    <3>1. p # <<>>
      BY <2>1, <2>2
    <3>2. Ends(p[Len(p)]) = n + Len(q)
      BY <3>1, Zenon DEF TopInv
    <3> QED  BY <2>1, <2>2, <3>2, AppendFacts, Zenon
  <2>3. CASE i # Len(p)
    <3>1. i + 1 \in 1..Len(p) /\ r[i + 1] = p[i + 1] /\ i + 1 <= Len(p)
      BY <2>1, <2>3, AppendFacts
    <3> QED  BY <2>1, <3>1, Zenon DEF ChainInv
  <2> QED  BY <2>2, <2>3, Zenon
<1> QED
  BY <1>1, <1>2, <1>3, Zenon DEF ChainInv

\* Pushing entries keeps what is known of the queue.
LEMMA ContentPush ==
  ASSUME NEW p \in Seq(Message), NEW S, NEW q \in Seq(S), NEW e \in Seq(S), NEW n \in Nat,
         ContentInv(p, q, n)
  PROVE  ContentInv(p, q \o e, n)
<1> DEFINE r == q \o e
<1>1. Len(q) \in Nat /\ Len(e) \in Nat
  BY SeqLength, Zenon
<1>2. Len(r) = Len(q) + Len(e) /\ \A i \in 1..Len(q) : r[i] = q[i]
  BY <1>1, SeqJoin
<1> HIDE DEF r
<1>3. ContentInv(p, r, n)
  <2> SUFFICES ASSUME NEW i \in 1..Len(p)
               PROVE  /\ Ends(p[i]) <= n + Len(r)
                      /\ \A t \in 1..p[i].width :
                           p[i].slot + t > n => r[p[i].slot + t - n] = Entry(p[i], t)
    BY Zenon DEF ContentInv
  <2>1. /\ p[i].slot \in Nat /\ p[i].width \in Nat
        /\ Ends(p[i]) = p[i].slot + p[i].width /\ Ends(p[i]) <= n + Len(q)
    BY Numbers, Zenon DEF ContentInv
  <2>2. ASSUME NEW t \in 1..p[i].width, p[i].slot + t > n
        PROVE  r[p[i].slot + t - n] = Entry(p[i], t)
    <3>1. p[i].slot + t - n \in 1..Len(q)
      BY SMTT(30), <1>1, <2>1, <2>2
    <3>2. q[p[i].slot + t - n] = Entry(p[i], t)
      BY <2>2, Zenon DEF ContentInv
    <3> QED  BY <1>2, <3>1, <3>2, Zenon
  <2> QED  BY <1>1, <1>2, <2>1, <2>2
<1> QED
  BY <1>3, Zenon DEF r

\* The queue holds the entries of the new message behind the old ones.
LEMMA ContentAppend ==
  ASSUME NEW p \in Seq(Message), NEW m \in Message, NEW S, NEW q \in Seq(S), NEW e \in Seq(S),
         NEW n \in Nat, ContentInv(p, q, n),
         m.slot = n + Len(q), Len(e) = m.width, \A t \in 1..m.width : e[t] = Entry(m, t)
  PROVE  ContentInv(Append(p, m), q \o e, n) /\ TopInv(Append(p, m), q \o e, n)
<1> DEFINE r == q \o e
<1>1. /\ Len(q) \in Nat /\ Len(e) \in Nat /\ Len(r) = Len(q) + Len(e)
      /\ \A i \in 1..Len(e) : r[Len(q) + i] = e[i]
  BY SeqJoin, SeqLength
<1>2. ContentInv(p, r, n)
  BY ContentPush, Zenon
<1>3. m.slot \in Nat /\ m.width \in Nat /\ Ends(m) = m.slot + m.width
  BY Zenon DEF Message, Ends
<1> HIDE DEF r
<1>4. /\ Ends(m) <= n + Len(r)
      /\ \A t \in 1..m.width : m.slot + t > n => r[m.slot + t - n] = Entry(m, t)
  <2>1. ASSUME NEW t \in 1..m.width PROVE r[m.slot + t - n] = Entry(m, t)
    <3>1. m.slot + t - n = Len(q) + t /\ t \in 1..Len(e)
      BY <1>1, <1>3
    <3> QED  BY <1>1, <3>1, Zenon
  <2> QED  BY <1>1, <1>3, <2>1
<1>5. ContentInv(Append(p, m), r, n)
  <2> SUFFICES ASSUME NEW i \in 1..Len(Append(p, m))
               PROVE  LET x == Append(p, m)[i]
                      IN  /\ Ends(x) <= n + Len(r)
                          /\ \A t \in 1..x.width :
                               x.slot + t > n => r[x.slot + t - n] = Entry(x, t)
    BY Zenon DEF ContentInv
  <2>1. CASE i \in 1..Len(p)
    <3>1. Append(p, m)[i] = p[i]
      BY <2>1, AppendFacts, Zenon
    <3> QED  BY <1>2, <2>1, <3>1, Zenon DEF ContentInv
  <2>2. CASE i = Len(p) + 1
    <3>1. Append(p, m)[i] = m
      BY <2>2, AppendFacts, Zenon
    <3> QED  BY <1>4, <3>1, Zenon
  <2> QED  BY <2>1, <2>2, AppendFacts
<1>6. TopInv(Append(p, m), r, n)
  <2>1. Append(p, m)[Len(Append(p, m))] = m
    BY AppendFacts
  <2> QED  BY <1>1, <1>3, <2>1 DEF TopInv
<1> QED
  BY <1>5, <1>6, Zenon DEF r

\* What the backend answers next does not change when a message is appended
\* to the pipe and its entries are pushed.
LEMMA BaseAppend ==
  ASSUME NEW p \in Seq(Message), NEW m \in Message, NEW S, NEW q \in Seq(S), NEW e \in Seq(S),
         NEW n \in Nat, NEW bs, NEW bd \in Nat,
         ContentInv(p, q, n), BaseInv(p, q, n, bs, bd, TRUE),
         bs # "startup", bs = "failed" => p # <<>>, p = <<>> => bd = 0,
         m.slot = n + Len(q)
  PROVE  BaseInv(Append(p, m), q \o e, n, bs, bd, TRUE)
<1> DEFINE r == Append(p, m)
           x == q \o e
<1>1. Len(q) \in Nat /\ Len(e) \in Nat /\ Len(p) \in Nat
  BY SeqLength, Zenon
<1>2. Len(x) = Len(q) + Len(e) /\ \A i \in 1..Len(q) : x[i] = q[i]
  BY <1>1, SeqJoin
<1>3. /\ r # <<>> /\ Len(r) = Len(p) + 1
      /\ \A i \in 1..Len(p) : r[i] = p[i]
      /\ r[Len(p) + 1] = m
  BY AppendFacts, Zenon
<1>4. p # <<>> => r[1] = p[1] /\ p[1].slot \in Nat /\ Ends(p[1]) = p[1].slot + p[1].width
                  /\ p[1].width \in Nat /\ p[1].slot <= n + Len(q)
  <2> SUFFICES ASSUME p # <<>>
               PROVE  r[1] = p[1] /\ p[1].slot \in Nat /\ Ends(p[1]) = p[1].slot + p[1].width
                      /\ p[1].width \in Nat /\ p[1].slot <= n + Len(q)
    BY Zenon
  <2>1. 1 \in 1..Len(p)
    BY <1>1, SeqEmpty
  <2>2. /\ p[1].slot \in Nat /\ p[1].width \in Nat /\ Ends(p[1]) = p[1].slot + p[1].width
        /\ Ends(p[1]) <= n + Len(q)
    BY <2>1, Numbers, Zenon DEF ContentInv
  <2> QED  BY <1>1, <1>3, <2>1, <2>2
<1>5. p = <<>> => r[1] = m
  BY <1>3
<1> HIDE DEF r, x
<1>6. bs = "idle" => IdleInv(r, x, n, bd, TRUE)
  <2>1. CASE p # <<>>
    BY <1>3, <1>4, <2>1, Zenon DEF BaseInv, IdleInv
  <2>2. CASE p = <<>>
    <3>1. bs = "idle" => q = <<>>
      BY <2>2, Zenon DEF BaseInv, IdleInv
    <3>2. bs = "idle" => m.slot = n + bd
      BY <1>1, <2>2, <3>1, Zenon
    <3> QED  BY <1>3, <1>5, <2>2, <3>2 DEF IdleInv
  <2> QED  BY <2>1, <2>2, Zenon
<1>7. bs = "failed" => FailedInv(r, n)
  BY <1>4, Zenon DEF BaseInv, FailedInv
<1>8. bs = "skip" => DeadInv(r, x, n, TRUE)
  <2> SUFFICES ASSUME bs = "skip" PROVE DeadInv(r, x, n, TRUE)
    BY Zenon
  <2>1. DeadInv(p, q, n, TRUE)
    BY Zenon DEF BaseInv
  <2>2. ASSUME NEW i \in 1..Len(r), r[i].type = "Sync" PROVE n <= r[i].slot
    <3>1. CASE i \in 1..Len(p)
      BY <1>3, <2>1, <2>2, <3>1, Zenon DEF DeadInv
    <3>2. CASE i = Len(p) + 1
      BY <1>1, <1>3, <3>2
    <3> QED  BY <1>1, <1>3, <3>1, <3>2
  <2>3. ASSUME NEW j \in 1..Len(x), n + j <= r[1].slot PROVE x[j] # syncBoundary
    <3>1. CASE p # <<>>
      <4>1. j \in 1..Len(q) /\ n + j <= p[1].slot
        BY <1>1, <1>2, <1>4, <2>3, <3>1
      <4> QED  BY <1>2, <2>1, <3>1, <4>1, Zenon DEF DeadInv
    <3>2. CASE p = <<>>
      <4>1. j \in 1..Len(q)
        BY <1>1, <1>2, <1>5, <2>3, <3>2
      <4> QED  BY <1>2, <2>1, <3>2, <4>1, Zenon DEF DeadInv
    <3> QED  BY <3>1, <3>2, Zenon
  <2> QED  BY <1>3, <2>2, <2>3, Zenon DEF DeadInv
<1> QED
  BY <1>6, <1>7, <1>8, Zenon DEF BaseInv, r, x

\* A simple query comes only when nothing is left open.
LEMMA BatchAppend ==
  ASSUME NEW p \in Seq(Message), NEW m \in Message, NEW op, BatchInv(p), OpenInv(p, op),
         m.type = "Query" => ~op
  PROVE  BatchInv(Append(p, m))
<1> DEFINE r == Append(p, m)
<1> SUFFICES ASSUME NEW i \in 1..Len(r), NEW j \in 1..Len(r),
                    i < j, Extended(r[i]), r[j].type = "Query"
             PROVE  \E k \in 1..Len(r) : i < k /\ k < j /\ r[k].type = "Sync"
  BY Zenon DEF BatchInv
<1>1. i \in 1..Len(p) /\ r[i] = p[i]
  BY AppendFacts
<1>2. CASE j \in 1..Len(p)
  <2>1. PICK k \in 1..Len(p) : i < k /\ k < j /\ p[k].type = "Sync"
    BY <1>1, <1>2, AppendFacts DEF BatchInv
  <2>2. k \in 1..Len(r) /\ r[k] = p[k]
    BY AppendFacts
  <2> QED  BY <2>1, <2>2, Zenon
<1>3. CASE j = Len(p) + 1
  <2>1. ~op
    BY <1>3, AppendFacts, Zenon
  <2>2. PICK k \in 1..Len(p) : i < k /\ p[k].type = "Sync"
    BY <1>1, <2>1, Zenon DEF OpenInv
  <2>3. k \in 1..Len(r) /\ r[k] = p[k] /\ k < j
    BY <1>3, AppendFacts
  <2> QED  BY <2>2, <2>3, Zenon
<1> QED
  BY <1>2, <1>3, AppendFacts

\* What is open after the new message.
LEMMA OpenAppend ==
  ASSUME NEW p \in Seq(Message), NEW m \in Message, NEW op, NEW oq, OpenInv(p, op),
         Extended(m) => oq, m.type = "Query" => ~op
  PROVE  OpenInv(Append(p, m), oq)
<1> DEFINE r == Append(p, m)
<1> SUFFICES ASSUME ~oq, NEW i \in 1..Len(r), Extended(r[i])
             PROVE  \E k \in 1..Len(r) : i < k /\ r[k].type = "Sync"
  BY Zenon DEF OpenInv
<1>1. m.type \in {"Sync", "Query"}
  BY Zenon DEF Extended
<1>2. i \in 1..Len(p) /\ r[i] = p[i]
  BY <1>1, AppendFacts DEF Extended
<1>3. CASE m.type = "Sync"
  <2>1. Len(p) + 1 \in 1..Len(r) /\ r[Len(p) + 1] = m /\ i < Len(p) + 1
    BY <1>2, AppendFacts
  <2> QED  BY <1>3, <2>1, Zenon
<1>4. CASE m.type = "Query"
  <2>1. PICK k \in 1..Len(p) : i < k /\ p[k].type = "Sync"
    BY <1>2, <1>4, Zenon DEF OpenInv
  <2>2. k \in 1..Len(r) /\ r[k] = p[k]
    BY AppendFacts
  <2> QED  BY <2>1, <2>2, Zenon
<1> QED
  BY <1>1, <1>3, <1>4, Zenon

\* After an error a Sync is still first, and there is one when nothing is open.
LEMMA SyncAppend ==
  ASSUME NEW p \in Seq(Message), NEW m \in Message, NEW op, NEW oq, SyncFirst(p),
         ~op => HasSync(p), Extended(m) => oq, m.type = "Query" => ~op
  PROVE  SyncFirst(Append(p, m)) /\ (~oq => HasSync(Append(p, m)))
<1> DEFINE r == Append(p, m)
<1>1. ASSUME HasSync(p) PROVE \E k \in 1..Len(p) : k \in 1..Len(r) /\ r[k].type = "Sync"
  BY <1>1, AppendFacts DEF HasSync
<1>2. SyncFirst(r)
  <2> SUFFICES ASSUME NEW j \in 1..Len(r), r[j].type = "Query"
               PROVE  \E k \in 1..Len(r) : k < j /\ r[k].type = "Sync"
    BY Zenon DEF SyncFirst
  <2>1. CASE j \in 1..Len(p)
    <3>1. PICK k \in 1..Len(p) : k < j /\ p[k].type = "Sync"
      BY <2>1, AppendFacts, Zenon DEF SyncFirst
    <3>2. k \in 1..Len(r) /\ r[k] = p[k]
      BY AppendFacts
    <3> QED  BY <3>1, <3>2, Zenon
  <2>2. CASE j = Len(p) + 1
    <3>1. PICK k \in 1..Len(p) : k \in 1..Len(r) /\ r[k].type = "Sync"
      BY <1>1, <2>2, AppendFacts, Zenon
    <3>2. k < j
      BY <2>2, <3>1, AppendFacts
    <3> QED  BY <3>1, <3>2, Zenon
  <2> QED  BY <2>1, <2>2, AppendFacts
<1>3. ASSUME ~oq PROVE HasSync(r)
  <2>1. m.type \in {"Sync", "Query"}
    BY <1>3, Zenon DEF Extended
  <2>2. CASE m.type = "Sync"
    <3>1. Len(p) + 1 \in 1..Len(r) /\ r[Len(p) + 1] = m
      BY AppendFacts
    <3> QED  BY <2>2, <3>1, Zenon DEF HasSync
  <2>3. CASE m.type = "Query"
    BY <1>1, <2>3, Zenon DEF HasSync
  <2> QED  BY <2>1, <2>2, <2>3, Zenon
<1> QED
  BY <1>2, <1>3, Zenon

\* What is known of a portal name among the first e messages depends on them
\* only.
LEMMA AgreesPrefix ==
  ASSUME NEW p, NEW r, NEW e \in Nat, \A i \in 1..e : r[i] = p[i],
         NEW nm, NEW x, NEW bp
  PROVE  Agrees(r, e, nm, x, bp) <=> Agrees(p, e, nm, x, bp)
<1>1. \A i \in 1..e : Binds(r, i, nm) <=> Binds(p, i, nm)
  BY Zenon DEF Binds
<1>2. NoneBinds(r, e, nm) <=> NoneBinds(p, e, nm)
  BY <1>1, Zenon DEF NoneBinds
<1>3. \A k \in 1..e : LastBinds(r, k, e, nm) <=> LastBinds(p, k, e, nm)
  BY <1>1, Zenon DEF LastBinds
<1> QED
  BY <1>2, <1>3, Zenon DEF Agrees

\* The messages and the session agree with the backend when a message is
\* appended: an Execute or Describe means what the session means, a Bind or
\* Close is the last to change its name.
LEMMA PortalsAppend ==
  ASSUME NEW p \in Seq(Message), NEW m \in Message, NEW ps, NEW pt, NEW bp,
         MessagesAgree(p, bp), SessionAgrees(p, ps, bp),
         m.type \in {"Execute", "DescribeP"} => m.obj = ps[m.portal],
         m.type = "CloseP" => m.obj = nil,
         \A nm \in PortalNames :
           pt[nm] = IF m.type \in {"Bind", "CloseP"} /\ m.portal = nm THEN m.obj ELSE ps[nm]
  PROVE  MessagesAgree(Append(p, m), bp) /\ SessionAgrees(Append(p, m), pt, bp)
<1> DEFINE r == Append(p, m)
           l == Len(p)
<1>1. /\ l \in Nat /\ Len(r) = l + 1 /\ r[l + 1] = m
      /\ \A i \in 1..l : r[i] = p[i]
  BY AppendFacts, Zenon
<1>2. m.portal \in PortalNames
  BY Zenon DEF Message
<1> HIDE DEF r, l
<1>3. ASSUME NEW i \in 1..Len(r), r[i].type \in {"Execute", "DescribeP"}
      PROVE  Agrees(r, i - 1, r[i].portal, r[i].obj, bp)
  <2>1. i - 1 \in Nat /\ \A h \in 1..(i - 1) : r[h] = p[h]
    BY <1>1
  <2>2. CASE i \in 1..l
    <3>1. Agrees(p, i - 1, p[i].portal, p[i].obj, bp) /\ r[i] = p[i]
      BY <1>1, <1>3, <2>2, Zenon DEF MessagesAgree, l
    <3> QED  BY <2>1, <3>1, AgreesPrefix, Zenon
  <2>3. CASE i = l + 1
    <3>1. r[i] = m /\ i - 1 = l
      BY <1>1, <2>3
    <3>2. Agrees(p, i - 1, m.portal, m.obj, bp)
      BY <1>2, <1>3, <3>1, Zenon DEF SessionAgrees, l
    <3> QED  BY <2>1, <3>1, <3>2, AgreesPrefix, Zenon
  <2> QED  BY <1>1, <2>2, <2>3
<1>4. ASSUME NEW i \in 1..Len(r), r[i].type = "CloseP" PROVE r[i].obj = nil
  <2>1. CASE i \in 1..l
    BY <1>1, <1>4, <2>1, Zenon DEF MessagesAgree, l
  <2>2. CASE i = l + 1
    BY <1>1, <1>4, <2>2, Zenon
  <2> QED  BY <1>1, <2>1, <2>2
<1>5. ASSUME NEW nm \in PortalNames PROVE Agrees(r, l + 1, nm, pt[nm], bp)
  <2>1. Agrees(p, l, nm, ps[nm], bp)
    BY <1>5, Zenon DEF SessionAgrees, l
  <2>2. Agrees(r, l, nm, ps[nm], bp)
    BY <1>1, <2>1, AgreesPrefix, Zenon
  <2>3. Binds(r, l + 1, nm) <=> m.type \in {"Bind", "CloseP"} /\ m.portal = nm
    BY <1>1, Zenon DEF Binds
  <2>4. \A h \in 1..(l + 1) : h \in 1..l \/ h = l + 1
    BY <1>1
  <2>5. l + 1 \in 1..(l + 1) /\ \A h \in 1..l : h \in 1..(l + 1) /\ h < l + 1 /\ h <= l
    BY <1>1
  <2>6. CASE Binds(r, l + 1, nm)
    <3>1. pt[nm] = m.obj
      BY <2>3, <2>6, Zenon
    <3>2. ~NoneBinds(r, l + 1, nm)
      BY <2>5, <2>6, Zenon DEF NoneBinds
    <3>3. ASSUME NEW k \in 1..(l + 1), LastBinds(r, k, l + 1, nm) PROVE pt[nm] = r[k].obj
      <4>1. k = l + 1
        BY <2>4, <2>5, <2>6, <3>3, Zenon DEF LastBinds
      <4> QED  BY <1>1, <3>1, <4>1, Zenon
    <3> QED  BY <3>2, <3>3, Zenon DEF Agrees
  <2>7. CASE ~Binds(r, l + 1, nm)
    <3>1. pt[nm] = ps[nm]
      BY <2>3, <2>7, Zenon
    <3>2. NoneBinds(r, l + 1, nm) => NoneBinds(r, l, nm)
      BY <2>5, Zenon DEF NoneBinds
    <3>3. ASSUME NEW k \in 1..(l + 1), LastBinds(r, k, l + 1, nm)
          PROVE  k \in 1..l /\ LastBinds(r, k, l, nm)
      <4>1. k \in 1..l
        BY <2>4, <2>7, <3>3, Zenon DEF LastBinds
      <4> QED  BY <2>5, <3>3, <4>1, Zenon DEF LastBinds
    <3> QED  BY <2>2, <3>1, <3>2, <3>3, Zenon DEF Agrees
  <2> QED  BY <2>6, <2>7, Zenon
<1>6. MessagesAgree(r, bp)
  BY <1>3, <1>4, Zenon DEF MessagesAgree
<1>7. SessionAgrees(r, pt, bp)
  BY <1>1, <1>5, Zenon DEF SessionAgrees
<1> QED
  BY <1>6, <1>7, Zenon DEF r

-----------------------------------------------------------------------------
(* The frontend pump returns: the pipe may lose a message that was observed *)
(* and never sent.                                                          *)

\* The slots of a pipe without its last message.
LEMMA DroppedSlots ==
  ASSUME NEW p \in Seq(Message), NEW m \in Message, NEW q, NEW n, NEW bs, NEW bd,
         ChainInv(Append(p, m)), ContentInv(Append(p, m), q, n),
         BaseInv(Append(p, m), q, n, bs, bd, TRUE), bs = "failed" => p # <<>>
  PROVE  ChainInv(p) /\ ContentInv(p, q, n) /\ BaseInv(p, q, n, bs, bd, FALSE)
<1> DEFINE r == Append(p, m)
<1>1. /\ r # <<>> /\ Len(p) \in Nat /\ Len(r) = Len(p) + 1
      /\ \A i \in 1..Len(p) : r[i] = p[i]
  BY AppendFacts, Zenon
<1>2. \A i \in 1..Len(p) : i \in 1..Len(r)
  BY <1>1
<1>3. p # <<>> => 1 \in 1..Len(p) /\ r[1] = p[1]
  BY <1>1, SeqEmpty
<1> HIDE DEF r
<1>4. ChainInv(p)
  <2>1. ChainInv(r)
    BY Zenon DEF r
  <2> QED  BY <1>1, <1>2, <2>1 DEF ChainInv
<1>5. ContentInv(p, q, n)
  <2>1. ContentInv(r, q, n)
    BY Zenon DEF r
  <2> QED  BY <1>1, <1>2, <2>1, Zenon DEF ContentInv
<1>6. BaseInv(p, q, n, bs, bd, FALSE)
  <2>1. BaseInv(r, q, n, bs, bd, TRUE)
    BY Zenon DEF r
  <2>2. bs # "startup"
    BY <1>1, <2>1, Zenon DEF BaseInv
  <2>3. bs = "idle" => IdleInv(p, q, n, bd, FALSE)
    BY <1>1, <1>3, <2>1, Zenon DEF BaseInv, IdleInv
  <2>4. bs = "failed" => FailedInv(p, n)
    BY <1>3, <2>1, Zenon DEF BaseInv, FailedInv
  <2>5. bs = "skip" => DeadInv(p, q, n, FALSE)
    BY <1>1, <1>2, <1>3, <2>1, Zenon DEF BaseInv, DeadInv
  <2> QED  BY <2>2, <2>3, <2>4, <2>5, Zenon DEF BaseInv
<1> QED
  BY <1>4, <1>5, <1>6, Zenon

\* What holds of a pipe holds of the pipe without its last message.
LEMMA Dropped ==
  ASSUME NEW p \in Seq(Message), NEW m \in Message, NEW q, NEW n, NEW bs, NEW bd, NEW bp,
         ChainInv(Append(p, m)), ContentInv(Append(p, m), q, n),
         BaseInv(Append(p, m), q, n, bs, bd, TRUE), BatchInv(Append(p, m)),
         MessagesAgree(Append(p, m), bp),
         bs = "failed" => p # <<>>
  PROVE  /\ ChainInv(p) /\ ContentInv(p, q, n) /\ BaseInv(p, q, n, bs, bd, FALSE)
         /\ BatchInv(p) /\ MessagesAgree(p, bp)
         /\ SyncFirst(Append(p, m)) => SyncFirst(p)
<1> DEFINE r == Append(p, m)
<1>1. /\ r # <<>> /\ Len(p) \in Nat /\ Len(r) = Len(p) + 1
      /\ \A i \in 1..Len(p) : r[i] = p[i]
  BY AppendFacts, Zenon
<1>2. \A i \in 1..Len(p) : i \in 1..Len(r)
  BY <1>1
<1>3. p # <<>> => 1 \in 1..Len(p) /\ r[1] = p[1]
  BY <1>1, SeqEmpty
<1> HIDE DEF r
<1>4. ChainInv(p) /\ ContentInv(p, q, n) /\ BaseInv(p, q, n, bs, bd, FALSE)
  BY DroppedSlots, Zenon
<1>5. BatchInv(p)
  <2>1. BatchInv(r)
    BY Zenon DEF r
  <2> SUFFICES ASSUME NEW i \in 1..Len(p), NEW j \in 1..Len(p),
                      i < j, Extended(p[i]), p[j].type = "Query"
               PROVE  \E k \in 1..Len(p) : i < k /\ k < j /\ p[k].type = "Sync"
    BY Zenon DEF BatchInv
  <2>2. PICK k \in 1..Len(r) : i < k /\ k < j /\ r[k].type = "Sync"
    BY <1>1, <1>2, <2>1 DEF BatchInv
  <2>3. k \in 1..Len(p)
    BY <1>1, <2>2
  <2> QED  BY <1>1, <2>2, <2>3, Zenon
<1>6. MessagesAgree(p, bp)
  <2>1. MessagesAgree(r, bp)
    BY Zenon DEF r
  <2>2. ASSUME NEW i \in 1..Len(p), p[i].type \in {"Execute", "DescribeP"}
        PROVE  Agrees(p, i - 1, p[i].portal, p[i].obj, bp)
    <3>1. Agrees(r, i - 1, p[i].portal, p[i].obj, bp)
      BY <1>1, <1>2, <2>1, <2>2, Zenon DEF MessagesAgree
    <3>2. i - 1 \in Nat /\ \A h \in 1..(i - 1) : p[h] = r[h]
      BY <1>1
    <3> QED  BY <3>1, <3>2, AgreesPrefix, Zenon
  <2> QED  BY <1>1, <1>2, <2>1, <2>2, Zenon DEF MessagesAgree
<1>7. SyncFirst(r) => SyncFirst(p)
  <2> SUFFICES ASSUME SyncFirst(r), NEW j \in 1..Len(p), p[j].type = "Query"
               PROVE  \E k \in 1..Len(p) : k < j /\ p[k].type = "Sync"
    BY Zenon DEF SyncFirst
  <2>1. PICK k \in 1..Len(r) : k < j /\ r[k].type = "Sync"
    BY <1>1, <1>2, Zenon DEF SyncFirst
  <2>2. k \in 1..Len(p)
    BY <1>1, <2>1
  <2> QED  BY <1>1, <2>1, <2>2, Zenon
<1> QED
  BY <1>4, <1>5, <1>6, <1>7, Zenon DEF r

\* Entries pushed by a simple query that was then refused change nothing for
\* the messages before it.
LEMMA BasePush ==
  ASSUME NEW p \in Seq(Message), NEW S, NEW q \in Seq(S), NEW e \in Seq(S),
         NEW n \in Nat, NEW bs, NEW bd, ContentInv(p, q, n),
         BaseInv(p, q, n, bs, bd, TRUE), bs # "startup"
  PROVE  BaseInv(p, q \o e, n, bs, bd, FALSE)
<1> DEFINE x == q \o e
<1>1. Len(q) \in Nat /\ Len(e) \in Nat
  BY SeqLength, Zenon
<1>2. Len(x) = Len(q) + Len(e) /\ \A i \in 1..Len(q) : x[i] = q[i]
  BY <1>1, SeqJoin
<1> HIDE DEF x
<1>3. bs = "skip" => DeadInv(p, x, n, FALSE)
  <2> SUFFICES ASSUME bs = "skip" PROVE DeadInv(p, x, n, FALSE)
    BY Zenon
  <2>1. DeadInv(p, q, n, TRUE)
    BY Zenon DEF BaseInv
  <2>2. ASSUME p # <<>>, NEW j \in 1..Len(x), n + j <= p[1].slot PROVE x[j] # syncBoundary
    <3>1. 1 \in 1..Len(p)
      <4>1. Len(p) \in Nat \ {0}
        BY <2>2, SeqEmpty, Zenon
      <4> QED  BY <4>1
    <3>2. /\ p[1].slot \in Nat /\ p[1].width \in Nat
          /\ p[1].slot + p[1].width <= n + Len(q)
      BY <3>1, Numbers, Zenon DEF ContentInv
    <3>3. j \in 1..Len(q)
      <4>1. n + j <= p[1].slot /\ j \in Nat /\ j >= 1
        BY <1>1, <1>2, <2>2
      <4> QED  BY <1>1, <3>2, <4>1
    <3> QED  BY <1>2, <2>1, <2>2, <3>3, Zenon DEF DeadInv
  <2> QED  BY <2>1, <2>2, Zenon DEF DeadInv
<1>4. bs = "idle" => IdleInv(p, x, n, bd, FALSE)
  BY Zenon DEF BaseInv, IdleInv
<1>5. bs = "failed" => FailedInv(p, n)
  BY Zenon DEF BaseInv
<1> QED
  BY <1>3, <1>4, <1>5, Zenon DEF BaseInv, x

-----------------------------------------------------------------------------
(* The second part: what each step of Session does to the pipe.             *)

\* While the pump is up, or when it is not, the base invariant is about that.
LEMMA BaseUp ==
  ASSUME NEW p, NEW q, NEW n, NEW bs, NEW bd
  PROVE  /\ up => (BaseInv(p, q, n, bs, bd, up) <=> BaseInv(p, q, n, bs, bd, TRUE))
         /\ ~up => (BaseInv(p, q, n, bs, bd, up) <=> BaseInv(p, q, n, bs, bd, FALSE))
  BY Zenon DEF BaseInv, IdleInv, DeadInv

\* A pipe that is empty, or whose backend has failed, has no simple query in
\* progress.
LEMMA ProgressFacts ==
  ASSUME IInv
  PROVE  /\ pipe = <<>> => bdone = 0
         /\ bstate = "failed" => pipe # <<>>
<1>1. TypeOK /\ ProgressInv /\ bdone \in Nat
  BY QueueType, Zenon DEF IInv, ExecInv
<1>2. pipe = <<>> => c2b = <<>>
  BY <1>1, PipeType, Zenon
<1>3. c2b = <<>> => bdone = 0
  BY <1>1 DEF ProgressInv
<1> QED
  BY <1>1, <1>2, <1>3, Zenon DEF ProgressInv

\* Observing a message m that pushes the entries e preserves the invariant.
LEMMA ObserveStep ==
  ASSUME IInv, TypeOK', NEW m \in Message, NEW e \in Seq(Nat),
         fpump = "recv", Observed(m), bstate # "startup",
         UNCHANGED <<c2b, execPopped, backendVars>>,
         execQueue' = execQueue \o e,
         m.slot = execPopped + Len(execQueue), Widths(m),
         Len(e) = m.width, \A t \in 1..m.width : e[t] = Entry(m, t),
         Extended(m) => open', m.type = "Query" => ~open,
         m.type \in {"Execute", "DescribeP"} => m.obj = portals[m.portal],
         m.type = "CloseP" => m.obj = nil,
         \A nm \in PortalNames :
           portals'[nm] = IF m.type \in {"Bind", "CloseP"} /\ m.portal = nm
                          THEN m.obj ELSE portals[nm]
  PROVE  IInv'
<1>1. TypeOK /\ ExecInv /\ ClientInv /\ PortalsInv
  BY Zenon DEF IInv
<1>2. pipe' = Append(pipe, m) /\ up /\ up'
  BY PipeAppend, Zenon
<1>3. /\ pipe \in Seq(Message) /\ execQueue \in Seq(Nat) /\ execPopped \in Nat
      /\ Len(execQueue) \in Nat /\ bdone \in Nat
  BY <1>1, PipeType, QueueType, Zenon
<1>4. /\ ChainInv(pipe) /\ ContentInv(pipe, execQueue, execPopped)
      /\ TopInv(pipe, execQueue, execPopped) /\ ProgressInv
      /\ BaseInv(pipe, execQueue, execPopped, bstate, bdone, TRUE)
  BY <1>1, <1>2, BaseUp, Zenon DEF ExecInv
<1>5. UNCHANGED <<c2b, execPopped, bstate, bdone, bPortals>>
  BY Zenon DEF backendVars
<1>6. ChainInv(pipe')
  BY <1>2, <1>3, <1>4, ChainAppend, Zenon
<1>7. ContentInv(pipe', execQueue', execPopped') /\ TopInv(pipe', execQueue', execPopped')
  BY <1>2, <1>3, <1>4, <1>5, ContentAppend, Zenon
<1>8. BaseInv(pipe', execQueue', execPopped', bstate', bdone', TRUE)
  BY <1>2, <1>3, <1>4, <1>5, ProgressFacts, BaseAppend, Zenon
<1>9. BaseInv(pipe, execQueue, execPopped, bstate, bdone, up)'
  BY <1>2, <1>8, Zenon DEF BaseInv, IdleInv, DeadInv
<1>10. ProgressInv'
  BY <1>4, <1>5, Zenon DEF ProgressInv, cur
<1>11. ExecInv'
  BY <1>6, <1>7, <1>9, <1>10, Zenon DEF ExecInv
<1>12. ClientInv'
  <2>1. /\ BatchInv(pipe) /\ OpenInv(pipe, open)
        /\ bstate = "skip" => SyncFirst(pipe)
        /\ bstate = "skip" /\ ~open => HasSync(pipe)
    BY <1>1, <1>2, Zenon DEF ClientInv
  <2>2. BatchInv(pipe')
    BY <1>2, <1>3, <2>1, BatchAppend, Zenon
  <2>3. OpenInv(pipe', open')
    BY <1>2, <1>3, <2>1, OpenAppend, Zenon
  <2>4. bstate = "skip" => SyncFirst(pipe') /\ (~open' => HasSync(pipe'))
    BY <1>2, <1>3, <2>1, SyncAppend, Zenon
  <2> QED  BY <1>5, <2>2, <2>3, <2>4, Zenon DEF ClientInv
<1>13. PortalsInv'
  <2>1. MessagesAgree(pipe, bPortals) /\ SessionAgrees(pipe, portals, bPortals)
    BY <1>1, <1>2, Zenon DEF PortalsInv
  <2>2. MessagesAgree(pipe', bPortals) /\ SessionAgrees(pipe', portals', bPortals)
    BY <1>2, <1>3, <2>1, PortalsAppend
  <2> QED  BY <1>1, <1>5, <2>2, Zenon DEF PortalsInv
<1> QED
  BY <1>11, <1>12, <1>13, Zenon DEF IInv

\* The frontend pump returning while it observes a message preserves the
\* invariant, whatever entries e a refused simple query has left behind.
LEMMA EndsStep ==
  ASSUME IInv, TypeOK', NEW e \in Seq(Nat), fpump = "recv", FrontendEnds,
         bstate # "startup", UNCHANGED <<c2b, execPopped, backendVars>>,
         execQueue' = execQueue \o e
  PROVE  IInv'
<1>1. TypeOK /\ ExecInv /\ ClientInv /\ PortalsInv
  BY Zenon DEF IInv
<1>2. pipe' = pipe /\ up /\ ~up'
  BY Zenon DEF FrontendEnds, pipe, up
<1>3. /\ pipe \in Seq(Message) /\ execQueue \in Seq(Nat) /\ execPopped \in Nat
  BY <1>1, PipeType, QueueType, Zenon
<1>4. /\ ChainInv(pipe) /\ ContentInv(pipe, execQueue, execPopped) /\ ProgressInv
      /\ BaseInv(pipe, execQueue, execPopped, bstate, bdone, TRUE)
  BY <1>1, <1>2, BaseUp, Zenon DEF ExecInv
<1>5. UNCHANGED <<c2b, execPopped, bstate, bdone, bPortals>>
  BY Zenon DEF backendVars
<1>6. ContentInv(pipe', execQueue', execPopped')
  BY <1>2, <1>3, <1>4, <1>5, ContentPush, Zenon
<1>7. BaseInv(pipe', execQueue', execPopped', bstate', bdone', FALSE)
  BY <1>2, <1>3, <1>4, <1>5, BasePush, Zenon
<1>8. BaseInv(pipe, execQueue, execPopped, bstate, bdone, up)'
  BY <1>2, <1>7, Zenon DEF BaseInv, IdleInv, DeadInv
<1>9. ProgressInv'
  BY <1>4, <1>5, Zenon DEF ProgressInv, cur
<1>10. ExecInv'
  BY <1>2, <1>4, <1>6, <1>8, <1>9, Zenon DEF ExecInv
<1>11. ClientInv'
  BY <1>1, <1>2, <1>5, Zenon DEF ClientInv
<1>12. PortalsInv'
  BY <1>1, <1>2, <1>5, Zenon DEF PortalsInv
<1> QED
  BY <1>10, <1>11, <1>12, Zenon DEF IInv

-----------------------------------------------------------------------------
(* Frontend steps.                                                          *)

\* Messages without an entry of their own in the queue: Parse, Bind, Describe
\* and Close.
LEMMA SilentStep ==
  ASSUME IInv, TypeOK', NEW m \in Message, fpump = "recv", Observed(m), bstate # "startup",
         UNCHANGED <<c2b, execQueue, execPopped, backendVars>>, open' = TRUE,
         m.slot = execPopped + Len(execQueue), m.width = 0,
         m.type \notin {"Execute", "Sync", "Query"},
         m.type = "DescribeP" => m.obj = portals[m.portal],
         m.type = "CloseP" => m.obj = nil,
         \A nm \in PortalNames :
           portals'[nm] = IF m.type \in {"Bind", "CloseP"} /\ m.portal = nm
                          THEN m.obj ELSE portals[nm]
  PROVE  IInv'
<1>1. execQueue \in Seq(Nat)
  BY QueueType, Zenon DEF IInv
<1>2. execQueue' = execQueue \o <<>> /\ <<>> \in Seq(Nat) /\ Len(<<>>) = 0
  BY <1>1, SeqJoinEmpty
<1>3. Widths(m) /\ \A t \in 1..m.width : <<>>[t] = Entry(m, t)
  BY DEF Widths
<1>4. UNCHANGED <<c2b, execPopped, backendVars>>
  BY Zenon
<1> QED
  BY <1>2, <1>3, <1>4, ObserveStep, Zenon

\* OnParse, OnBind, OnDescribe and OnClose preserve the invariant.
LEMMA OnParseStep ==
  ASSUME IInv, TypeOK', NEW s \in StmtNames, NEW q \in Queries, OnParse(s, q)
  PROVE  IInv'
<1>1. TypeOK /\ fpump = "recv" /\ bstate # "startup" /\ open' = TRUE
  BY Zenon DEF OnParse, MaySend, ClientSent, IInv
<1>2. UNCHANGED <<c2b, execQueue, execPopped, backendVars, portals>>
  BY Zenon DEF OnParse
<1>3. CASE q \in Rejected
  <2>1. execQueue' = execQueue \o <<>> /\ <<>> \in Seq(Nat)
    BY <1>1, <1>2, QueueType, SeqJoinEmpty
  <2>2. FrontendEnds
    BY <1>3, Zenon DEF OnParse
  <2> QED  BY <1>1, <1>2, <2>1, <2>2, EndsStep, Zenon
<1>4. CASE q \notin Rejected
  <2> DEFINE m == Msg("Parse", s, Unnamed, Len(stmt) + 1, <<q>>, 0)
  <2>1. Observed(m)
    BY <1>4, Zenon DEF OnParse
  <2>2. m \in Message
    BY <2>1, Zenon DEF Observed, TypeOK
  <2>3. m.type = "Parse" /\ m.slot = execPopped + Len(execQueue) /\ m.width = 0
    BY Zenon DEF Msg
  <2> HIDE DEF m
  <2>4. \A nm \in PortalNames :
          portals'[nm] = IF m.type \in {"Bind", "CloseP"} /\ m.portal = nm
                         THEN m.obj ELSE portals[nm]
    BY <1>2, <2>3, Zenon
  <2> QED  BY <1>1, <1>2, <2>1, <2>2, <2>3, <2>4, SilentStep, Zenon
<1> QED
  BY <1>3, <1>4, Zenon

\* OnBind: the session's portal is the one of the last Bind of that name.
LEMMA OnBindStep ==
  ASSUME IInv, TypeOK', NEW s \in StmtNames, NEW p \in PortalNames,
         OnBind(s, p) \/ OnBindFails(s, p)
  PROVE  IInv'
<1>1. TypeOK /\ fpump = "recv" /\ bstate # "startup" /\ open' = TRUE
  BY Zenon DEF OnBind, OnBindFails, MaySend, ClientSent, IInv
<1>2. UNCHANGED <<c2b, execQueue, execPopped, backendVars>>
  BY Zenon DEF OnBind, OnBindFails
<1>3. CASE OnBindFails(s, p)
  <2>1. execQueue' = execQueue \o <<>> /\ <<>> \in Seq(Nat)
    BY <1>1, <1>2, QueueType, SeqJoinEmpty
  <2>2. FrontendEnds
    BY <1>3, Zenon DEF OnBindFails
  <2> QED  BY <1>1, <1>2, <2>1, <2>2, EndsStep, Zenon
<1>4. CASE OnBind(s, p)
  <2> DEFINE m == Msg("Bind", s, p, Len(portal) + 1, <<>>, 0)
  <2>1. Observed(m)
    BY <1>4, Zenon DEF OnBind
  <2>2. m \in Message
    BY <2>1, Zenon DEF Observed, TypeOK
  <2>3. /\ m.type = "Bind" /\ m.slot = execPopped + Len(execQueue) /\ m.width = 0
        /\ m.portal = p /\ m.obj = Len(portal) + 1
    BY Zenon DEF Msg
  <2> HIDE DEF m
  <2>4. portals' = [portals EXCEPT ![p] = Len(portal) + 1]
        /\ portals \in [PortalNames -> 0..Len(portal)]
    BY <1>1, <1>4, Zenon DEF OnBind, TypeOK
  <2>5. \A nm \in PortalNames :
          portals'[nm] = IF m.type \in {"Bind", "CloseP"} /\ m.portal = nm
                         THEN m.obj ELSE portals[nm]
    BY <2>3, <2>4, Zenon
  <2> QED  BY <1>1, <1>2, <2>1, <2>2, <2>3, <2>5, SilentStep, Zenon
<1> QED
  BY <1>3, <1>4, Zenon

\* OnDescribe and OnClose.
LEMMA OnDescribeCloseStep ==
  ASSUME IInv, TypeOK', NEW s \in StmtNames, NEW p \in PortalNames,
         OnDescribeS(s) \/ OnDescribeP(p) \/ OnCloseS(s) \/ OnCloseP(p)
  PROVE  IInv'
<1>1. TypeOK /\ fpump = "recv" /\ bstate # "startup" /\ open' = TRUE
  BY Zenon DEF OnDescribeS, OnDescribeP, OnCloseS, OnCloseP, MaySend, ClientSent, IInv
<1>2. UNCHANGED <<c2b, execQueue, execPopped, backendVars>>
  BY Zenon DEF OnDescribeS, OnDescribeP, OnCloseS, OnCloseP
<1>3. PICK m : /\ Observed(m)
               /\ m.slot = execPopped + Len(execQueue) /\ m.width = 0
               /\ m.type \in {"DescribeS", "DescribeP", "CloseS", "CloseP"}
               /\ m.type = "DescribeP" => m.obj = portals[m.portal]
               /\ m.type = "CloseP" => m.obj = nil
               /\ \/ m.type # "CloseP" /\ portals' = portals
                  \/ m.type = "CloseP" /\ m.portal = p /\ m.obj = nil
                     /\ portals' = [portals EXCEPT ![p] = nil]
  <2>1. CASE OnDescribeS(s)
    BY <2>1 DEF OnDescribeS, Msg
  <2>2. CASE OnDescribeP(p)
    BY <2>2 DEF OnDescribeP, Msg
  <2>3. CASE OnCloseS(s)
    BY <2>3 DEF OnCloseS, Msg
  <2>4. CASE OnCloseP(p)
    BY <2>4 DEF OnCloseP, Msg
  <2> QED  BY <2>1, <2>2, <2>3, <2>4, Zenon
<1>4. m \in Message
  BY <1>3, Zenon DEF Observed, TypeOK
<1>5. portals \in [PortalNames -> 0..Len(portal)]
  BY <1>1, Zenon DEF TypeOK
<1>6. \A nm \in PortalNames :
        portals'[nm] = IF m.type \in {"Bind", "CloseP"} /\ m.portal = nm
                       THEN m.obj ELSE portals[nm]
  BY <1>3, <1>5, Zenon
<1>7. m.type \notin {"Execute", "Sync", "Query"}
  BY <1>3, Zenon
<1> QED
  BY <1>1, <1>2, <1>3, <1>4, <1>6, <1>7, SilentStep, Zenon

\* OnExecute.
LEMMA OnExecuteStep ==
  ASSUME IInv, TypeOK', NEW p \in PortalNames, OnExecute(p)
  PROVE  IInv'
<1> DEFINE x == portals[p]
           m == Msg("Execute", Unnamed, p, x, <<>>, IF x = nil THEN 0 ELSE 1)
           e == IF x = nil THEN <<>> ELSE <<x>>
<1>1. TypeOK /\ fpump = "recv" /\ bstate # "startup" /\ open' = TRUE
  BY Zenon DEF OnExecute, MaySend, ClientSent, IInv
<1>2. UNCHANGED <<c2b, execPopped, backendVars, portals>> /\ Observed(m)
  BY Zenon DEF OnExecute
<1>3. m \in Message
  BY <1>2, Zenon DEF Observed, TypeOK
<1>4. /\ m.type = "Execute" /\ m.slot = execPopped + Len(execQueue)
      /\ m.width = (IF x = nil THEN 0 ELSE 1) /\ m.portal = p /\ m.obj = x
  BY Zenon DEF Msg
<1>5. execQueue \in Seq(Nat) /\ x \in Nat
  <2>1. portals \in [PortalNames -> 0..Len(portal)]
    BY <1>1, Zenon DEF TypeOK
  <2>2. x \in Nat
    BY <1>1, <2>1, Lengths
  <2> QED  BY <1>1, <2>2, QueueType, Zenon
<1>6. execQueue' = execQueue \o e /\ e \in Seq(Nat) /\ Len(e) = m.width
  <2>1. CASE x = nil
    BY <1>4, <1>5, <2>1, SeqJoinEmpty DEF OnExecute
  <2>2. CASE x # nil
    <3>1. execQueue' = Append(execQueue, x)
      BY <2>2, Zenon DEF OnExecute
    <3> HIDE DEF x
    <3> QED  BY <1>4, <1>5, <2>2, <3>1
  <2> QED  BY <2>1, <2>2, Zenon
<1>7. \A t \in 1..m.width : e[t] = Entry(m, t)
  <2> HIDE DEF m, x
  <2>1. CASE x = nil
    BY <1>4, <2>1
  <2>2. CASE x # nil
    BY <1>4, <2>2 DEF Entry
  <2> QED  BY <2>1, <2>2, Zenon
<1>8. Widths(m)
  <2> HIDE DEF m, x
  <2> QED  BY <1>4, Zenon DEF Widths
<1>9. \A nm \in PortalNames :
        portals'[nm] = IF m.type \in {"Bind", "CloseP"} /\ m.portal = nm
                       THEN m.obj ELSE portals[nm]
  <2> HIDE DEF m
  <2> QED  BY <1>2, <1>4, Zenon
<1>10. /\ m.type # "Query" /\ m.type # "CloseP" /\ m.obj = portals[m.portal]
  <2> HIDE DEF m
  <2> QED  BY <1>4, Zenon
<1> HIDE DEF m, e, x
<1> QED
  BY <1>1, <1>2, <1>3, <1>4, <1>6, <1>7, <1>8, <1>9, <1>10, ObserveStep, Zenon

\* OnSync.
LEMMA OnSyncStep ==
  ASSUME IInv, TypeOK', OnSync
  PROVE  IInv'
<1> DEFINE m == Msg("Sync", Unnamed, Unnamed, nil, <<>>, 1)
           e == <<syncBoundary>>
<1>1. TypeOK /\ fpump = "recv" /\ bstate # "startup"
  BY Zenon DEF OnSync, MaySend, IInv
<1>2. UNCHANGED <<c2b, execPopped, backendVars, portals>> /\ Observed(m)
  BY Zenon DEF OnSync
<1>3. m \in Message
  BY <1>2, Zenon DEF Observed, TypeOK
<1>4. m.type = "Sync" /\ m.slot = execPopped + Len(execQueue) /\ m.width = 1
  BY Zenon DEF Msg
<1>5. execQueue' = execQueue \o e /\ e \in Seq(Nat) /\ Len(e) = 1 /\ e[1] = syncBoundary
  <2>1. execQueue \in Seq(Nat) /\ syncBoundary \in Nat
    BY <1>1, QueueType, Zenon DEF syncBoundary
  <2>2. execQueue' = Append(execQueue, syncBoundary)
    BY Zenon DEF OnSync
  <2> QED  BY <2>1, <2>2
<1> HIDE DEF m, e
<1>6. Widths(m) /\ \A t \in 1..m.width : e[t] = Entry(m, t)
  BY <1>4, <1>5 DEF Widths, Entry
<1>7. \A nm \in PortalNames :
        portals'[nm] = IF m.type \in {"Bind", "CloseP"} /\ m.portal = nm
                       THEN m.obj ELSE portals[nm]
  BY <1>2, <1>4, Zenon
<1>8. ~Extended(m)
  BY <1>4, Zenon DEF Extended
<1> QED
  BY <1>1, <1>2, <1>3, <1>4, <1>5, <1>6, <1>7, <1>8, ObserveStep, Zenon

\* OnQuery, for a client that sends no simple query inside an unsynced batch.
LEMMA OnQueryStep ==
  ASSUME IInv, TypeOK', ~QueryInBatch, NEW t \in SimpleTexts, OnQuery(t)
  PROVE  IInv'
<1> DEFINE m == Msg("Query", Unnamed, Unnamed, Len(portal) + 1, t, Len(t) + 1)
           E(k) == [i \in 1..k |-> Len(portal) + i]
<1>1. TypeOK /\ fpump = "recv" /\ bstate # "startup" /\ ~open
  BY Zenon DEF OnQuery, MaySend, IInv
<1>2. UNCHANGED <<c2b, execPopped, backendVars, portals>>
  BY Zenon DEF OnQuery
<1>3. Len(portal) \in Nat /\ execQueue \in Seq(Nat) /\ Len(t) \in Nat
  BY <1>1, Lengths, QueueType, TextsAssumption, SeqLength, Zenon
<1>4. PICK k \in 0..Len(t) :
        IF k < Len(t)
        THEN FrontendEnds /\ execQueue' = execQueue \o E(k)
        ELSE Observed(m) /\ execQueue' = execQueue \o Append(E(k), syncBoundary)
  BY Zenon DEF OnQuery
<1>5. /\ E(k) \in Seq(Nat) /\ Len(E(k)) = k /\ \A i \in 1..k : E(k)[i] = Len(portal) + i
  BY <1>3
<1>6. CASE k < Len(t)
  <2> HIDE DEF E
  <2>1. FrontendEnds /\ execQueue' = execQueue \o E(k)
    BY <1>4, <1>6, Zenon
  <2>2. UNCHANGED <<c2b, execPopped, backendVars>>
    BY <1>2, Zenon
  <2> QED  BY <1>1, <1>5, <2>1, <2>2, EndsStep, Zenon
<1>7. CASE ~(k < Len(t))
  <2>0. k = Len(t) /\ Observed(m) /\ execQueue' = execQueue \o Append(E(k), syncBoundary)
    <3>1. k = Len(t)
      BY <1>3, <1>7
    <3> HIDE DEF E, m
    <3> QED  BY <1>4, <1>7, <3>1, Zenon
  <2>1. m \in Message
    BY <2>0, Zenon DEF Observed, TypeOK
  <2>2. /\ m.type = "Query" /\ m.slot = execPopped + Len(execQueue) /\ m.width = Len(t) + 1
        /\ m.obj = Len(portal) + 1 /\ m.text = t
    BY Zenon DEF Msg
  <2> HIDE DEF m, E
  <2> DEFINE e == Append(E(k), syncBoundary)
  <2>3. /\ execQueue' = execQueue \o e /\ e \in Seq(Nat) /\ Len(e) = k + 1
        /\ e[k + 1] = syncBoundary /\ \A i \in 1..k : e[i] = E(k)[i]
    <3>1. syncBoundary \in Nat
      BY DEF syncBoundary
    <3>2. e \in Seq(Nat) /\ Len(e) = k + 1
      BY <1>5, <3>1
    <3>3. e[k + 1] = syncBoundary /\ \A i \in 1..k : e[i] = E(k)[i]
      BY <1>5, <3>1
    <3> HIDE DEF e
    <3>4. execQueue' = execQueue \o e
      BY <2>0, Zenon DEF e
    <3> QED  BY <3>2, <3>3, <3>4, Zenon
  <2> HIDE DEF e
  <2>4. \A u \in 1..m.width : e[u] = Entry(m, u)
    <3> SUFFICES ASSUME NEW u \in 1..m.width PROVE e[u] = Entry(m, u)
      OBVIOUS
    <3>1. CASE u = k + 1
      BY <1>3, <2>0, <2>2, <2>3, <3>1 DEF Entry
    <3>2. CASE u # k + 1
      <4>1. u \in 1..k /\ u < m.width
        BY <1>3, <2>0, <2>2, <3>2
      <4>2. e[u] = Len(portal) + u
        BY <1>5, <2>3, <4>1
      <4>3. Entry(m, u) = m.obj + u - 1
        BY <2>2, <4>1, Zenon DEF Entry
      <4> QED  BY <1>3, <2>2, <4>1, <4>2, <4>3
    <3> QED  BY <3>1, <3>2, Zenon
  <2>5. Widths(m)
    BY <1>3, <2>2 DEF Widths, nil
  <2>6. \A nm \in PortalNames :
          portals'[nm] = IF m.type \in {"Bind", "CloseP"} /\ m.portal = nm
                         THEN m.obj ELSE portals[nm]
    BY <1>2, <2>2, Zenon
  <2>7. ~Extended(m) /\ Len(e) = m.width /\ m.type # "CloseP"
        /\ m.type \notin {"Execute", "DescribeP"}
    BY <2>0, <2>2, <2>3, Zenon DEF Extended
  <2>8. UNCHANGED <<c2b, execPopped, backendVars>>
    BY <1>2, Zenon
  <2> QED
    BY <1>1, <2>0, <2>1, <2>2, <2>3, <2>4, <2>5, <2>6, <2>7, <2>8, ObserveStep, Zenon
<1> QED
  BY <1>6, <1>7, Zenon

\* Sending the observed message leaves the pipe as it is.
LEMMA SendStep ==
  ASSUME IInv, TypeOK', Send
  PROVE  IInv'
<1>1. TypeOK /\ ExecInv /\ ClientInv /\ PortalsInv
  BY DEF IInv
<1>2. pipe' = pipe /\ up /\ up'
  BY Zenon DEF Send, pipe, up
<1>3. UNCHANGED <<execQueue, execPopped, bstate, bdone, open, portals, bPortals>>
  BY Zenon DEF Send, sessionVars, clientVars, backendVars
<1>4. ProgressInv'
  <2>1. c2b # <<>> => c2b' # <<>> /\ cur' = cur
    <3>1. c2b \in Seq(Message) /\ fmsg \in Message /\ c2b' = Append(c2b, fmsg)
      BY <1>1 DEF Send, TypeOK
    <3>2. c2b # <<>> => Head(Append(c2b, fmsg)) = Head(c2b)
      BY <3>1
    <3> QED  BY <3>1, <3>2, AppendFacts, Zenon DEF cur
  <2>2. ProgressInv /\ (c2b = <<>> => bdone = 0 /\ bstate # "failed") /\ bdone \in Nat
    BY <1>1, QueueType DEF ExecInv, ProgressInv
  <2>3. CASE c2b # <<>>
    BY <1>3, <2>1, <2>2, <2>3, Zenon DEF ProgressInv
  <2>4. CASE c2b = <<>>
    <3>1. bdone' = 0 /\ bstate' # "failed"
      BY <1>3, <2>2, <2>4, Zenon
    <3>2. cur' = fmsg /\ fmsg \in Message
      BY <1>1, <2>4 DEF Send, TypeOK, cur
    <3>3. Len(cur'.text) \in Nat
      BY <3>2, SeqLength, Zenon DEF Message
    <3> QED  BY <3>1, <3>2, <3>3 DEF ProgressInv
  <2> QED  BY <2>3, <2>4, Zenon
<1>5. ExecInv'
  BY <1>1, <1>2, <1>3, <1>4 DEF ExecInv, BaseInv, IdleInv, DeadInv
<1>6. ClientInv' /\ PortalsInv'
  BY <1>1, <1>2, <1>3, Zenon DEF ClientInv, PortalsInv
<1> QED
  BY <1>5, <1>6 DEF IInv

\* Losing the client, with or without a message that was not yet sent.
LEMMA ClientGoneStep ==
  ASSUME IInv, TypeOK', ClientGone
  PROVE  IInv'
<1>1. TypeOK /\ ExecInv /\ ClientInv /\ PortalsInv
  BY Zenon DEF IInv
<1>2. pipe' = c2b /\ up /\ ~up' /\ c2b \in Seq(Message) /\ fmsg \in Message
  BY <1>1, Zenon DEF ClientGone, pipe, up, TypeOK
<1>3. UNCHANGED <<c2b, execQueue, execPopped, bstate, bdone, bPortals>>
  BY Zenon DEF ClientGone, sessionVars, backendVars
<1>4. ProgressInv /\ ProgressInv' /\ (bstate = "failed" => c2b # <<>>)
  BY <1>1, <1>3, Zenon DEF ExecInv, ProgressInv, cur
<1>5. /\ ChainInv(pipe) /\ ContentInv(pipe, execQueue, execPopped)
      /\ BaseInv(pipe, execQueue, execPopped, bstate, bdone, TRUE)
      /\ BatchInv(pipe) /\ MessagesAgree(pipe, bPortals)
      /\ bstate = "skip" => SyncFirst(pipe) /\ bPortals = NoPortals
  BY <1>1, <1>2, BaseUp, Zenon DEF ExecInv, ClientInv, PortalsInv
<1>6. /\ ChainInv(c2b) /\ ContentInv(c2b, execQueue, execPopped)
      /\ BaseInv(c2b, execQueue, execPopped, bstate, bdone, FALSE)
      /\ BatchInv(c2b) /\ MessagesAgree(c2b, bPortals)
      /\ bstate = "skip" => SyncFirst(c2b)
  <2>1. CASE fpump = "send"
    <3>1. pipe = Append(c2b, fmsg)
      BY <2>1, Zenon DEF pipe
    <3> QED  BY <1>2, <1>4, <1>5, <3>1, Dropped, Zenon
  <2>2. CASE fpump # "send"
    <3>1. pipe = c2b
      BY <2>2, Zenon DEF pipe
    <3>2. BaseInv(c2b, execQueue, execPopped, bstate, bdone, FALSE)
      BY <1>5, <3>1, Zenon DEF BaseInv, IdleInv, DeadInv
    <3> QED  BY <1>5, <3>1, <3>2, Zenon
  <2> QED  BY <2>1, <2>2, Zenon
<1>7. BaseInv(pipe, execQueue, execPopped, bstate, bdone, up)'
  BY <1>2, <1>3, <1>6, Zenon DEF BaseInv, IdleInv, DeadInv
<1>8. ExecInv'
  BY <1>2, <1>3, <1>4, <1>6, <1>7, Zenon DEF ExecInv
<1>9. ClientInv' /\ PortalsInv'
  BY <1>2, <1>3, <1>5, <1>6, Zenon DEF ClientInv, PortalsInv
<1> QED
  BY <1>8, <1>9, Zenon DEF IInv

\* Every frontend step preserves the invariant.
LEMMA FrontendStep ==
  ASSUME IInv, TypeOK', ~QueryInBatch, Frontend
  PROVE  IInv'
<1>1. ASSUME NEW s \in StmtNames, NEW q \in Queries, OnParse(s, q) PROVE IInv'
  BY <1>1, OnParseStep, Zenon
<1>2. ASSUME NEW s \in StmtNames, NEW p \in PortalNames, OnBind(s, p) \/ OnBindFails(s, p)
      PROVE  IInv'
  BY <1>2, OnBindStep, Zenon
<1>3. ASSUME NEW p \in PortalNames, OnExecute(p) PROVE IInv'
  BY <1>3, OnExecuteStep, Zenon
<1>4. ASSUME NEW p \in PortalNames, OnDescribeP(p) \/ OnCloseP(p) PROVE IInv'
  BY <1>4, OnDescribeCloseStep, NamesAssumption, Zenon
<1>5. ASSUME NEW s \in StmtNames, OnDescribeS(s) \/ OnCloseS(s) PROVE IInv'
  BY <1>5, OnDescribeCloseStep, NamesAssumption, Zenon
<1>6. ASSUME NEW t \in SimpleTexts, OnQuery(t) PROVE IInv'
  BY <1>6, OnQueryStep, Zenon
<1> QED
  BY <1>1, <1>2, <1>3, <1>4, <1>5, <1>6, OnSyncStep, SendStep, ClientGoneStep, Zenon
    DEF Frontend

-----------------------------------------------------------------------------
(* Backend steps.                                                           *)

\* When all entries of the finished message are popped the backend's next
\* answer is for the next message's first entry.
LEMMA IdleTail ==
  ASSUME NEW p \in Seq(Message), p # <<>>, NEW S, NEW q \in Seq(S), NEW n \in Nat,
         NEW k \in 0..Len(q), NEW u, ChainInv(p), u => TopInv(p, q, n), n + k = Ends(p[1])
  PROVE  IdleInv(Tail(p), Rest(q, k), n + k, 0, u)
<1>1. Len(q) \in Nat /\ k \in Nat /\ Len(Rest(q, k)) = Len(q) - k /\ Rest(q, k) \in Seq(S)
  BY RestFacts, SeqLength
<1>2. Len(p) \in Nat /\ Len(p) >= 1 /\ Len(Tail(p)) = Len(p) - 1 /\ Tail(p) \in Seq(Message)
  BY TailFacts, Zenon
<1>3. CASE Tail(p) # <<>>
  <2>1. Len(Tail(p)) \in Nat \ {0}
    BY <1>2, <1>3, SeqEmpty, Zenon
  <2>2. 1 \in 1..Len(Tail(p)) /\ 1 \in 1..Len(p) /\ 1 + 1 <= Len(p)
    BY <1>2, <2>1
  <2>3. Tail(p)[1] = p[1 + 1]
    BY <2>2, TailFacts, Zenon
  <2>4. p[1 + 1].slot = Ends(p[1])
    BY <2>2, Zenon DEF ChainInv
  <2>5. p[1 + 1].slot \in Nat
    BY <1>2, <2>2, Numbers
  <2> QED  BY <1>3, <2>3, <2>4, <2>5 DEF IdleInv
<1>4. CASE Tail(p) = <<>>
  <2>1. Len(p) = 1
    <3>1. Len(Tail(p)) = 0
      BY <1>4, SeqEmpty, Zenon
    <3> DEFINE r == Tail(p)
    <3>2. Len(r) = 0 /\ Len(r) = Len(p) - 1 /\ Len(p) \in Nat
      BY <1>2, <3>1, Zenon
    <3> HIDE DEF r
    <3> QED  BY ONLY <3>2
  <2>2. u => n + Len(q) = n + k
    <3>1. u /\ p # <<>> => Ends(p[Len(p)]) = n + Len(q)
      BY Zenon DEF TopInv
    <3> QED  BY <2>1, <3>1, Zenon
  <2>3. u => Rest(q, k) = <<>>
    <3>1. u => Len(Rest(q, k)) = 0
      BY <1>1, <2>2
    <3> QED  BY <1>1, <3>1, SeqEmpty, Zenon
  <2> QED  BY <1>4, <2>3, Zenon DEF IdleInv
<1> QED
  BY <1>3, <1>4, Zenon

\* Finishing the head of the pipe while the handler pops k entries.
LEMMA FinishStep ==
  ASSUME IInv, TypeOK', c2b # <<>>, Finished, UNCHANGED <<pumpVars, clientVars, portals>>,
         NEW k \in 0..Len(execQueue), PopExec(k), bstate' \in {"idle", "skip"},
         BaseInv(Tail(pipe), Rest(execQueue, k), execPopped + k, bstate', 0, up),
         bstate' = "skip" => /\ SyncFirst(Tail(pipe))
                             /\ up /\ ~open => HasSync(Tail(pipe))
                             /\ bPortals' = NoPortals,
         \A nm \in PortalNames :
           \/ bPortals'[nm].obj = nil
           \/ ~Binds(pipe, 1, nm) /\ bPortals'[nm].obj = bPortals[nm].obj
           \/ Binds(pipe, 1, nm) /\ bPortals'[nm].obj = pipe[1].obj
  PROVE  IInv'
<1>1. TypeOK /\ ExecInv /\ ClientInv /\ PortalsInv
  BY Zenon DEF IInv
<1>2. UNCHANGED <<fpump, fmsg, open, portals>>
  BY Zenon DEF pumpVars, clientVars
<1>3. /\ pipe' = Tail(pipe) /\ pipe # <<>> /\ pipe \in Seq(Message) /\ (up' <=> up)
  BY <1>1, <1>2, PipeTail, PipeType, Zenon DEF Finished, up
<1>4. /\ execQueue' = Rest(execQueue, k) /\ execPopped' = execPopped + k
      /\ execQueue \in Seq(Nat) /\ execPopped \in Nat /\ bdone' = 0
  BY <1>1, QueueType, Zenon DEF PopExec, Finished
<1>5. ChainInv(pipe')
  BY <1>1, <1>3, ChainTail, Zenon DEF ExecInv
<1>6. /\ ContentInv(Tail(pipe), execQueue, execPopped)
      /\ up => TopInv(Tail(pipe), execQueue, execPopped)
  BY <1>1, <1>3, ContentTail, TopTail, Zenon DEF ExecInv
<1>7. ContentInv(pipe', execQueue', execPopped') /\ (up => TopInv(pipe', execQueue', execPopped'))
  BY <1>3, <1>4, <1>6, ContentPop, TailFacts, Zenon
<1>8. BaseInv(pipe', execQueue', execPopped', bstate', bdone', up')
  BY <1>3, <1>4, Zenon DEF BaseInv, IdleInv, DeadInv
<1>9. ProgressInv'
  <2>1. c2b' # <<>> => cur' \in Message
    <3>1. c2b \in Seq(Message) /\ c2b' \in Seq(Message)
      BY <1>1, Zenon DEF TypeOK
    <3>2. c2b' # <<>> => Head(c2b') \in Message
      BY <3>1, SeqTail, Zenon
    <3> QED  BY <3>2, Zenon DEF cur
  <2>2. cur' \in Message => Len(cur'.text) \in Nat
    BY SeqLength, Zenon DEF Message
  <2>3. c2b' # <<>> => bdone' <= Len(cur'.text)
    BY <1>4, <2>1, <2>2
  <2>4. ~(bdone' > 0) /\ bstate' # "failed"
    BY <1>4
  <2> QED  BY <2>3, <2>4, Zenon DEF ProgressInv
<1>10. ExecInv'
  BY <1>3, <1>5, <1>7, <1>8, <1>9, Zenon DEF ExecInv
<1>11. ClientInv'
  <2>1. BatchInv(pipe')
    BY <1>1, <1>3, BatchTail, Zenon DEF ClientInv
  <2>2. up => OpenInv(pipe', open)
    BY <1>1, <1>3, OpenTail, Zenon DEF ClientInv
  <2> QED  BY <1>2, <1>3, <2>1, <2>2, Zenon DEF ClientInv
<1>12. PortalsInv'
  <2>1. MessagesAgree(pipe, bPortals) /\ (up => SessionAgrees(pipe, portals, bPortals))
    BY <1>1, Zenon DEF PortalsInv
  <2>2. /\ MessagesAgree(pipe', bPortals')
        /\ up => SessionAgrees(pipe', portals, bPortals')
    BY <1>3, <2>1, PortalsTail, Zenon
  <2> QED  BY <1>2, <1>3, <2>2, Zenon DEF PortalsInv
<1> QED
  BY <1>10, <1>11, <1>12, Zenon DEF IInv

\* While the backend works on a message, the queue starts with the entries of
\* that message it has not answered yet.
LEMMA IdleFacts ==
  ASSUME IInv, c2b # <<>>, bstate = "idle"
  PROVE  /\ pipe \in Seq(Message) /\ pipe # <<>> /\ pipe[1] = cur /\ cur \in Message
         /\ cur.slot \in Nat /\ cur.width \in Nat /\ cur.obj \in Nat
         /\ Ends(cur) = cur.slot + cur.width /\ Widths(cur)
         /\ execPopped = cur.slot + bdone /\ bdone \in Nat
         /\ cur.type # "Query" => bdone = 0
         /\ Len(execQueue) \in Nat /\ cur.width <= bdone + Len(execQueue)
         /\ \A j \in Nat : 1 <= j /\ bdone + j <= cur.width =>
              j \in 1..Len(execQueue) /\ execQueue[j] = Entry(cur, bdone + j)
<1>1. TypeOK /\ ExecInv
  BY Zenon DEF IInv
<1>2. pipe \in Seq(Message) /\ pipe # <<>> /\ pipe[1] = cur /\ cur \in Message
  BY <1>1, PipeType, Zenon
<1>3. 1 \in 1..Len(pipe)
  <2>1. Len(pipe) \in Nat \ {0}
    BY <1>2, SeqEmpty, Zenon
  <2> QED  BY <2>1
<1>4. /\ cur.slot \in Nat /\ cur.width \in Nat /\ cur.obj \in Nat
      /\ Ends(cur) = cur.slot + cur.width
  BY <1>2, <1>3, Numbers, Zenon
<1>5. Widths(cur)
  BY <1>1, <1>2, <1>3, Zenon DEF ExecInv, ChainInv
<1>6. execPopped = cur.slot + bdone
  BY <1>1, <1>2, Zenon DEF ExecInv, BaseInv, IdleInv
<1>7. Len(execQueue) \in Nat /\ execPopped \in Nat /\ bdone \in Nat
  BY <1>1, QueueType, Zenon
<1>8. cur.type # "Query" => bdone = 0
  BY <1>1, <1>7 DEF ExecInv, ProgressInv
<1>9. /\ Ends(cur) <= execPopped + Len(execQueue)
      /\ \A t \in 1..cur.width :
           cur.slot + t > execPopped => execQueue[cur.slot + t - execPopped] = Entry(cur, t)
  BY <1>1, <1>2, <1>3, Zenon DEF ExecInv, ContentInv
<1>10. cur.width <= bdone + Len(execQueue)
  BY <1>4, <1>6, <1>7, <1>9
<1>11. ASSUME NEW j \in Nat, 1 <= j, bdone + j <= cur.width
       PROVE  j \in 1..Len(execQueue) /\ execQueue[j] = Entry(cur, bdone + j)
  <2>1. /\ bdone + j \in 1..cur.width /\ cur.slot + (bdone + j) > execPopped
        /\ cur.slot + (bdone + j) - execPopped = j /\ j \in 1..Len(execQueue)
    BY <1>4, <1>6, <1>7, <1>10, <1>11
  <2> QED  BY <1>9, <2>1, Zenon
<1> QED
  BY <1>2, <1>4, <1>5, <1>6, <1>7, <1>8, <1>10, <1>11, Zenon

\* Popping nothing.
LEMMA PopNothing ==
  ASSUME TypeOK, UNCHANGED <<execQueue, execPopped>>
  PROVE  PopExec(0) /\ 0 \in 0..Len(execQueue)
<1>1. execQueue \in Seq(Nat) /\ Len(execQueue) \in Nat /\ execPopped \in Nat
  BY QueueType, Zenon
<1>2. Rest(execQueue, 0) = execQueue
  BY <1>1, SubSeqAll DEF Rest
<1> QED
  BY <1>1, <1>2 DEF PopExec

\* The answer to a message without an entry: ParseComplete, BindComplete,
\* CloseComplete, RowDescription and NoData.
LEMMA SilentAnswerStep ==
  ASSUME IInv, TypeOK', c2b # <<>>, Finished, bstate = "idle", bstate' = "idle",
         UNCHANGED <<pumpVars, clientVars, portals, execQueue, execPopped>>,
         cur.type \notin {"Execute", "Sync", "Query"},
         \A nm \in PortalNames :
           \/ bPortals'[nm].obj = nil
           \/ ~Binds(pipe, 1, nm) /\ bPortals'[nm].obj = bPortals[nm].obj
           \/ Binds(pipe, 1, nm) /\ bPortals'[nm].obj = pipe[1].obj
  PROVE  IInv'
<1>1. TypeOK /\ ExecInv
  BY Zenon DEF IInv
<1>2. PopExec(0) /\ 0 \in 0..Len(execQueue)
  BY <1>1, PopNothing, Zenon
<1>3. /\ pipe \in Seq(Message) /\ pipe # <<>> /\ pipe[1] = cur
      /\ Ends(cur) = cur.slot + cur.width /\ Widths(cur)
      /\ execPopped = cur.slot + bdone /\ bdone = 0 /\ cur.slot \in Nat /\ execPopped \in Nat
  BY <1>1, IdleFacts, QueueType, Zenon
<1>4. execPopped + 0 = Ends(pipe[1])
  <2>1. cur.width = 0
    BY <1>3, Zenon DEF Widths
  <2> QED  BY <1>3, <2>1
<1>5. IdleInv(Tail(pipe), Rest(execQueue, 0), execPopped + 0, 0, up)
  <2>1. execQueue \in Seq(Nat) /\ ChainInv(pipe) /\ (up => TopInv(pipe, execQueue, execPopped))
    BY <1>1, QueueType, Zenon DEF ExecInv
  <2> HIDE DEF up
  <2> QED  BY <1>2, <1>3, <1>4, <2>1, IdleTail, Zenon
<1>6. BaseInv(Tail(pipe), Rest(execQueue, 0), execPopped + 0, bstate', 0, up)
  BY <1>5, Zenon DEF BaseInv
<1>7. UNCHANGED <<pumpVars, clientVars, portals>> /\ bstate' # "skip" /\ bstate' \in {"idle", "skip"}
  BY Zenon
<1> QED
  BY <1>2, <1>6, <1>7, FinishStep, Zenon

\* ParseComplete, BindComplete, CloseComplete, RowDescription, NoData.
LEMMA CompletesStep ==
  ASSUME IInv, TypeOK', Parsed \/ Bound \/ Closed \/ RowDescription \/ NoData
  PROVE  IInv'
<1>1. /\ TypeOK /\ c2b # <<>> /\ Finished /\ bstate = "idle" /\ bstate' = "idle"
      /\ cur.type \notin {"Execute", "Sync", "Query"}
  BY Zenon DEF IInv, Parsed, Bound, Closed, RowDescription, NoData, Working
<1>2. UNCHANGED <<pumpVars, clientVars, portals, execQueue, execPopped>>
  BY Zenon DEF Parsed, Bound, Closed, RowDescription, NoData, OnRowDescription, OnNoData,
    sessionVars
<1>3. pipe[1] = cur /\ cur \in Message
  BY <1>1, PipeType, Zenon
<1>4. bPortals \in [PortalNames -> [obj : 0..Len(portal), stmt : 0..Len(stmt)]]
  BY <1>1 DEF TypeOK
<1>5. ASSUME NEW nm \in PortalNames
      PROVE  \/ bPortals'[nm].obj = nil
             \/ ~Binds(pipe, 1, nm) /\ bPortals'[nm].obj = bPortals[nm].obj
             \/ Binds(pipe, 1, nm) /\ bPortals'[nm].obj = pipe[1].obj
  <2>1. Binds(pipe, 1, nm) <=> cur.type \in {"Bind", "CloseP"} /\ cur.portal = nm
    BY <1>3, Zenon DEF Binds
  <2>2. CASE Parsed \/ RowDescription \/ NoData
    <3>1. bPortals' = bPortals /\ cur.type \notin {"Bind", "CloseP"}
      BY <2>2, Zenon DEF Parsed, RowDescription, NoData, Working
    <3> QED  BY <2>1, <3>1
  <2>3. CASE Bound
    <3>1. /\ cur.type = "Bind"
          /\ bPortals' = [bPortals EXCEPT ![cur.portal] = [obj  |-> cur.obj,
                                                           stmt |-> bStmts[cur.stmt]]]
      BY <2>3, Zenon DEF Bound, Working
    <3> QED  BY <1>3, <1>4, <2>1, <3>1, Zenon
  <2>4. CASE Closed /\ cur.type = "CloseP"
    <3>1. bPortals' = [bPortals EXCEPT ![cur.portal] = [obj |-> nil, stmt |-> nil]]
      BY <2>4, Zenon DEF Closed
    <3> QED  BY <1>4, <2>1, <3>1
  <2>5. CASE Closed /\ cur.type # "CloseP"
    <3>1. /\ cur.type = "CloseS"
          /\ bPortals' = [p \in PortalNames |->
                            IF bPortals[p].stmt = bStmts[cur.stmt]
                            THEN [obj |-> nil, stmt |-> nil] ELSE bPortals[p]]
      BY <2>5, Zenon DEF Closed, Working
    <3> QED  BY <2>1, <3>1, Zenon
  <2> QED  BY <2>2, <2>3, <2>4, <2>5, Zenon
<1> QED
  BY <1>1, <1>2, <1>5, SilentAnswerStep, Zenon

\* The Execute the backend answers names the object the backend holds, and its
\* entry heads the queue.
LEMMA ExecuteFacts ==
  ASSUME IInv, Working({"Execute"}), Executing.obj # nil
  PROVE  /\ cur.obj = Executing.obj /\ cur.width = 1
         /\ CurrentExecuting = cur.obj /\ 1 \in 0..Len(execQueue)
<1>1. c2b # <<>> /\ bstate = "idle" /\ cur.type = "Execute" /\ TypeOK /\ PortalsInv
  BY Zenon DEF Working, IInv
<1>2. pipe \in Seq(Message) /\ pipe # <<>> /\ pipe[1] = cur
  BY <1>1, IdleFacts, Zenon
<1>3. 1 \in 1..Len(pipe) /\ 1 - 1 = 0
  <2>1. Len(pipe) \in Nat \ {0}
    BY <1>2, SeqEmpty, Zenon
  <2> QED  BY <2>1
<1>4. Agrees(pipe, 0, cur.portal, cur.obj, bPortals)
  BY <1>1, <1>2, <1>3, Zenon DEF PortalsInv, MessagesAgree
<1>5. NoneBinds(pipe, 0, cur.portal)
  BY DEF NoneBinds
<1>6. cur.obj = Executing.obj
  BY <1>4, <1>5, Zenon DEF Agrees, Executing
<1>7. cur.width = 1 /\ bdone = 0
  BY <1>1, <1>6, IdleFacts, Zenon DEF Widths
<1>8. 1 \in 1..Len(execQueue) /\ execQueue[1] = cur.obj
  <2>1. 1 \in 1..Len(execQueue) /\ execQueue[1] = Entry(cur, bdone + 1)
    <3>1. 1 \in Nat /\ 1 <= 1 /\ bdone + 1 <= cur.width
      BY <1>7
    <3> QED  BY <1>1, <3>1, IdleFacts, Zenon
  <2> QED  BY <1>1, <1>7, <2>1, Zenon DEF Entry
<1>9. CurrentExecuting = cur.obj
  <2>1. execQueue \in Seq(Nat)
    BY <1>1, QueueType, Zenon
  <2>2. execQueue # <<>> /\ Head(execQueue) = execQueue[1]
    BY <1>8, <2>1
  <2> QED  BY <1>8, <2>2, Zenon DEF CurrentExecuting
<1> QED
  BY <1>6, <1>7, <1>8, <1>9

\* The same for a statement of a simple query.
LEMMA QueryFacts ==
  ASSUME IInv, Working({"Query"}), bdone < Len(cur.text)
  PROVE  /\ CurrentExecuting = cur.obj + bdone /\ CurrentExecuting # nil
         /\ 1 \in 0..Len(execQueue) /\ cur.width = Len(cur.text) + 1 /\ Len(cur.text) \in Nat
<1>1. c2b # <<>> /\ bstate = "idle" /\ cur.type = "Query" /\ TypeOK
  BY DEF Working, IInv
<1>2. /\ cur.width = Len(cur.text) + 1 /\ cur.obj # nil /\ cur.obj \in Nat /\ bdone \in Nat
      /\ cur \in Message
  BY <1>1, IdleFacts, Zenon DEF Widths
<1>3. Len(cur.text) \in Nat
  BY <1>2, SeqLength, Zenon DEF Message
<1>4. 1 \in 1..Len(execQueue) /\ execQueue[1] = cur.obj + bdone
  <2>1. 1 \in Nat /\ 1 <= 1 /\ bdone + 1 <= cur.width
    BY <1>2, <1>3
  <2>2. 1 \in 1..Len(execQueue) /\ execQueue[1] = Entry(cur, bdone + 1)
    BY <1>1, <2>1, IdleFacts, Zenon
  <2>3. Entry(cur, bdone + 1) = cur.obj + (bdone + 1) - 1
    BY <1>1, <1>2, <1>3 DEF Entry
  <2> QED  BY <1>2, <2>2, <2>3
<1>5. CurrentExecuting = cur.obj + bdone
  <2>1. execQueue \in Seq(Nat)
    BY <1>1, QueueType, Zenon
  <2>2. execQueue # <<>> /\ Head(execQueue) = execQueue[1]
    BY <1>4, <2>1
  <2> QED  BY <1>4, <2>2, Zenon DEF CurrentExecuting
<1>6. CurrentExecuting # nil
  BY <1>2, <1>5 DEF nil
<1> QED
  BY <1>2, <1>3, <1>4, <1>5, <1>6

\* CommandComplete of an Execute.
LEMMA ExecuteDoneStep ==
  ASSUME IInv, TypeOK', ExecuteDone
  PROVE  IInv'
<1>1. /\ TypeOK /\ ExecInv /\ c2b # <<>> /\ Finished /\ bstate = "idle" /\ bstate' = "idle"
      /\ Working({"Execute"}) /\ Executing.obj # nil /\ cur.type = "Execute"
  BY DEF IInv, ExecuteDone, Working
<1>2. cur.width = 1 /\ 1 \in 0..Len(execQueue) /\ CurrentExecuting # nil
  BY <1>1, ExecuteFacts, Zenon
<1>3. PopExec(1) /\ UNCHANGED <<pumpVars, clientVars, portals, bPortals>>
  BY <1>2, Zenon DEF ExecuteDone, popExecuting
<1>4. /\ pipe \in Seq(Message) /\ pipe # <<>> /\ pipe[1] = cur /\ bdone = 0
      /\ Ends(cur) = cur.slot + cur.width /\ execPopped = cur.slot + bdone
      /\ cur.slot \in Nat /\ execPopped \in Nat /\ execQueue \in Seq(Nat)
  BY <1>1, IdleFacts, QueueType, Zenon
<1>5. execPopped + 1 = Ends(pipe[1])
  BY <1>2, <1>4
<1>6. IdleInv(Tail(pipe), Rest(execQueue, 1), execPopped + 1, 0, up)
  <2>1. ChainInv(pipe) /\ (up => TopInv(pipe, execQueue, execPopped))
    BY <1>1, Zenon DEF ExecInv
  <2> HIDE DEF up
  <2> QED  BY <1>2, <1>4, <1>5, <2>1, IdleTail, Zenon
<1>7. BaseInv(Tail(pipe), Rest(execQueue, 1), execPopped + 1, bstate', 0, up)
  BY <1>1, <1>6, Zenon DEF BaseInv
<1>8. \A nm \in PortalNames :
        ~Binds(pipe, 1, nm) /\ bPortals'[nm].obj = bPortals[nm].obj
  BY <1>1, <1>3, <1>4, Zenon DEF Binds
<1>9. UNCHANGED <<pumpVars, clientVars, portals>> /\ bstate' # "skip" /\ bstate' \in {"idle", "skip"}
  BY <1>1, <1>3, Zenon
<1> QED
  BY <1>1, <1>2, <1>3, <1>7, <1>8, <1>9, FinishStep

\* CommandComplete of a statement of a simple query.
LEMMA QueryStatementDoneStep ==
  ASSUME IInv, TypeOK', QueryStatementDone
  PROVE  IInv'
<1>1. /\ TypeOK /\ ExecInv /\ ClientInv /\ PortalsInv /\ c2b # <<>>
      /\ bstate = "idle" /\ Working({"Query"}) /\ cur.type = "Query" /\ bdone < Len(cur.text)
  BY Zenon DEF IInv, QueryStatementDone, Working
<1>2. /\ CurrentExecuting # nil /\ 1 \in 0..Len(execQueue) /\ Len(cur.text) \in Nat
  BY <1>1, QueryFacts
<1>3. /\ PopExec(1) /\ bdone' = bdone + 1
      /\ UNCHANGED <<fpump, fmsg, c2b, open, portals, bstate, bPortals>>
  BY <1>2, Zenon DEF QueryStatementDone, popExecuting, pumpVars, clientVars
<1>4. pipe' = pipe /\ (up' <=> up)
  BY <1>3, Zenon DEF pipe, up
<1>5. /\ pipe \in Seq(Message) /\ pipe # <<>> /\ pipe[1] = cur
      /\ execPopped = cur.slot + bdone /\ cur.slot \in Nat /\ bdone \in Nat
      /\ execQueue \in Seq(Nat) /\ execPopped \in Nat
  BY <1>1, IdleFacts, QueueType, Zenon
<1>6. execQueue' = Rest(execQueue, 1) /\ execPopped' = execPopped + 1
  BY <1>3 DEF PopExec
<1>7. /\ ContentInv(pipe', execQueue', execPopped')
      /\ up => TopInv(pipe', execQueue', execPopped')
  BY <1>1, <1>2, <1>4, <1>5, <1>6, ContentPop, Zenon DEF ExecInv
<1>8. BaseInv(pipe', execQueue', execPopped', bstate', bdone', up')
  <2>1. execPopped + 1 = cur.slot + (bdone + 1)
    BY <1>5
  <2> QED  BY <1>1, <1>3, <1>4, <1>5, <1>6, <2>1, Zenon DEF BaseInv, IdleInv
<1>9. ProgressInv'
  <2>1. bdone + 1 <= Len(cur.text)
    BY <1>1, <1>2, <1>5
  <2> QED  BY <1>1, <1>3, <2>1 DEF ProgressInv, cur
<1>10. ExecInv'
  BY <1>1, <1>4, <1>7, <1>8, <1>9 DEF ExecInv
<1>11. ClientInv' /\ PortalsInv'
  BY <1>1, <1>3, <1>4, Zenon DEF ClientInv, PortalsInv
<1> QED
  BY <1>10, <1>11 DEF IInv

\* A step that touches neither the pipe, nor the queue, nor a portal table.
LEMMA SameStep ==
  ASSUME IInv, TypeOK',
         UNCHANGED <<fpump, fmsg, c2b, open, portals, execQueue, execPopped, bstate, bdone,
                     bPortals>>
  PROVE  IInv'
<1>1. pipe' = pipe /\ (up' <=> up) /\ cur' = cur
  BY DEF pipe, up, cur
<1>2. ExecInv'
  BY <1>1 DEF IInv, ExecInv, BaseInv, IdleInv, DeadInv, ProgressInv
<1>3. ClientInv' /\ PortalsInv'
  BY <1>1 DEF IInv, ClientInv, PortalsInv
<1> QED
  BY <1>2, <1>3, Zenon DEF IInv

\* Rows, the RowDescription of a simple query, and a lost backend.
LEMMA RowStep ==
  ASSUME IInv, TypeOK', DataRow \/ DataRowFails \/ QueryRowDescription \/ BackendGone
  PROVE  IInv'
<1>1. UNCHANGED <<fpump, fmsg, c2b, open, portals, execQueue, execPopped, bstate, bdone,
                  bPortals>>
  BY Zenon DEF DataRow, DataRowFails, QueryRowDescription, BackendGone, DecryptDataRow,
         OnRowDescription, sessionVars, pumpVars, clientVars, backendVars
<1> QED
  BY <1>1, SameStep, Zenon

\* The ReadyForQuery of the startup phase finds both queues empty.
LEMMA StartupStep ==
  ASSUME IInv, TypeOK', StartupReady
  PROVE  IInv'
<1>1. TypeOK /\ ExecInv /\ ClientInv /\ PortalsInv /\ bstate = "startup" /\ bstate' = "idle"
  BY DEF IInv, StartupReady
<1>2. pipe = <<>> /\ execQueue = <<>>
  BY <1>1 DEF ExecInv, BaseInv
<1>3. UNCHANGED <<fpump, fmsg, c2b, open, portals, bdone, bPortals>>
  BY DEF StartupReady, OnReadyForQuery, pumpVars, clientVars
<1>4. PICK k \in 0..Len(execQueue) : PopExec(k)
  BY DEF StartupReady, OnReadyForQuery
<1>5. k = 0 /\ execPopped \in Nat /\ Len(execQueue) = 0
  BY <1>1, <1>2, QueueType, SeqEmpty
<1>6. execQueue' = <<>>
  <2>1. Rest(execQueue, 0) = <<>>
    <3>1. execQueue \in Seq(Nat)
      BY <1>1, QueueType
    <3> QED  BY <1>2, <3>1, SubSeqAll DEF Rest
  <2> QED  BY <1>4, <1>5, <2>1 DEF PopExec
<1>7. pipe' = <<>> /\ (up' <=> up) /\ cur' = cur
  BY <1>2, <1>3 DEF pipe, up, cur
<1>8. Len(pipe') = 0 /\ pipe' \in Seq(Message)
  BY <1>7, SeqEmpty, Zenon
<1>9. /\ ChainInv(pipe') /\ ContentInv(pipe', execQueue', execPopped')
      /\ TopInv(pipe', execQueue', execPopped')
  BY <1>7, <1>8 DEF ChainInv, ContentInv, TopInv
<1>10. BaseInv(pipe', execQueue', execPopped', bstate', bdone', up')
  BY <1>1, <1>6, <1>7 DEF BaseInv, IdleInv
<1>11. ProgressInv'
  BY <1>1, <1>3, <1>7, Zenon DEF ExecInv, ProgressInv
<1>12. ExecInv'
  BY <1>9, <1>10, <1>11, Zenon DEF ExecInv
<1>13. ClientInv' /\ PortalsInv'
  BY <1>1, <1>2, <1>3, <1>7 DEF ClientInv, PortalsInv
<1> QED
  BY <1>12, <1>13, Zenon DEF IInv

\* The first boundary of the queue is its w-th entry.
FirstBoundary(q, w) ==
  /\ w \in 1..Len(q) /\ q[w] = syncBoundary
  /\ \A j \in 1..Len(q) : j < w => q[j] # syncBoundary

\* The loop of OnErrorResponse stops in front of the first boundary, the one
\* of OnReadyForQuery behind it.
LEMMA Loops ==
  ASSUME NEW q \in Seq(Nat), NEW w, FirstBoundary(q, w), NEW k,
         NEW B, B = {i \in 1..Len(q) : q[i] = syncBoundary}
  PROVE  /\ DropsToBoundary(B, Len(q), k) => k + 1 = w
         /\ PopsThroughBoundary(B, Len(q), k) => k = w
<1>1. Len(q) \in Nat
  BY SeqLength
<1>2. w \in 1..Len(q) /\ w \in B /\ \A j \in 1..Len(q) : j < w => j \notin B
  BY DEF FirstBoundary
<1>3. ASSUME DropsToBoundary(B, Len(q), k) PROVE k + 1 = w
  BY <1>1, <1>2, <1>3 DEF DropsToBoundary
<1>4. ASSUME PopsThroughBoundary(B, Len(q), k) PROVE k = w
  <2>1. k \in 0..Len(q) /\ (\A i \in 1..Len(q) : i < k => i \notin B) /\ (k < Len(q) => k \in B)
    BY <1>4 DEF PopsThroughBoundary
  <2>2. ~(w < k)
    BY <1>2, <2>1, Zenon
  <2>3. ~(k < w)
    <3>1. \A x \in B : x \in 1..Len(q)
      OBVIOUS
    <3> QED  BY <1>1, <1>2, <2>1, <3>1
  <2> QED  BY <1>1, <1>2, <2>1, <2>2, <2>3
<1> QED
  BY <1>3, <1>4, Zenon

\* What the invariant says of the head of the pipe in any backend state.
LEMMA HeadFacts ==
  ASSUME IInv, c2b # <<>>
  PROVE  /\ pipe \in Seq(Message) /\ pipe # <<>> /\ pipe[1] = cur /\ 1 \in 1..Len(pipe)
         /\ cur.slot \in Nat /\ cur.width \in Nat /\ cur.obj \in Nat
         /\ Ends(cur) = cur.slot + cur.width /\ Widths(cur) /\ Len(cur.text) \in Nat
         /\ execQueue \in Seq(Nat) /\ Len(execQueue) \in Nat /\ execPopped \in Nat
         /\ bdone \in Nat
         /\ Ends(cur) <= execPopped + Len(execQueue)
         /\ \A t \in 1..cur.width :
              cur.slot + t > execPopped => execQueue[cur.slot + t - execPopped] = Entry(cur, t)
<1>1. TypeOK /\ ExecInv
  BY DEF IInv
<1>2. pipe \in Seq(Message) /\ pipe # <<>> /\ pipe[1] = cur /\ cur \in Message
  BY <1>1, PipeType
<1>3. 1 \in 1..Len(pipe)
  <2>1. Len(pipe) \in Nat \ {0}
    BY <1>2, SeqEmpty, Zenon
  <2> QED  BY <2>1
<1>4. /\ cur.slot \in Nat /\ cur.width \in Nat /\ cur.obj \in Nat
      /\ Ends(cur) = cur.slot + cur.width /\ cur.text \in Seq(Queries)
  BY <1>2, <1>3, Numbers
<1>5. Widths(cur)
  BY <1>1, <1>2, <1>3, Zenon DEF ExecInv, ChainInv
<1>6. /\ Ends(cur) <= execPopped + Len(execQueue)
      /\ \A t \in 1..cur.width :
           cur.slot + t > execPopped => execQueue[cur.slot + t - execPopped] = Entry(cur, t)
  BY <1>1, <1>2, <1>3 DEF ExecInv, ContentInv
<1> QED
  BY <1>1, <1>2, <1>3, <1>4, <1>5, <1>6, QueueType, SeqLength, Zenon

\* When the backend owes a ReadyForQuery, the first boundary of the queue is
\* the one of the message it answers.
LEMMA BoundaryFacts ==
  ASSUME IInv, c2b # <<>>, bstate # "startup", cur.type \in {"Sync", "Query"},
         bstate = "skip" => cur.type = "Sync"
  PROVE  FirstBoundary(execQueue, Ends(cur) - execPopped)
<1> DEFINE w == Ends(cur) - execPopped
<1>1. TypeOK /\ ExecInv
  BY DEF IInv
<1>2. /\ cur.slot \in Nat /\ cur.width \in Nat /\ cur.obj \in Nat /\ pipe # <<>> /\ pipe[1] = cur
      /\ 1 \in 1..Len(pipe)
      /\ Ends(cur) = cur.slot + cur.width /\ Widths(cur) /\ Len(cur.text) \in Nat
      /\ Len(execQueue) \in Nat /\ execPopped \in Nat /\ bdone \in Nat
      /\ Ends(cur) <= execPopped + Len(execQueue)
      /\ \A t \in 1..cur.width :
           cur.slot + t > execPopped => execQueue[cur.slot + t - execPopped] = Entry(cur, t)
  BY HeadFacts, Zenon
<1>3. /\ cur.width >= 1 /\ (cur.type = "Sync" => cur.width = 1)
      /\ cur.type = "Query" => cur.width = Len(cur.text) + 1 /\ cur.obj >= 1
  BY <1>2 DEF Widths, nil
<1>4. Entry(cur, cur.width) = syncBoundary
  BY <1>2 DEF Entry
<1>5. \A t \in 1..cur.width : t < cur.width => Entry(cur, t) # syncBoundary
  <2> SUFFICES ASSUME NEW t \in 1..cur.width, t < cur.width PROVE Entry(cur, t) # syncBoundary
    OBVIOUS
  <2>1. cur.type = "Query"
    BY <1>2, <1>3
  <2>2. Entry(cur, t) = cur.obj + t - 1
    BY <1>2, <2>1, Zenon DEF Entry
  <2>3. cur.obj + t - 1 >= 1
    BY <1>2, <1>3, <2>1
  <2> QED  BY <1>2, <2>2, <2>3 DEF syncBoundary, nil
<1>6. TypeOK /\ bstate \in {"idle", "failed", "skip"}
  BY <1>1, Zenon DEF TypeOK
<1>7. /\ execPopped < Ends(cur)
      /\ \A j \in 1..Len(execQueue) : execPopped + j <= cur.slot => execQueue[j] # syncBoundary
  <2>1. CASE bstate = "idle"
    <3>1. execPopped = cur.slot + bdone
      <4>1. IdleInv(pipe, execQueue, execPopped, bdone, up)
        BY <1>1, <2>1, Zenon DEF ExecInv, BaseInv
      <4> QED  BY <1>2, <4>1, Zenon DEF IdleInv
    <3>2. bdone < cur.width
      BY <1>1, <1>2, <1>3 DEF ExecInv, ProgressInv
    <3>3. execPopped < Ends(cur)
      BY <1>2, <3>1, <3>2
    <3>4. \A j \in 1..Len(execQueue) : ~(execPopped + j <= cur.slot)
      BY SMTT(30), <1>2, <3>1
    <3> QED  BY <3>3, <3>4, Zenon
  <2>2. CASE bstate = "failed"
    <3>1. execPopped + 1 = Ends(cur)
      BY <1>1, <1>2, <2>2 DEF ExecInv, BaseInv, FailedInv
    <3> QED  BY <1>2, <1>3, <3>1
  <2>3. CASE bstate = "skip"
    <3>1. DeadInv(pipe, execQueue, execPopped, up)
      BY <1>1, <2>3 DEF ExecInv, BaseInv
    <3>2. execPopped <= cur.slot
      BY <1>2, <2>3, <3>1, Zenon DEF DeadInv
    <3>3. \A j \in 1..Len(execQueue) : execPopped + j <= cur.slot => execQueue[j] # syncBoundary
      BY <1>2, <3>1 DEF DeadInv
    <3> QED  BY <1>2, <1>3, <3>2, <3>3
  <2> QED  BY <1>6, <2>1, <2>2, <2>3, Zenon
<1>8. w \in 1..Len(execQueue) /\ execQueue[w] = syncBoundary
  <2>1. w \in 1..Len(execQueue)
    BY <1>2, <1>7
  <2>2. /\ cur.width \in 1..cur.width /\ cur.slot + cur.width > execPopped
        /\ cur.slot + cur.width - execPopped = w
    BY <1>2, <1>3, <1>7
  <2> HIDE DEF w
  <2> QED  BY <1>2, <1>4, <2>1, <2>2, Zenon
<1>9. ASSUME NEW j \in 1..Len(execQueue), j < w PROVE execQueue[j] # syncBoundary
  <2>1. CASE execPopped + j <= cur.slot
    BY <1>7, <2>1, Zenon
  <2>2. CASE ~(execPopped + j <= cur.slot)
    <3> DEFINE t == execPopped + j - cur.slot
    <3>1. /\ t \in 1..cur.width /\ t < cur.width /\ cur.slot + t > execPopped
          /\ cur.slot + t - execPopped = j
      <4>1. /\ cur.slot \in Nat /\ cur.width \in Nat /\ execPopped \in Nat /\ j \in Nat
            /\ j < cur.slot + cur.width - execPopped
        BY <1>2, <1>9
      <4> QED  BY SMTT(30), <2>2, <4>1
    <3> HIDE DEF t
    <3>2. execQueue[j] = Entry(cur, t)
      BY <1>2, <3>1, Zenon
    <3> QED  BY <1>5, <3>1, <3>2, Zenon
  <2> QED  BY <2>1, <2>2
<1> QED
  BY <1>8, <1>9, Zenon DEF FirstBoundary

\* Arithmetic of DeadTail.
LEMMA Slots ==
  /\ \A n, k, l \in Nat : \A j \in 1..(l - k) : n + k + j <= n + l
  /\ \A l \in Nat : l - 1 = 0 => l = 1
  OBVIOUS

\* Finishing an extended message of a dead batch, with some of the entries in
\* front of the next boundary gone, leaves the rest of the batch dead.
LEMMA DeadTail ==
  ASSUME NEW p \in Seq(Message), p # <<>>, NEW q \in Seq(Nat), NEW n \in Nat,
         NEW k \in 0..Len(q), NEW u, ChainInv(p), ContentInv(p, q, n), u => TopInv(p, q, n),
         DeadInv(p, q, n, u), Extended(p[1]), \A i \in 1..k : q[i] # syncBoundary
  PROVE  DeadInv(Tail(p), Rest(q, k), n + k, u)
<1>1. /\ Len(q) \in Nat /\ k \in Nat /\ k <= Len(q) /\ Len(Rest(q, k)) = Len(q) - k
      /\ \A i \in 1..(Len(q) - k) : Rest(q, k)[i] = q[i + k]
  <2>1. Len(q) \in Nat
    BY SeqLength, Zenon
  <2>2. k \in Nat /\ k <= Len(q)
    BY <2>1
  <2> QED  BY <2>1, <2>2, RestFacts, Zenon
<1>2. /\ Len(p) \in Nat /\ Len(p) >= 1 /\ Len(Tail(p)) = Len(p) - 1
      /\ Tail(p) \in Seq(Message) /\ \A i \in 1..Len(Tail(p)) : Tail(p)[i] = p[i + 1]
  BY TailFacts, Zenon
<1>3. /\ 1 \in 1..Len(p) /\ p[1].slot \in Nat /\ p[1].width \in Nat /\ p[1].obj \in Nat
      /\ Ends(p[1]) = p[1].slot + p[1].width
  <2>1. 1 \in 1..Len(p)
    BY <1>2
  <2> QED  BY <2>1, Numbers, Zenon
<1>4. /\ p[1].width \in {0, 1}
      /\ p[1].width = 1 => p[1].type = "Execute" /\ p[1].obj # nil
  <2>1. Widths(p[1])
    BY <1>3, Zenon DEF ChainInv
  <2> QED  BY <2>1 DEF Widths, Extended
<1>5. ASSUME NEW j \in 1..Len(Rest(q, k)), n + k + j <= Ends(p[1])
      PROVE  Rest(q, k)[j] # syncBoundary
  <2>1. Rest(q, k)[j] = q[j + k] /\ j + k \in 1..Len(q) /\ j \in Nat
    BY <1>1
  <2>2. CASE n + (j + k) <= p[1].slot
    BY <2>1, <2>2, Zenon DEF DeadInv
  <2>3. CASE ~(n + (j + k) <= p[1].slot)
    <3>1. p[1].width = 1 /\ p[1].slot + 1 > n /\ p[1].slot + 1 - n = j + k
      <4>1. /\ p[1].slot \in Nat /\ p[1].width \in {0, 1} /\ j \in Nat /\ k \in Nat /\ j >= 1
            /\ n + k + j <= p[1].slot + p[1].width
        <5>1. j \in 1..(Len(q) - k) /\ n + k + j <= p[1].slot + p[1].width
          BY <1>1, <1>3, <1>5, Zenon
        <5>2. j >= 1
          BY <1>1, <5>1
        <5> QED  BY <1>1, <1>3, <1>4, <2>1, <5>1, <5>2, Zenon
      <4>2. ASSUME NEW s \in Nat, NEW w \in {0, 1}, NEW i \in Nat, NEW x \in Nat, i >= 1,
                   n + x + i <= s + w, ~(n + (i + x) <= s)
            PROVE  w = 1 /\ s + 1 > n /\ s + 1 - n = i + x
        BY ONLY <4>2, n \in Nat
      <4> QED  BY ONLY <2>3, <4>1, <4>2, ZenonT(30)
    <3>2. 1 \in 1..p[1].width
      BY <3>1
    <3>3. q[j + k] = Entry(p[1], 1)
      BY <1>3, <3>1, <3>2, Zenon DEF ContentInv
    <3>4. Entry(p[1], 1) # syncBoundary
      BY <1>4, <3>1 DEF Entry, nil, syncBoundary
    <3> QED  BY <2>1, <3>3, <3>4, Zenon
  <2> QED  BY <2>2, <2>3, Zenon
<1>6. ASSUME NEW i \in 1..Len(Tail(p)), Tail(p)[i].type = "Sync"
      PROVE  n + k <= Tail(p)[i].slot
  <2> DEFINE m == p[i + 1]
  <2>1. i + 1 \in 1..Len(p) /\ Tail(p)[i] = m /\ m.type = "Sync"
    BY <1>2, <1>6
  <2>2. m.slot \in Nat /\ Ends(m) = m.slot + m.width
    BY <2>1, Numbers, Zenon
  <2>3. m.width = 1 /\ n <= m.slot
    BY <2>1, Zenon DEF ChainInv, Widths, DeadInv
  <2>4. /\ Ends(m) <= n + Len(q)
        /\ \A t \in 1..m.width : m.slot + t > n => q[m.slot + t - n] = Entry(m, t)
    BY <2>1, Zenon DEF ContentInv
  <2>5. q[m.slot + 1 - n] = syncBoundary
    <3>1. 1 \in 1..m.width /\ m.slot + 1 > n
      BY <2>2, <2>3
    <3>2. Entry(m, 1) = syncBoundary
      BY <2>1 DEF Entry
    <3> QED  BY <2>4, <3>1, <3>2, Zenon
  <2> HIDE DEF m
  <2>6. ~(m.slot + 1 - n \in 1..k)
    BY <2>5, Zenon
  <2> QED  BY SMTT(30), <1>1, <2>1, <2>2, <2>3, <2>6
<1>7. ASSUME Tail(p) # <<>>, NEW j \in 1..Len(Rest(q, k)), n + k + j <= Tail(p)[1].slot
      PROVE  Rest(q, k)[j] # syncBoundary
  <2>1. Len(Tail(p)) \in Nat \ {0}
    BY <1>2, <1>7, SeqEmpty, Zenon
  <2>2. 1 \in 1..Len(Tail(p)) /\ 1 + 1 <= Len(p)
    BY <1>2, <2>1
  <2>3. Tail(p)[1].slot = Ends(p[1])
    BY <1>2, <1>3, <2>2, Zenon DEF ChainInv
  <2> QED  BY <1>5, <1>7, <2>3, Zenon
<1>8. ASSUME Tail(p) = <<>>, u, NEW j \in 1..Len(Rest(q, k))
      PROVE  Rest(q, k)[j] # syncBoundary
  <2>1. Len(p) = 1
    <3>1. Len(Tail(p)) = 0
      BY <1>8, SeqEmpty, Zenon
    <3> QED  BY <1>2, <3>1, Slots, Zenon
  <2>2. Ends(p[1]) = n + Len(q)
    BY <1>8, <2>1, Zenon DEF TopInv
  <2>3. n + k + j <= Ends(p[1])
    <3>1. j \in 1..(Len(q) - k) /\ Len(q) \in Nat /\ k \in Nat
      BY <1>1, Zenon
    <3> QED  BY <2>2, <3>1, Slots, Zenon
  <2> QED  BY <1>5, <2>3, Zenon
<1> QED
  BY <1>6, <1>7, <1>8, Zenon DEF DeadInv

\* A batch whose head is about to fail is not dead yet: nothing in front of
\* the head is left.
LEMMA DeadIdle ==
  ASSUME NEW p \in Seq(Message), p # <<>>, NEW q, NEW n, NEW u, ChainInv(p), n = p[1].slot,
         Len(q) \in Nat
  PROVE  DeadInv(p, q, n, u)
<1>1. Len(p) \in Nat /\ Len(p) >= 1
  BY TailFacts, Zenon
<1>2. \A i \in 1..Len(p) : p[i].slot \in Nat /\ p[i].width \in Nat /\ Ends(p[i]) = p[i].slot + p[i].width
  BY Numbers, Zenon
<1>3. \A i \in 1..Len(p) : n <= p[i].slot
  <2> SUFFICES ASSUME NEW i \in 1..Len(p) PROVE n <= p[i].slot
    BY Zenon
  <2>1. 1 \in 1..Len(p)
    BY <1>1
  <2>2. CASE i = 1
    BY <1>2, <2>1, <2>2
  <2>3. CASE i # 1
    <3>1. 1 < i
      BY <1>1, <2>3
    <3>2. Ends(p[1]) <= p[i].slot
      BY <2>1, <3>1, Zenon DEF ChainInv
    <3>3. Ends(p[1]) = p[1].slot + p[1].width /\ p[1].slot \in Nat /\ p[1].width \in Nat /\ p[i].slot \in Nat
      BY <1>2, <2>1, Zenon
    <3> QED  BY <3>2, <3>3
  <2> QED  BY <2>2, <2>3, Zenon
<1>4. \A j \in 1..Len(q) : ~(n + j <= p[1].slot)
  BY <1>1, <1>2
<1> QED
  BY <1>3, <1>4 DEF DeadInv

\* Behind an extended message a Sync comes first, and comes at all once the
\* client has closed its batch.
LEMMA ExtendedTail ==
  ASSUME NEW p \in Seq(Message), p # <<>>, Extended(p[1])
  PROVE  /\ BatchInv(p) => SyncFirst(Tail(p))
         /\ \A op : OpenInv(p, op) /\ ~op => HasSync(Tail(p))
<1>1. /\ Len(p) \in Nat /\ Len(p) >= 1 /\ Len(Tail(p)) = Len(p) - 1
      /\ \A i \in 1..Len(Tail(p)) : Tail(p)[i] = p[i + 1]
  BY TailFacts, Zenon
<1>2. 1 \in 1..Len(p)
  BY <1>1
<1>3. ASSUME BatchInv(p), NEW j \in 1..Len(Tail(p)), Tail(p)[j].type = "Query"
      PROVE  \E k \in 1..Len(Tail(p)) : k < j /\ Tail(p)[k].type = "Sync"
  <2>1. j + 1 \in 1..Len(p) /\ 1 < j + 1 /\ p[j + 1].type = "Query"
    BY <1>1, <1>3
  <2>2. PICK k \in 1..Len(p) : 1 < k /\ k < j + 1 /\ p[k].type = "Sync"
    BY <1>2, <1>3, <2>1 DEF BatchInv
  <2>3. k - 1 \in 1..Len(Tail(p)) /\ k - 1 < j /\ Tail(p)[k - 1] = p[k]
    BY <1>1, <2>2
  <2> QED  BY <2>2, <2>3, Zenon
<1>4. ASSUME NEW op, OpenInv(p, op), ~op PROVE HasSync(Tail(p))
  <2>1. PICK k \in 1..Len(p) : 1 < k /\ p[k].type = "Sync"
    BY <1>2, <1>4, Zenon DEF OpenInv
  <2>2. k - 1 \in 1..Len(Tail(p)) /\ Tail(p)[k - 1] = p[k]
    BY <1>1, <2>1
  <2> QED  BY <2>1, <2>2, Zenon DEF HasSync
<1> QED
  BY <1>3, <1>4 DEF SyncFirst

\* An extended message fails, or is skipped after one that failed.
LEMMA DeadStep ==
  ASSUME IInv, TypeOK', c2b # <<>>, Finished, UNCHANGED <<pumpVars, clientVars, portals>>,
         NEW k \in 0..Len(execQueue), PopExec(k), \A i \in 1..k : execQueue[i] # syncBoundary,
         bstate' = "skip", bPortals' = NoPortals, Extended(cur),
         DeadInv(pipe, execQueue, execPopped, up)
  PROVE  IInv'
<1>1. TypeOK /\ ExecInv /\ ClientInv
  BY DEF IInv
<1>2. /\ pipe \in Seq(Message) /\ pipe # <<>> /\ pipe[1] = cur
      /\ execQueue \in Seq(Nat) /\ execPopped \in Nat
  BY HeadFacts, Zenon
<1>3. DeadInv(Tail(pipe), Rest(execQueue, k), execPopped + k, up)
  <2>1. /\ ChainInv(pipe) /\ ContentInv(pipe, execQueue, execPopped)
        /\ up => TopInv(pipe, execQueue, execPopped)
    BY <1>1 DEF ExecInv
  <2> HIDE DEF up
  <2> QED  BY <1>2, <2>1, DeadTail, Zenon
<1>4. BaseInv(Tail(pipe), Rest(execQueue, k), execPopped + k, bstate', 0, up)
  BY <1>3, Zenon DEF BaseInv
<1>5. /\ SyncFirst(Tail(pipe))
      /\ up /\ ~open => HasSync(Tail(pipe))
  BY <1>1, <1>2, ExtendedTail DEF ClientInv
<1>6. \A nm \in PortalNames : bPortals'[nm].obj = nil
  BY DEF NoPortals
<1>7. bstate' \in {"idle", "skip"}
  OBVIOUS
<1> QED
  BY <1>4, <1>5, <1>6, <1>7, FinishStep, Zenon

\* A message of a failed batch is skipped.
LEMMA SkipStep ==
  ASSUME IInv, TypeOK', Skip
  PROVE  IInv'
<1>1. /\ TypeOK /\ ExecInv /\ ClientInv /\ PortalsInv /\ c2b # <<>> /\ Finished
      /\ bstate = "skip" /\ bstate' = "skip" /\ cur.type # "Sync"
      /\ UNCHANGED <<pumpVars, clientVars, portals, execQueue, execPopped, bPortals>>
  BY DEF IInv, Skip, sessionVars
<1>2. pipe[1] = cur /\ 1 \in 1..Len(pipe)
  BY <1>1, HeadFacts
<1>3. Extended(cur)
  <2>1. ASSUME cur.type = "Query" PROVE FALSE
    <3>1. PICK j \in 1..Len(pipe) : j < 1
      BY <1>1, <1>2, <2>1, Zenon DEF ClientInv, SyncFirst
    <3> QED  BY <3>1
  <2> QED  BY <1>1, <2>1, Zenon DEF Extended
<1>4. DeadInv(pipe, execQueue, execPopped, up)
  BY <1>1 DEF ExecInv, BaseInv
<1>5. PopExec(0) /\ 0 \in 0..Len(execQueue)
  BY <1>1, PopNothing, Zenon
<1>6. bPortals' = NoPortals
  BY <1>1, Zenon DEF PortalsInv
<1>7. \A i \in 1..0 : execQueue[i] # syncBoundary
  OBVIOUS
<1> QED
  BY <1>1, <1>3, <1>4, <1>5, <1>6, <1>7, DeadStep, Zenon

\* A Sync or a simple query fails.
LEMMA FailedStep ==
  ASSUME IInv, TypeOK', ErrorResponse, cur.type \in {"Sync", "Query"}
  PROVE  IInv'
<1>1. /\ TypeOK /\ ExecInv /\ ClientInv /\ PortalsInv /\ c2b # <<>> /\ bstate = "idle"
      /\ bstate' = "failed" /\ bPortals' = NoPortals
      /\ UNCHANGED <<fpump, fmsg, c2b, open, portals, bdone>>
  BY Zenon DEF IInv, ErrorResponse, Working, OnErrorResponse, pumpVars, clientVars
<1>2. PICK k \in 0..Len(execQueue) :
        DropsToBoundary(ExecBoundaries, Len(execQueue), k) /\ PopExec(k)
  BY Zenon DEF ErrorResponse, OnErrorResponse
<1>3. /\ pipe \in Seq(Message) /\ pipe # <<>> /\ pipe[1] = cur
      /\ execQueue \in Seq(Nat) /\ execPopped \in Nat /\ Len(execQueue) \in Nat
      /\ cur.slot \in Nat /\ cur.width \in Nat /\ Ends(cur) = cur.slot + cur.width
  BY <1>1, HeadFacts, Zenon
<1>4. k + 1 = Ends(cur) - execPopped
  <2>1. FirstBoundary(execQueue, Ends(cur) - execPopped)
    BY <1>1, BoundaryFacts
  <2> QED  BY <1>2, <1>3, <2>1, Loops, Zenon DEF ExecBoundaries
<1>5. execPopped + k + 1 = Ends(cur)
  BY <1>2, <1>3, <1>4
<1>6. execQueue' = Rest(execQueue, k) /\ execPopped' = execPopped + k
  BY <1>2, Zenon DEF PopExec
<1>7. pipe' = pipe /\ (up' <=> up) /\ cur' = cur
  BY <1>1, Zenon DEF pipe, up, cur
<1>8. /\ ContentInv(pipe', execQueue', execPopped')
      /\ up => TopInv(pipe', execQueue', execPopped')
  BY <1>1, <1>2, <1>3, <1>6, <1>7, ContentPop, Zenon DEF ExecInv
<1>9. BaseInv(pipe', execQueue', execPopped', bstate', bdone', up')
  BY <1>1, <1>3, <1>5, <1>6, <1>7, Zenon DEF BaseInv, FailedInv
<1>10. ProgressInv'
  BY <1>1, <1>7, Zenon DEF ExecInv, ProgressInv
<1>11. ExecInv'
  BY <1>1, <1>7, <1>8, <1>9, <1>10, Zenon DEF ExecInv
<1>12. ClientInv'
  BY <1>1, <1>7, Zenon DEF ClientInv
<1>13. PortalsInv'
  <2>1. \A e, n, x : n \in PortalNames /\ Agrees(pipe, e, n, x, bPortals) =>
                       Agrees(pipe, e, n, x, NoPortals)
    BY Zenon DEF Agrees, NoPortals
  <2>2. \A i \in 1..Len(pipe) : pipe[i].portal \in PortalNames
    BY <1>3, Numbers, Zenon DEF Message
  <2>3. MessagesAgree(pipe, NoPortals)
    BY <1>1, <2>1, <2>2, Zenon DEF PortalsInv, MessagesAgree
  <2>4. up => SessionAgrees(pipe, portals, NoPortals)
    BY <1>1, <2>1 DEF PortalsInv, SessionAgrees
  <2> QED  BY <1>1, <1>7, <2>3, <2>4 DEF PortalsInv
<1> QED
  BY <1>11, <1>12, <1>13, Zenon DEF IInv

\* An ErrorResponse.
LEMMA ErrorStep ==
  ASSUME IInv, TypeOK', ErrorResponse
  PROVE  IInv'
<1>1. CASE cur.type \in {"Sync", "Query"}
  BY <1>1, FailedStep, Zenon
<1>2. CASE cur.type \notin {"Sync", "Query"}
  <2>1. /\ TypeOK /\ ExecInv /\ c2b # <<>> /\ bstate = "idle" /\ bstate' = "skip" /\ Finished
        /\ bPortals' = NoPortals /\ UNCHANGED <<pumpVars, clientVars, portals>>
    BY <1>2, Zenon DEF IInv, ErrorResponse, Working, OnErrorResponse
  <2>2. PICK k \in 0..Len(execQueue) :
          DropsToBoundary(ExecBoundaries, Len(execQueue), k) /\ PopExec(k)
    BY Zenon DEF ErrorResponse, OnErrorResponse
  <2>3. /\ pipe \in Seq(Message) /\ pipe # <<>> /\ pipe[1] = cur
        /\ Len(execQueue) \in Nat /\ cur.slot \in Nat
    BY <2>1, HeadFacts, Zenon
  <2>4. \A i \in 1..k : execQueue[i] # syncBoundary
    <3>1. \A i \in 1..k : i \notin ExecBoundaries /\ i \in 1..Len(execQueue)
      BY <2>2, <2>3 DEF DropsToBoundary
    <3> QED  BY <3>1, Zenon DEF ExecBoundaries
  <2>5. Extended(cur)
    BY <1>2 DEF Extended
  <2>6. execPopped = cur.slot
    <3>1. execPopped = cur.slot + bdone /\ bdone = 0
      BY <1>2, <2>1, IdleFacts, Zenon
    <3> QED  BY <2>3, <3>1
  <2>7. DeadInv(pipe, execQueue, execPopped, up)
    <3>1. ChainInv(pipe)
      BY <2>1 DEF ExecInv
    <3> HIDE DEF up
    <3> QED  BY <2>3, <2>6, <3>1, DeadIdle, Zenon
  <2> QED  BY <2>1, <2>2, <2>4, <2>5, <2>7, DeadStep, Zenon
<1> QED
  BY <1>1, <1>2, Zenon

\* A ReadyForQuery.
LEMMA ReadyStep ==
  ASSUME IInv, TypeOK', ReadyForQuery
  PROVE  IInv'
<1>1. /\ TypeOK /\ ExecInv /\ ClientInv /\ c2b # <<>> /\ Finished /\ bstate # "startup"
      /\ bstate' = "idle" /\ bPortals' \in {bPortals, NoPortals}
      /\ cur.type \in {"Sync", "Query"} /\ (bstate = "skip" => cur.type = "Sync")
      /\ UNCHANGED <<pumpVars, clientVars, portals>>
  BY Zenon DEF IInv, ReadyForQuery, OnReadyForQuery
<1>2. PICK k \in 0..Len(execQueue) :
        PopsThroughBoundary(ExecBoundaries, Len(execQueue), k) /\ PopExec(k)
  BY Zenon DEF ReadyForQuery, OnReadyForQuery
<1>3. /\ pipe \in Seq(Message) /\ pipe # <<>> /\ pipe[1] = cur
      /\ execQueue \in Seq(Nat) /\ execPopped \in Nat
      /\ cur.slot \in Nat /\ cur.width \in Nat /\ Ends(cur) = cur.slot + cur.width
  BY <1>1, HeadFacts, Zenon
<1>4. k = Ends(cur) - execPopped
  <2>1. FirstBoundary(execQueue, Ends(cur) - execPopped)
    BY <1>1, BoundaryFacts
  <2> QED  BY <1>2, <1>3, <2>1, Loops, Zenon DEF ExecBoundaries
<1>5. execPopped + k = Ends(pipe[1])
  BY <1>3, <1>4
<1>6. IdleInv(Tail(pipe), Rest(execQueue, k), execPopped + k, 0, up)
  <2>1. ChainInv(pipe) /\ (up => TopInv(pipe, execQueue, execPopped))
    BY <1>1, Zenon DEF ExecInv
  <2> HIDE DEF up
  <2> QED  BY <1>2, <1>3, <1>5, <2>1, IdleTail, Zenon
<1>7. BaseInv(Tail(pipe), Rest(execQueue, k), execPopped + k, bstate', 0, up)
  BY <1>1, <1>6, Zenon DEF BaseInv
<1>8. \A nm \in PortalNames :
        \/ bPortals'[nm].obj = nil
        \/ ~Binds(pipe, 1, nm) /\ bPortals'[nm].obj = bPortals[nm].obj
  BY <1>1, <1>3 DEF Binds, NoPortals
<1>9. bstate' # "skip" /\ bstate' \in {"idle", "skip"}
  BY <1>1, Zenon
<1> QED
  BY <1>1, <1>2, <1>7, <1>8, <1>9, FinishStep, Zenon

\* Nothing is sent and nothing is queued yet.
LEMMA InitInv ==
  ASSUME Init
  PROVE  IInv
<1>1. TypeOK
  BY InitType
<1>2. pipe = <<>> /\ Len(pipe) = 0 /\ execQueue = <<>> /\ bstate = "startup" /\ bdone = 0
  BY SeqEmpty, Zenon DEF Init, pipe
<1>3. ExecInv
  <2>1. ChainInv(pipe) /\ ContentInv(pipe, execQueue, execPopped) /\ TopInv(pipe, execQueue, execPopped)
    BY <1>2 DEF ChainInv, ContentInv, TopInv
  <2>2. BaseInv(pipe, execQueue, execPopped, bstate, bdone, up)
    BY <1>2, Zenon DEF BaseInv
  <2>3. ProgressInv
    BY <1>2 DEF ProgressInv, Init
  <2> QED  BY <2>1, <2>2, <2>3, Zenon DEF ExecInv
<1>4. ClientInv
  BY <1>2 DEF ClientInv, BatchInv, OpenInv
<1>5. PortalsInv
  <2>1. MessagesAgree(pipe, bPortals)
    BY <1>2 DEF MessagesAgree
  <2>2. bPortals = NoPortals
    BY Zenon DEF Init
  <2>3. SessionAgrees(pipe, portals, bPortals)
    BY <1>2, <2>2 DEF SessionAgrees, Agrees, NoPortals
  <2> QED  BY <1>2, <2>1, <2>3, Zenon DEF PortalsInv
<1> QED
  BY <1>1, <1>3, <1>4, <1>5, Zenon DEF IInv

\* Every step preserves the invariant.
LEMMA NextStep ==
  ASSUME IInv, ~QueryInBatch, [Next]_vars
  PROVE  IInv'
<1>1. TypeOK'
  BY NextType, Zenon DEF IInv
<1>2. CASE UNCHANGED vars
  BY <1>1, <1>2, SameStep, Zenon DEF vars, sessionVars, pumpVars, clientVars, backendVars
<1>3. CASE Frontend
  BY <1>1, <1>3, FrontendStep, Zenon
<1>4. CASE Backend
  BY <1>1, <1>4, CompletesStep, StartupStep, RowStep, ExecuteDoneStep,
    QueryStatementDoneStep,
     ErrorStep, SkipStep, ReadyStep DEF Backend
<1> QED
  BY <1>2, <1>3, <1>4 DEF Next

\* The invariant puts the portal of the next result at the head of execQueue.
LEMMA ResultsAligned ==
  ASSUME IInv
  PROVE  RowsReachTheirPortal
<1>1. Working({"Execute"}) /\ Executing.obj # nil => CurrentExecuting = Executing.obj
  BY ExecuteFacts
<1>2. Working({"Query"}) /\ bdone < Len(cur.text) => CurrentExecuting = cur.obj + bdone
  BY QueryFacts
<1> QED
  BY <1>1, <1>2, Zenon DEF RowsReachTheirPortal

\* Results reach their portal: for a client that never sends a simple query
\* inside an unsynced batch, whatever it pipelines and wherever the backend
\* fails, OnErrorResponse and OnReadyForQuery leave at the head of execQueue the
\* entry of the result that comes next, for any number of statements, portals,
\* texts and messages.
THEOREM ResultsReachTheirPortal ==
  ASSUME ~QueryInBatch
  PROVE  Spec => []RowsReachTheirPortal
<1>1. Init => IInv
  BY InitInv
<1>2. IInv /\ [Next]_vars => IInv'
  BY NextStep, Zenon
<1>3. IInv => RowsReachTheirPortal
  BY ResultsAligned, Zenon
<1> QED
  BY <1>1, <1>2, <1>3, PTL DEF Spec
=============================================================================
