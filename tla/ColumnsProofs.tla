---------------------------- MODULE ColumnsProofs ----------------------------
(***************************************************************************)
(* Proofs about module Columns, for any rows, inputs, legacy values, keys,  *)
(* replicas and faults: what a stored value holds is what Keycloak wrote,   *)
(* whichever keys it is under, and it is encrypted at most once; and, for   *)
(* replicas that all open one DEK set file, reads return what was written   *)
(* and a search by email finds it.                                          *)
(***************************************************************************)
EXTENDS Columns, SequenceTheorems, TLAPS

\* What a stored value stands for.
Within(v) == IF v.kind = "envelope" THEN v.ciphertext.of ELSE Unescape(v)

\* A value that is not an envelope made unreadable by lowering it.
Plain(v) ==
  /\ v.kind \in Kinds
  /\ v.kind = "text" => v.of \in Texts
  /\ v.kind = "lowered" => v.of.kind # "envelope"

\* A value for every column of every row.
IsTable(d) == d = [r \in Rows |-> [col \in Cols |-> d[r][col]]]

\* Whatever is stored, held by Keycloak or selected by the backfill is plain
\* or an envelope of something plain.
PlainInv ==
  /\ IsTable(db) /\ todo \in Seq(Cols)
  /\ \A r \in Rows, col \in Cols : Plain(Within(db[r][col])) /\ Plain(db[r][col])
  /\ NeverDoubleEncrypted
  /\ Plain(held)
  /\ \A b \in batch : /\ b \in [row : Rows, col : Cols, value : {b.value}]
                      /\ Plain(b.value) /\ (task = "encrypt" => ~HasSentinel(b.value))

\* A stored value that a read can return is the one that was written; the
\* values the backfill has selected are still there, because Keycloak is down.
TruthInv ==
  /\ IsTable(truth)
  /\ task # "idle" => ~keycloak
  /\ task = "idle" => batch = {}
  /\ \A r \in Rows, col \in Cols :
       db[r][col].kind = "malformed" \/ Same(col, Within(db[r][col]), truth[r][col])
  /\ task = "encrypt" => \A b \in batch : b.value = db[b.row][b.col]

-----------------------------------------------------------------------------
(* Values.                                                                  *)

\* Lower-casing a value the application wrote leaves one it could have
\* written.
LEMMA LoweredIsPlain ==
  ASSUME NEW v, Plain(v), v.kind # "envelope"
  PROVE  LET w == NormalizeLowercase(v)
         IN  Plain(w) /\ w.kind # "envelope" /\ NormalizeLowercase(w) = w
<1>1. CASE v.kind = "null" \/ v.kind = "lowered"
  BY <1>1, Zenon DEF NormalizeLowercase, Plain
<1>2. CASE v.kind = "text"
  <2>1. NormalizeLowercase(v) = Text(Lower[v.of]) /\ v.of \in Texts
    BY <1>2 DEF NormalizeLowercase, Plain
  <2>2. Lower[v.of] \in Texts /\ Lower[Lower[v.of]] = Lower[v.of]
    BY <2>1, LowerAssumption
  <2> QED
    BY <2>1, <2>2 DEF NormalizeLowercase, Plain, Text, Kinds
<1>3. CASE v.kind \notin {"null", "lowered", "text"}
  <2>1. NormalizeLowercase(v) = Lowered(v)
    BY <1>3 DEF NormalizeLowercase
  <2> QED
    BY <2>1 DEF NormalizeLowercase, Plain, Lowered, Kinds
<1> QED
  BY <1>1, <1>2, <1>3

\* An encrypted value holds what was encrypted.
LEMMA EncryptedHolds ==
  ASSUME NEW c, NEW col, NEW v, Plain(v), v.kind # "envelope"
  PROVE  LET w == IF col = "EMAIL" THEN NormalizeLowercase(v) ELSE v
             e == Encrypt(c, Scheme(col), w, AAD(col))
         IN  /\ e.kind = "envelope" /\ e.ciphertext.of = w
             /\ Plain(w) /\ w.kind # "envelope" /\ Same(col, w, v)
<1> DEFINE w == IF col = "EMAIL" THEN NormalizeLowercase(v) ELSE v
<1>1. Plain(w) /\ w.kind # "envelope" /\ Same(col, w, v)
  BY LoweredIsPlain DEF Same
<1> HIDE DEF w
<1>2. LET e == Encrypt(c, Scheme(col), w, AAD(col)) IN e.kind = "envelope" /\ e.ciphertext.of = w
  BY DEF Encrypt, Marshal
<1> QED
  BY <1>1, <1>2, Zenon DEF w

\* What EncryptBind stores for v, if it stores anything.
Stores(s, col, v) ==
  /\ Plain(s) /\ Plain(Within(s))
  /\ s.kind = "envelope" => s.ciphertext.of.kind # "envelope"
  /\ Same(col, Within(s), v)

\* What EncryptParam returns for such a value is what a column may hold.
LEMMA EncryptParamStores ==
  ASSUME NEW c, NEW col, NEW v, Plain(v), encryptParam(c, col, v) # Failed
  PROVE  Stores(encryptParam(c, col, v), col, v)
<1>1. CASE v = NULL
  BY <1>1, Zenon DEF encryptParam, Stores, Plain, Within, Unescape, Same, NULL
<1>2. CASE v # NULL
  <2> DEFINE w == IF col = "EMAIL" THEN NormalizeLowercase(v) ELSE v
             e == Encrypt(c, Scheme(col), w, AAD(col))
  <2>1. v.kind # "envelope" /\ encryptParam(c, col, v) = e
    BY <1>2 DEF encryptParam, Parse, HasSentinel
  <2>2. /\ e.kind = "envelope" /\ e.ciphertext.of = w
        /\ Plain(w) /\ w.kind # "envelope" /\ Same(col, w, v)
    BY <2>1, EncryptedHolds, Zenon
  <2> HIDE DEF w, e
  <2> QED
    BY <2>1, <2>2, Zenon DEF Stores, Plain, Within, Kinds
<1> QED
  BY <1>1, <1>2

\* So is what escapePlaintext returns.
LEMMA EscapeStores ==
  ASSUME NEW v, Plain(v) PROVE Stores(Escape(v), "VALUE", v)
BY Zenon DEF Escape, HasSentinel, Escaped, Stores, Plain, Within, Unescape, Same, Kinds

-----------------------------------------------------------------------------
(* The steps.                                                               *)

\* The invariant holds of the empty table.
LEMMA InitPlain == Init => PlainInv
<1> SUFFICES ASSUME Init PROVE PlainInv
  OBVIOUS
<1>1. IsTable(db) /\ \A r \in Rows, col \in Cols : db[r][col] \in Legacy
  BY DEF Init, IsTable
<1>2. \A v \in Legacy : v.kind # "envelope" /\ v.kind # "escaped" /\ Plain(v)
  BY ValuesAssumption DEF HasSentinel, Plain
<1>3. \A v \in Legacy : Plain(Within(v))
  BY <1>2 DEF Within, Unescape
<1>4. NeverDoubleEncrypted
  BY <1>1, <1>2, Zenon DEF NeverDoubleEncrypted
<1>5. Plain(held) /\ todo \in Seq(Cols) /\ batch = {}
  BY DEF Init, Plain, NULL, Kinds
<1> QED
  BY <1>1, <1>2, <1>3, <1>4, <1>5 DEF PlainInv

\* What a decrypted value is, if it is one.
LEMMA DecryptIsWithin ==
  ASSUME NEW c, NEW v, NEW aad, Decrypt(c, v, aad) # Failed
  PROVE  Decrypt(c, v, aad) = Within(v) /\ v.kind # "malformed"
BY DEF Decrypt, Parse, HasSentinel, Within, Unescape

\* A write leaves the table as it was, or puts there what stands for the value.
LEMMA WriteStores ==
  ASSUME NEW p \in Replicas, NEW r \in Rows, NEW col \in Cols, NEW pii \in BOOLEAN, NEW v,
         EncryptBind(p, r, col, pii, v), Plain(v)
  PROVE  \/ db' = db /\ truth' = truth
         \/ /\ truth' = [truth EXCEPT ![r][col] = v]
            /\ \E s : db' = [db EXCEPT ![r][col] = s] /\ Stores(s, col, v)
<1> DEFINE s == IF col = "VALUE" THEN applyAttributeCondition(cipher[p], pii, v)
                                 ELSE encryptParam(cipher[p], col, v)
<1>1. CASE s = Failed
  BY <1>1 DEF EncryptBind, rowVars
<1>2. CASE s # Failed
  <2>1. Stores(s, col, v)
    BY <1>2, EncryptParamStores, EscapeStores DEF applyAttributeCondition
  <2>2. \/ db' = db /\ truth' = truth
        \/ db' = [db EXCEPT ![r][col] = s] /\ truth' = [truth EXCEPT ![r][col] = v]
    BY <1>2, Zenon DEF EncryptBind, rowVars
  <2> HIDE DEF s
  <2> QED
    BY <2>1, <2>2
<1> QED
  BY <1>1, <1>2, Zenon

\* A table stays plain when something that stands for a value is put in it.
LEMMA StoresPlain ==
  ASSUME PlainInv, NEW r \in Rows, NEW col \in Cols, NEW s, NEW v,
         db' = [db EXCEPT ![r][col] = s], Stores(s, col, v)
  PROVE  /\ IsTable(db)'
         /\ (\A q \in Rows, c \in Cols : Plain(Within(db[q][c])) /\ Plain(db[q][c]))'
         /\ NeverDoubleEncrypted'
<1>0. IsTable(db)
  BY DEF PlainInv
<1>1. /\ IsTable(db)' /\ db'[r][col] = s
      /\ \A q \in Rows, c \in Cols : q # r \/ c # col => db'[q][c] = db[q][c]
  BY <1>0, Zenon DEF IsTable
<1>2. \A q \in Rows, c \in Cols : Plain(Within(db'[q][c])) /\ Plain(db'[q][c])
  BY <1>1 DEF PlainInv, Stores
<1>3. NeverDoubleEncrypted'
  <2> SUFFICES ASSUME NEW q \in Rows, NEW c \in Cols, db'[q][c].kind = "envelope"
               PROVE  LET w == db'[q][c].ciphertext.of
                      IN  w.kind # "envelope" /\ ~(w.kind = "lowered" /\ w.of.kind = "envelope")
    BY Zenon DEF NeverDoubleEncrypted
  <2>1. CASE q = r /\ c = col
    BY <1>1, <2>1, Zenon DEF Stores, Within, Plain
  <2>2. CASE q # r \/ c # col
    <3>1. db'[q][c] = db[q][c]
      BY <1>1, <2>2
    <3>2. NeverDoubleEncrypted
      BY DEF PlainInv
    <3> QED
      BY <3>1, <3>2, Zenon DEF NeverDoubleEncrypted
  <2> QED
    BY <2>1, <2>2, Zenon
<1> QED
  BY <1>1, <1>2, <1>3

\* What one UPDATE of the backfill puts in the table stands for the value it
\* selected.
LEMMA BackfillStores ==
  ASSUME PlainInv, NEW b \in batch, encryptColumn(b)
  PROVE  /\ b.row \in Rows /\ b.col \in Cols
         /\ \E s : db' = [db EXCEPT ![b.row][b.col] = s] /\ Stores(s, b.col, b.value)
<1>1. b.row \in Rows /\ b.col \in Cols /\ Plain(b.value) /\ b.value.kind # "envelope"
  BY DEF PlainInv, encryptColumn, HasSentinel
<1>2. PICK col, v : col = b.col /\ v = b.value
  OBVIOUS
<1> DEFINE w == IF col = "EMAIL" THEN NormalizeLowercase(v) ELSE v
           e == Encrypt(tcipher, Scheme(col), w, AAD(col))
<1>3. Plain(v) /\ v.kind # "envelope"
  BY <1>1, <1>2
<1>4. /\ e.kind = "envelope" /\ e.ciphertext.of = w
      /\ Plain(w) /\ w.kind # "envelope" /\ Same(col, w, v)
  BY <1>3, EncryptedHolds, Zenon
<1>5. db' = [db EXCEPT ![b.row][b.col] = e]
  BY <1>2 DEF encryptColumn
<1> HIDE DEF w, e
<1>6. Stores(e, col, v)
  BY <1>4 DEF Stores, Plain, Within, Kinds
<1> QED
  BY <1>1, <1>2, <1>5, <1>6, Zenon

\* The columns a backfill goes through are columns of the table.
LEMMA TodoColumns == FixedColumns \in Seq(Cols) /\ (BlindIndexed => <<"EMAIL">> \in Seq(Cols))
<1>1. CASE "EMAIL" \in Cols
  <2>1. <<"EMAIL">> \in Seq(Cols)
    BY <1>1
  <2>2. (IF "SECRET" \in Cols THEN <<"SECRET">> ELSE <<>>) \in Seq(Cols)
    OBVIOUS
  <2> QED
    BY <1>1, <2>1, <2>2 DEF FixedColumns
<1>2. CASE "EMAIL" \notin Cols
  <2>1. <<>> \in Seq(Cols) /\ (IF "SECRET" \in Cols THEN <<"SECRET">> ELSE <<>>) \in Seq(Cols)
    OBVIOUS
  <2> QED
    BY <1>2, <2>1, ColumnsAssumption DEF FixedColumns
<1> QED
  BY <1>1, <1>2

\* A SELECT of the backfill, whole or cut short, gets rows of its selection
\* with the values they have.
LEMMA SelectGets ==
  ASSUME selectColumn \/ SelectCutShort
  PROVE  /\ UNCHANGED <<db, hash, truth, keycloak, held, kek, file, minted, cipher, task, tcipher, done>>
         /\ task # "idle" /\ todo # <<>> /\ batch = {} /\ todo' = Tail(todo)
         /\ \A b \in batch' : \E r \in Selected(Head(todo)) :
              b = [row |-> r, col |-> Head(todo), value |-> db[r][Head(todo)]]
         /\ \A b \in batch' :
              /\ b.row \in Selected(Head(todo)) /\ b.col = Head(todo)
              /\ b.value = db[b.row][b.col] /\ b.value # NULL
<1>1. /\ UNCHANGED <<db, hash, truth, keycloak, held, kek, file, minted, cipher, task, tcipher, done>>
      /\ task # "idle" /\ todo # <<>> /\ batch = {} /\ todo' = Tail(todo)
  BY Zenon DEF selectColumn, SelectCutShort, rowVars, kcVars, keyVars, endVars
<1>2. PICK got \in SUBSET Selected(Head(todo)) : batch' = Batch(got)
  BY Zenon DEF selectColumn, SelectCutShort
<1>3. \A b \in batch' : \E r \in Selected(Head(todo)) :
        b = [row |-> r, col |-> Head(todo), value |-> db[r][Head(todo)]]
  BY <1>2, Zenon DEF Batch
<1>4. \A r \in Selected(Head(todo)) : db[r][Head(todo)] # NULL
  BY Zenon DEF Selected
<1>5. ASSUME NEW b \in batch'
      PROVE  /\ b.row \in Selected(Head(todo)) /\ b.col = Head(todo)
             /\ b.value = db[b.row][b.col] /\ b.value # NULL
  <2>1. PICK r \in Selected(Head(todo)) :
          b = [row |-> r, col |-> Head(todo), value |-> db[r][Head(todo)]]
    BY <1>3
  <2>2. b.row = r /\ b.col = Head(todo) /\ b.value = db[r][Head(todo)]
    BY <2>1
  <2> QED
    BY <1>4, <2>2, Zenon
<1> QED
  BY <1>1, <1>3, <1>5, Zenon

\* Every step keeps it, the writes of a second replica and of the backfill
\* included.
LEMMA StepPlain == PlainInv /\ [Next]_vars => PlainInv'
<1> SUFFICES ASSUME PlainInv, [Next]_vars PROVE PlainInv'
  OBVIOUS
<1>1. ASSUME NEW p \in Replicas, NEW r \in Rows, NEW col \in Cols,
             NEW v \in Inputs \union {held}, NEW pii \in BOOLEAN, EncryptBind(p, r, col, pii, v)
      PROVE  PlainInv'
  <2>1. Plain(v)
    BY ValuesAssumption, Zenon DEF PlainInv, Plain
  <2>2. UNCHANGED <<held, task, todo, batch>>
    BY <1>1, Zenon DEF EncryptBind, taskVars
  <2>3. CASE db' = db
    BY <2>2, <2>3, Zenon DEF PlainInv, IsTable, NeverDoubleEncrypted
  <2>4. CASE \E s : db' = [db EXCEPT ![r][col] = s] /\ Stores(s, col, v)
    <3>1. PICK s : db' = [db EXCEPT ![r][col] = s] /\ Stores(s, col, v)
      BY <2>4, Zenon
    <3>2. /\ IsTable(db)' /\ NeverDoubleEncrypted'
          /\ (\A q \in Rows, c \in Cols : Plain(Within(db[q][c])) /\ Plain(db[q][c]))'
      BY <3>1, StoresPlain, Zenon
    <3> QED
      BY <2>2, <3>2, Zenon DEF PlainInv
  <2> QED
    BY <1>1, <2>1, <2>3, <2>4, WriteStores
<1>2. ASSUME NEW p \in Replicas, NEW r \in Rows, NEW col \in Cols,
             DecryptDataRow(p, r, col) \/ PassThrough(p, r, col)
      PROVE  PlainInv'
  <2>1. UNCHANGED <<db, task, todo, batch>>
    BY <1>2, Zenon DEF DecryptDataRow, PassThrough, rowVars, taskVars
  <2>2. held' \in {held, Within(db[r][col]), db[r][col]}
    BY <1>2, DecryptIsWithin, Zenon DEF DecryptDataRow, PassThrough
  <2>3. Plain(held')
    BY <2>2, Zenon DEF PlainInv
  <2> QED
    BY <2>1, <2>3, Zenon DEF PlainInv, IsTable, NeverDoubleEncrypted
<1>3. ASSUME NEW b \in batch, encryptColumn(b)
      PROVE  PlainInv'
  <2>1. /\ b.row \in Rows /\ b.col \in Cols
        /\ \E s : db' = [db EXCEPT ![b.row][b.col] = s] /\ Stores(s, b.col, b.value)
    BY <1>3, BackfillStores, Zenon
  <2>2. /\ IsTable(db)' /\ NeverDoubleEncrypted'
        /\ (\A q \in Rows, c \in Cols : Plain(Within(db[q][c])) /\ Plain(db[q][c]))'
    BY <2>1, StoresPlain, Zenon
  <2>3. UNCHANGED <<held, task, todo>> /\ batch' \subseteq batch
    BY <1>3, Zenon DEF encryptColumn, kcVars
  <2> QED
    BY <2>2, <2>3, Zenon DEF PlainInv
<1>4. ASSUME selectColumn \/ SelectCutShort
      PROVE  PlainInv'
  <2>0. UNCHANGED <<db, held, task>> /\ todo # <<>> /\ todo' = Tail(todo) /\ todo \in Seq(Cols)
    BY <1>4, SelectGets, Zenon DEF PlainInv
  <2>1. UNCHANGED <<db, held, task>> /\ Head(todo) \in Cols /\ todo' \in Seq(Cols)
    BY <2>0
  <2>2. ASSUME NEW b \in batch'
        PROVE  /\ b \in [row : Rows, col : Cols, value : {b.value}]
               /\ Plain(b.value) /\ (task = "encrypt" => ~HasSentinel(b.value))
    <3>1. PICK r \in Selected(Head(todo)) :
            b = [row |-> r, col |-> Head(todo), value |-> db[r][Head(todo)]]
      BY <1>4, <2>2, SelectGets, Zenon
    <3>2. r \in Rows /\ (task = "encrypt" => ~HasSentinel(db[r][Head(todo)]))
      BY Zenon DEF Selected
    <3> QED
      BY <2>1, <3>1, <3>2, Zenon DEF PlainInv
  <2> QED
    BY <2>1, <2>2, Zenon DEF PlainInv, IsTable, NeverDoubleEncrypted
<1>5. ASSUME \/ \E b \in batch : hashColumn(b)
             \/ TaskEnds \/ Crash \/ runEncrypt \/ runHashRows
      PROVE  PlainInv'
  <2>1. UNCHANGED <<db, held>>
    BY <1>5, Zenon DEF hashColumn, TaskEnds, Crash, runEncrypt, runHashRows, rowVars, kcVars
  <2>2. todo' \in Seq(Cols)
    <3>1. todo' \in {todo, <<>>, FixedColumns} \/ (BlindIndexed /\ todo' = <<"EMAIL">>)
      BY <1>5, Zenon DEF hashColumn, TaskEnds, Crash, runEncrypt, runHashRows
    <3>2. todo \in Seq(Cols) /\ <<>> \in Seq(Cols)
      BY DEF PlainInv
    <3> QED
      BY <3>1, <3>2, TodoColumns, Zenon
  <2>3. batch' \subseteq batch /\ (batch' = {} \/ task' = task)
    BY <1>5, Zenon DEF hashColumn, TaskEnds, Crash, runEncrypt, runHashRows
  <2> QED
    BY <2>1, <2>2, <2>3, Zenon DEF PlainInv, IsTable, NeverDoubleEncrypted
<1>6. ASSUME Operator \/ UNCHANGED vars
      PROVE  PlainInv'
  <2>1. UNCHANGED <<db, held, task, todo, batch>>
    BY <1>6, Zenon DEF Operator, runGenerate, RotateFile, KeycloakStarts, KeycloakStops, buildCipher,
                ProxyStops, vars, rowVars, kcVars, taskVars
  <2> QED
    BY <2>1, Zenon DEF PlainInv, IsTable, NeverDoubleEncrypted
<1> QED
  BY <1>1, <1>2, <1>3, <1>4, <1>5, <1>6, Zenon DEF Next, Keycloak, Backfill

\* Proof of NeverDoubleEncrypted for every instance, also with the backfill
\* and Keycloak at work together: whichever replica, backfill or restart
\* writes a value, encryptParam and the backfill's SELECT keep envelopes out.
THEOREM NeverDoubleEncryptedAlways == Spec => []NeverDoubleEncrypted
<1>1. PlainInv => NeverDoubleEncrypted
  BY DEF PlainInv
<1> QED
  BY InitPlain, StepPlain, <1>1, PTL DEF Spec

-----------------------------------------------------------------------------
(* With Keycloak down while the backfill runs.                              *)

\* The second invariant holds of the empty table.
LEMMA InitTruth == Init => TruthInv
<1> SUFFICES ASSUME Init PROVE TruthInv
  BY Zenon
<1>1. /\ IsTable(truth) /\ task = "idle" /\ batch = {} /\ db = truth
      /\ \A r \in Rows, col \in Cols : db[r][col] \in Legacy
  BY Zenon DEF Init, IsTable
<1>2. \A v \in Legacy : Within(v) = v
  BY ValuesAssumption, Zenon DEF HasSentinel, Within, Unescape
<1>3. \A r \in Rows, col \in Cols : Same(col, Within(db[r][col]), truth[r][col])
  BY <1>1, <1>2, Zenon DEF Same
<1> QED
  BY <1>1, <1>3, Zenon DEF TruthInv

\* Every step keeps it.
LEMMA StepTruth ==
  ASSUME ~Online PROVE PlainInv /\ TruthInv /\ [Next]_vars => TruthInv'
<1> SUFFICES ASSUME PlainInv, TruthInv, [Next]_vars PROVE TruthInv'
  BY Zenon
<1>t. IsTable(db) /\ IsTable(truth)
  BY Zenon DEF PlainInv, TruthInv
<1>1. ASSUME NEW p \in Replicas, NEW r \in Rows, NEW col \in Cols,
             NEW v \in Inputs \union {held}, NEW pii \in BOOLEAN, EncryptBind(p, r, col, pii, v)
      PROVE  TruthInv'
  <2>1. Plain(v)
    BY ValuesAssumption, Zenon DEF PlainInv, Plain
  <2>2. UNCHANGED <<keycloak, task, batch>> /\ task = "idle"
    BY <1>1, Zenon DEF EncryptBind, taskVars, Request, TruthInv
  <2>3. CASE db' = db /\ truth' = truth
    BY <2>2, <2>3, Zenon DEF TruthInv, IsTable
  <2>4. CASE /\ truth' = [truth EXCEPT ![r][col] = v]
             /\ \E s : db' = [db EXCEPT ![r][col] = s] /\ Stores(s, col, v)
    <3>1. PICK s : db' = [db EXCEPT ![r][col] = s] /\ Stores(s, col, v)
      BY <2>4, Zenon
    <3>2. /\ IsTable(truth)' /\ truth'[r][col] = v
          /\ \A q \in Rows, c \in Cols : q # r \/ c # col => truth'[q][c] = truth[q][c]
      <4>1. truth' = [truth EXCEPT ![r][col] = v]
        BY <2>4, Zenon
      <4> QED
        BY <1>t, <4>1, Zenon DEF IsTable
    <3>3. /\ db'[r][col] = s
          /\ \A q \in Rows, c \in Cols : q # r \/ c # col => db'[q][c] = db[q][c]
      BY <1>t, <3>1, Zenon DEF IsTable
    <3>4. \A q \in Rows, c \in Cols :
            db'[q][c].kind = "malformed" \/ Same(c, Within(db'[q][c]), truth'[q][c])
      BY <3>1, <3>2, <3>3 DEF TruthInv, Stores
    <3> QED
      BY <2>2, <3>2, <3>4, Zenon DEF TruthInv
  <2> QED
    BY <1>1, <2>1, <2>3, <2>4, WriteStores
<1>2. ASSUME NEW b \in batch, encryptColumn(b)
      PROVE  TruthInv'
  <2>1. /\ b.row \in Rows /\ b.col \in Cols
        /\ \E s : db' = [db EXCEPT ![b.row][b.col] = s] /\ Stores(s, b.col, b.value)
    BY <1>2, BackfillStores, Zenon
  <2>2. PICK s : db' = [db EXCEPT ![b.row][b.col] = s] /\ Stores(s, b.col, b.value)
    BY <2>1, Zenon
  <2>3. /\ db'[b.row][b.col] = s
        /\ \A q \in Rows, c \in Cols : q # b.row \/ c # b.col => db'[q][c] = db[q][c]
    BY <1>t, <2>1, <2>2 DEF IsTable
  <2>4. UNCHANGED <<keycloak, task, truth>> /\ task = "encrypt" /\ batch' = batch \ {b}
    BY <1>2, Zenon DEF encryptColumn, kcVars
  <2>5. b.value = db[b.row][b.col] /\ b.value.kind # "malformed"
    BY <2>4 DEF TruthInv, PlainInv, HasSentinel
  <2>6. Same(b.col, Within(s), truth[b.row][b.col])
    <3>1. Same(b.col, Within(b.value), truth[b.row][b.col])
      BY <2>1, <2>5, Zenon DEF TruthInv
    <3>2. Within(b.value) = b.value
      BY <2>4, Zenon DEF PlainInv, HasSentinel, Within, Unescape
    <3>3. Same(b.col, Within(s), b.value)
      BY <2>2 DEF Stores
    <3> QED
      BY <3>1, <3>2, <3>3, Zenon DEF Same
  <2>7. \A q \in Rows, c \in Cols :
          db'[q][c].kind = "malformed" \/ Same(c, Within(db'[q][c]), truth'[q][c])
    BY <2>3, <2>4, <2>6, Zenon DEF TruthInv
  <2>8. \A a \in batch' : a.value = db'[a.row][a.col]
    <3> SUFFICES ASSUME NEW a \in batch' PROVE a.value = db'[a.row][a.col]
      BY Zenon
    <3>1. /\ a \in [row : Rows, col : Cols, value : {a.value}] /\ a.value = db[a.row][a.col]
          /\ b \in [row : Rows, col : Cols, value : {b.value}] /\ a # b
      BY <2>4, Zenon DEF PlainInv, TruthInv
    <3>2. a.row # b.row \/ a.col # b.col
      BY <2>5, <3>1
    <3> QED
      BY <2>3, <3>1, <3>2, Zenon
  <2>9. IsTable(truth)'
    BY <1>t, <2>4, Zenon DEF IsTable
  <2> QED
    BY <2>4, <2>7, <2>8, <2>9, Zenon DEF TruthInv
<1>3. ASSUME selectColumn \/ SelectCutShort
      PROVE  TruthInv'
  <2>1. UNCHANGED <<db, truth, keycloak, task>> /\ task # "idle"
    BY <1>3, SelectGets, Zenon
  <2>2. \A b \in batch' : b.value = db[b.row][b.col]
    BY <1>3, SelectGets, Zenon
  <2> QED
    BY <2>1, <2>2, Zenon DEF TruthInv, IsTable
<1>4. ASSUME \/ \E b \in batch : hashColumn(b)
             \/ TaskEnds \/ Crash \/ runEncrypt \/ runHashRows
      PROVE  TruthInv'
  <2>1. UNCHANGED <<db, truth, keycloak>>
    BY <1>4, Zenon DEF hashColumn, TaskEnds, Crash, runEncrypt, runHashRows, rowVars, kcVars
  <2>2. batch' = {} \/ (task' = "hash" /\ task = "hash")
    BY <1>4, Zenon DEF hashColumn, TaskEnds, Crash, runEncrypt, runHashRows
  <2>3. task' # "idle" => ~keycloak
    BY <1>4, Zenon DEF TruthInv, hashColumn, TaskEnds, Crash, runEncrypt, runHashRows, Offline
  <2> QED
    BY <2>1, <2>2, <2>3, Zenon DEF TruthInv, IsTable
<1>5. ASSUME Operator \/ UNCHANGED vars
             \/ \E p \in Replicas, r \in Rows, col \in Cols :
                  DecryptDataRow(p, r, col) \/ PassThrough(p, r, col)
      PROVE  TruthInv'
  <2>1. UNCHANGED <<db, truth, task, batch>>
    BY <1>5, Zenon DEF Operator, runGenerate, RotateFile, KeycloakStarts, KeycloakStops, buildCipher,
                ProxyStops, DecryptDataRow, PassThrough, vars, rowVars, kcVars, taskVars
  <2>2. keycloak' => keycloak \/ task = "idle"
    BY <1>5, Zenon DEF Operator, runGenerate, RotateFile, KeycloakStarts, KeycloakStops, buildCipher,
                ProxyStops, DecryptDataRow, PassThrough, vars, rowVars, kcVars, taskVars
  <2> QED
    BY <2>1, <2>2, Zenon DEF TruthInv, IsTable
<1> QED
  BY <1>1, <1>2, <1>3, <1>4, <1>5, Zenon DEF Next, Keycloak, Backfill

\* Proof of ReadsNeverLie for every instance in which Keycloak is down while
\* the backfill runs, with any keys, key versions and KEKs in any replica: a
\* planned read returns what Keycloak last wrote, or fails.
THEOREM ReadsNeverLieAlways == ASSUME ~Online PROVE Spec => []ReadsNeverLie
<1>1. TruthInv => ReadsNeverLie
  <2> SUFFICES ASSUME TruthInv, NEW p \in Replicas, NEW r \in Rows, NEW col \in Cols,
                      ReadsAs(p, r, col) # Failed
               PROVE  Same(col, ReadsAs(p, r, col), truth[r][col])
    BY Zenon DEF ReadsNeverLie
  <2>1. ReadsAs(p, r, col) = Within(db[r][col]) /\ db[r][col].kind # "malformed"
    BY DecryptIsWithin, Zenon DEF ReadsAs
  <2> QED
    BY <2>1, Zenon DEF TruthInv
<1> QED
  BY InitPlain, StepPlain, InitTruth, StepTruth, <1>1, PTL DEF Spec

\* Proof of BackfillSkipsEncrypted for every such instance: a value that is an
\* envelope is never one of those encryptColumn selected and has still to
\* rewrite.
THEOREM BackfillSkipsEncryptedAlways == ASSUME ~Online PROVE Spec => BackfillSkipsEncrypted
<1> DEFINE Skips == task = "encrypt" =>
                      \A r \in Rows, col \in Cols :
                        db[r][col].kind = "envelope" /\ ~keycloak => db'[r][col] = db[r][col]
<1>1. PlainInv /\ TruthInv /\ [Next]_vars => [Skips]_vars
  <2> SUFFICES ASSUME PlainInv, TruthInv, Next, task = "encrypt", ~keycloak,
                      NEW r \in Rows, NEW col \in Cols, db[r][col].kind = "envelope"
               PROVE  db'[r][col] = db[r][col]
    BY Zenon
  <2>1. ASSUME NEW b \in batch, encryptColumn(b)
        PROVE  db'[r][col] = db[r][col]
    <3>1. b.value = db[b.row][b.col] /\ ~HasSentinel(b.value)
      BY <2>1, Zenon DEF TruthInv, PlainInv
    <3>2. r # b.row \/ col # b.col
      BY <3>1, Zenon DEF HasSentinel
    <3>3. b.row \in Rows /\ b.col \in Cols /\ IsTable(db)
      BY Zenon DEF PlainInv
    <3> QED
      BY <2>1, <3>2, <3>3, Zenon DEF encryptColumn, IsTable
  <2>2. CASE Keycloak \/ Operator
    BY <2>2 DEF Keycloak, Operator, runGenerate, RotateFile, KeycloakStarts, KeycloakStops, buildCipher,
                ProxyStops, DecryptDataRow, PassThrough, EncryptBind, Request, rowVars
  <2>3. ASSUME \/ \E b \in batch : hashColumn(b)
               \/ selectColumn \/ SelectCutShort \/ TaskEnds \/ Crash \/ runEncrypt \/ runHashRows
        PROVE  db' = db
    BY <2>3, SelectGets, Zenon DEF hashColumn, TaskEnds, Crash, runEncrypt, runHashRows, rowVars
  <2> QED
    BY <2>1, <2>2, <2>3, Zenon DEF Next, Backfill
<1> HIDE DEF Skips
<1>2. Spec => [][Skips]_vars
  BY InitPlain, StepPlain, InitTruth, StepTruth, <1>1, PTL DEF Spec
<1> QED
  BY <1>2 DEF BackfillSkipsEncrypted, Skips

-----------------------------------------------------------------------------
(* encrypt-rows leaves nothing out.                                         *)

\* A fixed column holds an envelope or something without the sentinel, so the
\* SELECT of encrypt-rows passes over nothing but envelopes and NULL.
FixedInv ==
  \A r \in Rows, col \in Cols \ {"VALUE"} :
    db[r][col].kind = "envelope" \/ ~HasSentinel(db[r][col])

\* The walk s has still to come to col.
Ahead(s, col) == \E i \in 1..Len(s) : s[i] = col

\* The walk has still to come to the column, the row is in the batch, or its
\* value is encrypted.
Covered(r, col) ==
  \/ Ahead(todo, col)
  \/ \E b \in batch : b.row = r /\ b.col = col
  \/ db[r][col] = NULL \/ db[r][col].kind = "envelope"

\* A walk none of whose SELECTs was cut short covers every fixed column.
WalkInv ==
  task = "encrypt" /\ ~cut => \A r \in Rows, col \in Cols \ {"VALUE"} : Covered(r, col)

\* The walk starts with all fixed columns.
LEMMA WalkIsWhole ==
  ASSUME NEW col \in Cols \ {"VALUE"}
  PROVE  Ahead(FixedColumns, col)
<1> DEFINE e == IF "EMAIL" \in Cols THEN <<"EMAIL">> ELSE <<>>
           f == IF "SECRET" \in Cols THEN <<"SECRET">> ELSE <<>>
<1>0. FixedColumns = e \o f
  BY DEF FixedColumns
<1>1. e \in Seq(Cols) /\ f \in Seq(Cols)
  OBVIOUS
<1>2. /\ Len(e) \in Nat /\ Len(f) \in Nat
      /\ \A i \in 1..Len(e \o f) : (e \o f)[i] = IF i <= Len(e) THEN e[i] ELSE f[i - Len(e)]
      /\ Len(e \o f) = Len(e) + Len(f)
  <2> HIDE DEF e, f
  <2> QED
    BY <1>1, ConcatProperties
<1>3. CASE col = "EMAIL"
  <2>1. Len(e) = 1 /\ e[1] = col
    BY <1>3
  <2> HIDE DEF e, f
  <2>2. 1 \in 1..Len(e \o f) /\ (e \o f)[1] = col
    BY <1>2, <2>1
  <2> QED
    BY <1>0, <2>2, Zenon DEF Ahead
<1>4. CASE col = "SECRET"
  <2>1. Len(f) = 1 /\ f[1] = col
    BY <1>4
  <2> HIDE DEF e, f
  <2>2. Len(e) + 1 \in 1..Len(e \o f) /\ (e \o f)[Len(e) + 1] = col
    BY <1>2, <2>1
  <2> QED
    BY <1>0, <2>2, Zenon DEF Ahead
<1> QED
  BY <1>3, <1>4, ColumnsAssumption, Zenon

\* Taking the head off a walk loses no other column.
LEMMA WalkGoesOn ==
  ASSUME NEW s \in Seq(Cols), s # <<>>, NEW col, Ahead(s, col)
  PROVE  col = Head(s) \/ Ahead(Tail(s), col)
<1>1. PICK i \in 1..Len(s) : s[i] = col
  BY Zenon DEF Ahead
<1>2. CASE i = 1
  BY <1>1, <1>2
<1>3. CASE i # 1
  <2>1. i - 1 \in 1..Len(Tail(s)) /\ Tail(s)[i - 1] = s[i]
    BY <1>3
  <2> QED
    BY <1>1, <2>1, Zenon DEF Ahead
<1> QED
  BY <1>2, <1>3

\* What a write or an UPDATE of encrypt-rows puts into a fixed column.
LEMMA FixedWrites ==
  ASSUME PlainInv, FixedInv, NEW r \in Rows, NEW col \in Cols, NEW s,
         db' = [db EXCEPT ![r][col] = s], col # "VALUE" => s = NULL \/ s.kind = "envelope"
  PROVE  /\ FixedInv'
         /\ \A q \in Rows, c \in Cols \ {"VALUE"} :
              \/ db'[q][c] = db[q][c] /\ (q # r \/ c # col)
              \/ db'[q][c] = NULL \/ db'[q][c].kind = "envelope"
<1>1. IsTable(db)
  BY DEF PlainInv
<1>2. /\ db'[r][col] = s
      /\ \A q \in Rows, c \in Cols : q # r \/ c # col => db'[q][c] = db[q][c]
  BY <1>1, Zenon DEF IsTable
<1>3. ~HasSentinel(NULL)
  BY DEF HasSentinel, NULL
<1>4. \A q \in Rows, c \in Cols \ {"VALUE"} :
        \/ db'[q][c] = db[q][c] /\ (q # r \/ c # col)
        \/ db'[q][c] = NULL \/ db'[q][c].kind = "envelope"
  BY <1>2, Zenon
<1>5. FixedInv'
  BY <1>3, <1>4, Zenon DEF FixedInv
<1> QED
  BY <1>4, <1>5

\* Every step keeps both, writes of Keycloak during the walk included.
LEMMA StepWalk ==
  ASSUME PlainInv, FixedInv, WalkInv, [Next]_vars
  PROVE  FixedInv' /\ WalkInv'
<1>1. ASSUME NEW p \in Replicas, NEW r \in Rows, NEW col \in Cols,
             NEW v \in Inputs \union {held}, NEW pii \in BOOLEAN, EncryptBind(p, r, col, pii, v)
      PROVE  FixedInv' /\ WalkInv'
  <2> DEFINE s == IF col = "VALUE" THEN applyAttributeCondition(cipher[p], pii, v)
                                   ELSE encryptParam(cipher[p], col, v)
  <2>1. UNCHANGED <<task, todo, batch, cut>>
    BY <1>1, Zenon DEF EncryptBind, taskVars, endVars
  <2>2. CASE db' = db
    BY <2>1, <2>2, Zenon DEF FixedInv, WalkInv, Covered
  <2>3. CASE db' # db
    <3>1. db' = [db EXCEPT ![r][col] = s] /\ s # Failed
      BY <1>1, <2>3, Zenon DEF EncryptBind, rowVars
    <3>2. col # "VALUE" => s = NULL \/ s.kind = "envelope"
      BY <3>1 DEF encryptParam, Encrypt, Marshal
    <3> HIDE DEF s
    <3>3. /\ FixedInv'
          /\ \A q \in Rows, c \in Cols \ {"VALUE"} :
               \/ db'[q][c] = db[q][c] /\ (q # r \/ c # col)
               \/ db'[q][c] = NULL \/ db'[q][c].kind = "envelope"
      BY <3>1, <3>2, FixedWrites, Zenon
    <3>4. \A q \in Rows, c \in Cols \ {"VALUE"} : Covered(q, c) => Covered(q, c)'
      BY <2>1, <3>3, Zenon DEF Covered
    <3> QED
      BY <2>1, <3>3, <3>4, Zenon DEF WalkInv
  <2> QED
    BY <2>2, <2>3
<1>2. ASSUME NEW b \in batch, encryptColumn(b)
      PROVE  FixedInv' /\ WalkInv'
  <2>1. PICK r, col : r = b.row /\ col = b.col /\ r \in Rows /\ col \in Cols
    BY DEF PlainInv
  <2> DEFINE s == Encrypt(tcipher, Scheme(b.col),
                          IF b.col = "EMAIL" THEN NormalizeLowercase(b.value) ELSE b.value, AAD(b.col))
  <2>2. /\ db' = [db EXCEPT ![r][col] = s]
        /\ UNCHANGED <<task, todo, cut>> /\ batch' = batch \ {b}
    BY <1>2, <2>1, Zenon DEF encryptColumn, endVars
  <2>3. s.kind = "envelope"
    BY DEF Encrypt, Marshal
  <2> HIDE DEF s
  <2>4. /\ FixedInv'
        /\ \A q \in Rows, c \in Cols \ {"VALUE"} :
             \/ db'[q][c] = db[q][c] /\ (q # r \/ c # col)
             \/ db'[q][c] = NULL \/ db'[q][c].kind = "envelope"
    BY <2>1, <2>2, <2>3, FixedWrites, Zenon
  <2>5. ASSUME NEW q \in Rows, NEW c \in Cols \ {"VALUE"}, Covered(q, c)
        PROVE  Covered(q, c)'
    <3>1. CASE Ahead(todo, c)
      BY <2>2, <3>1, Zenon DEF Covered
    <3>2. CASE \E x \in batch : x.row = q /\ x.col = c
      BY <2>1, <2>2, <2>4, <3>2, Zenon DEF Covered
    <3>3. CASE db[q][c] = NULL \/ db[q][c].kind = "envelope"
      BY <2>4, <3>3, Zenon DEF Covered
    <3> QED
      BY <2>5, <3>1, <3>2, <3>3, Zenon DEF Covered
  <2> QED
    BY <2>2, <2>4, <2>5, Zenon DEF WalkInv
<1>3. CASE selectColumn
  <2>1. /\ UNCHANGED <<db, task, cut>> /\ todo # <<>> /\ batch = {} /\ todo' = Tail(todo)
        /\ batch' = Batch(Selected(Head(todo))) /\ todo \in Seq(Cols)
    BY <1>3, Zenon DEF selectColumn, rowVars, endVars, PlainInv
  <2>2. FixedInv'
    BY <2>1, Zenon DEF FixedInv
  <2>3. ASSUME task = "encrypt", ~cut, NEW r \in Rows, NEW col \in Cols \ {"VALUE"}
        PROVE  Covered(r, col)'
    <3>1. CASE db[r][col] = NULL \/ db[r][col].kind = "envelope"
      BY <2>1, <3>1, Zenon DEF Covered
    <3>2. CASE Ahead(Tail(todo), col)
      BY <2>1, <3>2, Zenon DEF Covered
    <3>3. CASE /\ ~(db[r][col] = NULL \/ db[r][col].kind = "envelope")
               /\ ~Ahead(Tail(todo), col)
      <4>1. Ahead(todo, col)
        BY <2>1, <2>3, <3>3, Zenon DEF WalkInv, Covered
      <4>2. col = Head(todo)
        BY <2>1, <3>3, <4>1, WalkGoesOn, Zenon
      <4>3. r \in Selected(Head(todo))
        BY <2>3, <3>3, <4>2, Zenon DEF Selected, FixedInv
      <4> DEFINE b == [row |-> r, col |-> Head(todo), value |-> db[r][Head(todo)]]
      <4>4. b \in batch'
        BY <2>1, <4>3, Zenon DEF Batch
      <4>5. b.row = r /\ b.col = col
        BY <4>2
      <4> QED
        BY <4>4, <4>5, Zenon DEF Covered
    <3> QED
      BY <3>1, <3>2, <3>3, Zenon
  <2> QED
    BY <2>1, <2>2, <2>3, Zenon DEF WalkInv
<1>4. CASE SelectCutShort
  <2>1. UNCHANGED <<db, task>> /\ cut' = (cut \/ task = "encrypt")
    BY <1>4, Zenon DEF SelectCutShort, rowVars
  <2> QED
    BY <2>1, Zenon DEF FixedInv, WalkInv
<1>5. CASE runEncrypt
  <2>1. db' = db /\ todo' = FixedColumns
    BY <1>5, Zenon DEF runEncrypt, rowVars
  <2> QED
    BY <2>1, WalkIsWhole, Zenon DEF FixedInv, WalkInv, Covered
<1>6. ASSUME TaskEnds \/ Crash \/ runHashRows \/ \E b \in batch : hashColumn(b)
      PROVE  FixedInv' /\ WalkInv'
  <2>1. db' = db /\ task' # "encrypt"
    BY <1>6, Zenon DEF TaskEnds, Crash, runHashRows, hashColumn, rowVars
  <2> QED
    BY <2>1, Zenon DEF FixedInv, WalkInv
<1>7. ASSUME Operator \/ UNCHANGED vars
             \/ \E p \in Replicas, r \in Rows, col \in Cols :
                  DecryptDataRow(p, r, col) \/ PassThrough(p, r, col)
      PROVE  FixedInv' /\ WalkInv'
  <2>1. UNCHANGED <<db, task, todo, batch, cut>>
    BY <1>7, Zenon DEF Operator, runGenerate, RotateFile, KeycloakStarts, KeycloakStops, buildCipher,
                ProxyStops, DecryptDataRow, PassThrough, vars, rowVars, taskVars, endVars
  <2> QED
    BY <2>1, Zenon DEF FixedInv, WalkInv, Covered
<1> QED
  BY <1>1, <1>2, <1>3, <1>4, <1>5, <1>6, <1>7, Zenon DEF Next, Keycloak, Backfill

\* Proof of EncryptRowsIsComplete for every instance, with any number of rows
\* and Keycloak at work or not: an encrypt-rows that comes to its end leaves
\* no plaintext in a fixed column, unless a SELECT of it was cut short.
THEOREM EncryptRowsIsCompleteAlways == Spec => []EncryptRowsIsComplete
<1>1. Init => FixedInv /\ WalkInv
  <2> SUFFICES ASSUME Init PROVE FixedInv /\ WalkInv
    OBVIOUS
  <2>1. \A r \in Rows, col \in Cols : db[r][col] \in Legacy
    BY DEF Init
  <2>2. task # "encrypt"
    BY DEF Init
  <2> QED
    BY <2>1, <2>2, ValuesAssumption, Zenon DEF FixedInv, WalkInv
<1>2. WalkInv => EncryptRowsIsComplete
  <2>1. \A col : ~Ahead(<<>>, col)
    BY DEF Ahead
  <2> QED
    BY <2>1, Zenon DEF WalkInv, Covered, EncryptRowsIsComplete, FixedEncrypted
<1>3. PlainInv /\ FixedInv /\ WalkInv /\ [Next]_vars => FixedInv' /\ WalkInv'
  BY StepWalk, Zenon
<1> QED
  BY InitPlain, StepPlain, <1>1, <1>2, <1>3, PTL DEF Spec

-----------------------------------------------------------------------------
(* One DEK set for all: every replica opens the file, which is written once. *)

\* The cipher that opens from the set, whose keys are 1, 2 and 3; a rotation
\* of the KEK loses the third.
Ours(c) ==
  /\ minted = 3
  /\ \E i \in {0, 3} : c = NewCipher(file.version, 1, 2, i) /\ (MaxKEK <= 1 => i = 3)

\* The file has been written once, by the first replica, and every cipher in
\* use was opened from it.
SetInv ==
  /\ kek \in Nat /\ kek >= 1
  /\ \/ minted = 0 /\ file = NoSet
     \/ /\ minted = 3
        /\ \E i \in {NoWrap, Wrap(kek, 3)} :
             /\ file = [version |-> file.version, d |-> Wrap(kek, 1), n |-> Wrap(kek, 2), index |-> i]
             /\ MaxKEK <= 1 => i = Wrap(kek, 3)
  /\ cipher = [p \in Replicas |-> cipher[p]]
  /\ \A p \in Replicas : cipher[p] = NoCipher \/ Ours(cipher[p])
  /\ task # "idle" => Ours(tcipher)

\* A stored value in its column under the cipher c: an envelope is exactly
\* what c makes of its content, and nothing is malformed.
Sealed(c, col, v) ==
  /\ v.kind # "malformed"
  /\ v.kind = "envelope" =>
       /\ v = Encrypt(c, Scheme(col), Within(v), AAD(col))
       /\ col = "EMAIL" => NormalizeLowercase(Within(v)) = Within(v)

\* Every stored envelope was made by the keys of the file.
SealedInv ==
  \A r \in Rows, col \in Cols :
    /\ db[r][col].kind = "envelope" => minted = 3
    /\ Sealed(NewCipher(file.version, 1, 2, 3), col, db[r][col])

\* The index key plays no part in an envelope.
LEMMA OursEncrypts ==
  ASSUME NEW c, Ours(c), NEW col, NEW v
  PROVE  Encrypt(c, Scheme(col), v, AAD(col))
           = Encrypt(NewCipher(file.version, 1, 2, 3), Scheme(col), v, AAD(col))
BY DEF Ours, NewCipher, Encrypt, Scheme

\* A cipher of the set opens what is sealed under it.
LEMMA SealedOpens ==
  ASSUME NEW c, Ours(c), NEW col, NEW v, Sealed(NewCipher(file.version, 1, 2, 3), col, v)
  PROVE  Decrypt(c, v, AAD(col)) = Within(v)
<1>1. CASE v.kind = "envelope"
  <2>1. v = Encrypt(c, Scheme(col), Within(v), AAD(col))
    BY <1>1, OursEncrypts, Zenon DEF Sealed
  <2> DEFINE w == Within(v)
  <2>2. /\ v.version = c.version /\ v.scheme = Scheme(col) /\ v.ciphertext.aad = AAD(col)
        /\ v.ciphertext.key = c[Scheme(col)]
    <3> HIDE DEF w
    <3> QED  BY <2>1 DEF Encrypt, Marshal
  <2>3. Parse(v) = "envelope"
    BY <1>1 DEF Parse, HasSentinel
  <2>4. v.ciphertext.key = c[v.scheme]
    BY <2>2
  <2>5. Decrypt(c, v, AAD(col)) = v.ciphertext.of
    BY <2>2, <2>3, <2>4 DEF Decrypt
  <2> QED  BY <1>1, <2>5 DEF Within
<1>2. CASE v.kind # "envelope"
  <2>1. Parse(v) = "plaintext"
    BY <1>2 DEF Sealed, Parse, HasSentinel
  <2> QED  BY <1>2, <2>1 DEF Decrypt, Within
<1> QED
  BY <1>1, <1>2, Zenon

\* Encrypting seals a value that is plain.
LEMMA EncryptSeals ==
  ASSUME NEW c, NEW col, NEW v, Plain(v), v.kind # "envelope"
  PROVE  LET w == IF col = "EMAIL" THEN NormalizeLowercase(v) ELSE v
         IN  Sealed(c, col, Encrypt(c, Scheme(col), w, AAD(col)))
<1> DEFINE w == IF col = "EMAIL" THEN NormalizeLowercase(v) ELSE v
           e == Encrypt(c, Scheme(col), w, AAD(col))
<1>1. e.kind = "envelope" /\ e.ciphertext.of = w
  <2> HIDE DEF w
  <2> QED  BY Zenon DEF Encrypt, Marshal
<1>2. col = "EMAIL" => NormalizeLowercase(w) = w
  BY LoweredIsPlain, Zenon
<1> HIDE DEF w
<1>3. Within(e) = w
  BY <1>1, Zenon DEF Within
<1>4. e = Encrypt(c, Scheme(col), Within(e), AAD(col))
  BY <1>3, Zenon
<1> HIDE DEF e
<1> QED
  BY <1>1, <1>2, <1>3, <1>4, Zenon DEF Sealed, e, w

\* What a write stores is sealed.
LEMMA WriteSeals ==
  ASSUME NEW c, NEW col, NEW v, NEW pii \in BOOLEAN, Plain(v)
  PROVE  LET s == IF col = "VALUE" THEN applyAttributeCondition(c, pii, v)
                                   ELSE encryptParam(c, col, v)
         IN  s = Failed \/ Sealed(c, col, s)
<1>1. encryptParam(c, col, v) = Failed \/ Sealed(c, col, encryptParam(c, col, v))
  <2>1. CASE v = NULL
    BY <2>1, Zenon DEF encryptParam, Sealed, NULL
  <2>2. CASE v # NULL /\ v.kind # "envelope"
    BY <2>2, EncryptSeals, Zenon DEF encryptParam, Parse, HasSentinel
  <2>3. CASE v # NULL /\ v.kind = "envelope"
    BY <2>3, Zenon DEF encryptParam, Parse, HasSentinel
  <2> QED  BY <2>1, <2>2, <2>3, Zenon
<1>2. Sealed(c, "VALUE", Escape(v))
  BY Zenon DEF Escape, HasSentinel, Escaped, Sealed
<1> QED
  BY <1>1, <1>2, Zenon DEF applyAttributeCondition

\* What opens from the set that is in the file.
LEMMA OpensOurs ==
  ASSUME SetInv
  PROVE  /\ file = NoSet => OpenCipher(kek, file) = NoCipher
         /\ file # NoSet => Ours(OpenCipher(kek, file))
<1>1. CASE minted = 0 /\ file = NoSet
  BY <1>1 DEF SetInv, OpenCipher, Opens, NoSet, NoWrap
<1>2. CASE minted = 3
  <2>1. PICK i \in {NoWrap, Wrap(kek, 3)} :
          /\ file = [version |-> file.version, d |-> Wrap(kek, 1), n |-> Wrap(kek, 2), index |-> i]
          /\ MaxKEK <= 1 => i = Wrap(kek, 3)
    BY <1>2 DEF SetInv
  <2>2. /\ file.d = Wrap(kek, 1) /\ file.n = Wrap(kek, 2) /\ file.index = i
    BY <2>1
  <2>3. OpenCipher(kek, file) = NewCipher(file.version, 1, 2, i.key)
    BY <2>2 DEF OpenCipher, Opens, Wrap, NoWrap
  <2>4. i.key \in {0, 3} /\ (MaxKEK <= 1 => i.key = 3)
    BY <2>1 DEF Wrap, NoWrap
  <2>5. file # NoSet
    BY <2>2 DEF NoSet, NoWrap, Wrap
  <2> QED  BY <1>2, <2>3, <2>4, <2>5, Zenon DEF Ours
<1> QED
  BY <1>1, <1>2, Zenon DEF SetInv

\* Every replica and every run of the backfill works with the one set.
LEMMA SetNext ==
  ASSUME SetInv, [Next]_vars, DEKSetFile = Replicas, MaxKeys < 6
  PROVE  SetInv' /\ (minted = 3 => minted' = 3 /\ file'.version = file.version)
<1> USE ColumnsAssumption
<1>1. ASSUME NEW v \in Versions, runGenerate(v)
      PROVE  SetInv' /\ (minted = 3 => minted' = 3 /\ file'.version = file.version)
  <2>1. /\ minted + 3 <= MaxKeys /\ minted' = minted + 3
        /\ file' = [version |-> v, d |-> Wrap(kek, minted + 1), n |-> Wrap(kek, minted + 1 + 1),
                    index |-> Wrap(kek, minted + 1 + 2)]
        /\ UNCHANGED <<kek, cipher, task, tcipher>>
    BY <1>1, Zenon DEF runGenerate, GenerateDEKSet, taskVars
  <2>2. minted = 0
    BY <2>1 DEF SetInv
  <2>3. minted' = 3 /\ file' = [version |-> v, d |-> Wrap(kek, 1), n |-> Wrap(kek, 2),
                               index |-> Wrap(kek, 3)]
    BY <2>1, <2>2
  <2>4. file' = [version |-> file'.version, d |-> Wrap(kek, 1), n |-> Wrap(kek, 2),
                 index |-> Wrap(kek, 3)]
    BY <2>3
  <2>5. (\A p \in Replicas : cipher[p] = NoCipher) /\ task = "idle"
    BY <2>2 DEF SetInv, Ours
  <2> QED  BY <2>1, <2>2, <2>3, <2>4, <2>5 DEF SetInv
<1>2. CASE RotateFile
  <2>1. /\ file # NoSet /\ kek < MaxKEK /\ kek' = kek + 1 /\ file' # NoSet
        /\ file' = RotateKEK(kek, kek + 1, file)
        /\ UNCHANGED <<minted, cipher, task, tcipher>>
    BY <1>2, Zenon DEF RotateFile, taskVars
  <2>2. kek \in Nat /\ kek >= 1 /\ minted = 3 /\ ~(MaxKEK <= 1)
    BY <2>1 DEF SetInv
  <2>3. file.d = Wrap(kek, 1) /\ file.n = Wrap(kek, 2)
    BY <2>1 DEF SetInv
  <2>4. file' = [version |-> file.version, d |-> Wrap(kek', 1), n |-> Wrap(kek', 2), index |-> NoWrap]
    BY <2>1, <2>3 DEF RotateKEK, Opens, Wrap
  <2>5. file'.version = file.version
    BY <2>4, Zenon
  <2>6. file' = [version |-> file'.version, d |-> Wrap(kek', 1), n |-> Wrap(kek', 2), index |-> NoWrap]
    BY <2>4, <2>5, Zenon
  <2>7. kek' \in Nat /\ kek' >= 1
    BY <2>1, <2>2
  <2>8. \A c : Ours(c) => Ours(c)'
    BY <2>1, <2>5, Zenon DEF Ours
  <2> QED  BY <2>1, <2>2, <2>5, <2>6, <2>7, <2>8, Zenon DEF SetInv, Ours
<1>3. ASSUME NEW p \in Replicas, buildCipher(p)
      PROVE  SetInv' /\ (minted = 3 => minted' = 3 /\ file'.version = file.version)
  <2>1. /\ file # NoSet /\ cipher' = [cipher EXCEPT ![p] = OpenCipher(kek, file)]
        /\ UNCHANGED <<kek, file, minted, task, tcipher>>
    BY <1>3, Zenon DEF buildCipher, taskVars
  <2>2. Ours(OpenCipher(kek, file))
    BY <2>1, OpensOurs, Zenon
  <2>3. \A q \in Replicas : cipher'[q] = NoCipher \/ Ours(cipher'[q])
    BY <2>1, <2>2, Zenon DEF SetInv
  <2>4. cipher' = [q \in Replicas |-> cipher'[q]]
    BY <2>1, Zenon DEF SetInv
  <2> QED  BY <2>1, <2>3, <2>4, Zenon DEF SetInv, Ours
<1>4. ASSUME NEW p \in Replicas, ProxyStops(p)
      PROVE  SetInv' /\ (minted = 3 => minted' = 3 /\ file'.version = file.version)
  <2>1. /\ cipher' = [cipher EXCEPT ![p] = NoCipher]
        /\ UNCHANGED <<kek, file, minted, task, tcipher>>
    BY <1>4, Zenon DEF ProxyStops, keyVars, taskVars
  <2>2. \A q \in Replicas : cipher'[q] = NoCipher \/ Ours(cipher'[q])
    BY <2>1, Zenon DEF SetInv
  <2>3. cipher' = [q \in Replicas |-> cipher'[q]]
    BY <2>1, Zenon DEF SetInv
  <2> QED  BY <2>1, <2>2, <2>3, Zenon DEF SetInv, Ours
<1>5. ASSUME runEncrypt \/ runHashRows
      PROVE  SetInv' /\ (minted = 3 => minted' = 3 /\ file'.version = file.version)
  <2>1. /\ OpenCipher(kek, file) # NoCipher /\ tcipher' = OpenCipher(kek, file)
        /\ UNCHANGED <<kek, file, minted, cipher>>
    BY <1>5, Zenon DEF runEncrypt, runHashRows, keyVars
  <2>2. Ours(tcipher')
    BY <2>1, OpensOurs, Zenon
  <2> QED  BY <2>1, <2>2, Zenon DEF SetInv, Ours
<1>6. ASSUME \/ selectColumn \/ SelectCutShort \/ TaskEnds \/ Crash
             \/ \E b \in batch : encryptColumn(b) \/ hashColumn(b)
      PROVE  SetInv' /\ (minted = 3 => minted' = 3 /\ file'.version = file.version)
  <2>1. /\ UNCHANGED <<kek, file, minted, cipher>>
        /\ task' = "idle" \/ (task' = task /\ tcipher' = tcipher)
    BY <1>6, SelectGets, Zenon DEF TaskEnds, Crash, encryptColumn, hashColumn, keyVars
  <2> QED  BY <2>1, Zenon DEF SetInv, Ours
<1>7. ASSUME \/ KeycloakStarts \/ KeycloakStops \/ UNCHANGED vars \/ Keycloak
      PROVE  SetInv' /\ (minted = 3 => minted' = 3 /\ file'.version = file.version)
  <2>1. UNCHANGED <<kek, file, minted, cipher, task, tcipher>>
    BY <1>7 DEF KeycloakStarts, KeycloakStops, Keycloak, EncryptBind, DecryptDataRow, PassThrough,
                vars, keyVars, taskVars
  <2> QED  BY <2>1, Zenon DEF SetInv, Ours
<1> QED
  BY <1>1, <1>2, <1>3, <1>4, <1>5, <1>6, <1>7, Zenon DEF Next, Operator, Backfill

\* The values stay sealed under the one set.
LEMMA SealedNext ==
  ASSUME PlainInv, SetInv, SealedInv, [Next]_vars, DEKSetFile = Replicas, MaxKeys < 6
  PROVE  SealedInv'
<1> DEFINE C == NewCipher(file.version, 1, 2, 3)
<1>1. minted = 3 => minted' = 3 /\ C' = C
  BY SetNext, Zenon
<1>2. ASSUME db' = db
      PROVE  SealedInv'
  <2> SUFFICES ASSUME NEW r \in Rows, NEW col \in Cols
               PROVE  /\ db[r][col].kind = "envelope" => minted' = 3
                      /\ Sealed(C', col, db[r][col])
    BY <1>2, Zenon DEF SealedInv
  <2>1. (db[r][col].kind = "envelope" => minted = 3) /\ Sealed(C, col, db[r][col])
    BY DEF SealedInv
  <2> HIDE DEF C
  <2> QED  BY <1>1, <2>1, Zenon DEF Sealed
<1>3. ASSUME NEW r \in Rows, NEW col \in Cols, NEW c, Ours(c), NEW s, Sealed(c, col, s),
             db' = [db EXCEPT ![r][col] = s]
      PROVE  SealedInv'
  <2>1. minted = 3 /\ Sealed(C, col, s)
    BY <1>3, OursEncrypts, Zenon DEF Ours, Sealed
  <2>2. /\ db'[r][col] = s
        /\ \A q \in Rows, k \in Cols : q # r \/ k # col => db'[q][k] = db[q][k]
    BY <1>3, Zenon DEF PlainInv, IsTable
  <2>3. \A q \in Rows, k \in Cols : Sealed(C, k, db[q][k])
    BY Zenon DEF SealedInv
  <2> HIDE DEF C
  <2>4. \A q \in Rows, k \in Cols : Sealed(C, k, db'[q][k])
    BY <2>1, <2>2, <2>3, Zenon
  <2>5. minted' = 3 /\ C' = C
    BY <1>1, <2>1, Zenon
  <2>6. \A q \in Rows, k \in Cols : Sealed(C', k, db'[q][k])
    BY <2>4, <2>5, Zenon
  <2> QED  BY <2>5, <2>6, Zenon DEF SealedInv, C
<1> HIDE DEF C
<1>4. ASSUME NEW p \in Replicas, NEW r \in Rows, NEW col \in Cols,
             NEW v \in Inputs \union {held}, NEW pii \in BOOLEAN, EncryptBind(p, r, col, pii, v)
      PROVE  SealedInv'
  <2> DEFINE s == IF col = "VALUE" THEN applyAttributeCondition(cipher[p], pii, v)
                                   ELSE encryptParam(cipher[p], col, v)
  <2>1. Plain(v)
    BY ValuesAssumption, Zenon DEF PlainInv, Plain
  <2>2. Ours(cipher[p])
    BY <1>4, Zenon DEF EncryptBind, Request, SetInv
  <2>3. s = Failed \/ Sealed(cipher[p], col, s)
    BY <2>1, WriteSeals, Zenon
  <2>4. db' = db \/ (s # Failed /\ db' = [db EXCEPT ![r][col] = s])
    BY <1>4, Zenon DEF EncryptBind, rowVars
  <2> HIDE DEF s
  <2> QED  BY <1>2, <1>3, <2>2, <2>3, <2>4, Zenon
<1>5. ASSUME NEW b \in batch, encryptColumn(b)
      PROVE  SealedInv'
  <2>1. /\ b.row \in Rows /\ b.col \in Cols /\ Plain(b.value) /\ b.value.kind # "envelope"
        /\ Ours(tcipher)
    BY <1>5, Zenon DEF PlainInv, SetInv, encryptColumn, HasSentinel
  <2>2. PICK r, col, v : r = b.row /\ col = b.col /\ v = b.value
    OBVIOUS
  <2> DEFINE w == IF col = "EMAIL" THEN NormalizeLowercase(v) ELSE v
             e == Encrypt(tcipher, Scheme(col), w, AAD(col))
  <2>3. Sealed(tcipher, col, e)
    BY <2>1, <2>2, EncryptSeals, Zenon
  <2>4. db' = [db EXCEPT ![r][col] = e]
    BY <1>5, <2>2, Zenon DEF encryptColumn
  <2>5. r \in Rows /\ col \in Cols
    BY <2>1, <2>2, Zenon
  <2> HIDE DEF w, e
  <2> QED  BY <1>3, <2>1, <2>3, <2>4, <2>5, Zenon
<1>6. ASSUME \/ \E b \in batch : hashColumn(b)
             \/ selectColumn \/ SelectCutShort \/ TaskEnds \/ Crash \/ runEncrypt \/ runHashRows
             \/ Operator \/ UNCHANGED vars
             \/ \E p \in Replicas, r \in Rows, col \in Cols :
                  DecryptDataRow(p, r, col) \/ PassThrough(p, r, col)
      PROVE  SealedInv'
  <2>1. db' = db
    BY <1>6, SelectGets, Zenon DEF hashColumn, TaskEnds, Crash, runEncrypt, runHashRows, Operator,
                runGenerate, RotateFile, KeycloakStarts, KeycloakStops, buildCipher, ProxyStops,
                DecryptDataRow, PassThrough, vars, rowVars
  <2> QED  BY <1>2, <2>1
<1> QED
  BY <1>4, <1>5, <1>6, Zenon DEF Next, Keycloak, Backfill

\* Before the migration there is no set and no envelope.
LEMMA SetInit == Init => SetInv /\ SealedInv
<1> SUFFICES ASSUME Init PROVE SetInv /\ SealedInv
  BY Zenon
<1>1. SetInv
  BY DEF Init, SetInv
<1>2. \A r \in Rows, col \in Cols : db[r][col] \in Legacy
  BY DEF Init
<1>3. \A v \in Legacy : v.kind # "envelope" /\ v.kind # "malformed"
  BY ValuesAssumption, Zenon DEF HasSentinel
<1> QED
  BY <1>1, <1>2, <1>3, Zenon DEF SealedInv, Sealed

\* Proof of ReadsReturnWhatWasWritten for every instance in which Keycloak is
\* down while the backfill runs, every replica opens the DEK set file, and the
\* file is generated once: whatever Keycloak wrote, what the backfill has come
\* to and how often the KEK was rotated, a planned read returns the value.
THEOREM ReadsReturnWhatWasWrittenAlways ==
  ASSUME ~Online, DEKSetFile = Replicas, MaxKeys < 6
  PROVE  Spec => []ReadsReturnWhatWasWritten
<1> DEFINE RInv == PlainInv /\ TruthInv /\ SetInv /\ SealedInv
<1>1. Init => RInv
  BY InitPlain, InitTruth, SetInit, Zenon
<1>2. RInv /\ [Next]_vars => RInv'
  BY StepPlain, StepTruth, SetNext, SealedNext, Zenon
<1>3. RInv => ReadsReturnWhatWasWritten
  <2> SUFFICES ASSUME RInv, NEW p \in Replicas, NEW r \in Rows, NEW col \in Cols,
                      cipher[p] # NoCipher
               PROVE  Same(col, ReadsAs(p, r, col), truth[r][col])
    BY Zenon DEF ReadsReturnWhatWasWritten
  <2>1. Ours(cipher[p]) /\ Sealed(NewCipher(file.version, 1, 2, 3), col, db[r][col])
    BY Zenon DEF SetInv, SealedInv
  <2>2. ReadsAs(p, r, col) = Within(db[r][col])
    BY <2>1, SealedOpens, Zenon DEF ReadsAs
  <2>3. db[r][col].kind # "malformed"
    BY <2>1, Zenon DEF Sealed
  <2> QED  BY <2>2, <2>3, Zenon DEF TruthInv
<1> QED
  BY <1>1, <1>2, <1>3, PTL DEF Spec

-----------------------------------------------------------------------------
(* Searches, while the KEK is not rotated: RotateKEK drops the index key.    *)

\* The hash of a value that was written to EMAIL.
HashOf(v) == [kind |-> "hash", key |-> 3, aad |-> "EMAIL", of |-> NormalizeLowercase(v)]

\* A row without a hash, or with that of its value; hash-rows works on values
\* that are still there.
HashInv ==
  /\ hash = [r \in Rows |-> hash[r]]
  /\ \A r \in Rows : hash[r] # NULL => BlindIndexed /\ hash[r] = HashOf(truth[r]["EMAIL"])
  /\ task = "hash" =>
       /\ BlindIndexed /\ todo \in {<<>>, <<"EMAIL">>}
       /\ \A b \in batch : b.col = "EMAIL" /\ b.value = db[b.row][b.col]

\* The hashes follow the values.
LEMMA HashNext ==
  ASSUME PlainInv, TruthInv, SetInv, SealedInv, HashInv, [Next]_vars,
         ~Online, DEKSetFile = Replicas, MaxKeys < 6, MaxKEK <= 1
  PROVE  HashInv'
<1>1. ASSUME NEW p \in Replicas, NEW r \in Rows, NEW col \in Cols,
             NEW v \in Inputs \union {held}, NEW pii \in BOOLEAN, EncryptBind(p, r, col, pii, v)
      PROVE  HashInv'
  <2> DEFINE h == IF col = "EMAIL" /\ BlindIndexed THEN appendBlindIndexWrites(cipher[p], v) ELSE hash[r]
  <2>1. UNCHANGED <<task, todo, batch>> /\ task = "idle"
    BY <1>1, Zenon DEF EncryptBind, taskVars, Request, TruthInv
  <2>2. CASE UNCHANGED rowVars
    BY <2>1, <2>2, Zenon DEF rowVars, HashInv
  <2>3. CASE ~UNCHANGED rowVars
    <3>1. /\ h # Failed /\ hash' = [hash EXCEPT ![r] = h]
          /\ truth' = [truth EXCEPT ![r][col] = v]
      BY <1>1, <2>3, Zenon DEF EncryptBind
    <3>2. /\ truth'[r][col] = v
          /\ \A q \in Rows, k \in Cols : q # r \/ k # col => truth'[q][k] = truth[q][k]
      BY <3>1, Zenon DEF TruthInv, IsTable
    <3>3. cipher[p].index = 3
      <4>1. Ours(cipher[p])
        BY <1>1, Zenon DEF EncryptBind, Request, SetInv
      <4> QED  BY <4>1 DEF Ours, NewCipher
    <3>4. CASE col = "EMAIL" /\ BlindIndexed
      <4>1. h = NULL \/ h = HashOf(v)
        BY <3>3, <3>4 DEF appendBlindIndexWrites, Compute, HashOf, AAD
      <4> HIDE DEF h
      <4>2. \A q \in Rows : hash'[q] = IF q = r THEN h ELSE hash[q]
        BY <3>1, Zenon DEF HashInv
      <4>3. hash' = [q \in Rows |-> hash'[q]]
        BY <3>1, Zenon DEF HashInv
      <4>4. \A q \in Rows : q # r => truth'[q]["EMAIL"] = truth[q]["EMAIL"]
        BY <3>2, <3>4, Zenon
      <4>5. truth'[r]["EMAIL"] = v
        BY <3>2, <3>4, Zenon
      <4>6. \A q \in Rows : hash'[q] # NULL => BlindIndexed /\ hash'[q] = HashOf(truth'[q]["EMAIL"])
        BY <3>4, <4>1, <4>2, <4>4, <4>5, Zenon DEF HashInv
      <4> QED  BY <2>1, <4>3, <4>6, Zenon DEF HashInv
    <3>5. CASE col # "EMAIL" \/ ~BlindIndexed
      <4>1. hash' = hash
        BY <3>1, <3>5, Zenon DEF HashInv
      <4>2. \A q \in Rows : hash[q] # NULL => truth'[q]["EMAIL"] = truth[q]["EMAIL"]
        <5>1. BlindIndexed => "EMAIL" \in Cols /\ col # "EMAIL"
          BY <3>5, ColumnsAssumption, Zenon
        <5> QED  BY <3>2, <5>1, Zenon DEF HashInv
      <4> QED  BY <2>1, <4>1, <4>2, Zenon DEF HashInv
    <3> QED  BY <3>4, <3>5, Zenon
  <2> QED  BY <2>2, <2>3, Zenon
<1>2. ASSUME NEW b \in batch, hashColumn(b)
      PROVE  HashInv'
  <2> DEFINE v == Decrypt(tcipher, b.value, AAD(b.col))
  <2>1. UNCHANGED <<db, truth>> /\ task = "hash"
    BY <1>2, Zenon DEF hashColumn
  <2>2. CASE v = Failed
    BY <1>2, <2>1, <2>2, Zenon DEF hashColumn, HashInv
  <2>3. CASE v # Failed
    <3>1. /\ hash' = [hash EXCEPT ![b.row] = Compute(tcipher, NormalizeLowercase(v), AAD(b.col))]
          /\ batch' = batch \ {b} /\ UNCHANGED <<task, todo>>
      BY <1>2, <2>3, Zenon DEF hashColumn
    <3>2. /\ b.col = "EMAIL" /\ b.value = db[b.row]["EMAIL"] /\ b.row \in Rows /\ "EMAIL" \in Cols
          /\ BlindIndexed
      BY <2>1, Zenon DEF HashInv, PlainInv
    <3>3. tcipher.index = 3
      BY <2>1 DEF SetInv, Ours, NewCipher
    <3>4. v = Within(db[b.row]["EMAIL"]) /\ db[b.row]["EMAIL"].kind # "malformed"
      BY <2>3, <3>2, DecryptIsWithin, Zenon
    <3>5. NormalizeLowercase(v) = NormalizeLowercase(truth[b.row]["EMAIL"])
      BY <3>2, <3>4, Zenon DEF TruthInv, Same
    <3>6. Compute(tcipher, NormalizeLowercase(v), AAD(b.col)) = HashOf(truth[b.row]["EMAIL"])
      BY <3>2, <3>3, <3>5, Zenon DEF Compute, HashOf, AAD
    <3> HIDE DEF v
    <3>7. hash' = [hash EXCEPT ![b.row] = HashOf(truth[b.row]["EMAIL"])]
      BY <3>1, <3>6, Zenon
    <3>8. \A q \in Rows : hash'[q] # NULL => BlindIndexed /\ hash'[q] = HashOf(truth[q]["EMAIL"])
      BY <3>2, <3>7, Zenon DEF HashInv
    <3>9. hash' = [q \in Rows |-> hash'[q]]
      BY <3>7, Zenon DEF HashInv
    <3> QED  BY <2>1, <3>1, <3>8, <3>9, Zenon DEF HashInv
  <2> QED  BY <2>2, <2>3, Zenon
<1>3. ASSUME selectColumn \/ SelectCutShort
      PROVE  HashInv'
  <2>1. UNCHANGED <<db, hash, truth, task>> /\ todo # <<>> /\ todo' = Tail(todo)
    BY <1>3, SelectGets, Zenon
  <2>2. \A b \in batch' : b.col = Head(todo) /\ b.value = db[b.row][b.col]
    BY <1>3, SelectGets, Zenon
  <2>3. task = "hash" => Head(todo) = "EMAIL" /\ todo' = <<>>
    BY <2>1 DEF HashInv
  <2> QED  BY <2>1, <2>2, <2>3, Zenon DEF HashInv
<1>4. ASSUME \/ TaskEnds \/ Crash \/ runEncrypt \/ runHashRows
             \/ \E b \in batch : encryptColumn(b)
      PROVE  HashInv'
  <2>1. UNCHANGED <<hash, truth>>
    BY <1>4, Zenon DEF TaskEnds, Crash, runEncrypt, runHashRows, encryptColumn, rowVars
  <2>2. task' = "hash" => BlindIndexed /\ todo' = <<"EMAIL">> /\ batch' = {}
    BY <1>4, Zenon DEF TaskEnds, Crash, runEncrypt, runHashRows, encryptColumn
  <2> QED  BY <2>1, <2>2, Zenon DEF HashInv
<1>5. ASSUME Operator \/ UNCHANGED vars
             \/ \E p \in Replicas, r \in Rows, col \in Cols :
                  DecryptDataRow(p, r, col) \/ PassThrough(p, r, col)
      PROVE  HashInv'
  <2>1. UNCHANGED <<db, hash, truth, task, todo, batch>>
    BY <1>5, Zenon DEF Operator, runGenerate, RotateFile, KeycloakStarts, KeycloakStops, buildCipher,
                ProxyStops, DecryptDataRow, PassThrough, vars, rowVars, taskVars
  <2> QED  BY <2>1, Zenon DEF HashInv
<1> QED
  BY <1>1, <1>2, <1>3, <1>4, <1>5, Zenon DEF Next, Keycloak, Backfill

\* Proof of SearchMatchesExactly for every such instance whose KEK is not
\* rotated: neither case, nor strings that look like the marker, nor who wrote
\* the row, makes a search miss a row or find another one.
THEOREM SearchMatchesExactlyAlways ==
  ASSUME ~Online, DEKSetFile = Replicas, MaxKeys < 6, MaxKEK <= 1
  PROVE  Spec => []SearchMatchesExactly
<1> DEFINE SInv == PlainInv /\ TruthInv /\ SetInv /\ SealedInv /\ HashInv
<1>1. Init => SInv
  <2>1. Init => HashInv
    BY Zenon DEF Init, HashInv
  <2> QED  BY <2>1, InitPlain, InitTruth, SetInit, Zenon
<1>2. SInv /\ [Next]_vars => SInv'
  BY StepPlain, StepTruth, SetNext, SealedNext, HashNext, Zenon
<1>3. SInv => SearchMatchesExactly
  <2> SUFFICES ASSUME SInv, NEW p \in Replicas, NEW r \in Rows, NEW v \in Inputs,
                      "EMAIL" \in Cols, cipher[p] # NoCipher, v # NULL, Parse(v) # "envelope"
               PROVE  LET same == Same("EMAIL", v, truth[r]["EMAIL"])
                      IN  /\ db[r]["EMAIL"].kind = "envelope" =>
                               ((db[r]["EMAIL"] = encryptParam(cipher[p], "EMAIL", v)) <=> same)
                          /\ hash[r] # NULL => ((hash[r] = hashBlindIndexParam(cipher[p], v)) <=> same)
    BY Zenon DEF SearchMatchesExactly
  <2> DEFINE t == truth[r]["EMAIL"]
             d == db[r]["EMAIL"]
             c == cipher[p]
             n == NormalizeLowercase(v)
  <2>1. Ours(c)
    BY Zenon DEF SetInv
  <2>2. ASSUME d.kind = "envelope"
        PROVE  (d = encryptParam(c, "EMAIL", v)) <=> Same("EMAIL", v, t)
    <3>1. /\ d = Encrypt(c, Scheme("EMAIL"), Within(d), AAD("EMAIL"))
          /\ NormalizeLowercase(Within(d)) = Within(d)
      BY <2>1, <2>2, OursEncrypts DEF SealedInv, Sealed
    <3>2. Same("EMAIL", Within(d), t)
      BY <2>2, Zenon DEF TruthInv
    <3>3. encryptParam(c, "EMAIL", v) = Encrypt(c, Scheme("EMAIL"), n, AAD("EMAIL"))
      BY Zenon DEF encryptParam
    <3> DEFINE w == Within(d)
    <3>4. (Encrypt(c, Scheme("EMAIL"), w, AAD("EMAIL")) = Encrypt(c, Scheme("EMAIL"), n, AAD("EMAIL")))
            <=> w = n
      <4> HIDE DEF w, n, c
      <4>1. \A x : Encrypt(c, Scheme("EMAIL"), x, AAD("EMAIL")).ciphertext.of = x
        BY Zenon DEF Encrypt, Marshal
      <4> QED  BY <4>1, Zenon
    <3>5. w = NormalizeLowercase(t)
      BY <3>1, <3>2, Zenon DEF Same
    <3> HIDE DEF w, d, c, t
    <3> QED  BY <3>1, <3>3, <3>4, <3>5, Zenon DEF Same, w
  <2>3. ASSUME hash[r] # NULL
        PROVE  (hash[r] = hashBlindIndexParam(c, v)) <=> Same("EMAIL", v, t)
    <3>1. hash[r] = HashOf(t)
      BY <2>3, Zenon DEF HashInv
    <3>2. c.index = 3
      BY <2>1 DEF Ours, NewCipher
    <3>3. hashBlindIndexParam(c, v) = HashOf(v)
      BY <3>2 DEF hashBlindIndexParam, Compute, HashOf, AAD
    <3>4. HashOf(t) = HashOf(v) <=> NormalizeLowercase(v) = NormalizeLowercase(t)
      BY Zenon DEF HashOf
    <3> QED  BY <3>1, <3>3, <3>4, Zenon DEF Same
  <2> QED  BY <2>2, <2>3, Zenon
<1> QED
  BY <1>1, <1>2, <1>3, PTL DEF Spec

-----------------------------------------------------------------------------
(* Types.                                                                   *)

\* What TypeOK says beyond PlainInv.
TypeInv ==
  /\ IsTable(truth) /\ hash = [r \in Rows |-> hash[r]]
  /\ \A r \in Rows : hash[r] = NULL \/ hash[r].kind = "hash"
  /\ keycloak \in BOOLEAN
  /\ kek \in 1..(1 + MaxKEK) /\ minted \in 0..MaxKeys
  /\ task \in {"idle", "encrypt", "hash"} /\ mishaps \in 0..MaxMishaps
  /\ done \in BOOLEAN /\ cut \in BOOLEAN
  /\ task = "idle" => todo = <<>> /\ batch = {} /\ tcipher = NoCipher
  /\ \A b \in batch : b.value # NULL

\* Every step keeps the types.
LEMMA TypeNext ==
  ASSUME PlainInv, TypeInv, [Next]_vars
  PROVE  TypeInv'
<1> USE ColumnsAssumption
<1>1. ASSUME NEW p \in Replicas, NEW r \in Rows, NEW col \in Cols,
             NEW v \in Inputs \union {held}, NEW pii \in BOOLEAN, EncryptBind(p, r, col, pii, v)
      PROVE  TypeInv'
  <2> DEFINE h == IF col = "EMAIL" /\ BlindIndexed THEN appendBlindIndexWrites(cipher[p], v) ELSE hash[r]
  <2>1. UNCHANGED <<keycloak, kek, minted, task, tcipher, todo, batch, done, cut, mishaps>>
    BY <1>1, Zenon DEF EncryptBind, taskVars, endVars, keyVars
  <2>2. CASE UNCHANGED rowVars
    BY <2>1, <2>2, Zenon DEF rowVars, TypeInv, IsTable
  <2>3. CASE ~UNCHANGED rowVars
    <3>1. /\ h # Failed /\ hash' = [hash EXCEPT ![r] = h]
          /\ truth' = [truth EXCEPT ![r][col] = v]
      BY <1>1, <2>3, Zenon DEF EncryptBind
    <3>2. h = NULL \/ h.kind = "hash"
      BY <3>1, Zenon DEF TypeInv, appendBlindIndexWrites, Compute
    <3> HIDE DEF h
    <3>3. IsTable(truth)'
      BY <3>1, Zenon DEF TypeInv, IsTable
    <3>4. /\ hash' = [q \in Rows |-> hash'[q]]
          /\ \A q \in Rows : hash'[q] = NULL \/ hash'[q].kind = "hash"
      BY <3>1, <3>2, Zenon DEF TypeInv
    <3> QED  BY <2>1, <3>3, <3>4, Zenon DEF TypeInv
  <2> QED  BY <2>2, <2>3, Zenon
<1>2. ASSUME NEW b \in batch, hashColumn(b)
      PROVE  TypeInv'
  <2>1. /\ UNCHANGED <<truth, keycloak, kek, minted, done, cut, mishaps>>
        /\ \/ task' = "idle" /\ tcipher' = NoCipher /\ todo' = <<>> /\ batch' = {} /\ hash' = hash
           \/ /\ \E w : hash' = [hash EXCEPT ![b.row] = Compute(tcipher, w, AAD(b.col))]
              /\ batch' \subseteq batch /\ task' = task /\ task = "hash"
    BY <1>2, Zenon DEF hashColumn, kcVars, keyVars, endVars
  <2>2. \A w : Compute(tcipher, w, AAD(b.col)).kind = "hash"
    BY Zenon DEF Compute
  <2>3. /\ hash' = [q \in Rows |-> hash'[q]]
        /\ \A q \in Rows : hash'[q] = NULL \/ hash'[q].kind = "hash"
    BY <2>1, <2>2, Zenon DEF TypeInv
  <2> QED  BY <2>1, <2>3, Zenon DEF TypeInv, IsTable
<1>3. ASSUME selectColumn \/ SelectCutShort
      PROVE  TypeInv'
  <2>1. /\ UNCHANGED <<hash, truth, keycloak, kek, minted, task, done>> /\ task # "idle"
        /\ \A b \in batch' : b.value # NULL
    BY <1>3, SelectGets, Zenon
  <2>2. mishaps' = mishaps \/ (mishaps < MaxMishaps /\ mishaps' = mishaps + 1)
    BY <1>3, Zenon DEF selectColumn, SelectCutShort
  <2>3. mishaps' \in 0..MaxMishaps
    BY <2>2 DEF TypeInv
  <2>4. cut' \in BOOLEAN
    BY <1>3, Zenon DEF selectColumn, SelectCutShort, endVars, TypeInv
  <2> QED  BY <2>1, <2>3, <2>4, Zenon DEF TypeInv, IsTable
<1>4. ASSUME NEW b \in batch, encryptColumn(b)
      PROVE  TypeInv'
  <2>1. /\ UNCHANGED <<hash, truth, keycloak, kek, minted, mishaps, task, done, cut>>
        /\ task = "encrypt" /\ batch' \subseteq batch
    BY <1>4, Zenon DEF encryptColumn, kcVars, keyVars, endVars
  <2> QED  BY <2>1, Zenon DEF TypeInv, IsTable
<1>5. ASSUME TaskEnds \/ Crash \/ runEncrypt \/ runHashRows
      PROVE  TypeInv'
  <2>1. /\ UNCHANGED <<hash, truth, keycloak, kek, minted>> /\ batch' = {}
        /\ \/ task' = "idle" /\ todo' = <<>> /\ tcipher' = NoCipher
           \/ task' \in {"encrypt", "hash"}
        /\ mishaps' = mishaps \/ (mishaps < MaxMishaps /\ mishaps' = mishaps + 1)
    BY <1>5, Zenon DEF TaskEnds, Crash, runEncrypt, runHashRows, rowVars, kcVars, keyVars
  <2>2. mishaps' \in 0..MaxMishaps
    BY <2>1 DEF TypeInv
  <2>3. done' \in BOOLEAN /\ cut' \in BOOLEAN
    BY <1>5, Zenon DEF TaskEnds, Crash, runEncrypt, runHashRows, endVars, TypeInv
  <2> QED  BY <2>1, <2>2, <2>3, Zenon DEF TypeInv, IsTable
<1>6. ASSUME Operator \/ UNCHANGED vars
             \/ \E p \in Replicas, r \in Rows, col \in Cols :
                  DecryptDataRow(p, r, col) \/ PassThrough(p, r, col)
      PROVE  TypeInv'
  <2>1. UNCHANGED <<hash, truth, task, tcipher, todo, batch, done, cut>>
    BY <1>6, Zenon DEF Operator, runGenerate, RotateFile, KeycloakStarts, KeycloakStops, buildCipher,
                ProxyStops, DecryptDataRow, PassThrough, vars, rowVars, taskVars, endVars
  <2>2. /\ keycloak' \in {keycloak, TRUE, FALSE}
        /\ kek' = kek \/ (kek < MaxKEK /\ kek' = kek + 1)
        /\ minted' = minted \/ (minted + 3 <= MaxKeys /\ minted' = minted + 3)
        /\ mishaps' = mishaps \/ (mishaps < MaxMishaps /\ mishaps' = mishaps + 1)
    <3>1. CASE Operator
      BY <3>1, Zenon DEF Operator, runGenerate, RotateFile, KeycloakStarts, KeycloakStops, buildCipher,
                  ProxyStops, kcVars, keyVars
    <3>2. CASE ~Operator
      BY <1>6, <3>2, Zenon DEF DecryptDataRow, PassThrough, vars, kcVars, keyVars
    <3> QED  BY <3>1, <3>2, Zenon
  <2>3. kek' \in 1..(1 + MaxKEK) /\ minted' \in 0..MaxKeys /\ mishaps' \in 0..MaxMishaps
    BY <2>2 DEF TypeInv
  <2>4. keycloak' \in BOOLEAN
    BY <2>2, Zenon DEF TypeInv
  <2> QED  BY <2>1, <2>3, <2>4, Zenon DEF TypeInv, IsTable
<1> QED
  BY <1>1, <1>2, <1>3, <1>4, <1>5, <1>6, Zenon DEF Next, Keycloak, Backfill

\* The types of the variables, for every instance: in particular, neither a
\* failed encryption nor anything else that is no value is ever stored.
THEOREM ColumnsTypeCorrect == Spec => []TypeOK
<1>1. Init => TypeInv
  <2> SUFFICES ASSUME Init PROVE TypeInv
    BY Zenon
  <2>1. IsTable(truth)
    BY Zenon DEF Init, IsTable
  <2>2. kek \in 1..(1 + MaxKEK) /\ minted \in 0..MaxKeys /\ mishaps \in 0..MaxMishaps
    BY ColumnsAssumption DEF Init
  <2>3. hash = [r \in Rows |-> NULL]
    BY Zenon DEF Init
  <2> QED  BY <2>1, <2>2, <2>3, Zenon DEF Init, TypeInv
<1>2. PlainInv /\ TypeInv => TypeOK
  <2> SUFFICES ASSUME PlainInv, TypeInv PROVE TypeOK
    OBVIOUS
  <2>1. DOMAIN db = Rows /\ DOMAIN truth = Rows
    BY Zenon DEF PlainInv, TypeInv, IsTable
  <2>2. \A r \in Rows, col \in Cols : db[r][col].kind \in Kinds
    BY Zenon DEF PlainInv, Plain
  <2>3. \A b \in batch : b.row \in Rows /\ b.col \in Cols /\ b.value # NULL
    BY Zenon DEF PlainInv, TypeInv
  <2> QED  BY <2>1, <2>2, <2>3, Zenon DEF TypeInv, TypeOK
<1>3. PlainInv /\ TypeInv /\ [Next]_vars => TypeInv'
  BY TypeNext, Zenon
<1> QED
  BY InitPlain, StepPlain, <1>1, <1>2, <1>3, PTL DEF Spec
=============================================================================
