-------------------------- MODULE SymbolTable_proofs --------------------------
(***************************************************************************)
(* The properties of the symbol table, for any handles, tokens and         *)
(* failures: vst_buffering tells whether there is a transaction, the       *)
(* symbols and flags of the file only grow, a token reported as created is *)
(* stored, a buffer is published by its flush, every variable keeps its    *)
(* type, a flag has a reason, no symbol is stored twice, and flags are     *)
(* published with the symbols that call for them.                          *)
(*                                                                         *)
(* The invariants build on each other:                                     *)
(*   Inv          the transaction that writes is the only one, and its     *)
(*                contents have grown from the file;                       *)
(*   Inv2         the shape of a call in progress, and what it promises;   *)
(*   TypeInv      types, from what a step makes of the contents            *)
(*                (StoredStep);                                            *)
(*   FlagsInv     flags have reasons, in the file and in the buffer;       *)
(*   UniqueInv    what already_persisted found is still so at the insert;  *)
(*   ProgressInv  the columns that have been updated need no more flags.   *)
(* The last two follow a call from statement to statement (Moves).         *)
(***************************************************************************)
EXTENDS SymbolTable, SymbolsDb_proofs

IsContents(c) ==
  /\ c = [symbols |-> c.symbols, rows |-> c.rows]
  /\ \A r \in c.symbols : IsRow(r)

TxnStates == {"none", "deferred", "read", "write", "blocked"}

Shape ==
  /\ IsContents(file) /\ IsContents(pending)
  /\ txn \in [Handle -> TxnStates]
  /\ buffering \in [Handle -> BOOLEAN]

\* One transaction writes, and what it has written has grown from the file.
WriterGrows ==
  /\ \A h \in Handle : Writes(txn[h]) => GrownFrom(file.symbols, pending.symbols)
  /\ \A g, h \in Handle : Writes(txn[g]) /\ Writes(txn[h]) => g = h

Inv == Shape /\ BufferingMeansTransaction /\ WriterGrows

FileGrows == GrownFrom(file.symbols, file'.symbols)

-----------------------------------------------------------------------------
(* What SQLite does to the invariant.                                      *)

LEMMA UntouchedGrows ==
  ASSUME Inv, UNCHANGED <<file, pending, txn, buffering>>
  PROVE  Inv' /\ FileGrows
BY TableGrownReflexive
   DEF Inv, Shape, BufferingMeansTransaction, WriterGrows, FileGrows, IsContents, IsRow,
       GrownFrom, Writes

LEMMA ReadGrows ==
  ASSUME Inv, NEW h \in Handle, Read(h), UNCHANGED buffering
  PROVE  Inv' /\ FileGrows
<1>1. file' = file /\ pending' = pending /\ buffering' = buffering
  BY DEF Read
<1>2. \A g \in Handle : txn'[g] = IF g = h /\ txn[h] = "deferred" THEN "read" ELSE txn[g]
  BY DEF Read, Inv, Shape
<1>3. txn' \in [Handle -> TxnStates]
  BY DEF Read, Inv, Shape, TxnStates
<1>4. \A g \in Handle : (Writes(txn'[g]) <=> Writes(txn[g])) /\ (txn'[g] = "none" <=> txn[g] = "none")
  BY <1>2 DEF Writes
<1>5. Shape'
  BY <1>1, <1>3 DEF Inv, Shape, IsContents, IsRow
<1>6. BufferingMeansTransaction'
  BY <1>1, <1>4 DEF Inv, BufferingMeansTransaction
<1>7. WriterGrows'
  BY <1>1, <1>4 DEF Inv, WriterGrows
<1> QED BY <1>1, <1>5, <1>6, <1>7, TableGrownReflexive DEF Inv, FileGrows

LEMMA RollbackGrows ==
  ASSUME Inv, NEW h \in Handle, Rollback(h), IsContents(file'), FileGrows,
         \A g \in Handle \ {h} : Writes(txn[g]) => file' = file,
         buffering' = [buffering EXCEPT ![h] = FALSE]
  PROVE  Inv'
<1>1. txn' = [txn EXCEPT ![h] = "none"]
  BY DEF Rollback
<1>2. \A g \in Handle : txn'[g] = IF g = h THEN "none" ELSE txn[g]
  BY <1>1 DEF Inv, Shape
<1>3. IsContents(EmptyContents)
  BY DEF IsContents, EmptyContents
<1>4. IsContents(pending')
  BY <1>3 DEF Rollback, Inv, Shape
<1>5. Shape'
  BY <1>1, <1>4 DEF Inv, Shape, IsContents, IsRow, TxnStates
<1>6. BufferingMeansTransaction'
  BY <1>2 DEF Inv, Shape, BufferingMeansTransaction
<1>7. \A g \in Handle : Writes(txn'[g]) => g # h /\ Writes(txn[g])
  BY <1>2 DEF Writes
<1>8. ASSUME NEW g \in Handle, Writes(txn'[g]) PROVE pending' = pending /\ file' = file
  <2>1. g # h /\ Writes(txn[g])
    BY <1>7, <1>8
  <2>2. ~Writes(txn[h])
    BY <2>1 DEF Inv, WriterGrows
  <2> QED BY <2>1, <2>2 DEF Rollback
<1>9. WriterGrows'
  BY <1>7, <1>8 DEF Inv, WriterGrows
<1> QED BY <1>5, <1>6, <1>9 DEF Inv

\* The lock makes the handle that writes the only one.
LEMMA OnlyWriter ==
  ASSUME NEW h \in Handle, CanWrite(h)
  PROVE  \A g \in Handle \ {h} : ~Writes(txn[g])
BY DEF CanWrite, Others, Writes

LEMMA WriteGrows ==
  ASSUME Inv, NEW h \in Handle, NEW c, CanWrite(h), Write(h, c), UNCHANGED buffering,
         IsContents(c), GrownFrom(Seen(h).symbols, c.symbols)
  PROVE  Inv' /\ FileGrows
<1>1. \A g \in Handle \ {h} : ~Writes(txn[g])
  BY OnlyWriter
<1>2. CASE txn[h] = "none"
  <2>1. file' = c /\ pending' = pending /\ txn' = txn /\ buffering' = buffering
    BY <1>2 DEF Write
  <2>2. Seen(h) = file
    BY <1>2 DEF Seen, Writes
  <2>3. FileGrows
    BY <2>1, <2>2 DEF FileGrows
  <2>4. Shape'
    BY <2>1 DEF Inv, Shape, IsContents, IsRow
  <2>5. \A g \in Handle : ~Writes(txn'[g])
    BY <1>1, <1>2, <2>1 DEF Writes
  <2>6. BufferingMeansTransaction' /\ WriterGrows'
    BY <2>1, <2>5 DEF Inv, BufferingMeansTransaction, WriterGrows
  <2> QED BY <2>3, <2>4, <2>6 DEF Inv
<1>3. CASE txn[h] # "none"
  <2>1. /\ pending' = c /\ file' = file /\ buffering' = buffering
        /\ txn' = [txn EXCEPT ![h] = IF Writes(@) THEN @ ELSE "write"]
    BY <1>3 DEF Write
  <2>2. \A g \in Handle : txn'[g] = IF g = h THEN (IF Writes(txn[h]) THEN txn[h] ELSE "write") ELSE txn[g]
    BY <2>1 DEF Inv, Shape
  <2>3. GrownFrom(file.symbols, c.symbols)
    <3>1. GrownFrom(file.symbols, Seen(h).symbols)
      BY TableGrownReflexive DEF Seen, Inv, WriterGrows
    <3> QED BY <3>1, TableGrownTransitive
  <2>4. Shape'
    BY <2>1, <2>2 DEF Inv, Shape, IsContents, IsRow, TxnStates
  <2>5. BufferingMeansTransaction'
    BY <1>3, <2>1, <2>2 DEF Inv, Shape, BufferingMeansTransaction
  <2>6. \A g \in Handle : Writes(txn'[g]) => g = h
    BY <1>1, <2>2
  <2>7. WriterGrows'
    BY <2>1, <2>3, <2>6 DEF WriterGrows
  <2>8. FileGrows
    BY <2>1, TableGrownReflexive DEF FileGrows
  <2> QED BY <2>4, <2>5, <2>7, <2>8 DEF Inv
<1> QED BY <1>2, <1>3

LEMMA SeenContents ==
  ASSUME Inv, NEW h \in Handle
  PROVE  IsContents(Seen(h))
BY DEF Seen, Inv, Shape

-----------------------------------------------------------------------------
(* The actions.                                                            *)

LEMMA CreateFailsGrows ==
  ASSUME Inv, NEW h \in Handle, CreateFails(h)
  PROVE  Inv' /\ FileGrows
<1>1. CASE frame[h].buffered /\ buffering[h]
  <2>1. Rollback(h) /\ file' = file /\ buffering' = [buffering EXCEPT ![h] = FALSE]
    BY <1>1 DEF CreateFails
  <2>2. IsContents(file') /\ FileGrows
    BY <2>1, TableGrownReflexive DEF FileGrows, Inv, Shape
  <2> QED BY <2>1, <2>2, RollbackGrows
<1>2. CASE ~(frame[h].buffered /\ buffering[h])
  BY <1>2, UntouchedGrows DEF CreateFails, stored
<1> QED BY <1>1, <1>2

LEMMA MarkedGrows ==
  ASSUME NEW c, IsContents(c), NEW column, NEW S
  PROVE  IsContents(Marked(c, column, S)) /\ GrownFrom(c.symbols, Marked(c, column, S).symbols)
<1>1. Marked(c, column, S) = [symbols |-> MarkTexts(c.symbols, column, S), rows |-> c.rows]
  BY DEF Marked, IsContents
<1>2. \A r \in c.symbols : IsRow(r)
  BY DEF IsContents
<1> DEFINE m == MarkTexts(c.symbols, column, S)
<1>3. GrownFrom(c.symbols, m) /\ \A r \in m : IsRow(r)
  BY <1>2, MarkGrows
<1> HIDE DEF m
<1> QED BY <1>1, <1>3 DEF IsContents, m

LEMMA EnterGrows ==
  ASSUME Inv, NEW h \in Handle, Enter(h)
  PROVE  Inv' /\ FileGrows
<1>1. ASSUME NEW s, NEW b, Create(h, s, b) PROVE Inv' /\ FileGrows
  <2>1. CASE b /\ ~buffering[h]
    <3>1. /\ file' = file /\ pending' = pending
          /\ txn' = [txn EXCEPT ![h] = "deferred"]
          /\ buffering' = [buffering EXCEPT ![h] = TRUE]
      BY <1>1, <2>1 DEF Create
    <3>2. \A g \in Handle : txn'[g] = IF g = h THEN "deferred" ELSE txn[g]
      BY <3>1 DEF Inv, Shape
    <3>3. Shape'
      BY <3>1 DEF Inv, Shape, IsContents, IsRow, TxnStates
    <3>4. BufferingMeansTransaction'
      BY <3>1, <3>2 DEF Inv, Shape, BufferingMeansTransaction
    <3>5. \A g \in Handle : Writes(txn'[g]) => Writes(txn[g])
      BY <3>2 DEF Writes
    <3>6. WriterGrows'
      BY <3>1, <3>5 DEF Inv, WriterGrows
    <3> QED BY <3>1, <3>3, <3>4, <3>6, TableGrownReflexive DEF Inv, FileGrows
  <2>2. CASE ~(b /\ ~buffering[h])
    BY <1>1, <2>2, UntouchedGrows DEF Create
  <2> QED BY <2>1, <2>2
<1>2. CASE Flush(h)
  BY <1>2, UntouchedGrows DEF Flush, stored
<1>3. ASSUME NEW r, AddRow(h, r) PROVE Inv' /\ FileGrows
  <2>1. CASE CanWrite(h) /\ Write(h, [Seen(h) EXCEPT !.rows = @ \cup {r}])
    <3> DEFINE c == [Seen(h) EXCEPT !.rows = @ \cup {r}]
    <3>1. c = [symbols |-> Seen(h).symbols, rows |-> Seen(h).rows \cup {r}]
      BY SeenContents DEF IsContents
    <3>2. IsContents(c) /\ c.symbols = Seen(h).symbols
      BY <3>1, SeenContents DEF IsContents
    <3>3. buffering' = buffering
      BY <1>3 DEF AddRow
    <3>4. Write(h, c)
      BY <2>1
    <3> HIDE DEF c
    <3> QED BY <2>1, <3>2, <3>3, <3>4, WriteGrows, TableGrownReflexive
  <2>2. CASE UNCHANGED stored
    BY <1>3, <2>2, UntouchedGrows DEF AddRow, stored
  <2> QED BY <1>3, <2>1, <2>2 DEF AddRow
<1>4. ASSUME NEW c, Configure(h, c) PROVE Inv' /\ FileGrows
  BY <1>4, UntouchedGrows DEF Configure, stored
<1>5. CASE Reopen(h)
  <2>1. Rollback(h) /\ buffering' = [buffering EXCEPT ![h] = FALSE]
    BY <1>5 DEF Reopen
  <2>2. \/ file' = file
        \/ /\ CanWrite(h) /\ \E S, column : file' = Marked(file, column, S)
    BY <1>5 DEF Reopen
  <2>3. IsContents(file') /\ FileGrows
    BY <2>2, MarkedGrows, TableGrownReflexive DEF FileGrows, Inv, Shape
  <2>4. \A g \in Handle \ {h} : Writes(txn[g]) => file' = file
    BY <2>2, OnlyWriter
  <2> QED BY <2>1, <2>3, <2>4, RollbackGrows
<1> QED BY <1>1, <1>2, <1>3, <1>4, <1>5 DEF Enter

LEMMA StepGrows ==
  ASSUME Inv, NEW h \in Handle, Step(h)
  PROVE  Inv' /\ FileGrows
<1>1. CASE FindVirama(h)
  <2>1. UNCHANGED buffering /\ (Read(h) \/ UNCHANGED stored)
    BY <1>1 DEF FindVirama
  <2> QED BY <2>1, ReadGrows, UntouchedGrows DEF stored
<1>2. CASE Check(h)
  <2>1. (UNCHANGED buffering /\ Read(h)) \/ CreateFails(h)
    BY <1>2 DEF Check
  <2> QED BY <2>1, ReadGrows, CreateFailsGrows
<1>3. CASE Insert(h)
  <2>1. CASE CreateFails(h)
    BY <2>1, CreateFailsGrows
  <2>2. CASE ~CreateFails(h)
    <3> DEFINE s == Head(frame[h].left)
               t == Seen(h).symbols
               c == [Seen(h) EXCEPT !.symbols = InsertSymbol(@, s)]
    <3>1. CanWrite(h) /\ Write(h, c) /\ UNCHANGED buffering
      BY <1>3, <2>2 DEF Insert
    <3>2. c = [symbols |-> InsertSymbol(t, s), rows |-> Seen(h).rows]
      BY SeenContents DEF IsContents
    <3>3. GrownFrom(t, InsertSymbol(t, s)) /\ \A r \in InsertSymbol(t, s) : IsRow(r)
      BY SeenContents, InsertGrows DEF IsContents
    <3> HIDE DEF s
    <3>4. IsContents(c) /\ c.symbols = InsertSymbol(t, s)
      BY <3>2, <3>3 DEF IsContents
    <3> HIDE DEF c
    <3> QED BY <3>1, <3>3, <3>4, WriteGrows
  <2> QED BY <2>1, <2>2
<1>4. CASE Mark(h)
  <2>1. \/ UNCHANGED <<file, pending, txn>> /\ UNCHANGED buffering
        \/ Read(h) /\ UNCHANGED buffering
        \/ /\ CanWrite(h) /\ UNCHANGED buffering
           /\ \E column, S : Write(h, Marked(Seen(h), column, S))
    BY <1>4 DEF Mark, stored
  <2>2. ASSUME CanWrite(h), UNCHANGED buffering, NEW column, NEW S,
               Write(h, Marked(Seen(h), column, S))
        PROVE  Inv' /\ FileGrows
    BY <2>2, SeenContents, MarkedGrows, WriteGrows
  <2> QED BY <2>1, <2>2, ReadGrows, UntouchedGrows
<1>5. CASE Stamp(h)
  <2>1. UNCHANGED buffering /\ (UNCHANGED stored \/ (CanWrite(h) /\ Write(h, Seen(h))))
    BY <1>5 DEF Stamp
  <2> QED BY <2>1, SeenContents, WriteGrows, TableGrownReflexive, UntouchedGrows DEF stored
<1>6. CASE Commit(h)
  <2>1. CASE file' = Seen(h) /\ Rollback(h) /\ buffering' = [buffering EXCEPT ![h] = FALSE]
    <3>1. IsContents(file') /\ FileGrows
      BY <2>1, SeenContents, TableGrownReflexive DEF FileGrows, Seen, Inv, WriterGrows
    <3>2. \A g \in Handle \ {h} : Writes(txn[g]) => file' = file
      BY <2>1 DEF Seen, Inv, WriterGrows
    <3> QED BY <2>1, <3>1, <3>2, RollbackGrows
  <2>2. CASE CommitFails(h) /\ UNCHANGED stored
    BY <2>2, UntouchedGrows DEF CommitFails, stored
  <2>3. CASE /\ CommitFails(h)
             /\ txn' = [txn EXCEPT ![h] = IF Writes(@) THEN "blocked" ELSE @]
             /\ UNCHANGED <<file, pending>>
    <3>1. file' = file /\ pending' = pending /\ buffering' = buffering
      BY <2>3 DEF CommitFails
    <3>2. \A g \in Handle : txn'[g] = IF g = h /\ Writes(txn[h]) THEN "blocked" ELSE txn[g]
      BY <2>3 DEF Inv, Shape
    <3>3. txn' \in [Handle -> TxnStates]
      BY <2>3 DEF Inv, Shape, TxnStates
    <3>4. \A g \in Handle : (Writes(txn'[g]) <=> Writes(txn[g])) /\ (txn'[g] = "none" <=> txn[g] = "none")
      BY <3>2 DEF Writes
    <3>5. Shape'
      BY <3>1, <3>3 DEF Inv, Shape, IsContents, IsRow
    <3>6. BufferingMeansTransaction' /\ WriterGrows'
      BY <3>1, <3>4 DEF Inv, BufferingMeansTransaction, WriterGrows
    <3> QED BY <3>1, <3>5, <3>6, TableGrownReflexive DEF Inv, FileGrows
  <2> QED BY <1>6, <2>1, <2>2, <2>3 DEF Commit
<1>7. CASE Vacuum(h)
  BY <1>7, UntouchedGrows DEF Vacuum, stored
<1> QED BY <1>1, <1>2, <1>3, <1>4, <1>5, <1>6, <1>7 DEF Step

-----------------------------------------------------------------------------
LEMMA InitInv == Init => Inv
<1> SUFFICES ASSUME Init PROVE Inv
  OBVIOUS
<1>1. Shape
  BY DEF Init, Shape, IsContents, EmptyContents, TxnStates
<1>2. BufferingMeansTransaction /\ WriterGrows
  BY DEF Init, BufferingMeansTransaction, WriterGrows, Writes
<1> QED BY <1>1, <1>2 DEF Inv

LEMMA NextInv == Inv /\ [Next]_vars => Inv' /\ FileGrows
<1> SUFFICES ASSUME Inv, [Next]_vars PROVE Inv' /\ FileGrows
  OBVIOUS
<1>1. CASE UNCHANGED vars
  BY <1>1, UntouchedGrows DEF vars
<1>2. CASE Next
  BY <1>2, EnterGrows, StepGrows DEF Next
<1> QED BY <1>1, <1>2

\* vst_buffering is set exactly while the handle has a transaction, whatever fails
\* in varnam_create_token, varnam_flush_buffer or their rollbacks.
THEOREM BufferingIsTransaction == Spec => []BufferingMeansTransaction
<1>1. Inv => BufferingMeansTransaction
  BY DEF Inv
<1> QED BY <1>1, InitInv, NextInv, PTL DEF Spec

\* No step takes a symbol or a flag out of the file.
THEOREM SymbolsOnlyGrow == Spec => FileOnlyGrows
<1>1. Inv /\ [Next]_vars => [FileGrows]_vars
  BY NextInv
<1>2. Spec => []Inv
  BY InitInv, NextInv, PTL DEF Spec
<1> QED BY <1>1, <1>2, PTL DEF Spec, FileOnlyGrows, FileGrows

-----------------------------------------------------------------------------
(* What is reported as created is stored, and buffers are published whole. *)
(*                                                                         *)
(* A call in progress has a shape: a buffered one buffers, and what is     *)
(* left to store ends with the token itself.  What a handle has reported   *)
(* or stored so far is among the symbols it sees, which only grow unless   *)
(* the handle rolls back and forgets.                                      *)

IsFrame(f) ==
  f = [pc |-> f.pc, op |-> f.op, sym |-> f.sym, left |-> f.left,
       buffered |-> f.buffered, column |-> f.column]

\* Tokens that already_persisted does not tell apart.
SameKey(s, z) == s.pattern = z.pattern /\ s.match = z.match /\ s.value1 = z.value1

LeftOK(f) ==
  \/ /\ f.left = <<f.left[1]>>
     /\ IsToken(f.left[1]) /\ SameKey(f.left[1], Normalised(f.sym))
  \/ /\ f.left = <<f.left[1], f.left[2]>>
     /\ IsToken(f.left[1]) /\ IsToken(f.left[2])
     /\ SameKey(f.left[2], Normalised(f.sym))

Creating == {"virama", "check", "insert"}

FrameOK(h) ==
  LET f == frame[h] IN
  /\ IsFrame(f)
  /\ f.buffered => buffering[h] /\ f.pc \in Creating
  /\ f.pc \in Creating => f.op = "create" /\ IsToken(f.sym)
  /\ f.pc = "virama" => f.sym.type = "consonant"
  /\ f.pc \in {"check", "insert"} => LeftOK(f)
  /\ f.pc \in {"mark", "stamp"} /\ f.op = "create" => Persisted(Symbols(h), Normalised(f.sym))
  /\ f.pc \in {"commit", "vacuum"} => f.op = "flush"

BatchOK(h) == \A s \in batch[h] : Persisted(Symbols(h), s)

Functions2 ==
  /\ frame = [h \in Handle |-> frame[h]]
  /\ batch = [h \in Handle |-> batch[h]]
  /\ rc = [h \in Handle |-> rc[h]]

Inv2 == Functions2 /\ \A h \in Handle : FrameOK(h) /\ BatchOK(h)

OthersKeep(h) ==
  \A g \in Handle \ {h} :
    /\ txn'[g] = txn[g] /\ (Writes(txn[g]) => pending' = pending)
    /\ buffering'[g] = buffering[g] /\ frame'[g] = frame[g] /\ batch'[g] = batch[g]

OwnGrows(h) == GrownFrom(Symbols(h), Symbols(h)')

StoredNow(h) ==
  /\ frame[h].pc = "commit" /\ frame'[h].pc = "vacuum" =>
       \A s \in batch[h] : Persisted(file'.symbols, s)
  /\ frame[h].op = "create" /\ ~buffering[h] /\ Returns(h, "success")
       => Persisted(file'.symbols, Normalised(frame[h].sym))

PublishedNow(h) ==
  file'.symbols # file.symbols =>
    \/ frame[h].op = "flush" /\ frame[h].pc = "commit" /\ file' = pending
    \/ ~frame[h].buffered /\ ~buffering[h] /\ ~Idle(h)

LEMMA SameKeyPersisted ==
  ASSUME NEW t, NEW s, NEW z, SameKey(s, z), Persisted(t, s)
  PROVE  Persisted(t, z)
BY DEF SameKey, Persisted

LEMMA InsertPersists ==
  ASSUME NEW t, NEW s, IsToken(s)
  PROVE  Persisted(InsertSymbol(t, s), s)
<1> DEFINE z == [s EXCEPT !.value2 = Value2Of(s)]
           new == [id |-> NextSymbolId(t), sym |-> z, more |-> {}]
<1>1. SameKey(z, s)
  BY DEF SameKey, IsToken
<1>2. new \in InsertSymbol(t, s) /\ new.sym = z
  BY DEF InsertSymbol
<1> HIDE DEF new, z
<1> QED BY <1>1, <1>2 DEF Persisted, SameKey

\* A step of h leaves what the others know as it is.
LEMMA OthersOK ==
  ASSUME Inv, Inv2, NEW h \in Handle, FileGrows, OthersKeep(h), NEW g \in Handle \ {h}
  PROVE  FrameOK(g)' /\ BatchOK(g)'
<1>1. /\ txn'[g] = txn[g] /\ (Writes(txn[g]) => pending' = pending)
      /\ buffering'[g] = buffering[g] /\ frame'[g] = frame[g] /\ batch'[g] = batch[g]
  BY DEF OthersKeep
<1>2. GrownFrom(Symbols(g), Symbols(g)')
  BY <1>1, TableGrownReflexive DEF Symbols, Seen, FileGrows
<1>3. \A s : Persisted(Symbols(g), s) => Persisted(Symbols(g)', s)
  BY <1>2, PersistedStays
<1>4. FrameOK(g) /\ BatchOK(g)
  BY DEF Inv2
<1>5. FrameOK(g)'
  BY <1>1, <1>3, <1>4 DEF FrameOK, IsFrame, IsToken, LeftOK, SameKey
<1>6. BatchOK(g)'
  BY <1>1, <1>3, <1>4 DEF BatchOK
<1> QED BY <1>5, <1>6

-----------------------------------------------------------------------------
(* What the statements of h do to what it sees.                            *)

LEMMA UntouchedSeen ==
  ASSUME NEW h \in Handle, UNCHANGED stored
  PROVE  Symbols(h)' = Symbols(h) /\ file' = file
BY DEF Symbols, Seen, stored

LEMMA ReadSeen ==
  ASSUME Inv, NEW h \in Handle, Read(h)
  PROVE  /\ Symbols(h)' = Symbols(h) /\ file' = file
         /\ \A g \in Handle \ {h} : txn'[g] = txn[g] /\ pending' = pending
<1>1. \A g \in Handle : txn'[g] = IF g = h /\ txn[h] = "deferred" THEN "read" ELSE txn[g]
  BY DEF Read, Inv, Shape
<1> QED BY <1>1 DEF Read, Symbols, Seen, Writes

LEMMA WriteSeen ==
  ASSUME Inv, NEW h \in Handle, NEW c, CanWrite(h), Write(h, c)
  PROVE  /\ Symbols(h)' = c.symbols
         /\ file' = file \/ (file' = c /\ ~buffering[h] /\ Seen(h) = file)
         /\ \A g \in Handle \ {h} : txn'[g] = txn[g] /\ ~Writes(txn[g])
<1>1. \A g \in Handle \ {h} : ~Writes(txn[g])
  BY OnlyWriter
<1>2. CASE txn[h] = "none"
  BY <1>1, <1>2 DEF Write, Symbols, Seen, Writes, Inv, BufferingMeansTransaction
<1>3. CASE txn[h] # "none"
  <2>1. \A g \in Handle : txn'[g] = IF g = h THEN (IF Writes(txn[h]) THEN txn[h] ELSE "write") ELSE txn[g]
    BY <1>3 DEF Write, Inv, Shape
  <2> QED BY <1>1, <1>3, <2>1 DEF Write, Symbols, Seen, Writes
<1> QED BY <1>2, <1>3

LEMMA RollbackSeen ==
  ASSUME Inv, NEW h \in Handle, Rollback(h)
  PROVE  /\ Symbols(h)' = file'.symbols
         /\ \A g \in Handle \ {h} : txn'[g] = txn[g] /\ (Writes(txn[g]) => pending' = pending)
<1>1. \A g \in Handle : txn'[g] = IF g = h THEN "none" ELSE txn[g]
  BY DEF Rollback, Inv, Shape
<1>2. \A g \in Handle \ {h} : Writes(txn[g]) => ~Writes(txn[h])
  BY DEF Inv, WriterGrows
<1> QED BY <1>1, <1>2 DEF Rollback, Symbols, Seen, Writes

\* The calls of one handle leave the frames of the others alone.
LEMMA ReturnFrame ==
  ASSUME Inv2, NEW h \in Handle, NEW code, Return(h, code)
  PROVE  /\ frame'[h] = IdleFrame /\ rc'[h] = code
         /\ frame' = [g \in Handle |-> frame'[g]] /\ rc' = [g \in Handle |-> rc'[g]]
         /\ \A g \in Handle \ {h} : frame'[g] = frame[g]
BY DEF Return, Inv2, Functions2

LEMMA ContinueFrame ==
  ASSUME Inv2, NEW h \in Handle, NEW f, Continue(h, f)
  PROVE  /\ frame'[h] = f /\ rc' = rc
         /\ frame' = [g \in Handle |-> frame'[g]] /\ rc' = [g \in Handle |-> rc'[g]]
         /\ \A g \in Handle \ {h} : frame'[g] = frame[g]
BY DEF Continue, Inv2, Functions2

LEMMA IdleFrameOK ==
  ASSUME NEW h \in Handle, frame'[h] = IdleFrame
  PROVE  FrameOK(h)'
BY DEF FrameOK, IdleFrame, IsFrame, Creating

LEMMA IdleFrameKeeps ==
  ASSUME Inv2, NEW h \in Handle, Idle(h), frame' = frame, buffering' = buffering
  PROVE  FrameOK(h)'
<1>1. frame[h].pc = "idle" /\ IsFrame(frame[h]) /\ ~frame[h].buffered
  BY DEF Inv2, FrameOK, Creating, Idle
<1>2. frame'[h] = frame[h]
  OBVIOUS
<1> QED BY <1>1, <1>2 DEF FrameOK, IsFrame, Creating

\* A call that fails keeps its promise by making none.
LEMMA ErrorReturned ==
  ASSUME Inv2, NEW h \in Handle, Return(h, "error")
  PROVE  FrameOK(h)' /\ StoredNow(h)
<1>1. frame'[h] = IdleFrame /\ rc'[h] = "error"
  BY ReturnFrame
<1>2. IdleFrame.pc = "idle"
  BY DEF IdleFrame
<1> QED BY <1>1, <1>2, IdleFrameOK DEF StoredNow, Returns

LEMMA BatchStays ==
  ASSUME Inv2, NEW h \in Handle, OwnGrows(h), batch'[h] = batch[h]
  PROVE  BatchOK(h)'
BY PersistedStays DEF Inv2, BatchOK, OwnGrows

LEMMA TokenUpdated ==
  ASSUME NEW s, IsToken(s), NEW p, NEW v, NEW v2, NEW w,
         w = [s EXCEPT !.type = "dead_consonant", !.pattern = p, !.value1 = v, !.value2 = v2]
  PROVE  IsToken(w)
<1>1. w = [type |-> "dead_consonant", match |-> s.match, pattern |-> p, value1 |-> v,
           value2 |-> v2, priority |-> s.priority]
  BY DEF IsToken
<1> QED BY <1>1 DEF IsToken

LEMMA WithViramaOK ==
  ASSUME NEW f, IsFrame(f), IsToken(f.sym), f.sym.type = "consonant", NEW v, NEW w,
         w = WithViramaText(f, v)
  PROVE  /\ IsFrame(w) /\ LeftOK(w) /\ w.pc = "check"
         /\ w.sym = f.sym /\ w.buffered = f.buffered /\ w.op = f.op
<1> DEFINE left == IF HasTwin(f.sym, v) THEN <<DeadTwin(f.sym, v), f.sym>>
                   ELSE <<WithVirama(f.sym, v)>>
<1>1. w = [f EXCEPT !.pc = "check", !.left = left]
  BY DEF WithViramaText
<1>2. /\ IsFrame(w) /\ w.pc = "check" /\ w.left = left
      /\ w.sym = f.sym /\ w.buffered = f.buffered /\ w.op = f.op
  <2> HIDE DEF left
  <2> QED BY <1>1 DEF IsFrame
<1>3. Normalised(f.sym) = f.sym
  BY DEF Normalised
<1>4. IsToken(DeadTwin(f.sym, v))
  BY TokenUpdated DEF DeadTwin
<1>5. IsToken(WithVirama(f.sym, v)) /\ SameKey(WithVirama(f.sym, v), f.sym)
  BY DEF WithVirama, IsToken, SameKey
<1>6. LeftOK(w)
  <2>1. CASE HasTwin(f.sym, v)
    <3>1. w.left = <<DeadTwin(f.sym, v), f.sym>>
      BY <1>2, <2>1
    <3> QED BY <3>1, <1>2, <1>3, <1>4 DEF LeftOK, SameKey
  <2>2. CASE ~HasTwin(f.sym, v)
    <3>1. w.left = <<WithVirama(f.sym, v)>>
      BY <1>2, <2>2
    <3> QED BY <3>1, <1>2, <1>3, <1>5 DEF LeftOK
  <2> QED BY <2>1, <2>2
<1> QED BY <1>2, <1>6

\* What is left to store is a token, and the last of it is the token of the call.
LEMMA HeadOfLeft ==
  ASSUME NEW f, LeftOK(f)
  PROVE  /\ IsToken(Head(f.left))
         /\ Len(f.left) > 1 => \A g : g.left = Tail(f.left) /\ g.sym = f.sym => LeftOK(g)
         /\ ~(Len(f.left) > 1) => SameKey(Head(f.left), Normalised(f.sym))
<1>1. ASSUME NEW a, NEW z, f.left = <<a>>, IsToken(a), SameKey(a, z), z = Normalised(f.sym)
      PROVE  /\ IsToken(Head(f.left)) /\ ~(Len(f.left) > 1)
             /\ SameKey(Head(f.left), z)
  <2>1. Head(f.left) = a /\ Len(f.left) = 1
    BY <1>1
  <2> QED BY <2>1, <1>1
<1>2. ASSUME NEW a, NEW b, NEW z, f.left = <<a, b>>, IsToken(a), IsToken(b), SameKey(b, z),
             z = Normalised(f.sym)
      PROVE  /\ IsToken(Head(f.left)) /\ Len(f.left) > 1
             /\ \A g : g.left = Tail(f.left) /\ g.sym = f.sym => LeftOK(g)
  <2>1. Head(f.left) = a /\ Len(f.left) = 2 /\ Tail(f.left) = <<b>>
    BY <1>2
  <2>2. ASSUME NEW g, g.left = <<b>>, g.sym = f.sym
        PROVE  LeftOK(g)
    <3>1. g.left[1] = b
      BY <2>2
    <3>2. Normalised(g.sym) = z
      BY <2>2, <1>2
    <3> QED BY <3>1, <3>2, <2>2, <1>2, Zenon DEF LeftOK
  <2> QED BY <2>1, <2>2, <1>2
<1>3. CASE /\ f.left = <<f.left[1]>>
           /\ IsToken(f.left[1]) /\ SameKey(f.left[1], Normalised(f.sym))
  BY <1>1, <1>3, Zenon
<1>4. CASE /\ f.left = <<f.left[1], f.left[2]>>
           /\ IsToken(f.left[1]) /\ IsToken(f.left[2])
           /\ SameKey(f.left[2], Normalised(f.sym))
  BY <1>2, <1>4, Zenon
<1> QED BY <1>3, <1>4, Zenon DEF LeftOK

\* A token that is stored ends the call, or leaves the rest of it to be stored.
LEMMA TokenDoneOK ==
  ASSUME Inv2, NEW h \in Handle, frame[h].pc \in {"check", "insert"}, TokenDone(h),
         buffering' = buffering, OwnGrows(h), Persisted(Symbols(h)', Head(frame[h].left))
  PROVE  /\ Functions2' /\ FrameOK(h)' /\ BatchOK(h)' /\ StoredNow(h)
         /\ \A g \in Handle \ {h} : frame'[g] = frame[g] /\ batch'[g] = batch[g]
<1> DEFINE f == frame[h]
<1>1. FrameOK(h) /\ BatchOK(h) /\ Functions2
  BY DEF Inv2
<1>2. /\ IsFrame(f) /\ f.op = "create" /\ LeftOK(f) /\ IsToken(f.sym)
      /\ f.buffered => buffering[h]
  BY <1>1 DEF FrameOK, Creating
<1>3. CASE Len(f.left) > 1
  <2> DEFINE w == [f EXCEPT !.left = Tail(@), !.pc = "check"]
  <2>1. Continue(h, w) /\ batch' = batch
    BY <1>3 DEF TokenDone
  <2>2. /\ IsFrame(w) /\ w.pc = "check" /\ w.left = Tail(f.left)
        /\ w.sym = f.sym /\ w.buffered = f.buffered /\ w.op = f.op
    <3>1. w = [f EXCEPT !.left = Tail(f.left), !.pc = "check"]
      OBVIOUS
    <3> HIDE DEF w, f
    <3> QED BY <1>2, <3>1 DEF IsFrame
  <2>3. LeftOK(w)
    <3> HIDE DEF w
    <3> QED BY <1>2, <1>3, <2>2, HeadOfLeft
  <2> HIDE DEF w
  <2>4. frame'[h] = w /\ Functions2' /\ \A g \in Handle \ {h} : frame'[g] = frame[g]
    BY <2>1, <1>1, ContinueFrame DEF Functions2
  <2>5. FrameOK(h)'
    BY <2>2, <2>3, <2>4, <1>2 DEF FrameOK, Creating
  <2>6. StoredNow(h)
    BY <2>2, <2>4 DEF StoredNow, Returns, Idle
  <2> QED BY <2>1, <2>4, <2>5, <2>6, BatchStays
<1>4. CASE ~(Len(f.left) > 1) /\ f.buffered
  <2>1. Return(h, "success") /\ batch' = [batch EXCEPT ![h] = @ \cup {Normalised(f.sym)}]
    BY <1>4 DEF TokenDone
  <2>2. frame'[h] = IdleFrame /\ Functions2' /\ \A g \in Handle \ {h} : frame'[g] = frame[g]
    BY <2>1, <1>1, ReturnFrame DEF Functions2
  <2>3. batch'[h] = batch[h] \cup {Normalised(f.sym)}
    BY <2>1, <1>1 DEF Functions2
  <2>4. Persisted(Symbols(h)', Normalised(f.sym))
    BY <1>2, <1>4, HeadOfLeft, SameKeyPersisted
  <2>5. \A s : Persisted(Symbols(h), s) => Persisted(Symbols(h)', s)
    BY PersistedStays DEF OwnGrows
  <2>6. BatchOK(h)'
    BY <1>1, <2>3, <2>4, <2>5 DEF BatchOK
  <2>7. StoredNow(h)
    BY <1>2, <1>4, <2>2 DEF StoredNow, IdleFrame
  <2>8. \A g \in Handle \ {h} : batch'[g] = batch[g]
    BY <2>1, <1>1 DEF Functions2
  <2> QED BY <2>2, <2>6, <2>7, <2>8, IdleFrameOK
<1>5. CASE ~(Len(f.left) > 1) /\ ~f.buffered
  <2> DEFINE w == [f EXCEPT !.pc = "mark", !.column = 1]
  <2>1. Continue(h, w) /\ batch' = batch
    BY <1>5 DEF TokenDone
  <2>2. IsFrame(w) /\ w.pc = "mark" /\ w.sym = f.sym /\ w.buffered = f.buffered /\ w.op = f.op
    <3>1. w = [f EXCEPT !.pc = "mark", !.column = 1]
      OBVIOUS
    <3> HIDE DEF w, f
    <3> QED BY <1>2, <3>1 DEF IsFrame
  <2> HIDE DEF w
  <2>3. frame'[h] = w /\ Functions2' /\ \A g \in Handle \ {h} : frame'[g] = frame[g]
    BY <2>1, <1>1, ContinueFrame DEF Functions2
  <2>4. Persisted(Symbols(h)', Normalised(f.sym))
    BY <1>2, <1>5, HeadOfLeft, SameKeyPersisted
  <2>5. FrameOK(h)'
    BY <1>5, <2>2, <2>3, <2>4 DEF FrameOK, Creating
  <2>6. StoredNow(h)
    BY <2>2, <2>3 DEF StoredNow, Returns, Idle
  <2> QED BY <2>1, <2>3, <2>5, <2>6, BatchStays
<1> QED BY <1>3, <1>4, <1>5

-----------------------------------------------------------------------------
(* The actions of h, in the second invariant.                              *)

Keeps(h) ==
  /\ Functions2' /\ FrameOK(h)' /\ BatchOK(h)' /\ OthersKeep(h)
  /\ StoredNow(h) /\ PublishedNow(h)

\* A statement that changes nothing h sees.
Quiet(h) ==
  /\ Symbols(h)' = Symbols(h) /\ file' = file /\ OwnGrows(h)
  /\ \A g \in Handle \ {h} : txn'[g] = txn[g] /\ (Writes(txn[g]) => pending' = pending)

LEMMA QuietStatement ==
  ASSUME Inv, NEW h \in Handle, Read(h) \/ UNCHANGED stored
  PROVE  Quiet(h)
<1>1. CASE Read(h)
  BY <1>1, ReadSeen, TableGrownReflexive DEF Quiet, OwnGrows
<1>2. CASE UNCHANGED stored
  BY <1>2, UntouchedSeen, TableGrownReflexive DEF Quiet, OwnGrows, stored
<1> QED BY <1>1, <1>2

\* A statement of h that writes.
LEMMA OwnWrite ==
  ASSUME Inv, NEW h \in Handle, NEW c, CanWrite(h), Write(h, c),
         GrownFrom(Symbols(h), c.symbols)
  PROVE  /\ Symbols(h)' = c.symbols /\ OwnGrows(h)
         /\ file' = file \/ (file' = c /\ ~buffering[h] /\ Seen(h) = file)
         /\ \A g \in Handle \ {h} : txn'[g] = txn[g] /\ (Writes(txn[g]) => pending' = pending)
BY WriteSeen DEF OwnGrows

LEMMA CreateFailsKeeps ==
  ASSUME Inv, Inv2, NEW h \in Handle, CreateFails(h)
  PROVE  Keeps(h)
<1>1. Return(h, "error")
  BY DEF CreateFails
<1>2. FrameOK(h)' /\ StoredNow(h)
  BY <1>1, ErrorReturned
<1>3. Functions2
  BY DEF Inv2
<1>4. CASE frame[h].buffered /\ buffering[h]
  <2>1. /\ Rollback(h) /\ file' = file
        /\ buffering' = [buffering EXCEPT ![h] = FALSE]
        /\ batch' = [batch EXCEPT ![h] = {}]
    BY <1>4 DEF CreateFails
  <2>2. \A g \in Handle \ {h} : txn'[g] = txn[g] /\ (Writes(txn[g]) => pending' = pending)
    BY <2>1, RollbackSeen
  <2>3. Functions2' /\ \A g \in Handle \ {h} : frame'[g] = frame[g] /\ batch'[g] = batch[g]
    BY <1>1, <1>3, <2>1, ReturnFrame DEF Functions2
  <2>4. \A g \in Handle \ {h} : buffering'[g] = buffering[g]
    BY <2>1 DEF Inv, Shape
  <2>5. BatchOK(h)'
    BY <1>3, <2>1 DEF BatchOK, Functions2
  <2> QED BY <1>2, <2>1, <2>2, <2>3, <2>4, <2>5 DEF Keeps, OthersKeep, PublishedNow
<1>5. CASE ~(frame[h].buffered /\ buffering[h])
  <2>1. UNCHANGED stored /\ buffering' = buffering /\ batch' = batch
    BY <1>5 DEF CreateFails
  <2>2. Quiet(h)
    BY <2>1, QuietStatement
  <2>3. Functions2' /\ \A g \in Handle \ {h} : frame'[g] = frame[g]
    BY <1>1, <1>3, <2>1, ReturnFrame DEF Functions2
  <2>4. BatchOK(h)'
    BY <2>1, <2>2, BatchStays DEF Quiet
  <2> QED BY <1>2, <2>1, <2>2, <2>3, <2>4 DEF Keeps, OthersKeep, PublishedNow, Quiet
<1> QED BY <1>4, <1>5

\* A quiet statement after which the call ends with an error.
LEMMA QuietError ==
  ASSUME Inv, Inv2, NEW h \in Handle, Quiet(h), Return(h, "error"),
         buffering' = buffering, batch' = batch
  PROVE  Keeps(h)
<1>1. FrameOK(h)' /\ StoredNow(h)
  BY ErrorReturned
<1>2. Functions2' /\ \A g \in Handle \ {h} : frame'[g] = frame[g]
  BY ReturnFrame DEF Inv2, Functions2
<1>3. BatchOK(h)'
  BY BatchStays DEF Quiet
<1> QED BY <1>1, <1>2, <1>3 DEF Keeps, OthersKeep, PublishedNow, Quiet

LEMMA FindViramaKeeps ==
  ASSUME Inv, Inv2, NEW h \in Handle, FindVirama(h)
  PROVE  Keeps(h)
<1> DEFINE f == frame[h]
<1>1. /\ f.pc = "virama" /\ buffering' = buffering /\ batch' = batch
      /\ Read(h) \/ UNCHANGED stored
      /\ Return(h, "error") \/ \E v : Continue(h, WithViramaText(f, v))
  BY DEF FindVirama
<1>2. Quiet(h)
  BY <1>1, QuietStatement
<1>3. CASE Return(h, "error")
  BY <1>1, <1>2, <1>3, QuietError
<1>4. ASSUME NEW v, Continue(h, WithViramaText(f, v)) PROVE Keeps(h)
  <2> DEFINE w == WithViramaText(f, v)
  <2>1. /\ IsFrame(f) /\ IsToken(f.sym) /\ f.sym.type = "consonant" /\ f.op = "create"
        /\ f.buffered => buffering[h]
    BY <1>1 DEF Inv2, FrameOK, Creating
  <2>2. /\ IsFrame(w) /\ LeftOK(w) /\ w.pc = "check"
        /\ w.sym = f.sym /\ w.buffered = f.buffered /\ w.op = f.op
    <3> HIDE DEF f
    <3> QED BY <2>1, WithViramaOK
  <2>3. Continue(h, w)
    BY <1>4
  <2> HIDE DEF w
  <2>4. frame'[h] = w /\ Functions2' /\ \A g \in Handle \ {h} : frame'[g] = frame[g]
    BY <1>1, <2>3, ContinueFrame DEF Functions2, Inv2
  <2>5. FrameOK(h)'
    BY <1>1, <2>1, <2>2, <2>4 DEF FrameOK, Creating
  <2>6. StoredNow(h)
    BY <2>2, <2>4 DEF StoredNow, Returns, Idle
  <2>7. BatchOK(h)'
    BY <1>1, <1>2, BatchStays DEF Quiet
  <2> QED BY <1>1, <1>2, <2>4, <2>5, <2>6, <2>7 DEF Keeps, OthersKeep, PublishedNow, Quiet
<1> QED BY <1>1, <1>3, <1>4

LEMMA CheckKeeps ==
  ASSUME Inv, Inv2, NEW h \in Handle, Check(h)
  PROVE  Keeps(h)
<1> DEFINE f == frame[h]
<1>1. f.pc = "check"
  BY DEF Check
<1>2. CASE CreateFails(h)
  BY <1>2, CreateFailsKeeps
<1>3. CASE Continue(h, [f EXCEPT !.pc = "insert"]) /\ Read(h) /\ UNCHANGED <<buffering, batch>>
  <2> DEFINE w == [f EXCEPT !.pc = "insert"]
  <2>1. /\ IsFrame(f) /\ IsToken(f.sym) /\ LeftOK(f) /\ f.op = "create"
        /\ f.buffered => buffering[h]
    BY <1>1 DEF Inv2, FrameOK, Creating
  <2>2. /\ IsFrame(w) /\ w.pc = "insert" /\ w.left = f.left
        /\ w.sym = f.sym /\ w.buffered = f.buffered /\ w.op = f.op
    <3>1. w = [f EXCEPT !.pc = "insert"]
      OBVIOUS
    <3> HIDE DEF w, f
    <3> QED BY <2>1, <3>1 DEF IsFrame
  <2>3. Continue(h, w)
    BY <1>3
  <2> HIDE DEF w
  <2>4. LeftOK(w)
    BY <2>1, <2>2 DEF LeftOK
  <2>5. frame'[h] = w /\ Functions2' /\ \A g \in Handle \ {h} : frame'[g] = frame[g]
    BY <1>3, <2>3, ContinueFrame DEF Functions2, Inv2
  <2>6. FrameOK(h)'
    BY <1>3, <2>1, <2>2, <2>4, <2>5 DEF FrameOK, Creating
  <2>7. StoredNow(h)
    BY <2>2, <2>5 DEF StoredNow, Returns, Idle
  <2>8. Quiet(h)
    BY <1>3, QuietStatement
  <2>9. BatchOK(h)'
    BY <1>3, <2>8, BatchStays DEF Quiet
  <2> QED BY <1>3, <2>5, <2>6, <2>7, <2>8, <2>9 DEF Keeps, OthersKeep, PublishedNow, Quiet
<1>4. CASE /\ Persisted(Symbols(h), Head(f.left)) /\ TokenDone(h) /\ Read(h)
           /\ UNCHANGED buffering
  <2>1. Quiet(h)
    BY <1>4, QuietStatement
  <2>2. Persisted(Symbols(h)', Head(f.left)) /\ OwnGrows(h)
    BY <1>4, <2>1 DEF Quiet
  <2>3. /\ Functions2' /\ FrameOK(h)' /\ BatchOK(h)' /\ StoredNow(h)
        /\ \A g \in Handle \ {h} : frame'[g] = frame[g] /\ batch'[g] = batch[g]
    BY <1>1, <1>4, <2>2, TokenDoneOK
  <2> QED BY <1>4, <2>1, <2>3 DEF Keeps, OthersKeep, PublishedNow, Quiet
<1> QED BY <1>2, <1>3, <1>4 DEF Check

LEMMA InsertKeeps ==
  ASSUME Inv, Inv2, NEW h \in Handle, Insert(h)
  PROVE  Keeps(h)
<1>1. CASE CreateFails(h)
  BY <1>1, CreateFailsKeeps
<1>2. CASE ~CreateFails(h)
  <2> DEFINE s == Head(frame[h].left)
             t == Symbols(h)
             c == [Seen(h) EXCEPT !.symbols = InsertSymbol(@, s)]
  <2>1. /\ frame[h].pc = "insert" /\ CanWrite(h) /\ Write(h, c)
        /\ TokenDone(h) /\ buffering' = buffering
    BY <1>2 DEF Insert
  <2>2. c = [symbols |-> InsertSymbol(t, s), rows |-> Seen(h).rows]
    BY SeenContents DEF IsContents, Symbols
  <2>3. GrownFrom(t, InsertSymbol(t, s))
    BY SeenContents, InsertGrows DEF IsContents, Symbols
  <2>4. IsToken(s)
    <3>1. LeftOK(frame[h])
      BY <2>1 DEF Inv2, FrameOK
    <3> QED BY <3>1, HeadOfLeft
  <2>5. Persisted(InsertSymbol(t, s), s)
    BY <2>4, InsertPersists
  <2>6. frame[h].buffered => buffering[h]
    BY DEF Inv2, FrameOK
  <2> HIDE DEF s, t
  <2>7. c.symbols = InsertSymbol(t, s)
    BY <2>2
  <2> HIDE DEF c
  <2>8. GrownFrom(Symbols(h), c.symbols)
    BY <2>3, <2>7 DEF t
  <2>9. /\ Symbols(h)' = c.symbols /\ OwnGrows(h)
        /\ file' = file \/ (file' = c /\ ~buffering[h] /\ Seen(h) = file)
        /\ \A g \in Handle \ {h} : txn'[g] = txn[g] /\ (Writes(txn[g]) => pending' = pending)
    BY <2>1, <2>8, OwnWrite
  <2>10. Persisted(Symbols(h)', Head(frame[h].left))
    BY <2>5, <2>7, <2>9 DEF s
  <2>11. /\ Functions2' /\ FrameOK(h)' /\ BatchOK(h)' /\ StoredNow(h)
         /\ \A g \in Handle \ {h} : frame'[g] = frame[g] /\ batch'[g] = batch[g]
    BY <2>1, <2>9, <2>10, TokenDoneOK
  <2>12. PublishedNow(h)
    BY <2>1, <2>6, <2>9 DEF PublishedNow, Idle
  <2> QED BY <2>1, <2>9, <2>11, <2>12 DEF Keeps, OthersKeep
<1> QED BY <1>1, <1>2

\* A statement of a call that makes the prefix tree: others see no change of it
\* unless h does not buffer.
Own(h) ==
  /\ OwnGrows(h) /\ (file'.symbols # file.symbols => ~buffering[h])
  /\ \A g \in Handle \ {h} : txn'[g] = txn[g] /\ (Writes(txn[g]) => pending' = pending)
  /\ buffering' = buffering /\ batch' = batch

Marking == {"mark", "stamp", "commit", "vacuum"}

LEMMA OwnReturn ==
  ASSUME Inv, Inv2, NEW h \in Handle, frame[h].pc \in Marking, Own(h), NEW code, Return(h, code),
         frame[h].op = "create" /\ ~buffering[h] /\ code = "success"
           => Persisted(file'.symbols, Normalised(frame[h].sym))
  PROVE  Keeps(h)
<1>1. frame'[h] = IdleFrame /\ rc'[h] = code /\ IdleFrame.pc = "idle"
  BY ReturnFrame DEF IdleFrame
<1>2. Functions2' /\ \A g \in Handle \ {h} : frame'[g] = frame[g]
  BY ReturnFrame DEF Inv2, Functions2, Own
<1>3. BatchOK(h)'
  BY BatchStays DEF Own
<1>4. StoredNow(h)
  BY <1>1 DEF StoredNow, Returns
<1>5. ~frame[h].buffered
  BY DEF Inv2, FrameOK, Creating, Marking
<1>6. PublishedNow(h)
  BY <1>5 DEF PublishedNow, Own, Idle, Marking
<1> QED BY <1>1, <1>2, <1>3, <1>4, <1>6, IdleFrameOK DEF Keeps, OthersKeep, Own

LEMMA OwnContinue ==
  ASSUME Inv, Inv2, NEW h \in Handle, frame[h].pc \in {"mark", "stamp"}, Own(h),
         NEW w, Continue(h, w), IsFrame(w), w.pc \in {"mark", "stamp", "commit"},
         w.sym = frame[h].sym, w.op = frame[h].op, w.buffered = frame[h].buffered,
         w.pc = "commit" => w.op = "flush"
  PROVE  Keeps(h)
<1>1. frame'[h] = w /\ Functions2' /\ \A g \in Handle \ {h} : frame'[g] = frame[g]
  BY ContinueFrame DEF Inv2, Functions2, Own
<1>2. BatchOK(h)'
  BY BatchStays DEF Own
<1>3. ~frame[h].buffered
  BY DEF Inv2, FrameOK, Creating
<1>4. frame[h].op = "create" => Persisted(Symbols(h), Normalised(frame[h].sym))
  BY DEF Inv2, FrameOK
<1>5. frame[h].op = "create" => Persisted(Symbols(h)', Normalised(frame[h].sym))
  BY <1>4, PersistedStays DEF Own, OwnGrows
<1>6. FrameOK(h)'
  BY <1>1, <1>3, <1>5 DEF FrameOK, Creating
<1>7. StoredNow(h)
  BY <1>1 DEF StoredNow, Returns, Idle
<1>8. PublishedNow(h)
  BY <1>3 DEF PublishedNow, Own, Idle
<1> QED BY <1>1, <1>2, <1>6, <1>7, <1>8 DEF Keeps, OthersKeep, Own

LEMMA QuietOwn ==
  ASSUME Inv, NEW h \in Handle, Read(h) \/ UNCHANGED stored, buffering' = buffering,
         batch' = batch
  PROVE  Own(h)
BY QuietStatement DEF Quiet, Own

LEMMA MarkedOwn ==
  ASSUME Inv, NEW h \in Handle, NEW column, NEW S, CanWrite(h),
         Write(h, Marked(Seen(h), column, S)), buffering' = buffering, batch' = batch
  PROVE  Own(h)
<1>1. GrownFrom(Symbols(h), Marked(Seen(h), column, S).symbols)
  BY SeenContents, MarkedGrows DEF Symbols
<1> QED BY <1>1, OwnWrite DEF Own

LEMMA MarkKeeps ==
  ASSUME Inv, Inv2, NEW h \in Handle, Mark(h)
  PROVE  Keeps(h)
<1> DEFINE f == frame[h]
<1>1. /\ f.pc = "mark" /\ buffering' = buffering /\ batch' = batch
      /\ Continue(h, NextColumn(f)) \/ Return(h, "error")
  BY DEF Mark
<1>2. \/ Read(h) \/ UNCHANGED stored
      \/ CanWrite(h) /\ \E column, S : Write(h, Marked(Seen(h), column, S))
  BY DEF Mark
<1>3. Own(h)
  BY <1>1, <1>2, QuietOwn, MarkedOwn
<1>4. CASE Return(h, "error")
  BY <1>1, <1>3, <1>4, OwnReturn DEF Marking
<1>5. CASE Continue(h, NextColumn(f))
  <2> DEFINE w == NextColumn(f)
  <2>1. IsFrame(f)
    BY DEF Inv2, FrameOK
  <2>2. /\ IsFrame(w) /\ w.pc \in {"mark", "stamp"}
        /\ w.sym = f.sym /\ w.op = f.op /\ w.buffered = f.buffered
    <3> HIDE DEF f
    <3>1. CASE f.column < Len(Columns)
      <4>1. w = [f EXCEPT !.column = f.column + 1]
        BY <3>1 DEF NextColumn
      <4>2. f.pc = "mark"
        BY <1>1 DEF f
      <4> HIDE DEF w
      <4> QED BY <2>1, <4>1, <4>2 DEF IsFrame
    <3>2. CASE ~(f.column < Len(Columns))
      <4>1. w = [f EXCEPT !.pc = "stamp"]
        BY <3>2 DEF NextColumn
      <4> HIDE DEF w
      <4> QED BY <2>1, <4>1 DEF IsFrame
    <3> QED BY <3>1, <3>2
  <2>3. Continue(h, w)
    BY <1>5
  <2> HIDE DEF w
  <2> QED BY <1>1, <1>3, <2>2, <2>3, OwnContinue
<1> QED BY <1>1, <1>4, <1>5

LEMMA StampKeeps ==
  ASSUME Inv, Inv2, NEW h \in Handle, Stamp(h)
  PROVE  Keeps(h)
<1> DEFINE f == frame[h]
<1>1. f.pc = "stamp" /\ buffering' = buffering /\ batch' = batch
  BY DEF Stamp
<1>2. CASE UNCHANGED stored /\ Return(h, "error")
  <2>1. Own(h)
    BY <1>1, <1>2, QuietOwn
  <2> QED BY <1>1, <1>2, <2>1, OwnReturn DEF Marking
<1>3. CASE /\ CanWrite(h) /\ Write(h, Seen(h))
           /\ \/ f.op = "flush" /\ buffering[h] /\ Continue(h, [f EXCEPT !.pc = "commit"])
              \/ Return(h, "success")
  <2>1. /\ OwnGrows(h)
        /\ file' = file \/ (file' = Seen(h) /\ ~buffering[h] /\ Seen(h) = file)
        /\ \A g \in Handle \ {h} : txn'[g] = txn[g] /\ (Writes(txn[g]) => pending' = pending)
    BY <1>3, TableGrownReflexive, OwnWrite DEF Symbols
  <2>2. Own(h) /\ file' = file
    BY <1>1, <2>1 DEF Own
  <2>3. CASE f.op = "flush" /\ buffering[h] /\ Continue(h, [f EXCEPT !.pc = "commit"])
    <3> DEFINE w == [f EXCEPT !.pc = "commit"]
    <3>1. IsFrame(f) /\ w = [f EXCEPT !.pc = "commit"]
      BY DEF Inv2, FrameOK
    <3>2. Continue(h, w)
      BY <2>3
    <3>3. /\ IsFrame(w) /\ w.pc = "commit"
          /\ w.sym = f.sym /\ w.op = f.op /\ w.buffered = f.buffered
      <4> HIDE DEF f, w
      <4> QED BY <3>1 DEF IsFrame
    <3> HIDE DEF w
    <3> QED BY <1>1, <2>2, <2>3, <3>2, <3>3, OwnContinue
  <2>4. CASE Return(h, "success")
    <3>1. f.op = "create" => Persisted(Symbols(h), Normalised(f.sym))
      BY <1>1 DEF Inv2, FrameOK
    <3>2. ~buffering[h] => Symbols(h) = file'.symbols
      BY <2>2 DEF Symbols, Seen, Writes, Inv, BufferingMeansTransaction
    <3> QED BY <1>1, <2>2, <2>4, <3>1, <3>2, OwnReturn DEF Marking
  <2> QED BY <1>3, <2>3, <2>4
<1> QED BY <1>2, <1>3 DEF Stamp

LEMMA VacuumKeeps ==
  ASSUME Inv, Inv2, NEW h \in Handle, Vacuum(h)
  PROVE  Keeps(h)
<1>1. /\ frame[h].pc = "vacuum" /\ UNCHANGED stored /\ buffering' = buffering /\ batch' = batch
      /\ \E code : Return(h, code)
  BY DEF Vacuum
<1>2. Own(h)
  BY <1>1, QuietOwn
<1>3. frame[h].op = "flush"
  BY <1>1 DEF Inv2, FrameOK
<1> QED BY <1>1, <1>2, <1>3, OwnReturn DEF Marking

LEMMA CommitKeeps ==
  ASSUME Inv, Inv2, NEW h \in Handle, Commit(h)
  PROVE  Keeps(h)
<1> DEFINE f == frame[h]
<1>1. f.pc = "commit" /\ f.op = "flush" /\ IsFrame(f) /\ ~f.buffered
  BY DEF Commit, Inv2, FrameOK, Creating
<1>2. CASE CommitFails(h) /\ UNCHANGED stored
  <2>1. Own(h) /\ Return(h, "error")
    BY <1>2, QuietOwn DEF CommitFails
  <2> QED BY <1>1, <2>1, OwnReturn DEF Marking
<1>3. CASE /\ CommitFails(h) /\ UNCHANGED <<file, pending>>
           /\ txn' = [txn EXCEPT ![h] = IF Writes(@) THEN "blocked" ELSE @]
  <2>1. \A g \in Handle : txn'[g] = IF g = h /\ Writes(txn[h]) THEN "blocked" ELSE txn[g]
    BY <1>3 DEF Inv, Shape
  <2>2. Symbols(h)' = Symbols(h)
    BY <1>3, <2>1 DEF Symbols, Seen, Writes
  <2>3. Own(h) /\ Return(h, "error")
    BY <1>3, <2>1, <2>2, TableGrownReflexive DEF Own, OwnGrows, CommitFails
  <2> QED BY <1>1, <2>3, OwnReturn DEF Marking
<1>4. CASE /\ file' = Seen(h) /\ Rollback(h) /\ batch' = batch
           /\ buffering' = [buffering EXCEPT ![h] = FALSE]
           /\ Continue(h, [f EXCEPT !.pc = "vacuum"])
  <2> DEFINE w == [f EXCEPT !.pc = "vacuum"]
  <2>1. w = [f EXCEPT !.pc = "vacuum"] /\ Continue(h, w)
    BY <1>4
  <2>2. IsFrame(w) /\ w.pc = "vacuum" /\ w.op = f.op /\ w.buffered = f.buffered
    <3> HIDE DEF f, w
    <3> QED BY <1>1, <2>1 DEF IsFrame
  <2> HIDE DEF w
  <2>3. /\ frame'[h] = w /\ Functions2'
        /\ \A g \in Handle \ {h} : frame'[g] = frame[g] /\ batch'[g] = batch[g]
    BY <1>4, <2>1, ContinueFrame DEF Inv2, Functions2
  <2>4. /\ Symbols(h)' = file'.symbols
        /\ \A g \in Handle \ {h} : txn'[g] = txn[g] /\ (Writes(txn[g]) => pending' = pending)
    BY <1>4, RollbackSeen
  <2>5. Symbols(h)' = Symbols(h)
    BY <1>4, <2>4 DEF Symbols
  <2>6. BatchOK(h)'
    BY <1>4, <2>5, TableGrownReflexive, BatchStays DEF OwnGrows
  <2>7. FrameOK(h)'
    BY <1>1, <2>2, <2>3 DEF FrameOK, Creating
  <2>8. StoredNow(h)
    <3>1. \A s \in batch[h] : Persisted(file'.symbols, s)
      BY <2>4, <2>5 DEF Inv2, BatchOK
    <3> QED BY <1>1, <3>1 DEF StoredNow
  <2>9. PublishedNow(h)
    BY <1>1, <1>4 DEF PublishedNow, Seen
  <2>10. \A g \in Handle \ {h} : buffering'[g] = buffering[g]
    BY <1>4 DEF Inv, Shape
  <2> QED BY <2>3, <2>4, <2>6, <2>7, <2>8, <2>9, <2>10 DEF Keeps, OthersKeep
<1> QED BY <1>2, <1>3, <1>4 DEF Commit

LEMMA ValuesUpdated ==
  ASSUME NEW s, IsToken(s), NEW v, NEW w, w = [s EXCEPT !.value1 = v, !.value2 = v]
  PROVE  IsToken(w)
<1>1. w = [type |-> s.type, match |-> s.match, pattern |-> s.pattern, value1 |-> v,
           value2 |-> v, priority |-> s.priority]
  BY DEF IsToken
<1> QED BY <1>1 DEF IsToken

LEMMA NormalisedToken ==
  ASSUME NEW s \in Token
  PROVE  IsToken(s) /\ IsToken(Normalised(s))
<1>1. IsToken(s)
  BY DEF IsToken, Token, TokenWith
<1>2. \A v : IsToken([s EXCEPT !.value1 = v, !.value2 = v])
  BY <1>1, ValuesUpdated
<1> QED BY <1>1, <1>2 DEF Normalised

LEMMA FrameStarted ==
  ASSUME NEW f, IsFrame(f), NEW o, NEW s, NEW b, NEW l, NEW p, NEW w,
         w = [f EXCEPT !.op = o, !.sym = s, !.buffered = b, !.left = l, !.pc = p]
  PROVE  w = [pc |-> p, op |-> o, sym |-> s, left |-> l, buffered |-> b, column |-> f.column]
<1> DEFINE u == [f EXCEPT !.op = o, !.sym = s]
<1>1. u = [f EXCEPT !.op = o, !.sym = s] /\ w = [u EXCEPT !.buffered = b, !.left = l, !.pc = p]
  OBVIOUS
<1> HIDE DEF u
<1>2. u = [pc |-> f.pc, op |-> o, sym |-> s, left |-> f.left, buffered |-> f.buffered,
           column |-> f.column]
  BY <1>1 DEF IsFrame
<1> QED BY <1>1, <1>2

LEMMA IdleIsFrame == IsFrame(IdleFrame) /\ ~IdleFrame.buffered
BY DEF IsFrame, IdleFrame

LEMMA CreateKeeps ==
  ASSUME Inv, Inv2, NEW h \in Handle, NEW s \in Token, NEW b \in BOOLEAN, Create(h, s, b)
  PROVE  Keeps(h)
<1> DEFINE w == StartCreate(h, s, b)
<1>1. /\ Idle(h) /\ frame' = [frame EXCEPT ![h] = w]
      /\ file' = file /\ pending' = pending /\ rc' = rc
  BY DEF Create, Call
<1>2. IsToken(s) /\ IsToken(Normalised(s))
  BY NormalisedToken
<1>3. /\ IsFrame(w) /\ w.op = "create" /\ w.sym = s /\ w.left = <<Normalised(s)>>
      /\ w.buffered = b /\ w.pc \in {"virama", "check"}
      /\ w.pc = "virama" => s.type = "consonant"
  <2> DEFINE p == IF s.type = "consonant" /\ config[h].dead THEN "virama" ELSE "check"
             l == <<Normalised(s)>>
  <2>1. w = [IdleFrame EXCEPT !.op = "create", !.sym = s, !.buffered = b, !.left = l, !.pc = p]
    BY DEF StartCreate
  <2>2. p \in {"virama", "check"} /\ (p = "virama" => s.type = "consonant")
    OBVIOUS
  <2> HIDE DEF w, p, l
  <2>3. /\ IsFrame(w) /\ w.op = "create" /\ w.sym = s /\ w.left = l /\ w.buffered = b /\ w.pc = p
    BY <2>1, IdleIsFrame, FrameStarted DEF IsFrame
  <2> QED BY <2>2, <2>3 DEF l
<1>4. LeftOK(w)
  <2> HIDE DEF w
  <2>1. w.left[1] = Normalised(s)
    BY <1>3
  <2>2. SameKey(w.left[1], Normalised(w.sym))
    BY <1>3, <2>1 DEF SameKey
  <2> QED BY <1>2, <1>3, <2>1, <2>2 DEF LeftOK
<1> HIDE DEF w
<1>5. /\ frame'[h] = w /\ \A g \in Handle \ {h} : frame'[g] = frame[g]
      /\ frame' = [g \in Handle |-> frame'[g]]
  BY <1>1 DEF Inv2, Functions2
<1>6. StoredNow(h) /\ PublishedNow(h)
  BY <1>1 DEF StoredNow, Returns, PublishedNow, Idle
<1>7. CASE b /\ ~buffering[h]
  <2>1. /\ txn' = [txn EXCEPT ![h] = "deferred"]
        /\ buffering' = [buffering EXCEPT ![h] = TRUE]
        /\ batch' = [batch EXCEPT ![h] = {}]
    BY <1>7 DEF Create
  <2>2. /\ buffering'[h] = TRUE /\ batch'[h] = {}
        /\ batch' = [g \in Handle |-> batch'[g]]
        /\ \A g \in Handle \ {h} :
             txn'[g] = txn[g] /\ buffering'[g] = buffering[g] /\ batch'[g] = batch[g]
    BY <2>1 DEF Inv, Shape, Inv2, Functions2
  <2>3. FrameOK(h)'
    BY <1>2, <1>3, <1>4, <1>5, <2>2 DEF FrameOK, Creating
  <2>4. BatchOK(h)' /\ Functions2'
    BY <1>1, <1>5, <2>2 DEF BatchOK, Inv2, Functions2
  <2> QED BY <1>1, <1>5, <1>6, <2>2, <2>3, <2>4 DEF Keeps, OthersKeep
<1>8. CASE ~(b /\ ~buffering[h])
  <2>1. txn' = txn /\ buffering' = buffering /\ batch' = batch
    BY <1>8 DEF Create
  <2>2. FrameOK(h)'
    BY <1>2, <1>3, <1>4, <1>5, <1>8, <2>1 DEF FrameOK, Creating
  <2>3. OwnGrows(h)
    BY <1>1, <2>1, UntouchedSeen, TableGrownReflexive DEF OwnGrows, stored
  <2>4. BatchOK(h)' /\ Functions2'
    BY <1>1, <1>5, <2>1, <2>3, BatchStays DEF Inv2, Functions2
  <2> QED BY <1>1, <1>5, <1>6, <2>1, <2>2, <2>4 DEF Keeps, OthersKeep
<1> QED BY <1>7, <1>8

LEMMA FlushKeeps ==
  ASSUME Inv, Inv2, NEW h \in Handle, Flush(h)
  PROVE  Keeps(h)
<1> DEFINE w == [IdleFrame EXCEPT !.op = "flush", !.pc = "mark", !.column = 1]
<1>1. /\ Idle(h) /\ frame' = [frame EXCEPT ![h] = w] /\ UNCHANGED stored
      /\ buffering' = buffering /\ batch' = batch /\ rc' = rc
  BY DEF Flush, Call
<1>2. w = [IdleFrame EXCEPT !.op = "flush", !.pc = "mark", !.column = 1]
  OBVIOUS
<1> HIDE DEF w
<1>8. IsFrame(w) /\ w.pc = "mark" /\ w.op = "flush" /\ ~w.buffered
  BY <1>2, IdleIsFrame DEF IsFrame
<1>3. /\ frame'[h] = w /\ \A g \in Handle \ {h} : frame'[g] = frame[g]
      /\ Functions2'
  BY <1>1 DEF Inv2, Functions2
<1>4. Own(h)
  BY <1>1, QuietOwn
<1>5. FrameOK(h)'
  BY <1>3, <1>8 DEF FrameOK, Creating
<1>6. BatchOK(h)'
  BY <1>4, BatchStays DEF Own
<1>7. StoredNow(h) /\ PublishedNow(h)
  BY <1>1 DEF StoredNow, Returns, PublishedNow, Idle, stored
<1> QED BY <1>3, <1>4, <1>5, <1>6, <1>7 DEF Keeps, OthersKeep, Own

LEMMA AddRowKeeps ==
  ASSUME Inv, Inv2, NEW h \in Handle, NEW r, AddRow(h, r)
  PROVE  Keeps(h)
<1>1. /\ Idle(h) /\ frame' = frame /\ buffering' = buffering /\ batch' = batch
      /\ \E code : rc' = [rc EXCEPT ![h] = code]
  BY DEF AddRow, Call
<1>2. file'.symbols = file.symbols /\ Own(h) /\ FrameOK(h)'
  <2>1. CASE UNCHANGED stored
    <3>1. Own(h) /\ file' = file
      BY <1>1, <2>1, QuietOwn DEF stored
    <3> QED BY <1>1, <3>1, IdleFrameKeeps
  <2>2. CASE CanWrite(h) /\ Write(h, [Seen(h) EXCEPT !.rows = @ \cup {r}])
    <3> DEFINE c == [Seen(h) EXCEPT !.rows = @ \cup {r}]
    <3>1. c = [symbols |-> Seen(h).symbols, rows |-> Seen(h).rows \cup {r}]
      BY SeenContents DEF IsContents
    <3>2. c.symbols = Symbols(h)
      BY <3>1 DEF Symbols
    <3>3. Write(h, c)
      BY <2>2
    <3> HIDE DEF c
    <3>4. /\ OwnGrows(h)
          /\ file' = file \/ (file' = c /\ ~buffering[h] /\ Seen(h) = file)
          /\ \A g \in Handle \ {h} : txn'[g] = txn[g] /\ (Writes(txn[g]) => pending' = pending)
      BY <2>2, <3>2, <3>3, TableGrownReflexive, OwnWrite
    <3>5. file'.symbols = file.symbols
      BY <3>2, <3>4 DEF Symbols
    <3> QED BY <1>1, <3>4, <3>5, IdleFrameKeeps DEF Own
  <2> QED BY <2>1, <2>2 DEF AddRow
<1>3. Functions2' /\ BatchOK(h)'
  BY <1>1, <1>2, BatchStays DEF Inv2, Functions2, Own
<1>4. StoredNow(h) /\ PublishedNow(h)
  BY <1>1, <1>2 DEF StoredNow, Returns, PublishedNow, Idle
<1> QED BY <1>1, <1>2, <1>3, <1>4 DEF Keeps, OthersKeep, Own

LEMMA ConfigureKeeps ==
  ASSUME Inv, Inv2, NEW h \in Handle, NEW c, Configure(h, c)
  PROVE  Keeps(h)
<1>1. /\ Idle(h) /\ frame' = frame /\ buffering' = buffering /\ batch' = batch /\ rc' = rc
      /\ UNCHANGED stored
  BY DEF Configure
<1>2. Own(h) /\ file' = file
  BY <1>1, QuietOwn DEF stored
<1>3. Functions2' /\ BatchOK(h)' /\ FrameOK(h)'
  BY <1>1, <1>2, BatchStays, IdleFrameKeeps DEF Inv2, Functions2, Own
<1>4. StoredNow(h) /\ PublishedNow(h)
  BY <1>1, <1>2 DEF StoredNow, Returns, PublishedNow, Idle
<1> QED BY <1>1, <1>2, <1>3, <1>4 DEF Keeps, OthersKeep, Own

LEMMA ReopenKeeps ==
  ASSUME Inv, Inv2, NEW h \in Handle, Reopen(h)
  PROVE  Keeps(h)
<1>1. /\ Rollback(h)
      /\ buffering' = [buffering EXCEPT ![h] = FALSE]
      /\ frame' = [frame EXCEPT ![h] = IdleFrame]
      /\ batch' = [batch EXCEPT ![h] = {}]
      /\ rc' = [rc EXCEPT ![h] = "none"]
      /\ file' = file \/ (frame[h].pc = "mark" /\ txn[h] = "none")
  BY DEF Reopen
<1>2. /\ frame'[h] = IdleFrame /\ batch'[h] = {} /\ rc'[h] = "none" /\ Functions2'
      /\ \A g \in Handle \ {h} :
           buffering'[g] = buffering[g] /\ frame'[g] = frame[g] /\ batch'[g] = batch[g]
  BY <1>1 DEF Inv, Shape, Inv2, Functions2
<1>3. \A g \in Handle \ {h} : txn'[g] = txn[g] /\ (Writes(txn[g]) => pending' = pending)
  BY <1>1, RollbackSeen
<1>4. FrameOK(h)' /\ BatchOK(h)'
  BY <1>2, IdleFrameOK DEF BatchOK
<1>5. StoredNow(h)
  BY <1>2 DEF StoredNow, Returns, IdleFrame
<1>6. PublishedNow(h)
  <2>1. frame[h].pc = "mark" => ~frame[h].buffered
    BY DEF Inv2, FrameOK, Creating
  <2>2. txn[h] = "none" => ~buffering[h]
    BY DEF Inv, BufferingMeansTransaction
  <2> QED BY <1>1, <2>1, <2>2 DEF PublishedNow, Idle
<1> QED BY <1>2, <1>3, <1>4, <1>5, <1>6 DEF Keeps, OthersKeep

-----------------------------------------------------------------------------
LEMMA EnterKeeps ==
  ASSUME Inv, Inv2, NEW h \in Handle, Enter(h)
  PROVE  Keeps(h)
<1>1. ASSUME NEW c \in Creates, Create(h, c[2], c[3]) PROVE Keeps(h)
  <2>1. c[2] \in Token /\ c[3] \in BOOLEAN
    BY SymbolTableAssumption
  <2> QED BY <1>1, <2>1, CreateKeeps
<1> QED BY <1>1, FlushKeeps, AddRowKeeps, ConfigureKeeps, ReopenKeeps DEF Enter

LEMMA StepKeeps ==
  ASSUME Inv, Inv2, NEW h \in Handle, Step(h)
  PROVE  Keeps(h)
BY FindViramaKeeps, CheckKeeps, InsertKeeps, MarkKeeps, StampKeeps, CommitKeeps, VacuumKeeps
   DEF Step

PublishedSomewhere ==
  file'.symbols # file.symbols =>
    \E h \in Handle :
      \/ frame[h].op = "flush" /\ frame[h].pc = "commit" /\ file' = pending
      \/ ~frame[h].buffered /\ ~buffering[h] /\ ~Idle(h)

Promises == (\A h \in Handle : StoredNow(h)) /\ PublishedSomewhere

LEMMA NextInv2 == Inv /\ Inv2 /\ [Next]_vars => Inv2' /\ Promises
<1> SUFFICES ASSUME Inv, Inv2, [Next]_vars PROVE Inv2' /\ Promises
  OBVIOUS
<1>1. FileGrows
  BY NextInv
<1>2. CASE UNCHANGED vars
  <2>1. /\ frame' = frame /\ batch' = batch /\ rc' = rc /\ buffering' = buffering
        /\ UNCHANGED stored
    BY <1>2 DEF vars, stored
  <2>3. ASSUME NEW g \in Handle PROVE FrameOK(g)' /\ BatchOK(g)'
    <3>1. FrameOK(g) /\ BatchOK(g)
      BY DEF Inv2
    <3>2. Symbols(g)' = Symbols(g)
      BY <2>1, UntouchedSeen
    <3>3. FrameOK(g)'
      BY <2>1, <3>1, <3>2 DEF FrameOK, IsFrame, IsToken, LeftOK, SameKey
    <3>4. BatchOK(g)'
      BY <2>1, <3>1, <3>2 DEF BatchOK
    <3> QED BY <3>3, <3>4
  <2>4. Inv2'
    BY <2>1, <2>3 DEF Inv2, Functions2
  <2>2. Promises
    BY <1>2 DEF vars, Promises, PublishedSomewhere, StoredNow, Returns, Idle
  <2> QED BY <2>2, <2>4
<1>3. ASSUME NEW h \in Handle, Keeps(h) PROVE Inv2' /\ Promises
  <2>1. \A g \in Handle \ {h} : FrameOK(g)' /\ BatchOK(g)'
    BY <1>1, <1>3, OthersOK DEF Keeps
  <2>2. Inv2'
    BY <1>3, <2>1 DEF Keeps, Inv2
  <2>3. \A g \in Handle \ {h} : StoredNow(g)
    BY <1>3 DEF Keeps, OthersKeep, StoredNow, Returns, Idle
  <2>4. Promises
    BY <1>3, <2>3 DEF Keeps, Promises, PublishedSomewhere, PublishedNow
  <2> QED BY <2>2, <2>4
<1>4. CASE Next
  BY <1>3, <1>4, EnterKeeps, StepKeeps DEF Next
<1> QED BY <1>2, <1>4

LEMMA InitInv2 == Init => Inv2
<1> SUFFICES ASSUME Init PROVE Inv2
  OBVIOUS
<1>1. Functions2
  BY DEF Init, Functions2
<1>2. ASSUME NEW h \in Handle PROVE FrameOK(h) /\ BatchOK(h)
  <2>1. frame[h] = IdleFrame /\ batch[h] = {}
    BY DEF Init
  <2>2. IsFrame(frame[h]) /\ ~frame[h].buffered /\ frame[h].pc = "idle"
    BY <2>1, IdleIsFrame DEF IdleFrame
  <2> QED BY <2>1, <2>2 DEF FrameOK, BatchOK, Creating
<1> QED BY <1>1, <1>2 DEF Inv2

\* A token that varnam_create_token reported as created is in the file, as
\* already_persisted looks for it, when the call returns, or after the flush unless
\* the buffer was discarded.
THEOREM CreatedStored == Spec => CreatedIsStored
<1>1. Inv /\ Inv2 /\ [Next]_vars => [\A h \in Handle : StoredNow(h)]_vars
  BY NextInv2 DEF Promises
<1>2. Spec => [](Inv /\ Inv2)
  BY InitInv, NextInv, InitInv2, NextInv2, PTL DEF Spec
<1> QED BY <1>1, <1>2, PTL DEF Spec, CreatedIsStored, StoredNow

\* The symbols of the file change by the commit of a flush, which publishes all that
\* was buffered, or by a call that does not buffer.
THEOREM PublishedByFlush == Spec => BufferPublishedByFlush
<1>1. Inv /\ Inv2 /\ [Next]_vars => [PublishedSomewhere]_vars
  BY NextInv2 DEF Promises
<1>2. Spec => [](Inv /\ Inv2)
  BY InitInv, NextInv, InitInv2, NextInv2, PTL DEF Spec
<1> QED BY <1>1, <1>2, PTL DEF Spec, BufferPublishedByFlush, PublishedSomewhere


-----------------------------------------------------------------------------
(* Types.                                                                  *)

\* The locals the next statement of a call reads are there.
LocalsOK(f) ==
  /\ f.pc \in {"check", "insert"} => f.left # <<>>
  /\ f.pc = "mark" => f.column \in DOMAIN Columns

ContentsOK(c) == c = [symbols |-> c.symbols, rows |-> c.rows] /\ GoodTable(c.symbols) /\ c.rows \subseteq Row

CallsTyped ==
  /\ virama \in [Handle -> Text \cup {NoText}]
  /\ config \in [Handle -> Config]
  /\ frame \in [Handle -> Frames]
  /\ \A h \in Handle : LocalsOK(frame[h])
  /\ batch \in [Handle -> SUBSET Token]
  /\ rc \in [Handle -> {"none", "success", "error"}]
  /\ calls \in 0..MaxCalls /\ faults \in 0..MaxFaults

TypeInv == Inv /\ ContentsOK(file) /\ ContentsOK(pending) /\ CallsTyped

LEMMA FrameFields ==
  ASSUME NEW f \in Frames
  PROVE  /\ IsFrame(f)
         /\ f.pc \in {"idle", "virama", "check", "insert", "mark", "stamp", "commit", "vacuum"}
         /\ f.op \in {"none", "create", "flush"} /\ f.sym \in Token /\ f.left \in Seq(Token)
         /\ f.buffered \in BOOLEAN /\ f.column \in 0..3
  BY DEF Frames, IsFrame, Columns

LEMMA FrameMade ==
  ASSUME NEW f, IsFrame(f),
         f.pc \in {"idle", "virama", "check", "insert", "mark", "stamp", "commit", "vacuum"},
         f.op \in {"none", "create", "flush"}, f.sym \in Token, f.left \in Seq(Token),
         f.buffered \in BOOLEAN, f.column \in 0..3
  PROVE  f \in Frames
  BY DEF Frames, IsFrame, Columns

\* The updates of a frame.
LEMMA FrameUpdates ==
  ASSUME NEW f, IsFrame(f), NEW pc, NEW left, NEW column
  PROVE  /\ [f EXCEPT !.pc = pc] = [pc |-> pc, op |-> f.op, sym |-> f.sym, left |-> f.left,
                                    buffered |-> f.buffered, column |-> f.column]
         /\ [f EXCEPT !.left = left, !.pc = pc]
              = [pc |-> pc, op |-> f.op, sym |-> f.sym, left |-> left,
                 buffered |-> f.buffered, column |-> f.column]
         /\ [f EXCEPT !.pc = pc, !.left = left]
              = [pc |-> pc, op |-> f.op, sym |-> f.sym, left |-> left,
                 buffered |-> f.buffered, column |-> f.column]
         /\ [f EXCEPT !.pc = pc, !.column = column]
              = [pc |-> pc, op |-> f.op, sym |-> f.sym, left |-> f.left,
                 buffered |-> f.buffered, column |-> column]
         /\ [f EXCEPT !.column = column]
              = [pc |-> f.pc, op |-> f.op, sym |-> f.sym, left |-> f.left,
                 buffered |-> f.buffered, column |-> column]
<1>1. [f EXCEPT !.pc = pc] = [pc |-> pc, op |-> f.op, sym |-> f.sym, left |-> f.left,
                              buffered |-> f.buffered, column |-> f.column]
  <2>1. ASSUME NEW w, w = [f EXCEPT !.pc = pc]
        PROVE  w = [pc |-> pc, op |-> f.op, sym |-> f.sym, left |-> f.left,
                    buffered |-> f.buffered, column |-> f.column]
    BY <2>1 DEF IsFrame
  <2> QED BY <2>1
<1>2. [f EXCEPT !.left = left, !.pc = pc]
        = [pc |-> pc, op |-> f.op, sym |-> f.sym, left |-> left,
           buffered |-> f.buffered, column |-> f.column]
  <2>1. ASSUME NEW w, w = [f EXCEPT !.left = left, !.pc = pc]
        PROVE  w = [pc |-> pc, op |-> f.op, sym |-> f.sym, left |-> left,
                    buffered |-> f.buffered, column |-> f.column]
    BY <2>1 DEF IsFrame
  <2> QED BY <2>1
<1>3. [f EXCEPT !.pc = pc, !.left = left]
        = [pc |-> pc, op |-> f.op, sym |-> f.sym, left |-> left,
           buffered |-> f.buffered, column |-> f.column]
  <2>1. ASSUME NEW w, w = [f EXCEPT !.pc = pc, !.left = left]
        PROVE  w = [pc |-> pc, op |-> f.op, sym |-> f.sym, left |-> left,
                    buffered |-> f.buffered, column |-> f.column]
    BY <2>1 DEF IsFrame
  <2> QED BY <2>1
<1>4. [f EXCEPT !.pc = pc, !.column = column]
        = [pc |-> pc, op |-> f.op, sym |-> f.sym, left |-> f.left,
           buffered |-> f.buffered, column |-> column]
  <2>1. ASSUME NEW w, w = [f EXCEPT !.pc = pc, !.column = column]
        PROVE  w = [pc |-> pc, op |-> f.op, sym |-> f.sym, left |-> f.left,
                    buffered |-> f.buffered, column |-> column]
    BY <2>1 DEF IsFrame
  <2> QED BY <2>1
<1>5. [f EXCEPT !.column = column]
        = [pc |-> f.pc, op |-> f.op, sym |-> f.sym, left |-> f.left,
           buffered |-> f.buffered, column |-> column]
  <2>1. ASSUME NEW w, w = [f EXCEPT !.column = column]
        PROVE  w = [pc |-> f.pc, op |-> f.op, sym |-> f.sym, left |-> f.left,
                    buffered |-> f.buffered, column |-> column]
    BY <2>1 DEF IsFrame
  <2> QED BY <2>1
<1> QED BY <1>1, <1>2, <1>3, <1>4, <1>5

\* A frame that differs in where it stands, what is left and the column.
LEMMA FrameLike ==
  ASSUME NEW f \in Frames, NEW w,
         NEW pc \in {"idle", "virama", "check", "insert", "mark", "stamp", "commit", "vacuum"},
         NEW left \in Seq(Token), NEW column \in 0..3,
         w = [pc |-> pc, op |-> f.op, sym |-> f.sym, left |-> left,
              buffered |-> f.buffered, column |-> column]
  PROVE  w \in Frames /\ w.pc = pc /\ w.left = left /\ w.column = column
<1>1. /\ IsFrame(w) /\ w.pc = pc /\ w.op = f.op /\ w.sym = f.sym /\ w.left = left
      /\ w.buffered = f.buffered /\ w.column = column
  BY DEF IsFrame
<1>2. /\ f.op \in {"none", "create", "flush"} /\ f.sym \in Token /\ f.buffered \in BOOLEAN
  BY FrameFields
<1> QED BY <1>1, <1>2, FrameMade

LEMMA IdleTyped == IdleFrame \in Frames /\ LocalsOK(IdleFrame)
<1>1. <<>> \in Text /\ 0 \in Int
  BY DEF Text
<1>2. NoToken \in Token
  <2>1. "other" \in Types /\ "exact" \in {"exact", "possibility"} /\ <<>> \in Text \cup {NoText}
    BY <1>1 DEF Types
  <2> QED BY <1>1, <2>1 DEF NoToken, Token, TokenWith
<1>3. /\ IsFrame(IdleFrame) /\ IdleFrame.pc = "idle" /\ IdleFrame.op = "none"
      /\ IdleFrame.sym = NoToken /\ IdleFrame.left = <<>> /\ IdleFrame.buffered = FALSE
      /\ IdleFrame.column = 0
  BY DEF IdleFrame, IsFrame
<1>4. IdleFrame \in Frames
  <2>1. <<>> \in Seq(Token) /\ 0 \in 0..3
    OBVIOUS
  <2> QED BY <1>2, <1>3, <2>1, FrameMade
<1> QED BY <1>3, <1>4 DEF LocalsOK

\* A statement changes the contents to one of these.
Change(h, c) ==
  \/ /\ frame[h].pc = "insert"
     /\ c = [Seen(h) EXCEPT !.symbols = InsertSymbol(@, Head(frame[h].left))]
  \/ \E i \in DOMAIN Columns : \E S \in SUBSET Extended(Symbols(h), Columns[i]) :
       c = Marked(Seen(h), Columns[i], S)
  \/ \E R \in SUBSET Row : c = [symbols |-> Symbols(h), rows |-> R]

\* The file only becomes what a transaction made of it when that commits, and never
\* changes under a transaction that has read it.
StoredStep(h) ==
  /\ \/ file' = file
     \/ frame[h].pc = "commit" /\ file' = Seen(h)
     \/ ~buffering[h] /\ Change(h, file')
  /\ pending' = pending \/ pending' = EmptyContents \/ Change(h, pending')
  /\ Writes(txn'[h]) => Writes(txn[h]) \/ Change(h, pending')
  /\ file' # file => ~Others(h, {"read"})

LEMMA SeenOK ==
  ASSUME TypeInv, NEW h \in Handle
  PROVE  ContentsOK(Seen(h)) /\ Symbols(h) = Seen(h).symbols
  BY DEF TypeInv, Seen, Symbols

LEMMA QuietStored ==
  ASSUME Inv, NEW h \in Handle, Read(h) \/ UNCHANGED stored
  PROVE  StoredStep(h)
<1>1. CASE UNCHANGED stored
  BY <1>1 DEF stored, StoredStep
<1>2. CASE Read(h)
  <2>1. txn'[h] = IF txn[h] = "deferred" THEN "read" ELSE txn[h]
    BY <1>2 DEF Read, Inv, Shape
  <2> QED BY <1>2, <2>1 DEF Read, StoredStep, Writes
<1> QED BY <1>1, <1>2

LEMMA WriteStored ==
  ASSUME Inv, NEW h \in Handle, NEW c, CanWrite(h), Write(h, c), Change(h, c)
  PROVE  StoredStep(h)
<1>1. CASE txn[h] = "none"
  <2>1. file' = c /\ pending' = pending /\ txn' = txn
    BY <1>1 DEF Write
  <2>2. ~buffering[h] /\ ~Others(h, {"read"})
    BY <1>1 DEF Inv, BufferingMeansTransaction, CanWrite, CanCommit
  <2> QED BY <2>1, <2>2 DEF StoredStep
<1>2. CASE txn[h] # "none"
  BY <1>2 DEF Write, StoredStep
<1> QED BY <1>1, <1>2

LEMMA RollbackStored ==
  ASSUME Inv, NEW h \in Handle, Rollback(h),
         \/ file' = file
         \/ frame[h].pc = "commit" /\ file' = Seen(h) /\ CanCommit(h)
         \/ txn[h] = "none" /\ Change(h, file') /\ CanCommit(h)
  PROVE  StoredStep(h)
<1>1. txn'[h] = "none"
  BY DEF Rollback, Inv, Shape
<1>2. ~Writes(txn'[h])
  BY <1>1 DEF Writes
<1>3. txn[h] = "none" => ~buffering[h]
  BY DEF Inv, BufferingMeansTransaction
<1> QED BY <1>2, <1>3 DEF Rollback, StoredStep, CanCommit

LEMMA CreateFailsStored ==
  ASSUME Inv, NEW h \in Handle, CreateFails(h)
  PROVE  StoredStep(h)
  BY QuietStored, RollbackStored DEF CreateFails

LEMMA ChangeOK ==
  ASSUME TypeInv, NEW h \in Handle, NEW c, Change(h, c)
  PROVE  ContentsOK(c)
<1>1. ContentsOK(Seen(h)) /\ Symbols(h) = Seen(h).symbols
  BY SeenOK
<1>2. CASE /\ frame[h].pc = "insert"
           /\ c = [Seen(h) EXCEPT !.symbols = InsertSymbol(@, Head(frame[h].left))]
  <2> DEFINE s == Head(frame[h].left)
             u == InsertSymbol(Symbols(h), s)
  <2>1. frame[h].left \in Seq(Token) /\ frame[h].left # <<>>
    BY <1>2, FrameFields DEF TypeInv, CallsTyped, LocalsOK
  <2>2. s \in Token
    BY <2>1
  <2> HIDE DEF s
  <2>3. GoodTable(u)
    BY <1>1, <2>2, InsertGood DEF ContentsOK
  <2> HIDE DEF u
  <2>4. c = [symbols |-> u, rows |-> Seen(h).rows]
    BY <1>1, <1>2 DEF u, s, ContentsOK
  <2> QED BY <1>1, <2>3, <2>4 DEF ContentsOK
<1>3. ASSUME NEW i \in DOMAIN Columns, NEW S, c = Marked(Seen(h), Columns[i], S)
      PROVE  ContentsOK(c)
  <2> DEFINE u == MarkTexts(Symbols(h), Columns[i], S)
  <2>1. GoodTable(u)
    BY <1>1, MarkGood DEF ContentsOK
  <2>2. c = [symbols |-> u, rows |-> Seen(h).rows]
    BY <1>1, <1>3 DEF ContentsOK, Marked
  <2> HIDE DEF u
  <2> QED BY <1>1, <2>1, <2>2 DEF ContentsOK
<1>4. ASSUME NEW R \in SUBSET Row, c = [symbols |-> Symbols(h), rows |-> R]
      PROVE  ContentsOK(c)
  BY <1>1, <1>4 DEF ContentsOK
<1> QED BY <1>2, <1>3, <1>4 DEF Change

LEMMA EmptyOK == ContentsOK(EmptyContents)
<1>1. EmptyContents = [symbols |-> {}, rows |-> {}]
  BY DEF EmptyContents
<1>2. GoodTable({})
  BY DEF GoodTable, TableBounded
<1> QED BY <1>1, <1>2 DEF ContentsOK

LEMMA StoredOK ==
  ASSUME TypeInv, NEW h \in Handle, StoredStep(h)
  PROVE  ContentsOK(file)' /\ ContentsOK(pending)'
<1>1. ContentsOK(file) /\ ContentsOK(pending) /\ ContentsOK(Seen(h))
  BY SeenOK DEF TypeInv
<1>2. \A c : Change(h, c) => ContentsOK(c)
  BY ChangeOK
<1>3. ContentsOK(file')
  BY <1>1, <1>2 DEF StoredStep
<1>4. ContentsOK(pending')
  BY <1>1, <1>2, EmptyOK DEF StoredStep
<1>5. ContentsOK(file)' <=> ContentsOK(file')
  BY DEF ContentsOK
<1>6. ContentsOK(pending)' <=> ContentsOK(pending')
  BY DEF ContentsOK
<1> QED BY <1>3, <1>4, <1>5, <1>6

LEMMA StepStored ==
  ASSUME TypeInv, NEW h \in Handle, Enter(h) \/ Step(h)
  PROVE  StoredStep(h)
<1>1. ContentsOK(Seen(h)) /\ Symbols(h) = Seen(h).symbols
  BY SeenOK
<1> Inv
  BY DEF TypeInv
<1>2. ASSUME NEW r \in Row, AddRow(h, r) PROVE StoredStep(h)
  <2>1. CASE CanWrite(h) /\ Write(h, [Seen(h) EXCEPT !.rows = @ \cup {r}])
    <3> DEFINE c == [Seen(h) EXCEPT !.rows = @ \cup {r}]
    <3>1. c = [symbols |-> Symbols(h), rows |-> Seen(h).rows \cup {r}]
      BY <1>1 DEF ContentsOK
    <3>2. Seen(h).rows \cup {r} \in SUBSET Row
      BY <1>1 DEF ContentsOK
    <3> HIDE DEF c
    <3>3. Change(h, c)
      BY <3>1, <3>2 DEF Change
    <3> QED BY <2>1, <3>3, WriteStored DEF c
  <2>2. CASE UNCHANGED stored
    BY <2>2, QuietStored
  <2> QED BY <1>2, <2>1, <2>2 DEF AddRow
<1>3. CASE Reopen(h)
  <2>1. Rollback(h)
    BY <1>3 DEF Reopen
  <2>2. CASE frame[h].pc = "mark" /\ txn[h] = "none" /\ CanWrite(h)
    <3> DEFINE i == frame[h].column
    <3>1. i \in DOMAIN Columns
      BY <2>2 DEF TypeInv, CallsTyped, LocalsOK
    <3>2. Seen(h) = file
      BY <2>2 DEF Seen, Writes
    <3>3. \E S \in SUBSET Extended(Symbols(h), Columns[i]) : file' = Marked(file, Columns[i], S)
      BY <1>3, <2>2 DEF Reopen
    <3> HIDE DEF i
    <3>4. Change(h, file') /\ CanCommit(h)
      BY <2>2, <3>1, <3>2, <3>3 DEF Change, CanWrite
    <3> QED BY <2>1, <2>2, <3>4, RollbackStored
  <2>3. CASE ~(frame[h].pc = "mark" /\ txn[h] = "none" /\ CanWrite(h))
    BY <1>3, <2>1, <2>3, RollbackStored DEF Reopen
  <2> QED BY <2>2, <2>3
<1>4. CASE Enter(h) /\ ~Reopen(h)
  <2>1. ASSUME NEW s, NEW b, Create(h, s, b) PROVE StoredStep(h)
    <3>1. txn'[h] = txn[h] \/ txn'[h] = "deferred"
      BY <2>1 DEF Create, Inv, Shape
    <3> QED BY <2>1, <3>1 DEF Create, StoredStep, Writes
  <2>2. CASE Flush(h)
    BY <2>2, QuietStored DEF Flush
  <2>3. ASSUME NEW c \in RowCalls, AddRow(h, c[2]) PROVE StoredStep(h)
    BY <1>2, <2>3, SymbolTableAssumption
  <2>4. ASSUME NEW c, Configure(h, c) PROVE StoredStep(h)
    BY <2>4, QuietStored DEF Configure
  <2> QED BY <1>4, <2>1, <2>2, <2>3, <2>4 DEF Enter
<1>5. CASE FindVirama(h)
  BY <1>5, QuietStored DEF FindVirama
<1>6. CASE Check(h)
  BY <1>6, QuietStored, CreateFailsStored DEF Check
<1>7. CASE Insert(h)
  <2>1. CASE CreateFails(h)
    BY <2>1, CreateFailsStored
  <2>2. CASE ~CreateFails(h)
    <3> DEFINE c == [Seen(h) EXCEPT !.symbols = InsertSymbol(@, Head(frame[h].left))]
    <3>1. CanWrite(h) /\ Write(h, c) /\ frame[h].pc = "insert"
      BY <1>7, <2>2 DEF Insert
    <3>2. Change(h, c)
      BY <3>1 DEF Change
    <3> HIDE DEF c
    <3> QED BY <3>1, <3>2, WriteStored
  <2> QED BY <2>1, <2>2
<1>8. CASE Mark(h)
  <2> DEFINE i == frame[h].column
  <2>1. i \in DOMAIN Columns
    BY <1>8 DEF Mark, TypeInv, CallsTyped, LocalsOK
  <2>2. \/ UNCHANGED stored
        \/ Read(h)
        \/ \E S \in SUBSET Extended(Symbols(h), Columns[i]) :
             CanWrite(h) /\ Write(h, Marked(Seen(h), Columns[i], S))
    BY <1>8 DEF Mark
  <2>3. ASSUME NEW S \in SUBSET Extended(Symbols(h), Columns[i]),
               CanWrite(h), Write(h, Marked(Seen(h), Columns[i], S))
        PROVE  StoredStep(h)
    <3> HIDE DEF i
    <3>1. Change(h, Marked(Seen(h), Columns[i], S))
      BY <2>1 DEF Change
    <3> QED BY <2>3, <3>1, WriteStored
  <2> QED BY <2>2, <2>3, QuietStored
<1>9. CASE Stamp(h)
  <2>1. Change(h, Seen(h))
    <3>1. Seen(h) = [symbols |-> Symbols(h), rows |-> Seen(h).rows] /\ Seen(h).rows \in SUBSET Row
      BY <1>1 DEF ContentsOK
    <3> QED BY <3>1 DEF Change
  <2> QED BY <1>9, <2>1, WriteStored, QuietStored DEF Stamp
<1>10. CASE Commit(h)
  <2>1. CASE CanCommit(h) /\ file' = Seen(h) /\ Rollback(h)
    BY <1>10, <2>1, RollbackStored DEF Commit
  <2>2. CASE /\ UNCHANGED <<file, pending>>
             /\ txn' = txn \/ txn' = [txn EXCEPT ![h] = IF Writes(@) THEN "blocked" ELSE @]
    <3>1. Writes(txn'[h]) => Writes(txn[h])
      BY <2>2 DEF Inv, Shape
    <3> QED BY <2>2, <3>1 DEF StoredStep
  <2> QED BY <1>10, <2>1, <2>2 DEF Commit, stored
<1>11. CASE Vacuum(h)
  BY <1>11, QuietStored DEF Vacuum
<1> QED BY <1>3, <1>4, <1>5, <1>6, <1>7, <1>8, <1>9, <1>10, <1>11 DEF Step

-----------------------------------------------------------------------------
(* The types of what a call works with.                                    *)

LEMMA TokenMade ==
  ASSUME NEW type \in Types, NEW match \in {"exact", "possibility"}, NEW pattern \in Text,
         NEW value1 \in Text, NEW value2 \in Text \cup {NoText}, NEW priority \in Int
  PROVE  [type |-> type, match |-> match, pattern |-> pattern, value1 |-> value1,
          value2 |-> value2, priority |-> priority] \in Token
  BY DEF Token, TokenWith

LEMMA TokenUpdates ==
  ASSUME NEW s, IsToken(s), NEW p, NEW v, NEW v2
  PROVE  /\ [s EXCEPT !.value1 = v, !.value2 = v2]
              = [type |-> s.type, match |-> s.match, pattern |-> s.pattern, value1 |-> v,
                 value2 |-> v2, priority |-> s.priority]
         /\ [s EXCEPT !.type = "dead_consonant"]
              = [type |-> "dead_consonant", match |-> s.match, pattern |-> s.pattern,
                 value1 |-> s.value1, value2 |-> s.value2, priority |-> s.priority]
         /\ [s EXCEPT !.type = "dead_consonant", !.pattern = p, !.value1 = v, !.value2 = v2]
              = [type |-> "dead_consonant", match |-> s.match, pattern |-> p, value1 |-> v,
                 value2 |-> v2, priority |-> s.priority]
<1>1. [s EXCEPT !.value1 = v, !.value2 = v2]
        = [type |-> s.type, match |-> s.match, pattern |-> s.pattern, value1 |-> v,
           value2 |-> v2, priority |-> s.priority]
  <2>1. ASSUME NEW w, w = [s EXCEPT !.value1 = v, !.value2 = v2]
        PROVE  w = [type |-> s.type, match |-> s.match, pattern |-> s.pattern, value1 |-> v,
                    value2 |-> v2, priority |-> s.priority]
    BY <2>1 DEF IsToken
  <2> QED BY <2>1
<1>2. [s EXCEPT !.type = "dead_consonant"]
        = [type |-> "dead_consonant", match |-> s.match, pattern |-> s.pattern,
           value1 |-> s.value1, value2 |-> s.value2, priority |-> s.priority]
  <2>1. ASSUME NEW w, w = [s EXCEPT !.type = "dead_consonant"]
        PROVE  w = [type |-> "dead_consonant", match |-> s.match, pattern |-> s.pattern,
                    value1 |-> s.value1, value2 |-> s.value2, priority |-> s.priority]
    BY <2>1 DEF IsToken
  <2> QED BY <2>1
<1>3. [s EXCEPT !.type = "dead_consonant", !.pattern = p, !.value1 = v, !.value2 = v2]
        = [type |-> "dead_consonant", match |-> s.match, pattern |-> p, value1 |-> v,
           value2 |-> v2, priority |-> s.priority]
  <2>1. ASSUME NEW w, w = [s EXCEPT !.type = "dead_consonant", !.pattern = p, !.value1 = v, !.value2 = v2]
        PROVE  w = [type |-> "dead_consonant", match |-> s.match, pattern |-> p, value1 |-> v,
                    value2 |-> v2, priority |-> s.priority]
    BY <2>1 DEF IsToken
  <2> QED BY <2>1
<1> QED BY <1>1, <1>2, <1>3

LEMMA NormalisedTyped ==
  ASSUME NEW s \in Token
  PROVE  Normalised(s) \in Token
<1>1. /\ IsToken(s) /\ s.type \in Types /\ s.match \in {"exact", "possibility"}
      /\ s.pattern \in Text /\ s.priority \in Int
  BY TokenFields DEF Token
<1>2. <<NonJoiner>> \in Text /\ <<Joiner>> \in Text
  BY SymbolsAssumption DEF Text
<1>3. ASSUME NEW v \in Text PROVE [s EXCEPT !.value1 = v, !.value2 = v] \in Token
  <2>1. [s EXCEPT !.value1 = v, !.value2 = v]
          = [type |-> s.type, match |-> s.match, pattern |-> s.pattern, value1 |-> v,
             value2 |-> v, priority |-> s.priority]
    <3>1. IsToken(s)
      BY <1>1
    <3> QED BY <3>1, TokenUpdates
  <2> QED BY <1>1, <2>1, TokenMade
<1> QED BY <1>2, <1>3 DEF Normalised

LEMMA FrontOfText ==
  ASSUME NEW p \in Text
  PROVE  Front(p) \in Text
<1>1. p \in Seq(Char) /\ Len(p) \in Nat
  BY DEF Text
<1>2. \A i \in 1..(Len(p) - 1) : p[i] \in Char
  BY <1>1
<1>3. SubSeq(p, 1, Len(p) - 1) \in Seq(Char)
  BY <1>1, <1>2, SubSeqProperties
<1> QED BY <1>3 DEF Front, Text

LEMMA WithViramaTyped ==
  ASSUME NEW f \in Frames, NEW v \in Text
  PROVE  WithViramaText(f, v) \in Frames /\ LocalsOK(WithViramaText(f, v))
<1>1. /\ IsFrame(f) /\ f.op \in {"none", "create", "flush"} /\ f.sym \in Token
      /\ f.buffered \in BOOLEAN /\ f.column \in 0..3
  BY FrameFields
<1> DEFINE s == f.sym
<1>2. /\ IsToken(s) /\ s.type \in Types /\ s.match \in {"exact", "possibility"}
      /\ s.pattern \in Text /\ s.value1 \in Text /\ s.value2 \in Text \cup {NoText} /\ s.priority \in Int
  BY <1>1, TokenFields DEF Token
<1> HIDE DEF s
<1>3. DeadTwin(s, v) \in Token
  <2> DEFINE value2 == IF s.value2 = NoText THEN <<>> ELSE s.value2 \o v
             value1 == s.value1 \o v
             pattern == Front(s.pattern)
  <2>1. value1 \in Text /\ value2 \in Text
    BY <1>2 DEF Text
  <2>2. pattern \in Text
    BY <1>2, FrontOfText
  <2>3. DeadTwin(s, v)
          = [type |-> "dead_consonant", match |-> s.match, pattern |-> pattern, value1 |-> value1,
             value2 |-> value2, priority |-> s.priority]
    <3>1. IsToken(s)
      BY <1>2
    <3>2. DeadTwin(s, v) = [s EXCEPT !.type = "dead_consonant", !.pattern = pattern,
                                     !.value1 = value1, !.value2 = value2]
      BY DEF DeadTwin
    <3> HIDE DEF value1, value2, pattern
    <3> QED BY <3>1, <3>2, TokenUpdates
  <2>4. "dead_consonant" \in Types
    BY DEF Types
  <2> HIDE DEF value1, value2, pattern
  <2> QED BY <1>2, <2>1, <2>2, <2>3, <2>4, TokenMade
<1>4. WithVirama(s, v) \in Token
  <2>1. [s EXCEPT !.type = "dead_consonant"]
          = [type |-> "dead_consonant", match |-> s.match, pattern |-> s.pattern, value1 |-> s.value1,
             value2 |-> s.value2, priority |-> s.priority]
    <3>1. IsToken(s)
      BY <1>2
    <3> QED BY <3>1, TokenUpdates
  <2>2. "dead_consonant" \in Types
    BY DEF Types
  <2>3. [s EXCEPT !.type = "dead_consonant"] \in Token
    BY <1>2, <2>1, <2>2, TokenMade
  <2> QED BY <1>1, <2>3 DEF WithVirama, s
<1> DEFINE left == IF HasTwin(s, v) THEN <<DeadTwin(s, v), s>> ELSE <<WithVirama(s, v)>>
<1>5. left \in Seq(Token) /\ left # <<>>
  <2>1. s \in Token
    BY <1>1 DEF s
  <2> QED BY <1>3, <1>4, <2>1
<1>6. WithViramaText(f, v) = [f EXCEPT !.pc = "check", !.left = left]
  BY DEF WithViramaText, s
<1> HIDE DEF left
<1>7. [f EXCEPT !.pc = "check", !.left = left]
        = [pc |-> "check", op |-> f.op, sym |-> f.sym, left |-> left, buffered |-> f.buffered,
           column |-> f.column]
  <2>1. IsFrame(f)
    BY <1>1
  <2> QED BY <2>1, FrameUpdates
<1> DEFINE w == WithViramaText(f, v)
<1>8. w \in Frames /\ w.pc = "check" /\ w.left = left
  <2> HIDE DEF w
  <2> QED BY <1>1, <1>5, <1>6, <1>7, FrameLike DEF w
<1> QED BY <1>5, <1>8 DEF LocalsOK

\* The virama that is found has a value.
LEMMA FirstViramaTyped ==
  ASSUME NEW t, GoodTable(t), Viramas(t) # {}
  PROVE  FirstVirama(t) \in Text
<1> DEFINE vs == Viramas(t)
           ids == {r.id : r \in vs}
<1>1. vs \subseteq t /\ vs # {}
  BY DEF Viramas
<1>2. \A r \in vs : r.id \in Nat /\ r.sym \in TokenWith(Text)
  BY <1>1, RowFields DEF GoodTable
<1> HIDE DEF vs
<1>3. ids \in SUBSET Nat /\ ids # {}
  BY <1>1, <1>2
<1>4. PICK m \in ids : \A n \in ids : m <= n
  <2> HIDE DEF ids
  <2> QED BY <1>3, LeastNumber
<1>5. \E r \in vs : \A q \in vs : r.id <= q.id
  BY <1>4
<1> DEFINE v == CHOOSE r \in vs : \A q \in vs : r.id <= q.id
<1>6. v \in vs
  BY <1>5
<1>7. FirstVirama(t) = v.sym.value1
  BY DEF FirstVirama, vs
<1> HIDE DEF v
<1> QED BY <1>2, <1>6, <1>7, TokenFields

-----------------------------------------------------------------------------
(* Every step keeps them.                                                  *)

LEMMA ContinueTyped ==
  ASSUME CallsTyped, NEW h \in Handle, NEW f \in Frames, LocalsOK(f), Continue(h, f),
         UNCHANGED config, virama' \in [Handle -> Text \cup {NoText}],
         batch' \in [Handle -> SUBSET Token], faults' \in 0..MaxFaults
  PROVE  CallsTyped'
<1>1. frame' = [frame EXCEPT ![h] = f] /\ rc' = rc /\ calls' = calls
  BY DEF Continue
<1>2. frame' \in [Handle -> Frames] /\ \A g \in Handle : LocalsOK(frame'[g])
  BY <1>1 DEF CallsTyped
<1>3. \A g \in Handle : LocalsOK(frame[g])'
  BY <1>2 DEF LocalsOK
<1> QED BY <1>1, <1>2, <1>3 DEF CallsTyped

LEMMA ReturnTyped ==
  ASSUME CallsTyped, NEW h \in Handle, NEW code \in {"success", "error"}, Return(h, code),
         UNCHANGED config, virama' \in [Handle -> Text \cup {NoText}],
         batch' \in [Handle -> SUBSET Token], faults' \in 0..MaxFaults
  PROVE  CallsTyped'
<1>1. frame' = [frame EXCEPT ![h] = IdleFrame] /\ rc' = [rc EXCEPT ![h] = code] /\ calls' = calls
  BY DEF Return
<1>2. frame' \in [Handle -> Frames] /\ \A g \in Handle : LocalsOK(frame'[g])
  BY <1>1, IdleTyped DEF CallsTyped
<1>3. \A g \in Handle : LocalsOK(frame[g])'
  BY <1>2 DEF LocalsOK
<1>4. rc' \in [Handle -> {"none", "success", "error"}]
  BY <1>1 DEF CallsTyped
<1> QED BY <1>1, <1>2, <1>3, <1>4 DEF CallsTyped

LEMMA FaultTyped ==
  ASSUME CallsTyped, UNCHANGED faults \/ \E kind : Fault(kind)
  PROVE  faults' \in 0..MaxFaults
<1>1. faults \in 0..MaxFaults /\ MaxFaults \in Nat
  BY SymbolTableAssumption DEF CallsTyped
<1> QED BY <1>1 DEF Fault

LEMMA CreateFailsTyped ==
  ASSUME CallsTyped, NEW h \in Handle, CreateFails(h), UNCHANGED <<config, virama>>,
         faults' \in 0..MaxFaults
  PROVE  CallsTyped'
<1>1. Return(h, "error")
  BY DEF CreateFails
<1>2. batch' \in [Handle -> SUBSET Token]
  BY DEF CreateFails, CallsTyped
<1>3. virama' \in [Handle -> Text \cup {NoText}]
  BY DEF CallsTyped
<1> QED BY <1>1, <1>2, <1>3, ReturnTyped

LEMMA PcTyped ==
  ASSUME NEW f \in Frames,
         NEW pc \in {"idle", "virama", "insert", "stamp", "commit", "vacuum"},
         pc # "insert" \/ f.left # <<>>
  PROVE  [f EXCEPT !.pc = pc] \in Frames /\ LocalsOK([f EXCEPT !.pc = pc])
<1> DEFINE w == [f EXCEPT !.pc = pc]
<1>1. IsFrame(f) /\ f.left \in Seq(Token) /\ f.column \in 0..3
  BY FrameFields
<1>2. w = [pc |-> pc, op |-> f.op, sym |-> f.sym, left |-> f.left, buffered |-> f.buffered,
           column |-> f.column]
  <2>1. IsFrame(f)
    BY <1>1
  <2> QED BY <2>1, FrameUpdates
<1> HIDE DEF w
<1>3. w \in Frames /\ w.pc = pc /\ w.left = f.left
  BY <1>1, <1>2, FrameLike
<1>4. LocalsOK(w)
  BY <1>3 DEF LocalsOK
<1> QED BY <1>3, <1>4 DEF w

LEMMA RestOf ==
  ASSUME NEW S, NEW s \in Seq(S), Len(s) > 1
  PROVE  Tail(s) \in Seq(S) /\ Tail(s) # <<>>
<1>1. s # <<>> /\ Len(s) \in Nat
  BY EmptySeq, LenProperties
<1>2. Tail(s) \in Seq(S) /\ Len(Tail(s)) = Len(s) - 1
  BY <1>1, HeadTailProperties
<1>3. Len(Tail(s)) # 0
  BY <1>1, <1>2
<1> QED BY <1>2, <1>3, EmptySeq

LEMMA TokenDoneTyped ==
  ASSUME CallsTyped, NEW h \in Handle, frame[h].left # <<>>, TokenDone(h),
         UNCHANGED <<config, virama>>, faults' \in 0..MaxFaults
  PROVE  CallsTyped'
<1> DEFINE f == frame[h]
<1>1. f \in Frames /\ LocalsOK(f)
  BY DEF CallsTyped
<1>2. /\ IsFrame(f) /\ f.op \in {"none", "create", "flush"} /\ f.sym \in Token
      /\ f.left \in Seq(Token) /\ f.left # <<>> /\ f.buffered \in BOOLEAN /\ f.column \in 0..3
  BY <1>1, FrameFields
<1>3. virama' \in [Handle -> Text \cup {NoText}] /\ batch \in [Handle -> SUBSET Token]
  BY DEF CallsTyped
<1>4. CASE Len(f.left) > 1
  <2> DEFINE w == [f EXCEPT !.left = Tail(@), !.pc = "check"]
  <2>1. Continue(h, w) /\ batch' = batch
    BY <1>4 DEF TokenDone
  <2> HIDE DEF f
  <2>2. Tail(f.left) \in Seq(Token) /\ Tail(f.left) # <<>>
    BY <1>2, <1>4, RestOf
  <2>3. w = [pc |-> "check", op |-> f.op, sym |-> f.sym, left |-> Tail(f.left),
             buffered |-> f.buffered, column |-> f.column]
    <3>1. IsFrame(f)
      BY <1>2
    <3> QED BY <3>1, FrameUpdates
  <2> HIDE DEF w
  <2>4. w \in Frames /\ w.pc = "check" /\ w.left = Tail(f.left)
    <3>1. "check" \in {"idle", "virama", "check", "insert", "mark", "stamp", "commit", "vacuum"}
      OBVIOUS
    <3> DEFINE rest == Tail(f.left)
    <3>2. rest \in Seq(Token) /\ f.column \in 0..3 /\ f \in Frames
      BY <1>1, <1>2, <2>2
    <3>3. w = [pc |-> "check", op |-> f.op, sym |-> f.sym, left |-> rest,
               buffered |-> f.buffered, column |-> f.column]
      BY <2>3
    <3> HIDE DEF rest
    <3>4. w \in Frames /\ w.pc = "check" /\ w.left = rest
      BY <3>1, <3>2, <3>3, FrameLike
    <3> QED BY <3>4 DEF rest
  <2>5. LocalsOK(w)
    BY <2>2, <2>4 DEF LocalsOK
  <2> QED BY <1>3, <2>1, <2>4, <2>5, ContinueTyped DEF w
<1>5. CASE ~(Len(f.left) > 1) /\ f.buffered
  <2>1. Return(h, "success") /\ batch' = [batch EXCEPT ![h] = @ \cup {Normalised(f.sym)}]
    BY <1>5 DEF TokenDone
  <2>2. batch' \in [Handle -> SUBSET Token]
    BY <1>2, <1>3, <2>1, NormalisedTyped
  <2> QED BY <1>3, <2>1, <2>2, ReturnTyped
<1>6. CASE ~(Len(f.left) > 1) /\ ~f.buffered
  <2> DEFINE w == [f EXCEPT !.pc = "mark", !.column = 1]
  <2>1. Continue(h, w) /\ batch' = batch
    BY <1>6 DEF TokenDone
  <2> HIDE DEF f
  <2>2. w = [pc |-> "mark", op |-> f.op, sym |-> f.sym, left |-> f.left,
             buffered |-> f.buffered, column |-> 1]
    <3>1. IsFrame(f)
      BY <1>2
    <3> QED BY <3>1, FrameUpdates
  <2> HIDE DEF w
  <2>3. w \in Frames /\ w.pc = "mark" /\ w.column = 1
    <3>1. 1 \in 0..3
      OBVIOUS
    <3> QED BY <1>1, <1>2, <2>2, <3>1, FrameLike
  <2>4. LocalsOK(w)
    BY <2>3 DEF LocalsOK, Columns
  <2> QED BY <1>3, <2>1, <2>3, <2>4, ContinueTyped DEF w
<1> QED BY <1>4, <1>5, <1>6

LEMMA RefusedTyped ==
  ASSUME CallsTyped, NEW allowed, Refused(allowed)
  PROVE  faults' \in 0..MaxFaults
  BY FaultTyped DEF Refused

LEMMA StepTyped ==
  ASSUME TypeInv, NEW h \in Handle, Step(h)
  PROVE  CallsTyped'
<1> DEFINE f == frame[h]
<1>1. /\ CallsTyped /\ f \in Frames /\ LocalsOK(f)
      /\ virama \in [Handle -> Text \cup {NoText}] /\ batch \in [Handle -> SUBSET Token]
      /\ faults \in 0..MaxFaults
  BY DEF TypeInv, CallsTyped
<1>2. CASE FindVirama(h)
  <2>1. UNCHANGED <<config, batch>>
    BY <1>2 DEF FindVirama
  <2>2. CASE virama[h] # NoText /\ Continue(h, WithViramaText(f, virama[h])) /\ UNCHANGED <<virama, faults>>
    <3>1. virama[h] \in Text
      BY <1>1, <2>2
    <3> HIDE DEF f
    <3> QED BY <1>1, <2>1, <2>2, <3>1, WithViramaTyped, ContinueTyped
  <2>3. CASE /\ Viramas(Symbols(h)) # {}
             /\ virama' = [virama EXCEPT ![h] = FirstVirama(Symbols(h))]
             /\ Continue(h, WithViramaText(f, FirstVirama(Symbols(h))))
             /\ UNCHANGED faults
    <3> DEFINE v == FirstVirama(Symbols(h))
    <3>1. v \in Text
      BY <2>3, SeenOK, FirstViramaTyped DEF ContentsOK
    <3> HIDE DEF v, f
    <3>2. virama' \in [Handle -> Text \cup {NoText}]
      BY <1>1, <2>3, <3>1 DEF v
    <3>3. Continue(h, WithViramaText(f, v))
      BY <2>3 DEF v
    <3> QED BY <1>1, <2>1, <2>3, <3>1, <3>2, <3>3, WithViramaTyped, ContinueTyped
  <2>4. CASE Return(h, "error") /\ UNCHANGED virama /\ (UNCHANGED faults \/ Refused(CanRead(h)))
    BY <1>1, <2>1, <2>4, ReturnTyped, RefusedTyped
  <2> QED BY <1>2, <2>2, <2>3, <2>4 DEF FindVirama
<1>3. CASE Check(h)
  <2>1. UNCHANGED <<virama, config>> /\ f.left # <<>>
    BY <1>1, <1>3 DEF Check, LocalsOK
  <2>2. CASE Continue(h, [f EXCEPT !.pc = "insert"]) /\ UNCHANGED <<batch, faults>>
    <3> HIDE DEF f
    <3>1. [f EXCEPT !.pc = "insert"] \in Frames /\ LocalsOK([f EXCEPT !.pc = "insert"])
      BY <1>1, <2>1, PcTyped
    <3> QED BY <1>1, <2>1, <2>2, <3>1, ContinueTyped
  <2>3. CASE TokenDone(h) /\ UNCHANGED faults
    BY <1>1, <2>1, <2>3, TokenDoneTyped
  <2>4. CASE CreateFails(h) /\ (UNCHANGED faults \/ Refused(CanRead(h)))
    BY <1>1, <2>1, <2>4, CreateFailsTyped, RefusedTyped
  <2> QED BY <1>3, <2>2, <2>3, <2>4 DEF Check
<1>4. CASE Insert(h)
  <2>1. UNCHANGED <<virama, config>> /\ f.left # <<>>
    BY <1>1, <1>4 DEF Insert, LocalsOK
  <2>2. CASE TokenDone(h) /\ UNCHANGED faults
    BY <1>1, <2>1, <2>2, TokenDoneTyped
  <2>3. CASE CreateFails(h) /\ Refused(CanWrite(h))
    BY <1>1, <2>1, <2>3, CreateFailsTyped, RefusedTyped
  <2> QED BY <1>4, <2>2, <2>3 DEF Insert
<1>5. CASE Mark(h)
  <2>1. UNCHANGED <<virama, config, batch>> /\ f.column \in 1..3
    BY <1>1, <1>5 DEF Mark, LocalsOK, Columns
  <2>2. CASE Continue(h, NextColumn(f)) /\ UNCHANGED faults
    <3> HIDE DEF f
    <3>1. NextColumn(f) \in Frames /\ LocalsOK(NextColumn(f))
      <4>1. CASE f.column < 3
        <5>1. NextColumn(f) = [f EXCEPT !.column = f.column + 1]
          BY <4>1 DEF NextColumn, Columns
        <5>2. NextColumn(f)
                = [pc |-> f.pc, op |-> f.op, sym |-> f.sym, left |-> f.left,
                   buffered |-> f.buffered, column |-> f.column + 1]
          <6>1. IsFrame(f)
            BY <1>1, FrameFields
          <6> QED BY <5>1, <6>1, FrameUpdates
        <5>3. f.column + 1 \in 1..3 /\ f.column + 1 \in 0..3
          BY <2>1, <4>1
        <5>4. f.pc = "mark" /\ f.left \in Seq(Token)
          BY <1>1, <1>5, FrameFields DEF Mark, f
        <5> DEFINE w == NextColumn(f)
        <5>5. w \in Frames /\ w.pc = "mark" /\ w.column = f.column + 1
          <6> HIDE DEF w
          <6> QED BY <1>1, <5>2, <5>3, <5>4, FrameLike DEF w
        <5>6. LocalsOK(w)
          BY <5>3, <5>5 DEF LocalsOK, Columns
        <5> QED BY <5>5, <5>6
      <4>2. CASE ~(f.column < 3)
        <5>1. NextColumn(f) = [f EXCEPT !.pc = "stamp"]
          BY <4>2 DEF NextColumn, Columns
        <5> QED BY <1>1, <5>1, PcTyped
      <4> QED BY <4>1, <4>2
    <3> QED BY <1>1, <2>1, <2>2, <3>1, ContinueTyped
  <2>3. CASE Return(h, "error") /\ (Refused(CanRead(h)) \/ Refused(CanWrite(h)))
    BY <1>1, <2>1, <2>3, ReturnTyped, RefusedTyped
  <2> QED BY <1>5, <2>2, <2>3 DEF Mark
<1>6. CASE Stamp(h)
  <2>1. UNCHANGED <<virama, config, batch>>
    BY <1>6 DEF Stamp
  <2>2. CASE Continue(h, [f EXCEPT !.pc = "commit"]) /\ UNCHANGED faults
    <3> HIDE DEF f
    <3>1. [f EXCEPT !.pc = "commit"] \in Frames /\ LocalsOK([f EXCEPT !.pc = "commit"])
      BY <1>1, PcTyped
    <3> QED BY <1>1, <2>1, <2>2, <3>1, ContinueTyped
  <2>3. CASE Return(h, "success") /\ UNCHANGED faults
    BY <1>1, <2>1, <2>3, ReturnTyped
  <2>4. CASE Return(h, "error") /\ Refused(CanWrite(h))
    BY <1>1, <2>1, <2>4, ReturnTyped, RefusedTyped
  <2> QED BY <1>6, <2>2, <2>3, <2>4 DEF Stamp
<1>7. CASE Commit(h)
  <2>1. UNCHANGED <<virama, config, batch>>
    BY <1>7 DEF Commit, CommitFails
  <2>2. CASE Continue(h, [f EXCEPT !.pc = "vacuum"]) /\ UNCHANGED faults
    <3> HIDE DEF f
    <3>1. [f EXCEPT !.pc = "vacuum"] \in Frames /\ LocalsOK([f EXCEPT !.pc = "vacuum"])
      BY <1>1, PcTyped
    <3> QED BY <1>1, <2>1, <2>2, <3>1, ContinueTyped
  <2>3. CASE Return(h, "error") /\ (UNCHANGED faults \/ Fault("commit"))
    BY <1>1, <2>1, <2>3, ReturnTyped, FaultTyped
  <2> QED BY <1>7, <2>2, <2>3 DEF Commit, CommitFails
<1>8. CASE Vacuum(h)
  <2>1. UNCHANGED <<virama, config, batch>>
    BY <1>8 DEF Vacuum
  <2>2. \/ Return(h, "success") /\ UNCHANGED faults
        \/ Return(h, "error") /\ Refused(CanWrite(h))
    BY <1>8 DEF Vacuum
  <2> QED BY <1>1, <2>1, <2>2, ReturnTyped, RefusedTyped
<1> QED BY <1>2, <1>3, <1>4, <1>5, <1>6, <1>7, <1>8 DEF Step

LEMMA StartCreateTyped ==
  ASSUME NEW h \in Handle, NEW s \in Token, NEW b \in BOOLEAN
  PROVE  StartCreate(h, s, b) \in Frames /\ LocalsOK(StartCreate(h, s, b))
<1> DEFINE w == StartCreate(h, s, b)
           left == <<Normalised(s)>>
           pc == IF s.type = "consonant" /\ config[h].dead THEN "virama" ELSE "check"
<1>1. IdleFrame = [pc |-> "idle", op |-> "none", sym |-> NoToken, left |-> <<>>, buffered |-> FALSE,
                   column |-> 0]
  BY DEF IdleFrame
<1>2. left \in Seq(Token) /\ left # <<>>
  BY NormalisedTyped
<1>3. w = [IdleFrame EXCEPT !.op = "create", !.sym = s, !.buffered = b, !.left = left, !.pc = pc]
  BY DEF StartCreate
<1>4. pc \in {"virama", "check"}
  OBVIOUS
<1> HIDE DEF w, left, pc
<1>5. w = [pc |-> pc, op |-> "create", sym |-> s, left |-> left, buffered |-> b, column |-> 0]
  BY <1>1, <1>3
<1>6. /\ IsFrame(w) /\ w.pc = pc /\ w.op = "create" /\ w.sym = s /\ w.left = left
      /\ w.buffered = b /\ w.column = 0
  BY <1>5 DEF IsFrame
<1>7. w \in Frames
  <2>1. 0 \in 0..3
    OBVIOUS
  <2> QED BY <1>2, <1>4, <1>6, <2>1, FrameMade
<1>8. LocalsOK(w)
  BY <1>2, <1>4, <1>6 DEF LocalsOK
<1> QED BY <1>7, <1>8 DEF w

LEMMA StartFlushTyped ==
  LET w == [IdleFrame EXCEPT !.op = "flush", !.pc = "mark", !.column = 1] IN
  w \in Frames /\ LocalsOK(w)
<1> DEFINE w == [IdleFrame EXCEPT !.op = "flush", !.pc = "mark", !.column = 1]
<1>1. IdleFrame = [pc |-> "idle", op |-> "none", sym |-> NoToken, left |-> <<>>, buffered |-> FALSE,
                   column |-> 0]
  BY DEF IdleFrame
<1>2. w = [pc |-> "mark", op |-> "flush", sym |-> IdleFrame.sym, left |-> IdleFrame.left,
           buffered |-> IdleFrame.buffered, column |-> 1]
  <2>1. ASSUME NEW f, IsFrame(f), NEW v, v = [f EXCEPT !.op = "flush", !.pc = "mark", !.column = 1]
        PROVE  v = [pc |-> "mark", op |-> "flush", sym |-> f.sym, left |-> f.left,
                    buffered |-> f.buffered, column |-> 1]
    BY <2>1 DEF IsFrame
  <2>2. IsFrame(IdleFrame)
    BY <1>1 DEF IsFrame
  <2> QED BY <2>1, <2>2
<1> HIDE DEF w
<1>3. /\ IsFrame(w) /\ w.pc = "mark" /\ w.op = "flush" /\ w.sym = IdleFrame.sym
      /\ w.left = IdleFrame.left /\ w.buffered = IdleFrame.buffered /\ w.column = 1
  BY <1>2 DEF IsFrame
<1>4. IdleFrame.sym \in Token /\ IdleFrame.left \in Seq(Token) /\ IdleFrame.buffered \in BOOLEAN
  BY IdleTyped, FrameFields
<1>5. w \in Frames
  <2>1. 1 \in 0..3
    OBVIOUS
  <2> QED BY <1>3, <1>4, <2>1, FrameMade
<1>6. LocalsOK(w)
  BY <1>3 DEF LocalsOK, Columns
<1> QED BY <1>5, <1>6 DEF w

LEMMA EnterTyped ==
  ASSUME TypeInv, NEW h \in Handle, Enter(h)
  PROVE  CallsTyped'
<1>1. /\ CallsTyped
      /\ virama \in [Handle -> Text \cup {NoText}] /\ batch \in [Handle -> SUBSET Token]
      /\ config \in [Handle -> Config] /\ frame \in [Handle -> Frames]
      /\ rc \in [Handle -> {"none", "success", "error"}]
      /\ calls \in 0..MaxCalls /\ faults \in 0..MaxFaults /\ MaxCalls \in Nat
  BY SymbolTableAssumption DEF TypeInv, CallsTyped
<1>2. ASSUME NEW c \in Creates, Create(h, c[2], c[3]) PROVE CallsTyped'
  <2> DEFINE w == StartCreate(h, c[2], c[3])
  <2>1. c[2] \in Token /\ c[3] \in BOOLEAN
    BY SymbolTableAssumption
  <2>2. w \in Frames /\ LocalsOK(w)
    BY <2>1, StartCreateTyped
  <2>3. frame' = [frame EXCEPT ![h] = w]
    BY <1>2 DEF Create
  <2> HIDE DEF w
  <2>4. frame' \in [Handle -> Frames] /\ \A g \in Handle : LocalsOK(frame'[g])
    BY <1>1, <2>2, <2>3 DEF CallsTyped
  <2>5. \A g \in Handle : LocalsOK(frame[g])'
    BY <2>4 DEF LocalsOK
  <2>6. batch' \in [Handle -> SUBSET Token]
    BY <1>1, <1>2 DEF Create
  <2>7. UNCHANGED <<virama, config, rc, faults>> /\ calls' \in 0..MaxCalls
    BY <1>1, <1>2 DEF Create, Call
  <2> QED BY <1>1, <2>4, <2>5, <2>6, <2>7 DEF CallsTyped
<1>3. CASE Flush(h)
  <2> DEFINE w == [IdleFrame EXCEPT !.op = "flush", !.pc = "mark", !.column = 1]
  <2>1. w \in Frames /\ LocalsOK(w)
    BY StartFlushTyped
  <2>2. frame' = [frame EXCEPT ![h] = w]
    BY <1>3 DEF Flush
  <2> HIDE DEF w
  <2>3. frame' \in [Handle -> Frames] /\ \A g \in Handle : LocalsOK(frame'[g])
    BY <1>1, <2>1, <2>2 DEF CallsTyped
  <2>4. \A g \in Handle : LocalsOK(frame[g])'
    BY <2>3 DEF LocalsOK
  <2>5. UNCHANGED <<virama, config, batch, rc, faults>> /\ calls' \in 0..MaxCalls
    BY <1>1, <1>3 DEF Flush, Call
  <2> QED BY <1>1, <2>3, <2>4, <2>5 DEF CallsTyped
<1>4. ASSUME NEW r, AddRow(h, r) PROVE CallsTyped'
  <2>1. UNCHANGED <<virama, config, frame, batch>> /\ calls' \in 0..MaxCalls
    BY <1>1, <1>4 DEF AddRow, Call
  <2>2. faults' \in 0..MaxFaults
    BY <1>1, <1>4, RefusedTyped DEF AddRow
  <2>3. rc' \in [Handle -> {"none", "success", "error"}]
    BY <1>1, <1>4 DEF AddRow
  <2>4. \A g \in Handle : LocalsOK(frame[g])'
    BY <1>1, <2>1 DEF LocalsOK, CallsTyped
  <2> QED BY <1>1, <2>1, <2>2, <2>3, <2>4 DEF CallsTyped
<1>5. ASSUME NEW c \in Configs, Configure(h, c[2]) PROVE CallsTyped'
  <2>1. c[2] \in Config
    BY SymbolTableAssumption
  <2>2. config' \in [Handle -> Config]
    BY <1>1, <1>5, <2>1 DEF Configure
  <2>3. UNCHANGED <<virama, frame, batch, rc, calls, faults>>
    BY <1>5 DEF Configure
  <2>4. \A g \in Handle : LocalsOK(frame[g])'
    BY <1>1, <2>3 DEF LocalsOK, CallsTyped
  <2> QED BY <1>1, <2>2, <2>3, <2>4 DEF CallsTyped
<1>6. CASE Reopen(h)
  <2>1. frame' = [frame EXCEPT ![h] = IdleFrame]
    BY <1>6 DEF Reopen
  <2>2. frame' \in [Handle -> Frames] /\ \A g \in Handle : LocalsOK(frame'[g])
    BY <1>1, <2>1, IdleTyped DEF CallsTyped
  <2>3. \A g \in Handle : LocalsOK(frame[g])'
    BY <2>2 DEF LocalsOK
  <2>4. /\ virama' \in [Handle -> Text \cup {NoText}]
        /\ batch' \in [Handle -> SUBSET Token]
        /\ rc' \in [Handle -> {"none", "success", "error"}]
    BY <1>1, <1>6 DEF Reopen
  <2>5. config' \in [Handle -> Config]
    <3>1. [dead |-> FALSE, ignore |-> TRUE] \in Config
      BY DEF Config
    <3> QED BY <1>1, <1>6, <3>1 DEF Reopen
  <2>6. calls' \in 0..MaxCalls /\ faults' = faults
    BY <1>1, <1>6 DEF Reopen
  <2> QED BY <1>1, <2>2, <2>3, <2>4, <2>5, <2>6 DEF CallsTyped
<1> QED BY <1>2, <1>3, <1>4, <1>5, <1>6 DEF Enter

LEMMA InitTyped == Init => TypeInv
<1> SUFFICES ASSUME Init PROVE TypeInv
  OBVIOUS
<1>1. Inv
  BY InitInv
<1>2. ContentsOK(file) /\ ContentsOK(pending)
  BY EmptyOK DEF Init
<1>3. CallsTyped
  <2>1. [dead |-> FALSE, ignore |-> TRUE] \in Config
    BY DEF Config
  <2> QED BY <2>1, IdleTyped, SymbolTableAssumption DEF Init, CallsTyped
<1> QED BY <1>1, <1>2, <1>3 DEF TypeInv

LEMMA NextTyped == TypeInv /\ [Next]_vars => TypeInv'
<1> SUFFICES ASSUME TypeInv, [Next]_vars PROVE TypeInv'
  OBVIOUS
<1>1. Inv'
  BY NextInv DEF TypeInv
<1>2. CASE UNCHANGED vars
  BY <1>1, <1>2 DEF vars, TypeInv, ContentsOK, CallsTyped, LocalsOK
<1>3. CASE Next
  <2>1. PICK h \in Handle : Enter(h) \/ Step(h)
    BY <1>3 DEF Next
  <2>2. ContentsOK(file)' /\ ContentsOK(pending)'
    BY <2>1, StepStored, StoredOK
  <2>3. CallsTyped'
    BY <2>1, EnterTyped, StepTyped
  <2> QED BY <1>1, <2>2, <2>3 DEF TypeInv
<1> QED BY <1>2, <1>3

LEMMA TypeInvariant == Spec => []TypeInv
  BY InitTyped, NextTyped, PTL DEF Spec

\* Every variable holds a value of its type, whatever fails: in particular an id
\* that a statement makes is a positive number, what is left to store is never
\* NULL where a text belongs, and a virama that is cached is a text.
THEOREM SymbolTypes == Spec => []TypeOK
<1>1. TypeInv => TypeOK
  <2> SUFFICES ASSUME TypeInv PROVE TypeOK
    OBVIOUS
  <2>1. file \in Contents /\ pending \in Contents
    BY DEF TypeInv, ContentsOK, GoodTable, Contents
  <2>2. /\ txn \in [Handle -> {"none", "deferred", "read", "write", "blocked"}]
        /\ buffering \in [Handle -> BOOLEAN]
    BY DEF TypeInv, Inv, Shape, TxnStates
  <2> QED BY <2>1, <2>2 DEF TypeInv, CallsTyped, TypeOK
<1> QED BY <1>1, TypeInvariant, PTL

-----------------------------------------------------------------------------
(* Flags have a reason: no statement sets one that has none, and none is   *)
(* taken back whose reason was there.                                      *)

FlagsInv == FlagsSound(file.symbols) /\ FlagsSound(pending.symbols)

LEMMA ChangeSound ==
  ASSUME TypeInv, FlagsInv, NEW h \in Handle, NEW c, Change(h, c)
  PROVE  FlagsSound(c.symbols)
<1>1. ContentsOK(Seen(h)) /\ Symbols(h) = Seen(h).symbols
  BY SeenOK
<1>2. FlagsSound(Symbols(h)) /\ \A r \in Symbols(h) : IsRow(r)
  BY <1>1, RowFields DEF FlagsInv, Symbols, Seen, ContentsOK, GoodTable
<1>3. CASE /\ frame[h].pc = "insert"
           /\ c = [Seen(h) EXCEPT !.symbols = InsertSymbol(@, Head(frame[h].left))]
  <2> DEFINE s == Head(frame[h].left)
  <2>1. c.symbols = InsertSymbol(Symbols(h), s)
    BY <1>1, <1>3 DEF ContentsOK
  <2> HIDE DEF s
  <2> QED BY <1>2, <2>1, InsertSound
<1>4. ASSUME NEW i \in DOMAIN Columns, NEW S \in SUBSET Extended(Symbols(h), Columns[i]),
             c = Marked(Seen(h), Columns[i], S)
      PROVE  FlagsSound(c.symbols)
  <2>1. c.symbols = MarkTexts(Symbols(h), Columns[i], S)
    BY <1>1, <1>4 DEF ContentsOK, Marked
  <2> QED BY <1>2, <2>1, MarkSound
<1>5. ASSUME NEW R, c = [symbols |-> Symbols(h), rows |-> R] PROVE FlagsSound(c.symbols)
  BY <1>2, <1>5
<1> QED BY <1>3, <1>4, <1>5 DEF Change

LEMMA NextSound == TypeInv /\ FlagsInv /\ [Next]_vars => FlagsInv'
<1> SUFFICES ASSUME TypeInv, FlagsInv, [Next]_vars PROVE FlagsInv'
  OBVIOUS
<1>1. CASE UNCHANGED vars
  BY <1>1 DEF vars, FlagsInv
<1>2. CASE Next
  <2>1. PICK h \in Handle : Enter(h) \/ Step(h)
    BY <1>2 DEF Next
  <2>2. StoredStep(h)
    BY <2>1, StepStored
  <2>3. \A c : Change(h, c) => FlagsSound(c.symbols)
    BY ChangeSound
  <2>4. FlagsSound(EmptyContents.symbols)
    BY DEF EmptyContents, FlagsSound
  <2>5. FlagsSound(Seen(h).symbols)
    BY DEF Seen, FlagsInv
  <2> QED BY <2>2, <2>3, <2>4, <2>5 DEF StoredStep, FlagsInv
<1> QED BY <1>1, <1>2

\* A flag of the file always has a longer symbol to look for, also when a handle
\* dies in the middle of the updates or a rollback takes back what it marked for.
THEOREM FlagsAreSound == Spec => []FlagsHaveReason
<1>1. Init => FlagsInv
  BY DEF Init, FlagsInv, EmptyContents, FlagsSound
<1>2. FlagsInv => FlagsHaveReason
  BY DEF FlagsInv, FlagsHaveReason
<1> QED BY <1>1, <1>2, NextSound, TypeInvariant, PTL DEF Spec

-----------------------------------------------------------------------------
(* How a call goes on.                                                     *)

SameCall(f, w) == w.op = f.op /\ w.sym = f.sym /\ w.buffered = f.buffered

\* From f to w while the tokens of the call are stored.
Storing(h, w) ==
  LET f == frame[h] IN
  /\ SameCall(f, w)
  /\ \/ /\ f.pc = "virama" /\ w.pc = "check"
        /\ \E v : w.left = IF HasTwin(f.sym, v) THEN <<DeadTwin(f.sym, v), f.sym>>
                           ELSE <<WithVirama(f.sym, v)>>
     \/ /\ f.pc = "check" /\ w.pc = "insert" /\ w.left = f.left
        /\ Read(h) /\ ~Persisted(Symbols(h), Head(f.left))
     \/ /\ f.pc \in {"check", "insert"} /\ w.pc = "check"
        /\ Len(f.left) > 1 /\ w.left = Tail(f.left)
     \/ w.pc = "mark" /\ w.column = 1

\* ... and while the prefix tree is made.
Marks(h, w) ==
  LET f == frame[h] IN
  /\ SameCall(f, w)
  /\ \/ /\ f.pc = "mark" /\ w.pc \in {"mark", "stamp"}
        /\ w.pc = "stamp" => f.column = 3
        /\ w.pc = "mark" => w.column = f.column + 1
        /\ buffering' = buffering
        /\ LET due == Extended(Symbols(h), Columns[f.column]) IN
           \/ due = {} /\ Read(h)
           \/ CanWrite(h) /\ Write(h, Marked(Seen(h), Columns[f.column], due))
     \/ /\ f.pc = "stamp" /\ w.pc = "commit" /\ buffering[h] /\ f.op = "flush"
        /\ CanWrite(h) /\ Write(h, Seen(h)) /\ buffering' = buffering
     \/ f.pc = "commit" /\ w.pc = "vacuum" /\ file' = Seen(h)

Moves(h, w) ==
  \/ w = frame[h] /\ w.pc = "idle"
  \/ w = IdleFrame
  \/ \E c \in Creates : c[1] = h /\ w = StartCreate(h, c[2], c[3])
  \/ w.op = "flush" /\ w.pc = "mark" /\ w.column = 1
  \/ Storing(h, w)
  \/ Marks(h, w)
LEMMA NextFrame ==
  ASSUME TypeInv, NEW h \in Handle
  PROVE  /\ \A w : Continue(h, w) => frame'[h] = w
         /\ \A code : Return(h, code) => frame'[h] = IdleFrame
         /\ IsFrame(frame[h])
<1>1. frame \in [Handle -> Frames]
  BY DEF TypeInv, CallsTyped
<1> QED BY <1>1, FrameFields DEF Continue, Return

LEMMA PcUpdated ==
  ASSUME NEW f, IsFrame(f), NEW pc, NEW w, w = [f EXCEPT !.pc = pc]
  PROVE  SameCall(f, w) /\ w.pc = pc /\ w.left = f.left
<1>1. w = [pc |-> pc, op |-> f.op, sym |-> f.sym, left |-> f.left, buffered |-> f.buffered,
           column |-> f.column]
  BY FrameUpdates
<1> QED BY <1>1 DEF SameCall

LEMMA ColumnUpdated ==
  ASSUME NEW f, IsFrame(f), NEW column, NEW w, w = [f EXCEPT !.column = column]
  PROVE  SameCall(f, w) /\ w.pc = f.pc /\ w.column = column
<1>1. w = [pc |-> f.pc, op |-> f.op, sym |-> f.sym, left |-> f.left, buffered |-> f.buffered,
           column |-> column]
  BY FrameUpdates
<1> QED BY <1>1 DEF SameCall

LEMMA StartedFrame ==
  ASSUME NEW h \in Handle, NEW s, NEW b
  PROVE  LET w == StartCreate(h, s, b) IN
         /\ w.op = "create" /\ w.sym = s /\ w.left = <<Normalised(s)>> /\ w.buffered = b
         /\ w.pc \in {"virama", "check"}
<1> DEFINE w == StartCreate(h, s, b)
           pc == IF s.type = "consonant" /\ config[h].dead THEN "virama" ELSE "check"
           left == <<Normalised(s)>>
<1>1. w = [IdleFrame EXCEPT !.op = "create", !.sym = s, !.buffered = b, !.left = left, !.pc = pc]
  BY DEF StartCreate
<1>2. pc \in {"virama", "check"}
  OBVIOUS
<1> HIDE DEF w, pc, left
<1>3. /\ w.op = "create" /\ w.sym = s /\ w.left = left /\ w.buffered = b /\ w.pc = pc
  BY <1>1, IdleIsFrame, FrameStarted DEF IsFrame
<1> QED BY <1>2, <1>3 DEF left, pc, w

LEMMA StartedFlush ==
  LET w == [IdleFrame EXCEPT !.op = "flush", !.pc = "mark", !.column = 1] IN
  w.op = "flush" /\ w.pc = "mark" /\ w.column = 1
BY DEF IdleFrame

LEMMA EnterMoves ==
  ASSUME TypeInv, NEW h \in Handle, Enter(h)
  PROVE  Moves(h, frame'[h])
<1>1. frame \in [Handle -> Frames]
  BY DEF TypeInv, CallsTyped
<1>2. ASSUME NEW c \in Creates, c[1] = h, Create(h, c[2], c[3]) PROVE Moves(h, frame'[h])
  <2> DEFINE w == StartCreate(h, c[2], c[3])
  <2>1. frame' = [frame EXCEPT ![h] = w]
    BY <1>2 DEF Create
  <2> HIDE DEF w
  <2>2. frame'[h] = w
    BY <1>1, <2>1
  <2> QED BY <1>2, <2>2 DEF Moves, w
<1>3. CASE Flush(h)
  <2> DEFINE w == [IdleFrame EXCEPT !.op = "flush", !.pc = "mark", !.column = 1]
  <2>1. frame' = [frame EXCEPT ![h] = w]
    BY <1>3 DEF Flush
  <2>2. w.op = "flush" /\ w.pc = "mark" /\ w.column = 1
    BY StartedFlush
  <2> HIDE DEF w
  <2>3. frame'[h] = w
    BY <1>1, <2>1
  <2> QED BY <2>2, <2>3 DEF Moves
<1>4. ASSUME frame' = frame, Idle(h) PROVE Moves(h, frame'[h])
  BY <1>4 DEF Moves, Idle
<1>5. ASSUME NEW r, AddRow(h, r) PROVE Moves(h, frame'[h])
  BY <1>4, <1>5 DEF AddRow, Call
<1>6. ASSUME NEW c, Configure(h, c) PROVE Moves(h, frame'[h])
  BY <1>4, <1>6 DEF Configure
<1>7. CASE Reopen(h)
  BY <1>1, <1>7 DEF Reopen, Moves
<1> QED BY <1>2, <1>3, <1>5, <1>6, <1>7 DEF Enter

LEMMA TokenDoneMoves ==
  ASSUME TypeInv, NEW h \in Handle, frame[h].pc \in {"check", "insert"}, TokenDone(h)
  PROVE  Moves(h, frame'[h])
<1> DEFINE f == frame[h]
<1>1. IsFrame(f)
  BY NextFrame
<1>2. CASE Len(f.left) > 1
  <2> DEFINE rest == Tail(f.left)
             w == [f EXCEPT !.left = rest, !.pc = "check"]
  <2>1. frame'[h] = w
    BY <1>2, NextFrame DEF TokenDone
  <2>2. SameCall(f, w) /\ w.pc = "check" /\ w.left = rest
    <3>1. w = [f EXCEPT !.left = rest, !.pc = "check"]
      OBVIOUS
    <3> HIDE DEF f, rest, w
    <3> QED BY <1>1, <3>1 DEF IsFrame, SameCall
  <2> HIDE DEF w
  <2> QED BY <1>2, <2>1, <2>2 DEF Moves, Storing
<1>3. CASE ~(Len(f.left) > 1) /\ f.buffered
  BY <1>3, NextFrame DEF TokenDone, Moves
<1>4. CASE ~(Len(f.left) > 1) /\ ~f.buffered
  <2> DEFINE w == [f EXCEPT !.pc = "mark", !.column = 1]
  <2>1. frame'[h] = w
    BY <1>4, NextFrame DEF TokenDone
  <2>2. SameCall(f, w) /\ w.pc = "mark" /\ w.column = 1
    <3>1. w = [f EXCEPT !.pc = "mark", !.column = 1]
      OBVIOUS
    <3> HIDE DEF f, w
    <3> QED BY <1>1, <3>1 DEF IsFrame, SameCall
  <2> HIDE DEF w
  <2> QED BY <2>1, <2>2 DEF Moves, Storing
<1> QED BY <1>2, <1>3, <1>4

LEMMA StepMoves ==
  ASSUME TypeInv, NEW h \in Handle, Step(h)
  PROVE  Moves(h, frame'[h])
<1> DEFINE f == frame[h]
<1>1. IsFrame(f)
  BY NextFrame
<1>2. ASSUME NEW code, Return(h, code) PROVE Moves(h, frame'[h])
  BY <1>2, NextFrame DEF Moves
<1>3. CASE FindVirama(h)
  <2>1. ASSUME NEW v, Continue(h, WithViramaText(f, v)) PROVE Moves(h, frame'[h])
    <3> DEFINE left == IF HasTwin(f.sym, v) THEN <<DeadTwin(f.sym, v), f.sym>>
                       ELSE <<WithVirama(f.sym, v)>>
               w == [f EXCEPT !.pc = "check", !.left = left]
    <3>1. frame'[h] = w
      BY <2>1, NextFrame DEF WithViramaText
    <3>2. SameCall(f, w) /\ w.pc = "check" /\ w.left = left
      <4>1. w = [f EXCEPT !.pc = "check", !.left = left]
        OBVIOUS
      <4> HIDE DEF f, left, w
      <4> QED BY <1>1, <4>1 DEF IsFrame, SameCall
    <3> HIDE DEF w
    <3>3. f.pc = "virama"
      BY <1>3 DEF FindVirama
    <3>4. Storing(h, w)
      BY <3>2, <3>3 DEF Storing
    <3> QED BY <3>1, <3>4 DEF Moves
  <2> QED BY <1>2, <1>3, <2>1 DEF FindVirama
<1>4. CASE Check(h)
  <2>1. CASE Continue(h, [f EXCEPT !.pc = "insert"]) /\ Read(h) /\ ~Persisted(Symbols(h), Head(f.left))
    <3> DEFINE w == [f EXCEPT !.pc = "insert"]
    <3>1. frame'[h] = w /\ f.pc = "check"
      BY <1>4, <2>1, NextFrame DEF Check
    <3>2. SameCall(f, w) /\ w.pc = "insert" /\ w.left = f.left
      <4>1. w = [f EXCEPT !.pc = "insert"]
        OBVIOUS
      <4> HIDE DEF f, w
      <4> QED BY <1>1, <4>1, PcUpdated
    <3> HIDE DEF w
    <3> QED BY <2>1, <3>1, <3>2 DEF Moves, Storing
  <2>2. CASE TokenDone(h)
    BY <1>4, <2>2, TokenDoneMoves DEF Check
  <2>3. CASE CreateFails(h)
    BY <1>2, <2>3 DEF CreateFails
  <2> QED BY <1>4, <2>1, <2>2, <2>3 DEF Check
<1>5. CASE Insert(h)
  <2>1. CASE TokenDone(h)
    BY <1>5, <2>1, TokenDoneMoves DEF Insert
  <2>2. CASE CreateFails(h)
    BY <1>2, <2>2 DEF CreateFails
  <2> QED BY <1>5, <2>1, <2>2 DEF Insert
<1>6. CASE Mark(h)
  <2> DEFINE due == Extended(Symbols(h), Columns[f.column])
  <2>1. CASE /\ Continue(h, NextColumn(f)) /\ buffering' = buffering
             /\ \/ due = {} /\ Read(h)
                \/ CanWrite(h) /\ Write(h, Marked(Seen(h), Columns[f.column], due))
    <3> DEFINE w == NextColumn(f)
    <3>1. frame'[h] = w /\ f.pc = "mark"
      BY <1>6, <2>1, NextFrame DEF Mark
    <3>2. f.column \in 1..3 /\ Len(Columns) = 3
      BY <3>1 DEF TypeInv, CallsTyped, LocalsOK, Columns
    <3>3. /\ SameCall(f, w) /\ w.pc \in {"mark", "stamp"}
          /\ w.pc = "stamp" => f.column = 3
          /\ w.pc = "mark" => w.column = f.column + 1
      <4>1. CASE f.column < 3
        <5>1. w = [f EXCEPT !.column = f.column + 1]
          BY <3>2, <4>1 DEF NextColumn
        <5>2. SameCall(f, w) /\ w.pc = f.pc /\ w.column = f.column + 1
          <6> HIDE DEF w, f
          <6> QED BY <1>1, <5>1, ColumnUpdated
        <5> QED BY <3>1, <5>2
      <4>2. CASE f.column = 3
        <5>1. w = [f EXCEPT !.pc = "stamp"]
          BY <3>2, <4>2 DEF NextColumn
        <5>2. SameCall(f, w) /\ w.pc = "stamp"
          <6> HIDE DEF w, f
          <6> QED BY <1>1, <5>1, PcUpdated
        <5> QED BY <4>2, <5>2
      <4> QED BY <3>2, <4>1, <4>2
    <3> HIDE DEF w
    <3>4. Marks(h, w)
      BY <2>1, <3>1, <3>3 DEF Marks
    <3> QED BY <3>1, <3>4 DEF Moves
  <2>2. CASE Return(h, "error")
    BY <1>2, <2>2
  <2> QED BY <1>6, <2>1, <2>2 DEF Mark
<1>7. CASE Stamp(h)
  <2>1. CASE /\ Continue(h, [f EXCEPT !.pc = "commit"])
             /\ f.op = "flush" /\ buffering[h] /\ CanWrite(h) /\ Write(h, Seen(h))
             /\ buffering' = buffering
    <3> DEFINE w == [f EXCEPT !.pc = "commit"]
    <3>1. frame'[h] = w /\ f.pc = "stamp"
      BY <1>7, <2>1, NextFrame DEF Stamp
    <3>2. SameCall(f, w) /\ w.pc = "commit"
      <4>1. w = [f EXCEPT !.pc = "commit"]
        OBVIOUS
      <4> HIDE DEF f, w
      <4> QED BY <1>1, <4>1, PcUpdated
    <3> HIDE DEF w
    <3> QED BY <2>1, <3>1, <3>2 DEF Moves, Marks
  <2> QED BY <1>2, <1>7, <2>1 DEF Stamp
<1>8. CASE Commit(h)
  <2>1. CASE Continue(h, [f EXCEPT !.pc = "vacuum"]) /\ file' = Seen(h)
    <3> DEFINE w == [f EXCEPT !.pc = "vacuum"]
    <3>1. frame'[h] = w /\ f.pc = "commit"
      BY <1>8, <2>1, NextFrame DEF Commit
    <3>2. SameCall(f, w) /\ w.pc = "vacuum"
      <4>1. w = [f EXCEPT !.pc = "vacuum"]
        OBVIOUS
      <4> HIDE DEF f, w
      <4> QED BY <1>1, <4>1, PcUpdated
    <3> HIDE DEF w
    <3> QED BY <2>1, <3>1, <3>2 DEF Moves, Marks
  <2> QED BY <1>2, <1>8, <2>1 DEF Commit, CommitFails
<1>9. CASE Vacuum(h)
  BY <1>2, <1>9 DEF Vacuum
<1> QED BY <1>3, <1>4, <1>5, <1>6, <1>7, <1>8, <1>9 DEF Step
-----------------------------------------------------------------------------
(* No symbol is stored twice.                                              *)
(*                                                                         *)
(* What already_persisted found not to be there is not there either when   *)
(* the insert comes: the transaction keeps the file as it was read, and    *)
(* without one nobody else stores such a symbol.                           *)

MayStore(h, p) == \E c \in Creates : c[1] = h /\ p \in Patterns(c[2])

FromClient(h) ==
  LET f == frame[h] IN
  /\ f.op = "create" => <<h, f.sym, f.buffered>> \in Creates
  /\ f.pc = "virama" => f.op = "create"
  /\ f.pc \in {"check", "insert"} =>
       f.op = "create" /\ \A i \in DOMAIN f.left : f.left[i].pattern \in Patterns(f.sym)

\* What already_persisted did not find is still not there.
Checked(h) ==
  frame[h].pc = "insert" => txn[h] # "deferred" /\ ~Persisted(Symbols(h), Head(frame[h].left))

\* u has what t has, and what h stores.
Added(h, t, u) == \A r \in u : (\E q \in t : q.sym = r.sym) \/ MayStore(h, r.sym.pattern)

PendingFrom(h) == Writes(txn[h]) => Added(h, file.symbols, pending.symbols)

UniqueInv ==
  /\ UniqueIn(file.symbols) /\ UniqueIn(pending.symbols)
  /\ \A h \in Handle : FromClient(h) /\ Checked(h) /\ PendingFrom(h)

LEMMA RestFrom ==
  ASSUME NEW S, NEW s \in Seq(S), Len(s) > 1
  PROVE  \A i \in DOMAIN Tail(s) : \E j \in DOMAIN s : Tail(s)[i] = s[j]
<1>1. s # <<>> /\ Len(s) \in Nat
  BY EmptySeq, LenProperties
<1>2. /\ Tail(s) \in Seq(S) /\ Len(Tail(s)) = Len(s) - 1
      /\ \A i \in 1..Len(Tail(s)) : Tail(s)[i] = s[i + 1]
  BY <1>1, HeadTailProperties
<1>3. DOMAIN Tail(s) = 1..Len(Tail(s)) /\ DOMAIN s = 1..Len(s)
  BY <1>2, LenProperties
<1> SUFFICES ASSUME NEW i \in DOMAIN Tail(s) PROVE \E j \in DOMAIN s : Tail(s)[i] = s[j]
  OBVIOUS
<1>4. i + 1 \in DOMAIN s /\ Tail(s)[i] = s[i + 1]
  BY <1>1, <1>2, <1>3
<1> QED BY <1>4

LEMMA HeadIn ==
  ASSUME NEW S, NEW s \in Seq(S), s # <<>>
  PROVE  \E i \in DOMAIN s : Head(s) = s[i]
<1>1. Head(s) = s[1] /\ 1 \in DOMAIN s
  BY EmptySeq, LenProperties, HeadTailProperties
<1> QED BY <1>1

\* The pattern of a token does not depend on how it is normalised.
LEMMA PatternKept ==
  ASSUME NEW s \in Token, NEW v
  PROVE  /\ Normalised(s).pattern = s.pattern /\ WithVirama(s, v).pattern = s.pattern
         /\ DeadTwin(s, v).pattern = Front(s.pattern)
<1>1. s = [type |-> s.type, match |-> s.match, pattern |-> s.pattern, value1 |-> s.value1,
           value2 |-> s.value2, priority |-> s.priority]
  BY TokenFields DEF Token, IsToken
<1> HIDE DEF Token
<1>2. \A x, y : [s EXCEPT !.value1 = x, !.value2 = y].pattern = s.pattern
  BY <1>1
<1>3. Normalised(s).pattern = s.pattern
  BY <1>2 DEF Normalised
<1>4. WithVirama(s, v).pattern = s.pattern
  BY <1>1 DEF WithVirama
<1>5. DeadTwin(s, v).pattern = Front(s.pattern)
  BY <1>1 DEF DeadTwin
<1> QED BY <1>3, <1>4, <1>5

\* What a call stores is what its client passed, or the dead consonant of it.
LEMMA FromClientStays ==
  ASSUME TypeInv, NEW h \in Handle, FromClient(h), Moves(h, frame'[h])
  PROVE  FromClient(h)'
<1> DEFINE f == frame[h]
           w == frame'[h]
<1>1. f \in Frames /\ f.sym \in Token /\ f.left \in Seq(Token)
  BY FrameFields DEF TypeInv, CallsTyped
<1>2. FromClient(h)' <=>
        /\ w.op = "create" => <<h, w.sym, w.buffered>> \in Creates
        /\ w.pc = "virama" => w.op = "create"
        /\ w.pc \in {"check", "insert"} =>
             w.op = "create" /\ \A i \in DOMAIN w.left : w.left[i].pattern \in Patterns(w.sym)
  BY DEF FromClient
<1>3. CASE w = frame[h] /\ w.pc = "idle"
  BY <1>2, <1>3 DEF FromClient
<1>4. CASE w = IdleFrame
  BY <1>2, <1>4 DEF IdleFrame
<1>5. ASSUME NEW c \in Creates, c[1] = h, w = StartCreate(h, c[2], c[3]) PROVE FromClient(h)'
  <2>1. c[2] \in Token /\ c = <<c[1], c[2], c[3]>>
    BY SymbolTableAssumption
  <2>2. /\ w.op = "create" /\ w.sym = c[2] /\ w.left = <<Normalised(c[2])>> /\ w.buffered = c[3]
        /\ w.pc \in {"virama", "check"}
    BY <1>5, StartedFrame
  <2>3. \A i \in DOMAIN w.left : w.left[i].pattern = c[2].pattern
    BY <2>1, <2>2, PatternKept
  <2>4. \A i \in DOMAIN w.left : w.left[i].pattern \in Patterns(w.sym)
    BY <2>2, <2>3 DEF Patterns
  <2> HIDE DEF w
  <2> QED BY <1>2, <1>5, <2>1, <2>2, <2>4
<1>6. CASE w.op = "flush" /\ w.pc = "mark"
  BY <1>2, <1>6
<1>7. CASE Storing(h, w)
  <2>1. w.op = f.op /\ w.sym = f.sym /\ w.buffered = f.buffered
    BY <1>7 DEF Storing, SameCall
  <2>2. ASSUME NEW v, f.pc = "virama",
               w.left = IF HasTwin(f.sym, v) THEN <<DeadTwin(f.sym, v), f.sym>>
                        ELSE <<WithVirama(f.sym, v)>>
        PROVE  \A i \in DOMAIN w.left : w.left[i].pattern \in Patterns(f.sym)
    <3> HIDE DEF f, w
    <3>1. CASE HasTwin(f.sym, v)
      <4>1. \A i \in DOMAIN w.left : w.left[i] = f.sym \/ w.left[i] = DeadTwin(f.sym, v)
        BY <2>2, <3>1
      <4>2. CanGenerateDeadConsonant(f.sym.pattern)
        BY <3>1 DEF HasTwin
      <4>3. DeadTwin(f.sym, v).pattern = Front(f.sym.pattern)
        BY <1>1, PatternKept
      <4>4. DeadTwin(f.sym, v).pattern \in Patterns(f.sym) /\ f.sym.pattern \in Patterns(f.sym)
        BY <4>2, <4>3 DEF Patterns
      <4> SUFFICES ASSUME NEW i \in DOMAIN w.left PROVE w.left[i].pattern \in Patterns(f.sym)
        OBVIOUS
      <4>5. w.left[i] = f.sym \/ w.left[i] = DeadTwin(f.sym, v)
        BY <4>1
      <4> QED BY <4>4, <4>5
    <3>2. CASE ~HasTwin(f.sym, v)
      <4>1. \A i \in DOMAIN w.left : w.left[i] = WithVirama(f.sym, v)
        BY <2>2, <3>2
      <4> QED BY <1>1, <4>1, PatternKept DEF Patterns
    <3> QED BY <3>1, <3>2
  <2>3. ASSUME f.pc \in {"check", "insert"}, w.left = f.left \/ (Len(f.left) > 1 /\ w.left = Tail(f.left))
        PROVE  \A i \in DOMAIN w.left : w.left[i].pattern \in Patterns(f.sym)
    <3>1. \A i \in DOMAIN f.left : f.left[i].pattern \in Patterns(f.sym)
      BY <2>3 DEF FromClient
    <3> DEFINE left == f.left
    <3>2. left \in Seq(Token)
      BY <1>1
    <3> HIDE DEF left
    <3>3. Len(left) > 1 => \A i \in DOMAIN Tail(left) : \E j \in DOMAIN left : Tail(left)[i] = left[j]
      BY <3>2, RestFrom
    <3> HIDE DEF f, w
    <3>4. CASE w.left = f.left
      BY <3>1, <3>4
    <3>5. CASE Len(left) > 1 /\ w.left = Tail(left)
      <4>1. \A j \in DOMAIN left : left[j].pattern \in Patterns(f.sym)
        BY <3>1 DEF left
      <4> QED BY <3>3, <3>5, <4>1
    <3> QED BY <2>3, <3>4, <3>5 DEF left
  <2>4. \/ w.pc = "mark"
        \/ /\ w.pc \in {"check", "insert"} /\ f.pc \in {"virama", "check", "insert"}
           /\ \A i \in DOMAIN w.left : w.left[i].pattern \in Patterns(f.sym)
    BY <1>7, <2>2, <2>3 DEF Storing
  <2> QED BY <1>2, <2>1, <2>4 DEF FromClient
<1>8. CASE Marks(h, w)
  BY <1>2, <1>8 DEF Marks, SameCall, FromClient
<1> QED BY <1>3, <1>4, <1>5, <1>6, <1>7, <1>8 DEF Moves
LEMMA CheckedStays ==
  ASSUME TypeInv, NEW h \in Handle, Moves(h, frame'[h])
  PROVE  Checked(h)'
<1> DEFINE f == frame[h]
           w == frame'[h]
<1> SUFFICES ASSUME w.pc = "insert"
             PROVE  txn'[h] # "deferred" /\ ~Persisted(Symbols(h)', Head(w.left))
  BY DEF Checked
<1>1. ~(w = IdleFrame)
  BY DEF IdleFrame
<1>2. \A c \in Creates : w # StartCreate(h, c[2], c[3])
  BY StartedFrame
<1>3. w.left = f.left /\ Read(h) /\ ~Persisted(Symbols(h), Head(f.left))
  BY <1>1, <1>2 DEF Moves, Storing, Marks
<1>4. Inv
  BY DEF TypeInv
<1>5. Symbols(h)' = Symbols(h)
  BY <1>3, <1>4, ReadSeen
<1>6. txn'[h] # "deferred"
  BY <1>3, <1>4 DEF Read, Inv, Shape
<1> QED BY <1>3, <1>5, <1>6

\* Rows that keep their symbols.
LEMMA AddedReflexive ==
  ASSUME NEW h, NEW t, NEW u, GrownFrom(t, u)
  PROVE  Added(h, u, t)
BY DEF Added, GrownFrom

LEMMA AddedTransitive ==
  ASSUME NEW h, NEW t, NEW u, NEW v, Added(h, t, u), Added(h, u, v)
  PROVE  Added(h, t, v)
<1> SUFFICES ASSUME NEW r \in v, ~MayStore(h, r.sym.pattern) PROVE \E q \in t : q.sym = r.sym
  BY DEF Added
<1>1. PICK p \in u : p.sym = r.sym
  BY DEF Added
<1>2. \E q \in t : q.sym = p.sym
  BY <1>1 DEF Added
<1> QED BY <1>1, <1>2

LEMMA ChangeAdds ==
  ASSUME TypeInv, UniqueInv, NEW h \in Handle, NEW c, Change(h, c)
  PROVE  UniqueIn(c.symbols) /\ Added(h, Symbols(h), c.symbols)
<1>1. ContentsOK(Seen(h)) /\ Symbols(h) = Seen(h).symbols
  BY SeenOK
<1>2. UniqueIn(Symbols(h)) /\ \A r \in Symbols(h) : IsRow(r)
  BY <1>1, RowFields DEF UniqueInv, Symbols, Seen, ContentsOK, GoodTable
<1>3. CASE /\ frame[h].pc = "insert"
           /\ c = [Seen(h) EXCEPT !.symbols = InsertSymbol(@, Head(frame[h].left))]
  <2> DEFINE s == Head(frame[h].left)
             t == Symbols(h)
  <2>1. frame[h].left \in Seq(Token) /\ frame[h].left # <<>>
    BY <1>3, FrameFields DEF TypeInv, CallsTyped, LocalsOK
  <2>2. s \in Token
    BY <2>1
  <2>3. IsToken(s) /\ s.match \in {"exact", "possibility"}
    BY <2>2, TokenFields DEF Token
  <2>4. ~Persisted(t, s)
    BY <1>3 DEF UniqueInv, Checked
  <2>5. MayStore(h, s.pattern)
    <3>1. FromClient(h)
      BY DEF UniqueInv
    <3>2. \E i \in DOMAIN frame[h].left : s = frame[h].left[i]
      BY <2>1, HeadIn
    <3>3. <<h, frame[h].sym, frame[h].buffered>> \in Creates /\ s.pattern \in Patterns(frame[h].sym)
      BY <1>3, <3>1, <3>2 DEF FromClient
    <3> QED BY <3>3 DEF MayStore
  <2>6. c.symbols = InsertSymbol(t, s)
    BY <1>1, <1>3 DEF ContentsOK
  <2> HIDE DEF s, t
  <2>7. UniqueIn(InsertSymbol(t, s))
    BY <1>2, <2>3, <2>4, InsertUnique DEF t
  <2>8. Added(h, t, InsertSymbol(t, s))
    <3>1. PICK new : /\ InsertSymbol(t, s) = t \cup {new}
                     /\ new = [id |-> NextSymbolId(t), sym |-> [s EXCEPT !.value2 = Value2Of(s)],
                               more |-> {}]
      BY InsertRow
    <3>2. new.sym.pattern = s.pattern
      BY <2>3, <3>1, StoredToken
    <3> QED BY <2>5, <3>1, <3>2 DEF Added
  <2> QED BY <2>6, <2>7, <2>8 DEF t
<1>4. ASSUME NEW i \in DOMAIN Columns, NEW S, c = Marked(Seen(h), Columns[i], S)
      PROVE  UniqueIn(c.symbols) /\ Added(h, Symbols(h), c.symbols)
  <2> DEFINE t == Symbols(h)
             u == MarkTexts(t, Columns[i], S)
  <2>1. c.symbols = u
    BY <1>1, <1>4 DEF ContentsOK, Marked
  <2>2. UniqueIn(u)
    BY <1>2, MarkUnique
  <2>3. \A m \in u : \E r \in t : MarkOf(m, r, Columns[i], S)
    BY <1>2, MarkedRows
  <2> HIDE DEF t, u
  <2>4. \A m \in u : \E r \in t : m.sym = r.sym
    BY <2>3 DEF MarkOf
  <2> QED BY <2>1, <2>2, <2>4 DEF Added, t
<1>5. ASSUME NEW R, c = [symbols |-> Symbols(h), rows |-> R]
      PROVE  UniqueIn(c.symbols) /\ Added(h, Symbols(h), c.symbols)
  BY <1>2, <1>5 DEF Added
<1> QED BY <1>3, <1>4, <1>5 DEF Change

LEMMA SeenAdded ==
  ASSUME UniqueInv, NEW h \in Handle
  PROVE  Added(h, file.symbols, Symbols(h))
BY TableGrownReflexive, AddedReflexive DEF UniqueInv, PendingFrom, Symbols, Seen

\* What a step of h does to the contents.
LEMMA StoredUnique ==
  ASSUME TypeInv, UniqueInv, NEW h \in Handle, StoredStep(h), FileGrows
  PROVE  /\ UniqueIn(file'.symbols) /\ UniqueIn(pending'.symbols)
         /\ Added(h, file.symbols, file'.symbols)
         /\ PendingFrom(h)'
<1>1. \A c : Change(h, c) => UniqueIn(c.symbols) /\ Added(h, Symbols(h), c.symbols)
  BY ChangeAdds
<1>2. Added(h, file.symbols, Symbols(h)) /\ Symbols(h) = Seen(h).symbols
  BY SeenAdded DEF Symbols
<1>3. \A c : Change(h, c) => Added(h, file.symbols, c.symbols)
  BY <1>1, <1>2, AddedTransitive
<1>4. UniqueIn(EmptyContents.symbols)
  BY DEF UniqueIn, EmptyContents
<1>5. UniqueIn(Seen(h).symbols)
  BY DEF UniqueInv, Seen
<1>6. Added(h, file.symbols, file.symbols)
  BY TableGrownReflexive, AddedReflexive
<1>7. UniqueIn(file'.symbols) /\ Added(h, file.symbols, file'.symbols)
  BY <1>1, <1>2, <1>3, <1>5, <1>6 DEF StoredStep, UniqueInv
<1>8. UniqueIn(pending'.symbols)
  BY <1>1, <1>4 DEF StoredStep, UniqueInv
<1>9. ASSUME Writes(txn'[h]) PROVE Added(h, file'.symbols, pending'.symbols)
  <2>1. Added(h, file.symbols, pending'.symbols)
    <3>1. Added(h, file.symbols, EmptyContents.symbols)
      BY DEF Added, EmptyContents
    <3>2. CASE Writes(txn[h])
      BY <1>3, <3>1, <3>2 DEF StoredStep, UniqueInv, PendingFrom
    <3>3. CASE ~Writes(txn[h])
      BY <1>3, <1>9, <3>3 DEF StoredStep
    <3> QED BY <3>2, <3>3
  <2>2. Added(h, file'.symbols, file.symbols)
    BY AddedReflexive DEF FileGrows
  <2> QED BY <2>1, <2>2, AddedTransitive
<1> QED BY <1>7, <1>8, <1>9 DEF PendingFrom

\* A step of h leaves the others what they found.
LEMMA OthersUnique ==
  ASSUME ApartUnlessBuffered, TypeInv, Inv2, UniqueInv, NEW h \in Handle, StoredStep(h), FileGrows,
         OthersKeep(h), Added(h, file.symbols, file'.symbols), NEW g \in Handle \ {h}
  PROVE  FromClient(g)' /\ Checked(g)' /\ PendingFrom(g)'
<1>1. /\ txn'[g] = txn[g] /\ (Writes(txn[g]) => pending' = pending)
      /\ buffering'[g] = buffering[g] /\ frame'[g] = frame[g]
  BY DEF OthersKeep
<1>2. FromClient(g) /\ Checked(g) /\ PendingFrom(g) /\ FrameOK(g)
  BY DEF UniqueInv, Inv2
<1>3. FromClient(g)'
  BY <1>1, <1>2 DEF FromClient
<1>4. PendingFrom(g)'
  <2>1. Added(g, file'.symbols, file.symbols)
    BY AddedReflexive DEF FileGrows
  <2> QED BY <1>1, <1>2, <2>1, AddedTransitive DEF PendingFrom
<1>5. ASSUME frame[g].pc = "insert" PROVE ~Persisted(Symbols(g)', Head(frame[g].left))
  <2> DEFINE s == Head(frame[g].left)
  <2>1. txn[g] # "deferred" /\ ~Persisted(Symbols(g), s)
    BY <1>2, <1>5 DEF Checked
  <2> HIDE DEF s
  <2>2. CASE Writes(txn[g])
    BY <1>1, <2>1, <2>2 DEF Symbols, Seen, s
  <2>3. CASE txn[g] = "read"
    <3>1. file' = file
      BY <2>3 DEF StoredStep, Others
    <3> QED BY <1>1, <2>1, <2>3, <3>1 DEF Symbols, Seen, Writes, s
  <2>4. CASE txn[g] = "none"
    <3>1. Symbols(g) = file.symbols /\ Symbols(g)' = file'.symbols
      BY <1>1, <2>4 DEF Symbols, Seen, Writes
    <3>2. ~frame[g].buffered
      BY <1>2, <2>4 DEF FrameOK, TypeInv, Inv, BufferingMeansTransaction
    <3>3. /\ <<g, frame[g].sym, frame[g].buffered>> \in Creates
          /\ \A i \in DOMAIN frame[g].left : frame[g].left[i].pattern \in Patterns(frame[g].sym)
      BY <1>2, <1>5 DEF FromClient
    <3>4. frame[g].left \in Seq(Token) /\ frame[g].left # <<>>
      BY <1>5, FrameFields DEF TypeInv, CallsTyped, LocalsOK
    <3>5. s.pattern \in Patterns(frame[g].sym)
      BY <3>3, <3>4, HeadIn DEF s
    <3>6. ~MayStore(h, s.pattern)
      BY <3>2, <3>3, <3>5 DEF ApartUnlessBuffered, MayStore
    <3>7. \A r \in file'.symbols : r.sym.pattern = s.pattern => \E q \in file.symbols : q.sym = r.sym
      BY <3>6 DEF Added
    <3>8. ~Persisted(file'.symbols, s)
      BY <2>1, <3>1, <3>7 DEF Persisted
    <3> QED BY <3>1, <3>8 DEF s
  <2>5. txn[g] \in TxnStates
    BY DEF TypeInv, Inv, Shape
  <2> QED BY <2>1, <2>2, <2>3, <2>4, <2>5 DEF TxnStates, Writes
<1>6. Checked(g)'
  BY <1>1, <1>2, <1>5 DEF Checked
<1> QED BY <1>3, <1>4, <1>6

LEMMA NextUnique ==
  ASSUME ApartUnlessBuffered
  PROVE  TypeInv /\ Inv2 /\ UniqueInv /\ [Next]_vars => UniqueInv'
<1> SUFFICES ASSUME TypeInv, Inv2, UniqueInv, [Next]_vars PROVE UniqueInv'
  OBVIOUS
<1>1. CASE UNCHANGED vars
  BY <1>1 DEF vars, UniqueInv, FromClient, Checked, PendingFrom, Added, MayStore, Symbols, Seen
<1>2. ASSUME NEW h \in Handle, Enter(h) \/ Step(h) PROVE UniqueInv'
  <2>1. Inv /\ FileGrows /\ OthersKeep(h)
    BY <1>2, NextInv, EnterKeeps, StepKeeps DEF TypeInv, Next, Keeps
  <2>2. StoredStep(h)
    BY <1>2, StepStored
  <2>3. Moves(h, frame'[h])
    BY <1>2, EnterMoves, StepMoves
  <2>4. FromClient(h)' /\ Checked(h)'
    BY <2>3, FromClientStays, CheckedStays DEF UniqueInv
  <2>5. /\ UniqueIn(file'.symbols) /\ UniqueIn(pending'.symbols)
        /\ Added(h, file.symbols, file'.symbols) /\ PendingFrom(h)'
    BY <2>1, <2>2, StoredUnique
  <2>6. \A g \in Handle \ {h} : FromClient(g)' /\ Checked(g)' /\ PendingFrom(g)'
    BY <2>1, <2>2, <2>5, OthersUnique
  <2> QED BY <2>4, <2>5, <2>6 DEF UniqueInv
<1> QED BY <1>1, <1>2 DEF Next

\* No symbol is stored twice, in the file or in a buffer, however the calls of the
\* handles interleave and fail, as long as no other handle creates what one creates
\* without buffering: already_persisted and the insert are then two transactions.
THEOREM NoSymbolTwice ==
  ASSUME ApartUnlessBuffered
  PROVE  Spec => []SymbolsUnique
<1>1. Init => UniqueInv
  <2> SUFFICES ASSUME Init PROVE UniqueInv
    OBVIOUS
  <2>1. UniqueIn(file.symbols) /\ UniqueIn(pending.symbols)
    BY DEF Init, EmptyContents, UniqueIn
  <2>2. ASSUME NEW h \in Handle PROVE FromClient(h) /\ Checked(h) /\ PendingFrom(h)
    BY DEF Init, FromClient, Checked, PendingFrom, IdleFrame, Writes
  <2> QED BY <2>1, <2>2 DEF UniqueInv
<1>2. UniqueInv => SymbolsUnique
  BY DEF UniqueInv, SymbolsUnique
<1>3. TypeInv /\ Inv2 /\ UniqueInv /\ [Next]_vars => UniqueInv'
  BY NextUnique
<1>4. Spec => []Inv2
  <2>1. Init => Inv /\ Inv2
    BY InitInv, InitInv2
  <2>2. Inv /\ Inv2 /\ [Next]_vars => (Inv /\ Inv2)'
    BY NextInv, NextInv2
  <2> QED BY <2>1, <2>2, PTL DEF Spec
<1> QED BY <1>1, <1>2, <1>3, <1>4, TypeInvariant, PTL DEF Spec
-----------------------------------------------------------------------------
(* Flags are published with the symbols that call for them.                *)
(*                                                                         *)
(* A column that has been updated needs no more flags until a symbol is    *)
(* stored, and while a handle makes the prefix tree nobody stores one      *)
(* where it looks.                                                         *)

ColumnDone(t, column) ==
  \A r \in t : r.sym[column] \in Extended(t, column) => FlagOf(column) \in r.more

\* The call has updated column i.
Updated(h, i) ==
  \/ frame[h].pc \in {"stamp", "commit"}
  \/ frame[h].pc = "mark" /\ i < frame[h].column

Progress(h) ==
  /\ frame[h].pc = "commit" => buffering[h]
  /\ \A i \in DOMAIN Columns :
       Updated(h, i) =>
         /\ txn[h] # "deferred"
         /\ buffering[h] \/ frame[h].op = "create" => ColumnDone(Symbols(h), Columns[i])

ProgressInv == \A h \in Handle : FromClient(h) /\ Progress(h)

LEMMA DoneStays ==
  ASSUME NEW t, \A r \in t : IsRow(r), NEW column, ColumnDone(t, column), NEW other, NEW S
  PROVE  ColumnDone(MarkTexts(t, other, S), column)
<1> DEFINE u == MarkTexts(t, other, S)
<1>1. \A m \in u : \E r \in t : MarkOf(m, r, other, S)
  BY MarkedRows
<1>2. Extended(u, column) = Extended(t, column)
  BY ExtendedMarked
<1> HIDE DEF u
<1>3. ASSUME NEW m \in u, m.sym[column] \in Extended(u, column) PROVE FlagOf(column) \in m.more
  <2>1. PICK r \in t : MarkOf(m, r, other, S)
    BY <1>1
  <2>2. m.sym = r.sym /\ r.more \subseteq m.more
    BY <2>1 DEF MarkOf
  <2> QED BY <1>2, <1>3, <2>2 DEF ColumnDone
<1> QED BY <1>3 DEF ColumnDone, u

LEMMA DoneByMark ==
  ASSUME NEW t, \A r \in t : IsRow(r), NEW column
  PROVE  ColumnDone(MarkTexts(t, column, Extended(t, column)), column)
<1> DEFINE due == Extended(t, column)
           u == MarkTexts(t, column, due)
<1>1. \A m \in u : \E r \in t : MarkOf(m, r, column, due)
  BY MarkedRows
<1>2. Extended(u, column) = due
  BY ExtendedMarked
<1> HIDE DEF u, due
<1>3. ASSUME NEW m \in u, m.sym[column] \in due PROVE FlagOf(column) \in m.more
  <2>1. PICK r \in t : MarkOf(m, r, column, due)
    BY <1>1
  <2> QED BY <1>3, <2>1 DEF MarkOf
<1> QED BY <1>2, <1>3 DEF ColumnDone, u, due

LEMMA NotDeferred ==
  ASSUME Inv, NEW h \in Handle, Read(h) \/ \E c : Write(h, c)
  PROVE  txn'[h] # "deferred"
<1>1. CASE Read(h)
  BY <1>1 DEF Read, Inv, Shape
<1>2. ASSUME NEW c, Write(h, c) PROVE txn'[h] # "deferred"
  BY <1>2 DEF Write, Writes, Inv, Shape
<1> QED BY <1>1, <1>2

\* The step of h itself.
LEMMA ProgressStays ==
  ASSUME TypeInv, NEW h \in Handle, Progress(h), Moves(h, frame'[h])
  PROVE  Progress(h)'
<1> DEFINE f == frame[h]
           w == frame'[h]
<1>1. Inv /\ ContentsOK(Seen(h)) /\ Symbols(h) = Seen(h).symbols
  BY SeenOK DEF TypeInv
<1>2. \A r \in Symbols(h) : IsRow(r)
  BY <1>1, RowFields DEF ContentsOK, GoodTable
<1>3. Progress(h)' <=>
        /\ w.pc = "commit" => buffering'[h]
        /\ \A i \in DOMAIN Columns :
             w.pc \in {"stamp", "commit"} \/ (w.pc = "mark" /\ i < w.column) =>
               /\ txn'[h] # "deferred"
               /\ buffering'[h] \/ w.op = "create" => ColumnDone(Symbols(h)', Columns[i])
  BY DEF Progress, Updated
<1>4. CASE w.pc \notin {"mark", "stamp", "commit"}
  BY <1>3, <1>4
<1>5. CASE w.pc = "mark" /\ w.column = 1
  <2>1. \A i \in DOMAIN Columns : ~(i < w.column)
    BY <1>5 DEF Columns
  <2> QED BY <1>3, <1>5, <2>1
<1>6. CASE /\ f.pc = "mark" /\ w.pc \in {"mark", "stamp"} /\ Marks(h, w)
  <2> DEFINE n == f.column
             due == Extended(Symbols(h), Columns[n])
  <2>1. /\ buffering' = buffering /\ w.op = f.op
        /\ w.pc = "stamp" => n = 3
        /\ w.pc = "mark" => w.column = n + 1
        /\ \/ due = {} /\ Read(h)
           \/ CanWrite(h) /\ Write(h, Marked(Seen(h), Columns[n], due))
    <3> HIDE DEF w
    <3> QED BY <1>6 DEF Marks, SameCall
  <2>2. txn'[h] # "deferred"
    BY <1>1, <2>1, NotDeferred
  <2>3. n \in 1..3 /\ DOMAIN Columns = 1..3
    BY <1>6 DEF TypeInv, CallsTyped, LocalsOK, Columns
  <2>4. ColumnDone(Symbols(h)', Columns[n])
        /\ \A i : ColumnDone(Symbols(h), Columns[i]) => ColumnDone(Symbols(h)', Columns[i])
    <3>1. CASE due = {} /\ Read(h)
      <4>1. Symbols(h)' = Symbols(h)
        BY <1>1, <3>1, ReadSeen
      <4> QED BY <3>1, <4>1 DEF ColumnDone
    <3>2. CASE CanWrite(h) /\ Write(h, Marked(Seen(h), Columns[n], due))
      <4>1. Marked(Seen(h), Columns[n], due).symbols = MarkTexts(Symbols(h), Columns[n], due)
        BY <1>1 DEF Marked, ContentsOK
      <4>2. Symbols(h)' = MarkTexts(Symbols(h), Columns[n], due)
        BY <1>1, <3>2, <4>1, WriteSeen
      <4>3. ColumnDone(MarkTexts(Symbols(h), Columns[n], due), Columns[n])
        BY <1>2, DoneByMark
      <4>4. \A i : ColumnDone(Symbols(h), Columns[i])
                    => ColumnDone(MarkTexts(Symbols(h), Columns[n], due), Columns[i])
        BY <1>2, DoneStays
      <4> QED BY <4>2, <4>3, <4>4
    <3> QED BY <2>1, <3>1, <3>2
  <2>5. ASSUME NEW i \in DOMAIN Columns,
               w.pc = "stamp" \/ (w.pc = "mark" /\ i < w.column),
               buffering[h] \/ f.op = "create"
        PROVE  ColumnDone(Symbols(h)', Columns[i])
    <3>1. i = n \/ i < n
      BY <2>1, <2>3, <2>5
    <3>2. CASE i < n
      BY <1>6, <2>4, <2>5, <3>2 DEF Progress, Updated
    <3> QED BY <2>4, <3>1, <3>2
  <2> HIDE DEF f, w
  <2> QED BY <1>3, <1>6, <2>1, <2>2, <2>5
<1>7. CASE f.pc = "stamp" /\ w.pc = "commit" /\ Marks(h, w)
  <2>1. buffering' = buffering /\ buffering[h] /\ CanWrite(h) /\ Write(h, Seen(h))
    BY <1>7 DEF Marks
  <2>2. Symbols(h)' = Symbols(h) /\ txn'[h] # "deferred"
    BY <1>1, <2>1, WriteSeen, NotDeferred
  <2>3. \A i \in DOMAIN Columns : ColumnDone(Symbols(h), Columns[i])
    BY <1>7, <2>1 DEF Progress, Updated
  <2> QED BY <1>3, <2>1, <2>2, <2>3
<1>8. \/ w.pc \notin {"mark", "stamp", "commit"}
      \/ w.pc = "mark" /\ w.column = 1
      \/ f.pc = "mark" /\ w.pc \in {"mark", "stamp"} /\ Marks(h, w)
      \/ f.pc = "stamp" /\ w.pc = "commit" /\ Marks(h, w)
  <2>1. CASE \E c \in Creates : w = StartCreate(h, c[2], c[3])
    BY <2>1, StartedFrame
  <2>2. CASE w = IdleFrame
    BY <2>2 DEF IdleFrame
  <2>3. CASE Storing(h, w)
    BY <2>3 DEF Storing
  <2>4. CASE Marks(h, w)
    BY <2>4 DEF Marks
  <2> QED BY <2>1, <2>2, <2>3, <2>4 DEF Moves
<1> QED BY <1>4, <1>5, <1>6, <1>7, <1>8

\* The steps of others.
LEMMA OthersProgress ==
  ASSUME OneUnbuffered, TypeInv, Inv2, ProgressInv, NEW h \in Handle, StoredStep(h), OthersKeep(h),
         NEW g \in Handle \ {h}
  PROVE  FromClient(g)' /\ Progress(g)'
<1>1. /\ txn'[g] = txn[g] /\ (Writes(txn[g]) => pending' = pending)
      /\ buffering'[g] = buffering[g] /\ frame'[g] = frame[g]
  BY DEF OthersKeep
<1>2. FromClient(g) /\ Progress(g) /\ FrameOK(g) /\ FromClient(h) /\ Progress(h) /\ FrameOK(h)
  BY DEF ProgressInv, Inv2
<1>3. FromClient(g)'
  BY <1>1, <1>2 DEF FromClient
<1>4. ASSUME NEW i \in DOMAIN Columns, Updated(g, i), buffering[g] \/ frame[g].op = "create"
      PROVE  ColumnDone(Symbols(g)', Columns[i])
  <2>1. txn[g] # "deferred" /\ ColumnDone(Symbols(g), Columns[i])
    BY <1>2, <1>4 DEF Progress
  <2>2. CASE Writes(txn[g])
    BY <1>1, <2>1, <2>2 DEF Symbols, Seen
  <2>3. CASE txn[g] = "read"
    <3>1. file' = file
      BY <2>3 DEF StoredStep, Others
    <3> QED BY <1>1, <2>1, <2>3, <3>1 DEF Symbols, Seen, Writes
  <2>4. CASE txn[g] = "none"
    <3>1. Symbols(g) = file.symbols /\ Symbols(g)' = file'.symbols
      BY <1>1, <2>4 DEF Symbols, Seen, Writes
    <3>2. frame[g].op = "create" /\ frame[g].pc \in {"mark", "stamp", "commit"}
      BY <1>4, <2>4 DEF Updated, TypeInv, Inv, BufferingMeansTransaction
    <3>3. <<g, frame[g].sym, frame[g].buffered>> \in Creates /\ frame[g].buffered = FALSE
      <4>1. frame[g].buffered \in BOOLEAN
        BY FrameFields DEF TypeInv, CallsTyped
      <4> QED BY <1>2, <3>2, <4>1 DEF FromClient, FrameOK, Creating
    <3>4. CASE frame[h].pc = "commit" /\ file' = Seen(h)
      <4>1. ColumnDone(Symbols(h), Columns[i])
        BY <1>2, <3>4 DEF Progress, Updated
      <4> QED BY <3>1, <3>4, <4>1 DEF Symbols
    <3>5. CASE ~buffering[h] /\ Change(h, file')
      <4>1. Symbols(h) = file.symbols /\ Seen(h) = file
        BY <3>5 DEF Symbols, Seen, Writes, TypeInv, Inv, BufferingMeansTransaction
      <4>2. frame[h].pc # "insert"
        <5> SUFFICES ASSUME frame[h].pc = "insert" PROVE FALSE
          OBVIOUS
        <5>1. <<h, frame[h].sym, frame[h].buffered>> \in Creates /\ ~frame[h].buffered
          BY <1>2, <3>5 DEF FromClient, FrameOK
        <5> QED BY <3>3, <5>1 DEF OneUnbuffered
      <4>3. CASE file'.symbols = file.symbols
        BY <2>1, <3>1, <4>3
      <4>4. ASSUME NEW j \in DOMAIN Columns, NEW S, file' = Marked(Seen(h), Columns[j], S)
            PROVE  ColumnDone(file'.symbols, Columns[i])
        <5>1. ContentsOK(file) /\ \A r \in file.symbols : IsRow(r)
          BY RowFields DEF TypeInv, ContentsOK, GoodTable
        <5>2. file'.symbols = MarkTexts(file.symbols, Columns[j], S)
          BY <4>1, <4>4, <5>1 DEF Marked, ContentsOK
        <5> QED BY <2>1, <3>1, <5>1, <5>2, DoneStays
      <4> QED BY <3>1, <3>5, <4>1, <4>2, <4>3, <4>4 DEF Change
    <3> QED BY <2>1, <3>1, <3>4, <3>5 DEF StoredStep
  <2>5. txn[g] \in TxnStates
    BY DEF TypeInv, Inv, Shape
  <2> QED BY <2>1, <2>2, <2>3, <2>4, <2>5 DEF TxnStates, Writes
<1>5. Progress(g)'
  BY <1>1, <1>2, <1>4 DEF Progress, Updated
<1> QED BY <1>3, <1>5

LEMMA NextProgress ==
  ASSUME OneUnbuffered
  PROVE  TypeInv /\ Inv2 /\ ProgressInv /\ [Next]_vars => ProgressInv'
<1> SUFFICES ASSUME TypeInv, Inv2, ProgressInv, [Next]_vars PROVE ProgressInv'
  OBVIOUS
<1>1. CASE UNCHANGED vars
  BY <1>1 DEF vars, ProgressInv, FromClient, Progress, Updated, Symbols, Seen
<1>2. ASSUME NEW h \in Handle, Enter(h) \/ Step(h) PROVE ProgressInv'
  <2>1. Inv /\ OthersKeep(h)
    BY <1>2, EnterKeeps, StepKeeps DEF TypeInv, Keeps
  <2>2. StoredStep(h)
    BY <1>2, StepStored
  <2>3. Moves(h, frame'[h])
    BY <1>2, EnterMoves, StepMoves
  <2>4. FromClient(h)' /\ Progress(h)'
    BY <2>3, FromClientStays, ProgressStays DEF ProgressInv
  <2>5. \A g \in Handle \ {h} : FromClient(g)' /\ Progress(g)'
    BY <2>1, <2>2, OthersProgress
  <2> QED BY <2>4, <2>5 DEF ProgressInv
<1> QED BY <1>1, <1>2 DEF Next

\* An unbuffered varnam_create_token reports success only from the stamp.
LEMMA SuccessAtStamp ==
  ASSUME TypeInv, Inv2, NEW h \in Handle, Enter(h) \/ Step(h), Returns(h, "success"),
         frame[h].op = "create", ~frame[h].buffered
  PROVE  frame[h].pc = "stamp" /\ Write(h, Seen(h))
<1>1. /\ frame \in [Handle -> Frames] /\ rc \in [Handle -> {"none", "success", "error"}]
      /\ FrameOK(h) /\ ~Idle(h) /\ Idle(h)' /\ rc'[h] = "success"
  BY DEF TypeInv, CallsTyped, Inv2, Returns
<1>2. ~(rc' = [rc EXCEPT ![h] = "error"]) /\ ~(rc' = [rc EXCEPT ![h] = "none"])
  BY <1>1
<1>3. ~Return(h, "error")
  BY <1>2 DEF Return
<1>4. ~Enter(h)
  BY <1>1, <1>2 DEF Enter, Create, Flush, AddRow, Configure, Reopen, Call
<1>5. ASSUME NEW w, Continue(h, w) PROVE w.pc = "idle"
  BY <1>1, <1>5, NextFrame DEF Idle
<1>6. ~TokenDone(h)
  <2> SUFFICES ASSUME TokenDone(h) PROVE FALSE
    OBVIOUS
  <2>1. IsFrame(frame[h])
    BY NextFrame
  <2> DEFINE f == frame[h]
             v == [f EXCEPT !.left = Tail(f.left), !.pc = "check"]
             w == [f EXCEPT !.pc = "mark", !.column = 1]
  <2>2. v.pc = "check" /\ w.pc = "mark"
    <3>1. v = [f EXCEPT !.left = Tail(f.left), !.pc = "check"] /\ w = [f EXCEPT !.pc = "mark", !.column = 1]
      OBVIOUS
    <3> HIDE DEF f, v, w
    <3> QED BY <2>1, <3>1 DEF IsFrame, f
  <2>3. Continue(h, v) \/ Continue(h, w)
    BY DEF TokenDone
  <2> HIDE DEF v, w
  <2> QED BY <1>5, <2>2, <2>3
<1>7. ~CreateFails(h)
  BY <1>3 DEF CreateFails
<1>8. ~Vacuum(h) /\ ~Commit(h)
  BY <1>1 DEF Vacuum, Commit, FrameOK
<1>9. ASSUME NEW v, Continue(h, WithViramaText(frame[h], v)), frame[h].pc = "virama" PROVE FALSE
  <2>1. IsFrame(frame[h]) /\ IsToken(frame[h].sym) /\ frame[h].sym.type = "consonant"
    BY <1>1, <1>9 DEF FrameOK, Creating
  <2>2. WithViramaText(frame[h], v).pc = "check"
    BY <2>1, WithViramaOK
  <2> QED BY <1>5, <1>9, <2>2
<1>10. ~FindVirama(h)
  BY <1>3, <1>9 DEF FindVirama
<1>11. ~Check(h)
  <2>1. ~Continue(h, [frame[h] EXCEPT !.pc = "insert"])
    <3> DEFINE w == [frame[h] EXCEPT !.pc = "insert"]
    <3>1. w.pc = "insert"
      BY NextFrame, PcUpdated
    <3> HIDE DEF w
    <3> QED BY <1>5, <3>1 DEF w
  <2> QED BY <1>6, <1>7, <2>1 DEF Check
<1>12. ~Insert(h)
  BY <1>6, <1>7 DEF Insert
<1>13. ~Mark(h)
  <2> SUFFICES ASSUME Mark(h) PROVE FALSE
    OBVIOUS
  <2>1. Continue(h, NextColumn(frame[h])) /\ frame[h].pc = "mark"
    BY <1>3 DEF Mark
  <2>2. NextColumn(frame[h]).pc \in {"mark", "stamp"}
    BY <2>1, NextFrame, PcUpdated, ColumnUpdated DEF NextColumn
  <2> QED BY <1>5, <2>1, <2>2
<1>14. Stamp(h)
  BY <1>4, <1>8, <1>10, <1>11, <1>12, <1>13 DEF Step
<1> QED BY <1>3, <1>14 DEF Stamp

FlagsPublishedNow(h) ==
  /\ frame[h].pc = "commit" /\ frame'[h].pc = "vacuum" => FlagsComplete(file'.symbols)
  /\ frame[h].op = "create" /\ ~frame[h].buffered /\ ~buffering[h] /\ Returns(h, "success")
       => FlagsComplete(file'.symbols)

LEMMA NextPublished ==
  ASSUME TypeInv, Inv2, ProgressInv, [Next]_vars
  PROVE  \A h \in Handle : FlagsPublishedNow(h)
<1> SUFFICES ASSUME NEW h \in Handle PROVE FlagsPublishedNow(h)
  OBVIOUS
<1>1. CASE frame'[h] = frame[h]
  BY <1>1 DEF FlagsPublishedNow, Returns, Idle
<1>2. CASE frame'[h] # frame[h]
  <2>1. Enter(h) \/ Step(h)
    <3>1. ASSUME NEW g \in Handle, g # h, Enter(g) \/ Step(g) PROVE frame'[h] = frame[h]
      BY <3>1, EnterKeeps, StepKeeps DEF TypeInv, Keeps, OthersKeep
    <3>2. ~UNCHANGED vars
      BY <1>2 DEF vars
    <3> QED BY <1>2, <3>1, <3>2 DEF Next
  <2>2. Progress(h) /\ FrameOK(h)
    BY DEF ProgressInv, Inv2
  <2>3. ASSUME frame[h].pc = "commit", frame'[h].pc = "vacuum" PROVE FlagsComplete(file'.symbols)
    <3>1. Moves(h, frame'[h])
      BY <2>1, EnterMoves, StepMoves
    <3>2. file' = Seen(h)
      <4>1. \A c \in Creates : frame'[h] # StartCreate(h, c[2], c[3])
        BY <2>3, StartedFrame
      <4> QED BY <2>3, <3>1, <4>1 DEF Moves, Storing, Marks, IdleFrame
    <3>3. \A i \in DOMAIN Columns : ColumnDone(Symbols(h), Columns[i])
      BY <2>2, <2>3 DEF Progress, Updated
    <3> QED BY <3>2, <3>3 DEF FlagsComplete, ColumnDone, Symbols
  <2>4. ASSUME frame[h].op = "create", ~frame[h].buffered, ~buffering[h], Returns(h, "success")
        PROVE  FlagsComplete(file'.symbols)
    <3>1. frame[h].pc = "stamp" /\ Write(h, Seen(h))
      BY <2>1, <2>4, SuccessAtStamp
    <3>2. file' = Seen(h)
      BY <2>4, <3>1 DEF Write, TypeInv, Inv, BufferingMeansTransaction
    <3>3. \A i \in DOMAIN Columns : ColumnDone(Symbols(h), Columns[i])
      BY <2>2, <2>4, <3>1 DEF Progress, Updated
    <3> QED BY <3>2, <3>3 DEF FlagsComplete, ColumnDone, Symbols
  <2> QED BY <2>3, <2>4 DEF FlagsPublishedNow
<1> QED BY <1>1, <1>2

\* When a flush commits, or an unbuffered varnam_create_token reports success, every
\* symbol of the file that a longer one extends has its flag, provided only one
\* handle creates without buffering: two would store symbols while the other makes
\* the prefix tree.
THEOREM PublishedWithFlags ==
  ASSUME OneUnbuffered
  PROVE  Spec => FlagsPublished
<1>1. Init => ProgressInv
  BY DEF Init, ProgressInv, FromClient, Progress, Updated, IdleFrame
<1>2. TypeInv /\ Inv2 /\ ProgressInv /\ [Next]_vars => ProgressInv'
  BY NextProgress
<1>3. TypeInv /\ Inv2 /\ ProgressInv /\ [Next]_vars => [\A h \in Handle : FlagsPublishedNow(h)]_vars
  BY NextPublished
<1>4. Spec => []Inv2
  <2>1. Init => Inv /\ Inv2
    BY InitInv, InitInv2
  <2>2. Inv /\ Inv2 /\ [Next]_vars => (Inv /\ Inv2)'
    BY NextInv, NextInv2
  <2> QED BY <2>1, <2>2, PTL DEF Spec
<1> QED BY <1>1, <1>2, <1>3, <1>4, TypeInvariant, PTL DEF Spec, FlagsPublished, FlagsPublishedNow
=============================================================================
