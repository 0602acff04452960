----------------------------- MODULE SymbolTable -----------------------------
(***************************************************************************)
(* The symbol table: handles that build a scheme file with                 *)
(* varnam_create_token, varnam_flush_buffer, stem rules, exceptions and    *)
(* metadata.                                                               *)
(*                                                                         *)
(* A handle that passes buffered gets a transaction, which stays open over *)
(* several calls (vst_buffering) until a flush commits it or a failed      *)
(* token rolls it back.  Other statements commit by themselves.            *)
(*                                                                         *)
(* External: SQLite with a rollback journal.  A transaction that has read  *)
(* keeps others from committing, one that has written keeps others from    *)
(* writing, one that could not commit also keeps others from reading, and  *)
(* no statement waits.  So the file does not change under a transaction,   *)
(* and the changes of the one that writes are in pending.                  *)
(***************************************************************************)
EXTENDS SymbolsDb

CONSTANTS
  Handle,
  Creates,      \* <<handle, token, buffered>>: the tokens clients create
  Row,          \* stem rules, stem exceptions and metadata
  RowCalls,     \* <<handle, row>>: those clients add
  Configs,      \* <<handle, config>>: what clients set with varnam_config
  Flushers,     \* handles whose clients flush
  FaultKinds,   \* which of "statement", "commit" occur
  MaxCalls,     \* bound on API calls and process deaths of a behaviour
  MaxFaults

Config == [dead : BOOLEAN, ignore : BOOLEAN]

Contents == [symbols : SUBSET SymbolRow, rows : SUBSET Row]

ASSUME SymbolTableAssumption ==
  /\ Creates \subseteq Handle \X Token \X BOOLEAN
  /\ RowCalls \subseteq Handle \X Row
  /\ Configs \subseteq Handle \X Config
  /\ MaxCalls \in Nat /\ MaxFaults \in Nat

VARIABLES
  file,       \* the committed contents of the scheme file
  pending,    \* what the transaction that writes has made of them
  txn,        \* txn[h]: "none", "deferred", "read", "write" or "blocked"
  buffering,  \* buffering[h]: vst_buffering
  virama,     \* virama[h]: the value of the virama h has cached, or NoText
  config,     \* config[h]: config_use_dead_consonants, config_ignore_duplicate_tokens
  frame,      \* frame[h]: the call h executes, and its locals
  batch,      \* history: the tokens reported as created since h began to buffer
  rc, calls, faults

vars == <<file, pending, txn, buffering, virama, config, frame, batch, rc, calls, faults>>

stored == <<file, pending, txn>>

EmptyContents == [symbols |-> {}, rows |-> {}]

NoToken ==
  [type |-> "other", match |-> "exact", pattern |-> <<>>, value1 |-> <<>>,
   value2 |-> <<>>, priority |-> 0]

\* sym: the token as passed; left: what is still to be stored of it, a dead
\* consonant before the token itself.
IdleFrame ==
  [pc |-> "idle", op |-> "none", sym |-> NoToken, left |-> <<>>, buffered |-> FALSE, column |-> 0]

Idle(h) == frame[h].pc = "idle"

Init ==
  /\ file = EmptyContents /\ pending = EmptyContents
  /\ txn = [h \in Handle |-> "none"]
  /\ buffering = [h \in Handle |-> FALSE]
  /\ virama = [h \in Handle |-> NoText]
  /\ config = [h \in Handle |-> [dead |-> FALSE, ignore |-> TRUE]]
  /\ frame = [h \in Handle |-> IdleFrame]
  /\ batch = [h \in Handle |-> {}]
  /\ rc = [h \in Handle |-> "none"]
  /\ calls = 0 /\ faults = 0

-----------------------------------------------------------------------------
(* SQLite as the calls see it (external).                                  *)

Writes(t) == t \in {"write", "blocked"}

Seen(h) == IF Writes(txn[h]) THEN pending ELSE file

Others(h, states) == \E g \in Handle \ {h} : txn[g] \in states

CanRead(h) == txn[h] \in {"none", "deferred"} => ~Others(h, {"blocked"})

CanCommit(h) == ~Others(h, {"read"})

CanWrite(h) == ~Others(h, {"write", "blocked"}) /\ (txn[h] = "none" => CanCommit(h))

Read(h) ==
  /\ txn' = [txn EXCEPT ![h] = IF @ = "deferred" THEN "read" ELSE @]
  /\ UNCHANGED <<file, pending>>

\* The contents become c, now or when the transaction commits.
Write(h, c) ==
  IF txn[h] = "none" THEN file' = c /\ UNCHANGED <<pending, txn>>
  ELSE /\ pending' = c
       /\ txn' = [txn EXCEPT ![h] = IF Writes(@) THEN @ ELSE "write"]
       /\ UNCHANGED file

Rollback(h) ==
  /\ pending' = IF Writes(txn[h]) THEN EmptyContents ELSE pending
  /\ txn' = [txn EXCEPT ![h] = "none"]

Fault(kind) ==
  /\ kind \in FaultKinds
  /\ faults < MaxFaults
  /\ faults' = faults + 1

\* A statement is refused because of another handle's lock, or fails.
Refused(allowed) ==
  \/ ~allowed /\ UNCHANGED faults
  \/ allowed /\ Fault("statement")

-----------------------------------------------------------------------------
Continue(h, f) ==
  /\ frame' = [frame EXCEPT ![h] = f]
  /\ UNCHANGED <<rc, calls>>

Return(h, code) ==
  /\ frame' = [frame EXCEPT ![h] = IdleFrame]
  /\ rc' = [rc EXCEPT ![h] = code]
  /\ UNCHANGED calls

Call(h) ==
  /\ Idle(h)
  /\ calls < MaxCalls
  /\ calls' = calls + 1

Symbols(h) == Seen(h).symbols

\* The dead consonants are only derived when the handle is configured so.
StartCreate(h, s, buffered) ==
  [IdleFrame EXCEPT !.op = "create", !.sym = s, !.buffered = buffered,
     !.left = <<Normalised(s)>>,
     !.pc = IF s.type = "consonant" /\ config[h].dead THEN "virama" ELSE "check"]

\* varnam_create_token up to vst_start_buffering, which begins a transaction unless
\* the handle already buffers.
Create(h, s, buffered) ==
  /\ Call(h)
  /\ frame' = [frame EXCEPT ![h] = StartCreate(h, s, buffered)]
  /\ IF buffered /\ ~buffering[h]
     THEN /\ txn' = [txn EXCEPT ![h] = "deferred"]
          /\ buffering' = [buffering EXCEPT ![h] = TRUE]
          /\ batch' = [batch EXCEPT ![h] = {}]
     ELSE UNCHANGED <<txn, buffering, batch>>
  /\ UNCHANGED <<file, pending, virama, config, rc, faults>>

\* vst_discard_changes does not reset vst_buffering.
FaultyCreateFails(h) ==
  /\ IF frame[h].buffered /\ buffering[h] THEN Rollback(h) /\ UNCHANGED file
     ELSE UNCHANGED stored
  /\ UNCHANGED <<buffering, batch>>
  /\ Return(h, "error")

\* vst_persist_token failed: the whole buffer is discarded when this token was
\* passed as buffered.
CreateFails(h) ==
  /\ IF frame[h].buffered /\ buffering[h]
     THEN /\ Rollback(h)
          /\ buffering' = [buffering EXCEPT ![h] = FALSE]
          /\ batch' = [batch EXCEPT ![h] = {}]
          /\ UNCHANGED file
     ELSE UNCHANGED <<stored, buffering, batch>>
  /\ Return(h, "error")

\* The virama, from the handle or from the file.  An error, or a file without a
\* virama, returns at once, with the transaction open if there is one.
WithViramaText(f, v) ==
  [f EXCEPT !.pc = "check",
            !.left = IF HasTwin(f.sym, v) THEN <<DeadTwin(f.sym, v), f.sym>>
                     ELSE <<WithVirama(f.sym, v)>>]

FindVirama(h) ==
  LET f == frame[h] IN
  /\ f.pc = "virama"
  /\ UNCHANGED <<buffering, config, batch>>
  /\ \/ /\ virama[h] # NoText
        /\ Continue(h, WithViramaText(f, virama[h]))
        /\ UNCHANGED <<stored, virama, faults>>
     \/ /\ virama[h] = NoText
        /\ CanRead(h)
        /\ Viramas(Symbols(h)) # {}
        /\ LET v == FirstVirama(Symbols(h)) IN
             /\ virama' = [virama EXCEPT ![h] = v]
             /\ Continue(h, WithViramaText(f, v))
        /\ Read(h)
        /\ UNCHANGED faults
     \/ /\ virama[h] = NoText
        /\ CanRead(h)
        /\ Viramas(Symbols(h)) = {}
        /\ Read(h)
        /\ Return(h, "error")
        /\ UNCHANGED <<virama, faults>>
     \/ /\ virama[h] = NoText
        /\ Refused(CanRead(h))
        /\ Return(h, "error")
        /\ UNCHANGED <<stored, virama>>

\* The call ends with a dead consonant that was there already or has been stored.
FaultyTokenDone(h) ==
  LET f == frame[h] IN
  IF f.buffered
  THEN Return(h, "success") /\ batch' = [batch EXCEPT ![h] = @ \cup {Normalised(f.sym)}]
  ELSE Continue(h, [f EXCEPT !.pc = "mark", !.column = 1]) /\ UNCHANGED batch

\* A token (or dead consonant) is stored, or was there already: the next one, or
\* the end of the call.  Without buffered the prefix tree is made at once.
TokenDone(h) ==
  LET f == frame[h] IN
  IF Len(f.left) > 1
  THEN Continue(h, [f EXCEPT !.left = Tail(@), !.pc = "check"]) /\ UNCHANGED batch
  ELSE IF f.buffered
  THEN Return(h, "success") /\ batch' = [batch EXCEPT ![h] = @ \cup {Normalised(f.sym)}]
  ELSE Continue(h, [f EXCEPT !.pc = "mark", !.column = 1]) /\ UNCHANGED batch

\* already_persisted
Check(h) ==
  LET f == frame[h]
      persisted == Persisted(Symbols(h), Head(f.left))
  IN
  /\ f.pc = "check"
  /\ UNCHANGED <<virama, config>>
  /\ \/ /\ CanRead(h) /\ ~persisted
        /\ Continue(h, [f EXCEPT !.pc = "insert"])
        /\ Read(h)
        /\ UNCHANGED <<buffering, batch, faults>>
     \/ /\ CanRead(h) /\ persisted /\ config[h].ignore
        /\ TokenDone(h)
        /\ Read(h)
        /\ UNCHANGED <<buffering, faults>>
     \/ /\ CanRead(h) /\ persisted /\ ~config[h].ignore
        /\ CreateFails(h)
        /\ UNCHANGED faults
     \/ Refused(CanRead(h)) /\ CreateFails(h)

\* The insert of vst_persist_token.
Insert(h) ==
  LET f == frame[h] IN
  /\ f.pc = "insert"
  /\ UNCHANGED <<virama, config>>
  /\ \/ /\ CanWrite(h)
        /\ Write(h, [Seen(h) EXCEPT !.symbols = InsertSymbol(@, Head(f.left))])
        /\ TokenDone(h)
        /\ UNCHANGED <<buffering, faults>>
     \/ Refused(CanWrite(h)) /\ CreateFails(h)

-----------------------------------------------------------------------------
(* vst_make_prefix_tree and vst_stamp_version, at the end of an unbuffered *)
(* varnam_create_token and at the start of varnam_flush_buffer.            *)

Flush(h) ==
  /\ Call(h)
  /\ frame' = [frame EXCEPT ![h] = [IdleFrame EXCEPT !.op = "flush", !.pc = "mark", !.column = 1]]
  /\ UNCHANGED <<stored, buffering, virama, config, batch, rc, faults>>

\* The longer symbol is updated, not its prefix.
FaultyMarked(c, column, S) ==
  LET longer == {x \in {r.sym[column] : r \in c.symbols} : \E y \in S : IsStrictPrefix(y, x)}
  IN [c EXCEPT !.symbols = MarkTexts(@, column, longer)]

Marked(c, column, S) == [c EXCEPT !.symbols = MarkTexts(@, column, S)]

\* value2 is forgotten.
FaultyNextColumn(f) ==
  IF f.column < Len(Columns) - 1 THEN [f EXCEPT !.column = @ + 1] ELSE [f EXCEPT !.pc = "stamp"]

NextColumn(f) ==
  IF f.column < Len(Columns) THEN [f EXCEPT !.column = @ + 1] ELSE [f EXCEPT !.pc = "stamp"]

\* The updates of one column.  Their select holds a read lock to the end, so that
\* no other handle commits between them; when one fails, those before it stay.
Mark(h) ==
  LET f == frame[h]
      column == Columns[f.column]
      due == Extended(Symbols(h), column)
  IN
  /\ f.pc = "mark"
  /\ UNCHANGED <<buffering, virama, config, batch>>
  /\ \/ /\ CanRead(h) /\ due = {}
        /\ Read(h)
        /\ Continue(h, NextColumn(f))
        /\ UNCHANGED faults
     \/ /\ due # {} /\ CanWrite(h)
        /\ Write(h, Marked(Seen(h), column, due))
        /\ Continue(h, NextColumn(f))
        /\ UNCHANGED faults
     \/ /\ Refused(CanRead(h))
        /\ UNCHANGED stored
        /\ Return(h, "error")
     \/ /\ CanRead(h) /\ due # {}
        /\ Refused(CanWrite(h))
        /\ \/ Read(h)
           \/ /\ CanWrite(h)
              /\ \E S \in SUBSET due \ {{}, due} : Write(h, Marked(Seen(h), column, S))
        /\ Return(h, "error")

\* pragma user_version.  varnam_create_token ends here, and so does a flush of a
\* handle that does not buffer.
Stamp(h) ==
  LET f == frame[h] IN
  /\ f.pc = "stamp"
  /\ UNCHANGED <<buffering, virama, config, batch>>
  /\ \/ /\ CanWrite(h)
        /\ Write(h, Seen(h))
        /\ IF f.op = "flush" /\ buffering[h] THEN Continue(h, [f EXCEPT !.pc = "commit"])
           ELSE Return(h, "success")
        /\ UNCHANGED faults
     \/ /\ Refused(CanWrite(h))
        /\ UNCHANGED stored
        /\ Return(h, "error")

\* Buffering ends although COMMIT failed.
FaultyCommitFails(h) ==
  /\ buffering' = [buffering EXCEPT ![h] = FALSE]
  /\ UNCHANGED batch
  /\ Return(h, "error")

\* The buffer stays when COMMIT fails.
CommitFails(h) == UNCHANGED <<buffering, batch>> /\ Return(h, "error")

\* COMMIT of vst_flush_changes.
Commit(h) ==
  /\ frame[h].pc = "commit"
  /\ UNCHANGED <<virama, config>>
  /\ \/ /\ CanCommit(h)
        /\ file' = Seen(h)
        /\ Rollback(h)
        /\ buffering' = [buffering EXCEPT ![h] = FALSE]
        /\ Continue(h, [frame[h] EXCEPT !.pc = "vacuum"])
        /\ UNCHANGED <<batch, faults>>
     \/ /\ ~CanCommit(h)
        /\ CommitFails(h)
        /\ txn' = [txn EXCEPT ![h] = IF Writes(@) THEN "blocked" ELSE @]
        /\ UNCHANGED <<file, pending, faults>>
     \/ CanCommit(h) /\ Fault("commit") /\ CommitFails(h) /\ UNCHANGED stored

\* VACUUM changes nothing a client sees, but needs the file to itself.
Vacuum(h) ==
  /\ frame[h].pc = "vacuum"
  /\ UNCHANGED <<stored, buffering, virama, config, batch>>
  /\ \/ CanWrite(h) /\ Return(h, "success") /\ UNCHANGED faults
     \/ Refused(CanWrite(h)) /\ Return(h, "error")

-----------------------------------------------------------------------------
\* vst_persist_stemrule, vst_persist_stem_exception, vst_add_metadata: one insert,
\* in the transaction if there is one, and no rollback when it fails.
AddRow(h, r) ==
  /\ Call(h)
  /\ UNCHANGED <<buffering, virama, config, frame, batch>>
  /\ \/ /\ CanWrite(h)
        /\ Write(h, [Seen(h) EXCEPT !.rows = @ \cup {r}])
        /\ rc' = [rc EXCEPT ![h] = "success"]
        /\ UNCHANGED faults
     \/ /\ Refused(CanWrite(h))
        /\ rc' = [rc EXCEPT ![h] = "error"]
        /\ UNCHANGED stored

\* varnam_config
Configure(h, c) ==
  /\ Idle(h)
  /\ config' = [config EXCEPT ![h] = c]
  /\ UNCHANGED <<stored, buffering, virama, frame, batch, rc, calls, faults>>

\* The process dies, perhaps between two updates of a column, or the handle is
\* destroyed; it is then opened again.
Reopen(h) ==
  /\ calls < MaxCalls
  /\ calls' = calls + 1
  /\ Rollback(h)
  /\ IF frame[h].pc = "mark" /\ txn[h] = "none" /\ CanWrite(h)
     THEN LET column == Columns[frame[h].column] IN
          \E S \in SUBSET Extended(Symbols(h), column) : file' = Marked(file, column, S)
     ELSE UNCHANGED file
  /\ buffering' = [buffering EXCEPT ![h] = FALSE]
  /\ virama' = [virama EXCEPT ![h] = NoText]
  /\ config' = [config EXCEPT ![h] = [dead |-> FALSE, ignore |-> TRUE]]
  /\ frame' = [frame EXCEPT ![h] = IdleFrame]
  /\ batch' = [batch EXCEPT ![h] = {}]
  /\ rc' = [rc EXCEPT ![h] = "none"]
  /\ UNCHANGED faults

Enter(h) ==
  \/ \E c \in Creates : c[1] = h /\ Create(h, c[2], c[3])
  \/ h \in Flushers /\ Flush(h)
  \/ \E c \in RowCalls : c[1] = h /\ AddRow(h, c[2])
  \/ \E c \in Configs : c[1] = h /\ Configure(h, c[2])
  \/ Reopen(h)

Step(h) ==
  \/ FindVirama(h) \/ Check(h) \/ Insert(h)
  \/ Mark(h) \/ Stamp(h) \/ Commit(h) \/ Vacuum(h)

Next == \E h \in Handle : Enter(h) \/ Step(h)

Spec == Init /\ [][Next]_vars

-----------------------------------------------------------------------------
(* What clients leave alone: without buffering, the statements of a call   *)
(* are no transaction, and another process can come between them.          *)

\* The patterns of what varnam_create_token stores of a token.
Patterns(s) ==
  IF CanGenerateDeadConsonant(s.pattern) THEN {s.pattern, Front(s.pattern)} ELSE {s.pattern}

\* Without a transaction another process may store the symbol between
\* already_persisted and the insert.
ApartUnlessBuffered ==
  \A c, d \in Creates : c[1] # d[1] /\ ~c[3] => Patterns(c[2]) \cap Patterns(d[2]) = {}

\* Two processes that both create without buffering store symbols while the other
\* makes the prefix tree.
OneUnbuffered == \A c, d \in Creates : ~c[3] /\ ~d[3] => c[1] = d[1]

-----------------------------------------------------------------------------
(* Correctness.                                                            *)

Frames ==
  [pc : {"idle", "virama", "check", "insert", "mark", "stamp", "commit", "vacuum"},
   op : {"none", "create", "flush"}, sym : Token, left : Seq(Token),
   buffered : BOOLEAN, column : 0..Len(Columns)]

\* Every variable holds a value of its type.
TypeOK ==
  /\ file \in Contents /\ pending \in Contents
  /\ txn \in [Handle -> {"none", "deferred", "read", "write", "blocked"}]
  /\ buffering \in [Handle -> BOOLEAN]
  /\ virama \in [Handle -> Text \cup {NoText}]
  /\ config \in [Handle -> Config]
  /\ frame \in [Handle -> Frames]
  /\ batch \in [Handle -> SUBSET Token]
  /\ rc \in [Handle -> {"none", "success", "error"}]
  /\ calls \in 0..MaxCalls /\ faults \in 0..MaxFaults

\* vst_buffering says whether the handle has a transaction, in and between calls:
\* otherwise a flush would lose the buffer or never get rid of it.
BufferingMeansTransaction == \A h \in Handle : buffering[h] <=> txn[h] # "none"

\* No symbol is stored twice (vst_persist_token: "Duplicate entries are not
\* allowed"), neither in the file nor in a buffer that is still to be flushed.
SymbolsUnique == UniqueIn(file.symbols) /\ UniqueIn(pending.symbols)

\* A flag is only set when there is a longer symbol for the tokenizer to look for,
\* also after a rollback took symbols away.
FlagsHaveReason == FlagsSound(file.symbols)

Returns(h, code) == ~Idle(h) /\ Idle(h)' /\ rc'[h] = code

\* When a flush or an unbuffered varnam_create_token reports success, whatever it
\* wrote is committed with all its flags: the tokenizer stops at no symbol that has
\* a longer one.
FlagsPublished ==
  [][\A h \in Handle :
       /\ frame[h].pc = "commit" /\ frame'[h].pc = "vacuum" => FlagsComplete(file'.symbols)
       /\ frame[h].op = "create" /\ ~frame[h].buffered /\ ~buffering[h] /\ Returns(h, "success")
            => FlagsComplete(file'.symbols)]_vars

\* What is reported as created is in the file when the call returns, or after the
\* next flush that succeeds, unless a failed token discarded the buffer.
CreatedIsStored ==
  [][\A h \in Handle :
       /\ frame[h].pc = "commit" /\ frame'[h].pc = "vacuum" =>
            \A s \in batch[h] : Persisted(file'.symbols, s)
       /\ frame[h].op = "create" /\ ~buffering[h] /\ Returns(h, "success")
            => Persisted(file'.symbols, Normalised(frame[h].sym))]_vars

\* The symbols of the file only grow, and their flags too: what the tokenizer of
\* another handle has read stays true.
FileOnlyGrows == [][GrownFrom(file.symbols, file'.symbols)]_vars

\* A buffered token is seen by others only when its whole buffer is flushed.
BufferPublishedByFlush ==
  [][file'.symbols # file.symbols =>
       \E h \in Handle :
         \/ frame[h].op = "flush" /\ frame[h].pc = "commit" /\ file' = pending
         \/ ~frame[h].buffered /\ ~buffering[h] /\ ~Idle(h)]_vars

\* Every dead consonant of the file ends in a virama of the file
\* (varnam_create_token: "Virama needs to be set before auto generating dead
\* consonants").
DeadConsonantsFollowVirama ==
  \A r \in file.symbols :
    r.sym.type = "dead_consonant" =>
      \E v \in Viramas(file.symbols) : IsSuffix(v.sym.value1, r.sym.value1)
=============================================================================
