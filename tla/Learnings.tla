------------------------------ MODULE Learnings ------------------------------
(***************************************************************************)
(* The learnings store: handles (processes of libvarnam) that learn,       *)
(* train, import, delete and look up words in one shared SQLite file.      *)
(*                                                                         *)
(* Every API call is cut where another handle can step in or a statement   *)
(* can fail: one action per statement group, with the control state of the *)
(* call in frame[h].  What a word is tokenized into is the constant Plan:  *)
(* the cartesian product of its tokens, one product after the other, each  *)
(* with the prefixes learn_prefixes() takes from it.                       *)
(*                                                                         *)
(* External: SQLite.  BEGIN is deferred, so the first statement takes the  *)
(* snapshot and the first write takes the file's only write lock; no busy  *)
(* timeout is set, so a write that finds the lock taken fails at once.     *)
(* A handle without a transaction writes in autocommit mode.               *)
(***************************************************************************)
EXTENDS LearningsDb, Sequences

CONSTANTS
  Handle,       \* open varnam handles
  Word,         \* texts a client may pass, and every text the library derives
  Pattern,
  NoWord,       \* lastLearnedWord == NULL, and unused word fields
  NoPattern,    \* unused pattern fields
  Empty,        \* the empty text
  Plan,         \* Plan[w]: the products of w's tokens; <<>> if not learnable
  Importable,   \* texts whose tokens import accepts, which it judges before noise reduction
  Sanitized,    \* Sanitized[w]: what sanitize_word() makes of w
  Stems,        \* Stems[w]: what stem() finds for w
  LearnCalls,   \* words clients learn
  TrainCalls,   \* <<pattern, word>> pairs clients train
  LearnFiles,   \* files of <<word, confidence>> lines for learn_from_file
  ImportFiles,  \* files of exported entries for import
  BadImports,   \* whether clients also import files that cannot be parsed
  DeleteCalls,  \* words clients delete
  QueryCalls,   \* words clients ask is_known_word about
  FaultKinds,   \* which of "statement", "commit", "symbols", "autorollback" occur
  MaxCalls,     \* bound on API calls and process deaths of a behaviour
  MaxFaults     \* bound on faults of a behaviour

PlanPrefixes == Seq([word : Word, pattern : Pattern])
Products == Seq([pattern : Pattern, prefixes : PlanPrefixes])
Lines    == Seq([word : Word, confidence : Int])
Entries  == Seq([word : Word, confidence : Int,
                 patterns : Seq([pattern : Pattern, learned : {0, 1}])])

ASSUME LearningsAssumption ==
  /\ NoWord \notin Word /\ NoPattern \notin Pattern /\ Empty \in Word
  /\ Plan \in [Word -> Products] /\ Plan[Empty] = <<>>
  /\ \A w \in Word : \A k \in DOMAIN Plan[w] : \A j \in DOMAIN Plan[w][k].prefixes :
       Plan[w][k].prefixes[j].word # Empty
  /\ Importable \subseteq Word \ {Empty}
  /\ Sanitized \in [Word -> Word]
  /\ Stems \in [Word -> Seq(Word)]
  /\ LearnCalls \subseteq Word /\ DeleteCalls \subseteq Word /\ QueryCalls \subseteq Word
  /\ TrainCalls \subseteq Pattern \X Word
  /\ LearnFiles \subseteq Lines /\ ImportFiles \subseteq Entries
  /\ BadImports \in BOOLEAN
  /\ MaxCalls \in Nat /\ MaxFaults \in Nat
  \* NoWord also stands for a word the abstract store does not know.
  /\ NoWord \notin [confidence : Int, patterns : SUBSET Pattern, learned : SUBSET Pattern]

VARIABLES
  db,      \* the committed contents of the learnings file
  txn,     \* txn[h]: "none", "deferred", "read" or "write"
  view,    \* view[h]: what h sees of the file once its transaction has a snapshot
  cache,   \* cache[h]: lastLearnedWord and lastLearnedWordId
  frame,   \* frame[h]: the call h executes, where it is and its locals
  rc,      \* rc[h]: what h's last call returned
  calls,   \* calls made so far, of at most MaxCalls
  faults   \* faults so far, of at most MaxFaults

vars == <<db, txn, view, cache, frame, rc, calls, faults>>

IdleFrame ==
  [pc |-> "idle", op |-> "none", arg |-> NoWord, pattern |-> NoPattern,
   file |-> <<>>, line |-> 0, word |-> NoWord, confidence |-> 0, product |-> 0,
   prefix |-> 0, stems |-> <<>>, main |-> TRUE, lineRc |-> "success", id |-> 0]

Idle(h) == frame[h].pc = "idle"

Init ==
  /\ db = EmptyDb
  /\ txn = [h \in Handle |-> "none"]
  /\ view = [h \in Handle |-> EmptyDb]
  /\ cache = [h \in Handle |-> [word |-> NoWord, id |-> 0]]
  /\ frame = [h \in Handle |-> IdleFrame]
  /\ rc = [h \in Handle |-> "none"]
  /\ calls = 0
  /\ faults = 0

-----------------------------------------------------------------------------
(* SQLite as the calls see it (external).                                  *)

CurrentDb(h) == IF txn[h] \in {"read", "write"} THEN view[h] ELSE db

\* Nobody else holds the write lock, and h's snapshot is not out of date.
CanWrite(h) ==
  /\ \A g \in Handle \ {h} : txn[g] # "write"
  /\ txn[h] = "read" => view[h] = db

\* What a statement, COMMIT or ROLLBACK of h can change.
Storage(h) == [db |-> db, view |-> view[h], txn |-> txn[h]]

SetStorage(h, s) ==
  /\ db' = s.db
  /\ view' = [view EXCEPT ![h] = s.view]
  /\ txn' = [txn EXCEPT ![h] = s.txn]

Written(h, d) ==
  IF txn[h] = "none" THEN [Storage(h) EXCEPT !.db = d]
  ELSE [Storage(h) EXCEPT !.view = d, !.txn = "write"]

RolledBack(h) == [db |-> db, view |-> EmptyDb, txn |-> "none"]

Committed(h) ==
  [db |-> IF txn[h] = "write" THEN view[h] ELSE db, view |-> EmptyDb, txn |-> "none"]

\* A select: a deferred transaction gets its snapshot.
AfterRead(h) ==
  IF txn[h] = "deferred" THEN [Storage(h) EXCEPT !.view = db, !.txn = "read"]
  ELSE Storage(h)

Fault(kind) ==
  /\ kind \in FaultKinds
  /\ faults < MaxFaults
  /\ faults' = faults + 1

\* A write fails and leaves storage s: either the lock is taken and nothing has
\* changed, or the statement failed, after one of the changes in partial; and when
\* it failed hard (disk full, I/O error) SQLite has rolled the transaction back.
AfterFailure(h, partial) ==
  partial \cup (IF "autorollback" \in FaultKinds THEN {RolledBack(h)} ELSE {})

\* What two statements can leave when neither changes a row: the first of them may
\* have taken the write lock.
Untouched(h) == {Storage(h), Written(h, CurrentDb(h))}

WriteFails(h, s) ==
  \/ ~CanWrite(h) /\ s = Storage(h) /\ UNCHANGED faults
  \/ CanWrite(h) /\ Fault("statement")

-----------------------------------------------------------------------------
(* The locals of a call.  Each operator gives the frame that follows.      *)

\* can_learn_from_tokens of the tokens noise reduction leaves; import's is Importable.
Learnable(w) == Plan[w] # <<>>

StartWord(f, w, c, main) ==
  [f EXCEPT !.pc = "learn", !.word = Sanitized[w], !.confidence = c,
            !.product = 1, !.prefix = 0, !.main = main]

StartLine(f, i) ==
  IF i <= Len(f.file)
  THEN StartWord([f EXCEPT !.line = i, !.arg = f.file[i].word, !.lineRc = "success"],
                 f.file[i].word, f.file[i].confidence, TRUE)
  ELSE [f EXCEPT !.pc = "commit"]

\* The loop over stem_results: a stem is learned with confidence 0.
NextStem(f) ==
  IF f.stems # <<>> THEN StartWord([f EXCEPT !.stems = Tail(@)], Head(f.stems), 0, FALSE)
  ELSE IF f.op = "file" THEN StartLine(f, f.line + 1)
  ELSE [f EXCEPT !.pc = "commit"]

\* varnam_learn_internal returned VARNAM_SUCCESS.
WordDone(f) ==
  IF ~f.main THEN NextStem(f)
  ELSE [f EXCEPT !.pc = IF f.op = "train" THEN "train" ELSE "stem"]

\* The last product of the tokens is left out.
FaultyNextPattern(f) ==
  IF f.prefix < Len(Plan[f.word][f.product].prefixes)
  THEN [f EXCEPT !.prefix = @ + 1,
                 !.pc = IF f.product = 1 THEN "prefix_word" ELSE "prefix_pattern"]
  ELSE IF f.product < Len(Plan[f.word]) - 1
  THEN [f EXCEPT !.product = @ + 1, !.prefix = 0, !.pc = "pattern"]
  ELSE WordDone(f)

\* The loops of learn_prefixes and learn_all_possibilities, after a pattern has
\* been persisted: the next prefix of this product, or the next product.  Only
\* the first product learns the prefixes as words (word_already_learned).
NextPattern(f) ==
  IF f.prefix < Len(Plan[f.word][f.product].prefixes)
  THEN [f EXCEPT !.prefix = @ + 1,
                 !.pc = IF f.product = 1 THEN "prefix_word" ELSE "prefix_pattern"]
  ELSE IF f.product < Len(Plan[f.word])
  THEN [f EXCEPT !.product = @ + 1, !.prefix = 0, !.pc = "pattern"]
  ELSE WordDone(f)

\* The loop over the entries of an import file.
NextEntry(f) ==
  IF f.line < Len(f.file) THEN [f EXCEPT !.pc = "import_word", !.line = @ + 1, !.product = 0]
  ELSE [f EXCEPT !.pc = "commit"]

PrefixOf(f) == Plan[f.word][f.product].prefixes[f.prefix]

Continue(h, f) ==
  /\ frame' = [frame EXCEPT ![h] = f]
  /\ UNCHANGED <<rc, calls>>

Return(h, code) ==
  /\ frame' = [frame EXCEPT ![h] = IdleFrame]
  /\ rc' = [rc EXCEPT ![h] = code]
  /\ UNCHANGED calls

\* A failed varnam_learn or varnam_train returns without vwt_discard_changes.
FaultyLearnFails(h, s) ==
  /\ SetStorage(h, s)
  /\ IF frame[h].main /\ frame[h].op # "file" THEN Return(h, "error")
     ELSE IF frame[h].main THEN Continue(h, [frame[h] EXCEPT !.pc = "stem", !.lineRc = "error"])
     ELSE Continue(h, NextStem(frame[h]))

\* varnam_learn_internal returned an error and left storage s.  varnam_learn and
\* varnam_train roll back and return; varnam_learn_from_file counts the word as
\* failed and goes on to its stems; an error of a stem is ignored.
LearnFails(h, s) ==
  \/ /\ frame[h].main /\ frame[h].op \in {"learn", "train"}
     /\ SetStorage(h, [RolledBack(h) EXCEPT !.db = s.db])
     /\ Return(h, "error")
  \/ /\ frame[h].main /\ frame[h].op = "file"
     /\ SetStorage(h, s)
     /\ Continue(h, [frame[h] EXCEPT !.pc = "stem", !.lineRc = "error"])
  \/ /\ ~frame[h].main
     /\ SetStorage(h, s)
     /\ Continue(h, NextStem(frame[h]))

-----------------------------------------------------------------------------
(* Entering a call.                                                        *)

Call(h) ==
  /\ Idle(h)
  /\ calls < MaxCalls
  /\ calls' = calls + 1

\* The error of a BEGIN inside a transaction is ignored.
FaultyBegin(h, f) ==
  /\ Call(h)
  /\ txn' = [txn EXCEPT ![h] = IF @ = "none" THEN "deferred" ELSE @]
  /\ frame' = [frame EXCEPT ![h] = f]
  /\ UNCHANGED <<db, view, cache, rc, faults>>

\* vwt_start_changes is left out.
FaultyUnbegun(h, f) ==
  /\ Call(h)
  /\ frame' = [frame EXCEPT ![h] = f]
  /\ UNCHANGED <<db, txn, view, cache, rc, faults>>

\* vwt_start_changes, and the frame the call goes on with.  BEGIN inside a
\* transaction is an error, and the call returns it.
Begin(h, f) ==
  /\ Call(h)
  /\ UNCHANGED <<db, view, cache, faults>>
  /\ \/ /\ txn[h] = "none"
        /\ txn' = [txn EXCEPT ![h] = "deferred"]
        /\ frame' = [frame EXCEPT ![h] = f]
        /\ UNCHANGED rc
     \/ /\ txn[h] # "none"
        /\ rc' = [rc EXCEPT ![h] = "error"]
        /\ UNCHANGED <<txn, frame>>

Learn(h, w) == Begin(h, StartWord([IdleFrame EXCEPT !.op = "learn", !.arg = w], w, 1, TRUE))

Train(h, p, w) ==
  Begin(h, StartWord([IdleFrame EXCEPT !.op = "train", !.arg = w, !.pattern = p], w, 1, TRUE))

LearnFromFile(h, file) == Begin(h, StartLine([IdleFrame EXCEPT !.op = "file", !.file = file], 1))

\* The file is read only after BEGIN.
Import(h, file) ==
  Begin(h, NextEntry([IdleFrame EXCEPT !.op = "import", !.file = file]))

ImportUnreadable(h) ==
  Begin(h, [IdleFrame EXCEPT !.pc = "import_unreadable", !.op = "import"])

\* vwt_get_word_id: the last learned word is answered from the handle's cache,
\* whatever the file says.  Between the last cleared word and the next learned
\* one the cache holds the empty text and the id it had.
Cached(h, w) == cache[h].word = w

GetWordId(h, w) == IF Cached(h, w) THEN cache[h].id ELSE IdOf(CurrentDb(h), w)

AfterGetWordId(h, w) == IF Cached(h, w) THEN Storage(h) ELSE AfterRead(h)

\* varnam_delete_word looks the id up before it begins a transaction.
DeleteWord(h, w) ==
  /\ Call(h)
  /\ UNCHANGED cache
  /\ \/ /\ SetStorage(h, AfterGetWordId(h, w))
        /\ frame' = [frame EXCEPT ![h] =
             [IdleFrame EXCEPT !.pc = "delete", !.op = "delete", !.arg = w,
                               !.id = GetWordId(h, w)]]
        /\ UNCHANGED <<rc, faults>>
     \/ /\ ~Cached(h, w)
        /\ Fault("statement")
        /\ rc' = [rc EXCEPT ![h] = "error"]
        /\ UNCHANGED <<db, txn, view, frame>>

\* varnam_is_known_word's answer; the only thing a query can change is that an
\* open transaction takes its snapshot.
KnownWord(h, w) == GetWordId(h, w) > 0

IsKnownWord(h, w) ==
  /\ Call(h)
  /\ SetStorage(h, AfterGetWordId(h, w))
  /\ rc' = [rc EXCEPT ![h] = IF KnownWord(h, w) THEN "known" ELSE "unknown"]
  /\ UNCHANGED <<cache, frame, faults>>

\* The process dies, or the handle is destroyed and opened again: SQLite rolls
\* the open transaction back, and the new handle's cache is empty.
Reopen(h) ==
  /\ calls < MaxCalls
  /\ calls' = calls + 1
  /\ SetStorage(h, RolledBack(h))
  /\ cache' = [cache EXCEPT ![h] = [word |-> NoWord, id |-> 0]]
  /\ frame' = [frame EXCEPT ![h] = IdleFrame]
  /\ rc' = [rc EXCEPT ![h] = "none"]
  /\ UNCHANGED faults

-----------------------------------------------------------------------------
(* varnam_learn_internal and what it calls.                                *)

\* learn_word empties lastLearnedWord before it touches the file ...
ClearCache(h) == [cache[h] EXCEPT !.word = Empty]

\* ... and sets it only when the word is new.  Whether the update or the insert
\* is tried first (_config_mostly_learning_new_words) makes no difference to the
\* outcome: the first statement takes the write lock, and one of the two applies.
LearnedCache(h, w) ==
  IF Stored(CurrentDb(h), w) THEN ClearCache(h)
  ELSE [word |-> w, id |-> NextId(CurrentDb(h))]

\* "insert or replace": a word learned again gets a new row.
FaultyLearnedDb(d, w, c) == InsertWord([d EXCEPT !.words = @ \ RowsOf(d, w)], w, c)

LearnedDb(d, w, c) == IF Stored(d, w) THEN BumpConfidence(d, w) ELSE InsertWord(d, w, c)

LearnWordSucceeds(h, w, c) ==
  /\ CanWrite(h)
  /\ SetStorage(h, Written(h, LearnedDb(CurrentDb(h), w, c)))
  /\ cache' = [cache EXCEPT ![h] = LearnedCache(h, w)]
  /\ UNCHANGED faults

LearnWordFails(h) ==
  \E s \in AfterFailure(h, Untouched(h)) :
    /\ WriteFails(h, s)
    /\ LearnFails(h, s)
    /\ cache' = [cache EXCEPT ![h] = ClearCache(h)]

\* Tokenizing (which reads the symbol table), the checks of can_learn_from_tokens,
\* and learn_word.
LearnInternal(h) ==
  LET f == frame[h] IN
  /\ f.pc = "learn"
  /\ \/ /\ ~Learnable(f.word)
        /\ LearnFails(h, Storage(h))
        /\ UNCHANGED <<cache, faults>>
     \/ /\ Fault("symbols")
        /\ LearnFails(h, Storage(h))
        /\ UNCHANGED cache
     \/ /\ Learnable(f.word)
        /\ LearnWordSucceeds(h, f.word, f.confidence)
        /\ Continue(h, [f EXCEPT !.pc = "pattern"])
     \/ /\ Learnable(f.word)
        /\ LearnWordFails(h)

LearnPrefixWord(h) ==
  LET f == frame[h] IN
  /\ f.pc = "prefix_word"
  /\ \/ /\ LearnWordSucceeds(h, PrefixOf(f).word, 1)
        /\ Continue(h, [f EXCEPT !.pc = "prefix_pattern"])
     \/ LearnWordFails(h)

\* learn_pattern: the id comes from vwt_get_word_id, the rows from
\* vwt_persist_pattern, whose update can fail after its insert.
PatternSaved(h, p, i, isPrefix) ==
  /\ CanWrite(h)
  /\ SetStorage(h, Written(h, PersistPattern(CurrentDb(h), p, i, isPrefix)))
  /\ UNCHANGED faults

PartialPatterns(h, p, i, isPrefix) ==
  {Storage(h)} \cup
  (IF isPrefix THEN {} ELSE {Written(h, InsertPattern(CurrentDb(h), p, i))})

LearnPatternOf(h, w, p, isPrefix) ==
  /\ UNCHANGED cache
  /\ \/ /\ PatternSaved(h, p, GetWordId(h, w), isPrefix)
        /\ Continue(h, NextPattern(frame[h]))
     \/ \E s \in AfterFailure(h, PartialPatterns(h, p, GetWordId(h, w), isPrefix)) :
          /\ WriteFails(h, s)
          /\ LearnFails(h, s)

LearnPattern(h) ==
  /\ frame[h].pc = "pattern"
  /\ LearnPatternOf(h, frame[h].word, Plan[frame[h].word][frame[h].product].pattern, FALSE)

LearnPrefixPattern(h) ==
  /\ frame[h].pc = "prefix_pattern"
  /\ LearnPatternOf(h, PrefixOf(frame[h]).word, PrefixOf(frame[h]).pattern, TRUE)

\* stem() reads the symbol table.  When that fails, varnam_learn returns the
\* error and varnam_learn_from_file returns the line's own result (rc, not rc2);
\* both leave the transaction open.
Stem(h) ==
  LET f == frame[h] IN
  /\ f.pc = "stem"
  /\ UNCHANGED <<db, txn, view, cache>>
  /\ \/ /\ Continue(h, NextStem([f EXCEPT !.stems = Stems[f.arg]]))
        /\ UNCHANGED faults
     \/ /\ Fault("symbols")
        /\ \E code \in IF f.op = "file" THEN {"success", "error"} ELSE {"error"} :
             Return(h, code)

\* varnam_train after the word is learned: the id of the text as it was passed,
\* not as it was sanitized.  An error returns with the transaction open.
TrainPattern(h) ==
  LET f == frame[h]
      i == GetWordId(h, f.arg)
  IN
  /\ f.pc = "train"
  /\ UNCHANGED cache
  /\ \/ /\ PatternSaved(h, f.pattern, i, FALSE)
        /\ Continue(h, [f EXCEPT !.pc = "commit"])
     \/ \E s \in AfterFailure(h, PartialPatterns(h, f.pattern, i, FALSE)) :
          /\ WriteFails(h, s)
          /\ SetStorage(h, s)
          /\ Return(h, "error")

-----------------------------------------------------------------------------
(* varnam_import_learnings_from_file.                                      *)

\* The tokens an entry is judged by: vst_tokenize returns at once for an empty
\* text and leaves the token array as the entry before it filled it.
JudgedBy(file, i) ==
  LET told == {k \in 1..i : Sanitized[file[k].word] # Empty} IN
  IF told = {} THEN Empty
  ELSE Sanitized[file[CHOOSE k \in told : \A j \in told : j <= k].word]

NextImportPattern(f) ==
  IF f.product < Len(f.file[f.line].patterns)
  THEN [f EXCEPT !.pc = "import_pattern", !.product = @ + 1]
  ELSE NextEntry(f)

ImportSkip(h) ==
  LET f == frame[h] IN
  /\ f.pc = "import_word"
  /\ JudgedBy(f.file, f.line) \notin Importable
  /\ Continue(h, NextEntry(f))
  /\ UNCHANGED <<db, txn, view, cache, faults>>

\* The text is stored as the file has it, and lastLearnedWord is not emptied: an
\* entry already stored gets the id the cache remembers.
ImportWord(h) ==
  LET f == frame[h]
      e == f.file[f.line]
      i == IF Stored(CurrentDb(h), e.word) THEN GetWordId(h, e.word) ELSE NextId(CurrentDb(h))
  IN
  /\ f.pc = "import_word"
  /\ JudgedBy(f.file, f.line) \in Importable
  /\ UNCHANGED cache
  /\ \/ /\ CanWrite(h)
        /\ SetStorage(h, Written(h, InsertWord(CurrentDb(h), e.word, e.confidence)))
        /\ Continue(h, NextImportPattern([f EXCEPT !.id = i]))
        /\ UNCHANGED faults
     \/ \E s \in AfterFailure(h, Untouched(h)) :
          /\ WriteFails(h, s)
          /\ SetStorage(h, s)
          /\ Return(h, "error")

ImportPattern(h) ==
  LET f == frame[h]
      r == f.file[f.line].patterns[f.product]
  IN
  /\ f.pc = "import_pattern"
  /\ UNCHANGED cache
  /\ \/ /\ PatternSaved(h, r.pattern, f.id, r.learned = 0)
        /\ Continue(h, NextImportPattern(f))
     \/ \E s \in AfterFailure(h, PartialPatterns(h, r.pattern, f.id, r.learned = 0)) :
          /\ WriteFails(h, s)
          /\ SetStorage(h, s)
          /\ Return(h, "error")

ImportFails(h) ==
  /\ \/ frame[h].pc = "import_unreadable" /\ UNCHANGED faults
     \/ frame[h].pc = "import_word" /\ Fault("symbols")
  /\ Return(h, "error")
  /\ UNCHANGED <<db, txn, view, cache>>

-----------------------------------------------------------------------------
(* vwt_delete_word, and the end of every call.                             *)

\* vwt_end_changes is left out of vwt_delete_word.
FaultyDelete(h) ==
  /\ frame[h].pc = "delete"
  /\ UNCHANGED <<cache, faults>>
  /\ IF txn[h] = "none" /\ CanWrite(h)
     THEN /\ SetStorage(h, [db |-> db, view |-> DeleteRows(db, frame[h].id), txn |-> "write"])
          /\ Return(h, "success")
     ELSE UNCHANGED <<db, txn, view>> /\ Return(h, "error")

Delete(h) ==
  /\ frame[h].pc = "delete"
  /\ UNCHANGED cache
  /\ \/ /\ txn[h] # "none"
        /\ UNCHANGED <<db, txn, view, faults>>
        /\ Return(h, "error")
     \/ /\ txn[h] = "none"
        /\ CanWrite(h)
        /\ SetStorage(h, [db |-> db, view |-> DeleteRows(db, frame[h].id), txn |-> "write"])
        /\ Continue(h, [frame[h] EXCEPT !.pc = "commit"])
        /\ UNCHANGED faults
     \/ /\ txn[h] = "none"
        /\ WriteFails(h, Storage(h))
        /\ UNCHANGED <<db, txn, view>>
        /\ Return(h, "error")

\* varnam_learn ignores the result of COMMIT too.
FaultyCommitError(op) == "success"

\* varnam_learn, varnam_import and vwt_delete_word return what COMMIT returned;
\* varnam_train ignores it, and varnam_learn_from_file only logs it.
CommitError(op) == IF op \in {"train", "file"} THEN "success" ELSE "error"

Commit(h) ==
  /\ frame[h].pc = "commit"
  /\ UNCHANGED cache
  /\ \/ /\ txn[h] # "none"
        /\ SetStorage(h, Committed(h))
        /\ Return(h, "success")
        /\ UNCHANGED faults
     \/ /\ txn[h] = "none"
        /\ UNCHANGED <<db, txn, view, faults>>
        /\ Return(h, CommitError(frame[h].op))
     \/ /\ txn[h] # "none"
        /\ Fault("commit")
        /\ \E s \in AfterFailure(h, {Storage(h)}) : SetStorage(h, s)
        /\ Return(h, CommitError(frame[h].op))

-----------------------------------------------------------------------------
Enter(h) ==
  \/ \E w \in LearnCalls : Learn(h, w)
  \/ \E t \in TrainCalls : Train(h, t[1], t[2])
  \/ \E file \in LearnFiles : LearnFromFile(h, file)
  \/ \E file \in ImportFiles : Import(h, file)
  \/ BadImports /\ ImportUnreadable(h)
  \/ \E w \in DeleteCalls : DeleteWord(h, w)
  \/ \E w \in QueryCalls : IsKnownWord(h, w)
  \/ Reopen(h)

\* The rest of the call h is in.
Step(h) ==
  \/ LearnInternal(h) \/ LearnPattern(h)
  \/ LearnPrefixWord(h) \/ LearnPrefixPattern(h)
  \/ Stem(h) \/ TrainPattern(h)
  \/ ImportSkip(h) \/ ImportWord(h) \/ ImportPattern(h) \/ ImportFails(h)
  \/ Delete(h) \/ Commit(h)

Next == \E h \in Handle : Enter(h) \/ Step(h)

Spec == Init /\ [][Next]_vars

\* A call once entered is run to its end by the process that made it.
FairSpec == Spec /\ \A h \in Handle : WF_vars(Step(h))

-----------------------------------------------------------------------------
(* Correctness.                                                            *)

Pcs == {"idle", "learn", "pattern", "prefix_word", "prefix_pattern", "stem", "train",
        "import_word", "import_pattern", "import_unreadable", "delete", "commit"}

Frames ==
  [pc : Pcs, op : {"none", "learn", "train", "file", "import", "delete"},
   arg : Word \cup {NoWord}, pattern : Pattern \cup {NoPattern},
   file : Lines \cup Entries, line : Nat, word : Word \cup {NoWord}, confidence : Int,
   product : Nat, prefix : Nat, stems : Seq(Word), main : BOOLEAN,
   lineRc : {"success", "error"}, id : Int]

\* Every variable holds a value of its type; in particular a stored word's id is
\* positive, which varnam_is_known_word takes for granted.
TypeOK ==
  /\ db \in Db(Word, Pattern)
  /\ view \in [Handle -> Db(Word, Pattern)]
  /\ txn \in [Handle -> {"none", "deferred", "read", "write"}]
  /\ cache \in [Handle -> [word : Word \cup {NoWord}, id : Int]]
  /\ frame \in [Handle -> Frames]
  /\ rc \in [Handle -> {"none", "success", "error", "known", "unknown"}]
  /\ calls \in 0..MaxCalls /\ faults \in 0..MaxFaults

\* The patterns a word can be reached by: those of its products, those it has as
\* a prefix of another word, and those it was trained with.
OwnPatterns ==
  [w \in Word |->
     {Plan[w][k].pattern : k \in DOMAIN Plan[w]} \cup
     {p \in Pattern :
        \/ <<p, w>> \in TrainCalls
        \/ \E v \in Word : \E k \in DOMAIN Plan[v] : \E j \in DOMAIN Plan[v][k].prefixes :
             Plan[v][k].prefixes[j] = [word |-> w, pattern |-> p]}]

PatternsOwnedIn(d) ==
  \A r \in d.patterns :
    \E q \in d.words : q.id = r.word_id /\ r.pattern \in OwnPatterns[q.word]

\* Every pattern in the file leads to a stored word, and to one it is a way of
\* writing: no row is left behind by a deleted word for the next word with its id
\* to inherit, and no stale lastLearnedWordId attaches a pattern to another word.
PatternsOwned == PatternsOwnedIn(db)

\* An idle handle has no transaction open: however a call of learn, train, delete
\* or learn_from_file is refused the write lock by another handle, it ends the
\* transaction it began.
IdleMeansNoTransaction == \A h \in Handle : Idle(h) => txn[h] = "none"

Returns(h, code) == ~Idle(h) /\ Idle(h)' /\ rc'[h] = code

\* All that varnam_learn(w) stores, in d: the word, each product's pattern as
\* learned, and each prefix as a word with its pattern.
LearnedIn(d, w) ==
  LET own == Sanitized[w] IN
  /\ Stored(d, own)
  /\ \A k \in DOMAIN Plan[own] :
       /\ Plan[own][k].pattern \in LearnedOf(d, own)
       /\ \A j \in DOMAIN Plan[own][k].prefixes :
            LET x == Plan[own][k].prefixes[j] IN x.pattern \in PatternsOf(d, x.word)

\* When varnam_learn reports success the committed file holds everything it
\* learned, whatever other handles did meanwhile and whichever stems failed.
LearnDurable ==
  [][\A h \in Handle :
       frame[h].op = "learn" /\ Returns(h, "success") => LearnedIn(db', frame[h].arg)]_vars

\* A transaction abandoned by a call that failed is never picked up by a later
\* call: it ends only when the handle goes away, and publishes nothing.
AbandonedNeverPublished ==
  [][\A h \in Handle :
       txn[h] # "none" /\ frame[h].pc \in {"idle", "delete"} =>
         \/ txn'[h] = "none" /\ db' = db
         \/ frame'[h].pc \in {"idle", "delete"}
            /\ (txn[h] = "write" => txn'[h] = "write" /\ view'[h] = view[h])]_vars

\* The committed file changes only when a call that has not failed commits it:
\* nobody sees half of a learn, a train or an import.  The one exception is a call
\* whose transaction SQLite itself rolled back: what it goes on to learn is
\* written without a transaction.
PublishedByCommit ==
  [][db' # db =>
       \E h \in Handle :
         \/ /\ frame[h].pc = "commit" /\ txn[h] = "write"
            /\ Returns(h, "success") /\ db' = view[h]
         \/ ~Idle(h) /\ txn[h] = "none" /\ faults > 0 /\ "autorollback" \in FaultKinds]_vars

\* The file implements the abstract store of words: rows whose id no word has are
\* invisible, and the words' ids do not matter.
StoreOf(d) ==
  [w \in Word |->
     IF Stored(d, w)
     THEN [confidence |-> (CHOOSE r \in RowsOf(d, w) : TRUE).confidence,
           patterns |-> PatternsOf(d, w), learned |-> LearnedOf(d, w)]
     ELSE NoWord]

Store == INSTANCE WordStore WITH Absent <- NoWord, store <- StoreOf(db)

ImplementsWordStore == Store!Spec

\* A handle that holds the file's write lock gives it up: its call ends.
LockIsReleased == \A h \in Handle : txn[h] = "write" ~> txn[h] # "write"

\* What varnam_is_known_word answers is what the file says (api.h: "whether the
\* word is known to varnam").
KnownWordIsStored ==
  \A h \in Handle, w \in QueryCalls :
    Idle(h) /\ KnownWord(h, w) => Stored(CurrentDb(h), w)

\* After varnam_delete_word reports success the word is gone from the file, and no
\* other word is (api.h: "Delete the supplied word from varnam's known words list").
\* When calls of handles overlap, the first part only says that the word was not there
\* at some moment of the call; it is checked of one handle, whose calls do not.
DeleteRemovesWord ==
  [][\A h \in Handle :
       frame[h].op = "delete" /\ Returns(h, "success") =>
         /\ ~Stored(db', frame[h].arg)
         /\ \A w \in Word \ {frame[h].arg} : Stored(db, w) => Stored(db', w)]_vars

\* After varnam_train reports success the pattern leads to the word (api.h: "Train
\* varnam to associate pattern to the word").
TrainAssociatesPattern ==
  [][\A h \in Handle :
       frame[h].op = "train" /\ Returns(h, "success") =>
         frame[h].pattern \in LearnedOf(db', Sanitized[frame[h].arg])]_vars

\* Every word of the file is one the scheme can write (learn.c: "Making sure word
\* contains only allowed token for the current scheme").
StoredWordsAreLearnable ==
  \A r \in db.words :
    \/ Learnable(r.word) \/ Sanitized[r.word] \in Importable
    \/ \E v \in Word : \E k \in DOMAIN Plan[v] : \E j \in DOMAIN Plan[v][k].prefixes :
         Plan[v][k].prefixes[j].word = r.word
=============================================================================
