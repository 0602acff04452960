--------------------------- MODULE Learnings_proofs ---------------------------
(***************************************************************************)
(* Proofs about Learnings.                                                 *)
(*                                                                         *)
(* TypeInv is TypeOK with what makes it inductive: in every database the   *)
(* ids have an upper bound (so that a new id is a positive number), and    *)
(* every call in progress has the locals its next statement reads          *)
(* (FrameOK).                                                              *)
(***************************************************************************)
EXTENDS Learnings, Basics_proofs

-----------------------------------------------------------------------------
(* The calls.                                                              *)

PatternPcs == {"pattern", "prefix_word", "prefix_pattern"}

\* What stays true of a call's arguments for as long as it runs.
CallOK(f) ==
  /\ f \in Frames
  /\ f.op \in {"learn", "train"} => f.arg \in Word
  /\ f.op = "train" => f.pattern \in Pattern
  /\ f.op = "file" => f.file \in Lines

\* The locals the next statement of the call reads are there.
AtOK(f) ==
  /\ f.pc \in {"learn"} \cup PatternPcs => f.word \in Word
  /\ f.pc \in {"learn", "stem"} \cup PatternPcs => f.op \in {"learn", "train", "file"} /\ f.arg \in Word
  /\ f.pc = "learn" => f.product = 1
  /\ f.pc \in PatternPcs => f.product \in DOMAIN Plan[f.word]
  /\ f.pc \in {"prefix_word", "prefix_pattern"} =>
       f.prefix \in DOMAIN Plan[f.word][f.product].prefixes
  /\ f.pc = "train" => f.op = "train"
  /\ f.pc \in {"import_word", "import_pattern"} =>
       f.op = "import" /\ f.file \in Entries /\ f.line \in DOMAIN f.file
  /\ f.pc = "import_pattern" => f.product \in DOMAIN f.file[f.line].patterns

FrameOK(f) == CallOK(f) /\ AtOK(f)

Good(d) == GoodDb(d, Word, Pattern)

CacheEntries == [word : Word \cup {NoWord}, id : Int]

Codes == {"none", "success", "error", "known", "unknown"}

TypeInv ==
  /\ TypeOK
  /\ Bounded(db)
  /\ \A h \in Handle : Bounded(view[h]) /\ FrameOK(frame[h])

StorageOK(s) ==
  /\ s \in [db : Db(Word, Pattern), view : Db(Word, Pattern),
            txn : {"none", "deferred", "read", "write"}]
  /\ Bounded(s.db) /\ Bounded(s.view)

-----------------------------------------------------------------------------
(* The frames that follow.                                                 *)

LEMMA SeqElement ==
  ASSUME NEW S, NEW s \in Seq(S)
  PROVE  Len(s) \in Nat /\ DOMAIN s = 1..Len(s) /\ \A i \in DOMAIN s : s[i] \in S
OBVIOUS

LEMMA IdleFrameOK == FrameOK(IdleFrame)
<1>1. <<>> \in Lines /\ <<>> \in Seq(Word)
  BY DEF Lines
<1> QED BY <1>1 DEF FrameOK, CallOK, AtOK, IdleFrame, Frames, Pcs, PatternPcs

LEMMA CommitOK ==
  ASSUME NEW f, CallOK(f)
  PROVE  FrameOK([f EXCEPT !.pc = "commit"])
BY DEF FrameOK, CallOK, AtOK, Frames, Pcs, PatternPcs

LEMMA StartWordOK ==
  ASSUME NEW f, CallOK(f), f.op \in {"learn", "train", "file"}, f.arg \in Word,
         NEW w \in Word, NEW c \in Int, NEW m \in BOOLEAN
  PROVE  FrameOK(StartWord(f, w, c, m))
<1>1. Sanitized[w] \in Word
  BY LearningsAssumption
<1> DEFINE g == StartWord(f, w, c, m)
<1>2. CallOK(g)
  BY <1>1 DEF CallOK, StartWord, Frames, Pcs
<1>3. g.pc = "learn" /\ g.op = f.op /\ g.arg = f.arg /\ g.word \in Word /\ g.product = 1
  BY <1>1 DEF StartWord, CallOK, Frames
<1> HIDE DEF g
<1>4. AtOK(g)
  BY <1>3 DEF AtOK, PatternPcs
<1> QED BY <1>2, <1>4 DEF FrameOK, g

LEMMA StartLineOK ==
  ASSUME NEW f, CallOK(f), f.op = "file", NEW i \in Nat \ {0}
  PROVE  FrameOK(StartLine(f, i))
<1>1. CASE i <= Len(f.file)
  <2> DEFINE g == [f EXCEPT !.line = i, !.arg = f.file[i].word, !.lineRc = "success"]
  <2>0. i \in DOMAIN f.file /\ f.file[i] \in [word : Word, confidence : Int]
    <3> DEFINE R == [word : Word, confidence : Int]
    <3>1. f.file \in Seq(R)
      BY DEF CallOK, Lines
    <3> HIDE DEF R
    <3>2. DOMAIN f.file = 1..Len(f.file) /\ \A j \in DOMAIN f.file : f.file[j] \in R
      BY <3>1, SeqElement
    <3>3. i \in DOMAIN f.file
      BY <1>1, <3>1, <3>2, SeqElement
    <3> QED BY <3>2, <3>3 DEF R
  <2>1. f.file[i].word \in Word /\ f.file[i].confidence \in Int
    BY <2>0
  <2>2. CallOK(g) /\ g.op = "file" /\ g.arg \in Word
    BY <2>1 DEF CallOK, Frames
  <2>3. StartLine(f, i) = StartWord(g, f.file[i].word, f.file[i].confidence, TRUE)
    BY <1>1 DEF StartLine
  <2> HIDE DEF g
  <2> QED BY <2>1, <2>2, <2>3, StartWordOK
<1>2. CASE ~(i <= Len(f.file))
  BY <1>2, CommitOK DEF StartLine
<1> QED BY <1>1, <1>2

LEMMA NextStemOK ==
  ASSUME NEW f, CallOK(f), f.op \in {"learn", "train", "file"}, f.arg \in Word
  PROVE  FrameOK(NextStem(f))
<1>1. CASE f.stems # <<>>
  <2> DEFINE g == [f EXCEPT !.stems = Tail(@)]
  <2>1. f.stems \in Seq(Word) /\ Head(f.stems) \in Word /\ Tail(f.stems) \in Seq(Word)
    BY <1>1 DEF CallOK, Frames
  <2>2. CallOK(g) /\ g.op = f.op /\ g.arg = f.arg
    BY <2>1 DEF CallOK, Frames
  <2>3. NextStem(f) = StartWord(g, Head(f.stems), 0, FALSE)
    BY <1>1 DEF NextStem
  <2> HIDE DEF g
  <2>4. g.op \in {"learn", "train", "file"} /\ g.arg \in Word /\ 0 \in Int /\ FALSE \in BOOLEAN
    BY <2>2
  <2>5. FrameOK(StartWord(g, Head(f.stems), 0, FALSE))
    BY <2>1, <2>2, <2>4, StartWordOK
  <2> QED BY <2>3, <2>5
<1>2. CASE f.stems = <<>> /\ f.op = "file"
  <2>1. f.line + 1 \in Nat \ {0}
    BY DEF CallOK, Frames
  <2> QED BY <1>2, <2>1, StartLineOK DEF NextStem
<1>3. CASE f.stems = <<>> /\ f.op # "file"
  BY <1>3, CommitOK DEF NextStem
<1> QED BY <1>1, <1>2, <1>3

LEMMA WordDoneOK ==
  ASSUME NEW f, CallOK(f), f.op \in {"learn", "train", "file"}, f.arg \in Word
  PROVE  FrameOK(WordDone(f))
<1>1. CASE ~f.main
  BY <1>1, NextStemOK DEF WordDone
<1>2. CASE f.main
  BY <1>2 DEF WordDone, FrameOK, CallOK, AtOK, Frames, Pcs, PatternPcs
<1> QED BY <1>1, <1>2

LEMMA PlanTypes ==
  ASSUME NEW w \in Word
  PROVE  /\ Len(Plan[w]) \in Nat
         /\ \A k \in DOMAIN Plan[w] :
              /\ k \in Nat \ {0} /\ Plan[w][k].pattern \in Pattern
              /\ Len(Plan[w][k].prefixes) \in Nat
              /\ \A j \in DOMAIN Plan[w][k].prefixes :
                   /\ Plan[w][k].prefixes[j].word \in Word \ {Empty}
                   /\ Plan[w][k].prefixes[j].pattern \in Pattern
<1>1. Plan[w] \in Seq([pattern : Pattern, prefixes : PlanPrefixes])
  BY LearningsAssumption DEF Products
<1>2. \A k \in DOMAIN Plan[w] :
        k \in Nat \ {0} /\ Plan[w][k] \in [pattern : Pattern, prefixes : PlanPrefixes]
  <2> DEFINE R == [pattern : Pattern, prefixes : PlanPrefixes]
  <2>1. Plan[w] \in Seq(R)
    BY <1>1
  <2> HIDE DEF R
  <2>2. \A k \in DOMAIN Plan[w] : k \in Nat \ {0} /\ Plan[w][k] \in R
    BY <2>1, SeqElement
  <2> QED BY <2>2 DEF R
<1>3. \A k \in DOMAIN Plan[w] : Plan[w][k].prefixes \in Seq([word : Word, pattern : Pattern])
  BY <1>2 DEF PlanPrefixes
<1>4. \A k \in DOMAIN Plan[w] : \A j \in DOMAIN Plan[w][k].prefixes :
        Plan[w][k].prefixes[j] \in [word : Word, pattern : Pattern]
  BY <1>3, SeqElement
<1>5. Len(Plan[w]) \in Nat /\ \A k \in DOMAIN Plan[w] : Len(Plan[w][k].prefixes) \in Nat
  BY <1>1, <1>3, SeqElement
<1> QED BY <1>2, <1>4, <1>5, LearningsAssumption

LEMMA NextPatternOK ==
  ASSUME NEW f, FrameOK(f), f.pc \in PatternPcs
  PROVE  FrameOK(NextPattern(f))
<1>1. /\ f.word \in Word /\ f.product \in DOMAIN Plan[f.word] /\ f.product \in Nat
      /\ f.op \in {"learn", "train", "file"} /\ f.arg \in Word
      /\ f.prefix \in Nat
  BY DEF FrameOK, AtOK, CallOK, Frames
<1> DEFINE p == Len(Plan[f.word][f.product].prefixes)
           n == Len(Plan[f.word])
<1>2. p \in Nat /\ n \in Nat /\ DOMAIN Plan[f.word] = 1..n
      /\ DOMAIN Plan[f.word][f.product].prefixes = 1..p
  <2>1. Plan[f.word] \in Seq([pattern : Pattern, prefixes : PlanPrefixes])
    BY <1>1, LearningsAssumption DEF Products
  <2>2. Plan[f.word][f.product] \in [pattern : Pattern, prefixes : PlanPrefixes]
    BY <1>1, <2>1, SeqElement
  <2>3. Plan[f.word][f.product].prefixes \in Seq([word : Word, pattern : Pattern])
    BY <2>2 DEF PlanPrefixes
  <2> QED BY <2>1, <2>3, SeqElement
<1> HIDE DEF p, n
<1>3. CASE f.prefix < p
  <2> DEFINE next == IF f.product = 1 THEN "prefix_word" ELSE "prefix_pattern"
             g == [f EXCEPT !.prefix = @ + 1, !.pc = next]
  <2>1. /\ g.word = f.word /\ g.product = f.product /\ g.op = f.op /\ g.arg = f.arg
        /\ g.prefix = f.prefix + 1 /\ g.pc = next
    BY DEF FrameOK, CallOK, Frames
  <2>2. next \in {"prefix_word", "prefix_pattern"} /\ f.prefix + 1 \in 1..p
    BY <1>1, <1>2, <1>3
  <2>3. NextPattern(f) = g
    BY <1>3 DEF NextPattern, p
  <2>4. CallOK(g)
    <3>1. f.prefix + 1 \in Nat /\ next \in Pcs
      BY <1>1, <2>2 DEF Pcs
    <3> HIDE DEF next
    <3> QED BY <3>1 DEF FrameOK, CallOK, Frames
  <2>5. AtOK(g)
    <3> HIDE DEF g, next
    <3> QED BY <1>1, <1>2, <2>1, <2>2 DEF AtOK, PatternPcs
  <2> HIDE DEF g, next
  <2> QED BY <2>3, <2>4, <2>5 DEF FrameOK
<1>4. CASE ~(f.prefix < p) /\ f.product < n
  <2> DEFINE g == [f EXCEPT !.product = @ + 1, !.prefix = 0, !.pc = "pattern"]
  <2>1. /\ g.word = f.word /\ g.product = f.product + 1 /\ g.op = f.op /\ g.arg = f.arg
        /\ g.pc = "pattern"
    BY DEF FrameOK, CallOK, Frames
  <2>2. f.product + 1 \in 1..n
    BY <1>1, <1>2, <1>4
  <2>3. NextPattern(f) = g
    BY <1>4 DEF NextPattern, p, n
  <2>4. CallOK(g)
    <3>1. f.product + 1 \in Nat /\ "pattern" \in Pcs
      BY <1>1 DEF Pcs
    <3> QED BY <3>1 DEF FrameOK, CallOK, Frames
  <2>5. AtOK(g)
    <3> HIDE DEF g
    <3> QED BY <1>1, <1>2, <2>1, <2>2 DEF AtOK, PatternPcs
  <2> HIDE DEF g
  <2> QED BY <2>3, <2>4, <2>5 DEF FrameOK
<1>5. CASE ~(f.prefix < p) /\ ~(f.product < n)
  BY <1>1, <1>5, WordDoneOK DEF NextPattern, FrameOK, p, n
<1> QED BY <1>3, <1>4, <1>5

LEMMA NextEntryOK ==
  ASSUME NEW f, CallOK(f), f.file \in Entries, f.op = "import"
  PROVE  FrameOK(NextEntry(f))
<1>1. Len(f.file) \in Nat /\ DOMAIN f.file = 1..Len(f.file) /\ f.line \in Nat
  <2>1. f.line \in Nat
    BY DEF CallOK, Frames
  <2> QED BY <2>1, SeqElement DEF Entries
<1>2. CASE f.line < Len(f.file)
  <2> DEFINE g == [f EXCEPT !.pc = "import_word", !.line = @ + 1, !.product = 0]
  <2>1. g.pc = "import_word" /\ g.line = f.line + 1 /\ g.file = f.file /\ g.op = "import"
    BY DEF CallOK, Frames
  <2>2. CallOK(g)
    <3>1. f.line + 1 \in Nat /\ "import_word" \in Pcs
      BY <1>1 DEF Pcs
    <3> QED BY <3>1 DEF CallOK, Frames
  <2>3. AtOK(g)
    <3> HIDE DEF g
    <3> QED BY <1>1, <1>2, <2>1 DEF AtOK, PatternPcs
  <2>4. NextEntry(f) = g
    BY <1>2 DEF NextEntry
  <2> HIDE DEF g
  <2> QED BY <2>2, <2>3, <2>4 DEF FrameOK
<1>3. CASE ~(f.line < Len(f.file))
  BY <1>3, CommitOK DEF NextEntry
<1> QED BY <1>2, <1>3

-----------------------------------------------------------------------------
(* What a step of one handle has to show.                                  *)

TxnStates == {"none", "deferred", "read", "write"}

LEMMA HandleStep ==
  ASSUME TypeInv, NEW h \in Handle,
         NEW s, StorageOK(s), SetStorage(h, s),
         NEW f, FrameOK(f), frame' = [frame EXCEPT ![h] = f],
         NEW c \in CacheEntries, cache' = [cache EXCEPT ![h] = c],
         NEW r \in Codes, rc' = [rc EXCEPT ![h] = r],
         calls' \in 0..MaxCalls, faults' \in 0..MaxFaults
  PROVE  TypeInv'
<1>1. /\ view \in [Handle -> Db(Word, Pattern)] /\ txn \in [Handle -> TxnStates]
      /\ cache \in [Handle -> CacheEntries] /\ frame \in [Handle -> Frames]
      /\ rc \in [Handle -> Codes]
  BY DEF TypeInv, TypeOK, TxnStates, CacheEntries, Codes
<1>2. /\ s.db \in Db(Word, Pattern) /\ s.view \in Db(Word, Pattern) /\ s.txn \in TxnStates
      /\ f \in Frames
  BY DEF StorageOK, TxnStates, FrameOK, CallOK
<1>3. db' = s.db /\ view' = [view EXCEPT ![h] = s.view] /\ txn' = [txn EXCEPT ![h] = s.txn]
  BY DEF SetStorage
<1>4. TypeOK'
  <2>1. view' \in [Handle -> Db(Word, Pattern)] /\ db' \in Db(Word, Pattern)
    BY <1>1, <1>2, <1>3
  <2>2. txn' \in [Handle -> TxnStates]
    BY <1>1, <1>2, <1>3
  <2>3. frame' \in [Handle -> Frames]
    BY <1>1, <1>2
  <2>4. cache' \in [Handle -> CacheEntries] /\ rc' \in [Handle -> Codes]
    BY <1>1
  <2> QED BY <2>1, <2>2, <2>3, <2>4 DEF TypeOK, TxnStates, CacheEntries, Codes
<1>5. Bounded(db)'
  BY <1>3 DEF StorageOK, Bounded, Ids
<1>6. \A g \in Handle : Bounded(view'[g])
  <2> TAKE g \in Handle
  <2>1. CASE g = h
    BY <1>1, <1>3, <2>1 DEF StorageOK
  <2>2. CASE g # h
    BY <1>1, <1>3, <2>2 DEF TypeInv
  <2> QED BY <2>1, <2>2
<1>7. \A g \in Handle : FrameOK(frame'[g])
  <2> TAKE g \in Handle
  <2>1. CASE g = h
    BY <1>1, <2>1
  <2>2. CASE g # h
    BY <1>1, <2>2 DEF TypeInv
  <2> QED BY <2>1, <2>2
<1> QED BY <1>4, <1>5, <1>6, <1>7 DEF TypeInv, Bounded, Ids, FrameOK, CallOK, AtOK

LEMMA StorageTypes ==
  ASSUME TypeInv, NEW h \in Handle
  PROVE  /\ StorageOK(Storage(h)) /\ StorageOK(RolledBack(h)) /\ StorageOK(Committed(h))
         /\ StorageOK(AfterRead(h)) /\ Good(CurrentDb(h))
         /\ Good(db) /\ Good(view[h])
<1>1. Good(db) /\ Good(view[h]) /\ txn[h] \in TxnStates /\ Good(EmptyDb)
  BY EmptyDbGood DEF TypeInv, TypeOK, Good, GoodDb, TxnStates
<1>2. StorageOK(Storage(h)) /\ StorageOK(RolledBack(h)) /\ StorageOK(Committed(h))
  BY <1>1 DEF StorageOK, Storage, RolledBack, Committed, Good, GoodDb, TxnStates
<1>3. StorageOK(AfterRead(h))
  BY <1>1 DEF StorageOK, Storage, AfterRead, Good, GoodDb, TxnStates
<1> QED BY <1>1, <1>2, <1>3 DEF CurrentDb

LEMMA WrittenOK ==
  ASSUME TypeInv, NEW h \in Handle, NEW d, Good(d)
  PROVE  StorageOK(Written(h, d))
<1>1. Good(db) /\ Good(view[h]) /\ txn[h] \in TxnStates
  BY DEF TypeInv, TypeOK, Good, GoodDb, TxnStates
<1> QED BY <1>1 DEF StorageOK, Storage, Written, Good, GoodDb, TxnStates

\* A failed call of varnam_learn_internal.
LEMMA LearnFailsOK ==
  ASSUME TypeInv, NEW h \in Handle, NEW s, StorageOK(s), LearnFails(h, s),
         frame[h].op \in {"learn", "train", "file"}, frame[h].arg \in Word,
         NEW c \in CacheEntries, cache' = [cache EXCEPT ![h] = c],
         faults' \in 0..MaxFaults
  PROVE  TypeInv'
<1>0. /\ CallOK(frame[h]) /\ rc[h] \in Codes /\ rc \in [Handle -> Codes]
      /\ calls \in 0..MaxCalls
  BY DEF TypeInv, TypeOK, FrameOK, Codes
<1>1. CASE /\ SetStorage(h, [RolledBack(h) EXCEPT !.db = s.db])
           /\ Return(h, "error")
  <2> DEFINE e == [RolledBack(h) EXCEPT !.db = s.db]
  <2>1. StorageOK(e)
    BY StorageTypes DEF StorageOK, RolledBack
  <2> HIDE DEF e
  <2>2. frame' = [frame EXCEPT ![h] = IdleFrame] /\ rc' = [rc EXCEPT ![h] = "error"]
        /\ calls' = calls /\ SetStorage(h, e) /\ "error" \in Codes
    BY <1>1 DEF Return, e, Codes
  <2> QED BY <1>0, <2>1, <2>2, IdleFrameOK, HandleStep
<1>2. ASSUME NEW f, FrameOK(f), SetStorage(h, s), Continue(h, f)
      PROVE  TypeInv'
  <2>1. frame' = [frame EXCEPT ![h] = f] /\ rc' = [rc EXCEPT ![h] = rc[h]] /\ calls' = calls
    BY <1>0, <1>2 DEF Continue
  <2> QED BY <1>0, <1>2, <2>1, HandleStep
<1>3. FrameOK([frame[h] EXCEPT !.pc = "stem", !.lineRc = "error"])
  BY <1>0 DEF FrameOK, CallOK, AtOK, Frames, Pcs, PatternPcs
<1>4. FrameOK(NextStem(frame[h]))
  BY <1>0, NextStemOK
<1> QED BY <1>1, <1>2, <1>3, <1>4 DEF LearnFails

\* A step that goes on with frame f, or returns code r.
LEMMA ContinueOK ==
  ASSUME TypeInv, NEW h \in Handle, NEW s, StorageOK(s), SetStorage(h, s),
         NEW f, FrameOK(f), Continue(h, f),
         NEW c \in CacheEntries, cache' = [cache EXCEPT ![h] = c],
         faults' \in 0..MaxFaults
  PROVE  TypeInv'
<1>1. rc[h] \in Codes /\ rc \in [Handle -> Codes] /\ calls \in 0..MaxCalls
  BY DEF TypeInv, TypeOK, Codes
<1>2. frame' = [frame EXCEPT ![h] = f] /\ rc' = [rc EXCEPT ![h] = rc[h]] /\ calls' = calls
  BY <1>1 DEF Continue
<1> QED BY <1>1, <1>2, HandleStep

LEMMA ReturnOK ==
  ASSUME TypeInv, NEW h \in Handle, NEW s, StorageOK(s), SetStorage(h, s),
         NEW r \in Codes, Return(h, r),
         NEW c \in CacheEntries, cache' = [cache EXCEPT ![h] = c],
         faults' \in 0..MaxFaults
  PROVE  TypeInv'
<1>1. calls \in 0..MaxCalls
  BY DEF TypeInv, TypeOK
<1> QED BY <1>1, IdleFrameOK, HandleStep DEF Return

\* What a step that leaves a variable of h alone amounts to.
LEMMA Unchanged ==
  ASSUME TypeInv, NEW h \in Handle
  PROVE  /\ cache[h] \in CacheEntries /\ rc[h] \in Codes /\ FrameOK(frame[h])
         /\ frame[h] \in Frames
         /\ cache = [cache EXCEPT ![h] = cache[h]]
         /\ rc = [rc EXCEPT ![h] = rc[h]]
         /\ frame = [frame EXCEPT ![h] = frame[h]]
         /\ UNCHANGED <<db, txn, view>> => SetStorage(h, Storage(h))
         /\ calls \in 0..MaxCalls /\ faults \in 0..MaxFaults
         /\ \A kind : Fault(kind) => faults' \in 0..MaxFaults
         /\ Call(h) => calls' \in 0..MaxCalls
<1>1. /\ cache \in [Handle -> CacheEntries] /\ rc \in [Handle -> Codes]
      /\ frame \in [Handle -> Frames] /\ calls \in 0..MaxCalls /\ faults \in 0..MaxFaults
      /\ view \in [Handle -> Db(Word, Pattern)] /\ txn \in [Handle -> TxnStates]
      /\ FrameOK(frame[h]) /\ MaxCalls \in Nat /\ MaxFaults \in Nat
  BY LearningsAssumption DEF TypeInv, TypeOK, CacheEntries, Codes, TxnStates
<1>2. UNCHANGED <<db, txn, view>> => SetStorage(h, Storage(h))
  BY <1>1 DEF SetStorage, Storage
<1>3. \A kind : Fault(kind) => faults' \in 0..MaxFaults
  BY <1>1 DEF Fault
<1>4. Call(h) => calls' \in 0..MaxCalls
  BY <1>1 DEF Call
<1> QED BY <1>1, <1>2, <1>3, <1>4

LEMMA WriteFailsOK ==
  ASSUME TypeInv, NEW h \in Handle, NEW s, WriteFails(h, s)
  PROVE  faults' \in 0..MaxFaults
BY Unchanged DEF WriteFails

LEMMA AfterFailureOK ==
  ASSUME TypeInv, NEW h \in Handle, NEW partial, \A s \in partial : StorageOK(s)
  PROVE  \A s \in AfterFailure(h, partial) : StorageOK(s)
BY StorageTypes DEF AfterFailure

LEMMA UntouchedOK ==
  ASSUME TypeInv, NEW h \in Handle
  PROVE  \A s \in AfterFailure(h, Untouched(h)) : StorageOK(s)
<1>1. \A s \in Untouched(h) : StorageOK(s)
  BY StorageTypes, WrittenOK DEF Untouched
<1> QED BY <1>1, AfterFailureOK

LEMMA GetWordIdType ==
  ASSUME TypeInv, NEW h \in Handle, NEW w
  PROVE  GetWordId(h, w) \in Int
<1>1. cache[h].id \in Int
  BY Unchanged DEF CacheEntries
<1> QED BY <1>1, StorageTypes, IdOfType DEF GetWordId, Good

LEMMA PatternsTyped ==
  ASSUME TypeInv, NEW h \in Handle, NEW p \in Pattern, NEW i \in Int, NEW b \in BOOLEAN
  PROVE  /\ StorageOK(Written(h, PersistPattern(CurrentDb(h), p, i, b)))
         /\ \A s \in AfterFailure(h, PartialPatterns(h, p, i, b)) : StorageOK(s)
<1>1. Good(CurrentDb(h)) /\ StorageOK(Storage(h))
  BY StorageTypes
<1>2. Good(PersistPattern(CurrentDb(h), p, i, b)) /\ Good(InsertPattern(CurrentDb(h), p, i))
  BY <1>1, PersistPatternGood, InsertPatternGood DEF Good
<1>3. \A s \in PartialPatterns(h, p, i, b) : StorageOK(s)
  BY <1>1, <1>2, WrittenOK DEF PartialPatterns
<1> QED BY <1>2, <1>3, WrittenOK, AfterFailureOK

LEMMA LearnWordTyped ==
  ASSUME TypeInv, NEW h \in Handle, NEW w \in Word, NEW n \in Int
  PROVE  /\ StorageOK(Written(h, LearnedDb(CurrentDb(h), w, n)))
         /\ LearnedCache(h, w) \in CacheEntries
         /\ ClearCache(h) \in CacheEntries
<1>1. Good(CurrentDb(h)) /\ cache[h] \in CacheEntries
  BY StorageTypes, Unchanged
<1>2. Good(LearnedDb(CurrentDb(h), w, n))
  BY <1>1, InsertWordGood, BumpConfidenceGood DEF LearnedDb, Good
<1>3. ClearCache(h) \in CacheEntries
  BY <1>1, LearningsAssumption DEF ClearCache, CacheEntries
<1>4. LearnedCache(h, w) \in CacheEntries
  BY <1>1, <1>3, NextIdIsNew DEF LearnedCache, CacheEntries, Good
<1> QED BY <1>2, <1>3, <1>4, WrittenOK

LEMMA EntryTypes ==
  ASSUME NEW f, CallOK(f), f.file \in Entries, f.line \in DOMAIN f.file
  PROVE  /\ f.file[f.line].word \in Word /\ f.file[f.line].confidence \in Int
         /\ Len(f.file[f.line].patterns) \in Nat
         /\ DOMAIN f.file[f.line].patterns = 1..Len(f.file[f.line].patterns)
         /\ \A k \in DOMAIN f.file[f.line].patterns :
              f.file[f.line].patterns[k] \in [pattern : Pattern, learned : {0, 1}]
<1> DEFINE R == [pattern : Pattern, learned : {0, 1}]
           E == [word : Word, confidence : Int, patterns : Seq(R)]
<1>1. f.file \in Seq(E)
  BY DEF Entries
<1>2. f.file[f.line] \in E
  <2> HIDE DEF E
  <2> QED BY <1>1, SeqElement
<1>3. f.file[f.line].patterns \in Seq(R)
  BY <1>2
<1> HIDE DEF R
<1>4. /\ Len(f.file[f.line].patterns) \in Nat
      /\ DOMAIN f.file[f.line].patterns = 1..Len(f.file[f.line].patterns)
      /\ \A k \in DOMAIN f.file[f.line].patterns : f.file[f.line].patterns[k] \in R
  BY <1>3, SeqElement
<1> QED BY <1>2, <1>4 DEF R

LEMMA NextImportPatternOK ==
  ASSUME NEW f, CallOK(f), f.op = "import", f.file \in Entries, f.line \in DOMAIN f.file
  PROVE  FrameOK(NextImportPattern(f))
<1>1. f.product \in Nat /\ f.line \in Nat
  BY DEF CallOK, Frames
<1>2. CASE f.product < Len(f.file[f.line].patterns)
  <2> DEFINE g == [f EXCEPT !.pc = "import_pattern", !.product = @ + 1]
  <2>1. /\ g.pc = "import_pattern" /\ g.line = f.line /\ g.file = f.file /\ g.op = "import"
        /\ g.product = f.product + 1
    BY DEF CallOK, Frames
  <2>2. CallOK(g)
    <3>1. f.product + 1 \in Nat /\ "import_pattern" \in Pcs
      BY <1>1 DEF Pcs
    <3> QED BY <3>1 DEF CallOK, Frames
  <2>3. NextImportPattern(f) = g
    BY <1>2 DEF NextImportPattern
  <2> HIDE DEF g
  <2>4. g.product \in DOMAIN g.file[g.line].patterns
    BY <1>1, <1>2, <2>1, EntryTypes
  <2>5. AtOK(g)
    BY <2>1, <2>4 DEF AtOK, PatternPcs
  <2> QED BY <2>2, <2>3, <2>5 DEF FrameOK
<1>3. CASE ~(f.product < Len(f.file[f.line].patterns))
  BY <1>3, NextEntryOK DEF NextImportPattern
<1> QED BY <1>2, <1>3

-----------------------------------------------------------------------------
(* Entering a call.                                                        *)

LEMMA BeginTyped ==
  ASSUME TypeInv, NEW h \in Handle, NEW f, FrameOK(f), Begin(h, f)
  PROVE  TypeInv'
<1>1. /\ calls' \in 0..MaxCalls /\ faults' \in 0..MaxFaults
      /\ cache' = [cache EXCEPT ![h] = cache[h]] /\ cache[h] \in CacheEntries
  BY Unchanged DEF Begin
<1>2. CASE txn' = [txn EXCEPT ![h] = "deferred"] /\ frame' = [frame EXCEPT ![h] = f] /\ UNCHANGED rc
  <2> DEFINE s == [Storage(h) EXCEPT !.txn = "deferred"]
  <2>1. StorageOK(s)
    BY StorageTypes DEF StorageOK, Storage
  <2>2. view = [view EXCEPT ![h] = view[h]]
    BY DEF TypeInv, TypeOK
  <2>3. SetStorage(h, s)
    BY <1>2, <2>2 DEF Begin, SetStorage, Storage
  <2> HIDE DEF s
  <2>4. rc' = [rc EXCEPT ![h] = rc[h]] /\ rc[h] \in Codes
    BY <1>2, Unchanged
  <2> QED BY <1>1, <1>2, <2>1, <2>3, <2>4, HandleStep
<1>3. CASE rc' = [rc EXCEPT ![h] = "error"] /\ UNCHANGED <<txn, frame>>
  <2>1. SetStorage(h, Storage(h)) /\ StorageOK(Storage(h))
    BY <1>3, Unchanged, StorageTypes DEF Begin
  <2>2. frame' = [frame EXCEPT ![h] = frame[h]] /\ FrameOK(frame[h]) /\ "error" \in Codes
    BY <1>3, Unchanged DEF Codes
  <2> QED BY <1>1, <1>3, <2>1, <2>2, HandleStep
<1> QED BY <1>2, <1>3 DEF Begin

LEMMA AfterGetWordIdOK ==
  ASSUME TypeInv, NEW h \in Handle, NEW w
  PROVE  StorageOK(AfterGetWordId(h, w))
BY StorageTypes DEF AfterGetWordId

LEMMA EnterTyped ==
  ASSUME TypeInv, NEW h \in Handle, Enter(h)
  PROVE  TypeInv'
<1>0. CallOK(IdleFrame) /\ IdleFrame \in Frames
  BY IdleFrameOK DEF FrameOK, CallOK
<1>1. ASSUME NEW w \in LearnCalls, Learn(h, w) PROVE TypeInv'
  <2> DEFINE f == [IdleFrame EXCEPT !.op = "learn", !.arg = w]
  <2>1. w \in Word /\ 1 \in Int /\ TRUE \in BOOLEAN
    BY LearningsAssumption
  <2>2. CallOK(f) /\ f.op = "learn" /\ f.arg = w
    BY <1>0, <2>1 DEF CallOK, Frames, IdleFrame
  <2>3. Begin(h, StartWord(f, w, 1, TRUE))
    BY <1>1 DEF Learn
  <2> HIDE DEF f
  <2>4. FrameOK(StartWord(f, w, 1, TRUE))
    BY <2>1, <2>2, StartWordOK
  <2> QED BY <2>3, <2>4, BeginTyped
<1>2. ASSUME NEW t \in TrainCalls, Train(h, t[1], t[2]) PROVE TypeInv'
  <2> DEFINE f == [IdleFrame EXCEPT !.op = "train", !.arg = t[2], !.pattern = t[1]]
  <2>1. t[2] \in Word /\ t[1] \in Pattern /\ 1 \in Int /\ TRUE \in BOOLEAN
    BY LearningsAssumption
  <2>2. CallOK(f) /\ f.op = "train" /\ f.arg = t[2]
    BY <1>0, <2>1 DEF CallOK, Frames, IdleFrame
  <2>3. Begin(h, StartWord(f, t[2], 1, TRUE))
    BY <1>2 DEF Train
  <2> HIDE DEF f
  <2>4. FrameOK(StartWord(f, t[2], 1, TRUE))
    BY <2>1, <2>2, StartWordOK
  <2> QED BY <2>3, <2>4, BeginTyped
<1>3. ASSUME NEW file \in LearnFiles, LearnFromFile(h, file) PROVE TypeInv'
  <2> DEFINE f == [IdleFrame EXCEPT !.op = "file", !.file = file]
  <2>1. file \in Lines /\ 1 \in Nat \ {0}
    BY LearningsAssumption
  <2>2. CallOK(f) /\ f.op = "file"
    BY <1>0, <2>1 DEF CallOK, Frames, IdleFrame
  <2>3. Begin(h, StartLine(f, 1))
    BY <1>3 DEF LearnFromFile
  <2> HIDE DEF f
  <2>4. FrameOK(StartLine(f, 1))
    BY <2>1, <2>2, StartLineOK
  <2> QED BY <2>3, <2>4, BeginTyped
<1>4. ASSUME NEW file \in ImportFiles, Import(h, file) PROVE TypeInv'
  <2> DEFINE f == [IdleFrame EXCEPT !.op = "import", !.file = file]
  <2>1. file \in Entries
    BY LearningsAssumption
  <2>2. CallOK(f) /\ f.op = "import" /\ f.file \in Entries
    BY <1>0, <2>1 DEF CallOK, Frames, IdleFrame
  <2>3. Begin(h, NextEntry(f))
    BY <1>4 DEF Import
  <2> HIDE DEF f
  <2>4. FrameOK(NextEntry(f))
    BY <2>2, NextEntryOK
  <2> QED BY <2>3, <2>4, BeginTyped
<1>5. CASE ImportUnreadable(h)
  <2> DEFINE f == [IdleFrame EXCEPT !.pc = "import_unreadable", !.op = "import"]
  <2>1. FrameOK(f)
    BY <1>0 DEF FrameOK, CallOK, AtOK, Frames, IdleFrame, Pcs, PatternPcs
  <2>2. Begin(h, f)
    BY <1>5 DEF ImportUnreadable
  <2> HIDE DEF f
  <2> QED BY <2>1, <2>2, BeginTyped
<1>6. ASSUME NEW w \in DeleteCalls, DeleteWord(h, w) PROVE TypeInv'
  <2>0. /\ calls' \in 0..MaxCalls /\ cache[h] \in CacheEntries
        /\ cache' = [cache EXCEPT ![h] = cache[h]] /\ w \in Word
    BY <1>6, Unchanged, LearningsAssumption DEF DeleteWord
  <2> DEFINE f == [IdleFrame EXCEPT !.pc = "delete", !.op = "delete", !.arg = w,
                                    !.id = GetWordId(h, w)]
  <2>1. CASE /\ SetStorage(h, AfterGetWordId(h, w))
             /\ frame' = [frame EXCEPT ![h] = f] /\ UNCHANGED <<rc, faults>>
    <3>1. FrameOK(f)
      BY <1>0, <2>0, GetWordIdType DEF FrameOK, CallOK, AtOK, Frames, IdleFrame, Pcs, PatternPcs
    <3> HIDE DEF f
    <3>2. faults' \in 0..MaxFaults /\ rc' = [rc EXCEPT ![h] = rc[h]] /\ rc[h] \in Codes
      BY <2>1, Unchanged
    <3> QED BY <2>0, <2>1, <3>1, <3>2, AfterGetWordIdOK, HandleStep
  <2>2. CASE /\ Fault("statement") /\ rc' = [rc EXCEPT ![h] = "error"]
             /\ UNCHANGED <<db, txn, view, frame>>
    <3>1. SetStorage(h, Storage(h)) /\ StorageOK(Storage(h)) /\ faults' \in 0..MaxFaults
      BY <2>2, Unchanged, StorageTypes
    <3>2. frame' = [frame EXCEPT ![h] = frame[h]] /\ FrameOK(frame[h]) /\ "error" \in Codes
      BY <2>2, Unchanged DEF Codes
    <3> QED BY <2>0, <2>2, <3>1, <3>2, HandleStep
  <2> QED BY <1>6, <2>1, <2>2 DEF DeleteWord
<1>7. ASSUME NEW w \in QueryCalls, IsKnownWord(h, w) PROVE TypeInv'
  <2> DEFINE r == IF KnownWord(h, w) THEN "known" ELSE "unknown"
  <2>1. r \in Codes /\ rc' = [rc EXCEPT ![h] = r] /\ SetStorage(h, AfterGetWordId(h, w))
    BY <1>7 DEF IsKnownWord, Codes
  <2>2. /\ calls' \in 0..MaxCalls /\ faults' \in 0..MaxFaults
        /\ frame' = [frame EXCEPT ![h] = frame[h]] /\ FrameOK(frame[h])
        /\ cache' = [cache EXCEPT ![h] = cache[h]] /\ cache[h] \in CacheEntries
    BY <1>7, Unchanged DEF IsKnownWord
  <2> HIDE DEF r
  <2> QED BY <2>1, <2>2, AfterGetWordIdOK, HandleStep
<1>8. CASE Reopen(h)
  <2> DEFINE c == [word |-> NoWord, id |-> 0]
  <2>1. c \in CacheEntries /\ "none" \in Codes
    BY DEF CacheEntries, Codes
  <2>2. /\ calls' \in 0..MaxCalls /\ faults' \in 0..MaxFaults
        /\ frame' = [frame EXCEPT ![h] = IdleFrame] /\ cache' = [cache EXCEPT ![h] = c]
        /\ rc' = [rc EXCEPT ![h] = "none"] /\ SetStorage(h, RolledBack(h))
    BY <1>8, Unchanged, LearningsAssumption DEF Reopen
  <2> HIDE DEF c
  <2> QED BY <2>1, <2>2, IdleFrameOK, StorageTypes, HandleStep
<1> QED BY <1>1, <1>2, <1>3, <1>4, <1>5, <1>6, <1>7, <1>8 DEF Enter

-----------------------------------------------------------------------------
(* The steps of a call.                                                    *)

\* The locals of a call that is learning a word.
LEMMA LearningLocals ==
  ASSUME TypeInv, NEW h \in Handle, frame[h].pc \in {"learn"} \cup PatternPcs
  PROVE  /\ frame[h].op \in {"learn", "train", "file"} /\ frame[h].arg \in Word
         /\ frame[h].word \in Word /\ frame[h].confidence \in Int
         /\ CallOK(frame[h])
BY DEF TypeInv, FrameOK, AtOK, CallOK, Frames

\* learn_word of any word, by the call itself or for one of its prefixes.
LEMMA LearnWordStep ==
  ASSUME TypeInv, NEW h \in Handle, frame[h].pc \in {"learn"} \cup PatternPcs,
         NEW w \in Word, NEW n \in Int, NEW f, FrameOK(f),
         \/ LearnWordSucceeds(h, w, n) /\ Continue(h, f)
         \/ LearnWordFails(h)
  PROVE  TypeInv'
<1>1. CASE LearnWordSucceeds(h, w, n) /\ Continue(h, f)
  <2>1. faults' \in 0..MaxFaults
    BY <1>1, Unchanged DEF LearnWordSucceeds
  <2> QED BY <1>1, <2>1, LearnWordTyped, ContinueOK DEF LearnWordSucceeds
<1>2. CASE LearnWordFails(h)
  <2>1. PICK s \in AfterFailure(h, Untouched(h)) :
          /\ WriteFails(h, s) /\ LearnFails(h, s)
          /\ cache' = [cache EXCEPT ![h] = ClearCache(h)]
    BY <1>2 DEF LearnWordFails
  <2>2. StorageOK(s)
    BY <2>1, UntouchedOK
  <2>3. faults' \in 0..MaxFaults /\ ClearCache(h) \in CacheEntries
    BY <2>1, WriteFailsOK, LearnWordTyped, 0 \in Int, LearningLocals
  <2> QED BY <2>1, <2>2, <2>3, LearningLocals, LearnFailsOK
<1> QED BY <1>1, <1>2

LEMMA LearnInternalTyped ==
  ASSUME TypeInv, NEW h \in Handle, LearnInternal(h)
  PROVE  TypeInv'
<1> DEFINE f == frame[h]
           g == [f EXCEPT !.pc = "pattern"]
<1>1. f.pc = "learn" /\ f.word \in Word /\ f.confidence \in Int /\ CallOK(f)
      /\ f.op \in {"learn", "train", "file"} /\ f.arg \in Word
  BY LearningLocals DEF LearnInternal
<1>2. CASE LearnFails(h, Storage(h)) /\ UNCHANGED cache /\ (UNCHANGED faults \/ Fault("symbols"))
  BY <1>1, <1>2, Unchanged, StorageTypes, LearnFailsOK
<1>3. CASE /\ Learnable(f.word)
           /\ \/ LearnWordSucceeds(h, f.word, f.confidence) /\ Continue(h, g)
              \/ LearnWordFails(h)
  <2>1. g.product = f.product /\ g.pc = "pattern" /\ g.op = f.op /\ g.arg = f.arg /\ g.word = f.word
    BY <1>1 DEF CallOK, Frames
  <2>2. CallOK(g)
    BY <1>1 DEF CallOK, Frames, Pcs
  <2>3. f.product \in DOMAIN Plan[f.word]
    <3>1. Plan[f.word] \in Seq([pattern : Pattern, prefixes : PlanPrefixes]) /\ Plan[f.word] # <<>>
      BY <1>1, <1>3, LearningsAssumption DEF Products, Learnable
    <3>2. f.product = 1
      BY <1>1 DEF TypeInv, FrameOK, AtOK
    <3> QED BY <3>1, <3>2, SeqElement
  <2>4. FrameOK(g)
    <3> HIDE DEF g
    <3> QED BY <1>1, <2>1, <2>2, <2>3 DEF FrameOK, AtOK, PatternPcs
  <2> HIDE DEF g
  <2>5. \/ LearnWordSucceeds(h, f.word, f.confidence) /\ Continue(h, g)
        \/ LearnWordFails(h)
    BY <1>3
  <2>6. frame[h].pc \in {"learn"} \cup PatternPcs
    BY <1>1
  <2> HIDE DEF f
  <2> QED BY <1>1, <2>4, <2>5, <2>6, LearnWordStep
<1> QED BY <1>2, <1>3 DEF LearnInternal

LEMMA LearnPrefixWordTyped ==
  ASSUME TypeInv, NEW h \in Handle, LearnPrefixWord(h)
  PROVE  TypeInv'
<1> DEFINE f == frame[h]
           g == [f EXCEPT !.pc = "prefix_pattern"]
<1>1. f.pc = "prefix_word" /\ FrameOK(f) /\ f.pc \in PatternPcs
  BY DEF LearnPrefixWord, TypeInv, PatternPcs
<1>2. PrefixOf(f).word \in Word /\ 1 \in Int
  BY <1>1, PlanTypes DEF PrefixOf, FrameOK, AtOK
<1>3. FrameOK(g)
  <2>1. /\ g.product = f.product /\ g.prefix = f.prefix /\ g.pc = "prefix_pattern"
        /\ g.op = f.op /\ g.arg = f.arg /\ g.word = f.word
    BY <1>1 DEF FrameOK, CallOK, Frames
  <2>2. CallOK(g)
    BY <1>1 DEF FrameOK, CallOK, Frames, Pcs
  <2> HIDE DEF g
  <2> QED BY <1>1, <2>1, <2>2 DEF FrameOK, AtOK, PatternPcs
<1>4. \/ LearnWordSucceeds(h, PrefixOf(f).word, 1) /\ Continue(h, g)
      \/ LearnWordFails(h)
  BY DEF LearnPrefixWord
<1> HIDE DEF g
<1> QED BY <1>1, <1>2, <1>3, <1>4, LearnWordStep

\* learn_pattern of the word or of one of its prefixes.
LEMMA LearnPatternOfTyped ==
  ASSUME TypeInv, NEW h \in Handle, frame[h].pc \in PatternPcs,
         NEW w \in Word, NEW p \in Pattern, NEW b \in BOOLEAN, LearnPatternOf(h, w, p, b)
  PROVE  TypeInv'
<1> DEFINE i == GetWordId(h, w)
<1>0. i \in Int /\ cache' = [cache EXCEPT ![h] = cache[h]] /\ cache[h] \in CacheEntries
  BY GetWordIdType, Unchanged DEF LearnPatternOf
<1>1. CASE PatternSaved(h, p, i, b) /\ Continue(h, NextPattern(frame[h]))
  <2>1. FrameOK(NextPattern(frame[h]))
    BY NextPatternOK DEF TypeInv
  <2>2. faults' \in 0..MaxFaults
    BY <1>1, Unchanged DEF PatternSaved
  <2> HIDE DEF i
  <2> QED BY <1>0, <1>1, <2>1, <2>2, PatternsTyped, ContinueOK DEF PatternSaved
<1>2. ASSUME NEW s \in AfterFailure(h, PartialPatterns(h, p, i, b)),
             WriteFails(h, s), LearnFails(h, s)
      PROVE  TypeInv'
  <2> HIDE DEF i
  <2>1. StorageOK(s)
    BY <1>0, <1>2, PatternsTyped
  <2>2. faults' \in 0..MaxFaults
    BY <1>2, WriteFailsOK
  <2> QED BY <1>0, <1>2, <2>1, <2>2, LearningLocals, LearnFailsOK
<1> QED BY <1>1, <1>2 DEF LearnPatternOf

LEMMA LearnPatternsTyped ==
  ASSUME TypeInv, NEW h \in Handle, LearnPattern(h) \/ LearnPrefixPattern(h)
  PROVE  TypeInv'
<1>1. CASE LearnPattern(h)
  <2>1. frame[h].pc \in PatternPcs /\ frame[h].word \in Word /\ FALSE \in BOOLEAN
        /\ Plan[frame[h].word][frame[h].product].pattern \in Pattern
    BY <1>1, PlanTypes DEF LearnPattern, PatternPcs, TypeInv, FrameOK, AtOK
  <2> QED BY <1>1, <2>1, LearnPatternOfTyped DEF LearnPattern
<1>2. CASE LearnPrefixPattern(h)
  <2>1. frame[h].pc \in PatternPcs /\ TRUE \in BOOLEAN
        /\ PrefixOf(frame[h]).word \in Word /\ PrefixOf(frame[h]).pattern \in Pattern
    BY <1>2, PlanTypes DEF LearnPrefixPattern, PatternPcs, TypeInv, FrameOK, AtOK, PrefixOf
  <2> QED BY <1>2, <2>1, LearnPatternOfTyped DEF LearnPrefixPattern
<1> QED BY <1>1, <1>2

LEMMA StemTyped ==
  ASSUME TypeInv, NEW h \in Handle, Stem(h)
  PROVE  TypeInv'
<1> DEFINE f == frame[h]
           g == [f EXCEPT !.stems = Stems[f.arg]]
<1>1. CallOK(f) /\ f.op \in {"learn", "train", "file"} /\ f.arg \in Word
  BY DEF Stem, TypeInv, FrameOK, AtOK
<1>2. SetStorage(h, Storage(h)) /\ StorageOK(Storage(h))
      /\ cache' = [cache EXCEPT ![h] = cache[h]] /\ cache[h] \in CacheEntries
  BY Unchanged, StorageTypes DEF Stem
<1>3. CASE Continue(h, NextStem(g)) /\ UNCHANGED faults
  <2>1. Stems[f.arg] \in Seq(Word)
    BY <1>1, LearningsAssumption
  <2>2. CallOK(g) /\ g.op = f.op /\ g.arg = f.arg
    BY <1>1, <2>1 DEF CallOK, Frames
  <2> HIDE DEF g
  <2>3. FrameOK(NextStem(g))
    BY <1>1, <2>2, NextStemOK
  <2>4. faults' \in 0..MaxFaults
    BY <1>3, Unchanged
  <2> QED BY <1>2, <1>3, <2>3, <2>4, ContinueOK
<1>4. ASSUME NEW code \in {"success", "error"}, Fault("symbols"), Return(h, code)
      PROVE  TypeInv'
  <2>1. code \in Codes
    BY DEF Codes
  <2>2. faults' \in 0..MaxFaults
    BY <1>4, Unchanged
  <2> QED BY <1>2, <1>4, <2>1, <2>2, ReturnOK
<1>5. (IF f.op = "file" THEN {"success", "error"} ELSE {"error"}) \subseteq {"success", "error"}
  OBVIOUS
<1> QED BY <1>3, <1>4, <1>5 DEF Stem

\* A call of vwt_persist_pattern that returns its error to the caller.
LEMMA PatternStep ==
  ASSUME TypeInv, NEW h \in Handle, UNCHANGED cache,
         NEW p \in Pattern, NEW i \in Int, NEW b \in BOOLEAN, NEW f, FrameOK(f),
         \/ PatternSaved(h, p, i, b) /\ Continue(h, f)
         \/ \E s \in AfterFailure(h, PartialPatterns(h, p, i, b)) :
              WriteFails(h, s) /\ SetStorage(h, s) /\ Return(h, "error")
  PROVE  TypeInv'
<1>0. cache' = [cache EXCEPT ![h] = cache[h]] /\ cache[h] \in CacheEntries
  BY Unchanged
<1>1. CASE PatternSaved(h, p, i, b) /\ Continue(h, f)
  <2>1. faults' \in 0..MaxFaults
    BY <1>1, Unchanged DEF PatternSaved
  <2> QED BY <1>0, <1>1, <2>1, PatternsTyped, ContinueOK DEF PatternSaved
<1>2. ASSUME NEW s \in AfterFailure(h, PartialPatterns(h, p, i, b)),
             WriteFails(h, s), SetStorage(h, s), Return(h, "error")
      PROVE  TypeInv'
  <2>1. StorageOK(s) /\ faults' \in 0..MaxFaults /\ "error" \in Codes
    BY <1>2, PatternsTyped, WriteFailsOK DEF Codes
  <2> QED BY <1>0, <1>2, <2>1, ReturnOK
<1> QED BY <1>1, <1>2

LEMMA TrainPatternTyped ==
  ASSUME TypeInv, NEW h \in Handle, TrainPattern(h)
  PROVE  TypeInv'
<1> DEFINE f == frame[h]
           g == [f EXCEPT !.pc = "commit"]
           i == GetWordId(h, f.arg)
<1>1. CallOK(f) /\ f.pattern \in Pattern /\ i \in Int /\ FALSE \in BOOLEAN
  BY GetWordIdType DEF TrainPattern, TypeInv, FrameOK, AtOK, CallOK
<1>2. FrameOK(g)
  BY <1>1, CommitOK
<1>3. /\ UNCHANGED cache
      /\ \/ PatternSaved(h, f.pattern, i, FALSE) /\ Continue(h, g)
         \/ \E s \in AfterFailure(h, PartialPatterns(h, f.pattern, i, FALSE)) :
              WriteFails(h, s) /\ SetStorage(h, s) /\ Return(h, "error")
  BY DEF TrainPattern
<1> HIDE DEF f, g, i
<1> QED BY <1>1, <1>2, <1>3, PatternStep

LEMMA ImportsTyped ==
  ASSUME TypeInv, NEW h \in Handle,
         ImportSkip(h) \/ ImportWord(h) \/ ImportPattern(h) \/ ImportFails(h)
  PROVE  TypeInv'
<1> DEFINE f == frame[h]
<1>0. /\ CallOK(f) /\ cache' = [cache EXCEPT ![h] = cache[h]] /\ cache[h] \in CacheEntries
      /\ SetStorage(h, Storage(h)) \/ ~UNCHANGED <<db, txn, view>>
      /\ StorageOK(Storage(h)) /\ "error" \in Codes
  BY Unchanged, StorageTypes DEF ImportSkip, ImportWord, ImportPattern, ImportFails, FrameOK, Codes
<1>1. f.pc \in {"import_word", "import_pattern"} =>
        f.op = "import" /\ f.file \in Entries /\ f.line \in DOMAIN f.file
  BY DEF TypeInv, FrameOK, AtOK
<1>2. CASE ImportSkip(h)
  <2>1. FrameOK(NextEntry(f)) /\ Continue(h, NextEntry(f))
    BY <1>0, <1>1, <1>2, NextEntryOK DEF ImportSkip
  <2>2. faults' \in 0..MaxFaults /\ SetStorage(h, Storage(h))
    BY <1>0, <1>2, Unchanged DEF ImportSkip
  <2> QED BY <1>0, <2>1, <2>2, ContinueOK
<1>3. CASE ImportWord(h)
  <2> DEFINE e == f.file[f.line]
             i == IF Stored(CurrentDb(h), e.word) THEN GetWordId(h, e.word)
                  ELSE NextId(CurrentDb(h))
             g == [f EXCEPT !.id = i]
             s == Written(h, InsertWord(CurrentDb(h), e.word, e.confidence))
  <2>1. e.word \in Word /\ e.confidence \in Int
    BY <1>0, <1>1, <1>3, EntryTypes DEF ImportWord
  <2>2. Good(CurrentDb(h))
    BY StorageTypes
  <2>3. i \in Int
    <3>1. NextId(CurrentDb(h)) \in Int
      BY <2>2, NextIdIsNew DEF Good
    <3> QED BY <3>1, GetWordIdType
  <2>4. StorageOK(s)
    BY <2>1, <2>2, InsertWordGood, WrittenOK DEF Good
  <2>5. FrameOK(NextImportPattern(g))
    <3>1. CallOK(g) /\ g.op = f.op /\ g.file = f.file /\ g.line = f.line
      <4> HIDE DEF i
      <4> QED BY <1>0, <2>3 DEF CallOK, Frames
    <3> HIDE DEF g
    <3> QED BY <1>1, <1>3, <3>1, NextImportPatternOK DEF ImportWord
  <2>6. CASE CanWrite(h) /\ SetStorage(h, s) /\ Continue(h, NextImportPattern(g)) /\ UNCHANGED faults
    <3>1. faults' \in 0..MaxFaults
      BY <2>6, Unchanged
    <3> HIDE DEF g, s
    <3> QED BY <1>0, <2>4, <2>5, <2>6, <3>1, ContinueOK
  <2>7. ASSUME NEW z \in AfterFailure(h, Untouched(h)),
               WriteFails(h, z), SetStorage(h, z), Return(h, "error")
        PROVE  TypeInv'
    <3>1. StorageOK(z) /\ faults' \in 0..MaxFaults
      BY <2>7, UntouchedOK, WriteFailsOK
    <3> QED BY <1>0, <2>7, <3>1, ReturnOK
  <2> QED BY <1>3, <2>6, <2>7 DEF ImportWord
<1>4. CASE ImportPattern(h)
  <2> DEFINE r == f.file[f.line].patterns[f.product]
             b == r.learned = 0
  <2>1. r.pattern \in Pattern /\ b \in BOOLEAN /\ f.id \in Int
    <3>1. f.product \in DOMAIN f.file[f.line].patterns
      BY <1>4 DEF ImportPattern, TypeInv, FrameOK, AtOK
    <3>2. r \in [pattern : Pattern, learned : {0, 1}]
      BY <1>0, <1>1, <1>4, <3>1, EntryTypes DEF ImportPattern
    <3> QED BY <1>0, <3>2 DEF CallOK, Frames
  <2>2. FrameOK(NextImportPattern(f))
    BY <1>0, <1>1, <1>4, NextImportPatternOK DEF ImportPattern
  <2>3. /\ UNCHANGED cache
        /\ \/ PatternSaved(h, r.pattern, f.id, b) /\ Continue(h, NextImportPattern(f))
           \/ \E s \in AfterFailure(h, PartialPatterns(h, r.pattern, f.id, b)) :
                WriteFails(h, s) /\ SetStorage(h, s) /\ Return(h, "error")
    BY <1>4 DEF ImportPattern
  <2> HIDE DEF f, r, b
  <2> QED BY <2>1, <2>2, <2>3, PatternStep
<1>5. CASE ImportFails(h)
  <2>1. faults' \in 0..MaxFaults /\ SetStorage(h, Storage(h)) /\ Return(h, "error")
    BY <1>0, <1>5, Unchanged DEF ImportFails
  <2> QED BY <1>0, <2>1, ReturnOK
<1> QED BY <1>2, <1>3, <1>4, <1>5

LEMMA DeleteTyped ==
  ASSUME TypeInv, NEW h \in Handle, Delete(h)
  PROVE  TypeInv'
<1>0. /\ CallOK(frame[h]) /\ cache' = [cache EXCEPT ![h] = cache[h]] /\ cache[h] \in CacheEntries
      /\ StorageOK(Storage(h)) /\ Good(db) /\ "error" \in Codes
  BY Unchanged, StorageTypes DEF Delete, FrameOK, Codes
<1>1. ASSUME UNCHANGED <<db, txn, view>>, faults' \in 0..MaxFaults, Return(h, "error")
      PROVE  TypeInv'
  <2>1. SetStorage(h, Storage(h))
    BY <1>1, Unchanged
  <2> QED BY <1>0, <1>1, <2>1, ReturnOK
<1>2. CASE /\ SetStorage(h, [db |-> db, view |-> DeleteRows(db, frame[h].id), txn |-> "write"])
           /\ Continue(h, [frame[h] EXCEPT !.pc = "commit"]) /\ UNCHANGED faults
  <2> DEFINE s == [db |-> db, view |-> DeleteRows(db, frame[h].id), txn |-> "write"]
             g == [frame[h] EXCEPT !.pc = "commit"]
  <2>1. Good(DeleteRows(db, frame[h].id))
    BY <1>0, DeleteRowsGood DEF Good
  <2>2. StorageOK(s)
    BY <1>0, <2>1 DEF StorageOK, Good, GoodDb
  <2>3. FrameOK(g) /\ faults' \in 0..MaxFaults
    BY <1>0, <1>2, CommitOK, Unchanged
  <2>4. SetStorage(h, s) /\ Continue(h, g)
    BY <1>2
  <2> HIDE DEF s, g
  <2> QED BY <1>0, <2>2, <2>3, <2>4, ContinueOK
<1>3. /\ UNCHANGED faults => faults' \in 0..MaxFaults
      /\ WriteFails(h, Storage(h)) => faults' \in 0..MaxFaults
  BY Unchanged, WriteFailsOK
<1> QED BY <1>1, <1>2, <1>3 DEF Delete

LEMMA CommitTyped ==
  ASSUME TypeInv, NEW h \in Handle, Commit(h)
  PROVE  TypeInv'
<1>0. /\ cache' = [cache EXCEPT ![h] = cache[h]] /\ cache[h] \in CacheEntries
      /\ StorageOK(Storage(h)) /\ StorageOK(Committed(h))
      /\ "success" \in Codes /\ CommitError(frame[h].op) \in Codes
  BY Unchanged, StorageTypes DEF Commit, CommitError, Codes
<1>1. ASSUME NEW s, StorageOK(s), SetStorage(h, s), NEW r \in Codes, Return(h, r),
             faults' \in 0..MaxFaults
      PROVE  TypeInv'
  BY <1>0, <1>1, ReturnOK
<1>2. CASE SetStorage(h, Committed(h)) /\ Return(h, "success") /\ UNCHANGED faults
  BY <1>0, <1>1, <1>2, Unchanged
<1>3. CASE UNCHANGED <<db, txn, view, faults>> /\ Return(h, CommitError(frame[h].op))
  <2>1. SetStorage(h, Storage(h)) /\ faults' \in 0..MaxFaults
    BY <1>3, Unchanged
  <2> QED BY <1>0, <1>1, <1>3, <2>1
<1>4. CASE /\ Fault("commit") /\ Return(h, CommitError(frame[h].op))
           /\ \E s \in AfterFailure(h, {Storage(h)}) : SetStorage(h, s)
  <2>1. PICK s \in AfterFailure(h, {Storage(h)}) : SetStorage(h, s)
    BY <1>4
  <2>2. StorageOK(s) /\ faults' \in 0..MaxFaults
    BY <1>0, <1>4, <2>1, AfterFailureOK, Unchanged
  <2> QED BY <1>0, <1>1, <1>4, <2>1, <2>2
<1> QED BY <1>2, <1>3, <1>4 DEF Commit

LEMMA InitTyped == Init => TypeInv
<1> SUFFICES ASSUME Init PROVE TypeInv
  OBVIOUS
<1>1. Good(EmptyDb) /\ FrameOK(IdleFrame) /\ MaxCalls \in Nat /\ MaxFaults \in Nat
  BY EmptyDbGood, IdleFrameOK, LearningsAssumption DEF Good
<1>2. IdleFrame \in Frames
  BY <1>1 DEF FrameOK, CallOK
<1> QED BY <1>1, <1>2 DEF Init, TypeInv, TypeOK, Good, GoodDb

LEMMA NextTyped == TypeInv /\ [Next]_vars => TypeInv'
<1> SUFFICES ASSUME TypeInv, [Next]_vars PROVE TypeInv'
  OBVIOUS
<1>1. ASSUME NEW h \in Handle, Enter(h) PROVE TypeInv'
  BY <1>1, EnterTyped
<1>2. ASSUME NEW h \in Handle, Step(h) PROVE TypeInv'
  BY <1>2, LearnInternalTyped, LearnPatternsTyped, LearnPrefixWordTyped, StemTyped,
     TrainPatternTyped, ImportsTyped, DeleteTyped, CommitTyped DEF Step
<1>3. CASE UNCHANGED vars
  BY <1>3 DEF vars, TypeInv, TypeOK, Bounded, Ids, FrameOK, CallOK, AtOK
<1> QED BY <1>1, <1>2, <1>3 DEF Next

LEMMA TypeInvariant == Spec => []TypeInv
BY InitTyped, NextTyped, PTL DEF Spec

\* Every variable always holds a value of its type, for any number of handles, any
\* words and any way they are tokenized: in particular every stored word has a
\* positive id, which is what varnam_is_known_word tests for.
THEOREM TypeCorrect == Spec => []TypeOK
<1>1. TypeInv => TypeOK
  BY DEF TypeInv
<1> QED BY <1>1, TypeInvariant, PTL

-----------------------------------------------------------------------------
(***************************************************************************)
(* What gets into the committed file, and when: a transaction that a       *)
(* failed call left open is never published, only COMMIT publishes, and    *)
(* when nothing fails every call ends its transaction.                     *)
(***************************************************************************)

\* A step of g changes nothing of another handle.
Apart(g) ==
  \A h \in Handle \ {g} :
    frame'[h] = frame[h] /\ txn'[h] = txn[h] /\ view'[h] = view[h]

LEMMA ApartStep ==
  ASSUME TypeInv, NEW g \in Handle,
         (\E s : SetStorage(g, s)) \/ UNCHANGED <<txn, view>> \/ (UNCHANGED view /\ \E t : txn' = [txn EXCEPT ![g] = t]),
         (\E f : frame' = [frame EXCEPT ![g] = f]) \/ UNCHANGED frame
  PROVE  Apart(g)
<1>1. DOMAIN frame = Handle /\ DOMAIN txn = Handle /\ DOMAIN view = Handle
  BY DEF TypeInv, TypeOK
<1>2. \A h \in Handle \ {g} : frame'[h] = frame[h]
  BY <1>1
<1>3. \A h \in Handle \ {g} : txn'[h] = txn[h] /\ view'[h] = view[h]
  BY <1>1 DEF SetStorage
<1> QED BY <1>2, <1>3 DEF Apart

LEMMA LearnFailsApart ==
  ASSUME TypeInv, NEW g \in Handle, NEW s, LearnFails(g, s)
  PROVE  Apart(g)
<1>1. (\E z : SetStorage(g, z)) /\ (\E f : frame' = [frame EXCEPT ![g] = f])
  BY DEF LearnFails, Return, Continue
<1> QED BY <1>1, ApartStep

LEMMA EveryStepApart ==
  ASSUME TypeInv, NEW g \in Handle, Enter(g) \/ Step(g)
  PROVE  Apart(g)
<1>1. ASSUME NEW f, Begin(g, f) PROVE Apart(g)
  BY <1>1, ApartStep DEF Begin
<1>2. CASE Enter(g)
  <2>1. ASSUME NEW w, DeleteWord(g, w) PROVE Apart(g)
    <3>1. CASE /\ SetStorage(g, AfterGetWordId(g, w))
               /\ \E f : frame' = [frame EXCEPT ![g] = f]
      BY <3>1, ApartStep
    <3>2. CASE UNCHANGED <<txn, view, frame>>
      BY <3>2, ApartStep
    <3> QED BY <2>1, <3>1, <3>2 DEF DeleteWord
  <2>2. ASSUME NEW w, IsKnownWord(g, w) PROVE Apart(g)
    BY <2>2, ApartStep DEF IsKnownWord
  <2>3. CASE Reopen(g)
    BY <2>3, ApartStep DEF Reopen
  <2> QED BY <1>1, <1>2, <2>1, <2>2, <2>3
          DEF Enter, Learn, Train, LearnFromFile, Import, ImportUnreadable
<1>3. ASSUME NEW f, Continue(g, f), (\E s : SetStorage(g, s)) \/ UNCHANGED <<txn, view>>
      PROVE  Apart(g)
  BY <1>3, ApartStep DEF Continue
<1>4. ASSUME NEW code, Return(g, code), (\E s : SetStorage(g, s)) \/ UNCHANGED <<txn, view>>
      PROVE  Apart(g)
  BY <1>4, ApartStep DEF Return
<1>5. CASE LearnInternal(g)
  BY <1>3, <1>5, LearnFailsApart DEF LearnInternal, LearnWordSucceeds, LearnWordFails
<1>6. CASE LearnPrefixWord(g)
  BY <1>3, <1>6, LearnFailsApart DEF LearnPrefixWord, LearnWordSucceeds, LearnWordFails
<1>7. CASE LearnPattern(g) \/ LearnPrefixPattern(g)
  BY <1>3, <1>7, LearnFailsApart DEF LearnPattern, LearnPrefixPattern, LearnPatternOf, PatternSaved
<1>8. CASE Stem(g)
  BY <1>3, <1>4, <1>8 DEF Stem
<1>9. CASE TrainPattern(g)
  BY <1>3, <1>4, <1>9 DEF TrainPattern, PatternSaved
<1>10. CASE ImportSkip(g) \/ ImportFails(g)
  BY <1>3, <1>4, <1>10 DEF ImportSkip, ImportFails
<1>11. CASE ImportWord(g) \/ ImportPattern(g)
  BY <1>3, <1>4, <1>11 DEF ImportWord, ImportPattern, PatternSaved
<1>12. CASE Delete(g)
  BY <1>3, <1>4, <1>12 DEF Delete
<1>13. CASE Commit(g)
  BY <1>4, <1>13 DEF Commit
<1> QED BY <1>2, <1>5, <1>6, <1>7, <1>8, <1>9, <1>10, <1>11, <1>12, <1>13 DEF Step

-----------------------------------------------------------------------------
(* AbandonedNeverPublished.                                                *)

Abandoned(h) == txn[h] # "none" /\ frame[h].pc \in {"idle", "delete"}

StaysAbandoned(h) ==
  \/ txn'[h] = "none" /\ db' = db
  \/ frame'[h].pc \in {"idle", "delete"}
     /\ (txn[h] = "write" => txn'[h] = "write" /\ view'[h] = view[h])

LEMMA AbandonedStep ==
  ASSUME TypeInv, NEW h \in Handle, Abandoned(h), Enter(h) \/ Step(h)
  PROVE  StaysAbandoned(h)
<1>0. /\ DOMAIN frame = Handle /\ DOMAIN txn = Handle /\ DOMAIN view = Handle
      /\ IdleFrame.pc = "idle"
  BY DEF TypeInv, TypeOK, IdleFrame
<1>1. ASSUME UNCHANGED <<db, txn, view>>, frame'[h].pc \in {"idle", "delete"} PROVE StaysAbandoned(h)
  BY <1>1 DEF StaysAbandoned
<1>2. ASSUME NEW f, Begin(h, f) PROVE StaysAbandoned(h)
  BY <1>1, <1>2 DEF Begin, Abandoned
<1>3. ASSUME NEW w, SetStorage(h, AfterGetWordId(h, w)), frame'[h].pc \in {"idle", "delete"}
      PROVE  StaysAbandoned(h)
  <2>1. txn[h] = "write" => AfterGetWordId(h, w).txn = "write" /\ AfterGetWordId(h, w).view = view[h]
    BY DEF AfterGetWordId, AfterRead, Storage
  <2> QED BY <1>0, <1>3, <2>1 DEF SetStorage, StaysAbandoned
<1>4. ASSUME NEW w, DeleteWord(h, w) PROVE StaysAbandoned(h)
  <2> DEFINE f == [IdleFrame EXCEPT !.pc = "delete", !.op = "delete", !.arg = w,
                                    !.id = GetWordId(h, w)]
  <2>1. CASE SetStorage(h, AfterGetWordId(h, w)) /\ frame' = [frame EXCEPT ![h] = f]
    <3>1. f.pc = "delete"
      BY DEF IdleFrame
    <3> HIDE DEF f
    <3> QED BY <1>0, <1>3, <2>1, <3>1
  <2>2. CASE UNCHANGED <<db, txn, view, frame>>
    BY <1>1, <2>2 DEF Abandoned
  <2> QED BY <1>4, <2>1, <2>2 DEF DeleteWord
<1>5. ASSUME NEW w, IsKnownWord(h, w) PROVE StaysAbandoned(h)
  BY <1>3, <1>5 DEF IsKnownWord, Abandoned
<1>6. CASE Reopen(h)
  BY <1>0, <1>6 DEF Reopen, RolledBack, SetStorage, StaysAbandoned
<1>7. CASE Step(h)
  <2>1. Delete(h)
    BY <1>7 DEF Abandoned, Step, LearnInternal, LearnPattern, LearnPrefixWord, LearnPrefixPattern,
       Stem, TrainPattern, ImportSkip, ImportWord, ImportPattern, ImportFails, Commit
  <2>2. UNCHANGED <<db, txn, view>> /\ Return(h, "error")
    BY <2>1 DEF Delete, Abandoned
  <2> QED BY <1>0, <1>1, <2>2 DEF Return
<1> QED BY <1>2, <1>4, <1>5, <1>6, <1>7
        DEF Enter, Learn, Train, LearnFromFile, Import, ImportUnreadable

\* Whatever the calls of any number of handles and whatever fails in them, a
\* transaction left open by a call that failed is only ever rolled back.
THEOREM AbandonedTransactionsStayUnpublished == Spec => AbandonedNeverPublished
<1>1. TypeInv /\ [Next]_vars =>
        [\A h \in Handle :
           txn[h] # "none" /\ frame[h].pc \in {"idle", "delete"} =>
             \/ txn'[h] = "none" /\ db' = db
             \/ frame'[h].pc \in {"idle", "delete"}
                /\ (txn[h] = "write" => txn'[h] = "write" /\ view'[h] = view[h])]_vars
  <2> SUFFICES ASSUME TypeInv, [Next]_vars, NEW h \in Handle, Abandoned(h)
               PROVE  StaysAbandoned(h)
    BY DEF Abandoned, StaysAbandoned
  <2>1. CASE Enter(h) \/ Step(h)
    BY <2>1, AbandonedStep
  <2>2. ASSUME NEW g \in Handle, g # h, Enter(g) \/ Step(g) PROVE StaysAbandoned(h)
    BY <2>2, EveryStepApart DEF Apart, Abandoned, StaysAbandoned
  <2>3. CASE UNCHANGED vars
    BY <2>3 DEF vars, Abandoned, StaysAbandoned
  <2> QED BY <2>1, <2>2, <2>3 DEF Next
<1> QED BY <1>1, TypeInvariant, PTL DEF Spec, AbandonedNeverPublished

-----------------------------------------------------------------------------
(* PublishedByCommit.                                                      *)

\* A call that writes has a transaction, unless SQLite took it away.
InTransaction ==
  \A h \in Handle :
    frame[h].pc \notin {"idle", "delete"} /\ txn[h] = "none" =>
      faults > 0 /\ "autorollback" \in FaultKinds

\* What a step of h that leaves storage s has to show.
SafeContents(h, s) ==
  s.db # db => frame[h].pc # "idle" /\ txn[h] = "none" /\ faults > 0
               /\ "autorollback" \in FaultKinds

SafeStorage(h, s) ==
  /\ SafeContents(h, s)
  /\ s.txn = "none" => faults' > 0 /\ "autorollback" \in FaultKinds

SafeStep(h) ==
  db' # db =>
    \/ /\ frame[h].pc = "commit" /\ txn[h] = "write"
       /\ Returns(h, "success") /\ db' = view[h]
    \/ ~Idle(h) /\ txn[h] = "none" /\ faults > 0 /\ "autorollback" \in FaultKinds

LEMMA FaultsGrow ==
  ASSUME TypeInv, NEW h \in Handle, Enter(h) \/ Step(h)
  PROVE  faults' \in Int /\ faults' >= faults
<1>1. faults \in Nat
  BY LearningsAssumption DEF TypeInv, TypeOK
<1>2. UNCHANGED faults \/ faults' = faults + 1
  <2>1. ASSUME NEW s, WriteFails(h, s) PROVE UNCHANGED faults \/ faults' = faults + 1
    BY <2>1 DEF WriteFails, Fault
  <2>2. CASE Enter(h)
    BY <2>2 DEF Enter, Learn, Train, LearnFromFile, Import, ImportUnreadable, Begin,
       DeleteWord, IsKnownWord, Reopen, Fault
  <2>3. CASE LearnInternal(h) \/ LearnPrefixWord(h)
    BY <2>1, <2>3 DEF LearnInternal, LearnPrefixWord, LearnWordSucceeds, LearnWordFails, Fault
  <2>4. CASE LearnPattern(h) \/ LearnPrefixPattern(h)
    BY <2>1, <2>4 DEF LearnPattern, LearnPrefixPattern, LearnPatternOf, PatternSaved
  <2>5. CASE Stem(h) \/ TrainPattern(h)
    BY <2>1, <2>5 DEF Stem, TrainPattern, PatternSaved, Fault
  <2>6. CASE ImportSkip(h) \/ ImportWord(h) \/ ImportPattern(h) \/ ImportFails(h)
    BY <2>1, <2>6 DEF ImportSkip, ImportWord, ImportPattern, ImportFails, PatternSaved, Fault
  <2>7. CASE Delete(h) \/ Commit(h)
    BY <2>1, <2>7 DEF Delete, Commit, Fault
  <2> QED BY <2>2, <2>3, <2>4, <2>5, <2>6, <2>7 DEF Step
<1> QED BY <1>1, <1>2

LEMMA SafeSettled ==
  ASSUME TypeInv, InTransaction, NEW h \in Handle, Enter(h) \/ Step(h),
         NEW s, SetStorage(h, s),
         SafeStorage(h, s) \/ (SafeContents(h, s) /\ frame'[h].pc = "idle")
  PROVE  SafeStep(h) /\ InTransaction'
<1>1. DOMAIN txn = Handle /\ txn'[h] = s.txn /\ db' = s.db
  BY DEF TypeInv, TypeOK, SetStorage
<1>2. SafeStep(h)
  BY <1>1 DEF SafeStorage, SafeContents, SafeStep, Idle
<1>3. InTransaction'
  <2> SUFFICES ASSUME NEW g \in Handle, frame'[g].pc \notin {"idle", "delete"}, txn'[g] = "none"
               PROVE  faults' > 0 /\ "autorollback" \in FaultKinds
    BY DEF InTransaction
  <2>1. CASE g = h
    BY <1>1, <2>1 DEF SafeStorage
  <2>2. CASE g # h
    <3>1. frame'[g] = frame[g] /\ txn'[g] = txn[g]
      BY <2>2, EveryStepApart DEF Apart
    <3>2. faults > 0 /\ "autorollback" \in FaultKinds
      BY <3>1 DEF InTransaction
    <3>3. faults \in Int
      BY LearningsAssumption DEF TypeInv, TypeOK
    <3> QED BY <3>2, <3>3, FaultsGrow
  <2> QED BY <2>1, <2>2
<1> QED BY <1>2, <1>3

\* A step that ends the call, or keeps its hands off the file.
LEMMA SafeEnd ==
  ASSUME TypeInv, InTransaction, NEW h \in Handle, Enter(h) \/ Step(h),
         db' = db, frame'[h].pc \in {"idle", "delete"} \/ (txn'[h] # "none")
  PROVE  SafeStep(h) /\ InTransaction'
<1>1. SafeStep(h)
  BY DEF SafeStep
<1>2. InTransaction'
  <2> SUFFICES ASSUME NEW g \in Handle, frame'[g].pc \notin {"idle", "delete"}, txn'[g] = "none"
               PROVE  faults' > 0 /\ "autorollback" \in FaultKinds
    BY DEF InTransaction
  <2>1. g # h
    OBVIOUS
  <2>2. frame'[g] = frame[g] /\ txn'[g] = txn[g]
    BY <2>1, EveryStepApart DEF Apart
  <2>3. faults > 0 /\ "autorollback" \in FaultKinds /\ faults \in Int
    BY <2>2, LearningsAssumption DEF InTransaction, TypeInv, TypeOK
  <2> QED BY <2>3, FaultsGrow
<1> QED BY <1>1, <1>2

LEMMA EnterSafe ==
  ASSUME TypeInv, InTransaction, NEW h \in Handle, Enter(h)
  PROVE  SafeStep(h) /\ InTransaction'
<1>0. /\ DOMAIN frame = Handle /\ DOMAIN txn = Handle /\ IdleFrame.pc = "idle"
      /\ frame[h].pc = "idle" \/ Reopen(h)
  BY DEF TypeInv, TypeOK, IdleFrame, Enter, Learn, Train, LearnFromFile, Import,
     ImportUnreadable, Begin, DeleteWord, IsKnownWord, Call, Idle
<1>1. ASSUME NEW f, Begin(h, f) PROVE SafeStep(h) /\ InTransaction'
  <2>1. db' = db /\ (txn'[h] = "deferred" \/ UNCHANGED frame)
    BY <1>0, <1>1 DEF Begin
  <2>2. frame'[h].pc = "idle" \/ txn'[h] # "none"
    BY <1>1, <2>1 DEF Begin, Call, Idle
  <2> QED BY <2>1, <2>2, SafeEnd
<1>2. \A w : AfterGetWordId(h, w).db = db
  BY DEF AfterGetWordId, AfterRead, Storage
<1>3. ASSUME NEW w, DeleteWord(h, w) PROVE SafeStep(h) /\ InTransaction'
  <2> DEFINE f == [IdleFrame EXCEPT !.pc = "delete", !.op = "delete", !.arg = w,
                                    !.id = GetWordId(h, w)]
  <2>1. CASE SetStorage(h, AfterGetWordId(h, w)) /\ frame' = [frame EXCEPT ![h] = f]
    <3>1. f.pc = "delete"
      BY DEF IdleFrame
    <3> HIDE DEF f
    <3>2. db' = db /\ frame'[h].pc = "delete"
      BY <1>0, <1>2, <2>1, <3>1 DEF SetStorage
    <3> QED BY <3>2, SafeEnd
  <2>2. CASE UNCHANGED <<db, txn, view, frame>>
    <3>1. frame[h].pc = "idle"
      BY <1>3 DEF DeleteWord, Call, Idle
    <3> QED BY <2>2, <3>1, SafeEnd
  <2> QED BY <1>3, <2>1, <2>2 DEF DeleteWord
<1>4. ASSUME NEW w, IsKnownWord(h, w) PROVE SafeStep(h) /\ InTransaction'
  <2>1. db' = db /\ frame'[h].pc = "idle"
    BY <1>2, <1>4 DEF IsKnownWord, SetStorage, Call, Idle
  <2> QED BY <2>1, SafeEnd
<1>5. CASE Reopen(h)
  <2>1. db' = db /\ frame'[h].pc = "idle"
    BY <1>0, <1>5 DEF Reopen, RolledBack, SetStorage
  <2> QED BY <2>1, SafeEnd
<1> QED BY <1>1, <1>3, <1>4, <1>5
        DEF Enter, Learn, Train, LearnFromFile, Import, ImportUnreadable

\* The storages the statements of a call leave.
LEMMA SafeStorages ==
  ASSUME TypeInv, InTransaction, NEW h \in Handle, frame[h].pc \notin {"idle", "delete"},
         Step(h)
  PROVE  /\ SafeStorage(h, Storage(h)) /\ \A d : SafeStorage(h, Written(h, d))
         /\ \A partial : (\A s \in partial : SafeStorage(h, s)) =>
              \A s \in AfterFailure(h, partial) : WriteFails(h, s) => SafeStorage(h, s)
<1>1. txn[h] = "none" => faults > 0 /\ "autorollback" \in FaultKinds
  BY DEF InTransaction
<1>2. faults' \in Int /\ faults' >= faults /\ faults \in Int
  BY FaultsGrow, LearningsAssumption DEF TypeInv, TypeOK
<1>3. SafeStorage(h, Storage(h))
  BY <1>1, <1>2 DEF SafeStorage, SafeContents, Storage
<1>4. \A d : SafeStorage(h, Written(h, d))
  BY <1>1, <1>2 DEF SafeStorage, SafeContents, Storage, Written
<1>5. Fault("statement") /\ "autorollback" \in FaultKinds => SafeStorage(h, RolledBack(h))
  <2>1. RolledBack(h).db = db
    BY DEF RolledBack
  <2>2. Fault("statement") => faults' > 0
    BY <1>2, LearningsAssumption DEF Fault, TypeInv, TypeOK
  <2> QED BY <2>1, <2>2 DEF SafeStorage, SafeContents
<1> QED BY <1>3, <1>4, <1>5 DEF AfterFailure, WriteFails

LEMMA LearnFailsSafe ==
  ASSUME TypeInv, InTransaction, NEW h \in Handle, Step(h), NEW s, SafeStorage(h, s),
         LearnFails(h, s)
  PROVE  SafeStep(h) /\ InTransaction'
<1>1. CASE SetStorage(h, [RolledBack(h) EXCEPT !.db = s.db]) /\ Return(h, "error")
  <2> DEFINE e == [RolledBack(h) EXCEPT !.db = s.db]
  <2>1. e.db = s.db /\ DOMAIN frame = Handle /\ IdleFrame.pc = "idle"
    BY DEF RolledBack, TypeInv, TypeOK, IdleFrame
  <2> HIDE DEF e
  <2>2. SafeContents(h, e) /\ frame'[h].pc = "idle" /\ SetStorage(h, e)
    BY <1>1, <2>1 DEF SafeStorage, SafeContents, Return, e
  <2> QED BY <2>2, SafeSettled
<1>2. CASE SetStorage(h, s)
  BY <1>2, SafeSettled
<1> QED BY <1>1, <1>2 DEF LearnFails

LEMMA StepSafe ==
  ASSUME TypeInv, InTransaction, NEW h \in Handle, Step(h)
  PROVE  SafeStep(h) /\ InTransaction'
<1>0. /\ DOMAIN frame = Handle /\ DOMAIN txn = Handle /\ IdleFrame.pc = "idle"
      /\ UNCHANGED <<db, txn, view>> => SetStorage(h, Storage(h))
  BY Unchanged DEF TypeInv, TypeOK, IdleFrame
<1>1. ASSUME frame[h].pc \notin {"idle", "delete"}, NEW s, SetStorage(h, s), SafeStorage(h, s)
      PROVE  SafeStep(h) /\ InTransaction'
  BY <1>1, SafeSettled
<1>2. CASE LearnInternal(h) \/ LearnPrefixWord(h)
  <2>1. frame[h].pc \notin {"idle", "delete"}
    BY <1>2 DEF LearnInternal, LearnPrefixWord
  <2>2. ASSUME LearnFails(h, Storage(h)) PROVE SafeStep(h) /\ InTransaction'
    BY <2>1, <2>2, SafeStorages, LearnFailsSafe
  <2>3. ASSUME NEW w, NEW c, LearnWordSucceeds(h, w, c) PROVE SafeStep(h) /\ InTransaction'
    BY <1>1, <2>1, <2>3, SafeStorages DEF LearnWordSucceeds
  <2>4. CASE LearnWordFails(h)
    <3>1. PICK s \in AfterFailure(h, Untouched(h)) : WriteFails(h, s) /\ LearnFails(h, s)
      BY <2>4 DEF LearnWordFails
    <3>2. \A z \in Untouched(h) : SafeStorage(h, z)
      BY <2>1, SafeStorages DEF Untouched
    <3> QED BY <2>1, <3>1, <3>2, SafeStorages, LearnFailsSafe
  <2> QED BY <1>2, <2>2, <2>3, <2>4 DEF LearnInternal, LearnPrefixWord
<1>3. ASSUME frame[h].pc \notin {"idle", "delete"}, NEW p, NEW i, NEW b
      PROVE  /\ PatternSaved(h, p, i, b) => SafeStep(h) /\ InTransaction'
             /\ \A s \in AfterFailure(h, PartialPatterns(h, p, i, b)) :
                  WriteFails(h, s) => SafeStorage(h, s)
  <2>1. \A s \in PartialPatterns(h, p, i, b) : SafeStorage(h, s)
    BY <1>3, SafeStorages DEF PartialPatterns
  <2>2. PatternSaved(h, p, i, b) => SafeStep(h) /\ InTransaction'
    BY <1>1, <1>3, SafeStorages DEF PatternSaved
  <2> QED BY <1>3, <2>1, <2>2, SafeStorages
<1>4. ASSUME frame[h].pc \notin {"idle", "delete"}, NEW w, NEW p, NEW b, LearnPatternOf(h, w, p, b)
      PROVE  SafeStep(h) /\ InTransaction'
  <2>1. CASE PatternSaved(h, p, GetWordId(h, w), b)
    BY <1>3, <1>4, <2>1
  <2>2. ASSUME NEW s \in AfterFailure(h, PartialPatterns(h, p, GetWordId(h, w), b)),
               WriteFails(h, s), LearnFails(h, s)
        PROVE  SafeStep(h) /\ InTransaction'
    BY <1>3, <1>4, <2>2, LearnFailsSafe
  <2> QED BY <1>4, <2>1, <2>2 DEF LearnPatternOf
<1>5. CASE LearnPattern(h) \/ LearnPrefixPattern(h)
  BY <1>4, <1>5 DEF LearnPattern, LearnPrefixPattern
<1>6. CASE Stem(h) \/ ImportSkip(h) \/ ImportFails(h)
  <2>1. frame[h].pc \notin {"idle", "delete"} /\ UNCHANGED <<db, txn, view>>
    BY <1>6 DEF Stem, ImportSkip, ImportFails
  <2> QED BY <1>0, <1>1, <2>1, SafeStorages
<1>7. CASE TrainPattern(h)
  <2>1. frame[h].pc \notin {"idle", "delete"}
    BY <1>7 DEF TrainPattern
  <2> QED BY <1>1, <1>3, <1>7, <2>1 DEF TrainPattern
<1>8. CASE ImportPattern(h)
  <2>1. frame[h].pc \notin {"idle", "delete"}
    BY <1>8 DEF ImportPattern
  <2> QED BY <1>1, <1>3, <1>8, <2>1 DEF ImportPattern
<1>9. CASE ImportWord(h)
  <2>1. frame[h].pc \notin {"idle", "delete"}
    BY <1>9 DEF ImportWord
  <2>2. \A z \in Untouched(h) : SafeStorage(h, z)
    BY <2>1, SafeStorages DEF Untouched
  <2>3. \A z \in AfterFailure(h, Untouched(h)) : WriteFails(h, z) => SafeStorage(h, z)
    BY <2>1, <2>2, SafeStorages
  <2>4. (\E d : SetStorage(h, Written(h, d)))
        \/ \E z \in AfterFailure(h, Untouched(h)) : WriteFails(h, z) /\ SetStorage(h, z)
    BY <1>9 DEF ImportWord
  <2> QED BY <1>1, <2>1, <2>3, <2>4, SafeStorages
<1>10. CASE Delete(h)
  <2>1. CASE SetStorage(h, [db |-> db, view |-> DeleteRows(db, frame[h].id), txn |-> "write"])
    <3>1. db' = db /\ txn'[h] = "write"
      BY <1>0, <2>1 DEF SetStorage
    <3> QED BY <3>1, SafeEnd
  <2>2. CASE UNCHANGED <<db, txn, view>> /\ Return(h, "error")
    <3>1. db' = db /\ frame'[h].pc = "idle"
      BY <1>0, <2>2 DEF Return
    <3> QED BY <3>1, SafeEnd
  <2> QED BY <1>10, <2>1, <2>2 DEF Delete
<1>11. CASE Commit(h)
  <2>0. frame[h].pc = "commit"
    BY <1>11 DEF Commit
  <2>1. \A code : Return(h, code) => frame'[h].pc = "idle" /\ rc' = [rc EXCEPT ![h] = code]
    BY <1>0 DEF Return
  <2>2. CASE txn[h] = "write" /\ SetStorage(h, Committed(h)) /\ Return(h, "success")
    <3>1. db' = view[h] /\ frame'[h].pc = "idle" /\ DOMAIN rc = Handle
      BY <2>1, <2>2 DEF SetStorage, Committed, TypeInv, TypeOK
    <3>2. Returns(h, "success")
      BY <2>0, <2>1, <2>2, <3>1 DEF Returns, Idle
    <3>3. SafeStep(h)
      BY <2>0, <2>2, <3>1, <3>2 DEF SafeStep
    <3>4. InTransaction'
      <4> SUFFICES ASSUME NEW g \in Handle, frame'[g].pc \notin {"idle", "delete"}, txn'[g] = "none"
                   PROVE  faults' > 0 /\ "autorollback" \in FaultKinds
        BY DEF InTransaction
      <4>1. g # h
        BY <3>1
      <4>2. frame'[g] = frame[g] /\ txn'[g] = txn[g]
        BY <4>1, EveryStepApart DEF Apart
      <4>3. faults > 0 /\ "autorollback" \in FaultKinds /\ faults \in Int
        BY <4>2, LearningsAssumption DEF InTransaction, TypeInv, TypeOK
      <4> QED BY <4>3, FaultsGrow
    <3> QED BY <3>3, <3>4
  <2>3. ASSUME db' = db, NEW code, Return(h, code) PROVE SafeStep(h) /\ InTransaction'
    BY <2>1, <2>3, SafeEnd
  <2>4. CASE txn[h] # "write" /\ SetStorage(h, Committed(h)) /\ Return(h, "success")
    <3>1. db' = db
      BY <2>4 DEF SetStorage, Committed
    <3> QED BY <2>3, <2>4, <3>1
  <2>5. ASSUME NEW s \in AfterFailure(h, {Storage(h)}), SetStorage(h, s), NEW code, Return(h, code)
        PROVE  SafeStep(h) /\ InTransaction'
    <3>1. db' = db
      BY <2>5 DEF AfterFailure, Storage, RolledBack, SetStorage
    <3> QED BY <2>3, <2>5, <3>1
  <2> QED BY <1>11, <2>2, <2>3, <2>4, <2>5 DEF Commit
<1> QED BY <1>2, <1>5, <1>6, <1>7, <1>8, <1>9, <1>10, <1>11 DEF Step

LEMMA TransactionsHeld == Spec => []InTransaction
<1>1. Init => InTransaction
  BY DEF Init, InTransaction, IdleFrame
<1>2. TypeInv /\ InTransaction /\ [Next]_vars => InTransaction'
  <2> SUFFICES ASSUME TypeInv, InTransaction, [Next]_vars PROVE InTransaction'
    OBVIOUS
  <2>1. CASE UNCHANGED vars
    BY <2>1 DEF vars, InTransaction
  <2>2. CASE Next
    BY <2>2, EnterSafe, StepSafe DEF Next
  <2> QED BY <2>1, <2>2
<1> QED BY <1>1, <1>2, TypeInvariant, PTL DEF Spec

\* Only the COMMIT of a call that has not failed publishes, whatever the calls of any
\* number of handles; the one exception is a call that SQLite has thrown out of its
\* transaction.
THEOREM OnlyCommitPublishes == Spec => PublishedByCommit
<1>1. TypeInv /\ InTransaction /\ [Next]_vars =>
        [db' # db =>
           \E h \in Handle :
             \/ /\ frame[h].pc = "commit" /\ txn[h] = "write"
                /\ Returns(h, "success") /\ db' = view[h]
             \/ ~Idle(h) /\ txn[h] = "none" /\ faults > 0 /\ "autorollback" \in FaultKinds]_vars
  <2> SUFFICES ASSUME TypeInv, InTransaction, [Next]_vars, db' # db
               PROVE  \E h \in Handle :
                        \/ /\ frame[h].pc = "commit" /\ txn[h] = "write"
                           /\ Returns(h, "success") /\ db' = view[h]
                        \/ ~Idle(h) /\ txn[h] = "none" /\ faults > 0
                           /\ "autorollback" \in FaultKinds
    OBVIOUS
  <2>1. Next
    BY DEF vars
  <2>2. PICK h \in Handle : Enter(h) \/ Step(h)
    BY <2>1 DEF Next
  <2>3. SafeStep(h)
    BY <2>2, EnterSafe, StepSafe
  <2> QED BY <2>3 DEF SafeStep
<1> QED BY <1>1, TypeInvariant, TransactionsHeld, PTL DEF Spec, PublishedByCommit

-----------------------------------------------------------------------------
(* What a step can do to the file and to its handle's transaction.         *)

\* No file in sight has two rows for one word, or one id for two words.
OneToOneFiles == OneToOne(db) /\ \A h \in Handle : OneToOne(view[h])

\* The statements of h add to what h sees.
Adds(h, e) == Grown(CurrentDb(h), e) /\ OneToOne(e)

\* What a statement that may fail leaves.
Rewrites(h, s) ==
  \/ s \in {Storage(h), RolledBack(h)}
  \/ CanWrite(h) /\ \E e : Adds(h, e) /\ s = Written(h, e)

\* After BEGIN, and after the rollback of varnam_learn and varnam_train.
Begun(h) == [Storage(h) EXCEPT !.txn = "deferred"]
Discarded(h, s) == [RolledBack(h) EXCEPT !.db = s.db]

Moves(h, s) ==
  \/ s \in {Storage(h), AfterRead(h), RolledBack(h), Begun(h)}
  \/ frame[h].pc = "commit" /\ s = Committed(h)
  \/ /\ CanWrite(h) /\ frame[h].pc \notin {"idle", "delete", "commit"}
     /\ \E e : Adds(h, e) /\ s \in {Written(h, e), Discarded(h, Written(h, e))}
  \/ /\ CanWrite(h) /\ txn[h] = "none" /\ frame'[h].pc = "commit"
     /\ s = [db |-> db, view |-> DeleteRows(db, frame[h].id), txn |-> "write"]

Moving(h) == \E s : SetStorage(h, s) /\ Moves(h, s)

LEMMA LearnFailsMoves ==
  ASSUME TypeInv, NEW h \in Handle, frame[h].pc \notin {"idle", "delete", "commit"},
         NEW s, Rewrites(h, s), LearnFails(h, s)
  PROVE  Moving(h)
<1> DEFINE z == Discarded(h, s)
<1>1. CASE SetStorage(h, s)
  BY <1>1 DEF Moving, Moves, Rewrites
<1>2. CASE SetStorage(h, z)
  <2>1. CASE s \in {Storage(h), RolledBack(h)}
    <3>1. z = RolledBack(h)
      BY <2>1 DEF Storage, RolledBack, Discarded
    <3> QED BY <1>2, <3>1 DEF Moving, Moves
  <2>2. CASE CanWrite(h) /\ \E e : Adds(h, e) /\ s = Written(h, e)
    <3>1. PICK e : Adds(h, e) /\ s = Written(h, e)
      BY <2>2
    <3>2. Moves(h, z)
      BY <2>2, <3>1 DEF Moves
    <3> QED BY <1>2, <3>2 DEF Moving
  <2> QED BY <2>1, <2>2 DEF Rewrites
<1> QED BY <1>1, <1>2 DEF LearnFails, Discarded

\* What learn_word, the insert of import and vwt_persist_pattern add.
LEMMA StatementsAdd ==
  ASSUME TypeInv, OneToOneFiles, NEW h \in Handle
  PROVE  /\ Adds(h, CurrentDb(h))
         /\ \A w \in Word, n \in Int : /\ Adds(h, LearnedDb(CurrentDb(h), w, n))
                                      /\ Adds(h, InsertWord(CurrentDb(h), w, n))
         /\ \A p \in Pattern, i \in Int, b \in BOOLEAN :
              /\ Adds(h, PersistPattern(CurrentDb(h), p, i, b))
              /\ Adds(h, InsertPattern(CurrentDb(h), p, i))
<1> DEFINE d == CurrentDb(h)
<1>1. Good(d) /\ OneToOne(d)
  BY StorageTypes DEF CurrentDb, OneToOneFiles
<1> HIDE DEF d
<1>2. Grown(d, d)
  BY <1>1, GrownReflexive DEF Good, GoodDb
<1>3. ASSUME NEW w \in Word, NEW n \in Int
      PROVE  \A e \in {LearnedDb(d, w, n), InsertWord(d, w, n)} : Grown(d, e) /\ OneToOne(e)
  BY <1>1, InsertWordGrows, BumpConfidenceGrows DEF Good, LearnedDb
<1>4. ASSUME NEW p \in Pattern, NEW i \in Int, NEW b \in BOOLEAN
      PROVE  \A e \in {InsertPattern(d, p, i), PersistPattern(d, p, i, b)} :
               Grown(d, e) /\ OneToOne(e)
  BY <1>1, PersistPatternGrows DEF Good
<1> QED BY <1>1, <1>2, <1>3, <1>4 DEF Adds, d

LEMMA FailuresRewrite ==
  ASSUME TypeInv, OneToOneFiles, NEW h \in Handle,
         NEW partial, \A s \in partial :
           s = Storage(h) \/ \E e : Adds(h, e) /\ s = Written(h, e),
         NEW s \in AfterFailure(h, partial), WriteFails(h, s)
  PROVE  Rewrites(h, s)
BY DEF AfterFailure, WriteFails, Rewrites

LEMMA PatternMoves ==
  ASSUME TypeInv, OneToOneFiles, NEW h \in Handle,
         NEW p \in Pattern, NEW i \in Int, NEW b \in BOOLEAN,
         frame[h].pc \notin {"idle", "delete", "commit"}
  PROVE  /\ PatternSaved(h, p, i, b) => Moving(h)
         /\ \A s \in AfterFailure(h, PartialPatterns(h, p, i, b)) :
              WriteFails(h, s) => Rewrites(h, s)
<1>1. Adds(h, PersistPattern(CurrentDb(h), p, i, b)) /\ Adds(h, InsertPattern(CurrentDb(h), p, i))
  BY StatementsAdd
<1>2. PatternSaved(h, p, i, b) => Moving(h)
  BY <1>1 DEF PatternSaved, Moving, Moves
<1>3. \A s \in PartialPatterns(h, p, i, b) :
        s = Storage(h) \/ \E e : Adds(h, e) /\ s = Written(h, e)
  BY <1>1 DEF PartialPatterns
<1> QED BY <1>2, <1>3, FailuresRewrite

LEMMA UntouchedRewrites ==
  ASSUME TypeInv, OneToOneFiles, NEW h \in Handle,
         NEW s \in AfterFailure(h, Untouched(h)), WriteFails(h, s)
  PROVE  Rewrites(h, s)
<1>1. \A z \in Untouched(h) : z = Storage(h) \/ \E e : Adds(h, e) /\ z = Written(h, e)
  BY StatementsAdd DEF Untouched
<1> QED BY <1>1, FailuresRewrite

LEMMA LearnWordMoves ==
  ASSUME TypeInv, OneToOneFiles, NEW h \in Handle, NEW w \in Word, NEW n \in Int,
         frame[h].pc \notin {"idle", "delete", "commit"},
         LearnWordSucceeds(h, w, n) \/ LearnWordFails(h)
  PROVE  Moving(h)
<1>1. CASE LearnWordSucceeds(h, w, n)
  BY <1>1, StatementsAdd DEF LearnWordSucceeds, Moving, Moves
<1>2. CASE LearnWordFails(h)
  BY <1>2, UntouchedRewrites, LearnFailsMoves DEF LearnWordFails
<1> QED BY <1>1, <1>2

LEMMA EnterMoves ==
  ASSUME TypeInv, NEW h \in Handle, Enter(h)
  PROVE  Moving(h)
<1>0. UNCHANGED <<db, txn, view>> => Moving(h)
  BY Unchanged DEF Moving, Moves
<1>1. ASSUME NEW f, Begin(h, f) PROVE Moving(h)
  <2>1. CASE txn[h] = "none" /\ txn' = [txn EXCEPT ![h] = "deferred"]
    <3>1. view = [view EXCEPT ![h] = view[h]]
      BY DEF TypeInv, TypeOK
    <3>2. Begun(h).db = db /\ Begun(h).view = view[h] /\ Begun(h).txn = "deferred"
      BY DEF Begun, Storage
    <3>3. SetStorage(h, Begun(h))
      BY <1>1, <2>1, <3>1, <3>2 DEF Begin, SetStorage
    <3> QED BY <2>1, <3>3 DEF Moving, Moves
  <2>2. CASE UNCHANGED txn
    BY <1>0, <1>1, <2>2 DEF Begin
  <2> QED BY <1>1, <2>1, <2>2 DEF Begin
<1>2. ASSUME NEW w, SetStorage(h, AfterGetWordId(h, w)) PROVE Moving(h)
  BY <1>2 DEF AfterGetWordId, Moving, Moves
<1>3. CASE Reopen(h)
  BY <1>3 DEF Reopen, Moving, Moves
<1> QED BY <1>0, <1>1, <1>2, <1>3
        DEF Enter, Learn, Train, LearnFromFile, Import, ImportUnreadable, DeleteWord, IsKnownWord

LEMMA StepMoves ==
  ASSUME TypeInv, OneToOneFiles, NEW h \in Handle, Step(h)
  PROVE  Moving(h)
<1> DEFINE f == frame[h]
<1>0. UNCHANGED <<db, txn, view>> => Moving(h)
  BY Unchanged DEF Moving, Moves
<1>1. f.pc \in PatternPcs \cup {"learn", "train", "import_word", "import_pattern"} =>
        f.pc \notin {"idle", "delete", "commit"}
  BY DEF PatternPcs
<1>2. /\ Rewrites(h, Storage(h))
      /\ \A s : Rewrites(h, s) /\ SetStorage(h, s) /\ f.pc \notin {"idle", "delete", "commit"} =>
                Moving(h)
  BY DEF Rewrites, Moving, Moves
<1>3. CASE LearnInternal(h)
  <2>1. f.pc = "learn" /\ f.word \in Word /\ f.confidence \in Int
    BY <1>3, LearningLocals DEF LearnInternal
  <2>2. \/ LearnFails(h, Storage(h))
        \/ LearnWordSucceeds(h, f.word, f.confidence) \/ LearnWordFails(h)
    BY <1>3 DEF LearnInternal
  <2> QED BY <1>1, <1>2, <2>1, <2>2, LearnFailsMoves, LearnWordMoves
<1>4. CASE LearnPrefixWord(h)
  <2>1. f.pc = "prefix_word" /\ PrefixOf(f).word \in Word /\ 1 \in Int
    <3>1. /\ f.pc = "prefix_word" /\ f.word \in Word /\ f.product \in DOMAIN Plan[f.word]
          /\ f.prefix \in DOMAIN Plan[f.word][f.product].prefixes
      BY <1>4 DEF LearnPrefixWord, TypeInv, FrameOK, AtOK, PatternPcs
    <3> QED BY <3>1, PlanTypes DEF PrefixOf
  <2>2. LearnWordSucceeds(h, PrefixOf(f).word, 1) \/ LearnWordFails(h)
    BY <1>4 DEF LearnPrefixWord
  <2> QED BY <2>1, <2>2, LearnWordMoves
<1>5. ASSUME NEW w, NEW p \in Pattern, NEW b \in BOOLEAN, f.pc \in PatternPcs,
             LearnPatternOf(h, w, p, b)
      PROVE  Moving(h)
  <2>1. GetWordId(h, w) \in Int
    BY GetWordIdType
  <2> QED BY <1>1, <1>5, <2>1, PatternMoves, LearnFailsMoves DEF LearnPatternOf
<1>6. CASE LearnPattern(h) \/ LearnPrefixPattern(h)
  <2>1. /\ f.pc \in PatternPcs /\ f.word \in Word /\ f.product \in DOMAIN Plan[f.word]
        /\ LearnPrefixPattern(h) => f.prefix \in DOMAIN Plan[f.word][f.product].prefixes
    BY <1>6 DEF LearnPattern, LearnPrefixPattern, TypeInv, FrameOK, AtOK, PatternPcs
  <2>2. /\ Plan[f.word][f.product].pattern \in Pattern
        /\ LearnPrefixPattern(h) => PrefixOf(f).pattern \in Pattern
    BY <2>1, PlanTypes DEF PrefixOf
  <2> QED BY <1>5, <1>6, <2>1, <2>2 DEF LearnPattern, LearnPrefixPattern
<1>7. CASE Stem(h) \/ ImportSkip(h) \/ ImportFails(h)
  BY <1>0, <1>7 DEF Stem, ImportSkip, ImportFails
<1>8. CASE TrainPattern(h)
  <2>1. f.pc = "train" /\ f.pattern \in Pattern /\ GetWordId(h, f.arg) \in Int
    BY <1>8, GetWordIdType DEF TrainPattern, TypeInv, FrameOK, AtOK, CallOK
  <2>2. \/ PatternSaved(h, f.pattern, GetWordId(h, f.arg), FALSE)
        \/ \E s \in AfterFailure(h, PartialPatterns(h, f.pattern, GetWordId(h, f.arg), FALSE)) :
             WriteFails(h, s) /\ SetStorage(h, s)
    BY <1>8 DEF TrainPattern
  <2> QED BY <1>2, <2>1, <2>2, PatternMoves
<1>9. CASE ImportWord(h)
  <2> DEFINE e == f.file[f.line]
  <2>1. f.pc = "import_word" /\ e.word \in Word /\ e.confidence \in Int
    BY <1>9, EntryTypes DEF ImportWord, TypeInv, FrameOK, AtOK
  <2>2. \/ /\ CanWrite(h)
           /\ SetStorage(h, Written(h, InsertWord(CurrentDb(h), e.word, e.confidence)))
        \/ \E s \in AfterFailure(h, Untouched(h)) : WriteFails(h, s) /\ SetStorage(h, s)
    BY <1>9 DEF ImportWord
  <2>3. Adds(h, InsertWord(CurrentDb(h), e.word, e.confidence))
    BY <2>1, StatementsAdd
  <2> HIDE DEF e
  <2>4. CASE /\ CanWrite(h)
             /\ SetStorage(h, Written(h, InsertWord(CurrentDb(h), e.word, e.confidence)))
    BY <2>1, <2>3, <2>4 DEF Moving, Moves
  <2> QED BY <1>2, <2>1, <2>2, <2>4, UntouchedRewrites
<1>10. CASE ImportPattern(h)
  <2> DEFINE r == f.file[f.line].patterns[f.product]
  <2>1. f.pc = "import_pattern" /\ r.pattern \in Pattern /\ f.id \in Int
    <3>1. /\ f.pc = "import_pattern" /\ CallOK(f) /\ f.file \in Entries /\ f.line \in DOMAIN f.file
          /\ f.product \in DOMAIN f.file[f.line].patterns
      BY <1>10 DEF ImportPattern, TypeInv, FrameOK, AtOK
    <3>2. r \in [pattern : Pattern, learned : {0, 1}]
      BY <3>1, EntryTypes
    <3> QED BY <3>1, <3>2 DEF CallOK, Frames
  <2>2. \/ PatternSaved(h, r.pattern, f.id, r.learned = 0)
        \/ \E s \in AfterFailure(h, PartialPatterns(h, r.pattern, f.id, r.learned = 0)) :
             WriteFails(h, s) /\ SetStorage(h, s)
    BY <1>10 DEF ImportPattern
  <2>3. (r.learned = 0) \in BOOLEAN
    OBVIOUS
  <2> HIDE DEF r
  <2> QED BY <1>2, <2>1, <2>2, <2>3, PatternMoves
<1>11. CASE Delete(h)
  <2>1. CASE /\ txn[h] = "none" /\ CanWrite(h)
             /\ SetStorage(h, [db |-> db, view |-> DeleteRows(db, f.id), txn |-> "write"])
             /\ Continue(h, [f EXCEPT !.pc = "commit"])
    <3>1. frame'[h].pc = "commit"
      BY <2>1 DEF Continue, TypeInv, TypeOK, Frames
    <3> QED BY <2>1, <3>1 DEF Moving, Moves
  <2> QED BY <1>0, <1>11, <2>1 DEF Delete
<1>12. CASE Commit(h)
  <2>1. f.pc = "commit"
    BY <1>12 DEF Commit
  <2>2. \/ SetStorage(h, Committed(h)) \/ UNCHANGED <<db, txn, view>>
        \/ \E s \in AfterFailure(h, {Storage(h)}) : SetStorage(h, s)
    BY <1>12 DEF Commit
  <2>3. \A s \in AfterFailure(h, {Storage(h)}) : s \in {Storage(h), RolledBack(h)}
    BY DEF AfterFailure
  <2> QED BY <1>0, <2>1, <2>2, <2>3 DEF Moving, Moves
<1> QED BY <1>3, <1>4, <1>6, <1>7, <1>8, <1>9, <1>10, <1>11, <1>12 DEF Step

-----------------------------------------------------------------------------
(* One writer at a time, and what it has written.                          *)

OneWriter == \A g, h \in Handle : txn[g] = "write" /\ txn[h] = "write" => g = h

\* What a transaction that has written holds: the committed file with more in it or,
\* in vwt_delete_word, without the rows of one id.
WrittenBy(f, v) ==
  \/ Grown(db, v)
  \/ f.pc = "commit" /\ \E i : v = DeleteRows(db, i)

WriterInv ==
  /\ OneToOneFiles /\ OneWriter
  /\ \A h \in Handle :
       txn[h] = "write" /\ frame[h].pc \notin {"idle", "delete"} =>
         WrittenBy(frame[h], view[h])

\* The storages of Moves, field by field.
LEMMA StorageFields ==
  ASSUME NEW h
  PROVE  /\ Storage(h).db = db /\ Storage(h).view = view[h] /\ Storage(h).txn = txn[h]
         /\ RolledBack(h).db = db /\ RolledBack(h).view = EmptyDb /\ RolledBack(h).txn = "none"
         /\ Committed(h).db = (IF txn[h] = "write" THEN view[h] ELSE db)
         /\ Committed(h).view = EmptyDb /\ Committed(h).txn = "none"
         /\ Begun(h).db = db /\ Begun(h).view = view[h] /\ Begun(h).txn = "deferred"
BY DEF Storage, RolledBack, Committed, Begun

LEMMA ReadFields ==
  ASSUME NEW h
  PROVE  /\ AfterRead(h).db = db /\ AfterRead(h).view \in {db, view[h]}
         /\ AfterRead(h).txn = "write" => txn[h] = "write" /\ AfterRead(h).view = view[h]
<1>1. CASE txn[h] = "deferred"
  <2>1. AfterRead(h) = [db |-> db, view |-> db, txn |-> "read"]
    BY <1>1 DEF AfterRead, Storage
  <2> QED BY <2>1
<1>2. CASE txn[h] # "deferred"
  BY <1>2, StorageFields DEF AfterRead
<1> QED BY <1>1, <1>2

LEMMA WrittenFields ==
  ASSUME NEW h, NEW e
  PROVE  /\ Written(h, e).db = (IF txn[h] = "none" THEN e ELSE db)
         /\ Written(h, e).view = (IF txn[h] = "none" THEN view[h] ELSE e)
         /\ Written(h, e).txn = (IF txn[h] = "none" THEN "none" ELSE "write")
         /\ Discarded(h, Written(h, e)).db = (IF txn[h] = "none" THEN e ELSE db)
         /\ Discarded(h, Written(h, e)).view = EmptyDb
         /\ Discarded(h, Written(h, e)).txn = "none"
<1>1. /\ Written(h, e).db = (IF txn[h] = "none" THEN e ELSE db)
      /\ Written(h, e).view = (IF txn[h] = "none" THEN view[h] ELSE e)
      /\ Written(h, e).txn = (IF txn[h] = "none" THEN "none" ELSE "write")
  BY DEF Written, Storage
<1> QED BY <1>1 DEF RolledBack, Discarded

LEMMA CommitEnds ==
  ASSUME TypeInv, NEW h \in Handle, frame[h].pc = "commit", Enter(h) \/ Step(h)
  PROVE  frame'[h].pc = "idle"
<1>0. DOMAIN frame = Handle /\ IdleFrame.pc = "idle"
  BY DEF TypeInv, TypeOK, IdleFrame
<1>1. CASE Enter(h)
  <2>1. Reopen(h)
    BY <1>1 DEF Enter, Learn, Train, LearnFromFile, Import, ImportUnreadable, Begin,
       DeleteWord, IsKnownWord, Call, Idle
  <2> QED BY <1>0, <2>1 DEF Reopen
<1>2. CASE Step(h)
  <2>1. Commit(h)
    BY <1>2 DEF Step, LearnInternal, LearnPattern, LearnPrefixWord, LearnPrefixPattern,
       Stem, TrainPattern, ImportSkip, ImportWord, ImportPattern, ImportFails, Delete
  <2> QED BY <1>0, <2>1 DEF Commit, Return
<1> QED BY <1>1, <1>2

\* The files stay one-to-one, and nobody starts to write while another does.
LEMMA MoveKeeps ==
  ASSUME TypeInv, WriterInv, NEW h \in Handle, Enter(h) \/ Step(h)
  PROVE  OneToOneFiles' /\ OneWriter'
<1>1. PICK s : SetStorage(h, s) /\ Moves(h, s)
  BY EnterMoves, StepMoves DEF Moving, WriterInv
<1>2. /\ db' = s.db /\ view' = [view EXCEPT ![h] = s.view] /\ txn' = [txn EXCEPT ![h] = s.txn]
      /\ DOMAIN view = Handle /\ DOMAIN txn = Handle
  BY <1>1 DEF SetStorage, TypeInv, TypeOK
<1>3. OneToOne(db) /\ OneToOne(view[h]) /\ OneToOne(EmptyDb) /\ OneToOne(CurrentDb(h))
  BY DEF WriterInv, OneToOneFiles, OneToOne, EmptyDb, CurrentDb
<1>4. OneToOne(s.db) /\ OneToOne(s.view)
  <2>1. CASE s \in {Storage(h), AfterRead(h), RolledBack(h)}
    BY <1>3, <2>1, StorageFields, ReadFields
  <2>2. CASE s \in {Begun(h), Committed(h)}
    BY <1>3, <2>2, StorageFields
  <2>3. ASSUME NEW e, Adds(h, e),
               s \in {Written(h, e), Discarded(h, Written(h, e))}
        PROVE  OneToOne(s.db) /\ OneToOne(s.view)
    BY <1>3, <2>3, WrittenFields DEF Adds
  <2>4. CASE s = [db |-> db, view |-> DeleteRows(db, frame[h].id), txn |-> "write"]
    BY <1>3, <2>4, DeleteRowsOneToOne
  <2> QED BY <1>1, <2>1, <2>2, <2>3, <2>4 DEF Moves
<1>5. s.txn = "write" => txn[h] = "write" \/ CanWrite(h)
  BY <1>1, StorageFields, ReadFields DEF Moves
<1>6. OneToOneFiles'
  <2>1. \A g \in Handle : OneToOne(view'[g])
    <3> TAKE g \in Handle
    <3>1. CASE g = h
      BY <1>2, <1>4, <3>1
    <3>2. CASE g # h
      BY <1>2, <3>2 DEF WriterInv, OneToOneFiles
    <3> QED BY <3>1, <3>2
  <2> QED BY <1>2, <1>4, <2>1 DEF OneToOneFiles, OneToOne
<1>7. OneWriter'
  <2>1. \A g \in Handle \ {h} : txn'[g] = txn[g]
    BY <1>2
  <2>2. txn'[h] = "write" => \A g \in Handle \ {h} : txn[g] # "write"
    BY <1>2, <1>5 DEF CanWrite, WriterInv, OneWriter
  <2> QED BY <2>1, <2>2 DEF WriterInv, OneWriter
<1> QED BY <1>6, <1>7

\* While one handle writes nobody else changes the committed file.
LEMMA WriterAlone ==
  ASSUME TypeInv, WriterInv, NEW g \in Handle, Enter(g) \/ Step(g),
         NEW h \in Handle, h # g, txn[h] = "write"
  PROVE  db' = db
<1>1. PICK s : SetStorage(g, s) /\ Moves(g, s)
  BY EnterMoves, StepMoves DEF Moving, WriterInv
<1>2. ~CanWrite(g) /\ txn[g] # "write"
  BY DEF CanWrite, WriterInv, OneWriter
<1>3. s.db = db
  BY <1>1, <1>2, StorageFields, ReadFields DEF Moves
<1> QED BY <1>1, <1>3 DEF SetStorage

\* What h has added, it has added to the committed file: its snapshot was not out of
\* date when it began to write.
LEMMA WriterAdds ==
  ASSUME TypeInv, WriterInv, NEW h \in Handle, frame[h].pc \notin {"idle", "delete", "commit"},
         CanWrite(h), NEW e, Grown(CurrentDb(h), e), Good(e)
  PROVE  Grown(db, e)
<1>1. Good(db) /\ Good(CurrentDb(h))
  BY StorageTypes
<1>2. Grown(db, CurrentDb(h))
  <2>1. CASE txn[h] = "write"
    BY <2>1 DEF WriterInv, WrittenBy, CurrentDb
  <2>2. CASE txn[h] # "write"
    <3>1. CurrentDb(h) = db
      BY <2>2 DEF CanWrite, CurrentDb
    <3> QED BY <1>1, <3>1, GrownReflexive DEF Good, GoodDb
  <2> QED BY <2>1, <2>2
<1> QED BY <1>1, <1>2, GrownTransitive DEF Good, GoodDb

LEMMA WriterStep ==
  ASSUME TypeInv, TypeInv', WriterInv, NEW h \in Handle, Enter(h) \/ Step(h)
  PROVE  WriterInv'
<1>1. OneToOneFiles' /\ OneWriter'
  BY MoveKeeps
<1>2. ASSUME NEW g \in Handle, txn'[g] = "write", frame'[g].pc \notin {"idle", "delete"}
      PROVE  WrittenBy(frame[g], view[g])'
  <2>1. CASE g # h
    <3>1. frame'[g] = frame[g] /\ txn'[g] = txn[g] /\ view'[g] = view[g]
      BY <2>1, EveryStepApart DEF Apart
    <3>2. db' = db /\ WrittenBy(frame[g], view[g])
      BY <1>2, <2>1, <3>1, WriterAlone DEF WriterInv
    <3> QED BY <3>1, <3>2 DEF WrittenBy
  <2>2. CASE g = h
    <3>0. frame[h].pc # "commit"
      BY <1>2, <2>2, CommitEnds
    <3>1. PICK s : SetStorage(h, s) /\ Moves(h, s)
      BY EnterMoves, StepMoves DEF Moving, WriterInv
    <3>2. db' = s.db /\ view'[h] = s.view /\ txn'[h] = s.txn /\ s.txn = "write"
      BY <1>2, <2>2, <3>1 DEF SetStorage, TypeInv, TypeOK
    <3>3. CASE s \in {Storage(h), AfterRead(h)}
      <4>1. txn[h] = "write" /\ s.db = db /\ s.view = view[h]
        BY <3>2, <3>3, StorageFields, ReadFields
      <4>2. frame[h].pc \notin {"idle", "delete"}
        BY <1>2, <2>2, <4>1, AbandonedStep DEF Abandoned, StaysAbandoned
      <4>3. Grown(db, view[h])
        BY <3>0, <4>1, <4>2 DEF WriterInv, WrittenBy
      <4> QED BY <2>2, <3>2, <4>1, <4>3 DEF WrittenBy
    <3>4. ASSUME CanWrite(h), frame[h].pc \notin {"idle", "delete", "commit"},
                 NEW e, Adds(h, e), s = Written(h, e)
          PROVE  WrittenBy(frame[g], view[g])'
      <4>1. s.view = e /\ s.db = db
        BY <3>2, <3>4, WrittenFields
      <4>2. Good(e)
        BY <3>2, <4>1 DEF TypeInv, TypeOK, Good, GoodDb
      <4>3. Grown(db, e)
        BY <3>4, <4>2, WriterAdds DEF Adds
      <4> QED BY <2>2, <3>2, <4>1, <4>3 DEF WrittenBy
    <3>5. CASE /\ s = [db |-> db, view |-> DeleteRows(db, frame[h].id), txn |-> "write"]
               /\ frame'[h].pc = "commit"
      BY <2>2, <3>2, <3>5 DEF WrittenBy
    <3>6. \A e : s # Discarded(h, Written(h, e))
      BY <3>2, WrittenFields
    <3> QED BY <3>1, <3>2, <3>3, <3>4, <3>5, <3>6, StorageFields DEF Moves
  <2> QED BY <2>1, <2>2
<1> QED BY <1>1, <1>2 DEF WriterInv

LEMMA WriterInvariant == Spec => []WriterInv
<1>1. Init => WriterInv
  BY DEF Init, WriterInv, OneToOneFiles, OneWriter, OneToOne, EmptyDb
<1>2. TypeInv /\ TypeInv' /\ WriterInv /\ [Next]_vars => WriterInv'
  <2> SUFFICES ASSUME TypeInv, TypeInv', WriterInv, [Next]_vars PROVE WriterInv'
    OBVIOUS
  <2>1. CASE UNCHANGED vars
    <3>1. db' = db /\ txn' = txn /\ view' = view /\ frame' = frame
      BY <2>1 DEF vars
    <3>2. OneToOneFiles' /\ OneWriter'
      BY <3>1 DEF WriterInv, OneToOneFiles, OneToOne, OneWriter
    <3>3. \A h \in Handle : WrittenBy(frame[h], view[h])' <=> WrittenBy(frame[h], view[h])
      BY <3>1 DEF WrittenBy
    <3> QED BY <3>1, <3>2, <3>3 DEF WriterInv
  <2>2. CASE Next
    BY <2>2, WriterStep DEF Next
  <2> QED BY <2>1, <2>2
<1> QED BY <1>1, <1>2, TypeInvariant, PTL DEF Spec

-----------------------------------------------------------------------------
(* IdleMeansNoTransaction.                                                 *)

\* What the theorem needs: import, a failed stem() and a failed COMMIT do return with
\* the transaction open.
NothingFails == FaultKinds = {} /\ ImportFiles = {} /\ ~BadImports

\* The transaction t of a call by the place where it is.
LockFacts(t, f) ==
  /\ f.pc \in {"idle", "delete"} => t = "none"
  /\ f.pc \in {"learn", "stem"} => t # "none"
  /\ f.pc \in PatternPcs \cup {"train"} => t = "write"
  /\ f.pc \notin {"import_word", "import_pattern", "import_unreadable"}

LockInv == \A h \in Handle : LockFacts(txn[h], frame[h])

LEMMA LockStep ==
  ASSUME TypeInv, LockInv, NEW h \in Handle, NEW s, SetStorage(h, s),
         NEW f, frame' = [frame EXCEPT ![h] = f], LockFacts(s.txn, f)
  PROVE  LockInv'
<1>1. /\ txn' = [txn EXCEPT ![h] = s.txn] /\ DOMAIN txn = Handle /\ DOMAIN frame = Handle
  BY DEF SetStorage, TypeInv, TypeOK
<1>2. \A g \in Handle : LockFacts(txn'[g], frame'[g])
  <2> TAKE g \in Handle
  <2>1. CASE g = h
    BY <1>1, <2>1
  <2>2. CASE g # h
    BY <1>1, <2>2 DEF LockInv
  <2> QED BY <2>1, <2>2
<1> QED BY <1>2 DEF LockInv

LEMMA IdleLocks == LockFacts("none", IdleFrame)
BY DEF LockFacts, IdleFrame, PatternPcs

\* Where a call goes on after a word.
LEMMA NextPcs ==
  ASSUME NEW f, CallOK(f)
  PROVE  /\ \A w, n, m : StartWord(f, w, n, m).pc = "learn"
         /\ [f EXCEPT !.pc = "commit"].pc = "commit"
         /\ \A i : f.op = "file" /\ f.file \in Lines => StartLine(f, i).pc \in {"learn", "commit"}
         /\ NextStem(f).pc \in {"learn", "commit"}
<1>1. ASSUME NEW g, g \in Frames PROVE \A w, n, m : StartWord(g, w, n, m).pc = "learn"
  BY <1>1 DEF StartWord, Frames
<1>2. [f EXCEPT !.pc = "commit"].pc = "commit"
  BY DEF CallOK, Frames
<1>3. ASSUME NEW i, f.op = "file" PROVE StartLine(f, i).pc \in {"learn", "commit"}
  <2> DEFINE g == [f EXCEPT !.line = i, !.arg = f.file[i].word, !.lineRc = "success"]
  <2>1. \A w, n, m : StartWord(g, w, n, m).pc = "learn"
    BY DEF StartWord, CallOK, Frames
  <2> HIDE DEF g
  <2>2. StartWord(g, f.file[i].word, f.file[i].confidence, TRUE).pc = "learn"
    BY <2>1
  <2>3. CASE i <= Len(f.file)
    <3>1. StartLine(f, i) = StartWord(g, f.file[i].word, f.file[i].confidence, TRUE)
      BY <2>3 DEF StartLine, g
    <3> QED BY <2>2, <3>1
  <2>4. CASE ~(i <= Len(f.file))
    <3>1. StartLine(f, i) = [f EXCEPT !.pc = "commit"]
      BY <2>4 DEF StartLine
    <3> QED BY <1>2, <3>1
  <2> QED BY <2>3, <2>4
<1>4. NextStem(f).pc \in {"learn", "commit"}
  <2> DEFINE g == [f EXCEPT !.stems = Tail(@)]
  <2>1. \A w, n, m : StartWord(g, w, n, m).pc = "learn"
    BY DEF StartWord, CallOK, Frames
  <2> HIDE DEF g
  <2>2. \/ NextStem(f) = StartWord(g, Head(f.stems), 0, FALSE)
        \/ NextStem(f) = StartLine(f, f.line + 1) /\ f.op = "file"
        \/ NextStem(f) = [f EXCEPT !.pc = "commit"]
    BY DEF NextStem, g
  <2> QED BY <1>2, <1>3, <2>1, <2>2
<1>5. f \in Frames
  BY DEF CallOK
<1> QED BY <1>1, <1>2, <1>3, <1>4, <1>5

LEMMA NextPatternPc ==
  ASSUME NEW f, CallOK(f)
  PROVE  NextPattern(f).pc \in PatternPcs \cup {"learn", "commit", "train", "stem"}
<1>1. f \in [pc : Pcs, op : {"none", "learn", "train", "file", "import", "delete"},
             arg : Word \cup {NoWord}, pattern : Pattern \cup {NoPattern},
             file : Lines \cup Entries, line : Nat, word : Word \cup {NoWord}, confidence : Int,
             product : Nat, prefix : Nat, stems : Seq(Word), main : BOOLEAN,
             lineRc : {"success", "error"}, id : Int]
  BY DEF CallOK, Frames
<1>2. \A x : [f EXCEPT !.prefix = @ + 1, !.pc = x].pc = x
  BY <1>1
<1>3. [f EXCEPT !.product = @ + 1, !.prefix = 0, !.pc = "pattern"].pc = "pattern"
  BY <1>1
<1>4. \A x : [f EXCEPT !.pc = x].pc = x
  BY <1>1
<1>5. WordDone(f).pc \in {"learn", "commit", "train", "stem"}
  BY <1>4, NextPcs DEF WordDone
<1> QED BY <1>2, <1>3, <1>5 DEF NextPattern, PatternPcs

LEMMA CalmLocks ==
  ASSUME NEW t, t # "none", NEW f, f.pc \in {"learn", "stem", "commit"}
  PROVE  LockFacts(t, f)
BY DEF LockFacts, PatternPcs

LEMMA EnterLocks ==
  ASSUME TypeInv, LockInv, NothingFails, NEW h \in Handle, Enter(h)
  PROVE  LockInv'
<1>0. CallOK(IdleFrame) /\ IdleFrame \in Frames
  BY IdleFrameOK DEF FrameOK, CallOK
<1>1. ASSUME NEW f, Begin(h, f), f.pc \in {"learn", "commit"} PROVE LockInv'
  <2>1. CASE txn' = [txn EXCEPT ![h] = "deferred"] /\ frame' = [frame EXCEPT ![h] = f]
    <3>1. view = [view EXCEPT ![h] = view[h]]
      BY DEF TypeInv, TypeOK
    <3>2. SetStorage(h, Begun(h))
      BY <1>1, <2>1, <3>1, StorageFields DEF Begin, SetStorage
    <3>3. LockFacts(Begun(h).txn, f)
      BY <1>1, StorageFields, CalmLocks
    <3> QED BY <2>1, <3>2, <3>3, LockStep
  <2>2. CASE UNCHANGED <<txn, frame>>
    BY <2>2 DEF LockInv
  <2> QED BY <1>1, <2>1, <2>2 DEF Begin
<1>2. ASSUME NEW w \in LearnCalls, Learn(h, w) PROVE LockInv'
  <2>1. [IdleFrame EXCEPT !.op = "learn", !.arg = w] \in Frames
    BY <1>0, LearningsAssumption DEF Frames, IdleFrame
  <2>2. StartWord([IdleFrame EXCEPT !.op = "learn", !.arg = w], w, 1, TRUE).pc = "learn"
    BY <2>1 DEF StartWord, Frames
  <2> QED BY <1>1, <1>2, <2>2 DEF Learn
<1>3. ASSUME NEW t \in TrainCalls, Train(h, t[1], t[2]) PROVE LockInv'
  <2> DEFINE f == [IdleFrame EXCEPT !.op = "train", !.arg = t[2], !.pattern = t[1]]
  <2>1. t[1] \in Pattern /\ t[2] \in Word
    BY LearningsAssumption
  <2>2. f \in Frames
    BY <1>0, <2>1 DEF Frames, IdleFrame
  <2>3. StartWord(f, t[2], 1, TRUE).pc = "learn"
    BY <2>2 DEF StartWord, Frames
  <2> QED BY <1>1, <1>3, <2>3 DEF Train
<1>4. ASSUME NEW file \in LearnFiles, LearnFromFile(h, file) PROVE LockInv'
  <2> DEFINE f == [IdleFrame EXCEPT !.op = "file", !.file = file]
  <2>1. file \in Lines
    BY LearningsAssumption
  <2>2. CallOK(f) /\ f.op = "file" /\ f.file \in Lines
    BY <1>0, <2>1 DEF CallOK, Frames, IdleFrame
  <2>3. Begin(h, StartLine(f, 1))
    BY <1>4 DEF LearnFromFile
  <2> HIDE DEF f
  <2> QED BY <1>1, <2>2, <2>3, NextPcs
<1>5. ASSUME frame[h].pc = "idle", NEW w
      PROVE  AfterGetWordId(h, w) = Storage(h) /\ Storage(h).txn = "none"
  BY <1>5, StorageFields DEF LockInv, LockFacts, AfterGetWordId, AfterRead
<1>6. ASSUME NEW w \in DeleteCalls, DeleteWord(h, w) PROVE LockInv'
  <2> DEFINE f == [IdleFrame EXCEPT !.pc = "delete", !.op = "delete", !.arg = w,
                                    !.id = GetWordId(h, w)]
  <2>1. CASE SetStorage(h, AfterGetWordId(h, w)) /\ frame' = [frame EXCEPT ![h] = f]
    <3>1. f.pc = "delete"
      BY DEF IdleFrame
    <3> HIDE DEF f
    <3>2. LockFacts("none", f)
      BY <3>1 DEF LockFacts, PatternPcs
    <3>3. frame[h].pc = "idle"
      BY <1>6 DEF DeleteWord, Call, Idle
    <3> QED BY <1>5, <2>1, <3>2, <3>3, LockStep
  <2>2. CASE UNCHANGED <<db, txn, view, frame>>
    BY <2>2 DEF LockInv
  <2> QED BY <1>6, <2>1, <2>2 DEF DeleteWord
<1>7. ASSUME NEW w \in QueryCalls, IsKnownWord(h, w) PROVE LockInv'
  <2>1. frame[h].pc = "idle" /\ SetStorage(h, AfterGetWordId(h, w)) /\ frame' = [frame EXCEPT ![h] = frame[h]]
    BY <1>7, Unchanged DEF IsKnownWord, Call, Idle
  <2>2. LockFacts("none", frame[h])
    BY <2>1 DEF LockFacts, PatternPcs
  <2> QED BY <1>5, <2>1, <2>2, LockStep
<1>8. CASE Reopen(h)
  <2>1. SetStorage(h, RolledBack(h)) /\ frame' = [frame EXCEPT ![h] = IdleFrame]
    BY <1>8 DEF Reopen
  <2>2. RolledBack(h).txn = "none"
    BY DEF RolledBack
  <2> QED BY <2>1, <2>2, IdleLocks, LockStep
<1> QED BY <1>2, <1>3, <1>4, <1>6, <1>7, <1>8 DEF Enter, NothingFails

LEMMA LearnFailsLocks ==
  ASSUME TypeInv, LockInv, NEW h \in Handle, NEW s, s.txn # "none", LearnFails(h, s)
  PROVE  LockInv'
<1>1. CallOK(frame[h])
  BY DEF TypeInv, FrameOK
<1>2. CASE SetStorage(h, Discarded(h, s)) /\ Return(h, "error")
  <2>1. Discarded(h, s).txn = "none"
    BY DEF Discarded, RolledBack
  <2> QED BY <1>2, <2>1, IdleLocks, LockStep DEF Return
<1>3. CASE SetStorage(h, s) /\ Continue(h, [frame[h] EXCEPT !.pc = "stem", !.lineRc = "error"])
  <2> DEFINE g == [frame[h] EXCEPT !.pc = "stem", !.lineRc = "error"]
  <2>1. g.pc = "stem"
    BY <1>1 DEF CallOK, Frames
  <2>2. frame' = [frame EXCEPT ![h] = g]
    BY <1>3 DEF Continue
  <2> HIDE DEF g
  <2>3. LockFacts(s.txn, g)
    BY <2>1, CalmLocks
  <2> QED BY <1>3, <2>2, <2>3, LockStep
<1>4. CASE SetStorage(h, s) /\ Continue(h, NextStem(frame[h]))
  <2>1. LockFacts(s.txn, NextStem(frame[h]))
    BY <1>1, NextPcs, CalmLocks
  <2> QED BY <1>4, <2>1, LockStep DEF Continue
<1> QED BY <1>2, <1>3, <1>4 DEF LearnFails, Discarded

LEMMA StepLocks ==
  ASSUME TypeInv, WriterInv, LockInv, NothingFails, NEW h \in Handle, Step(h)
  PROVE  LockInv'
<1> DEFINE f == frame[h]
<1>0. /\ CallOK(f) /\ LockFacts(txn[h], f)
      /\ \A k : ~Fault(k)
      /\ UNCHANGED <<db, txn, view>> => SetStorage(h, Storage(h))
      /\ txn[h] = "write" => CanWrite(h)
  BY Unchanged DEF TypeInv, FrameOK, LockInv, NothingFails, Fault, CanWrite, WriterInv, OneWriter
<1>1. ASSUME NEW s, s.txn = "none", SetStorage(h, s), NEW code, Return(h, code) PROVE LockInv'
  BY <1>1, IdleLocks, LockStep DEF Return
<1>2. ASSUME txn[h] # "none", NEW w, NEW n, NEW g, g.pc \in PatternPcs,
             LearnWordSucceeds(h, w, n), Continue(h, g)
      PROVE  LockInv'
  <2>1. SetStorage(h, Written(h, LearnedDb(CurrentDb(h), w, n)))
    BY <1>2 DEF LearnWordSucceeds
  <2>2. \A e : Written(h, e).txn = "write"
    BY <1>2, WrittenFields
  <2>3. LockFacts("write", g)
    BY <1>2 DEF LockFacts, PatternPcs
  <2> QED BY <1>2, <2>1, <2>2, <2>3, LockStep DEF Continue
<1>3. ASSUME txn[h] # "none", LearnWordFails(h) PROVE LockInv'
  <2>1. PICK s \in AfterFailure(h, Untouched(h)) : LearnFails(h, s)
    BY <1>3 DEF LearnWordFails
  <2>2. s \in {Storage(h), Written(h, CurrentDb(h))}
    BY <2>1 DEF AfterFailure, NothingFails, Untouched
  <2>3. s.txn # "none"
    BY <1>3, <2>2, StorageFields, WrittenFields
  <2> QED BY <2>1, <2>3, LearnFailsLocks
<1>4. CASE LearnInternal(h)
  <2>1. f.pc = "learn" /\ txn[h] # "none" /\ Storage(h).txn # "none"
    BY <1>0, <1>4, StorageFields DEF LearnInternal, LockFacts
  <2>2. [f EXCEPT !.pc = "pattern"].pc \in PatternPcs
    BY <1>0 DEF CallOK, Frames, PatternPcs
  <2> QED BY <1>2, <1>3, <1>4, <2>1, <2>2, LearnFailsLocks DEF LearnInternal
<1>5. CASE LearnPrefixWord(h)
  <2>1. f.pc = "prefix_word" /\ txn[h] # "none"
    BY <1>0, <1>5 DEF LearnPrefixWord, LockFacts, PatternPcs
  <2>2. [f EXCEPT !.pc = "prefix_pattern"].pc \in PatternPcs
    BY <1>0 DEF CallOK, Frames, PatternPcs
  <2> QED BY <1>2, <1>3, <1>5, <2>1, <2>2 DEF LearnPrefixWord
<1>6. ASSUME txn[h] = "write", NEW g, LockFacts("write", g), NEW p, NEW i, NEW b,
             PatternSaved(h, p, i, b), Continue(h, g)
      PROVE  LockInv'
  <2>1. \A e : Written(h, e).txn = "write"
    BY <1>6, WrittenFields
  <2> QED BY <1>6, <2>1, LockStep DEF PatternSaved, Continue
<1>7. CASE LearnPattern(h) \/ LearnPrefixPattern(h)
  <2>1. txn[h] = "write" /\ CanWrite(h)
    BY <1>0, <1>7 DEF LearnPattern, LearnPrefixPattern, LockFacts, PatternPcs
  <2>2. \A s : ~WriteFails(h, s)
    BY <1>0, <2>1 DEF WriteFails
  <2>3. LockFacts("write", NextPattern(f))
    BY <1>0, NextPatternPc DEF LockFacts, PatternPcs
  <2> QED BY <1>6, <1>7, <2>1, <2>2, <2>3 DEF LearnPattern, LearnPrefixPattern, LearnPatternOf
<1>8. CASE Stem(h)
  <2> DEFINE g == [f EXCEPT !.stems = Stems[f.arg]]
  <2>1. f.pc = "stem" /\ txn[h] # "none" /\ Storage(h).txn # "none" /\ f.arg \in Word
    BY <1>0, <1>8, StorageFields DEF Stem, LockFacts, TypeInv, FrameOK, AtOK
  <2>2. CallOK(g)
    BY <1>0, <2>1, LearningsAssumption DEF CallOK, Frames
  <2>3. SetStorage(h, Storage(h)) /\ Continue(h, NextStem(g))
    BY <1>0, <1>8 DEF Stem
  <2> HIDE DEF g
  <2>4. LockFacts(Storage(h).txn, NextStem(g))
    BY <2>1, <2>2, NextPcs, CalmLocks
  <2> QED BY <2>3, <2>4, LockStep DEF Continue
<1>9. CASE TrainPattern(h)
  <2>1. txn[h] = "write" /\ CanWrite(h)
    BY <1>0, <1>9 DEF TrainPattern, LockFacts
  <2>2. \A s : ~WriteFails(h, s)
    BY <1>0, <2>1 DEF WriteFails
  <2>3. LockFacts("write", [f EXCEPT !.pc = "commit"])
    BY <1>0, NextPcs DEF LockFacts, PatternPcs
  <2> QED BY <1>6, <1>9, <2>1, <2>2, <2>3 DEF TrainPattern
<1>10. CASE ImportSkip(h) \/ ImportWord(h) \/ ImportPattern(h) \/ ImportFails(h)
  BY <1>0, <1>10 DEF ImportSkip, ImportWord, ImportPattern, ImportFails, LockFacts
<1>11. CASE Delete(h)
  <2>1. f.pc = "delete" /\ Storage(h).txn = "none"
    BY <1>0, <1>11, StorageFields DEF Delete, LockFacts
  <2>2. CASE /\ SetStorage(h, [db |-> db, view |-> DeleteRows(db, f.id), txn |-> "write"])
             /\ Continue(h, [f EXCEPT !.pc = "commit"])
    <3> DEFINE s == [db |-> db, view |-> DeleteRows(db, f.id), txn |-> "write"]
               g == [f EXCEPT !.pc = "commit"]
    <3>1. LockFacts("write", g)
      BY <1>0, NextPcs DEF LockFacts, PatternPcs
    <3>2. SetStorage(h, s) /\ frame' = [frame EXCEPT ![h] = g] /\ s.txn = "write"
      BY <2>2 DEF Continue
    <3> HIDE DEF s, g
    <3> QED BY <3>1, <3>2, LockStep
  <2> QED BY <1>0, <1>1, <1>11, <2>1, <2>2 DEF Delete
<1>12. CASE Commit(h)
  <2>1. Storage(h).txn = txn[h] /\ Committed(h).txn = "none"
    BY StorageFields
  <2> QED BY <1>0, <1>1, <1>12, <2>1 DEF Commit
<1> QED BY <1>4, <1>5, <1>7, <1>8, <1>9, <1>10, <1>11, <1>12 DEF Step

\* However many handles learn, train, delete and learn from files in one learnings
\* file, and however often one is refused the write lock that another holds: as long
\* as no statement fails, a handle that is not in a call has no transaction open.
THEOREM IdleHasNoTransaction ==
  ASSUME NothingFails
  PROVE  Spec => []IdleMeansNoTransaction
<1>1. Init => LockInv
  BY IdleLocks DEF Init, LockInv
<1>2. TypeInv /\ WriterInv /\ LockInv /\ [Next]_vars => LockInv'
  <2> SUFFICES ASSUME TypeInv, WriterInv, LockInv, [Next]_vars PROVE LockInv'
    OBVIOUS
  <2>1. CASE UNCHANGED vars
    BY <2>1 DEF vars, LockInv
  <2>2. CASE Next
    BY <2>2, EnterLocks, StepLocks DEF Next
  <2> QED BY <2>1, <2>2
<1>3. LockInv => IdleMeansNoTransaction
  BY DEF LockInv, LockFacts, IdleMeansNoTransaction, Idle
<1> QED BY <1>1, <1>2, <1>3, TypeInvariant, WriterInvariant, PTL DEF Spec

-----------------------------------------------------------------------------
(***************************************************************************)
(* Every pattern of the file leads to a stored word it is a way of writing.*)
(*                                                                         *)
(* PatternsOwned is not inductive: the id a pattern is stored with comes   *)
(* from a lookup some statements after the word was stored, and may come   *)
(* from the handle's cache.  OwnedInv adds that the words whose patterns a *)
(* call has still to store are in what its transaction sees, and that what *)
(* the cache remembers is true there (CacheFresh).                         *)
(***************************************************************************)


\* What the theorem needs.  Each part excludes one way in which the code does attach
\* a pattern to no word: import does not empty lastLearnedWord; after SQLite has
\* rolled a transaction back the call goes on without one; varnam_train looks the
\* word up as it was passed; a prefix only a later product has is not learned.
PlainCalls ==
  /\ ImportFiles = {}
  /\ "autorollback" \notin FaultKinds
  /\ \A t \in TrainCalls : Sanitized[t[2]] = t[2]
  /\ \A w \in Word : \A k \in DOMAIN Plan[w] : \A j \in DOMAIN Plan[w][k].prefixes :
       \E i \in DOMAIN Plan[w][1].prefixes :
         Plan[w][1].prefixes[i].word = Plan[w][k].prefixes[j].word

\* The arguments and locals of a call.
CallFacts(f) ==
  /\ f.pc \notin {"import_word", "import_pattern"}
  /\ f.op = "train" => f.main /\ <<f.pattern, f.arg>> \in TrainCalls
  /\ f.op = "train" /\ f.pc \in {"learn"} \cup PatternPcs => f.word = f.arg
  /\ f.pc = "prefix_word" => f.product = 1
  /\ f.pc = "train" => Learnable(f.arg)
  /\ f.pc = "learn" => f.prefix = 0
  /\ f.pc = "stem" => f.op # "train"

CacheFresh(v, c) ==
  c.word \in Word \ {Empty} => \E q \in v.words : q.word = c.word /\ q.id = c.id

\* The prefixes learned so far, the one at hand included once its word is stored.
PrefixesStored(v, f) ==
  \A j \in DOMAIN Plan[f.word][1].prefixes :
    f.product > 1 \/ j < f.prefix \/ (j = f.prefix /\ f.pc # "prefix_word") =>
      Stored(v, Plan[f.word][1].prefixes[j].word)

\* What the call f with cache c has stored, in the transaction t that sees v.
StoredFacts(t, v, c, f) ==
  /\ t \in {"read", "write"} => PatternsOwnedIn(v)
  /\ f.pc \in {"learn", "stem"} => t # "none"
  /\ f.pc \in PatternPcs \cup {"train"} => t = "write" /\ CacheFresh(v, c)
  /\ f.pc \in PatternPcs => Stored(v, f.word) /\ PrefixesStored(v, f)
  /\ f.pc = "train" => Stored(v, f.arg)

OwnedInv ==
  /\ PatternsOwnedIn(db)
  /\ \A h \in Handle :
       CallFacts(frame[h]) /\ StoredFacts(txn[h], view[h], cache[h], frame[h])

-----------------------------------------------------------------------------
(* The contents of a file.                                                 *)

\* No word or id is lost.
WordsKept(d, e) ==
  \A q \in d.words : \E r \in e.words : r.word = q.word /\ r.id = q.id

LEMMA StoredKept ==
  ASSUME NEW d, NEW e, WordsKept(d, e), NEW w, Stored(d, w)
  PROVE  Stored(e, w)
BY DEF WordsKept, Stored, RowsOf

LEMMA OwnedKept ==
  ASSUME NEW d, NEW e, WordsKept(d, e), e.patterns = d.patterns, PatternsOwnedIn(d)
  PROVE  PatternsOwnedIn(e)
<1> SUFFICES ASSUME NEW r \in d.patterns
             PROVE  \E q \in e.words : q.id = r.word_id /\ r.pattern \in OwnPatterns[q.word]
  BY DEF PatternsOwnedIn
<1>1. PICK q \in d.words : q.id = r.word_id /\ r.pattern \in OwnPatterns[q.word]
  BY DEF PatternsOwnedIn
<1>2. PICK q2 \in e.words : q2.word = q.word /\ q2.id = q.id
  BY <1>1 DEF WordsKept
<1> QED BY <1>1, <1>2

LEMMA InsertedWord ==
  ASSUME NEW d, Good(d), NEW w \in Word, NEW n \in Int, ~Stored(d, w)
  PROVE  /\ WordsKept(d, InsertWord(d, w, n)) /\ InsertWord(d, w, n).patterns = d.patterns
         /\ \E q \in InsertWord(d, w, n).words : q.word = w /\ q.id = NextId(d)
<1> DEFINE new == [id |-> NextId(d), word |-> w, confidence |-> n]
           e == InsertWord(d, w, n)
<1>1. e = [words |-> d.words \cup {new}, patterns |-> d.patterns]
  BY DEF InsertWord, Good, GoodDb, Db
<1>2. e.words = d.words \cup {new} /\ e.patterns = d.patterns /\ new.word = w /\ new.id = NextId(d)
  BY <1>1
<1> HIDE DEF e, new
<1> QED BY <1>2 DEF WordsKept, e

LEMMA BumpedWord ==
  ASSUME NEW d, Good(d), NEW w
  PROVE  WordsKept(d, BumpConfidence(d, w)) /\ BumpConfidence(d, w).patterns = d.patterns
<1> DEFINE bump(r) == IF r.word = w THEN [r EXCEPT !.confidence = @ + 1] ELSE r
           e == BumpConfidence(d, w)
<1>1. e = [words |-> {bump(r) : r \in d.words}, patterns |-> d.patterns]
  BY DEF BumpConfidence, Good, GoodDb, Db
<1>2. \A r \in d.words : bump(r).word = r.word /\ bump(r).id = r.id
  BY DEF Good, GoodDb, Db, WordRow
<1>3. e.words = {bump(r) : r \in d.words} /\ e.patterns = d.patterns
  BY <1>1
<1> HIDE DEF bump, e
<1> QED BY <1>2, <1>3 DEF WordsKept, e

\* learn_word stores the word and leaves every other word and pattern where it is.
LEMMA LearnedWord ==
  ASSUME NEW d, Good(d), PatternsOwnedIn(d), NEW w \in Word, NEW n \in Int
  PROVE  /\ PatternsOwnedIn(LearnedDb(d, w, n)) /\ WordsKept(d, LearnedDb(d, w, n))
         /\ Stored(LearnedDb(d, w, n), w)
         /\ ~Stored(d, w) => \E q \in LearnedDb(d, w, n).words : q.word = w /\ q.id = NextId(d)
<1>1. CASE Stored(d, w)
  BY <1>1, BumpedWord, OwnedKept, StoredKept DEF LearnedDb
<1>2. CASE ~Stored(d, w)
  <2>1. \E q \in LearnedDb(d, w, n).words : q.word = w /\ q.id = NextId(d)
    BY <1>2, InsertedWord DEF LearnedDb
  <2>2. Stored(LearnedDb(d, w, n), w)
    BY <2>1 DEF Stored, RowsOf
  <2> QED BY <1>2, <2>1, <2>2, InsertedWord, OwnedKept DEF LearnedDb
<1> QED BY <1>1, <1>2

\* A pattern of a word stored with the word's id.
LEMMA PersistedPattern ==
  ASSUME NEW d, Good(d), PatternsOwnedIn(d), NEW p \in Pattern, NEW i \in Int, NEW b \in BOOLEAN,
         NEW q \in d.words, q.id = i, p \in OwnPatterns[q.word]
  PROVE  /\ PatternsOwnedIn(PersistPattern(d, p, i, b)) /\ PatternsOwnedIn(InsertPattern(d, p, i))
         /\ PersistPattern(d, p, i, b).words = d.words
<1> DEFINE e == InsertPattern(d, p, i)
<1>1. e.words = d.words /\ Good(e)
  BY InsertPatternGood DEF Good
<1>2. \A r \in e.patterns : r \in d.patterns \/ (r.pattern = p /\ r.word_id = i)
  BY DEF InsertPattern, Good, GoodDb, Db
<1>3. PatternsOwnedIn(e)
  <2> HIDE DEF e
  <2> QED BY <1>1, <1>2 DEF PatternsOwnedIn
<1> DEFINE m == MarkLearned(e, p, i)
           mark(r) == IF r.pattern = p /\ r.word_id = i THEN [r EXCEPT !.learned = 1] ELSE r
<1>4. m.words = d.words
  <2> HIDE DEF e
  <2> QED BY <1>1, MarkLearnedGood DEF Good
<1>5. m.patterns = {mark(r) : r \in e.patterns}
  <2> HIDE DEF e
  <2>1. m = [e EXCEPT !.patterns = {mark(r) : r \in e.patterns}]
    BY Zenon DEF MarkLearned
  <2> HIDE DEF mark, m
  <2> QED BY <1>1, <2>1 DEF Good, GoodDb, Db
<1>6. \A r \in e.patterns : mark(r).pattern = r.pattern /\ mark(r).word_id = r.word_id
  <2> HIDE DEF e
  <2> QED BY <1>1 DEF Good, GoodDb, Db, PatternRow
<1>7. PatternsOwnedIn(m)
  <2> HIDE DEF e, m, mark
  <2> QED BY <1>1, <1>3, <1>4, <1>5, <1>6 DEF PatternsOwnedIn
<1>8. PersistPattern(d, p, i, b) = IF b THEN e ELSE m
  BY DEF PersistPattern
<1> HIDE DEF e, m
<1> QED BY <1>1, <1>3, <1>4, <1>7, <1>8 DEF e

LEMMA DeletedRows ==
  ASSUME NEW d, PatternsOwnedIn(d), NEW i
  PROVE  PatternsOwnedIn(DeleteRows(d, i))
BY DEF PatternsOwnedIn, DeleteRows

-----------------------------------------------------------------------------
(* What a step of one handle has to show.                                  *)

LEMMA OwnedStep ==
  ASSUME TypeInv, OwnedInv, NEW h \in Handle, NEW s, SetStorage(h, s),
         NEW f, frame' = [frame EXCEPT ![h] = f],
         NEW c, cache' = [cache EXCEPT ![h] = c],
         PatternsOwnedIn(s.db), CallFacts(f), StoredFacts(s.txn, s.view, c, f)
  PROVE  OwnedInv'
<1>1. /\ db' = s.db /\ view' = [view EXCEPT ![h] = s.view] /\ txn' = [txn EXCEPT ![h] = s.txn]
      /\ DOMAIN view = Handle /\ DOMAIN txn = Handle /\ DOMAIN cache = Handle /\ DOMAIN frame = Handle
  BY DEF SetStorage, TypeInv, TypeOK
<1>2. PatternsOwnedIn(db')
  BY <1>1
<1>3. \A g \in Handle :
        CallFacts(frame'[g]) /\ StoredFacts(txn'[g], view'[g], cache'[g], frame'[g])
  <2> TAKE g \in Handle
  <2>1. CASE g = h
    BY <1>1, <2>1
  <2>2. CASE g # h
    <3>1. frame'[g] = frame[g] /\ txn'[g] = txn[g] /\ view'[g] = view[g] /\ cache'[g] = cache[g]
      BY <1>1, <2>2
    <3> QED BY <3>1 DEF OwnedInv
  <2> QED BY <2>1, <2>2
<1> QED BY <1>2, <1>3 DEF OwnedInv

\* In a storage a call can go on with, or leave behind.
Sound(s) ==
  /\ PatternsOwnedIn(s.db)
  /\ s.txn \in {"read", "write"} => PatternsOwnedIn(s.view)

LEMMA EmptyOwned == PatternsOwnedIn(EmptyDb)
BY DEF PatternsOwnedIn, EmptyDb

LEMMA SoundStorages ==
  ASSUME TypeInv, OwnedInv, NEW h \in Handle
  PROVE  /\ Sound(Storage(h)) /\ Sound(RolledBack(h)) /\ Sound(Committed(h)) /\ Sound(AfterRead(h))
         /\ PatternsOwnedIn(CurrentDb(h))
         /\ \A d : PatternsOwnedIn(d) => Sound(Written(h, d))
         /\ txn[h] # "none" => /\ Storage(h).txn # "none" /\ AfterRead(h).txn # "none"
                               /\ \A d : Written(h, d).txn = "write" /\ Written(h, d).view = d
<1>1. PatternsOwnedIn(db) /\ (txn[h] \in {"read", "write"} => PatternsOwnedIn(view[h]))
  BY DEF OwnedInv, StoredFacts
<1> QED BY <1>1 DEF Sound, Storage, RolledBack, Committed, AfterRead, CurrentDb, Written

\* A step to a frame that needs no word of the transaction.
Calm(f) == f.pc \in {"idle", "learn", "stem", "delete", "commit", "import_unreadable"}

LEMMA CalmStep ==
  ASSUME TypeInv, OwnedInv, NEW h \in Handle, NEW s, SetStorage(h, s), Sound(s),
         NEW f, frame' = [frame EXCEPT ![h] = f], CallFacts(f), Calm(f),
         f.pc \in {"learn", "stem"} => s.txn # "none",
         NEW c, cache' = [cache EXCEPT ![h] = c]
  PROVE  OwnedInv'
<1>1. StoredFacts(s.txn, s.view, c, f) /\ PatternsOwnedIn(s.db)
  BY DEF StoredFacts, Sound, Calm, PatternPcs
<1> QED BY <1>1, OwnedStep

LEMMA IdleFacts == CallFacts(IdleFrame) /\ Calm(IdleFrame) /\ IdleFrame.pc = "idle"
BY DEF CallFacts, Calm, IdleFrame, PatternPcs

\* Storing no pattern and learning no word: calls begin, words are looked up.
LEMMA StartWordFacts ==
  ASSUME NEW f, CallOK(f), NEW w, NEW n, NEW m,
         f.op = "train" => m /\ <<f.pattern, f.arg>> \in TrainCalls /\ w = f.arg,
         PlainCalls
  PROVE  /\ CallFacts(StartWord(f, w, n, m)) /\ Calm(StartWord(f, w, n, m))
         /\ StartWord(f, w, n, m).pc # "idle"
<1> DEFINE g == StartWord(f, w, n, m)
<1>1. /\ g.pc = "learn" /\ g.op = f.op /\ g.arg = f.arg /\ g.pattern = f.pattern
      /\ g.word = Sanitized[w] /\ g.main = m /\ g.prefix = 0
  BY DEF StartWord, CallOK, Frames
<1>2. f.op = "train" => Sanitized[w] = f.arg
  <2> SUFFICES ASSUME f.op = "train" PROVE Sanitized[w] = f.arg
    OBVIOUS
  <2>1. <<f.pattern, f.arg>>[2] = f.arg
    OBVIOUS
  <2> QED BY <2>1 DEF PlainCalls
<1> HIDE DEF g
<1> QED BY <1>1, <1>2 DEF CallFacts, Calm, PatternPcs, g

LEMMA CommitFacts ==
  ASSUME NEW f, CallOK(f), CallFacts(f)
  PROVE  CallFacts([f EXCEPT !.pc = "commit"]) /\ Calm([f EXCEPT !.pc = "commit"])
         /\ [f EXCEPT !.pc = "commit"].pc = "commit"
<1> DEFINE g == [f EXCEPT !.pc = "commit"]
<1>1. /\ g.pc = "commit" /\ g.op = f.op /\ g.arg = f.arg /\ g.pattern = f.pattern
      /\ g.word = f.word /\ g.main = f.main /\ g.prefix = f.prefix
  BY DEF CallOK, Frames
<1> HIDE DEF g
<1> QED BY <1>1 DEF CallFacts, Calm, PatternPcs, g

LEMMA StartLineFacts ==
  ASSUME NEW f, CallOK(f), f.op = "file", CallFacts(f), NEW i \in Nat \ {0}, PlainCalls
  PROVE  CallFacts(StartLine(f, i)) /\ Calm(StartLine(f, i))
<1>1. CASE i <= Len(f.file)
  <2> DEFINE g == [f EXCEPT !.line = i, !.arg = f.file[i].word, !.lineRc = "success"]
             R == [word : Word, confidence : Int]
  <2>1. f.file[i].word \in Word
    <3>1. f.file \in Seq(R)
      BY DEF CallOK, Lines
    <3> HIDE DEF R
    <3>2. i \in DOMAIN f.file /\ f.file[i] \in R
      BY <1>1, <3>1, SeqElement
    <3> QED BY <3>2 DEF R
  <2>2. CallOK(g) /\ g.op = "file"
    BY <2>1 DEF CallOK, Frames
  <2>3. StartLine(f, i) = StartWord(g, f.file[i].word, f.file[i].confidence, TRUE)
    BY <1>1 DEF StartLine
  <2> HIDE DEF g
  <2> QED BY <2>2, <2>3, StartWordFacts
<1>2. CASE ~(i <= Len(f.file))
  BY <1>2, CommitFacts DEF StartLine
<1> QED BY <1>1, <1>2

LEMMA NextStemFacts ==
  ASSUME NEW f, CallOK(f), f.op \in {"learn", "file"}, f.arg \in Word, CallFacts(f), PlainCalls
  PROVE  CallFacts(NextStem(f)) /\ Calm(NextStem(f))
<1>1. CASE f.stems # <<>>
  <2> DEFINE g == [f EXCEPT !.stems = Tail(@)]
  <2>1. f.stems \in Seq(Word) /\ Tail(f.stems) \in Seq(Word)
    BY <1>1 DEF CallOK, Frames
  <2>2. CallOK(g) /\ g.op # "train"
    BY <2>1 DEF CallOK, Frames
  <2>3. NextStem(f) = StartWord(g, Head(f.stems), 0, FALSE)
    BY <1>1 DEF NextStem
  <2> HIDE DEF g
  <2> QED BY <2>2, <2>3, StartWordFacts
<1>2. CASE f.stems = <<>> /\ f.op = "file"
  <2>1. f.line + 1 \in Nat \ {0}
    BY DEF CallOK, Frames
  <2> QED BY <1>2, <2>1, StartLineFacts DEF NextStem
<1>3. CASE f.stems = <<>> /\ f.op # "file"
  BY <1>3, CommitFacts DEF NextStem
<1> QED BY <1>1, <1>2, <1>3

-----------------------------------------------------------------------------
(* Entering a call.                                                        *)

LEMMA BeginOwned ==
  ASSUME TypeInv, OwnedInv, NEW h \in Handle, NEW f, Begin(h, f), CallFacts(f), Calm(f)
  PROVE  OwnedInv'
<1>1. cache' = [cache EXCEPT ![h] = cache[h]]
  BY Unchanged DEF Begin
<1>2. CASE txn' = [txn EXCEPT ![h] = "deferred"] /\ frame' = [frame EXCEPT ![h] = f]
  <2> DEFINE s == [Storage(h) EXCEPT !.txn = "deferred"]
  <2>1. s.db = db /\ s.view = view[h] /\ s.txn = "deferred"
    BY DEF Storage
  <2>2. view = [view EXCEPT ![h] = view[h]]
    BY DEF TypeInv, TypeOK
  <2> HIDE DEF s
  <2>3. SetStorage(h, s)
    BY <1>2, <2>1, <2>2 DEF Begin, SetStorage
  <2>4. Sound(s)
    BY <2>1 DEF Sound, OwnedInv
  <2> QED BY <1>1, <1>2, <2>1, <2>3, <2>4, CalmStep
<1>3. CASE UNCHANGED <<txn, frame>>
  BY <1>3 DEF Begin, OwnedInv, PatternsOwnedIn
<1> QED BY <1>2, <1>3 DEF Begin

LEMMA EnterOwned ==
  ASSUME TypeInv, OwnedInv, PlainCalls, NEW h \in Handle, Enter(h)
  PROVE  OwnedInv'
<1>0. CallOK(IdleFrame) /\ IdleFrame \in Frames
  BY IdleFrameOK DEF FrameOK, CallOK
<1>1. ASSUME NEW w \in LearnCalls, Learn(h, w) PROVE OwnedInv'
  <2> DEFINE f == [IdleFrame EXCEPT !.op = "learn", !.arg = w]
  <2>1. CallOK(f) /\ f.op = "learn"
    BY <1>0, LearningsAssumption DEF CallOK, Frames, IdleFrame
  <2>2. Begin(h, StartWord(f, w, 1, TRUE))
    BY <1>1 DEF Learn
  <2> HIDE DEF f
  <2> QED BY <2>1, <2>2, StartWordFacts, BeginOwned
<1>2. ASSUME NEW t \in TrainCalls, Train(h, t[1], t[2]) PROVE OwnedInv'
  <2> DEFINE f == [IdleFrame EXCEPT !.op = "train", !.arg = t[2], !.pattern = t[1]]
  <2>0. t[2] \in Word /\ t[1] \in Pattern /\ <<t[1], t[2]>> = t
    BY LearningsAssumption
  <2>1. CallOK(f) /\ f.op = "train" /\ <<f.pattern, f.arg>> \in TrainCalls /\ f.arg = t[2]
    BY <1>0, <2>0 DEF CallOK, Frames, IdleFrame
  <2>2. Begin(h, StartWord(f, t[2], 1, TRUE))
    BY <1>2 DEF Train
  <2> HIDE DEF f
  <2> QED BY <2>1, <2>2, StartWordFacts, BeginOwned
<1>3. ASSUME NEW file \in LearnFiles, LearnFromFile(h, file) PROVE OwnedInv'
  <2> DEFINE f == [IdleFrame EXCEPT !.op = "file", !.file = file]
  <2>0. file \in Lines /\ 1 \in Nat \ {0}
    BY LearningsAssumption
  <2>1. CallOK(f) /\ f.op = "file" /\ f.pc = "idle"
    BY <1>0, <2>0 DEF CallOK, Frames, IdleFrame
  <2>2. Begin(h, StartLine(f, 1))
    BY <1>3 DEF LearnFromFile
  <2> HIDE DEF f
  <2>3. CallFacts(f)
    BY <2>1 DEF CallFacts, PatternPcs
  <2> QED BY <2>0, <2>1, <2>2, <2>3, StartLineFacts, BeginOwned
<1>4. ASSUME NEW file \in ImportFiles PROVE OwnedInv'
  BY <1>4 DEF PlainCalls
<1>5. CASE ImportUnreadable(h)
  <2> DEFINE f == [IdleFrame EXCEPT !.pc = "import_unreadable", !.op = "import"]
  <2>1. CallFacts(f) /\ Calm(f)
    BY DEF CallFacts, Calm, IdleFrame, PatternPcs
  <2>2. Begin(h, f)
    BY <1>5 DEF ImportUnreadable
  <2> HIDE DEF f
  <2> QED BY <2>1, <2>2, BeginOwned
<1>6. /\ \A w : Sound(AfterGetWordId(h, w))
      /\ cache = [cache EXCEPT ![h] = cache[h]] /\ frame = [frame EXCEPT ![h] = frame[h]]
      /\ CallFacts(frame[h]) /\ Sound(Storage(h)) /\ Sound(RolledBack(h))
  BY SoundStorages, Unchanged DEF AfterGetWordId, OwnedInv
<1>7. ASSUME NEW w \in DeleteCalls, DeleteWord(h, w) PROVE OwnedInv'
  <2> DEFINE f == [IdleFrame EXCEPT !.pc = "delete", !.op = "delete", !.arg = w,
                                    !.id = GetWordId(h, w)]
  <2>1. CASE /\ SetStorage(h, AfterGetWordId(h, w))
             /\ frame' = [frame EXCEPT ![h] = f]
    <3>1. CallFacts(f) /\ Calm(f) /\ f.pc = "delete"
      BY DEF CallFacts, Calm, IdleFrame, PatternPcs
    <3> HIDE DEF f
    <3>2. cache' = [cache EXCEPT ![h] = cache[h]]
      BY <1>6, <1>7 DEF DeleteWord
    <3> QED BY <1>6, <2>1, <3>1, <3>2, CalmStep
  <2>2. CASE UNCHANGED <<db, txn, view, frame>>
    BY <1>7, <2>2 DEF DeleteWord, OwnedInv, PatternsOwnedIn
  <2> QED BY <1>7, <2>1, <2>2 DEF DeleteWord
<1>8. ASSUME NEW w \in QueryCalls, IsKnownWord(h, w) PROVE OwnedInv'
  <2>1. SetStorage(h, AfterGetWordId(h, w)) /\ frame[h].pc = "idle"
    BY <1>8 DEF IsKnownWord, Call, Idle
  <2>2. frame' = [frame EXCEPT ![h] = frame[h]] /\ cache' = [cache EXCEPT ![h] = cache[h]]
    BY <1>6, <1>8 DEF IsKnownWord
  <2> QED BY <1>6, <2>1, <2>2, CalmStep DEF Calm
<1>9. CASE Reopen(h)
  <2>1. /\ SetStorage(h, RolledBack(h)) /\ frame' = [frame EXCEPT ![h] = IdleFrame]
        /\ cache' = [cache EXCEPT ![h] = [word |-> NoWord, id |-> 0]]
    BY <1>9 DEF Reopen
  <2> QED BY <1>6, <2>1, IdleFacts, CalmStep
<1> QED BY <1>1, <1>2, <1>3, <1>4, <1>5, <1>7, <1>8, <1>9 DEF Enter

-----------------------------------------------------------------------------
(* The steps of a call.                                                    *)

\* With no automatic rollback a failed write leaves what its statements left.
LEMMA FailureLeaves ==
  ASSUME PlainCalls, NEW h, NEW partial
  PROVE  AfterFailure(h, partial) = partial
BY DEF PlainCalls, AfterFailure

LEMMA LearnFailsOwned ==
  ASSUME TypeInv, OwnedInv, PlainCalls, NEW h \in Handle, NEW s, Sound(s), s.txn # "none",
         LearnFails(h, s), frame[h].op \in {"learn", "train", "file"}, frame[h].arg \in Word,
         NEW c, cache' = [cache EXCEPT ![h] = c]
  PROVE  OwnedInv'
<1> DEFINE f == frame[h]
<1>0. CallOK(f) /\ CallFacts(f)
  BY DEF TypeInv, FrameOK, OwnedInv
<1>1. CASE /\ SetStorage(h, [RolledBack(h) EXCEPT !.db = s.db])
           /\ Return(h, "error")
  <2> DEFINE e == [RolledBack(h) EXCEPT !.db = s.db]
  <2>1. e.db = s.db /\ e.txn = "none"
    BY DEF RolledBack
  <2> HIDE DEF e
  <2>2. SetStorage(h, e) /\ frame' = [frame EXCEPT ![h] = IdleFrame] /\ Sound(e)
    BY <1>1, <2>1 DEF Return, Sound, e
  <2> QED BY <2>2, IdleFacts, CalmStep
<1>2. CASE /\ f.main /\ f.op = "file" /\ SetStorage(h, s)
           /\ Continue(h, [f EXCEPT !.pc = "stem", !.lineRc = "error"])
  <2> DEFINE g == [f EXCEPT !.pc = "stem", !.lineRc = "error"]
  <2>1. g.pc = "stem" /\ g.op = "file"
    BY <1>0, <1>2 DEF CallOK, Frames
  <2>2. frame' = [frame EXCEPT ![h] = g]
    BY <1>2 DEF Continue
  <2> HIDE DEF g
  <2>3. CallFacts(g) /\ Calm(g)
    BY <2>1 DEF CallFacts, Calm, PatternPcs
  <2> QED BY <1>2, <2>2, <2>3, CalmStep
<1>3. CASE ~f.main /\ SetStorage(h, s) /\ Continue(h, NextStem(f))
  <2>1. f.op \in {"learn", "file"}
    BY <1>0, <1>3 DEF CallFacts
  <2>2. CallFacts(NextStem(f)) /\ Calm(NextStem(f))
    BY <1>0, <2>1, NextStemFacts
  <2>3. frame' = [frame EXCEPT ![h] = NextStem(f)]
    BY <1>3 DEF Continue
  <2> QED BY <1>3, <2>2, <2>3, CalmStep
<1> QED BY <1>1, <1>2, <1>3 DEF LearnFails

\* learn_word of w: what it leaves in the transaction, and in the cache.
LEMMA LearnWordLeaves ==
  ASSUME TypeInv, OwnedInv, NEW h \in Handle, txn[h] # "none", NEW w \in Word, NEW n \in Int
  PROVE  LET e == LearnedDb(CurrentDb(h), w, n) IN
         /\ Sound(Written(h, e)) /\ Written(h, e).txn = "write" /\ Written(h, e).view = e
         /\ WordsKept(CurrentDb(h), e) /\ Stored(e, w) /\ CacheFresh(e, LearnedCache(h, w))
<1> DEFINE d == CurrentDb(h)
           e == LearnedDb(d, w, n)
<1>1. Good(d) /\ PatternsOwnedIn(d)
  BY StorageTypes, SoundStorages
<1>2. /\ PatternsOwnedIn(e) /\ WordsKept(d, e) /\ Stored(e, w)
      /\ ~Stored(d, w) => \E q \in e.words : q.word = w /\ q.id = NextId(d)
  <2> HIDE DEF d
  <2> QED BY <1>1, LearnedWord
<1>3. CacheFresh(e, LearnedCache(h, w))
  <2>1. CASE Stored(d, w)
    <3>1. LearnedCache(h, w).word = Empty
      <4>1. cache[h] \in CacheEntries
        BY Unchanged
      <4> QED BY <2>1, <4>1 DEF LearnedCache, ClearCache, CacheEntries
    <3> QED BY <3>1 DEF CacheFresh
  <2>2. CASE ~Stored(d, w)
    <3>1. LearnedCache(h, w).word = w /\ LearnedCache(h, w).id = NextId(d)
      BY <2>2 DEF LearnedCache
    <3> HIDE DEF d, e
    <3> QED BY <1>2, <2>2, <3>1 DEF CacheFresh
  <2> QED BY <2>1, <2>2
<1> HIDE DEF e
<1>4. Sound(Written(h, e)) /\ Written(h, e).txn = "write" /\ Written(h, e).view = e
  BY <1>2, SoundStorages
<1> QED BY <1>2, <1>3, <1>4 DEF e

LEMMA LearnWordFailsOwned ==
  ASSUME TypeInv, OwnedInv, PlainCalls, NEW h \in Handle, LearnWordFails(h), txn[h] # "none",
         frame[h].op \in {"learn", "train", "file"}, frame[h].arg \in Word
  PROVE  OwnedInv'
<1>1. PICK s \in AfterFailure(h, Untouched(h)) :
        LearnFails(h, s) /\ cache' = [cache EXCEPT ![h] = ClearCache(h)]
  BY DEF LearnWordFails
<1>2. Sound(s) /\ s.txn # "none"
  BY <1>1, FailureLeaves, SoundStorages DEF Untouched
<1> QED BY <1>1, <1>2, LearnFailsOwned

LEMMA PlanDomains ==
  ASSUME NEW w \in Word
  PROVE  /\ Learnable(w) => 1 \in DOMAIN Plan[w]
         /\ DOMAIN Plan[w] = 1..Len(Plan[w]) /\ Len(Plan[w]) \in Nat
         /\ \A k \in DOMAIN Plan[w] :
              /\ Len(Plan[w][k].prefixes) \in Nat
              /\ DOMAIN Plan[w][k].prefixes = 1..Len(Plan[w][k].prefixes)
         /\ Learnable(w) => \A j \in DOMAIN Plan[w][1].prefixes : j \in Nat \ {0}
<1> DEFINE R == [pattern : Pattern, prefixes : PlanPrefixes]
<1>1. Plan[w] \in Seq(R)
  BY LearningsAssumption DEF Products
<1>2. Learnable(w) => 1 \in DOMAIN Plan[w]
  <2> HIDE DEF R
  <2> QED BY <1>1, SeqElement DEF Learnable
<1>3. DOMAIN Plan[w] = 1..Len(Plan[w]) /\ Len(Plan[w]) \in Nat
      /\ \A k \in DOMAIN Plan[w] : Plan[w][k] \in R
  <2> HIDE DEF R
  <2> QED BY <1>1, SeqElement
<1>4. \A k \in DOMAIN Plan[w] :
        /\ Len(Plan[w][k].prefixes) \in Nat
        /\ DOMAIN Plan[w][k].prefixes = 1..Len(Plan[w][k].prefixes)
  BY <1>3, SeqElement DEF PlanPrefixes
<1> QED BY <1>2, <1>3, <1>4

LEMMA LearnInternalOwned ==
  ASSUME TypeInv, OwnedInv, PlainCalls, NEW h \in Handle, LearnInternal(h)
  PROVE  OwnedInv'
<1> DEFINE f == frame[h]
           g == [f EXCEPT !.pc = "pattern"]
<1>1. /\ f.pc = "learn" /\ f.word \in Word /\ f.confidence \in Int /\ CallOK(f)
      /\ f.op \in {"learn", "train", "file"} /\ f.arg \in Word /\ CallFacts(f)
      /\ txn[h] # "none" /\ f.product = 1 /\ f.prefix = 0
  BY LearningLocals DEF LearnInternal, OwnedInv, StoredFacts, CallFacts, TypeInv, FrameOK, AtOK
<1>2. CASE LearnFails(h, Storage(h)) /\ UNCHANGED cache
  <2>1. cache' = [cache EXCEPT ![h] = cache[h]]
    BY <1>2, Unchanged
  <2> QED BY <1>1, <1>2, <2>1, SoundStorages, LearnFailsOwned
<1>3. CASE Learnable(f.word) /\ LearnWordSucceeds(h, f.word, f.confidence) /\ Continue(h, g)
  <2> DEFINE e == LearnedDb(CurrentDb(h), f.word, f.confidence)
             s == Written(h, e)
             c == LearnedCache(h, f.word)
  <2>1. Sound(s) /\ s.txn = "write" /\ s.view = e /\ Stored(e, f.word) /\ CacheFresh(e, c)
    BY <1>1, LearnWordLeaves
  <2>2. SetStorage(h, s) /\ cache' = [cache EXCEPT ![h] = c] /\ frame' = [frame EXCEPT ![h] = g]
    BY <1>3 DEF LearnWordSucceeds, Continue
  <2>3. /\ g.pc = "pattern" /\ g.op = f.op /\ g.arg = f.arg /\ g.word = f.word
        /\ g.pattern = f.pattern /\ g.main = f.main /\ g.product = 1 /\ g.prefix = 0
    BY <1>1 DEF CallOK, Frames
  <2> HIDE DEF e, s, c, g
  <2>4. CallFacts(g)
    BY <1>1, <2>3 DEF CallFacts, PatternPcs
  <2>5. PrefixesStored(e, g)
    <3>1. \A j \in DOMAIN Plan[f.word][1].prefixes : j \in Nat \ {0}
      BY <1>1, <1>3, PlanDomains
    <3> QED BY <2>3, <3>1 DEF PrefixesStored
  <2>6. StoredFacts(s.txn, s.view, c, g) /\ PatternsOwnedIn(s.db)
    BY <2>1, <2>3, <2>5 DEF StoredFacts, Sound, PatternPcs
  <2> QED BY <2>2, <2>4, <2>6, OwnedStep
<1>4. CASE LearnWordFails(h)
  BY <1>1, <1>4, LearnWordFailsOwned
<1> QED BY <1>2, <1>3, <1>4 DEF LearnInternal

LEMMA LearnPrefixWordOwned ==
  ASSUME TypeInv, OwnedInv, PlainCalls, NEW h \in Handle, LearnPrefixWord(h)
  PROVE  OwnedInv'
<1> DEFINE f == frame[h]
           g == [f EXCEPT !.pc = "prefix_pattern"]
           v == view[h]
<1>1. /\ f.pc = "prefix_word" /\ f.word \in Word /\ CallOK(f) /\ CallFacts(f)
      /\ f.op \in {"learn", "train", "file"} /\ f.arg \in Word
      /\ txn[h] = "write" /\ f.product = 1 /\ f.product \in DOMAIN Plan[f.word]
      /\ f.prefix \in DOMAIN Plan[f.word][f.product].prefixes
      /\ Stored(v, f.word) /\ PrefixesStored(v, f)
  BY LearningLocals DEF LearnPrefixWord, OwnedInv, StoredFacts, CallFacts, TypeInv, FrameOK, AtOK,
     PatternPcs
<1>2. PrefixOf(f) = Plan[f.word][1].prefixes[f.prefix] /\ PrefixOf(f).word \in Word
  BY <1>1, PlanTypes DEF PrefixOf
<1>3. CASE LearnWordSucceeds(h, PrefixOf(f).word, 1) /\ Continue(h, g)
  <2> DEFINE x == PrefixOf(f).word
             e == LearnedDb(CurrentDb(h), x, 1)
             s == Written(h, e)
             c == LearnedCache(h, x)
  <2>0. CurrentDb(h) = v /\ txn[h] # "none"
    BY <1>1 DEF CurrentDb
  <2>1. /\ Sound(s) /\ s.txn = "write" /\ s.view = e /\ Stored(e, x) /\ CacheFresh(e, c)
        /\ WordsKept(v, e)
    <3>1. x \in Word /\ 1 \in Int
      BY <1>2
    <3>2. /\ Sound(s) /\ s.txn = "write" /\ s.view = e /\ Stored(e, x) /\ CacheFresh(e, c)
          /\ WordsKept(CurrentDb(h), e)
      <4> HIDE DEF x
      <4> QED BY <2>0, <3>1, LearnWordLeaves
    <3> QED BY <2>0, <3>2
  <2>2. SetStorage(h, s) /\ cache' = [cache EXCEPT ![h] = c] /\ frame' = [frame EXCEPT ![h] = g]
    BY <1>3 DEF LearnWordSucceeds, Continue
  <2>3. /\ g.pc = "prefix_pattern" /\ g.op = f.op /\ g.arg = f.arg /\ g.word = f.word
        /\ g.pattern = f.pattern /\ g.main = f.main /\ g.product = 1 /\ g.prefix = f.prefix
    BY <1>1 DEF CallOK, Frames
  <2> HIDE DEF e, s, c, g, v
  <2>4. CallFacts(g)
    BY <1>1, <2>3 DEF CallFacts, PatternPcs
  <2>5. Stored(e, f.word)
    BY <1>1, <2>1, StoredKept
  <2>6. PrefixesStored(e, g)
    <3> SUFFICES ASSUME NEW j \in DOMAIN Plan[f.word][1].prefixes, j < f.prefix \/ j = f.prefix
                 PROVE  Stored(e, Plan[f.word][1].prefixes[j].word)
      BY <2>3 DEF PrefixesStored
    <3>1. CASE j = f.prefix
      BY <1>2, <2>1, <3>1
    <3>2. CASE j < f.prefix
      <4>1. Stored(v, Plan[f.word][1].prefixes[j].word)
        BY <1>1, <3>2 DEF PrefixesStored
      <4> QED BY <2>1, <4>1, StoredKept
    <3> QED BY <3>1, <3>2
  <2>7. StoredFacts(s.txn, s.view, c, g) /\ PatternsOwnedIn(s.db)
    BY <2>1, <2>3, <2>5, <2>6 DEF StoredFacts, Sound, PatternPcs
  <2> QED BY <2>2, <2>4, <2>7, OwnedStep
<1>4. CASE LearnWordFails(h)
  BY <1>1, <1>4, LearnWordFailsOwned
<1> QED BY <1>3, <1>4 DEF LearnPrefixWord

\* The id a pattern of a stored word is stored with is the id of that word.
LEMMA WordIdIsTrue ==
  ASSUME TypeInv, NEW h \in Handle, txn[h] = "write", CacheFresh(view[h], cache[h]),
         NEW w \in Word \ {Empty}, Stored(view[h], w)
  PROVE  \E q \in view[h].words : q.word = w /\ q.id = GetWordId(h, w)
<1>1. CurrentDb(h) = view[h] /\ Good(view[h])
  BY StorageTypes DEF CurrentDb
<1>2. CASE Cached(h, w)
  BY <1>2 DEF Cached, CacheFresh, GetWordId
<1>3. CASE ~Cached(h, w)
  BY <1>1, <1>3, IdOfType DEF GetWordId, Good
<1> QED BY <1>2, <1>3

\* So the statements of vwt_persist_pattern leave every pattern with its word.
LEMMA PatternLeaves ==
  ASSUME TypeInv, OwnedInv, NEW h \in Handle, txn[h] = "write",
         CacheFresh(view[h], cache[h]), NEW w \in Word \ {Empty}, Stored(view[h], w),
         NEW p \in Pattern, p \in OwnPatterns[w], NEW b \in BOOLEAN
  PROVE  LET i == GetWordId(h, w)
             s == Written(h, PersistPattern(CurrentDb(h), p, i, b)) IN
         /\ i \in Int
         /\ Sound(s) /\ s.txn = "write" /\ s.view.words = view[h].words
         /\ \A z \in PartialPatterns(h, p, i, b) : Sound(z) /\ z.txn # "none"
<1> DEFINE i == GetWordId(h, w)
           v == view[h]
           d == PersistPattern(v, p, i, b)
           e == InsertPattern(v, p, i)
<1>1. CurrentDb(h) = v /\ Good(v) /\ PatternsOwnedIn(v) /\ i \in Int
  BY StorageTypes, SoundStorages, GetWordIdType DEF CurrentDb
<1>2. \E q \in v.words : q.word = w /\ q.id = i
  BY WordIdIsTrue
<1> HIDE DEF i, v
<1>3. PatternsOwnedIn(d) /\ PatternsOwnedIn(e) /\ d.words = v.words
  BY <1>1, <1>2, PersistedPattern
<1> HIDE DEF d, e
<1>4. /\ Sound(Written(h, d)) /\ Written(h, d).txn = "write" /\ Written(h, d).view = d
      /\ Sound(Written(h, e)) /\ Written(h, e).txn # "none"
      /\ Sound(Storage(h)) /\ Storage(h).txn # "none"
  BY <1>3, SoundStorages
<1>5. \A z \in PartialPatterns(h, p, i, b) : z \in {Storage(h), Written(h, e)}
  BY <1>1 DEF PartialPatterns, e
<1> QED BY <1>1, <1>3, <1>4, <1>5 DEF d, i, v

\* The frame after a pattern is stored, in the same transaction t, with the same
\* words and the same cache.
LEMMA NextPatternFacts ==
  ASSUME PlainCalls, NEW f, FrameOK(f), f.pc \in {"pattern", "prefix_pattern"}, CallFacts(f),
         NEW s, Sound(s), s.txn = "write", NEW c, CacheFresh(s.view, c),
         Stored(s.view, f.word), PrefixesStored(s.view, f)
  PROVE  CallFacts(NextPattern(f)) /\ StoredFacts(s.txn, s.view, c, NextPattern(f))
<1> DEFINE p == Len(Plan[f.word][f.product].prefixes)
           n == Len(Plan[f.word])
<1>1. /\ CallOK(f) /\ f.word \in Word /\ f.product \in DOMAIN Plan[f.word]
      /\ f.op \in {"learn", "train", "file"} /\ f.arg \in Word /\ f.prefix \in Nat
      /\ p \in Nat /\ n \in Nat /\ f.product \in 1..n
      /\ DOMAIN Plan[f.word][f.product].prefixes = 1..p
      /\ Learnable(f.word) /\ PatternsOwnedIn(s.view)
  <2>1. /\ CallOK(f) /\ f.word \in Word /\ f.product \in DOMAIN Plan[f.word]
        /\ f.op \in {"learn", "train", "file"} /\ f.arg \in Word /\ f.prefix \in Nat
    BY DEF FrameOK, CallOK, AtOK, Frames, PatternPcs
  <2>2. Plan[f.word] # <<>>
    BY <2>1, PlanDomains
  <2> QED BY <2>1, <2>2, PlanDomains DEF Learnable, Sound
<1>2. \A j \in DOMAIN Plan[f.word][1].prefixes : j \in Nat \ {0}
  BY <1>1, PlanDomains
<1> HIDE DEF p, n
<1>3. ASSUME NEW g, CallFacts(g), Calm(g) PROVE StoredFacts(s.txn, s.view, c, g)
  BY <1>1, <1>3 DEF StoredFacts, Calm, PatternPcs
<1>4. CASE f.prefix < p
  <2> DEFINE next == IF f.product = 1 THEN "prefix_word" ELSE "prefix_pattern"
             g == [f EXCEPT !.prefix = @ + 1, !.pc = next]
  <2>1. /\ g.word = f.word /\ g.product = f.product /\ g.op = f.op /\ g.arg = f.arg
        /\ g.pattern = f.pattern /\ g.main = f.main /\ g.prefix = f.prefix + 1 /\ g.pc = next
    BY <1>1 DEF CallOK, Frames
  <2>2. NextPattern(f) = g
    BY <1>4 DEF NextPattern, p
  <2> HIDE DEF g
  <2>3. CallFacts(g)
    BY <2>1 DEF CallFacts, PatternPcs
  <2>4. PrefixesStored(s.view, g)
    <3> SUFFICES ASSUME NEW j \in DOMAIN Plan[f.word][1].prefixes,
                        f.product > 1 \/ j < f.prefix + 1 \/ (j = f.prefix + 1 /\ g.pc # "prefix_word")
                 PROVE  Stored(s.view, Plan[f.word][1].prefixes[j].word)
      BY <2>1 DEF PrefixesStored
    <3>1. f.product > 1 \/ j < f.prefix \/ j = f.prefix
      BY <1>1, <1>2, <2>1
    <3> QED BY <3>1 DEF PrefixesStored
  <2>5. StoredFacts(s.txn, s.view, c, g)
    BY <1>1, <2>1, <2>4 DEF StoredFacts, PatternPcs
  <2> QED BY <2>2, <2>3, <2>5
<1>5. CASE ~(f.prefix < p) /\ f.product < n
  <2> DEFINE g == [f EXCEPT !.product = @ + 1, !.prefix = 0, !.pc = "pattern"]
  <2>1. /\ g.word = f.word /\ g.product = f.product + 1 /\ g.op = f.op /\ g.arg = f.arg
        /\ g.pattern = f.pattern /\ g.main = f.main /\ g.prefix = 0 /\ g.pc = "pattern"
    BY <1>1 DEF CallOK, Frames
  <2>2. NextPattern(f) = g
    BY <1>5 DEF NextPattern, p, n
  <2> HIDE DEF g
  <2>3. CallFacts(g)
    BY <2>1 DEF CallFacts, PatternPcs
  <2>4. PrefixesStored(s.view, g)
    <3> SUFFICES ASSUME NEW j \in DOMAIN Plan[f.word][1].prefixes
                 PROVE  Stored(s.view, Plan[f.word][1].prefixes[j].word)
      BY <2>1 DEF PrefixesStored
    <3>1. f.product > 1 \/ j < f.prefix \/ j = f.prefix
      BY <1>1, <1>2, <1>5
    <3> QED BY <3>1 DEF PrefixesStored
  <2>5. StoredFacts(s.txn, s.view, c, g)
    BY <1>1, <2>1, <2>4 DEF StoredFacts, PatternPcs
  <2> QED BY <2>2, <2>3, <2>5
<1>6. CASE ~(f.prefix < p) /\ ~(f.product < n)
  <2>1. NextPattern(f) = WordDone(f)
    BY <1>6 DEF NextPattern, p, n
  <2>2. CASE ~f.main
    <3>1. WordDone(f) = NextStem(f) /\ f.op \in {"learn", "file"}
      BY <1>1, <2>2 DEF WordDone, CallFacts
    <3> QED BY <1>1, <1>3, <2>1, <3>1, NextStemFacts
  <2>3. CASE f.main
    <3> DEFINE next == IF f.op = "train" THEN "train" ELSE "stem"
               g == [f EXCEPT !.pc = next]
    <3>1. /\ g.word = f.word /\ g.op = f.op /\ g.arg = f.arg
          /\ g.pattern = f.pattern /\ g.main = f.main /\ g.pc = next
      BY <1>1 DEF CallOK, Frames
    <3>2. NextPattern(f) = g
      BY <2>1, <2>3 DEF WordDone
    <3>3. f.op = "train" => f.word = f.arg
      BY DEF CallFacts, PatternPcs
    <3> HIDE DEF g
    <3>4. CallFacts(g)
      BY <1>1, <3>1, <3>3 DEF CallFacts, PatternPcs
    <3>5. StoredFacts(s.txn, s.view, c, g)
      BY <1>1, <3>1, <3>3 DEF StoredFacts, PatternPcs
    <3> QED BY <3>2, <3>4, <3>5
  <2> QED BY <2>2, <2>3
<1> QED BY <1>4, <1>5, <1>6

LEMMA LearnPatternOfOwned ==
  ASSUME TypeInv, OwnedInv, PlainCalls, NEW h \in Handle,
         frame[h].pc \in {"pattern", "prefix_pattern"},
         NEW w \in Word \ {Empty}, Stored(view[h], w),
         NEW p \in Pattern, p \in OwnPatterns[w], NEW b \in BOOLEAN, LearnPatternOf(h, w, p, b)
  PROVE  OwnedInv'
<1> DEFINE f == frame[h]
           i == GetWordId(h, w)
           s == Written(h, PersistPattern(CurrentDb(h), p, i, b))
<1>1. /\ FrameOK(f) /\ CallFacts(f) /\ txn[h] = "write" /\ CacheFresh(view[h], cache[h])
      /\ Stored(view[h], f.word) /\ PrefixesStored(view[h], f)
      /\ f.op \in {"learn", "train", "file"} /\ f.arg \in Word
      /\ cache' = [cache EXCEPT ![h] = cache[h]]
  <2>1. f.pc \in PatternPcs
    BY DEF PatternPcs
  <2>2. cache' = [cache EXCEPT ![h] = cache[h]]
    BY Unchanged DEF LearnPatternOf
  <2> QED BY <2>1, <2>2, LearningLocals DEF OwnedInv, StoredFacts, TypeInv
<1>2. /\ Sound(s) /\ s.txn = "write" /\ s.view.words = view[h].words
      /\ \A z \in PartialPatterns(h, p, i, b) : Sound(z) /\ z.txn # "none"
  BY <1>1, PatternLeaves
<1> HIDE DEF i, s
<1>3. CASE PatternSaved(h, p, i, b) /\ Continue(h, NextPattern(f))
  <2>1. /\ CacheFresh(s.view, cache[h]) /\ Stored(s.view, f.word)
        /\ PrefixesStored(s.view, f)
    BY <1>1, <1>2 DEF CacheFresh, PrefixesStored, Stored, RowsOf
  <2>2. CallFacts(NextPattern(f)) /\ StoredFacts(s.txn, s.view, cache[h], NextPattern(f))
    BY <1>1, <1>2, <2>1, NextPatternFacts
  <2>3. SetStorage(h, s) /\ frame' = [frame EXCEPT ![h] = NextPattern(f)]
    BY <1>3 DEF PatternSaved, Continue, s
  <2> QED BY <1>1, <1>2, <2>2, <2>3, OwnedStep DEF Sound
<1>4. ASSUME NEW z \in AfterFailure(h, PartialPatterns(h, p, i, b)), LearnFails(h, z)
      PROVE  OwnedInv'
  <2>1. Sound(z) /\ z.txn # "none"
    BY <1>2, <1>4, FailureLeaves
  <2> QED BY <1>1, <1>4, <2>1, LearnFailsOwned
<1> QED BY <1>3, <1>4 DEF LearnPatternOf, i

LEMMA LearnPatternsOwned ==
  ASSUME TypeInv, OwnedInv, PlainCalls, NEW h \in Handle,
         LearnPattern(h) \/ LearnPrefixPattern(h)
  PROVE  OwnedInv'
<1> DEFINE f == frame[h]
           w == f.word
           k == f.product
<1>1. /\ f.pc \in {"pattern", "prefix_pattern"} /\ w \in Word /\ k \in DOMAIN Plan[w]
      /\ k \in Nat \ {0}
      /\ Stored(view[h], w) /\ PrefixesStored(view[h], f)
      /\ f.pc = "prefix_pattern" => f.prefix \in DOMAIN Plan[w][k].prefixes
  <2>1. f.pc \in PatternPcs
    BY DEF LearnPattern, LearnPrefixPattern, PatternPcs
  <2>2. w \in Word /\ k \in DOMAIN Plan[w]
    BY <2>1 DEF TypeInv, FrameOK, AtOK
  <2> QED BY <2>1, <2>2, PlanTypes
          DEF LearnPattern, LearnPrefixPattern, OwnedInv, StoredFacts, TypeInv, FrameOK, AtOK
<1>2. w # Empty
  <2>1. Plan[w] # <<>>
    BY <1>1, PlanDomains
  <2> QED BY <2>1, LearningsAssumption
<1>3. CASE LearnPattern(h)
  <2>1. Plan[w][k].pattern \in Pattern
    BY <1>1, PlanTypes
  <2>2. Plan[w][k].pattern \in OwnPatterns[w]
    BY <1>1, <2>1 DEF OwnPatterns
  <2>3. LearnPatternOf(h, w, Plan[w][k].pattern, FALSE) /\ FALSE \in BOOLEAN
    BY <1>3 DEF LearnPattern
  <2> HIDE DEF f, w, k
  <2> QED BY <1>1, <1>2, <2>1, <2>2, <2>3, LearnPatternOfOwned DEF f
<1>4. CASE LearnPrefixPattern(h)
  <2> DEFINE x == Plan[w][k].prefixes[f.prefix]
  <2>0. f.prefix \in DOMAIN Plan[w][k].prefixes
    BY <1>1, <1>4 DEF LearnPrefixPattern
  <2>1. x \in [word : Word, pattern : Pattern] /\ x.word # Empty
    <3>1. Plan[w] \in Seq([pattern : Pattern, prefixes : PlanPrefixes])
      BY <1>1, LearningsAssumption DEF Products
    <3>2. Plan[w][k] \in [pattern : Pattern, prefixes : PlanPrefixes]
      BY <1>1, <3>1, SeqElement
    <3>3. Plan[w][k].prefixes \in Seq([word : Word, pattern : Pattern])
      BY <3>2 DEF PlanPrefixes
    <3>4. x \in [word : Word, pattern : Pattern]
      BY <2>0, <3>3, SeqElement
    <3> QED BY <1>1, <2>0, <3>4, PlanTypes
  <2>2. x = [word |-> x.word, pattern |-> x.pattern] /\ x.word \in Word /\ x.pattern \in Pattern
    BY <2>1
  <2>3. x.pattern \in OwnPatterns[x.word]
    <3> HIDE DEF x
    <3>1. Plan[w][k].prefixes[f.prefix] = [word |-> x.word, pattern |-> x.pattern]
      BY <2>2 DEF x
    <3>2. \E u \in Word : \E m \in DOMAIN Plan[u] : \E j \in DOMAIN Plan[u][m].prefixes :
            Plan[u][m].prefixes[j] = [word |-> x.word, pattern |-> x.pattern]
      BY <1>1, <2>0, <3>1
    <3> QED BY <2>2, <3>2 DEF OwnPatterns
  <2>4. Stored(view[h], x.word)
    <3>1. PICK j \in DOMAIN Plan[w][1].prefixes : Plan[w][1].prefixes[j].word = x.word
      BY <1>1, <2>0 DEF PlainCalls
    <3>2. CASE k > 1
      BY <1>1, <3>1, <3>2 DEF PrefixesStored
    <3>3. CASE k = 1
      <4>1. f.prefix \in DOMAIN Plan[w][1].prefixes /\ f.pc # "prefix_word"
        BY <1>1, <2>0, <3>3
      <4> QED BY <1>1, <3>3, <4>1 DEF PrefixesStored
    <3> QED BY <1>1, <3>2, <3>3
  <2>5. LearnPatternOf(h, x.word, x.pattern, TRUE) /\ TRUE \in BOOLEAN
    BY <1>4 DEF LearnPrefixPattern, PrefixOf
  <2> HIDE DEF f, w, k, x
  <2> QED BY <1>1, <2>1, <2>2, <2>3, <2>4, <2>5, LearnPatternOfOwned DEF f
<1> QED BY <1>3, <1>4

LEMMA StemOwned ==
  ASSUME TypeInv, OwnedInv, PlainCalls, NEW h \in Handle, Stem(h)
  PROVE  OwnedInv'
<1> DEFINE f == frame[h]
           g == [f EXCEPT !.stems = Stems[f.arg]]
<1>1. CallOK(f) /\ CallFacts(f) /\ f.op \in {"learn", "file"} /\ f.arg \in Word /\ txn[h] # "none"
  BY DEF Stem, TypeInv, FrameOK, AtOK, OwnedInv, CallFacts, StoredFacts
<1>2. SetStorage(h, Storage(h)) /\ cache' = [cache EXCEPT ![h] = cache[h]]
      /\ Sound(Storage(h)) /\ Storage(h).txn # "none"
  BY <1>1, Unchanged, SoundStorages DEF Stem
<1>3. CASE Continue(h, NextStem(g))
  <2>1. Stems[f.arg] \in Seq(Word)
    BY <1>1, LearningsAssumption
  <2>2. CallOK(g) /\ g.op = f.op /\ g.arg = f.arg /\ g.pc = "stem"
    BY <1>1, <2>1 DEF CallOK, Frames, Stem
  <2> HIDE DEF g
  <2>3. CallFacts(g)
    BY <1>1, <2>2 DEF CallFacts, PatternPcs
  <2>4. CallFacts(NextStem(g)) /\ Calm(NextStem(g))
    BY <1>1, <2>2, <2>3, NextStemFacts
  <2> QED BY <1>2, <1>3, <2>4, CalmStep DEF Continue
<1>4. ASSUME NEW code, Return(h, code) PROVE OwnedInv'
  BY <1>2, <1>4, IdleFacts, CalmStep DEF Return
<1> QED BY <1>3, <1>4 DEF Stem

LEMMA TrainPatternOwned ==
  ASSUME TypeInv, OwnedInv, PlainCalls, NEW h \in Handle, TrainPattern(h)
  PROVE  OwnedInv'
<1> DEFINE f == frame[h]
           w == f.arg
           i == GetWordId(h, w)
           s == Written(h, PersistPattern(CurrentDb(h), f.pattern, i, FALSE))
           g == [f EXCEPT !.pc = "commit"]
<1>1. /\ f.pc = "train" /\ CallOK(f) /\ CallFacts(f) /\ f.op = "train" /\ w \in Word
      /\ f.pattern \in Pattern /\ <<f.pattern, w>> \in TrainCalls /\ Learnable(w)
      /\ txn[h] = "write" /\ CacheFresh(view[h], cache[h]) /\ Stored(view[h], w)
      /\ cache' = [cache EXCEPT ![h] = cache[h]]
  <2>1. cache' = [cache EXCEPT ![h] = cache[h]]
    BY Unchanged DEF TrainPattern
  <2> QED BY <2>1 DEF TrainPattern, TypeInv, FrameOK, AtOK, CallOK, OwnedInv, CallFacts, StoredFacts
<1>2. w \in Word \ {Empty} /\ f.pattern \in OwnPatterns[w] /\ FALSE \in BOOLEAN
  BY <1>1, LearningsAssumption DEF Learnable, OwnPatterns
<1>3. /\ Sound(s)
      /\ \A z \in PartialPatterns(h, f.pattern, i, FALSE) : Sound(z) /\ z.txn # "none"
  <2> HIDE DEF f
  <2> QED BY <1>1, <1>2, PatternLeaves
<1> HIDE DEF i, s
<1>4. CASE PatternSaved(h, f.pattern, i, FALSE) /\ Continue(h, g)
  <2>1. CallFacts(g) /\ Calm(g) /\ g.pc = "commit"
    BY <1>1, CommitFacts
  <2> HIDE DEF g
  <2>2. SetStorage(h, s) /\ frame' = [frame EXCEPT ![h] = g]
    BY <1>4 DEF PatternSaved, Continue, s
  <2> QED BY <1>1, <1>3, <2>1, <2>2, CalmStep
<1>5. ASSUME NEW z \in AfterFailure(h, PartialPatterns(h, f.pattern, i, FALSE)),
             SetStorage(h, z), Return(h, "error")
      PROVE  OwnedInv'
  <2>1. Sound(z)
    BY <1>3, <1>5, FailureLeaves
  <2> QED BY <1>1, <1>5, <2>1, IdleFacts, CalmStep DEF Return
<1> QED BY <1>4, <1>5 DEF TrainPattern, i

LEMMA EndsOwned ==
  ASSUME TypeInv, OwnedInv, PlainCalls, NEW h \in Handle,
         \/ ImportSkip(h) \/ ImportWord(h) \/ ImportPattern(h) \/ ImportFails(h)
         \/ Delete(h) \/ Commit(h)
  PROVE  OwnedInv'
<1> DEFINE f == frame[h]
<1>1. /\ CallOK(f) /\ CallFacts(f) /\ Sound(Storage(h)) /\ Sound(Committed(h))
      /\ f.pc \notin {"import_word", "import_pattern"}
  BY SoundStorages DEF TypeInv, FrameOK, OwnedInv, CallFacts
<1>2. cache' = [cache EXCEPT ![h] = cache[h]]
  BY <1>1, Unchanged DEF ImportSkip, ImportWord, ImportPattern, ImportFails, Delete, Commit
<1>3. ASSUME NEW s, Sound(s), SetStorage(h, s), NEW code, Return(h, code) PROVE OwnedInv'
  BY <1>2, <1>3, IdleFacts, CalmStep DEF Return
<1>4. ASSUME UNCHANGED <<db, txn, view>>, NEW code, Return(h, code) PROVE OwnedInv'
  <2>1. SetStorage(h, Storage(h))
    BY <1>4, Unchanged
  <2> QED BY <1>1, <1>3, <1>4, <2>1
<1>5. CASE ImportSkip(h) \/ ImportWord(h) \/ ImportPattern(h)
  BY <1>1, <1>5 DEF ImportSkip, ImportWord, ImportPattern
<1>6. CASE ImportFails(h)
  BY <1>4, <1>6 DEF ImportFails
<1>7. CASE Delete(h)
  <2>1. CASE /\ SetStorage(h, [db |-> db, view |-> DeleteRows(db, f.id), txn |-> "write"])
             /\ Continue(h, [f EXCEPT !.pc = "commit"])
    <3> DEFINE s == [db |-> db, view |-> DeleteRows(db, f.id), txn |-> "write"]
               g == [f EXCEPT !.pc = "commit"]
    <3>1. Sound(s)
      BY DeletedRows DEF Sound, OwnedInv
    <3>2. CallFacts(g) /\ Calm(g) /\ g.pc = "commit"
      BY <1>1, CommitFacts
    <3>3. SetStorage(h, s) /\ frame' = [frame EXCEPT ![h] = g]
      BY <2>1 DEF Continue
    <3> HIDE DEF s, g
    <3> QED BY <1>2, <3>1, <3>2, <3>3, CalmStep
  <2> QED BY <1>4, <1>7, <2>1 DEF Delete
<1>8. CASE Commit(h)
  <2>1. ASSUME NEW s \in AfterFailure(h, {Storage(h)}), SetStorage(h, s), NEW code, Return(h, code)
        PROVE  OwnedInv'
    <3>1. Sound(s)
      BY <1>1, <2>1, FailureLeaves
    <3> QED BY <1>3, <2>1, <3>1
  <2> QED BY <1>1, <1>3, <1>4, <1>8, <2>1 DEF Commit
<1> QED BY <1>5, <1>6, <1>7, <1>8

-----------------------------------------------------------------------------
LEMMA InitOwned == Init => OwnedInv
BY EmptyOwned, IdleFacts DEF Init, OwnedInv, StoredFacts, PatternPcs

LEMMA NextOwned == PlainCalls /\ TypeInv /\ OwnedInv /\ [Next]_vars => OwnedInv'
<1> SUFFICES ASSUME PlainCalls, TypeInv, OwnedInv, [Next]_vars PROVE OwnedInv'
  OBVIOUS
<1>1. ASSUME NEW h \in Handle, Enter(h) PROVE OwnedInv'
  BY <1>1, EnterOwned
<1>2. ASSUME NEW h \in Handle, Step(h) PROVE OwnedInv'
  BY <1>2, LearnInternalOwned, LearnPatternsOwned, LearnPrefixWordOwned, StemOwned,
     TrainPatternOwned, EndsOwned DEF Step
<1>3. CASE UNCHANGED vars
  BY <1>3 DEF vars, OwnedInv, PatternsOwnedIn
<1> QED BY <1>1, <1>2, <1>3 DEF Next

\* Whatever learn, train, learn_from_file and delete calls any number of handles make
\* on one file, and whichever of their statements and commits fail: every pattern in
\* the file belongs to a stored word that it is a way of writing.
THEOREM PatternsAlwaysOwned ==
  ASSUME PlainCalls
  PROVE  Spec => []PatternsOwned
<1>1. Init => OwnedInv
  BY InitOwned
<1>2. TypeInv /\ OwnedInv /\ [Next]_vars => OwnedInv'
  BY NextOwned
<1>3. OwnedInv => PatternsOwned
  BY DEF OwnedInv, PatternsOwned
<1> QED BY <1>1, <1>2, <1>3, TypeInvariant, PTL DEF Spec

-----------------------------------------------------------------------------
(* The refinement mapping.                                                 *)

\* The patterns of the rows with one id, and those of them that are learned.
AttachedTo(d, i) == {r.pattern : r \in {p \in d.patterns : p.word_id = i}}

LearnedAt(d, i) == {r.pattern : r \in {p \in d.patterns : p.word_id = i /\ p.learned = 1}}

\* The rows behind one word of the store.
LEMMA StoreOfRow ==
  ASSUME NEW d, OneToOne(d), NEW w \in Word, NEW q \in d.words, q.word = w
  PROVE  /\ StoreOf(d)[w] = [confidence |-> q.confidence,
                             patterns |-> PatternsOf(d, w), learned |-> LearnedOf(d, w)]
         /\ PatternsOf(d, w) = AttachedTo(d, q.id)
         /\ LearnedOf(d, w) = LearnedAt(d, q.id)
         /\ StoreOf(d)[w].confidence = q.confidence
         /\ StoreOf(d)[w].patterns = PatternsOf(d, w)
         /\ StoreOf(d)[w].learned = LearnedOf(d, w)
<1>1. /\ Stored(d, w) /\ IdOf(d, w) = q.id
      /\ (CHOOSE r \in RowsOf(d, w) : TRUE) = q
  BY IdOfRow
<1>2. StoreOf(d)[w] = [confidence |-> q.confidence,
                      patterns |-> PatternsOf(d, w), learned |-> LearnedOf(d, w)]
  BY <1>1 DEF StoreOf
<1>3. /\ PatternsOf(d, w) = AttachedTo(d, q.id)
      /\ LearnedOf(d, w) = LearnedAt(d, q.id)
  BY <1>1 DEF PatternsOf, LearnedOf, AttachedTo, LearnedAt
<1> QED BY <1>2, <1>3

LEMMA StoreOfStored ==
  ASSUME NEW d, Good(d), OneToOne(d), NEW w \in Word
  PROVE  /\ StoreOf(d)[w] # NoWord <=> Stored(d, w)
         /\ Stored(d, w) <=> \E q \in d.words : q.word = w
<1>1. Stored(d, w) <=> \E q \in d.words : q.word = w
  BY DEF Stored, RowsOf
<1>2. ASSUME NEW q \in d.words, q.word = w PROVE StoreOf(d)[w] # NoWord
  <2>1. q.confidence \in Int /\ \A p \in d.patterns : p.pattern \in Pattern
    BY DEF Good, GoodDb, Db, WordRow, PatternRow
  <2>2. PatternsOf(d, w) \in SUBSET Pattern /\ LearnedOf(d, w) \in SUBSET Pattern
    BY <2>1 DEF PatternsOf, LearnedOf
  <2>3. StoreOf(d)[w] = [confidence |-> q.confidence,
                        patterns |-> PatternsOf(d, w), learned |-> LearnedOf(d, w)]
    BY <1>2, StoreOfRow
  <2>4. StoreOf(d)[w] \in [confidence : Int, patterns : SUBSET Pattern, learned : SUBSET Pattern]
    BY <2>1, <2>2, <2>3
  <2> QED BY <2>4, LearningsAssumption
<1>3. ASSUME ~Stored(d, w) PROVE StoreOf(d)[w] = NoWord
  BY <1>3 DEF StoreOf
<1> QED BY <1>1, <1>2, <1>3

\* A file with more in it is a store that has grown.
LEMMA GrownStoreGrows ==
  ASSUME Good(db), OneToOne(db), Good(db)', OneToOne(db)', Grown(db, db'), PatternsOwnedIn(db')
  PROVE  Store!Grow
<1> SUFFICES ASSUME NEW w \in Word
             PROVE  /\ StoreOf(db')[w] # NoWord =>
                         /\ StoreOf(db')[w].learned \subseteq StoreOf(db')[w].patterns
                         /\ StoreOf(db')[w].patterns \subseteq OwnPatterns[w]
                    /\ StoreOf(db)[w] # NoWord =>
                         /\ StoreOf(db')[w] # NoWord
                         /\ StoreOf(db')[w].confidence >= StoreOf(db)[w].confidence
                         /\ StoreOf(db)[w].patterns \subseteq StoreOf(db')[w].patterns
                         /\ StoreOf(db)[w].learned \subseteq StoreOf(db')[w].learned
  BY DEF Store!Grow, Store!Unknown, Store!GrowsFrom
<1>0. /\ StoreOf(db')[w] # NoWord => \E q \in db'.words : q.word = w
      /\ StoreOf(db)[w] # NoWord => \E q \in db.words : q.word = w
      /\ (\E q \in db'.words : q.word = w) => StoreOf(db')[w] # NoWord
  BY StoreOfStored DEF Good
<1>1. ASSUME NEW q \in db'.words, q.word = w
      PROVE  /\ StoreOf(db')[w].learned \subseteq StoreOf(db')[w].patterns
             /\ StoreOf(db')[w].patterns \subseteq OwnPatterns[w]
  <2>1. /\ StoreOf(db')[w].patterns = AttachedTo(db', q.id)
        /\ StoreOf(db')[w].learned = LearnedAt(db', q.id)
    BY <1>1, StoreOfRow
  <2>2. ASSUME NEW p \in db'.patterns, p.word_id = q.id PROVE p.pattern \in OwnPatterns[w]
    BY <1>1, <2>2 DEF PatternsOwnedIn, OneToOne
  <2> QED BY <2>1, <2>2 DEF AttachedTo, LearnedAt
<1>2. ASSUME NEW q \in db.words, q.word = w
      PROVE  /\ StoreOf(db')[w] # NoWord
             /\ StoreOf(db')[w].confidence >= StoreOf(db)[w].confidence
             /\ StoreOf(db)[w].patterns \subseteq StoreOf(db')[w].patterns
             /\ StoreOf(db)[w].learned \subseteq StoreOf(db')[w].learned
  <2>1. PICK r \in db'.words : r.word = q.word /\ r.id = q.id /\ r.confidence >= q.confidence
    BY DEF Grown
  <2>2. /\ StoreOf(db)[w].confidence = q.confidence
        /\ StoreOf(db)[w].patterns = AttachedTo(db, q.id)
        /\ StoreOf(db)[w].learned = LearnedAt(db, q.id)
    BY <1>2, StoreOfRow
  <2>3. /\ StoreOf(db')[w].confidence = r.confidence
        /\ StoreOf(db')[w].patterns = AttachedTo(db', q.id)
        /\ StoreOf(db')[w].learned = LearnedAt(db', q.id)
    <3>1. r.word = w /\ OneToOne(db')
      BY <1>2, <2>1 DEF OneToOne
    <3>2. /\ StoreOf(db')[w].confidence = r.confidence
          /\ StoreOf(db')[w].patterns = AttachedTo(db', r.id)
          /\ StoreOf(db')[w].learned = LearnedAt(db', r.id)
      BY <3>1, StoreOfRow
    <3> QED BY <2>1, <3>2
  <2>4. ASSUME NEW p \in db.patterns
        PROVE  \E x \in db'.patterns : /\ x.pattern = p.pattern /\ x.word_id = p.word_id
                                       /\ p.learned = 1 => x.learned = 1
    <3>1. PICK x \in db'.patterns :
            x.pattern = p.pattern /\ x.word_id = p.word_id /\ x.learned >= p.learned
      BY DEF Grown
    <3>2. x.learned \in {0, 1}
      BY DEF Good, GoodDb, Db, PatternRow
    <3> QED BY <3>1, <3>2
  <2>5. StoreOf(db')[w] # NoWord
    BY <1>0, <1>2, <2>1
  <2> QED BY <2>1, <2>2, <2>3, <2>4, <2>5 DEF AttachedTo, LearnedAt
<1> QED BY <1>0, <1>1, <1>2

\* Deleting the rows of an id forgets the word that has it, or, when no word has it,
\* changes nothing of the store.
LEMMA DeletedStoreForgets ==
  ASSUME Good(db), OneToOne(db), Good(db)', NEW i, db' = DeleteRows(db, i)
  PROVE  (\E w \in Word : Store!Forget(w)) \/ StoreOf(db') = StoreOf(db)
<1>1. OneToOne(db')
  BY DeleteRowsOneToOne
<1>2. /\ db'.words = {r \in db.words : r.id # i}
      /\ db'.patterns = {r \in db.patterns : r.word_id # i}
  BY DEF DeleteRows
<1>3. /\ \A w \in Word : Stored(db', w) <=> \E q \in db'.words : q.word = w
      /\ \A w \in Word : StoreOf(db')[w] # NoWord <=> Stored(db', w)
      /\ \A w \in Word : StoreOf(db)[w] # NoWord <=> Stored(db, w)
      /\ \A w \in Word : Stored(db, w) <=> \E q \in db.words : q.word = w
  BY <1>1, StoreOfStored DEF Good
<1>4. ASSUME NEW q \in db.words, q.id # i, q.word \in Word
      PROVE  StoreOf(db')[q.word] = StoreOf(db)[q.word]
  <2>1. q \in db'.words
    BY <1>2, <1>4
  <2>2. AttachedTo(db', q.id) = AttachedTo(db, q.id) /\ LearnedAt(db', q.id) = LearnedAt(db, q.id)
    BY <1>2, <1>4 DEF AttachedTo, LearnedAt
  <2>4. /\ PatternsOf(db', q.word) = PatternsOf(db, q.word)
        /\ LearnedOf(db', q.word) = LearnedOf(db, q.word)
    <3>1. /\ PatternsOf(db, q.word) = AttachedTo(db, q.id)
          /\ LearnedOf(db, q.word) = LearnedAt(db, q.id)
      BY <1>4, StoreOfRow
    <3>2. /\ PatternsOf(db', q.word) = AttachedTo(db', q.id)
          /\ LearnedOf(db', q.word) = LearnedAt(db', q.id)
      BY <1>1, <1>4, <2>1, StoreOfRow
    <3> QED BY <2>2, <3>1, <3>2
  <2>5. /\ StoreOf(db)[q.word] = [confidence |-> q.confidence,
                  patterns |-> PatternsOf(db, q.word), learned |-> LearnedOf(db, q.word)]
    BY <1>4, StoreOfRow
  <2>6. /\ StoreOf(db')[q.word] = [confidence |-> q.confidence,
                  patterns |-> PatternsOf(db', q.word), learned |-> LearnedOf(db', q.word)]
    BY <1>1, <1>4, <2>1, StoreOfRow
  <2> QED BY <2>4, <2>5, <2>6
<1>5. StoreOf(db) = [w \in Word |-> StoreOf(db)[w]] /\ StoreOf(db') = [w \in Word |-> StoreOf(db')[w]]
  BY DEF StoreOf
<1>6. CASE \A q \in db.words : q.id # i
  <2>1. \A w \in Word : StoreOf(db')[w] = StoreOf(db)[w]
    <3> TAKE w \in Word
    <3>1. CASE \E q \in db.words : q.word = w
      BY <1>4, <1>6, <3>1
    <3>2. CASE ~\E q \in db.words : q.word = w
      BY <1>2, <1>3, <3>2
    <3> QED BY <3>1, <3>2
  <2> QED BY <1>5, <2>1
<1>7. ASSUME NEW q \in db.words, q.id = i PROVE \E w \in Word : Store!Forget(w)
  <2>1. q.word \in Word
    BY DEF Good, GoodDb, Db, WordRow
  <2>2. StoreOf(db)[q.word] # NoWord
    BY <1>3, <2>1
  <2>3. StoreOf(db')[q.word] = NoWord
    <3>1. ~\E r \in db'.words : r.word = q.word
      BY <1>2, <1>7 DEF OneToOne
    <3> QED BY <1>3, <2>1, <3>1
  <2>4. \A w \in Word \ {q.word} : StoreOf(db')[w] = StoreOf(db)[w]
    <3> TAKE w \in Word \ {q.word}
    <3>1. CASE \E r \in db.words : r.word = w
      <4>1. PICK r \in db.words : r.word = w
        BY <3>1
      <4>2. r.id # i
        BY <1>7, <4>1 DEF OneToOne
      <4> QED BY <1>4, <4>1, <4>2
    <3>2. CASE ~\E r \in db.words : r.word = w
      BY <1>2, <1>3, <3>2
    <3> QED BY <3>1, <3>2
  <2>5. StoreOf(db') = [StoreOf(db) EXCEPT ![q.word] = NoWord]
    BY <1>5, <2>1, <2>3, <2>4
  <2> QED BY <2>1, <2>2, <2>5 DEF Store!Forget, Store!Unknown
<1> QED BY <1>6, <1>7

\* Every step of every handle leaves the committed file, adds to it or deletes the
\* rows of one id from it.
LEMMA FileStep ==
  ASSUME TypeInv, TypeInv', WriterInv, NEW h \in Handle, Enter(h) \/ Step(h)
  PROVE  Grown(db, db') \/ \E i : db' = DeleteRows(db, i)
<1>1. PICK s : SetStorage(h, s) /\ Moves(h, s)
  BY EnterMoves, StepMoves DEF Moving, WriterInv
<1>2. db' = s.db /\ Grown(db, db)
  BY <1>1, GrownReflexive DEF SetStorage, TypeInv, TypeOK
<1>3. CASE s.db = db
  BY <1>2, <1>3
<1>4. CASE frame[h].pc = "commit" /\ s = Committed(h)
  <2>1. txn[h] = "write" => WrittenBy(frame[h], view[h])
    BY <1>4 DEF WriterInv
  <2> QED BY <1>2, <1>4, <2>1, StorageFields DEF WrittenBy
<1>5. ASSUME CanWrite(h), frame[h].pc \notin {"idle", "delete", "commit"}, NEW e, Adds(h, e),
             s \in {Written(h, e), Discarded(h, Written(h, e))}
      PROVE  Grown(db, s.db)
  <2>1. CASE txn[h] = "none"
    BY <1>5, <2>1, WrittenFields DEF Adds, CurrentDb
  <2>2. CASE txn[h] # "none"
    BY <1>2, <1>5, <2>2, WrittenFields
  <2> QED BY <2>1, <2>2
<1> QED BY <1>1, <1>2, <1>3, <1>4, <1>5, StorageFields, ReadFields DEF Moves

\* Whatever learn, train, learn_from_file and delete calls any number of handles make
\* on one file, in whatever order their statements come and whichever of them fail:
\* people see a store that only grows, word by word with patterns of their own, until
\* a word is deleted, and then that word alone goes, with everything it had.
THEOREM FileImplementsWordStore ==
  ASSUME PlainCalls
  PROVE  Spec => ImplementsWordStore
<1>1. Init => Store!Init
  BY DEF Init, Store!Init, StoreOf, Stored, RowsOf, EmptyDb
<1>2. /\ TypeInv /\ TypeInv' /\ WriterInv /\ WriterInv' /\ OwnedInv /\ OwnedInv' /\ [Next]_vars
      => [Store!Grow \/ \E w \in Word : Store!Forget(w)]_(StoreOf(db))
  <2> SUFFICES ASSUME TypeInv, TypeInv', WriterInv, WriterInv', OwnedInv', [Next]_vars
               PROVE  \/ Store!Grow \/ \E w \in Word : Store!Forget(w)
                      \/ StoreOf(db') = StoreOf(db)
    OBVIOUS
  <2>1. CASE UNCHANGED vars
    BY <2>1 DEF vars
  <2>2. ASSUME NEW h \in Handle, Enter(h) \/ Step(h)
        PROVE  Grown(db, db') \/ \E i : db' = DeleteRows(db, i)
    BY <2>2, FileStep
  <2>3. /\ Good(db) /\ Good(db)' /\ OneToOne(db) /\ OneToOne(db)' /\ PatternsOwnedIn(db')
    BY DEF TypeInv, TypeOK, Good, GoodDb, WriterInv, OneToOneFiles, OwnedInv
  <2>4. CASE Next
    BY <2>2, <2>3, <2>4, GrownStoreGrows, DeletedStoreForgets DEF Next
  <2> QED BY <2>1, <2>4
<1>3. Init /\ [][Next]_vars /\ []TypeInv => []OwnedInv
  BY InitOwned, NextOwned, PTL
<1> QED
  BY <1>1, <1>2, <1>3, TypeInvariant, WriterInvariant, PTL DEF Spec, ImplementsWordStore, Store!Spec

-----------------------------------------------------------------------------
(* LearnDurable: what a call of varnam_learn has stored, place by place.   *)

\* What the theorem needs: a prefix that only a later product of a word has would get
\* its pattern without having been learned (word_already_learned).
PrefixesKnown ==
  \A w \in Word : \A k \in DOMAIN Plan[w] : \A j \in DOMAIN Plan[w][k].prefixes :
    \E i \in DOMAIN Plan[w][1].prefixes :
      Plan[w][1].prefixes[i].word = Plan[w][k].prefixes[j].word

\* The patterns of w's first k products are stored, and of product k + 1 the first j
\* prefixes.
ProductsStored(v, w, k) ==
  \A l \in DOMAIN Plan[w] : l <= k => Plan[w][l].pattern \in LearnedOf(v, w)

PrefixPatternsStored(v, w, k, j) ==
  \A l \in DOMAIN Plan[w] : \A i \in DOMAIN Plan[w][l].prefixes :
    l < k \/ (l = k /\ i <= j) =>
      Plan[w][l].prefixes[i].pattern \in PatternsOf(v, Plan[w][l].prefixes[i].word)

\* What is stored when the pattern at hand has been.
Done(v, f) ==
  /\ Stored(v, f.word) /\ PrefixesStored(v, f)
  /\ ProductsStored(v, f.word, f.product)
  /\ PrefixPatternsStored(v, f.word, f.product, f.prefix)

\* What is stored before that.
Progress(v, f) ==
  /\ Stored(v, f.word) /\ PrefixesStored(v, f)
  /\ ProductsStored(v, f.word, IF f.pc = "pattern" THEN f.product - 1 ELSE f.product)
  /\ PrefixPatternsStored(v, f.word, f.product, IF f.pc = "pattern" THEN 0 ELSE f.prefix - 1)

LearnFacts(t, v, c, f) ==
  f.op = "learn" =>
    /\ f.pc \in {"learn", "stem", "commit"} \cup PatternPcs
    /\ f.main /\ f.pc \in {"learn"} \cup PatternPcs => f.word = Sanitized[f.arg]
    /\ f.pc = "prefix_word" => f.product = 1
    /\ f.pc \in {"learn", "pattern"} => f.prefix = 0
    /\ t # "none" =>
         /\ f.main /\ f.pc \in PatternPcs => t = "write" /\ CacheFresh(v, c) /\ Progress(v, f)
         /\ f.pc \in {"stem", "commit"} \/ ~f.main => t = "write" /\ LearnedIn(v, f.arg)

DurableInv == \A h \in Handle : LearnFacts(txn[h], view[h], cache[h], frame[h])

\* What is attached to a stored word, by the word's row.
LEMMA AttachedRow ==
  ASSUME NEW d, OneToOne(d), NEW q \in d.words
  PROVE  /\ Stored(d, q.word) /\ IdOf(d, q.word) = q.id
         /\ PatternsOf(d, q.word) = AttachedTo(d, q.id)
         /\ LearnedOf(d, q.word) = LearnedAt(d, q.id)
<1>1. Stored(d, q.word) /\ IdOf(d, q.word) = q.id
  BY IdOfRow
<1> QED BY <1>1 DEF PatternsOf, LearnedOf, AttachedTo, LearnedAt

LEMMA GrownKeeps ==
  ASSUME NEW d, NEW e, Good(d), Good(e), OneToOne(d), OneToOne(e), Grown(d, e)
  PROVE  /\ \A w : Stored(d, w) => Stored(e, w)
         /\ \A w : PatternsOf(d, w) \subseteq PatternsOf(e, w)
         /\ \A w : LearnedOf(d, w) \subseteq LearnedOf(e, w)
<1>1. ASSUME NEW i
      PROVE  AttachedTo(d, i) \subseteq AttachedTo(e, i) /\ LearnedAt(d, i) \subseteq LearnedAt(e, i)
  <2>1. ASSUME NEW p \in d.patterns
        PROVE  \E x \in e.patterns : /\ x.pattern = p.pattern /\ x.word_id = p.word_id
                                     /\ p.learned = 1 => x.learned = 1
    <3>1. PICK x \in e.patterns :
            x.pattern = p.pattern /\ x.word_id = p.word_id /\ x.learned >= p.learned
      BY DEF Grown
    <3>2. x.learned \in {0, 1}
      BY DEF Good, GoodDb, Db, PatternRow
    <3> QED BY <3>1, <3>2
  <2> QED BY <2>1 DEF AttachedTo, LearnedAt
<1>2. ASSUME NEW w, Stored(d, w)
      PROVE  /\ Stored(e, w)
             /\ PatternsOf(d, w) \subseteq PatternsOf(e, w)
             /\ LearnedOf(d, w) \subseteq LearnedOf(e, w)
  <2>1. PICK q \in d.words : q.word = w
    BY <1>2 DEF Stored, RowsOf
  <2>2. PICK r \in e.words : r.word = q.word /\ r.id = q.id
    BY DEF Grown
  <2>3. PatternsOf(d, w) = AttachedTo(d, q.id) /\ LearnedOf(d, w) = LearnedAt(d, q.id)
    BY <2>1, AttachedRow
  <2>4. /\ Stored(e, w)
        /\ PatternsOf(e, w) = AttachedTo(e, r.id) /\ LearnedOf(e, w) = LearnedAt(e, r.id)
    BY <2>1, <2>2, AttachedRow
  <2> QED BY <1>1, <2>2, <2>3, <2>4
<1>3. ASSUME NEW w, ~Stored(d, w) PROVE PatternsOf(d, w) = {} /\ LearnedOf(d, w) = {}
  BY <1>3 DEF PatternsOf, LearnedOf
<1> QED BY <1>2, <1>3

\* So nothing a call has stored is lost when its transaction grows.
LEMMA GrownProgress ==
  ASSUME NEW d, NEW e, Good(d), Good(e), OneToOne(d), OneToOne(e), Grown(d, e)
  PROVE  /\ \A w : LearnedIn(d, w) => LearnedIn(e, w)
         /\ \A f : PrefixesStored(d, f) => PrefixesStored(e, f)
         /\ \A w, k : ProductsStored(d, w, k) => ProductsStored(e, w, k)
         /\ \A w, k, j : PrefixPatternsStored(d, w, k, j) => PrefixPatternsStored(e, w, k, j)
<1>1. /\ \A w : Stored(d, w) => Stored(e, w)
      /\ \A w : \A x \in PatternsOf(d, w) : x \in PatternsOf(e, w)
      /\ \A w : \A x \in LearnedOf(d, w) : x \in LearnedOf(e, w)
  BY GrownKeeps
<1>2. \A w : LearnedIn(d, w) => LearnedIn(e, w)
  BY <1>1 DEF LearnedIn
<1>3. \A f : PrefixesStored(d, f) => PrefixesStored(e, f)
  BY <1>1 DEF PrefixesStored
<1>4. \A w, k : ProductsStored(d, w, k) => ProductsStored(e, w, k)
  BY <1>1 DEF ProductsStored
<1>5. \A w, k, j : PrefixPatternsStored(d, w, k, j) => PrefixPatternsStored(e, w, k, j)
  BY <1>1 DEF PrefixPatternsStored
<1> QED BY <1>2, <1>3, <1>4, <1>5

\* vwt_persist_pattern with the id of a stored word gives that word the pattern.
LEMMA PersistAttaches ==
  ASSUME NEW d, Good(d), OneToOne(d), NEW q \in d.words, NEW p \in Pattern, NEW b \in BOOLEAN
  PROVE  LET e == PersistPattern(d, p, q.id, b) IN
         p \in PatternsOf(e, q.word) /\ (~b => p \in LearnedOf(e, q.word))
<1> DEFINE e == PersistPattern(d, p, q.id, b)
<1>1. q.id \in Int
  BY DEF Good, GoodDb, Db, WordRow
<1>2. /\ OneToOne(e) /\ e.words = d.words
      /\ \E r \in e.patterns : r.pattern = p /\ r.word_id = q.id /\ (~b => r.learned = 1)
  BY <1>1, PersistPatternGrows DEF Good
<1> HIDE DEF e
<1>3. PatternsOf(e, q.word) = AttachedTo(e, q.id) /\ LearnedOf(e, q.word) = LearnedAt(e, q.id)
  BY <1>2, AttachedRow
<1>4. p \in AttachedTo(e, q.id) /\ (~b => p \in LearnedAt(e, q.id))
  BY <1>2 DEF AttachedTo, LearnedAt
<1> QED BY <1>3, <1>4 DEF e

-----------------------------------------------------------------------------
(* The frames of varnam_learn.                                             *)

LEMMA OtherCalls ==
  ASSUME NEW f, f.op # "learn"
  PROVE  \A t, v, c : LearnFacts(t, v, c, f)
BY DEF LearnFacts

\* The loops change nothing of which call it is and of what.
LEMMA OpKept ==
  ASSUME NEW f, CallOK(f)
  PROVE  /\ \A x : [f EXCEPT !.pc = x].op = f.op
         /\ \A x, y : [f EXCEPT !.pc = x, !.lineRc = y].op = f.op
         /\ \A w, n, m : StartWord(f, w, n, m).op = f.op
         /\ \A i : StartLine(f, i).op = f.op
         /\ NextStem(f).op = f.op
         /\ NextPattern(f).op = f.op
<1>1. \A x : [f EXCEPT !.pc = x].op = f.op
  BY DEF CallOK, Frames
<1>2. \A x, y : [f EXCEPT !.pc = x, !.lineRc = y].op = f.op
  BY DEF CallOK, Frames
<1>3. \A w, n, m : StartWord(f, w, n, m).op = f.op
  BY DEF StartWord, CallOK, Frames
<1>4. ASSUME NEW i PROVE StartLine(f, i).op = f.op
  <2> DEFINE g == [f EXCEPT !.line = i, !.arg = f.file[i].word, !.lineRc = "success"]
  <2>1. \A w, n, m : StartWord(g, w, n, m).op = f.op
    BY DEF StartWord, CallOK, Frames
  <2> HIDE DEF g
  <2>2. CASE i <= Len(f.file)
    <3>1. StartLine(f, i) = StartWord(g, f.file[i].word, f.file[i].confidence, TRUE)
      BY <2>2 DEF StartLine, g
    <3>2. StartWord(g, f.file[i].word, f.file[i].confidence, TRUE).op = f.op
      BY <2>1
    <3> QED BY <3>1, <3>2
  <2>3. CASE ~(i <= Len(f.file))
    <3>1. StartLine(f, i) = [f EXCEPT !.pc = "commit"]
      BY <2>3 DEF StartLine
    <3> QED BY <1>1, <3>1
  <2> QED BY <2>2, <2>3
<1>5. NextStem(f).op = f.op
  <2> DEFINE g == [f EXCEPT !.stems = Tail(@)]
  <2>1. \A w, n, m : StartWord(g, w, n, m).op = f.op
    BY DEF StartWord, CallOK, Frames
  <2> HIDE DEF g
  <2>2. \/ NextStem(f) = StartWord(g, Head(f.stems), 0, FALSE)
        \/ NextStem(f) = StartLine(f, f.line + 1)
        \/ NextStem(f) = [f EXCEPT !.pc = "commit"]
    BY DEF NextStem, g
  <2>3. StartWord(g, Head(f.stems), 0, FALSE).op = f.op /\ StartLine(f, f.line + 1).op = f.op
    BY <1>4, <2>1
  <2> QED BY <1>1, <2>2, <2>3
<1>6. NextPattern(f).op = f.op
  <2>1. \A x : [f EXCEPT !.prefix = @ + 1, !.pc = x].op = f.op
    BY DEF CallOK, Frames
  <2>2. [f EXCEPT !.product = @ + 1, !.prefix = 0, !.pc = "pattern"].op = f.op
    BY DEF CallOK, Frames
  <2>3. WordDone(f).op = f.op
    BY <1>1, <1>5 DEF WordDone
  <2> QED BY <2>1, <2>2, <2>3 DEF NextPattern
<1> QED BY <1>1, <1>2, <1>3, <1>4, <1>5, <1>6

\* The stems come after the word, and what the word stored is still there.
LEMMA NextStemLearns ==
  ASSUME NEW f, CallOK(f), f.op = "learn", NEW t, NEW v, NEW c,
         t # "none" => t = "write" /\ LearnedIn(v, f.arg)
  PROVE  LearnFacts(t, v, c, NextStem(f))
<1>1. CASE f.stems # <<>>
  <2> DEFINE g == StartWord([f EXCEPT !.stems = Tail(@)], Head(f.stems), 0, FALSE)
  <2>1. g.pc = "learn" /\ g.op = f.op /\ g.arg = f.arg /\ g.main = FALSE /\ g.prefix = 0
    BY DEF StartWord, CallOK, Frames
  <2>2. NextStem(f) = g
    BY <1>1 DEF NextStem
  <2> HIDE DEF g
  <2> QED BY <2>1, <2>2 DEF LearnFacts, PatternPcs
<1>2. CASE f.stems = <<>>
  <2> DEFINE g == [f EXCEPT !.pc = "commit"]
  <2>1. g.pc = "commit" /\ g.op = f.op /\ g.arg = f.arg /\ g.main = f.main
    BY DEF CallOK, Frames
  <2>2. NextStem(f) = g
    BY <1>2 DEF NextStem
  <2> HIDE DEF g
  <2> QED BY <2>1, <2>2 DEF LearnFacts, PatternPcs
<1> QED BY <1>1, <1>2

\* The word's own patterns are stored one after the other, and after the last of them
\* all that the word stores is there.
LEMMA NextPatternLearns ==
  ASSUME NEW f, FrameOK(f), f.pc \in {"pattern", "prefix_pattern"}, f.op = "learn",
         f.pc = "pattern" => f.prefix = 0,
         NEW t, NEW v, NEW c,
         f.main => f.word = Sanitized[f.arg],
         t # "none" /\ f.main => t = "write" /\ CacheFresh(v, c) /\ Done(v, f),
         t # "none" /\ ~f.main => t = "write" /\ LearnedIn(v, f.arg)
  PROVE  LearnFacts(t, v, c, NextPattern(f))
<1> DEFINE p == Len(Plan[f.word][f.product].prefixes)
           n == Len(Plan[f.word])
<1>1. /\ CallOK(f) /\ f.word \in Word /\ f.product \in 1..n /\ n \in Nat
      /\ f.prefix \in Nat /\ p \in Nat /\ f.prefix <= p
      /\ DOMAIN Plan[f.word] = 1..n
      /\ DOMAIN Plan[f.word][f.product].prefixes = 1..p
  <2>1. /\ CallOK(f) /\ f.word \in Word /\ f.product \in DOMAIN Plan[f.word] /\ f.prefix \in Nat
        /\ f.pc = "prefix_pattern" => f.prefix \in DOMAIN Plan[f.word][f.product].prefixes
    BY DEF FrameOK, CallOK, AtOK, Frames, PatternPcs
  <2>2. /\ DOMAIN Plan[f.word] = 1..n /\ n \in Nat /\ p \in Nat
        /\ DOMAIN Plan[f.word][f.product].prefixes = 1..p
    BY <2>1, PlanDomains
  <2>3. f.prefix <= p
    BY <2>1, <2>2
  <2> QED BY <2>1, <2>2, <2>3
<1>2. \A k \in DOMAIN Plan[f.word] : \A j \in DOMAIN Plan[f.word][k].prefixes : j \in Nat \ {0}
  BY <1>1, PlanDomains
<1> HIDE DEF p, n
<1>3. CASE f.prefix < p
  <2> DEFINE next == IF f.product = 1 THEN "prefix_word" ELSE "prefix_pattern"
             g == [f EXCEPT !.prefix = @ + 1, !.pc = next]
  <2>1. /\ g.word = f.word /\ g.product = f.product /\ g.op = f.op /\ g.arg = f.arg
        /\ g.main = f.main /\ g.prefix = f.prefix + 1 /\ g.pc = next
    BY <1>1 DEF CallOK, Frames
  <2>2. NextPattern(f) = g
    BY <1>3 DEF NextPattern, p
  <2> HIDE DEF g
  <2>3. ASSUME Done(v, f) PROVE Progress(v, g)
    <3>1. PrefixesStored(v, g)
      <4> SUFFICES ASSUME NEW j \in DOMAIN Plan[f.word][1].prefixes,
                          f.product > 1 \/ j < f.prefix + 1
                            \/ (j = f.prefix + 1 /\ g.pc # "prefix_word")
                   PROVE  Stored(v, Plan[f.word][1].prefixes[j].word)
        BY <2>1 DEF PrefixesStored
      <4>1. f.product > 1 \/ j < f.prefix \/ j = f.prefix
        <5>1. j \in Nat
          BY <1>1, <1>2
        <5> QED BY <1>1, <2>1, <5>1
      <4>2. f.pc # "prefix_word" /\ PrefixesStored(v, f)
        BY <2>3 DEF Done
      <4> QED BY <4>1, <4>2 DEF PrefixesStored
    <3>2. g.pc # "pattern" /\ g.prefix - 1 = f.prefix
      BY <1>1, <2>1
    <3> QED BY <2>1, <2>3, <3>1, <3>2 DEF Progress, Done
  <2>4. g.pc \in PatternPcs /\ g.pc # "pattern" /\ (g.pc = "prefix_word" => g.product = 1)
    BY <2>1 DEF PatternPcs
  <2>5. g.pc \notin {"stem", "commit"}
    BY <2>1
  <2> QED BY <2>1, <2>2, <2>3, <2>4, <2>5 DEF LearnFacts
<1>4. CASE ~(f.prefix < p) /\ f.product < n
  <2> DEFINE g == [f EXCEPT !.product = @ + 1, !.prefix = 0, !.pc = "pattern"]
  <2>1. /\ g.word = f.word /\ g.product = f.product + 1 /\ g.op = f.op /\ g.arg = f.arg
        /\ g.main = f.main /\ g.prefix = 0 /\ g.pc = "pattern"
    BY <1>1 DEF CallOK, Frames
  <2>2. NextPattern(f) = g
    BY <1>4 DEF NextPattern, p, n
  <2> HIDE DEF g
  <2>3. ASSUME Done(v, f) PROVE Progress(v, g)
    <3>1. PrefixesStored(v, g)
      <4> SUFFICES ASSUME NEW j \in DOMAIN Plan[f.word][1].prefixes
                   PROVE  Stored(v, Plan[f.word][1].prefixes[j].word)
        BY <2>1 DEF PrefixesStored
      <4>1. f.product > 1 \/ j < f.prefix \/ j = f.prefix
        <5>1. 1 \in DOMAIN Plan[f.word] /\ j \in Nat \ {0}
          BY <1>1, <1>2
        <5> QED BY <1>1, <1>4, <5>1
      <4>2. f.pc # "prefix_word" /\ PrefixesStored(v, f)
        BY <2>3 DEF Done
      <4> QED BY <4>1, <4>2 DEF PrefixesStored
    <3>2. PrefixPatternsStored(v, f.word, f.product + 1, 0)
      <4> SUFFICES ASSUME NEW l \in DOMAIN Plan[f.word], NEW i \in DOMAIN Plan[f.word][l].prefixes,
                          l < f.product + 1 \/ (l = f.product + 1 /\ i <= 0)
                   PROVE  Plan[f.word][l].prefixes[i].pattern
                            \in PatternsOf(v, Plan[f.word][l].prefixes[i].word)
        BY DEF PrefixPatternsStored
      <4>1. i \in Nat \ {0} /\ l \in Nat
        BY <1>1, <1>2
      <4>2. l < f.product \/ (l = f.product /\ i <= f.prefix)
        BY <1>1, <1>4, <4>1
      <4> QED BY <2>3, <4>2 DEF Done, PrefixPatternsStored
    <3>3. g.product - 1 = f.product
      BY <1>1, <2>1
    <3> QED BY <2>1, <2>3, <3>1, <3>2, <3>3 DEF Progress, Done
  <2> QED BY <2>1, <2>2, <2>3 DEF LearnFacts, PatternPcs
<1>5. CASE ~(f.prefix < p) /\ ~(f.product < n)
  <2>1. NextPattern(f) = WordDone(f)
    BY <1>5 DEF NextPattern, p, n
  <2>2. CASE ~f.main
    <3>1. WordDone(f) = NextStem(f)
      BY <2>2 DEF WordDone
    <3> QED BY <1>1, <2>1, <2>2, <3>1, NextStemLearns
  <2>3. CASE f.main
    <3> DEFINE g == [f EXCEPT !.pc = "stem"]
    <3>1. g.op = f.op /\ g.arg = f.arg /\ g.main = f.main /\ g.pc = "stem"
      BY <1>1 DEF CallOK, Frames
    <3>2. NextPattern(f) = g
      BY <2>1, <2>3 DEF WordDone
    <3> HIDE DEF g
    <3>3. ASSUME Done(v, f) PROVE LearnedIn(v, f.arg)
      <4>1. ASSUME NEW k \in DOMAIN Plan[f.word]
            PROVE  Plan[f.word][k].pattern \in LearnedOf(v, f.word)
        <5>1. k <= f.product
          BY <1>1, <1>5
        <5> QED BY <3>3, <5>1 DEF Done, ProductsStored
      <4>2. ASSUME NEW k \in DOMAIN Plan[f.word], NEW j \in DOMAIN Plan[f.word][k].prefixes
            PROVE  Plan[f.word][k].prefixes[j].pattern
                     \in PatternsOf(v, Plan[f.word][k].prefixes[j].word)
        <5>1. j \in Nat \ {0}
          BY <1>2
        <5>2. k < f.product \/ (k = f.product /\ j <= f.prefix)
          BY <1>1, <1>5, <5>1
        <5> QED BY <3>3, <5>2 DEF Done, PrefixPatternsStored
      <4> QED BY <2>3, <3>3, <4>1, <4>2 DEF LearnedIn, Done
    <3> QED BY <2>3, <3>1, <3>2, <3>3 DEF LearnFacts, PatternPcs
  <2> QED BY <2>2, <2>3
<1> QED BY <1>3, <1>4, <1>5

-----------------------------------------------------------------------------
(* The steps.                                                              *)

LEMMA DurableStep ==
  ASSUME TypeInv, DurableInv, NEW h \in Handle, NEW s, SetStorage(h, s),
         NEW f, frame' = [frame EXCEPT ![h] = f],
         NEW c, cache' = [cache EXCEPT ![h] = c],
         LearnFacts(s.txn, s.view, c, f)
  PROVE  DurableInv'
<1>1. /\ view' = [view EXCEPT ![h] = s.view] /\ txn' = [txn EXCEPT ![h] = s.txn]
      /\ DOMAIN view = Handle /\ DOMAIN txn = Handle /\ DOMAIN cache = Handle /\ DOMAIN frame = Handle
  BY DEF SetStorage, TypeInv, TypeOK
<1>2. \A g \in Handle : LearnFacts(txn'[g], view'[g], cache'[g], frame'[g])
  <2> TAKE g \in Handle
  <2>1. CASE g = h
    BY <1>1, <2>1
  <2>2. CASE g # h
    <3>1. frame'[g] = frame[g] /\ txn'[g] = txn[g] /\ view'[g] = view[g] /\ cache'[g] = cache[g]
      BY <1>1, <2>2
    <3> QED BY <3>1 DEF DurableInv
  <2> QED BY <2>1, <2>2
<1> QED BY <1>2 DEF DurableInv

\* A step after which h is not in varnam_learn shows nothing about it.
LEMMA DurableElsewhere ==
  ASSUME TypeInv, DurableInv, NEW h \in Handle, NEW s, SetStorage(h, s),
         NEW f, frame' = [frame EXCEPT ![h] = f], f.op # "learn",
         (\E c : cache' = [cache EXCEPT ![h] = c]) \/ UNCHANGED cache
  PROVE  DurableInv'
<1>1. PICK c : cache' = [cache EXCEPT ![h] = c]
  BY Unchanged
<1> QED BY <1>1, OtherCalls, DurableStep

LEMMA EnterDurable ==
  ASSUME TypeInv, DurableInv, NEW h \in Handle, Enter(h)
  PROVE  DurableInv'
<1>0. /\ CallOK(IdleFrame) /\ IdleFrame \in Frames /\ IdleFrame.op # "learn"
      /\ cache = [cache EXCEPT ![h] = cache[h]] /\ frame = [frame EXCEPT ![h] = frame[h]]
      /\ frame[h].pc = "idle" => frame[h].op # "learn"
  BY IdleFrameOK, Unchanged DEF FrameOK, CallOK, IdleFrame, DurableInv, LearnFacts, PatternPcs
<1>1. ASSUME NEW f, Begin(h, f), LearnFacts("deferred", view[h], cache[h], f)
      PROVE  DurableInv'
  <2>1. CASE txn' = [txn EXCEPT ![h] = "deferred"] /\ frame' = [frame EXCEPT ![h] = f]
    <3>1. view = [view EXCEPT ![h] = view[h]] /\ cache' = [cache EXCEPT ![h] = cache[h]]
      BY <1>0, <1>1 DEF TypeInv, TypeOK, Begin
    <3>2. /\ SetStorage(h, Begun(h)) /\ Begun(h).txn = "deferred" /\ Begun(h).view = view[h]
      BY <1>1, <2>1, <3>1, StorageFields DEF Begin, SetStorage
    <3>3. LearnFacts(Begun(h).txn, Begun(h).view, cache[h], f)
      BY <1>1, <3>2
    <3> QED BY <2>1, <3>1, <3>2, <3>3, DurableStep
  <2>2. CASE UNCHANGED <<txn, frame>>
    BY <1>1, <2>2 DEF Begin, DurableInv
  <2> QED BY <1>1, <2>1, <2>2 DEF Begin
<1>2. ASSUME NEW w \in LearnCalls, Learn(h, w) PROVE DurableInv'
  <2> DEFINE f == StartWord([IdleFrame EXCEPT !.op = "learn", !.arg = w], w, 1, TRUE)
  <2>1. f.pc = "learn" /\ f.main = TRUE /\ f.word = Sanitized[w] /\ f.arg = w /\ f.prefix = 0
    BY DEF StartWord, IdleFrame
  <2>2. Begin(h, f)
    BY <1>2 DEF Learn
  <2> HIDE DEF f
  <2>3. LearnFacts("deferred", view[h], cache[h], f)
    BY <2>1 DEF LearnFacts, PatternPcs
  <2> QED BY <1>1, <2>2, <2>3
<1>3. ASSUME NEW f, Begin(h, f), f.op # "learn" PROVE DurableInv'
  BY <1>1, <1>3, OtherCalls
<1>4. ASSUME NEW t, Train(h, t[1], t[2]) PROVE DurableInv'
  <2> DEFINE f == StartWord([IdleFrame EXCEPT !.op = "train", !.arg = t[2], !.pattern = t[1]],
                            t[2], 1, TRUE)
  <2>1. f.op = "train"
    BY DEF StartWord, IdleFrame
  <2>2. Begin(h, f)
    BY <1>4 DEF Train
  <2> HIDE DEF f
  <2> QED BY <1>3, <2>1, <2>2
<1>5. ASSUME NEW file \in LearnFiles, LearnFromFile(h, file) PROVE DurableInv'
  <2> DEFINE f == [IdleFrame EXCEPT !.op = "file", !.file = file]
  <2>1. file \in Lines
    BY LearningsAssumption
  <2>2. CallOK(f) /\ f.op = "file"
    BY <1>0, <2>1 DEF CallOK, Frames, IdleFrame
  <2>3. Begin(h, StartLine(f, 1))
    BY <1>5 DEF LearnFromFile
  <2> HIDE DEF f
  <2> QED BY <1>3, <2>2, <2>3, OpKept
<1>6. ASSUME NEW file, Import(h, file) PROVE DurableInv'
  <2> DEFINE f == NextEntry([IdleFrame EXCEPT !.op = "import", !.file = file])
  <2>1. f.op = "import"
    BY DEF NextEntry, IdleFrame
  <2>2. Begin(h, f)
    BY <1>6 DEF Import
  <2> HIDE DEF f
  <2> QED BY <1>3, <2>1, <2>2
<1>7. CASE ImportUnreadable(h)
  <2> DEFINE f == [IdleFrame EXCEPT !.pc = "import_unreadable", !.op = "import"]
  <2>1. f.op = "import"
    BY DEF IdleFrame
  <2>2. Begin(h, f)
    BY <1>7 DEF ImportUnreadable
  <2> HIDE DEF f
  <2> QED BY <1>3, <2>1, <2>2
<1>8. ASSUME NEW w, DeleteWord(h, w) PROVE DurableInv'
  <2> DEFINE f == [IdleFrame EXCEPT !.pc = "delete", !.op = "delete", !.arg = w,
                                    !.id = GetWordId(h, w)]
  <2>1. CASE SetStorage(h, AfterGetWordId(h, w)) /\ frame' = [frame EXCEPT ![h] = f]
    <3>1. f.op = "delete"
      BY DEF IdleFrame
    <3> HIDE DEF f
    <3> QED BY <1>8, <2>1, <3>1, DurableElsewhere DEF DeleteWord
  <2>2. CASE UNCHANGED <<txn, view, frame>>
    BY <1>8, <2>2 DEF DeleteWord, DurableInv
  <2> QED BY <1>8, <2>1, <2>2 DEF DeleteWord
<1>9. ASSUME NEW w, IsKnownWord(h, w) PROVE DurableInv'
  <2>1. /\ SetStorage(h, AfterGetWordId(h, w)) /\ frame[h].pc = "idle"
        /\ frame' = [frame EXCEPT ![h] = frame[h]] /\ UNCHANGED cache
    BY <1>0, <1>9 DEF IsKnownWord, Call, Idle
  <2> QED BY <1>0, <2>1, DurableElsewhere
<1>10. CASE Reopen(h)
  <2>1. /\ SetStorage(h, RolledBack(h)) /\ frame' = [frame EXCEPT ![h] = IdleFrame]
        /\ cache' = [cache EXCEPT ![h] = [word |-> NoWord, id |-> 0]]
    BY <1>10 DEF Reopen
  <2> QED BY <1>0, <2>1, DurableElsewhere
<1> QED BY <1>2, <1>4, <1>5, <1>6, <1>7, <1>8, <1>9, <1>10 DEF Enter

\* What a failed statement leaves is not less than what was there, or is no
\* transaction.
LEMMA RewritesKeep ==
  ASSUME TypeInv, WriterInv, NEW h \in Handle, NEW s, Rewrites(h, s), txn[h] = "write"
  PROVE  s.txn # "none" => s.txn = "write" /\ Grown(view[h], s.view) /\ OneToOne(s.view)
<1>1. Grown(view[h], view[h]) /\ OneToOne(view[h]) /\ CurrentDb(h) = view[h]
  BY GrownReflexive DEF TypeInv, TypeOK, WriterInv, OneToOneFiles, CurrentDb
<1>2. CASE s \in {Storage(h), RolledBack(h)}
  BY <1>1, <1>2, StorageFields
<1>3. ASSUME NEW e, Adds(h, e), s = Written(h, e)
      PROVE  s.txn = "write" /\ Grown(view[h], s.view) /\ OneToOne(s.view)
  <2>1. s.view = e /\ s.txn = "write"
    BY <1>3, WrittenFields
  <2> QED BY <1>1, <1>3, <2>1 DEF Adds
<1> QED BY <1>2, <1>3 DEF Rewrites

\* A failure of varnam_learn ends the call; a failure of a stem leaves what the word
\* stored.
LEMMA LearnFailsDurable ==
  ASSUME TypeInv, TypeInv', WriterInv, DurableInv, NEW h \in Handle,
         frame[h].pc \in {"learn"} \cup PatternPcs,
         NEW s, Rewrites(h, s), LearnFails(h, s),
         (\E c : cache' = [cache EXCEPT ![h] = c]) \/ UNCHANGED cache
  PROVE  DurableInv'
<1> DEFINE f == frame[h]
<1>1. CallOK(f) /\ IdleFrame.op # "learn" /\ LearnFacts(txn[h], view[h], cache[h], f)
  BY DEF TypeInv, FrameOK, IdleFrame, DurableInv
<1>2. CASE SetStorage(h, Discarded(h, s)) /\ Return(h, "error")
  BY <1>1, <1>2, DurableElsewhere DEF Return
<1>3. CASE f.op = "file" /\ SetStorage(h, s)
           /\ Continue(h, [f EXCEPT !.pc = "stem", !.lineRc = "error"])
  <2> DEFINE g == [f EXCEPT !.pc = "stem", !.lineRc = "error"]
  <2>1. g.op # "learn"
    BY <1>1, <1>3, OpKept
  <2>2. frame' = [frame EXCEPT ![h] = g]
    BY <1>3 DEF Continue
  <2> HIDE DEF g
  <2> QED BY <1>3, <2>1, <2>2, DurableElsewhere
<1>4. CASE ~f.main /\ SetStorage(h, s) /\ Continue(h, NextStem(f))
  <2>1. CASE f.op # "learn"
    <3>1. NextStem(f).op # "learn"
      BY <1>1, <2>1, OpKept
    <3> QED BY <1>4, <3>1, DurableElsewhere DEF Continue
  <2>2. CASE f.op = "learn"
    <3>1. txn[h] # "none" => txn[h] = "write" /\ LearnedIn(view[h], f.arg)
      BY <1>1, <1>4, <2>2 DEF LearnFacts
    <3>2. s.txn # "none" => s.txn = "write" /\ LearnedIn(s.view, f.arg)
      <4>1. CASE txn[h] = "none"
        BY <4>1, StorageFields, WrittenFields DEF Rewrites
      <4>2. CASE txn[h] = "write"
        <5>1. s.txn # "none" => s.txn = "write" /\ Grown(view[h], s.view) /\ OneToOne(s.view)
          BY <4>2, RewritesKeep
        <5>2. Good(view[h]) /\ OneToOne(view[h]) /\ view'[h] = s.view /\ Good(view'[h])
          BY <1>4 DEF TypeInv, TypeOK, Good, GoodDb, WriterInv, OneToOneFiles, SetStorage
        <5> QED BY <3>1, <4>2, <5>1, <5>2, GrownProgress
      <4> QED BY <3>1, <4>1, <4>2
    <3>3. \A c : LearnFacts(s.txn, s.view, c, NextStem(f))
      BY <1>1, <2>2, <3>2, NextStemLearns
    <3>4. PICK c : cache' = [cache EXCEPT ![h] = c]
      BY Unchanged
    <3> QED BY <1>4, <3>3, <3>4, DurableStep DEF Continue
  <2> QED BY <2>1, <2>2
<1> QED BY <1>2, <1>3, <1>4 DEF LearnFails, Discarded

\* learn_word in a transaction: what h sees afterwards, and what it remembers.
LEMMA LearnWordStores ==
  ASSUME TypeInv, WriterInv, NEW h \in Handle, txn[h] # "none", NEW w \in Word, NEW n \in Int
  PROVE  LET e == LearnedDb(CurrentDb(h), w, n) IN
         /\ Written(h, e).txn = "write" /\ Written(h, e).view = e
         /\ Grown(CurrentDb(h), e) /\ OneToOne(e) /\ OneToOne(CurrentDb(h))
         /\ Stored(e, w) /\ CacheFresh(e, LearnedCache(h, w))
<1> DEFINE d == CurrentDb(h)
           e == LearnedDb(d, w, n)
<1>1. Good(d) /\ OneToOne(d)
  BY StorageTypes DEF WriterInv, OneToOneFiles, CurrentDb
<1>2. Grown(d, e) /\ OneToOne(e)
  BY StatementsAdd DEF Adds, WriterInv
<1>3. Stored(e, w) /\ CacheFresh(e, LearnedCache(h, w))
  <2>1. CASE Stored(d, w)
    <3>1. PICK q \in d.words : q.word = w
      BY <2>1 DEF Stored, RowsOf
    <3>2. Stored(e, w)
      BY <1>2, <3>1 DEF Grown, Stored, RowsOf
    <3>3. LearnedCache(h, w).word = Empty
      <4>1. cache[h] \in CacheEntries
        BY Unchanged
      <4> QED BY <2>1, <4>1 DEF LearnedCache, ClearCache, CacheEntries
    <3> QED BY <3>2, <3>3 DEF CacheFresh
  <2>2. CASE ~Stored(d, w)
    <3>1. LearnedCache(h, w).word = w /\ LearnedCache(h, w).id = NextId(d)
      BY <2>2 DEF LearnedCache
    <3>2. e = InsertWord(d, w, n)
      BY <2>2 DEF LearnedDb
    <3> HIDE DEF d, e
    <3>3. \E q \in e.words : q.word = w /\ q.id = NextId(d)
      BY <1>1, <2>2, <3>2, InsertedWord
    <3> QED BY <3>1, <3>3 DEF CacheFresh, Stored, RowsOf
  <2> QED BY <2>1, <2>2
<1>4. Written(h, e).txn = "write" /\ Written(h, e).view = e
  BY WrittenFields
<1> QED BY <1>1, <1>2, <1>3, <1>4

LEMMA LearnWordFailsDurable ==
  ASSUME TypeInv, TypeInv', WriterInv, DurableInv, NEW h \in Handle,
         frame[h].pc \in {"learn"} \cup PatternPcs, LearnWordFails(h)
  PROVE  DurableInv'
<1>1. PICK s \in AfterFailure(h, Untouched(h)) :
        WriteFails(h, s) /\ LearnFails(h, s) /\ cache' = [cache EXCEPT ![h] = ClearCache(h)]
  BY DEF LearnWordFails
<1>2. Rewrites(h, s)
  BY <1>1, UntouchedRewrites DEF WriterInv
<1> QED BY <1>1, <1>2, LearnFailsDurable

LEMMA LearnInternalDurable ==
  ASSUME TypeInv, TypeInv', WriterInv, DurableInv, NEW h \in Handle, LearnInternal(h)
  PROVE  DurableInv'
<1> DEFINE f == frame[h]
           g == [f EXCEPT !.pc = "pattern"]
<1>1. /\ f.pc = "learn" /\ f.word \in Word /\ f.confidence \in Int /\ CallOK(f)
      /\ f.product = 1 /\ LearnFacts(txn[h], view[h], cache[h], f)
      /\ f.op = "learn" => f.prefix = 0
  BY LearningLocals DEF LearnInternal, TypeInv, FrameOK, AtOK, DurableInv, LearnFacts
<1>2. CASE LearnFails(h, Storage(h)) /\ UNCHANGED cache
  BY <1>1, <1>2, LearnFailsDurable DEF Rewrites
<1>3. CASE Learnable(f.word) /\ LearnWordSucceeds(h, f.word, f.confidence) /\ Continue(h, g)
  <2> DEFINE e == LearnedDb(CurrentDb(h), f.word, f.confidence)
             s == Written(h, e)
             c == LearnedCache(h, f.word)
  <2>1. SetStorage(h, s) /\ cache' = [cache EXCEPT ![h] = c] /\ frame' = [frame EXCEPT ![h] = g]
    BY <1>3 DEF LearnWordSucceeds, Continue
  <2>2. /\ g.pc = "pattern" /\ g.op = f.op /\ g.arg = f.arg /\ g.word = f.word
        /\ g.main = f.main /\ g.product = 1 /\ (f.op = "learn" => g.prefix = 0)
    BY <1>1 DEF CallOK, Frames
  <2>3. CASE txn[h] = "none"
    <3>1. s.txn = "none"
      BY <2>3, WrittenFields
    <3> HIDE DEF s, c, g
    <3>2. LearnFacts(s.txn, s.view, c, g)
      BY <1>1, <2>2, <3>1 DEF LearnFacts, PatternPcs
    <3> QED BY <2>1, <3>2, DurableStep
  <2>4. CASE txn[h] # "none"
    <3>1. /\ s.txn = "write" /\ s.view = e /\ Grown(CurrentDb(h), e) /\ OneToOne(e)
          /\ OneToOne(CurrentDb(h)) /\ Stored(e, f.word) /\ CacheFresh(e, c)
      BY <1>1, <2>4, LearnWordStores
    <3>2. Good(CurrentDb(h)) /\ Good(e)
      <4>1. view'[h] = s.view
        BY <2>1 DEF SetStorage, TypeInv, TypeOK
      <4> QED BY <3>1, <4>1, StorageTypes DEF TypeInv, TypeOK, Good, GoodDb
    <3> HIDE DEF e, s, c, g
    <3>3. ASSUME f.op = "learn" PROVE Progress(e, g)
      <4>1. /\ \A j \in DOMAIN Plan[f.word][1].prefixes : j \in Nat \ {0}
            /\ \A k \in DOMAIN Plan[f.word] : k \in Nat \ {0}
            /\ \A k \in DOMAIN Plan[f.word] :
                 \A j \in DOMAIN Plan[f.word][k].prefixes : j \in Nat \ {0}
        BY <1>1, <1>3, PlanDomains
      <4>2. PrefixesStored(e, g)
        BY <2>2, <3>3, <4>1 DEF PrefixesStored
      <4>3. ProductsStored(e, f.word, 0) /\ PrefixPatternsStored(e, f.word, 1, 0)
        BY <4>1 DEF ProductsStored, PrefixPatternsStored
      <4> QED BY <2>2, <3>1, <4>2, <4>3 DEF Progress
    <3>4. f.op = "learn" /\ ~f.main => LearnedIn(e, f.arg)
      <4> SUFFICES ASSUME f.op = "learn", ~f.main PROVE LearnedIn(e, f.arg)
        OBVIOUS
      <4>1. txn[h] = "write" /\ LearnedIn(view[h], f.arg)
        BY <1>1, <2>4 DEF LearnFacts
      <4>2. CurrentDb(h) = view[h]
        BY <4>1 DEF CurrentDb
      <4> QED BY <3>1, <3>2, <4>1, <4>2, GrownProgress
    <3>5. LearnFacts(s.txn, s.view, c, g)
      BY <1>1, <2>2, <3>1, <3>3, <3>4 DEF LearnFacts, PatternPcs
    <3> QED BY <2>1, <3>5, DurableStep
  <2> QED BY <2>3, <2>4
<1>4. CASE LearnWordFails(h)
  BY <1>1, <1>4, LearnWordFailsDurable
<1> QED BY <1>2, <1>3, <1>4 DEF LearnInternal

LEMMA LearnPrefixWordDurable ==
  ASSUME TypeInv, TypeInv', WriterInv, DurableInv, NEW h \in Handle, LearnPrefixWord(h)
  PROVE  DurableInv'
<1> DEFINE f == frame[h]
           g == [f EXCEPT !.pc = "prefix_pattern"]
           x == PrefixOf(f).word
<1>1. /\ f.pc = "prefix_word" /\ f.word \in Word /\ CallOK(f) /\ f.prefix \in Nat
      /\ f.product \in DOMAIN Plan[f.word] /\ x \in Word
      /\ LearnFacts(txn[h], view[h], cache[h], f)
  <2>1. /\ f.pc = "prefix_word" /\ f.word \in Word /\ CallOK(f)
        /\ f.product \in DOMAIN Plan[f.word]
        /\ f.prefix \in DOMAIN Plan[f.word][f.product].prefixes
    BY LearningLocals DEF LearnPrefixWord, TypeInv, FrameOK, AtOK, PatternPcs
  <2> QED BY <2>1, PlanTypes DEF PrefixOf, DurableInv, CallOK, Frames
<1>2. CASE LearnWordSucceeds(h, x, 1) /\ Continue(h, g)
  <2> DEFINE e == LearnedDb(CurrentDb(h), x, 1)
             s == Written(h, e)
             c == LearnedCache(h, x)
  <2>1. SetStorage(h, s) /\ cache' = [cache EXCEPT ![h] = c] /\ frame' = [frame EXCEPT ![h] = g]
    BY <1>2 DEF LearnWordSucceeds, Continue
  <2>2. /\ g.pc = "prefix_pattern" /\ g.op = f.op /\ g.arg = f.arg /\ g.word = f.word
        /\ g.main = f.main /\ g.product = f.product /\ g.prefix = f.prefix
    BY <1>1 DEF CallOK, Frames
  <2>3. CASE txn[h] = "none"
    <3>1. s.txn = "none"
      BY <2>3, WrittenFields
    <3> HIDE DEF s, c, g, x
    <3>2. LearnFacts(s.txn, s.view, c, g)
      BY <1>1, <2>2, <3>1 DEF LearnFacts, PatternPcs
    <3> QED BY <2>1, <3>2, DurableStep
  <2>4. CASE txn[h] # "none"
    <3>1. /\ s.txn = "write" /\ s.view = e /\ Grown(CurrentDb(h), e) /\ OneToOne(e)
          /\ OneToOne(CurrentDb(h)) /\ Stored(e, x) /\ CacheFresh(e, c)
      <4> HIDE DEF x
      <4> QED BY <1>1, <2>4, LearnWordStores
    <3>2. Good(CurrentDb(h)) /\ Good(e)
      <4>1. view'[h] = s.view
        BY <2>1 DEF SetStorage, TypeInv, TypeOK
      <4> QED BY <3>1, <4>1, StorageTypes DEF TypeInv, TypeOK, Good, GoodDb
    <3> HIDE DEF e, s, c, g
    <3>3. CASE f.op = "learn"
      <4>1. txn[h] = "write" /\ CurrentDb(h) = view[h]
        BY <1>1, <2>4, <3>3 DEF LearnFacts, PatternPcs, CurrentDb
      <4>2. /\ LearnedIn(view[h], f.arg) => LearnedIn(e, f.arg)
            /\ PrefixesStored(view[h], f) => PrefixesStored(e, f)
            /\ \A k : ProductsStored(view[h], f.word, k) => ProductsStored(e, f.word, k)
            /\ \A k, j : PrefixPatternsStored(view[h], f.word, k, j) =>
                           PrefixPatternsStored(e, f.word, k, j)
            /\ Stored(view[h], f.word) => Stored(e, f.word)
        BY <3>1, <3>2, <4>1, GrownProgress, GrownKeeps
      <4>3. ASSUME Progress(view[h], f) PROVE Progress(e, g)
        <5>1. PrefixesStored(e, g)
          <6> SUFFICES ASSUME NEW j \in DOMAIN Plan[f.word][1].prefixes,
                              f.product > 1 \/ j < f.prefix \/ j = f.prefix
                       PROVE  Stored(e, Plan[f.word][1].prefixes[j].word)
            BY <2>2 DEF PrefixesStored
          <6>1. PrefixesStored(e, f)
            BY <4>2, <4>3 DEF Progress
          <6>2. CASE f.product > 1 \/ j < f.prefix
            BY <6>1, <6>2 DEF PrefixesStored
          <6>3. CASE j = f.prefix
            BY <1>1, <3>1, <3>3, <6>3 DEF LearnFacts, PrefixOf
          <6> QED BY <6>2, <6>3
        <5> QED BY <1>1, <2>2, <4>2, <4>3, <5>1 DEF Progress
      <4>4. LearnFacts(s.txn, s.view, c, g)
        BY <1>1, <2>2, <2>4, <3>1, <4>2, <4>3 DEF LearnFacts, PatternPcs
      <4> QED BY <2>1, <4>4, DurableStep
    <3>4. CASE f.op # "learn"
      BY <2>1, <2>2, <3>4, DurableElsewhere
    <3> QED BY <3>3, <3>4
  <2> QED BY <2>3, <2>4
<1>3. CASE LearnWordFails(h)
  BY <1>1, <1>3, LearnWordFailsDurable DEF PatternPcs
<1> QED BY <1>2, <1>3 DEF LearnPrefixWord

\* learn_pattern of the word's own pattern, or of a prefix's.
LEMMA LearnPatternOfDurable ==
  ASSUME TypeInv, TypeInv', WriterInv, DurableInv, NEW h \in Handle,
         frame[h].pc \in {"pattern", "prefix_pattern"},
         NEW w \in Word \ {Empty}, NEW p \in Pattern, NEW b \in BOOLEAN,
         LearnPatternOf(h, w, p, b),
         Progress(view[h], frame[h]) => Stored(view[h], w),
         \A e : /\ ProductsStored(e, frame[h].word, frame[h].product - 1)
                /\ p \in PatternsOf(e, w) /\ (~b => p \in LearnedOf(e, w))
                /\ frame[h].pc = "pattern"
                => ProductsStored(e, frame[h].word, frame[h].product),
         \A e : /\ PrefixPatternsStored(e, frame[h].word, frame[h].product, frame[h].prefix - 1)
                /\ p \in PatternsOf(e, w)
                /\ frame[h].pc = "prefix_pattern"
                => PrefixPatternsStored(e, frame[h].word, frame[h].product, frame[h].prefix)
  PROVE  DurableInv'
<1> DEFINE f == frame[h]
           i == GetWordId(h, w)
           e == PersistPattern(CurrentDb(h), p, i, b)
           s == Written(h, e)
           g == NextPattern(f)
<1>1. /\ FrameOK(f) /\ CallOK(f) /\ LearnFacts(txn[h], view[h], cache[h], f)
      /\ i \in Int /\ cache' = [cache EXCEPT ![h] = cache[h]]
  BY Unchanged, GetWordIdType DEF FrameOK, DurableInv, LearnPatternOf
<1>2. CASE PatternSaved(h, p, i, b) /\ Continue(h, NextPattern(frame[h]))
  <2>1. SetStorage(h, s) /\ frame' = [frame EXCEPT ![h] = g]
    BY <1>2 DEF PatternSaved, Continue
  <2>2. CASE f.op # "learn"
    <3>1. g.op # "learn"
      BY <1>1, <2>2, OpKept
    <3> HIDE DEF s, g
    <3> QED BY <1>1, <2>1, <3>1, DurableElsewhere
  <2>3. CASE f.op = "learn" /\ txn[h] = "none"
    <3>1. s.txn = "none"
      BY <2>3, WrittenFields
    <3> HIDE DEF s
    <3>2. LearnFacts(s.txn, s.view, cache[h], g)
      BY <1>1, <2>3, <3>1, NextPatternLearns DEF LearnFacts, PatternPcs
    <3> QED BY <1>1, <2>1, <3>2, DurableStep
  <2>4. CASE f.op = "learn" /\ txn[h] # "none"
    <3>1. txn[h] = "write" /\ CurrentDb(h) = view[h]
      BY <1>1, <2>4 DEF LearnFacts, PatternPcs, CurrentDb
    <3>2. s.txn = "write" /\ s.view = e
      BY <3>1, WrittenFields
    <3>3. /\ Good(view[h]) /\ OneToOne(view[h]) /\ OneToOne(e) /\ Grown(view[h], e)
          /\ e.words = view[h].words
      <4>1. Good(view[h]) /\ OneToOne(view[h])
        BY StorageTypes DEF WriterInv, OneToOneFiles
      <4> HIDE DEF i
      <4> QED BY <1>1, <3>1, <4>1, PersistPatternGrows DEF Good
    <3>4. Good(e)
      <4>1. view'[h] = s.view
        BY <2>1 DEF SetStorage, TypeInv, TypeOK
      <4> QED BY <3>2, <4>1 DEF TypeInv, TypeOK, Good, GoodDb
    <3>5. /\ LearnedIn(view[h], f.arg) => LearnedIn(e, f.arg)
          /\ PrefixesStored(view[h], f) => PrefixesStored(e, f)
          /\ \A k : ProductsStored(view[h], f.word, k) => ProductsStored(e, f.word, k)
          /\ \A k, j : PrefixPatternsStored(view[h], f.word, k, j) =>
                         PrefixPatternsStored(e, f.word, k, j)
          /\ Stored(view[h], f.word) => Stored(e, f.word)
      <4> HIDE DEF e
      <4> QED BY <3>3, <3>4, GrownProgress, GrownKeeps
    <3>6. CASE ~f.main
      <4>1. LearnedIn(e, f.arg)
        BY <1>1, <2>4, <3>5, <3>6 DEF LearnFacts
      <4> HIDE DEF e, s, g
      <4>2. LearnFacts(s.txn, s.view, cache[h], g)
        BY <1>1, <2>4, <3>2, <3>6, <4>1, NextPatternLearns DEF LearnFacts, PatternPcs, g
      <4> QED BY <1>1, <2>1, <4>2, DurableStep
    <3>7. CASE f.main
      <4>1. CacheFresh(view[h], cache[h]) /\ Progress(view[h], f) /\ f.word = Sanitized[f.arg]
        BY <1>1, <2>4, <3>7 DEF LearnFacts, PatternPcs
      <4>2. PICK q \in view[h].words : q.word = w /\ q.id = i
        BY <3>1, <4>1, WordIdIsTrue
      <4>3. p \in PatternsOf(e, w) /\ (~b => p \in LearnedOf(e, w))
        <5>1. e = PersistPattern(view[h], p, q.id, b)
          BY <3>1, <4>2
        <5> HIDE DEF e, i
        <5> QED BY <3>3, <4>2, <5>1, PersistAttaches
      <4>4. CacheFresh(e, cache[h])
        BY <3>3, <4>1 DEF CacheFresh
      <4> HIDE DEF e, s, g
      <4>5. Done(e, f)
        <5>1. CASE f.pc = "pattern"
          <6>1. ProductsStored(e, f.word, f.product)
            BY <3>5, <4>1, <4>3, <5>1 DEF Progress
          <6>2. PrefixPatternsStored(e, f.word, f.product, f.prefix)
            BY <1>1, <2>4, <3>5, <4>1, <5>1 DEF Progress, LearnFacts
          <6> QED BY <3>5, <4>1, <6>1, <6>2 DEF Progress, Done
        <5>2. CASE f.pc = "prefix_pattern"
          <6>1. PrefixPatternsStored(e, f.word, f.product, f.prefix)
            BY <3>5, <4>1, <4>3, <5>2 DEF Progress
          <6> QED BY <3>5, <4>1, <5>2, <6>1 DEF Progress, Done
        <5> QED BY <5>1, <5>2
      <4>6. LearnFacts(s.txn, s.view, cache[h], g)
        <5>1. f.pc = "pattern" => f.prefix = 0
          BY <1>1, <2>4 DEF LearnFacts
        <5> QED BY <1>1, <2>4, <3>2, <3>7, <4>1, <4>4, <4>5, <5>1, NextPatternLearns DEF g
      <4> QED BY <1>1, <2>1, <4>6, DurableStep
    <3> QED BY <3>6, <3>7
  <2> QED BY <2>2, <2>3, <2>4
<1>3. ASSUME NEW z \in AfterFailure(h, PartialPatterns(h, p, i, b)), WriteFails(h, z),
             LearnFails(h, z)
      PROVE  DurableInv'
  <2>1. Rewrites(h, z)
    <3> HIDE DEF i
    <3> QED BY <1>1, <1>3, PatternMoves DEF WriterInv
  <2> QED BY <1>1, <1>3, <2>1, LearnFailsDurable DEF PatternPcs
<1> QED BY <1>2, <1>3 DEF LearnPatternOf

LEMMA LearnPatternsDurable ==
  ASSUME TypeInv, TypeInv', WriterInv, DurableInv, PrefixesKnown, NEW h \in Handle,
         LearnPattern(h) \/ LearnPrefixPattern(h)
  PROVE  DurableInv'
<1> DEFINE f == frame[h]
           x == PrefixOf(f)
<1>1. /\ f.pc \in {"pattern", "prefix_pattern"} /\ f.word \in Word
      /\ f.product \in DOMAIN Plan[f.word] /\ f.word # Empty /\ f.product \in Nat
      /\ f.pc = "prefix_pattern" => f.prefix \in DOMAIN Plan[f.word][f.product].prefixes
  <2>1. /\ f.pc \in {"pattern", "prefix_pattern"} /\ FrameOK(f)
    BY DEF LearnPattern, LearnPrefixPattern, TypeInv
  <2>2. /\ f.word \in Word /\ f.product \in DOMAIN Plan[f.word]
        /\ f.pc = "prefix_pattern" => f.prefix \in DOMAIN Plan[f.word][f.product].prefixes
    BY <2>1 DEF FrameOK, AtOK, PatternPcs
  <2>3. f.word # Empty
    BY <2>2, LearningsAssumption
  <2> QED BY <2>1, <2>2, <2>3, PlanTypes
<1>2. CASE LearnPattern(h)
  <2> DEFINE p == Plan[f.word][f.product].pattern
  <2>1. p \in Pattern /\ LearnPatternOf(h, f.word, p, FALSE) /\ f.pc = "pattern"
    BY <1>1, <1>2, PlanTypes DEF LearnPattern
  <2>2. \A e : ProductsStored(e, f.word, f.product - 1) /\ p \in LearnedOf(e, f.word)
               => ProductsStored(e, f.word, f.product)
    <3>1. \A l \in DOMAIN Plan[f.word] : l <= f.product => l <= f.product - 1 \/ l = f.product
      BY <1>1, PlanTypes
    <3> QED BY <3>1 DEF ProductsStored
  <2>3. Progress(view[h], f) => Stored(view[h], f.word)
    BY DEF Progress
  <2> HIDE DEF p
  <2> QED BY <1>1, <2>1, <2>2, <2>3, LearnPatternOfDurable
<1>3. CASE LearnPrefixPattern(h)
  <2>1. /\ x = Plan[f.word][f.product].prefixes[f.prefix]
        /\ x.word \in Word \ {Empty} /\ x.pattern \in Pattern
        /\ LearnPatternOf(h, x.word, x.pattern, TRUE) /\ f.pc = "prefix_pattern"
    BY <1>1, <1>3, PlanTypes DEF LearnPrefixPattern, PrefixOf
  <2>0. f.prefix \in DOMAIN Plan[f.word][f.product].prefixes
    BY <1>1, <2>1
  <2>2. ASSUME NEW e, PrefixPatternsStored(e, f.word, f.product, f.prefix - 1),
               x.pattern \in PatternsOf(e, x.word)
        PROVE  PrefixPatternsStored(e, f.word, f.product, f.prefix)
    <3> SUFFICES ASSUME NEW l \in DOMAIN Plan[f.word], NEW i \in DOMAIN Plan[f.word][l].prefixes,
                        l < f.product \/ (l = f.product /\ i <= f.prefix)
                 PROVE  Plan[f.word][l].prefixes[i].pattern
                          \in PatternsOf(e, Plan[f.word][l].prefixes[i].word)
      BY DEF PrefixPatternsStored
    <3>1. i \in Nat /\ f.prefix \in Nat
      <4>1. /\ DOMAIN Plan[f.word][l].prefixes = 1..Len(Plan[f.word][l].prefixes)
            /\ DOMAIN Plan[f.word][f.product].prefixes = 1..Len(Plan[f.word][f.product].prefixes)
        BY <1>1, PlanDomains
      <4> HIDE DEF f, x
      <4> QED BY <2>0, <4>1
    <3>2. l < f.product \/ (l = f.product /\ i <= f.prefix - 1) \/ (l = f.product /\ i = f.prefix)
      BY <3>1
    <3>3. CASE l = f.product /\ i = f.prefix
      BY <2>1, <2>2, <3>3
    <3> HIDE DEF x
    <3> QED BY <2>2, <3>2, <3>3 DEF PrefixPatternsStored
  <2>3. Progress(view[h], f) => Stored(view[h], x.word)
    <3> SUFFICES ASSUME Progress(view[h], f) PROVE Stored(view[h], x.word)
      OBVIOUS
    <3>1. CASE f.product > 1
      <4>1. PICK i \in DOMAIN Plan[f.word][1].prefixes :
              Plan[f.word][1].prefixes[i].word = x.word
        <5> DEFINE k == f.product
                   j == f.prefix
        <5>1. \E i \in DOMAIN Plan[f.word][1].prefixes :
                Plan[f.word][1].prefixes[i].word = Plan[f.word][k].prefixes[j].word
          <6> HIDE DEF k, j
          <6> QED BY <1>1, <2>0 DEF PrefixesKnown, k, j
        <5> HIDE DEF x
        <5> QED BY <2>1, <5>1
      <4> QED BY <3>1, <4>1 DEF Progress, PrefixesStored
    <3>2. CASE f.product = 1
      BY <1>1, <2>1, <3>2 DEF Progress, PrefixesStored
    <3> QED BY <1>1, <3>1, <3>2, PlanTypes
  <2> HIDE DEF x
  <2> QED BY <1>1, <2>1, <2>2, <2>3, LearnPatternOfDurable
<1> QED BY <1>2, <1>3

LEMMA StemDurable ==
  ASSUME TypeInv, DurableInv, NEW h \in Handle, Stem(h)
  PROVE  DurableInv'
<1> DEFINE f == frame[h]
           g == [f EXCEPT !.stems = Stems[f.arg]]
<1>1. /\ f.pc = "stem" /\ f.arg \in Word /\ CallOK(f) /\ LearnFacts(txn[h], view[h], cache[h], f)
      /\ SetStorage(h, Storage(h)) /\ cache' = [cache EXCEPT ![h] = cache[h]]
      /\ Storage(h).txn = txn[h] /\ Storage(h).view = view[h] /\ IdleFrame.op # "learn"
  BY Unchanged, StorageFields DEF Stem, TypeInv, FrameOK, AtOK, DurableInv, IdleFrame
<1>2. CASE Continue(h, NextStem(g))
  <2>1. CallOK(g) /\ g.op = f.op /\ g.arg = f.arg
    BY <1>1, LearningsAssumption DEF CallOK, Frames
  <2>2. frame' = [frame EXCEPT ![h] = NextStem(g)]
    BY <1>2 DEF Continue
  <2> HIDE DEF g
  <2>3. CASE f.op # "learn"
    <3>1. NextStem(g).op # "learn"
      BY <2>1, <2>3, OpKept
    <3> QED BY <1>1, <2>2, <3>1, DurableElsewhere
  <2>4. CASE f.op = "learn"
    <3>1. LearnFacts(Storage(h).txn, Storage(h).view, cache[h], NextStem(g))
      BY <1>1, <2>1, <2>4, NextStemLearns DEF LearnFacts
    <3> QED BY <1>1, <2>2, <3>1, DurableStep
  <2> QED BY <2>3, <2>4
<1>3. ASSUME NEW code, Return(h, code) PROVE DurableInv'
  BY <1>1, <1>3, DurableElsewhere DEF Return
<1> QED BY <1>2, <1>3 DEF Stem

\* The rest of the other calls, and the end of every call.
LEMMA OthersDurable ==
  ASSUME TypeInv, DurableInv, NEW h \in Handle,
         \/ TrainPattern(h) \/ ImportSkip(h) \/ ImportWord(h) \/ ImportPattern(h)
         \/ ImportFails(h) \/ Delete(h) \/ Commit(h)
  PROVE  DurableInv'
<1> DEFINE f == frame[h]
<1>1. /\ CallOK(f) /\ LearnFacts(txn[h], view[h], cache[h], f) /\ IdleFrame.op # "learn"
      /\ UNCHANGED <<db, txn, view>> => SetStorage(h, Storage(h))
      /\ UNCHANGED cache
  BY Unchanged DEF TypeInv, FrameOK, DurableInv, IdleFrame, TrainPattern, ImportSkip, ImportWord,
     ImportPattern, ImportFails, Delete, Commit
<1>2. ASSUME NEW s, SetStorage(h, s), NEW code, Return(h, code) PROVE DurableInv'
  BY <1>1, <1>2, DurableElsewhere DEF Return
<1>3. ASSUME NEW s, SetStorage(h, s), NEW g, Continue(h, g), g.op # "learn" PROVE DurableInv'
  BY <1>1, <1>3, DurableElsewhere DEF Continue
<1>4. \A x : f.op # "learn" => [f EXCEPT !.pc = x].op # "learn"
  BY <1>1, OpKept
<1>5. CASE TrainPattern(h)
  <2>1. f.op # "learn"
    BY <1>1, <1>5 DEF TrainPattern, LearnFacts, PatternPcs
  <2> QED BY <1>2, <1>3, <1>4, <1>5, <2>1 DEF TrainPattern, PatternSaved
<1>6. ASSUME NEW x, x \in Frames, x.op # "learn"
      PROVE  NextEntry(x).op # "learn" /\ NextImportPattern(x).op # "learn"
  <2>1. NextEntry(x).op = x.op
    BY <1>6 DEF NextEntry, Frames
  <2>2. [x EXCEPT !.pc = "import_pattern", !.product = @ + 1].op = x.op
    BY <1>6 DEF Frames
  <2> QED BY <1>6, <2>1, <2>2 DEF NextImportPattern
<1>7. CASE ImportSkip(h)
  <2>1. f.op # "learn" /\ f \in Frames
    BY <1>1, <1>7 DEF ImportSkip, LearnFacts, PatternPcs, CallOK
  <2> QED BY <1>1, <1>3, <1>6, <1>7, <2>1 DEF ImportSkip
<1>8. CASE ImportWord(h)
  <2> DEFINE e == f.file[f.line]
             i == IF Stored(CurrentDb(h), e.word) THEN GetWordId(h, e.word)
                  ELSE NextId(CurrentDb(h))
             x == [f EXCEPT !.id = i]
  <2>1. f.op # "learn" /\ f \in Frames
    BY <1>1, <1>8 DEF ImportWord, LearnFacts, PatternPcs, CallOK
  <2>2. i \in Int
    BY GetWordIdType, StorageTypes, NextIdIsNew DEF Good
  <2>3. x \in Frames /\ x.op # "learn"
    <3> HIDE DEF i
    <3> QED BY <2>1, <2>2 DEF Frames
  <2>4. \/ \E s : SetStorage(h, s) /\ Continue(h, NextImportPattern(x))
        \/ \E s, code : SetStorage(h, s) /\ Return(h, code)
    BY <1>8 DEF ImportWord
  <2> HIDE DEF x
  <2> QED BY <1>2, <1>3, <1>6, <2>3, <2>4
<1>9. CASE ImportPattern(h)
  <2>1. f.op # "learn" /\ f \in Frames
    BY <1>1, <1>9 DEF ImportPattern, LearnFacts, PatternPcs, CallOK
  <2>2. \/ \E s : SetStorage(h, s) /\ Continue(h, NextImportPattern(f))
        \/ \E s, code : SetStorage(h, s) /\ Return(h, code)
    BY <1>9 DEF ImportPattern, PatternSaved
  <2> QED BY <1>2, <1>3, <1>6, <2>1, <2>2
<1>10. CASE ImportFails(h)
  BY <1>1, <1>2, <1>10 DEF ImportFails
<1>11. CASE Delete(h)
  <2>1. f.op # "learn"
    BY <1>1, <1>11 DEF Delete, LearnFacts, PatternPcs
  <2>2. \/ \E s : SetStorage(h, s) /\ Continue(h, [f EXCEPT !.pc = "commit"])
        \/ UNCHANGED <<db, txn, view>> /\ Return(h, "error")
    BY <1>11 DEF Delete
  <2> QED BY <1>1, <1>2, <1>3, <1>4, <2>1, <2>2
<1>12. CASE Commit(h)
  <2>1. \/ \E s, code : SetStorage(h, s) /\ Return(h, code)
        \/ \E code : UNCHANGED <<db, txn, view>> /\ Return(h, code)
    BY <1>12 DEF Commit
  <2> QED BY <1>1, <1>2, <2>1
<1> QED BY <1>5, <1>7, <1>8, <1>9, <1>10, <1>11, <1>12

LEMMA NextDurable ==
  PrefixesKnown /\ TypeInv /\ TypeInv' /\ WriterInv /\ DurableInv /\ [Next]_vars => DurableInv'
<1> SUFFICES ASSUME PrefixesKnown, TypeInv, TypeInv', WriterInv, DurableInv, [Next]_vars
             PROVE  DurableInv'
  OBVIOUS
<1>1. ASSUME NEW h \in Handle, Enter(h) PROVE DurableInv'
  BY <1>1, EnterDurable
<1>2. ASSUME NEW h \in Handle, Step(h) PROVE DurableInv'
  BY <1>2, LearnInternalDurable, LearnPrefixWordDurable, LearnPatternsDurable, StemDurable,
     OthersDurable DEF Step
<1>3. CASE UNCHANGED vars
  BY <1>3 DEF vars, DurableInv
<1> QED BY <1>1, <1>2, <1>3 DEF Next

\* varnam_learn reports success only when COMMIT does.
LEMMA OnlyCommitSucceeds ==
  ASSUME TypeInv, DurableInv, NEW h \in Handle, NEW g \in Handle, Enter(g) \/ Step(g),
         frame[h].op = "learn", Returns(h, "success")
  PROVE  frame[h].pc = "commit" /\ txn[h] # "none" /\ db' = Committed(h).db
<1> DEFINE f == frame[h]
<1>0. /\ CallOK(f) /\ DOMAIN rc = Handle /\ DOMAIN frame = Handle
      /\ f.pc \in {"learn", "stem", "commit"} \cup PatternPcs
      /\ frame'[h].pc = "idle" /\ rc'[h] = "success" /\ f.op = "learn"
  BY DEF TypeInv, TypeOK, FrameOK, DurableInv, LearnFacts, Returns, Idle
<1>1. g = h
  BY <1>0, EveryStepApart DEF Apart, PatternPcs
<1>2. ASSUME NEW x, Continue(h, x), x.pc # "idle" PROVE FALSE
  BY <1>0, <1>2 DEF Continue
<1>3. ~Return(h, "error")
  BY <1>0 DEF Return
<1>4. \A s : ~LearnFails(h, s)
  <2> SUFFICES ASSUME NEW s, LearnFails(h, s) PROVE FALSE
    OBVIOUS
  <2>1. NextStem(f).pc # "idle"
    BY <1>0, NextPcs
  <2>2. [f EXCEPT !.pc = "stem", !.lineRc = "error"].pc # "idle"
    BY <1>0 DEF CallOK, Frames
  <2>3. \/ Return(h, "error")
        \/ Continue(h, [f EXCEPT !.pc = "stem", !.lineRc = "error"])
        \/ Continue(h, NextStem(f))
    BY DEF LearnFails
  <2> QED BY <1>2, <1>3, <2>1, <2>2, <2>3
<1>5. \A x \in {"pattern", "prefix_pattern", "commit"} : ~Continue(h, [f EXCEPT !.pc = x])
  <2>1. \A x \in {"pattern", "prefix_pattern", "commit"} : [f EXCEPT !.pc = x].pc = x
    BY <1>0 DEF CallOK, Frames
  <2> QED BY <1>2, <2>1
<1>6. ~Continue(h, NextPattern(f))
  <2>1. NextPattern(f).pc # "idle"
    BY <1>0, NextPatternPc DEF PatternPcs
  <2> QED BY <1>2, <2>1
<1>7. CASE Enter(h)
  <2>1. Reopen(h)
    BY <1>0, <1>7 DEF Enter, Learn, Train, LearnFromFile, Import, ImportUnreadable, Begin,
       DeleteWord, IsKnownWord, Call, Idle, PatternPcs
  <2> QED BY <1>0, <2>1 DEF Reopen
<1>8. CASE LearnInternal(h) \/ LearnPrefixWord(h)
  BY <1>4, <1>5, <1>8 DEF LearnInternal, LearnPrefixWord, LearnWordFails
<1>9. CASE LearnPattern(h) \/ LearnPrefixPattern(h)
  BY <1>4, <1>6, <1>9 DEF LearnPattern, LearnPrefixPattern, LearnPatternOf
<1>10. CASE Stem(h)
  <2> DEFINE x == [f EXCEPT !.stems = Stems[f.arg]]
  <2>1. f.arg \in Word
    BY <1>0 DEF CallOK
  <2>2. CallOK(x)
    BY <1>0, <2>1, LearningsAssumption DEF CallOK, Frames
  <2>3. Continue(h, NextStem(x))
    BY <1>0, <1>3, <1>10 DEF Stem
  <2> HIDE DEF x
  <2>4. NextStem(x).pc # "idle"
    BY <2>2, NextPcs
  <2> QED BY <1>2, <2>3, <2>4
<1>11. CASE Commit(h)
  <2>1. CommitError(f.op) = "error"
    BY <1>0 DEF CommitError
  <2> QED BY <1>3, <1>11, <2>1 DEF Commit, SetStorage
<1>12. CASE \/ TrainPattern(h) \/ ImportSkip(h) \/ ImportWord(h) \/ ImportPattern(h)
            \/ ImportFails(h) \/ Delete(h)
  BY <1>0, <1>12 DEF TrainPattern, ImportSkip, ImportWord, ImportPattern, ImportFails, Delete,
     PatternPcs
<1> QED BY <1>1, <1>7, <1>8, <1>9, <1>10, <1>11, <1>12 DEF Step

\* Whatever other handles learn, train, import and delete meanwhile, whichever
\* statements fail and even when SQLite rolls the transaction back by itself: when
\* varnam_learn reports success the committed file holds the word, the pattern of
\* each of its products as learned, and each prefix with its pattern.
THEOREM LearnIsDurable ==
  ASSUME PrefixesKnown
  PROVE  Spec => LearnDurable
<1>1. Init => DurableInv
  <2>1. IdleFrame.op # "learn"
    BY DEF IdleFrame
  <2> QED BY <2>1, OtherCalls DEF Init, DurableInv
<1>2. TypeInv /\ TypeInv' /\ WriterInv /\ DurableInv /\ [Next]_vars => DurableInv'
  BY NextDurable
<1>3. TypeInv /\ DurableInv /\ [Next]_vars =>
        [\A h \in Handle :
           frame[h].op = "learn" /\ Returns(h, "success") => LearnedIn(db', frame[h].arg)]_vars
  <2> SUFFICES ASSUME TypeInv, DurableInv, Next, NEW h \in Handle,
                      frame[h].op = "learn", Returns(h, "success")
               PROVE  LearnedIn(db', frame[h].arg)
    OBVIOUS
  <2>1. frame[h].pc = "commit" /\ txn[h] # "none" /\ db' = Committed(h).db
    BY OnlyCommitSucceeds DEF Next
  <2>2. txn[h] = "write" /\ LearnedIn(view[h], frame[h].arg)
    BY <2>1 DEF DurableInv, LearnFacts
  <2> QED BY <2>1, <2>2, StorageFields
<1> QED BY <1>1, <1>2, <1>3, TypeInvariant, WriterInvariant, PTL DEF Spec, LearnDurable
===============================================================================
