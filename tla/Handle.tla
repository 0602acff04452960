-------------------------------- MODULE Handle -------------------------------
(***************************************************************************)
(* The calls of one handle on a compiled scheme and a learnings file, one  *)
(* after another: transliterate, reverse transliterate, learn with its     *)
(* stems, stem rules and exceptions, flush, export.  A call is a step for  *)
(* each statement it runs outside a transaction, since another process     *)
(* learns and deletes words in the same file in between, statements fail,  *)
(* and the process may die.                                                *)
(*                                                                         *)
(* What a learn stores is stored at once, in the transaction of the call:  *)
(* the statements inside it, and what becomes of it when one of them       *)
(* fails, are the subject of Learnings.  Suggestions are enabled once per  *)
(* handle.                                                                 *)
(***************************************************************************)
EXTENDS Suggestions, Stemmer, Pools

CONSTANTS
  Inputs,        \* patterns that are typed
  Values,        \* words that are transliterated back
  LearnCalls,    \* words that are learned by the handle
  LearnedElsewhere,   \* and by another process
  Rules,         \* stem rules that are created
  Exceptions,    \* exceptions to them
  PerFile,       \* words per file of an export
  MaxCalls, MaxChanges, MaxFaults   \* bounds on a behaviour

ASSUME HandleAssumption ==
  /\ Inputs \cup Values \cup LearnCalls \cup LearnedElsewhere \subseteq Text \ {<<>>}
  /\ Rules \subseteq Rule /\ Exceptions \subseteq Exception
  /\ \A r \in Rules : r.old # <<>>
  /\ \A e \in Exceptions : e.stem # <<>> /\ e.exception # <<>>
  /\ PerFile \in Nat \ {0}
  /\ MaxCalls \in Nat /\ MaxChanges \in Nat /\ MaxFaults \in Nat

VARIABLES
  file,        \* the committed learnings file: its tables, and the index of an export
  txn,         \* what the handle's open transaction would commit, <<>> without one
  enabled,     \* v_->known_words # NULL
  rules, exceptions,   \* the tables stemrules and stem_exceptions
  count,       \* v_->stemrules_count, -1 before it is read
  stemCache,   \* v_->cached_stems: the old endings it holds
  strings,     \* v_->strings_pool and what its strings hold
  arrays,      \* v_->arrays_pool
  frame,       \* the call in progress and its locals
  result,      \* what the last transliteration gave to the client
  known,       \* words learned as such and not deleted since
  rc,
  calls, changes, faults

store == <<file, txn, known>>
scheme == <<rules, exceptions>>
stemming == <<count, stemCache>>
memory == <<strings, arrays, result>>
bounds == <<calls, changes, faults>>

vars == <<store, enabled, scheme, stemming, memory, frame, rc, bounds>>

Idle == [pc |-> "idle"]
NoStrings == [pool |-> EmptyPool, content |-> <<>>]
NoResult == [live |-> FALSE, array |-> 0, slots |-> <<>>, texts |-> <<>>]

Init ==
  /\ file = [db |-> EmptyDb, index |-> FALSE] /\ txn = <<>> /\ known = {}
  /\ enabled = FALSE
  /\ rules = <<>> /\ exceptions = <<>>
  /\ count = -1 /\ stemCache = {}
  /\ strings = NoStrings /\ arrays = EmptyPool /\ result = NoResult
  /\ frame = Idle /\ rc = "success"
  /\ calls = 0 /\ changes = 0 /\ faults = 0

-----------------------------------------------------------------------------
\* What the handle sees of the file, and what a write of it changes.
View == IF txn # <<>> THEN txn[1] ELSE file

SetView(f) ==
  IF txn # <<>> THEN txn' = <<f>> /\ UNCHANGED file ELSE file' = f /\ UNCHANGED txn

Call ==
  /\ frame.pc = "idle" /\ calls < MaxCalls
  /\ calls' = calls + 1
  /\ UNCHANGED <<changes, faults>>

Return(code) == frame' = Idle /\ rc' = code

\* A statement fails.
Fault ==
  /\ faults < MaxFaults
  /\ faults' = faults + 1
  /\ UNCHANGED <<calls, changes>>

\* get_pooled_string, and the text that is put into it.
PutString(s, text) ==
  LET p == Take(s.pool) IN
  [pool |-> p,
   content |-> [i \in 1..p.made |-> IF i = Slot(s.pool) THEN text ELSE s.content[i]]]

\* reset_pool: the words of the last result are there until their strings are given
\* out again, but the client may not rely on them.
ResetStrings == [strings EXCEPT !.pool = Reset(@)]

-----------------------------------------------------------------------------
(* varnam_config, varnam_create_stemrule, varnam_create_stem_exception,    *)
(* varnam_flush_buffer.                                                    *)

EnableSuggestions ==
  /\ Call
  /\ ~enabled
  /\ enabled' = TRUE
  /\ rc' = "success"
  /\ UNCHANGED <<store, scheme, stemming, memory, frame>>

CreateStemrule(r) ==
  /\ Call
  /\ rules' = Append(rules, r)
  /\ rc' = "success"
  /\ UNCHANGED <<store, enabled, exceptions, stemming, memory, frame>>

CreateStemException(e) ==
  /\ Call
  /\ exceptions' = Append(exceptions, e)
  /\ rc' = "success"
  /\ UNCHANGED <<store, enabled, rules, stemming, memory, frame>>

\* The table has its flags; the call takes a string of the pool and resets nothing.
FlushBuffer ==
  /\ Call
  /\ strings' = PutString(strings, <<>>)
  /\ rc' = "success"
  /\ UNCHANGED <<store, enabled, scheme, stemming, arrays, result, frame>>

-----------------------------------------------------------------------------
(* varnam_transliterate.                                                   *)

Transliterate(input) ==
  /\ Call
  /\ strings' = ResetStrings
  /\ arrays' = Take(Reset(arrays))
  /\ result' = NoResult
  /\ frame' = [pc |-> "best", input |-> input, array |-> Slot(Reset(arrays)), words |-> <<>>,
               at |-> 0, found |-> <<>>, matched |-> 0, seen |-> changes]
  /\ UNCHANGED <<store, enabled, scheme, stemming, rc>>

\* Each input written by its symbols alone, which do not change.
Plain == [input \in Inputs |-> Transliterated(input)]

BestMatch ==
  LET words == IF enabled THEN BestMatches(View.db, frame.input) ELSE <<>> IN
  /\ frame.pc = "best"
  /\ frame' = IF words = <<>> /\ enabled /\ Len(frame.input) > 2
              THEN [frame EXCEPT !.pc = "match", !.at = 1]
              ELSE [frame EXCEPT !.pc = "suggest",
                                 !.words = AddNew(words, Plain[frame.input])]
  /\ UNCHANGED <<store, enabled, scheme, stemming, memory, rc, bounds>>

Lookup == SubSeq(frame.input, 1, frame.at)

Match ==
  LET words == MatchesOf(View.db, Lookup) IN
  /\ frame.pc = "match"
  /\ frame' = IF words = <<>> THEN [frame EXCEPT !.pc = "probe"]
              ELSE [frame EXCEPT !.pc = "probe", !.found = words, !.matched = frame.at]
  /\ UNCHANGED <<store, enabled, scheme, stemming, memory, rc, bounds>>

\* The row of each match is offered, and the plain rendering.
RowTexts(f) ==
  LET rows == Rows(f.found, SubSeq(f.input, f.matched + 1, Len(f.input)))
  IN [i \in DOMAIN rows |-> ResolveTokens(rows[i])]

\* The array the rest of the input was cut into is returned.
Scanned(a) == GiveBack(Take(a), Slot(a))

Probe ==
  /\ frame.pc = "probe"
  /\ IF PossibleMatches(View.db, Lookup) /\ frame.at < Len(frame.input)
     THEN /\ frame' = [frame EXCEPT !.pc = "match", !.at = @ + 1]
          /\ UNCHANGED arrays
     ELSE /\ frame' = [frame EXCEPT !.pc = "suggest",
                         !.words = Loop(AddNew, <<>>, Append(RowTexts(frame), Plain[frame.input]))]
          /\ arrays' = IF frame.found = <<>> THEN arrays ELSE Scanned(arrays)
  /\ UNCHANGED <<store, enabled, scheme, stemming, strings, result, rc, bounds>>

\* The words of a result, each in a string of its own.
Given(words) ==
  Loop(LAMBDA g, w : [strings |-> PutString(g.strings, w), slots |-> Append(g.slots, Slot(g.strings.pool))],
           [strings |-> strings, slots |-> <<>>], words)

Give(words, array) ==
  /\ strings' = Given(words).strings
  /\ result' = [live |-> TRUE, array |-> array, slots |-> Given(words).slots, texts |-> words]

Suggest ==
  LET more == IF enabled THEN Suggested(View.db, frame.input) ELSE <<>> IN
  /\ frame.pc = "suggest"
  /\ Give(Loop(AddNew, frame.words, more), frame.array)
  /\ Return("success")
  /\ UNCHANGED <<store, enabled, scheme, stemming, arrays, bounds>>

ReadFails ==
  /\ frame.pc \in {"best", "match", "probe", "suggest"}
  /\ enabled
  /\ Fault
  /\ Return("error")
  /\ UNCHANGED <<store, enabled, scheme, stemming, memory>>

\* varnam_reverse_transliterate: nothing is read of the learnings file.
ReverseTransliterate(word) ==
  LET s == PutString(ResetStrings, ReverseTransliterated(word)) IN
  /\ Call
  /\ strings' = s
  /\ arrays' = Take(Reset(arrays))
  /\ result' = [live |-> TRUE, array |-> 0, slots |-> <<Slot(ResetStrings.pool)>>,
                texts |-> <<ReverseTransliterated(word)>>]
  /\ rc' = "success"
  /\ UNCHANGED <<store, enabled, scheme, stemming, frame>>

-----------------------------------------------------------------------------
(* varnam_learn.                                                           *)

\* BEGIN fails when an earlier call has left its transaction open.
Learn(word) ==
  /\ Call
  /\ strings' = ResetStrings /\ arrays' = Reset(arrays) /\ result' = NoResult
  /\ IF enabled /\ txn = <<>> /\ CanLearnWord(word)
     THEN /\ txn' = <<[file EXCEPT !.db = LearnInto(@, word, 1)]>>
          /\ frame' = [pc |-> "count", word |-> word, stem |-> StartStemming(word)]
          /\ UNCHANGED <<file, known, rc>>
     ELSE /\ rc' = "error"
          /\ UNCHANGED <<store, frame>>
  /\ UNCHANGED <<enabled, scheme, stemming>>

CountRules ==
  LET n == IF count = -1 THEN Len(rules) ELSE count IN
  /\ frame.pc = "count"
  /\ count' = n
  /\ frame' = [frame EXCEPT !.pc = IF n > 0 THEN "stem" ELSE "commit"]
  /\ UNCHANGED <<store, enabled, scheme, stemCache, memory, rc, bounds>>

\* The loop goes on from the word it had before a rule was applied.
FaultyStemmedTo(s) ==
  [frame EXCEPT !.stem = IF s.suffix = <<>> THEN @ ELSE s, !.pc = IF s.word = <<>> THEN "commit" ELSE "stem"]

StemmedTo(s) == [frame EXCEPT !.stem = s, !.pc = IF s.word = <<>> THEN "commit" ELSE "stem"]

Ending == Taken(frame.stem).suffix

\* A rule that is found is remembered.
Stem ==
  /\ frame.pc = "stem"
  /\ frame' = StemmedTo(StemTurn(rules, exceptions, frame.stem))
  /\ stemCache' = IF HasRule(rules, Ending) THEN stemCache \cup {Ending} ELSE stemCache
  /\ UNCHANGED <<store, enabled, scheme, count, memory, rc, bounds>>

\* The syllable before the ending cannot be read to its consonant: left is what
\* remains of the word.
SyllableFails ==
  /\ frame.pc = "stem"
  /\ HasRule(rules, Ending)
  /\ Fault
  /\ LET word == Front(frame.stem.word) IN
     \E k \in 1..Len(word) :
       /\ \A i \in (k + 1)..Len(word) : ~IsConsonant(word[i])
       /\ frame' = StemmedTo(StemTurnFails(rules, frame.stem, SubSeq(word, 1, k)))
  /\ stemCache' = stemCache \cup {Ending}
  /\ UNCHANGED <<store, enabled, scheme, count, memory, rc>>

\* A statement that counts the rules, looks up an ending that is not in the cache, or an
\* exception, fails.  The transaction stays open.
StemFails ==
  /\ \/ frame.pc = "count" /\ count = -1
     \/ frame.pc = "stem" /\ (Ending \in stemCache => LastSyllable(Taken(frame.stem).word) # <<>>)
  /\ Fault
  /\ Return("error")
  /\ UNCHANGED <<store, enabled, scheme, stemming, memory>>

LearnStem(d, s) == IF CanLearnWord(s) THEN LearnInto(d, s, 0) ELSE d

\* Stems that cannot be learned are passed over.
Commit ==
  /\ frame.pc = "commit"
  /\ file' = [txn[1] EXCEPT !.db = Loop(LearnStem, @, frame.stem.stems)]
  /\ txn' = <<>>
  /\ known' = known \cup {frame.word} \cup {s \in ToSet(frame.stem.stems) : CanLearnWord(s)}
  /\ Return("success")
  /\ UNCHANGED <<enabled, scheme, stemming, memory, bounds>>

-----------------------------------------------------------------------------
(* varnam_export_words.                                                    *)

Entry(d, w) ==
  [word |-> w, confidence |-> (CHOOSE r \in RowsOf(d, w) : TRUE).confidence,
   patterns |-> {[pattern |-> p, learned |-> p \in LearnedOf(d, w)] : p \in PatternsOf(d, w)}]

\* What an export writes: all words, or those learned as such.
Exported(d, kind) ==
  LET ids == {i \in Ids(d) : kind = "full" \/ \E r \in d.patterns : r.word_id = i /\ r.learned = 1}
      words == ByConfidence(d, ids)
  IN [i \in DOMAIN words |-> Entry(d, words[i])]

\* The index of a full export must not be there yet.
Export(kind) ==
  /\ Call
  /\ strings' = ResetStrings /\ arrays' = Reset(arrays) /\ result' = NoResult
  /\ IF enabled /\ ~(kind = "full" /\ View.index)
     THEN /\ SetView([View EXCEPT !.index = @ \/ kind = "full"])
          /\ frame' = [pc |-> "read", kind |-> kind]
          /\ UNCHANGED rc
     ELSE /\ rc' = "error"
          /\ UNCHANGED <<file, txn, frame>>
  /\ UNCHANGED <<known, enabled, scheme, stemming>>

\* The first step of the statement; what is read until the last is read of this state.
ReadWords ==
  /\ frame.pc = "read"
  /\ frame' = [pc |-> "write", kind |-> frame.kind, all |-> Exported(View.db, frame.kind),
               written |-> 0, files |-> <<>>]
  /\ UNCHANGED <<store, enabled, scheme, stemming, memory, rc, bounds>>

\* A file is full when it has a word more.
FaultyIsFull(words) == Len(words) = PerFile + 1

IsFull(words) == Len(words) = PerFile

\* A new file is begun for the first word, and behind one that is full.
AddToFiles(files, entry) ==
  IF files = <<>> \/ IsFull(files[Len(files)]) THEN Append(files, <<entry>>)
  ELSE [files EXCEPT ![Len(files)] = Append(@, entry)]

\* The path of a new file is a string of the pool.
WriteWord ==
  /\ frame.pc = "write"
  /\ frame.written < Len(frame.all)
  /\ frame' = [frame EXCEPT !.written = @ + 1, !.files = AddToFiles(@, frame.all[frame.written + 1])]
  /\ strings' = IF Len(frame'.files) > Len(frame.files) THEN PutString(strings, <<>>) ELSE strings
  /\ UNCHANGED <<store, enabled, scheme, stemming, arrays, result, rc, bounds>>

\* The index is not dropped.
FaultyEndExport == UNCHANGED <<file, txn>>

EndExport == SetView([View EXCEPT !.index = IF frame.kind = "full" THEN FALSE ELSE @])

FinishExport ==
  /\ frame.pc = "write"
  /\ frame.written = Len(frame.all)
  /\ EndExport
  /\ Return("success")
  /\ UNCHANGED <<known, enabled, scheme, stemming, memory, bounds>>

\* A word cannot be read, a file not be opened, or the index not be dropped: the call
\* ends where it is.  A pattern that cannot be read ends it too, but leaves the statement
\* of the words open; that the handle goes on reading the file of then is left out.
ExportFails ==
  /\ frame.pc \in {"read", "write"}
  /\ frame.pc = "write" /\ frame.kind = "words" => frame.written < Len(frame.all)
  /\ Fault
  /\ Return("error")
  /\ UNCHANGED <<store, enabled, scheme, stemming, memory>>

-----------------------------------------------------------------------------
(* The rest of the world.                                                  *)

\* The write lock is with this handle while it has a transaction.
Elsewhere ==
  /\ changes < MaxChanges /\ txn = <<>>
  /\ changes' = changes + 1
  /\ UNCHANGED <<txn, enabled, scheme, stemming, memory, frame, rc, calls, faults>>

LearnElsewhere(word) ==
  /\ Elsewhere
  /\ CanLearnWord(word)
  /\ file' = [file EXCEPT !.db = LearnInto(@, word, 1)]
  /\ known' = known \cup {word}

DeleteElsewhere(word) ==
  /\ Elsewhere
  /\ Stored(file.db, word)
  /\ file' = [file EXCEPT !.db = DeleteRows(@, IdOf(@, word))]
  /\ known' = known \ {word}

\* A new handle on the files as they are; what was not committed is gone.
Restarted ==
  /\ txn' = <<>> /\ enabled' = FALSE
  /\ count' = -1 /\ stemCache' = {}
  /\ strings' = NoStrings /\ arrays' = EmptyPool /\ result' = NoResult
  /\ frame' = Idle /\ rc' = "success"
  /\ UNCHANGED <<file, known, scheme>>

Reopen == Call /\ Restarted

Die == frame.pc # "idle" /\ Fault /\ Restarted

-----------------------------------------------------------------------------
Enter ==
  \/ EnableSuggestions \/ FlushBuffer \/ Reopen
  \/ \E input \in Inputs : Transliterate(input)
  \/ \E word \in Values : ReverseTransliterate(word)
  \/ \E word \in LearnCalls : Learn(word)
  \/ \E r \in Rules : CreateStemrule(r)
  \/ \E e \in Exceptions : CreateStemException(e)
  \/ \E kind \in {"full", "words"} : Export(kind)

Step ==
  \/ BestMatch \/ Match \/ Probe \/ Suggest
  \/ CountRules \/ Stem \/ Commit
  \/ ReadWords \/ WriteWord \/ FinishExport

Fails == ReadFails \/ SyllableFails \/ StemFails \/ ExportFails \/ Die

Other ==
  \/ \E word \in LearnedElsewhere : LearnElsewhere(word)
  \/ \E word \in LearnCalls \cup LearnedElsewhere : DeleteElsewhere(word)

Next == Enter \/ Step \/ Fails \/ Other

Spec == Init /\ [][Next]_vars

\* A call that has begun runs on; calls, failures and other processes are not owed.
FairSpec == Spec /\ WF_vars(Step)
-----------------------------------------------------------------------------
(* Correctness.                                                            *)

Frame ==
  {Idle} \cup [pc : {"count", "stem", "commit"}, word : Text,
               stem : [word : Text, suffix : Text, stems : Seq(Text)]]
         \cup [pc : {"best", "match", "probe", "suggest"}, input : Text, array : Nat,
               words : Seq(Text), at : Nat, found : Seq(Text), matched : Nat, seen : Nat]
         \cup [pc : {"read"}, kind : {"full", "words"}]

\* Every variable holds a value of its type, ids are never NoId, and a transaction is
\* open while a word is learned.
TypeOK ==
  /\ file.db \in Db(Text, Text) /\ file.index \in BOOLEAN
  /\ txn # <<>> => txn[1].db \in Db(Text, Text) /\ txn[1].index \in BOOLEAN
  /\ frame.pc # "write" => frame \in Frame
  /\ frame.pc \in {"count", "stem", "commit"} => txn # <<>>
  /\ strings.pool \in Pool /\ arrays \in Pool /\ Len(strings.content) = strings.pool.made
  /\ count \in -1..MaxCalls
  /\ rc \in {"success", "error"}
  /\ calls \in 0..MaxCalls /\ changes \in 0..MaxChanges /\ faults \in 0..MaxFaults

\* What transliterate and reverse transliterate return is held by the pools of the
\* handle: it stays as it was until a call that resets them, whatever else the handle
\* does meanwhile, and its array is not given out again.
ResultStays ==
  result.live =>
    /\ \A i \in DOMAIN result.texts : strings.content[result.slots[i]] = result.texts[i]
    /\ Sound(strings.pool) /\ Sound(arrays)
    /\ result.array # 0 => result.array \in InUse(arrays)

-----------------------------------------------------------------------------
(* Transliteration.                                                        *)

\* The letters the beginning of the input has to have for a word to be found by it.
LongestMatch(d, input) ==
  Max({0} \cup {n \in 1..Len(input) : MatchesOf(d, SubSeq(input, 1, n)) # <<>>})

\* "Finds the longest possible match from the words table. Remaining string will be
\* converted using symbols tokenization" (words-table.c:805), when the table does not
\* change while it is read.
LongestWordMatch ==
  frame.pc = "suggest" /\ frame.at > 0 /\ frame.seen = changes =>
    frame.matched = LongestMatch(View.db, frame.input)

BelowZ(text) == \A i \in DOMAIN text : Rank[text[i]] < Rank["z"]

\* The same, as long as all patterns in the table are made of letters before z.
LongestWordMatchBelowZ ==
  (\A r \in View.db.patterns : BelowZ(r.pattern)) => LongestWordMatch

\* Spelled the same, and learned as words.
Homographs(d, pattern) == {r \in d.patterns : r.pattern = pattern /\ r.learned = 1}

\* A word that was learned, by this or another process or as a stem, and was not
\* deleted since, is offered for each of the patterns its tokens make, typed in
\* whatever case, unless more words are typed the same than are looked up.
LearnedIsOffered ==
  [][Suggest /\ frame.seen = changes /\ enabled /\ Len(frame.input) >= MinimumLength =>
       \A w \in known : \A product \in ToSet(Products(Reduced(w))) :
         /\ PatternOf(product) = Fold(frame.input)
         /\ Cardinality(Homographs(View.db, PatternOf(product))) <= Limit
         => w \in ToSet(result'.texts)]_vars

\* The rendering of the input itself is always offered, and nothing is offered twice.
OffersOnce ==
  [][Suggest =>
       /\ Plain[frame.input] \in ToSet(result'.texts)
       /\ IsInjective(result'.texts)]_vars

OccursBehind(text, word) == \E k \in 2..Len(word) : IsPrefix(text, SubSeq(word, k, Len(word)))

\* A word whose spelling shows how it is written: its symbols have patterns in lower
\* case, and no vowel stands in its full form behind another symbol.
Spelled(word) ==
  LET tokens == ToSet(FirstTokens(Tokenize(word, "value", "exact"))) IN
  /\ \A t \in tokens : t.id > 0 =>
       \E r \in Symbols : r.id = t.id /\ r.sym.pattern = t.sym.pattern
  /\ \A t \in tokens : t.sym.type = "vowel" => ~OccursBehind(t.sym.value1, word)

\* Such a word, transliterated back and typed again, is the word: the patterns of its
\* symbols do not run into each other, with _ put behind a chillu and a doubled vowel.
RoundTrip ==
  [][\A word \in Values :
       ReverseTransliterate(word) /\ Spelled(word) =>
         Transliterated(result'.texts[1]) = word]_vars

-----------------------------------------------------------------------------
(* Learning.                                                               *)

\* stem() finds the stems the rules and exceptions define, unless a statement of the
\* handle has failed or it has read the number of rules when there was none.
StemsByRules ==
  frame.pc = "commit" /\ count > 0 /\ faults = 0 =>
    AreStems(rules, exceptions, frame.word, frame.stem.stems)

\* The vowel that the scheme's own renderer knows by its pattern, as lower() leaves it.
VowelR(r) == MlUnicode /\ r.sym.type = "vowel" /\ Fold(r.sym.pattern) = <<"r">>

\* The symbols of a value agree on the type and on the values, and are all that vowel
\* or none of them.
Agreeing ==
  \A r, q \in Symbols :
    ({r.sym.value1, r.sym.value2} \cap {q.sym.value1, q.sym.value2}) \ {<<>>} # {} =>
      /\ r.sym.type = q.sym.type /\ r.sym.tag = q.sym.tag
      /\ r.sym.value1 = q.sym.value1 /\ r.sym.value2 = q.sym.value2 /\ r.sym.value3 = q.sym.value3
      /\ VowelR(r) <=> VowelR(q)

\* No pattern is left without a word: the products of a word agree on the prefixes,
\* which are learned with the first of them, when the symbols of a value agree.
PatternsHaveWords ==
  Agreeing => \A r \in file.db.patterns : r.word_id \in Ids(file.db)

Kept(word) == ApplyAcceptance(Tokenize(word, "value", "all"))

\* Whatever reduce_noise_in_tokens takes away of a word, the pattern of the preferred
\* tokens is learned, also when the number of products overflows: unless all of a
\* position's tokens are of low priority.
PreferredIsLearned ==
  \A w \in known :
    LET p == Kept(w) IN
    (\A i \in DOMAIN p : Len(p[i]) > 1 => p[i][1].sym.priority > Low) =>
      PatternOf(FirstTokens(p)) \in LearnedOf(file.db, w)

\* A token that is not of low priority is given up only when no choice is left between
\* tokens of low priority.
LowGoesFirst ==
  frame.pc = "count" =>
    LET p == Kept(frame.word)
        q == Reduced(frame.word)
    IN (\E i \in DOMAIN p : \E t \in ToSet(p[i]) : t.sym.priority > Low /\ t \notin ToSet(q[i])) =>
         \A i \in DOMAIN q : Len(q[i]) > 1 => \A t \in ToSet(q[i]) : t.sym.priority > Low

\* A word is learned with MAXIMUM_PATTERNS_TO_LEARN patterns at most, also when the
\* number of its products overflows and it is not reduced.
PatternsWithinLimit ==
  \A w \in known : Cardinality(LearnedOf(file.db, w)) <= MaxPatterns

-----------------------------------------------------------------------------
(* Exports and calls.                                                      *)

\* The files of an export that succeeds are, one after the other, the words as they
\* were when it began to read, those of higher confidence first, and all files but the
\* last are full, whatever is learned and deleted meanwhile.
ExportWhole ==
  [][FinishExport =>
       /\ FlattenSeq(frame.files) = frame.all
       /\ \A i \in DOMAIN frame.files :
            Len(frame.files[i]) <= PerFile /\ (i < Len(frame.files) => Len(frame.files[i]) = PerFile)]_vars

\* The index of an export is in the file only while one runs, or since one has failed
\* or died: "we don't want to persist this" (words-table.c:1023).
IndexOnlyWhileExporting ==
  file.index /\ faults = 0 => frame.pc \in {"read", "write"} /\ frame.kind = "full"

\* Every call returns, also the loop of stem(), for rules that do not bring back each
\* other's endings.
CallsReturn == frame.pc # "idle" ~> frame.pc = "idle"
=============================================================================
