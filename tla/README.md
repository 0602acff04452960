# A formal model of libvarnam

libvarnam is a C library that turns Latin letters into Indian scripts. It reads a
*scheme* (a symbol table: which pattern stands for which letters) from one SQLite
file, keeps what its users taught it in a second one (the *learnings*), and offers
its clients - input methods, a command line tool - one handle type, `varnam`, and some
thirty functions in `api.h`. All calls are synchronous. Nothing in the library waits,
retries or runs in the background; concurrency comes from several processes that have
the same two files open, failure from SQLite and from processes that die.

This directory holds TLA+ modules of the library, TLC configurations that check them
on small instances, and theorems that TLAPS proves for every instance.
`PROJECT.json` lists the components, the runs, the lines of code each definition
stands for, and the hazards the properties are aimed at.

## The system

| component | state | operations | what makes it correct |
|---|---|---|---|
| **Learnings store** `words-table.c`, `learn.c` | the tables `words` and `patterns_content`; per handle an open transaction and the last learned word with its id | learn, train, learn from file, import, delete, is-known-word, export, word counts | a pattern leads to a stored word it is a way of writing; what a call reports as done is in the file; a call that fails leaves nothing behind and the file usable; deleting a word removes that word and nothing else |
| **Noise reduction** `learn.c` | none (it edits the token arrays of one call) | `reduce_noise_in_tokens`, `can_learn_from_tokens` | the preferred way of writing a word stays, tokens of low priority go first, and at most 32 patterns (`MAXIMUM_PATTERNS_TO_LEARN`) are learned |
| **Export** `words-table.c` | a temporary index during the export | `varnam_export_words`, full and words only | the files are the words of one state, in order, and all but the last are full; the index does not stay |
| **Suggestions** `words-table.c` | none | the queries for the best match, for words that go on, and for a word at the beginning of the input | a word that was learned is offered for its patterns; the longest beginning is found |
| **Symbol table** `symbol-table.c`, `varnam.c` | symbols with their prefix flags, stem rules, exceptions, metadata; per handle one buffering transaction | create token, stem rule, exception; flush; discard; scheme details | a token is stored once; the flags say which symbols are prefixes of others; a failed token leaves nothing behind |
| **Tokenizer** `symbol-table.c`, `lru_cache.c` | three caches per handle | `vst_tokenize` | the longest match wins at every position, with and without the caches |
| **Stemmer** `learn.c`, `symbol-table.c` | the number of rules, a cache of their endings | `stem`, `vst_get_stem`, `vst_check_exception` | it finds the stems the rules and exceptions define, and ends |
| **Transliteration** `transliterate.c` | result arrays | transliterate, reverse transliterate | the tokenizer's own rendering is always offered, nothing twice; what is typed back is the word |
| **Rendering** `rendering.c`, `renderer/ml_unicode.c`, `token.c` | none | `resolve_tokens`, `resolve_rtl_tokens` | viramas and joiners as the script wants them |
| **Pools, arrays, strings** `varray.c`, `strbuf.c`, `util.c`, `vutf8.c`, `vword.c`, `trie.c` | free and used objects | get, return, reset | no object is handed out twice |
| **Handles and configuration** `varnam.c` | the handle | init, destroy, `varnam_config`, enable suggestions | a handle never uses a file it closed |
| **Language detection** `lang_detection.c` | none | `varnam_detect_lang` | a table of Unicode ranges |
| **varnamc** | none | a Ruby command line client | - |

How they interact. A client's `varnam_learn(word)` sanitizes the word, tokenizes it with
the symbol table, reduces the tokens, and stores in the learnings file the word, one
pattern per product of the tokens, and every prefix of the word as a word of its own; then
it stems the word and learns each stem the same way. `varnam_transliterate` tokenizes the
input, looks the tokens up in the learnings, and renders them. Components call one another
directly; they share the handle (`vtypes.h:115`), which holds the caches, the pools, the
prepared statements and `lastLearnedWord`.

Hard behaviours: two handles on one learnings file, where the second writer is refused
(`SQLITE_BUSY`: the library sets no busy timeout); a statement, a COMMIT or a symbol
table query that fails between two steps of a call; the cached id of the last learned
word, which nothing invalidates; ids that SQLite gives again after a delete;
the tokenizer's caches; a buffering transaction that a failed call leaves open. The
hazards list in `PROJECT.json` has each at its line.

## Modules

| module | what it is |
|---|---|
| `LearningsDb` | the contents of a learnings file and the effect of each SQL statement on it: pure operators |
| `Learnings` | handles calling the learnings store: the state machine |
| `WordStore` | what a learnings file promises, without rows, ids or transactions: the abstract specification |
| `MCLearnings` | a small vocabulary for TLC, and the clients' calls |
| `Basics_proofs` | lemmas on sequences, finite sets, `Loops` and the statements of `LearningsDb` |
| `Learnings_proofs` | types; only a successful COMMIT changes the file, and calls end their transactions; every pattern leads to a word of its own; the file implements `WordStore`; learning is durable |
| `SymbolsDb` | the table `symbols` of a scheme file, its prefix flags, and what `varnam_create_token` makes of a token: pure operators |
| `SymbolTable` | handles building one scheme file: the state machine |
| `MCSymbols` | a small scheme for TLC, and the clients' calls |
| `SymbolsDb_proofs` | what the statements on the table preserve |
| `SymbolTable_proofs` | buffers, transactions, the growth of the file, no symbol twice, prefix flags |
| `Loops` | going through a sequence, and ordering a set, so that TLC computes each value once |
| `Loops_proofs` | what every turn of a loop keeps, the loop gives |
| `SymbolQueries` | what `vst_tokenize` reads of the table: pure operators |
| `Tokenizer` | `vst_tokenize` and its caches over a table that changes meanwhile |
| `MCTokenizer` | small tables and texts for TLC |
| `Tokenizer_proofs` | that segments cover the text, are what was asked for, stay alive and are the longest |
| `Scheme` | a compiled scheme, and a text cut into its longest tokens |
| `Rendering` | `resolve_tokens`, `resolve_rtl_tokens` and the renderer `ml-unicode` |
| `NoiseReduction` | `reduce_noise_in_tokens` and `can_learn_from_tokens` |
| `WordLearning` | from a word to its rows: reduced tokens, products, patterns and prefixes |
| `Stemmer` | `stem()` and the two tables it reads; and what stems are, without the loop |
| `Suggestions` | the queries of the learnings that transliteration makes |
| `Pools` | `vpool` |
| `Handle` | the calls of one handle, composed of all these: the state machine |
| `MCHandle` | a small scheme in the manner of Malayalam, and the clients' calls |
| `Handle_proofs` | `stem()` against its definition, the index of an export, no object of a pool given out twice; and what tokenizing, rendering, noise reduction, products, learning, lookups and the search for the longest match give |
| `Calls_proofs` | the state of a handle across its calls: types, results, patterns that are learned, what a search finds and what is offered, exports |

`LearningsDb` is used by `Learnings`, which implements `WordStore` (`Store`, an `INSTANCE` with
the refinement mapping). `SymbolsDb` is used by both `SymbolTable`, which writes the table, and
`SymbolQueries`, through which `Tokenizer` and `Scheme` read it. The learnings and the scheme
are two files, and no call writes both.

Each difficulty is looked at where it can be seen best, and taken as a result above:

* `Learnings` cuts learning into its SQL statements, for several handles, and takes what the
  tokenizer makes of a word as the constant `Plan`. `WordLearning` computes the products from
  the tokens, and stores them in one step, as the transaction around them makes it appear.
* `Tokenizer` looks at the caches, lookup by lookup. `Scheme` takes its property
  `LongestUntilChanged` for granted and cuts a text in one step, by the same queries.
* `Handle` composes the rest: `Suggestions`, `WordLearning`, `Stemmer`, `Rendering` and `Pools`, call
  after call of one handle on a compiled scheme, with another process at work on the learnings file.

`Loops` is `FoldLeft` and `SetToSortSeq` of the community modules in a form whose cost stays linear: TLC computes an
argument again wherever the operator refers to it, which is exponential when one loop's
result is the next one's input. `Once(Of, e)` has TLC compute `e` once. `FoldLeft` could have been used from a module with
theorems, but TLC cannot finish with it here.

### Learnings

*State.* `db` is the committed file. `txn[h]` and `view[h]` are what SQLite keeps for
handle h: no transaction, BEGIN executed (`deferred`), a snapshot (`read`), or the write
lock (`write`). `cache[h]` is `lastLearnedWord` and `lastLearnedWordId`. `frame[h]` is the
stack of the call h is in: where it is (`pc`) and the locals of `varnam_learn` and of the
functions below it, flattened. `rc[h]` is what the last call returned.

*Actions.* A call is cut at every statement at which another handle can step in or which
can fail; the code between two such statements is one action.

| action | code |
|---|---|
| `Learn`, `Train`, `LearnFromFile`, `Import` | entry to the call, up to and with `vwt_start_changes` |
| `LearnInternal` | `varnam_learn_internal` up to and with `learn_word` |
| `LearnPattern` | the pattern of one product: `learn_all_possibilities`, `learn_pattern`, `vwt_persist_pattern` |
| `LearnPrefixWord`, `LearnPrefixPattern` | the two halves of one turn of `learn_prefixes` |
| `Stem` | `stem`; the loop over its results is `NextStem` |
| `TrainPattern` | the second half of `varnam_train` |
| `ImportSkip`, `ImportWord`, `ImportPattern`, `ImportFails` | `import_words` and its failure exits |
| `DeleteWord`, `Delete` | `varnam_delete_word` before and after `vwt_start_changes` |
| `IsKnownWord` | `varnam_is_known_word` |
| `Commit` | `vwt_end_changes` and the return |
| `Reopen` | the handle is destroyed or its process dies, and is opened again |

Failures are part of the actions: a write that finds the lock taken; a statement that
fails (`FaultKinds` "statement"), possibly after the first of two rows was written; a
COMMIT that fails; a query of the symbol table that fails; and an error that makes SQLite
roll the transaction back by itself ("autorollback"), after which the call goes on in
autocommit mode. What the code does next differs per caller: `LearnFails` rolls back for learn
and train, goes on with the stems for a line of a file, and ignores a stem's failure.

*Abstractions.* Words and patterns are opaque values. What the tokenizer, the
noise reduction and `learn_prefixes` make of a word is the constant `Plan` (computed in `WordLearning`), which
texts import accepts is `Importable` (import asks `can_learn_from_tokens` about all tokens of an entry, learn about those
that noise reduction leaves, so neither follows from the other), what
`sanitize_word` and `stem` make of it `Sanitized` and `Stems`. The order of update and
insert in `learn_word` (`_config_mostly_learning_new_words`) is left out, as either order has
the same outcome: both statements run under the write lock and exactly one of them applies. Not
modelled: texts that `trim()` and `lower()` change, malformed lines of a learn file, the
status counters and callbacks, the two PRAGMA statements around a bulk operation, VACUUM,
and files that cannot be opened (the calls return before BEGIN).

*External.* SQLite's own behaviour is an assumption of the model: BEGIN is deferred; one
writer at a time; a transaction whose snapshot is out of date cannot write; without a
transaction a statement commits by itself; the id of a new row is the largest id plus one
(the column is an INTEGER PRIMARY KEY without AUTOINCREMENT, `words-table.c:33`).

### SymbolTable

*State.* `file` is the committed scheme file: a set of symbols, each with the token, its id
and its two prefix flags, and a set of other rows (stem rules, stem exceptions, metadata).
`txn[h]` is the handle's transaction: none, BEGIN executed (`deferred`), has read (`read`),
has written (`write`), or was refused its COMMIT because others were reading (`blocked`).
`pending` is what the transaction that writes has made of the file; there is at most one.
`buffering[h]` is `vst_buffering`, `virama[h]` the cached virama, `config[h]` the two
settings of `varnam_config` that `varnam_create_token` reads, `frame[h]` the call in
progress with what it still has to store (`left`), and `rc[h]` what the last one
returned. `batch[h]` is history: what was reported as created since h began to buffer.

| action | code |
|---|---|
| `Create` | `varnam_create_token` up to and with `vst_start_buffering` |
| `FindVirama` | `vst_get_virama`, and the dead consonant made from it |
| `Check` | `already_persisted` |
| `Insert` | the insert of `vst_persist_token` |
| `CreateFails` (part of both) | the failure exit: `vst_discard_changes` if the token was passed as buffered |
| `Flush` | entry to `varnam_flush_buffer` |
| `Mark` | the updates of one column in `vst_make_prefix_tree` |
| `Stamp` | `vst_stamp_version` |
| `Commit`, `Vacuum` | the two statements of `vst_flush_changes` |
| `AddRow` | `vst_persist_stemrule`, `vst_persist_stem_exception`, `vst_add_metadata` |
| `Configure` | `varnam_config` |
| `Reopen` | the handle is destroyed or its process dies, and is opened again |

*External.* SQLite with a rollback journal, whose locks are SHARED, RESERVED, PENDING and
EXCLUSIVE: a reader keeps others from committing, a writer keeps others from writing, and
a COMMIT that was refused leaves a PENDING lock, which also keeps new readers out. No
statement waits. So a statement either sees a file that does not change under its
transaction, or is refused.

*Left out.* Rows are a set, since no statement here depends on their order but by id. A
hard error that makes SQLite roll the buffer back by itself is not modelled (it is
modelled in `Learnings`; here it is a listed hazard). `tag`, `value3` and
`accept_condition` are stored and never read by these calls. The check of lengths and
of empty arguments at the entry of `varnam_create_token` returns before anything is done.
Only one handle creates unbuffered tokens, none of which the other creates: outside a transaction
`already_persisted` and the insert are two transactions, and two handles can store the
same token between them. That race is listed as a hazard.

### Tokenizer

*State.* `table` is the scheme's symbols. `tokensCache`, `missCache` and `possibleCache` are
the handle's three caches, sequences with the oldest entry first. `scan` is the call of
`vst_tokenize` in progress: where it stands (`from`), the piece it looks up next (`upto`),
the longest piece so far that has tokens (`held`), and what a statement that is being
repeated has given already (`read`). `result` is the array of segments.

| action | code |
|---|---|
| `Start` | entry to `vst_tokenize` |
| `Find` | `read_all_tokens_and_add_to_array` with the caches around it, and `can_find_more_matches` when there are tokens |
| `ReadAgain` | a step of that statement fails and the loop steps it again |
| `Probe` | `can_find_more_matches` when there are none: the cache, or the `like` query |
| `CreateSymbol`, `MakePrefixTree` | what `SymbolTable` does to the file, seen from a reader |

`Advance` is the loop's end common to `Find` and `Probe`: try a longer piece, or add the
segment and go on behind it. *Left out*: the characters that `LIKE` takes for wildcards, which make
a scan look further than it must and change no result; the
pool that segments are taken from (`Pools`).

### Handle

*State.* `file` is the committed learnings file: its tables, a `LearningsDb`, and whether the index of an
export is there. `txn` is what the handle's open transaction would commit. `rules` and `exceptions` are the tables
of the scheme file, which this handle writes; its symbols are the constant `Symbols`. Of the handle: `enabled`
(`known_words` is open), `count` (`stemrules_count`), `stemCache` (`cached_stems`), `strings` and `arrays` (the two
pools, with the text that each pooled string holds), `frame` (the call in progress and its
locals), `rc`. `result` is what the last transliteration gave to the client, by the slots it lives in. `known` is
history: the words learned as words and not deleted since.

| action | code |
|---|---|
| `Transliterate` | entry to `varnam_transliterate`: the pools are reset, the input is tokenized |
| `BestMatch` | `vwt_get_best_match`, and the tokenizer's rendering when there is one |
| `Match`, `Probe` | the two queries of a turn of `vwt_tokenize_pattern`, and the rows and renderings behind the loop |
| `Suggest` | `vwt_get_suggestions`, and the result |
| `ReadFails` | one of those queries fails |
| `ReverseTransliterate` | `varnam_reverse_transliterate`, which reads nothing that changes |
| `Learn` | `varnam_learn` up to the stems: BEGIN, tokens, noise, products, rows |
| `CountRules` | `vst_has_stemrules` |
| `Stem` | a turn of the loop of `stem()` |
| `SyllableFails` | the turn when a type of a letter cannot be read in `vst_get_last_syllable` |
| `StemFails` | another statement of the loop fails |
| `Commit` | the stems are learned, COMMIT |
| `Export`, `ReadWords`, `WriteWord`, `FinishExport`, `ExportFails` | `varnam_export_words`: index, statement, a row, end |
| `CreateStemrule`, `CreateStemException`, `FlushBuffer`, `EnableSuggestions` | the calls of these names, on an empty buffer |
| `LearnElsewhere`, `DeleteElsewhere` | another process learns or deletes a word |
| `Reopen`, `Die` | the handle is destroyed, or the process dies in the middle of a call |

*Abstractions.* A letter is a value, a text a sequence of letters. The statements inside the transaction of a learn
are `Learnings`' subject and one step here, but the queries of `stem()` go to the scheme file and are
steps. What is read of the learnings outside a transaction is a step for each statement, since other processes
write in between. The file of an export is the sequence of its entries; JSON and paths are left out.

*Left out of a failing export.* When a row of patterns cannot be read, `full_export_words` returns without finalizing the
statement of the words (`words-table.c:1067`). SQLite then keeps the read transaction of that statement: the
handle goes on reading the file as it was, and cannot write once another process has. The model ends the call there, as it does
after the other failures, and the handle reads the current file afterwards. What the properties say of queries
is thus said of handles that have had no such export.

*What the code does that a reader may not expect*, all of it in the model:

* `get_next_array` compares the priorities of the last tokens only as long as it has seen no larger one: priorities that fall
  from position to position pass for equal, and the position with the most tokens loses one.
* Noise reduction can empty a position whose tokens are all of low priority; its products then lack the letter.
* `can_learn_from_tokens` judges only a repetition that reaches the end of the word.
* Products are counted in an `int`, so that a long word may look as if it had few. It is
  then not reduced, but the enumeration stops at the limit by itself.
* The queries that offer words take the first five rows in the order of the key, and order those by confidence.
* `vwt_get_best_match` and `vwt_get_suggestions` look the input up in lower case; `vwt_tokenize_pattern` as it is typed.
* `resolve_rtl_tokens` types `_` behind a vowel only when the same vowel follows itself, though its comment speaks of a prefix
  (`rendering.c:182`). Patterns come in lower case when they are looked up by value, so a symbol with a capital in its
  pattern does not come back as it was.
* The first row of `stem_exceptions` for an ending decides; other exceptions to the same rule are not looked at.
* The number of rules is read once per handle: one that learned before there were any never stems.
* When the types of a syllable cannot be read, `stem()` goes on with what was left of the word and the call reports success.
* An export that fails leaves its index behind; the next full export then fails, until the index
  is dropped by hand. The result of writing the JSON is not looked at.

Operators named `Faulty...` are plausible bugs of the definition they stand in front of. They
take no part in the specification; each is there to show that a property notices it.

## Runs

Every run bounds the calls of a behaviour (`MaxCalls`) and the faults (`MaxFaults`).
Deadlock is not checked: when the calls are used up the clients have stopped.

The vocabulary (`MCLearnings`) has one word `long` with two products and one prefix, its
prefix `pre`, which is also its stem, `longDot`, which sanitizes to `long`, and `dots`,
which sanitizes to the empty text. That is the least vocabulary in which a word is stored by a
call as a word, as a prefix and as a stem, and in which a pattern belongs to two words.

* `learnings_contention` - two handles, three calls of learn, train, delete, learn from a
  file, is-known-word and reopen, no faults but the write lock. Checks types
  (`TypeOK`), that each pattern leads to a stored word it is a way of writing
  (`PatternsOwned`), that no call leaves its transaction behind (`IdleMeansNoTransaction`),
  that what `varnam_learn` reports as done is in the file (`LearnDurable`), that the file
  implements the abstract store (`ImplementsWordStore`), and that the write lock is given
  up (`LockIsReleased`). Three calls are what it takes for one handle to work with
  an id that another deleted and gave to another word. With four calls (213 000
  states) the same properties hold.
* `learnings_faults` - the same two handles, importing too, with one fault of any kind in
  three calls. `PatternsOwned` and `IdleMeansNoTransaction` do not hold here (see the hypotheses
  of the theorems): what holds is that `varnam_learn` reports no success it did not have
  (`LearnDurable`), that a transaction a failed call left open is never picked up by a
  later call (`AbandonedNeverPublished`), and that the file changes only by the COMMIT of
  a call that has not failed, unless SQLite rolled its transaction back
  (`PublishedByCommit`). Three calls: one that fails, one that follows on the same
  handle, one of the other handle.
* `learnings_stale_cache`, `learnings_delete`, `learnings_train`, `learnings_import` - each
  states what the documentation says of a call, and TLC shows how the code departs from
  it. See Findings. `learnings_delete` has one handle: of calls that overlap the documentation can
  only mean that the word was gone at some moment of the delete, and a delete that finds no row because a learn
  has not committed yet is no departure from it. The one import file of the run is what a scheme without stem rules exports
  after learning `long` and `pre`.

* `symbols_build` - two handles on one scheme file, buffered and unbuffered tokens, dead consonants,
  flushes, a stem rule, and one failing statement or COMMIT, in five calls. A handle needs three calls for
  a buffer that matters (two tokens and the flush), and two are left for the other to
  get in the way. Patterns `k`, `ka`, `kah`, `kaha` are prefixes of one another, two of them made
  by the library; two tokens have the pattern of a dead consonant, so that
  duplicates are ignored or refused by configuration. Checks that buffering means a transaction
  (`BufferingMeansTransaction`), that no symbol is stored twice (`SymbolsUnique`), that a flag is set only
  for a longer symbol (`FlagsHaveReason`) and all of them when a call reports success
  (`FlagsPublished`), that what was reported as created is stored (`CreatedIsStored`), that the file only
  grows (`FileOnlyGrows`), and that a buffer is published whole (`BufferPublishedByFlush`). 978 000 states.
* `symbols_virama` - one handle, no faults: see Findings.
* `tokenizer_scan` - three calls of one handle over tables of five, two and four symbols, by pattern and
  by value, with one symbol created and one failure at any point. The caches hold three entries and
  texts have up to four characters, so that entries are evicted during and between calls.
  Checks that the segments are the text (`SegmentsCoverText`), that tokens are what was asked for
  (`TokensMatch`), that no token of a result is freed while the cache is larger than the lookups of a call
  (`TokensAlive`), and that a segment is the longest until the table changes or a
  statement fails (`LongestUntilChanged`). 1.0 million states.
* `tokenizer_stale` - one handle, the cache size of the code, symbols created only between calls: see
  Findings.

* `handle_calls` - four calls of one handle, with one change by another process and one fault at any point. The scheme has
  twelve symbols: two values with a possibility of low or of normal priority beside their pattern, one with two patterns of low
  priority, a vowel with its sign, a chillu that must not run into the consonant behind it, and a virama. Four words are learned:
  one of eight products, one with a stem, whose stem has a stem, whose stem has one, one that begins with a symbol that has only tokens of low
  priority, and one that is the beginning of an input. There are two stem rules, one with an ending of two letters, and an exception. 59 752 states, a minute and a half. Bounds: three patterns
  per word (`MaxPatterns`, 32 in the code) in integers of four bits, so that three positions of two tokens are already too many, and four overflow as
  32 do; two words of an input (`Limit`, 5) and at its beginning (`MatchLimit`, 3); two words per file. Four calls are
  what it takes to enable suggestions, create a rule, learn, and transliterate or export. Checks
  - that a result stays what it was until the pools are reset (`ResultStays`);
  - that the longest beginning of the input that is a stored pattern is found, for patterns of letters below z (`LongestWordMatchBelowZ`);
  - that a learned word is offered for each of its patterns (`LearnedIsOffered`), that the plain rendering is always offered and nothing twice (`OffersOnce`);
  - that what is typed for a word gives the word again (`RoundTrip`);
  - that `stem()` finds the stems of the rules (`StemsByRules`), against the definition of a stem without the loop;
  - that no pattern is without a word if the symbols of a value agree (`PatternsHaveWords`), that the preferred pattern is learned (`PreferredIsLearned`),
    that tokens of low priority go first (`LowGoesFirst`), that no more patterns than the limit are learned (`PatternsWithinLimit`);
  - that an export is the words of one state, in full files (`ExportWhole`), and that its index does not stay (`IndexOnlyWhileExporting`);
  - that every call returns (`CallsReturn`).
* `handle_zrange` - three calls with a symbol whose pattern begins with z: see Findings.

`SymbolTable` and `Tokenizer` are checked for safety only. Their calls end because each is a loop over a
token's parts, the three columns or the characters of a text; the one loop that may not end, a statement that
fails for ever (`symbol-table.c:759`), is a listed hazard and no fairness of the code excludes it.

### Fairness

`LockIsReleased` is checked under `FairSpec`, weak fairness of `Step(h)` for each handle:
a process that entered a call executes its next statement eventually. Nothing is assumed of the
clients. This is what a synchronous library gives: no statement waits for another handle
(a lock that is taken is an error at once), so a call in progress always has an enabled
step.

`CallsReturn` is checked under `FairSpec` of `Handle`, weak fairness of `Step`, for the same reason. It is not plain there: the
loop of `stem()` appends a new ending to the word it is taking letters from, and ends because the rules of
the run do not bring back each other's endings. With a rule that does, the loop never ends; nothing in the
code keeps such rules out (`varnam_create_stemrule`).

## Findings

1. `varnam_is_known_word` answers from `lastLearnedWord` after the word was deleted, or its
   transaction rolled back (`words-table.c:199`; run `learnings_stale_cache`). Learn a
   word, delete it, and ask: the answer is 1.
2. `varnam_delete_word` takes the id from the same cache, which neither a delete nor an import resets. One handle
   learns a word (id 1), deletes it, imports a file that stores another word under id 1 and the word under
   id 2, and deletes the word again: the rows of id 1 go, which are the other word's, the word stays, and the call
   succeeds (`words-table.c:898`; run `learnings_delete`). That no other word goes fails with two handles also without the
   cache, as TLC showed with `Handle = {h1, h2}` and `LearnCalls = {pre, long}`: the id is looked up before BEGIN, and in between the
   other handle deletes the word and learns another one, which gets its id. The delete then removes that other word.
3. `varnam_train(pattern, "word.")` learns `word` and then looks up the id of `word.`: the
   pattern is stored with `word_id` -1 and the call succeeds (`learn.c:658`; run
   `learnings_train`). The same function ignores the result of COMMIT (`learn.c:665`), so it also
   reports a success it did not have when COMMIT fails.
4. An import entry that sanitizes to the empty text is judged by the tokens of the entry
   before it, since `vst_tokenize` returns before it clears its result (`learn.c:720`; run
   `learnings_import`): a word of special characters is stored.

5. A handle remembers the virama it once read, also when the transaction that stored it was rolled back
   (`symbol-table.c:517`; run `symbols_virama`). Create a virama in a buffer, a consonant, and a duplicate that
   discards the buffer: the next consonants get dead consonants, though the file has no virama and a
   fresh handle would refuse to.
6. The tokenizer's caches are never emptied (`symbol-table.c:923`; run `tokenizer_stale`): a handle that
   tokenized a text before a longer symbol was created goes on cutting it into the shorter ones, while a
   fresh handle finds the longer.
7. `can_find_possible_matches` asks for patterns up to `lookup || 'z'` (`words-table.c:701`; run `handle_zrange`). A
   pattern that goes on with z and more letters is behind that bound: with *mazha* learned, the search for the beginning
   of *mazhaka* stops at *ma*, though the comment at `words-table.c:805` promises the longest match. `vwt_get_suggestions` has the same bound.

*A condition on schemes.* `PatternsHaveWords` failed at first for a scheme in which a vowel has the possibility `R` beside another pattern, as the seventh
vowel of `schemes/ml:26` has. The renderer `ml-unicode` writes a vowel whose pattern is `r` by its third value (`ml_unicode.c:33`), and by value
a token has its pattern in lower case (`symbol-table.c:712`), so two tokens of the same value are written differently behind another token. A
later product has prefixes then that were not learned as words, and their patterns are stored with the id -1. `VowelR` in `Agreeing` excludes such a scheme. It is
a condition and not a finding since the schemes of the repository are identified by their language (`schemes/ml:10`), and the renderer is
in effect for a scheme identified as `ml-unicode` (`varnam.c:189`): none is. Before `VowelR` was added, TLC found the violation with a scheme that has the vowel under `R` and under one more pattern.

## Proofs

### The learnings

* `TypeCorrect == Spec => []TypeOK`. `TypeOK` is not inductive: that `Plan[f.word][f.product]`
  exists when a call is at its patterns follows from where the call is. `TypeInv` adds `FrameOK`, which says at
  each `pc` that the locals the next statement reads exist (`CallOK` for the call, `AtOK` for the statement), and
  `Bounded`, that the ids of a table have an upper bound, without which the next id would not
  be one.
* `PatternsAlwaysOwned == ASSUME PlainCalls PROVE Spec => []PatternsOwned`. The invariant
  `OwnedInv` says of the committed file and of every open transaction that ids and words are
  one-to-one and that patterns are owned, and of every handle that is about to store a pattern that what its cache
  remembers is a row of the contents its transaction sees (`CacheFresh`). `PlainCalls` lists
  what the theorem needs, and each hypothesis excludes something the code really does: no import
  (an import stores whatever patterns its file names), no SQLite rollback in the
  middle of a call, trained words that sanitizing does not change (finding 3), and products
  that agree on the text of their prefixes (`words-table.c:402`). That they do agree, for which schemes, is what `PatternsKeepWords` of the
  handle adds, where a product is made of tokens.
* `AbandonedTransactionsStayUnpublished` and `OnlyCommitPublishes`, with every fault allowed.
  The invariant `InTransaction` says that a handle in the middle of a call has a transaction
  unless SQLite rolled one back.
* `IdleHasNoTransaction == ASSUME NothingFails PROVE Spec => []IdleMeansNoTransaction`, by `LockInv`: which kind of
  transaction a call has at each of its places. `NothingFails` excludes statements that fail for other reasons than a lock, and
  import: after a failed `stem()` or COMMIT, and after a failed import, the code does return with its transaction open
  (`AbandonedTransactionsStayUnpublished` is about what becomes of it). Refused locks are not failures here: any number of handles compete.
* `FileImplementsWordStore == ASSUME PlainCalls PROVE Spec => ImplementsWordStore`. A step of `Learnings` is a `Grow`, a `Forget` or a
  stutter of the store seen through the mapping `StoreOf`. A COMMIT publishes many statements at once, so one must know how the writer's contents
  relate to the file: `WriterInv` says that there is one writer, and that what it has written is the file with rows added and confidences
  raised (`Grown`), or the file without the rows of one id. The rest is about the mapping: with `OneToOne` and owned patterns
  (`OwnedInv`), rows that grow are words that grow, and rows of one id are one word.
* `LearnIsDurable == ASSUME PrefixesKnown PROVE Spec => LearnDurable`, with every fault and any number of handles. `DurableInv` follows a call of
  `varnam_learn` product by product and prefix by prefix: what the call has behind it is in the contents its transaction sees. No step of the call, its stems
  or another handle takes that away. `PrefixesKnown` is the last part of `PlainCalls`.
* `NextIdIsNew`: the id of a new row is new. It needs a largest id, so the tables must be bounded, which is part of `TypeInv`.

### The symbol table

The theorems of `SymbolTable_proofs` hold for any handles, tokens, settings, failures and numbers of calls; two restrict the clients. They
state every property of the run `symbols_build`.

* `BufferingIsTransaction == Spec => []BufferingMeansTransaction` and `SymbolsOnlyGrow == Spec => FileOnlyGrows`.
  The invariant `Inv` adds what the file's growth rests on: a transaction that writes is the only one, and what
  it has written has grown from the file (`WriterGrows`). Its induction needs the locks: a commit or an
  unbuffered write of one handle is refused while another has written, so the file never changes under
  a writer.
* `CreatedStored == Spec => CreatedIsStored` and `PublishedByFlush == Spec => BufferPublishedByFlush`. The second invariant,
  `Inv2`, describes a call in progress: a token passed as buffered is in a transaction until its call returns,
  what is left to store ends with the token itself (the dead consonant goes first), a call that is marking
  prefixes sees the token it stored, and everything in `batch` is among the symbols the handle sees. Each action of h
  preserves that and keeps the others' view (`Keeps`); what the others see only grows by `SymbolsOnlyGrow`.
* `SymbolTypes == Spec => []TypeOK`, by `TypeInv`: as for the learnings, what a call's next statement reads exists, and ids are
  unique and bounded.
* `FlagsAreSound == Spec => []FlagsHaveReason`. `FlagsInv` says the same of the buffer: flags are computed from the rows the
  handle sees, and rows are only added. A rollback drops the flags with the rows they are for.
* `NoSymbolTwice == ASSUME ApartUnlessBuffered PROVE Spec => []SymbolsUnique`. `already_persisted` and the insert are two statements. In a
  transaction nobody else writes between them; a call that does not buffer has no transaction, and when two processes create the same
  pattern that way it is stored twice, so the theorem is about clients of which no two share a pattern one of them creates unbuffered. `UniqueInv`
  says that what a call has not found is not there yet when it inserts (`Checked`), and that a buffer has the file's symbols and such as its
  own client creates (`PendingFrom`).
* `PublishedWithFlags == ASSUME OneUnbuffered PROVE Spec => FlagsPublished`. `ProgressInv` says for a call that makes the prefix tree which of
  its columns are complete (`Progress`), and that no other handle adds a symbol meanwhile: a second unbuffered handle could, and the column
  that was made is then incomplete. `MCSymbols` has TLC evaluate both restrictions for the clients of its runs.

### The tokenizer

The theorems of `Tokenizer_proofs` hold for any tables, symbols, texts and sizes of the caches, and state every property of the run
`tokenizer_scan`. The actions `Find` and `Probe` are first taken apart into what each of their alternatives does
(`FindSteps`, `ProbeSteps`), and `Advance`, which all but two of them share, into the two ways a scan goes on (`Advanced`). The
caches are dealt with once: `FoundInCache` and `AddedToCache` say what a lookup and an addition leave of the entries and of their
ages (`Touched`). So is the order of the rows: `MatchesAsked` says that the tokens of a piece are made of the rows that the
lookup asks for, and that there are none only when there are no such rows.

* `TokenizerTypes == Spec => []TypeOK`. `TypeInv` adds that what is held is a piece of the text, begins where the scan
  stands and is shorter than what is looked up next (`Begins`), without which the scan could leave the text.
* `TokenizerCoversText == Spec => []SegmentsCoverText`. The segment that is added begins where the scan stands and the scan
  goes on behind it, so the text grows by it (`AdvanceCovers`). `FlattenSeq` of the community modules is a recursive function; that
  one more text is joined at the end (`FlattenAppended`) is proved from the well-foundedness of the naturals.
* `TokenizerTokensMatch == Spec => []TokensMatch`. `Match` says the same of the entries of the cache, of their own keys, and of the
  tokens that a repeated statement has given already. Tokens stay rows of the table because it only grows.
* `TokenizerTokensAlive == Spec => []TokensAlive`. `LookedUp` counts the pieces of the text that the call has behind it at most. A lookup moves an
  entry at most one place towards the old end, so the entry of a segment is at most that many places from the young end (`Near`), and
  an eviction takes the oldest of at least as many entries as a text of this length has pieces (`NoneFreed`, `PieceSums`). It also needs that no key is
  in the cache twice, and that a piece without tokens has no entry.
* `TokenizerFindsLongest == Spec => LongestUntilChanged`. `FreshInv` says that until the handle sees a change or a failure the
  caches answer what the statements would, and that no piece between the end of what is held and what was tried last has
  tokens (`NoneBetween`). Where the scan stops, no longer piece has tokens: after a piece with tokens since the first of them
  would have the flag (`LongerFlagged`, from `FlagsComplete`), after one without since the `like` query would have found the row (`LongerLike`). The flag of the
  values is shared by two columns that are not compared with each other, and so by value the theorem needs `ColumnsApart`.

### The handle

* `StemsFollowRules == Spec => []StemsByRules`, for any scheme, rules, exceptions and words. `AreStems` defines the stems of a word without a
  loop: the stem has the new ending in the place of the shortest ending to which a rule applies. The loop takes letters one by
  one, so its invariant `StemsSoFar` says that the letters left and the letters taken are the word it went on
  from (`Base`), that no rule applies to an ending as short as what was taken, and that all stems so far have their place.
  `TurnKeeps` proves that a turn keeps it, `AllFound` that it gives `AreStems` when no letter is left. The
  first matching row of each table is its smallest index, which exists by the well-foundedness of the naturals (`FirstRow`).
* `IndexIsDropped == Spec => []IndexOnlyWhileExporting`. The invariant `IndexInv` adds that without a failure a transaction
  is open only in learn, since the index could otherwise be in it, and a full export would drop it there and not
  in the file.
* Both use the invariant `IInv`, with one lemma per action (`Stepwise`).
* The object that a pool gives out was not in use (`TakeIsFresh`), a return frees that one
  (`GiveBackFrees`), a reset all (`ResetFreesAll`), for pools of any size.

The theorems of `Calls_proofs` rest on one invariant, `FullInv`, which is `IInv` with four parts; each part has a lemma that a step of any action
keeps it when all held before (`NumbersKeep`, `StoreKeeps`, `MemKeeps`, `FrameKeeps`). What is said of searches needs `SearchInv` beside it, what
is said of the words of patterns `OwnedInv`.

* *The loops.* What `NoiseReduction`, `WordLearning`, `Suggestions` and `Rendering` compute are loops over lists, and the theorems are about every list. `Loop` is a
  recursive function, so a property of its result needs no induction theorem with an operator as parameter: `Loops_proofs` has the
  constant operator `Turn`, proves by the well-foundedness of the naturals that sets D[0], D[1], ... which each turn leads from one to the
  next contain the results so far, and is instantiated for each loop (`INSTANCE Loops_proofs WITH Turn <- ...`).
* `HandleTypes == Spec => []TypeOK`. Behind it are the types of all operators: that a text is cut into tokens of the scheme, that tokens are
  written as texts of the alphabet (`resolve_rtl_tokens` adds `_`, which must be a letter), that noise reduction gives positions of tokens,
  that learning a word makes a file of `Files`. `FrameOK` says which locals a call has at each place; in `stem()` there is a letter left.
* `PatternsLimited == Spec => []PatternsWithinLimit`. A word can be deleted and learned again, be learned as a stem, and have the patterns of other
  words that begin with it, so the invariant does not count: it says that each pattern learned as such is one of
  the patterns of the word it belongs to (`LearnedForWords`, part of `Files`), and there are not more than products (`FewPatterns`). That the number
  of products overflows plays no part: the enumeration stops at the limit.
* `PreferredLearned == Spec => []PreferredIsLearned`. `StoreInv` says that the first product of every known word is learned with it, and that what a transaction would commit
  has all that was stored before (`After`), so that it is lost by a deletion only. The first product consists of the first token of each position; noise
  reduction takes away tokens from the end of a position, or those of low priority, and never the first that is not (`Preferring`, `PreferredIs`).
* `LowPriorityFirst == Spec => []LowGoesFirst`. A token of another priority is only taken away by the second loop of `reduce_noise_in_tokens`, which does nothing
  unless the products are still too many when the first is through, and then the first has been at every position: no choice with a token of low
  priority is left, and the second loop only shortens what is there (`LowGoneFirst`).
* `LongestMatchFound == Spec => []LongestWordMatchBelowZ`. The search asks for each prefix whether the table has a pattern that begins with it, and
  stops at the first for which it has none. `SearchInv` says that until somebody writes to the table, `matched` is the longest match of the prefixes
  probed so far (`LongestUpTo`). A probe that finds nothing ends the search for good since no longer prefix is found either (`LongestStops`).
  It is a comparison of bounds, `x` to `xz`, that finds what begins with `x` only below z: hence the condition on the table (finding `zrange`).
* `LearnedOffered == Spec => LearnedIsOffered`. From `StoreInv`, which now has for every known word all of its patterns (`PatternsToLearn`), to the word in the
  result: the rows of a pattern are no more than the limit, so the first query has the ids of all of them (`Taking`, `IdsTurn`) and the word is in its answer (`LearnedFound`); `SearchInv` keeps the words found until the result is made, and `SuggestGives` says that it is made of them. A call that leaves
  the first query without a result goes on to the search, so `SearchInv` also says that then the query had found nothing.
* `PatternsKeepWords == Spec => []PatternsHaveWords`. The prefixes of a word's first product are learned as words, and of a later product only the pattern of each prefix is stored,
  under the id of what the prefix is written as: without such a word the id would be -1 (`words-table.c:214`). So two products of a word must be
  written alike, prefix by prefix. Their tokens at a position are rows of the same value (`WordAlike`); when the symbols of a value agree (`Agreeing`), they have the same type, tag and values, and `resolve_tokens`
  looks at nothing else of them, but for one pattern of the scheme's own renderer (`AlikeWritten`, `PrefixesAlike`). `OwnedInv` then has the patterns of the file and of an open transaction under words that
  they have, through the learning of words and stems, the deletion of a word with its patterns, and all other processes.
* `OfferedOnce == Spec => OffersOnce`. Lists of words are injective by `AddNew` (`WordLists`), and `FrameOK` remembers from the second query on that the plain rendering is among them.
* `ResultsStay == Spec => []ResultStays`. `MemInv` says that strings of the result are among those given out and hold their text (`Holds`); a string that is put
  into the pool gets a slot behind them. The array is in use from the call's begin: `Scanned` takes another one and returns it.
* `ExportsWhole == Spec => ExportWhole`. `Written` says that the files so far, joined, are the words so far, and that all but the last are full. It does not depend on the
  learnings file, which changes meanwhile.

The proofs assume `LearningsAssumption`, `SymbolTableAssumption`, `TokenizerAssumption`, `LowerAssumption`, `HandleAssumption` and the assumptions of the modules
`Handle` extends, which TLC evaluates on each run: of the scheme, that its symbols are a finite set of rows of the table's types; of the alphabet, that `_` and `z` are characters,
which the code appends to texts of its own.

`LearningsAssumption` includes that `NoWord` is neither a word nor the record of one: it is the store's value for absent words.

Only model-checked: `LockIsReleased` and `CallsReturn`, as liveness is out of the prover's reach; and of the handle `RoundTrip`.
`RoundTrip` is a property of the scheme as much as of the code: whether what is typed for a word is cut back into the tokens it was made of depends on all
symbols of the scheme, and its precondition (`Spelled`) is what makes it true of the schemes of the runs, not of every scheme.

## Open work

Every invariant and action property of the runs but `RoundTrip` is a theorem. What is left is to model more: the parts that the table of components lists as not modelled or partly so,
and the two hazards that no property covers.
