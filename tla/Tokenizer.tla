------------------------------ MODULE Tokenizer ------------------------------
(***************************************************************************)
(* vst_tokenize: one handle cuts texts into the longest tokens of the      *)
(* symbol table, by pattern (transliteration) or by value (reverse         *)
(* transliteration, learning), while symbols are created by it or others.  *)
(*                                                                         *)
(* A scan looks up ever longer pieces of the text from where it stands.    *)
(* What it has looked up is kept in three caches of the handle, which are  *)
(* never emptied: tokens found, pieces without tokens, and whether longer  *)
(* symbols begin with a piece.  A cache is the sequence of its entries,    *)
(* oldest first.  Cached tokens belong to their entry and are freed with   *)
(* it, also while a result refers to them.                                 *)
(*                                                                         *)
(* % and _ in a text, which LIKE takes for wildcards, are left out: they   *)
(* make a scan look further than needed, and change no result.             *)
(***************************************************************************)
EXTENDS SymbolQueries

CONSTANTS
  Tables,       \* sequences of tokens: what tables hold to begin with
  NewSymbols,   \* tokens created later
  Texts,        \* what is tokenized
  Ways,         \* <<using, match>>: how
  CacheSize,    \* MAX_CACHE_SIZE
  Concurrent,   \* whether other handles create symbols during a call
  MaxRequests, MaxChanges, MaxFaults   \* bounds on a behaviour

ASSUME TokenizerAssumption ==
  /\ Tables \subseteq Seq(Token) /\ NewSymbols \subseteq Token
  /\ Texts \subseteq Text
  /\ Ways \subseteq {"pattern", "value"} \X {"exact", "all"}
  /\ Concurrent \in BOOLEAN
  /\ CacheSize \in Nat /\ CacheSize > 1
  /\ MaxRequests \in Nat /\ MaxChanges \in Nat /\ MaxFaults \in Nat

VARIABLES
  table,          \* the table symbols
  tokensCache,    \* v_->tokens_cache
  missCache,      \* v_->noMatchesCache
  possibleCache,  \* v_->tokenizationPossibility
  scan,           \* the call in progress, or the last one, and its locals
  result,         \* the array of segments the caller passed
  requests, changes, faults

vars == <<table, tokensCache, missCache, possibleCache, scan, result, requests, changes, faults>>

caches == <<tokensCache, missCache, possibleCache>>

\* The columns one after another: no flag changes a text.
WithFlags(t) ==
  LET marked(u, column) == MarkTexts(u, column, Extended(t, column))
  IN marked(marked(marked(t, "pattern"), "value1"), "value2")

\* The tokens as InsertSymbol stores them in their order.
TableOf(tokens) ==
  WithFlags({[id |-> i, sym |-> [tokens[i] EXCEPT !.value2 = Value2Of(tokens[i])], more |-> {}] :
               i \in DOMAIN tokens})

IdleScan ==
  [pc |-> "idle", text |-> <<>>, using |-> "pattern", match |-> "exact",
   from |-> 1, upto |-> 1, read |-> <<>>, held |-> <<>>]

Init ==
  /\ table \in {TableOf(tokens) : tokens \in Tables}
  /\ tokensCache = <<>> /\ missCache = <<>> /\ possibleCache = <<>>
  /\ scan = IdleScan
  /\ result = <<>>
  /\ requests = 0 /\ changes = 0 /\ faults = 0

-----------------------------------------------------------------------------
(* The caches (lru_cache.c).                                               *)

Cached(cache, key) == \E i \in DOMAIN cache : cache[i].key = key

PositionOf(cache, key) == CHOOSE i \in DOMAIN cache : cache[i].key = key

Entry(cache, key) == cache[PositionOf(cache, key)]

\* The entry is found but stays where it is.
FaultyFindInCache(cache, key) == cache

\* lru_find_in_cache moves the entry it finds to the end.
FindInCache(cache, key) ==
  Append(RemoveAt(cache, PositionOf(cache, key)), Entry(cache, key))

\* Entries are dropped one too late.
FaultyAddToCache(cache, key, value) ==
  LET more == Append(cache, [key |-> key, value |-> value])
  IN IF Len(more) > CacheSize THEN Tail(more) ELSE more

\* lru_add_to_cache: the oldest entry goes when there are CacheSize of them.
AddToCache(cache, key, value) ==
  LET more == Append(cache, [key |-> key, value |-> value])
  IN IF Len(more) >= CacheSize THEN Tail(more) ELSE more

Evicts(cache) == Len(cache) + 1 >= CacheSize

-----------------------------------------------------------------------------
(* A lookup.                                                               *)

Piece(s) == SubSeq(s.text, s.from, s.upto)

\* ... like 'text'
FaultyMoreLike(t, text, using) ==
  \E r \in t : \E column \in IF using = "pattern" THEN {"pattern"} ELSE {"value1", "value2"} :
    Fold(text) = Fold(r.sym[column])

\* ... like 'text%'
MoreLike(t, text, using) ==
  \E r \in t : \E column \in IF using = "pattern" THEN {"pattern"} ELSE {"value1", "value2"} :
    IsPrefix(Fold(text), Fold(r.sym[column]))

-----------------------------------------------------------------------------
\* Nothing is done for the empty text: the result of the call before stays.
Start(text, way) ==
  /\ scan.pc = "idle"
  /\ requests < MaxRequests
  /\ requests' = requests + 1
  /\ IF text = <<>> THEN UNCHANGED <<scan, result>>
     ELSE /\ scan' = [IdleScan EXCEPT !.pc = "find", !.text = text, !.using = way[1], !.match = way[2]]
          /\ result' = <<>>
  /\ UNCHANGED <<table, caches, changes, faults>>

\* The scan goes on behind the piece that was looked up last.
FaultyNextFrom(s, held) == s.upto + 1

\* matchpos: the scan goes on behind the piece it has tokens for.
NextFrom(s, held) == held.at + Len(held.text)

\* The piece is known to have tokens or to have none (held), and longer symbols to
\* be possible or not: a longer piece is tried, or the segment is added to a result.
Advance(s, held, possible, segments) ==
  IF possible /\ s.upto < Len(s.text)
  THEN /\ scan' = [s EXCEPT !.pc = "find", !.upto = @ + 1, !.held = <<held>>, !.read = <<>>]
       /\ result' = segments
  ELSE /\ result' = Append(segments, held)
       /\ LET next == NextFrom(s, held) IN
          scan' = [s EXCEPT !.pc = IF next > Len(s.text) THEN "idle" ELSE "find",
                            !.from = next, !.upto = next, !.held = <<>>, !.read = <<>>]

Segment(s, tokens) ==
  [at |-> s.from, text |-> Piece(s), tokens |-> tokens, freed |-> FALSE]

\* can_find_more_matches of a piece with tokens asks the first of them.
FoundTokens(s, tokens, segments) ==
  Advance(s, Segment(s, tokens), s.using \in Head(tokens).more, segments)

\* The match type is left out of the key.
FaultyKey(s) == [text |-> Piece(s), using |-> s.using, match |-> "all"]

\* Digits for using and match behind the text: no two keys are equal.
Key(s) == [text |-> Piece(s), using |-> s.using, match |-> s.match]

PossibleKey(s) == [text |-> Piece(s), using |-> s.using]

\* Segments of the tokens that an entry takes with it.
Freed(segments, entry) ==
  [i \in DOMAIN segments |->
     IF entry.key = [text |-> segments[i].text, using |-> scan.using, match |-> scan.match]
     THEN [segments[i] EXCEPT !.freed = TRUE] ELSE segments[i]]

\* read_all_tokens_and_add_to_array, or what the caches remember of it.  The held
\* tokens are replaced by the ones found now, so that only the result can suffer
\* from the entry that is dropped.
Find ==
  LET tokens == scan.read \o Matches(table, Piece(scan), scan.using, scan.match) IN
  /\ scan.pc = "find"
  /\ UNCHANGED <<table, possibleCache, requests, changes, faults>>
  /\ \/ /\ Cached(tokensCache, Key(scan))
        /\ tokensCache' = FindInCache(tokensCache, Key(scan))
        /\ FoundTokens(scan, Entry(tokensCache, Key(scan)).value, result)
        /\ UNCHANGED missCache
     \/ /\ ~Cached(tokensCache, Key(scan)) /\ Cached(missCache, Key(scan))
        /\ scan' = [scan EXCEPT !.pc = "probe"]
        /\ UNCHANGED <<tokensCache, missCache, result>>
     \/ /\ ~Cached(tokensCache, Key(scan)) /\ ~Cached(missCache, Key(scan))
        /\ tokens # <<>>
        /\ tokensCache' = AddToCache(tokensCache, Key(scan), tokens)
        /\ FoundTokens(scan, tokens,
             IF Evicts(tokensCache) THEN Freed(result, Head(tokensCache)) ELSE result)
        /\ UNCHANGED missCache
     \/ /\ ~Cached(tokensCache, Key(scan)) /\ ~Cached(missCache, Key(scan))
        /\ tokens = <<>>
        /\ missCache' = AddToCache(missCache, Key(scan), TRUE)
        /\ scan' = [scan EXCEPT !.pc = "probe"]
        /\ UNCHANGED <<tokensCache, result>>

\* A step of the statement fails: it is stepped again, which starts it over, and the
\* tokens it gave before are kept.
ReadAgain ==
  LET tokens == Matches(table, Piece(scan), scan.using, scan.match) IN
  /\ scan.pc = "find"
  /\ ~Cached(tokensCache, Key(scan)) /\ ~Cached(missCache, Key(scan))
  /\ faults < MaxFaults
  /\ faults' = faults + 1
  /\ \E n \in 0..Len(tokens) : scan' = [scan EXCEPT !.read = @ \o SubSeq(tokens, 1, n)]
  /\ UNCHANGED <<table, caches, result, requests, changes>>

\* A character that begins no token is a segment of its own; longer pieces without
\* tokens leave what is held.
HeldOrOther(s) == IF s.held # <<>> THEN s.held[1] ELSE Segment(s, <<>>)

\* can_find_more_matches of a piece without tokens.  A step that fails answers no,
\* which is remembered like any answer.
Probe ==
  LET answer(possible) == Advance(scan, HeldOrOther(scan), possible, result) IN
  /\ scan.pc = "probe"
  /\ UNCHANGED <<table, tokensCache, missCache, requests, changes>>
  /\ \/ /\ Cached(possibleCache, PossibleKey(scan))
        /\ possibleCache' = FindInCache(possibleCache, PossibleKey(scan))
        /\ answer(Entry(possibleCache, PossibleKey(scan)).value)
        /\ UNCHANGED faults
     \/ /\ ~Cached(possibleCache, PossibleKey(scan))
        /\ \/ /\ possibleCache' = AddToCache(possibleCache, PossibleKey(scan),
                                    MoreLike(table, Piece(scan), scan.using))
              /\ answer(MoreLike(table, Piece(scan), scan.using))
              /\ UNCHANGED faults
           \/ /\ faults < MaxFaults
              /\ faults' = faults + 1
              /\ possibleCache' = AddToCache(possibleCache, PossibleKey(scan), FALSE)
              /\ answer(FALSE)

\* Another handle, or this one between two calls, creates a symbol, and makes the
\* prefix tree then or later.
CreateSymbol(s) ==
  /\ Concurrent \/ scan.pc = "idle"
  /\ changes < MaxChanges
  /\ changes' = changes + 1
  /\ ~Persisted(table, s)
  /\ \/ table' = InsertSymbol(table, s)
     \/ table' = WithFlags(InsertSymbol(table, s))
  /\ UNCHANGED <<caches, scan, result, requests, faults>>

MakePrefixTree ==
  /\ Concurrent \/ scan.pc = "idle"
  /\ table' = WithFlags(table)
  /\ UNCHANGED <<caches, scan, result, requests, changes, faults>>

Next ==
  \/ \E text \in Texts, way \in Ways : Start(text, way)
  \/ Find \/ ReadAgain \/ Probe
  \/ \E s \in NewSymbols : CreateSymbol(s)
  \/ MakePrefixTree

Spec == Init /\ [][Next]_vars

-----------------------------------------------------------------------------
(* Correctness.                                                            *)

Segments == [at : Nat \ {0}, text : Text, tokens : Seq(SymbolRow), freed : BOOLEAN]

\* Every variable holds a value of its type.
TypeOK ==
  /\ table \subseteq SymbolRow
  /\ \A i \in DOMAIN tokensCache : tokensCache[i].value \in Seq(SymbolRow) \ {<<>>}
  /\ \A i \in DOMAIN possibleCache : possibleCache[i].value \in BOOLEAN
  /\ Len(tokensCache) < CacheSize /\ Len(missCache) < CacheSize /\ Len(possibleCache) < CacheSize
  /\ scan.pc \in {"idle", "find", "probe"} /\ scan.read \in Seq(SymbolRow)
  /\ scan.held \in Seq(Segments) /\ Len(scan.held) < 2
  /\ scan.pc # "idle" => scan.from \in 1..scan.upto /\ scan.upto \in 1..Len(scan.text)
  /\ result \in Seq(Segments)
  /\ requests \in 0..MaxRequests /\ changes \in 0..MaxChanges /\ faults \in 0..MaxFaults

\* The pieces of the result, in their order, are the text up to where the scan
\* stands: no character is lost or read twice, whatever is cached or fails.
SegmentsCoverText ==
  scan.text # <<>> =>
    FlattenSeq([i \in DOMAIN result |-> result[i].text]) = SubSeq(scan.text, 1, scan.from - 1)

\* The tokens of a segment are rows of the table that the call asked for: their
\* pattern or a value of theirs is the piece, and they are exact if it wants so.
TokensMatch ==
  \A i \in DOMAIN result : \A j \in DOMAIN result[i].tokens :
    LET token == result[i].tokens[j] IN
    /\ \E r \in table :
         /\ r.id = token.id
         /\ result[i].text \in IF scan.using = "pattern" THEN {r.sym.pattern}
                               ELSE {r.sym.value1, r.sym.value2}
    /\ scan.match = "exact" => token.sym.match = "exact"

\* Pieces a text of this length can be cut into.
Lookups(text) == (Len(text) * (Len(text) + 1)) \div 2

\* The tokens of a result are not freed while the call runs, nor before the next:
\* what a call looks up itself is never the oldest entry.
TokensAlive ==
  Lookups(scan.text) < CacheSize => \A i \in DOMAIN result : ~result[i].freed

IsLongest(segment) ==
  \A n \in 1..(Len(scan.text) - segment.at + 1) :
    Matches(table, SubSeq(scan.text, segment.at, segment.at + n - 1), scan.using, scan.match) # <<>>
      => n <= Len(segment.text) /\ segment.tokens # <<>>

NewSegments == DOMAIN result' \ DOMAIN result

\* "Tokenizer tries all possible to combinations to generate the longest possible
\* tokens for the given input" (README.md), of a table that has its flags.
LongestTokens ==
  [][FlagsComplete(table) /\ scan.using = "pattern" =>
       \A i \in NewSegments : IsLongest(result'[i])]_vars

\* The same, as long as the handle has not seen the table change and no statement
\* has failed; by value, when no value begins one of the other column.
LongestUntilChanged ==
  [][changes = 0 /\ faults' = 0 /\ (scan.using = "value" => ColumnsApart(table)) =>
       \A i \in NewSegments : IsLongest(result'[i])]_vars
=============================================================================
