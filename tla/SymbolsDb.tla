------------------------------ MODULE SymbolsDb ------------------------------
(***************************************************************************)
(* The table symbols of a scheme file (symbol-table.c), the statements     *)
(* that change it, and what varnam_create_token() makes of a token before  *)
(* it is stored.                                                           *)
(*                                                                         *)
(* A table is a set of rows.  A row has the token, an id, and flags: that  *)
(* there are longer symbols that begin with its pattern, or with one of    *)
(* its values.  Texts are sequences of characters, since which text begins *)
(* another is what the flags and the tokenizer are about.  tag, value3 and *)
(* accept_condition, which nothing here reads, are left out; texts are     *)
(* already as trim() leaves them.                                          *)
(***************************************************************************)
EXTENDS Integers, FiniteSets, SequencesExt

CONSTANTS
  Char,
  InherentA,    \* the letter a
  NonJoiner,    \* the character ZWNJ() returns
  Joiner,       \* the character ZWJ() returns
  NoText        \* a value passed as NULL

Text == Seq(Char)

Types == {"vowel", "consonant", "dead_consonant", "virama", "non_joiner", "joiner", "other"}

TokenWith(values) ==
  [type : Types, match : {"exact", "possibility"}, pattern : Text, value1 : Text,
   value2 : values, priority : Int]

Token == TokenWith(Text \cup {NoText})   \* as a client passes it

Flags == {"pattern", "value"}

SymbolRow == [id : Nat \ {0}, sym : TokenWith(Text), more : SUBSET Flags]

ASSUME SymbolsAssumption ==
  InherentA \in Char /\ NonJoiner \in Char /\ Joiner \in Char /\ NoText \notin Text

\* AUTOINCREMENT; rows are never deleted, and a rollback gives the ids back.
NextSymbolId(t) ==
  IF t = {} THEN 1 ELSE 1 + (CHOOSE m \in {r.id : r \in t} : \A r \in t : r.id <= m)

\* NULL is stored as the empty text.
Value2Of(s) == IF s.value2 = NoText THEN <<>> ELSE s.value2

\* The NULL is stored.
FaultyInsertSymbol(t, s) == t \cup {[id |-> NextSymbolId(t), sym |-> s, more |-> {}]}

InsertSymbol(t, s) ==
  t \cup {[id |-> NextSymbolId(t), sym |-> [s EXCEPT !.value2 = Value2Of(s)], more |-> {}]}

\* An exact match with another value is let in.
FaultyPersisted(t, s) ==
  \E r \in t : r.sym.pattern = s.pattern /\ r.sym.value1 = s.value1

\* already_persisted: one exact match per pattern; a possibility is refused when
\* any symbol has its pattern and first value.
Persisted(t, s) ==
  \E r \in t :
    /\ r.sym.pattern = s.pattern
    /\ IF s.match = "exact" THEN r.sym.match = "exact" ELSE r.sym.value1 = s.value1

\* The virama a handle finds when it has none cached.
Viramas(t) == {r \in t : r.sym.type = "virama" /\ r.sym.match = "exact"}

FirstVirama(t) == (CHOOSE r \in Viramas(t) : \A q \in Viramas(t) : r.id <= q.id).sym.value1

-----------------------------------------------------------------------------
(* What varnam_create_token stores.                                        *)

CanGenerateDeadConsonant(p) ==
  Len(p) > 1 /\ p[Len(p) - 1] # InherentA /\ p[Len(p)] = InherentA

\* The dead consonant stored beside a consonant that ends in an inherent a.
DeadTwin(s, virama) ==
  [s EXCEPT !.type = "dead_consonant", !.pattern = Front(@), !.value1 = @ \o virama,
            !.value2 = IF @ = NoText THEN <<>> ELSE @ \o virama]

\* A consonant whose value already ends in the virama is a dead consonant itself.
WithVirama(s, virama) ==
  IF IsSuffix(virama, s.value1) THEN [s EXCEPT !.type = "dead_consonant"] ELSE s

HasTwin(s, virama) == ~IsSuffix(virama, s.value1) /\ CanGenerateDeadConsonant(s.pattern)

\* Joiners get the values of their type, whatever was passed.
Normalised(s) ==
  CASE s.type = "non_joiner" -> [s EXCEPT !.value1 = <<NonJoiner>>, !.value2 = <<NonJoiner>>]
    [] s.type = "joiner" -> [s EXCEPT !.value1 = <<Joiner>>, !.value2 = <<Joiner>>]
    [] OTHER -> s

-----------------------------------------------------------------------------
(* vst_make_prefix_tree.                                                   *)

Columns == <<"pattern", "value1", "value2">>

FlagOf(column) == IF column = "pattern" THEN "pattern" ELSE "value"

\* The texts of a column that longer texts of the same column begin with.  Both
\* value columns share a flag, but value1 is not compared with value2.
Extended(t, column) ==
  {x \in {r.sym[column] : r \in t} \ {<<>>} : \E q \in t : IsStrictPrefix(x, q.sym[column])}

\* set flags = mask: the flag of another column is lost.
FaultyMarkTexts(t, column, S) ==
  {IF r.sym[column] \in S THEN [r EXCEPT !.more = {FlagOf(column)}] ELSE r : r \in t}

\* update symbols set flags = flags | mask where column = x, for the texts x in S
MarkTexts(t, column, S) ==
  {IF r.sym[column] \in S THEN [r EXCEPT !.more = @ \cup {FlagOf(column)}] ELSE r : r \in t}

-----------------------------------------------------------------------------
(* What a table promises.                                                  *)

\* No two rows hold the same symbol.
UniqueIn(t) ==
  \A r, q \in t :
    r # q /\ r.sym.pattern = q.sym.pattern /\ r.sym.match = q.sym.match =>
      r.sym.match = "possibility" /\ r.sym.value1 # q.sym.value1

\* The flags that longer symbols call for are set, and no others.
FlagsComplete(t) ==
  \A r \in t : \A i \in DOMAIN Columns :
    r.sym[Columns[i]] \in Extended(t, Columns[i]) => FlagOf(Columns[i]) \in r.more

FlagsSound(t) ==
  \A r \in t : \A f \in r.more :
    \E i \in DOMAIN Columns : FlagOf(Columns[i]) = f /\ r.sym[Columns[i]] \in Extended(t, Columns[i])

\* What a reader of the table may rely on: symbols stay, and so do flags.
GrownFrom(t, u) ==
  \A r \in t : \E q \in u : q.id = r.id /\ q.sym = r.sym /\ r.more \subseteq q.more
=============================================================================
