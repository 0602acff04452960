--------------------------- MODULE SymbolsDb_proofs ---------------------------
(***************************************************************************)
(* What the statements of SymbolsDb preserve, for any characters and       *)
(* tokens: the types of the rows, that ids are unique and bounded (so that *)
(* NextSymbolId is a new one), that symbols and flags only grow, that no   *)
(* symbol is stored twice, and that every flag has a longer symbol.        *)
(***************************************************************************)
EXTENDS SymbolsDb, Basics_proofs

IsRow(r) == r = [id |-> r.id, sym |-> r.sym, more |-> r.more]

IsToken(s) ==
  s = [type |-> s.type, match |-> s.match, pattern |-> s.pattern, value1 |-> s.value1,
       value2 |-> s.value2, priority |-> s.priority]

TableBounded(t) == \E b \in Nat : \A r \in t : r.id <= b

GoodTable(t) ==
  /\ t \subseteq SymbolRow
  /\ TableBounded(t)
  /\ \A r, q \in t : r.id = q.id => r = q

-----------------------------------------------------------------------------
(* Rows and tokens.                                                        *)

LEMMA RowFields ==
  ASSUME NEW r \in SymbolRow
  PROVE  /\ IsRow(r) /\ r.id \in Nat \ {0} /\ r.sym \in TokenWith(Text) /\ r.more \in SUBSET Flags
  BY DEF SymbolRow, IsRow

LEMMA TokenFields ==
  ASSUME NEW values, NEW s \in TokenWith(values)
  PROVE  /\ IsToken(s)
         /\ s.type \in Types /\ s.match \in {"exact", "possibility"} /\ s.pattern \in Text
         /\ s.value1 \in Text /\ s.value2 \in values /\ s.priority \in Int
  BY DEF TokenWith, IsToken

\* What is stored of a token: NULL becomes the empty text.
LEMMA StoredToken ==
  ASSUME NEW s, IsToken(s)
  PROVE  LET z == [s EXCEPT !.value2 = Value2Of(s)] IN
         /\ IsToken(z)
         /\ z.match = s.match /\ z.pattern = s.pattern /\ z.value1 = s.value1
         /\ s \in Token => z \in TokenWith(Text)
<1> DEFINE z == [s EXCEPT !.value2 = Value2Of(s)]
<1>1. z = [type |-> s.type, match |-> s.match, pattern |-> s.pattern, value1 |-> s.value1,
           value2 |-> Value2Of(s), priority |-> s.priority]
  BY DEF IsToken
<1>2. ASSUME s \in Token PROVE Value2Of(s) \in Text
  <2>1. <<>> \in Text
    BY DEF Text
  <2>2. s.value2 \in Text \cup {NoText}
    BY <1>2, TokenFields DEF Token
  <2> QED BY <2>1, <2>2 DEF Value2Of
<1>3. ASSUME s \in Token PROVE z \in TokenWith(Text)
  <2>1. /\ s.type \in Types /\ s.match \in {"exact", "possibility"} /\ s.pattern \in Text
        /\ s.value1 \in Text /\ s.priority \in Int
    BY <1>3, TokenFields DEF Token
  <2> QED BY <1>1, <1>2, <1>3, <2>1 DEF TokenWith
<1> HIDE DEF z
<1> QED BY <1>1, <1>3 DEF IsToken, z

\* The smallest of a set of numbers.
LEMMA LeastNumber ==
  ASSUME NEW S \in SUBSET Nat, S # {}
  PROVE  \E m \in S : \A n \in S : m <= n
<1>1. \E x \in S : \A y \in S : ~(<<y, x>> \in OpToRel(<, Nat))
  BY NatLessThanWellFounded, WFMin
<1>2. PICK m \in S : \A n \in S : ~(n < m)
  BY <1>1 DEF OpToRel
<1> QED BY <1>2

\* The id of an inserted row is new.
LEMMA NextSymbolIdIsNew ==
  ASSUME NEW t, GoodTable(t)
  PROVE  NextSymbolId(t) \in Nat \ {0} /\ \A r \in t : r.id < NextSymbolId(t)
<1>1. \A r \in t : r.id \in Nat \ {0}
  BY RowFields DEF GoodTable
<1>2. CASE t = {}
  BY <1>2 DEF NextSymbolId
<1>3. CASE t # {}
  <2> DEFINE ids == {r.id : r \in t}
             bounds == {b \in Nat : \A r \in t : r.id <= b}
  <2>1. bounds \in SUBSET Nat /\ bounds # {}
    BY DEF GoodTable, TableBounded
  <2>2. \E b \in bounds : \A n \in bounds : b <= n
    <3> HIDE DEF bounds
    <3> QED BY <2>1, LeastNumber
  <2>3. PICK b \in bounds : \A n \in bounds : b <= n
    BY <2>2
  <2>4. b \in ids
    <3> SUFFICES ASSUME b \notin ids PROVE FALSE
      OBVIOUS
    <3>1. \A r \in t : r.id < b
      BY <1>1, <2>3
    <3>2. b - 1 \in Nat /\ \A r \in t : r.id <= b - 1
      BY <1>1, <1>3, <2>3, <3>1
    <3>3. b - 1 \in bounds
      BY <3>2
    <3> QED BY <2>3, <3>3
  <2>5. \E m \in ids : \A r \in t : r.id <= m
    BY <2>3, <2>4
  <2> DEFINE m == CHOOSE m \in ids : \A r \in t : r.id <= m
  <2>6. m \in ids /\ \A r \in t : r.id <= m
    BY <2>5
  <2>7. NextSymbolId(t) = 1 + m
    BY <1>3 DEF NextSymbolId
  <2>8. m \in Nat \ {0}
    BY <1>1, <2>6
  <2> HIDE DEF m, ids
  <2> QED BY <1>1, <2>6, <2>7, <2>8
<1> QED BY <1>2, <1>3

\* A table whose ids are unique and bounded is finite.
LEMMA TableIsFinite ==
  ASSUME NEW t, GoodTable(t)
  PROVE  IsFiniteSet(t)
<1>1. PICK b \in Nat : \A r \in t : r.id <= b
  BY DEF GoodTable, TableBounded
<1> DEFINE f == [r \in t |-> r.id]
<1>2. \A r \in t : r.id \in Nat \ {0}
  BY RowFields DEF GoodTable
<1>3. f \in [t -> 1..b]
  BY <1>1, <1>2
<1>4. \A r, q \in t : f[r] = f[q] => r = q
  BY DEF GoodTable
<1>5. f \in Injection(t, 1..b)
  <2> HIDE DEF f
  <2> QED BY <1>3, <1>4, Fun_IsInj
<1>6. IsFiniteSet(1..b)
  BY FS_Interval
<1> QED BY <1>5, <1>6, FS_Injection

-----------------------------------------------------------------------------
(* Growth.                                                                 *)

LEMMA TableGrownReflexive == ASSUME NEW t PROVE GrownFrom(t, t)
  BY DEF GrownFrom

LEMMA TableGrownTransitive ==
  ASSUME NEW t, NEW u, NEW v, GrownFrom(t, u), GrownFrom(u, v)
  PROVE  GrownFrom(t, v)
<1> SUFFICES ASSUME NEW r \in t
             PROVE  \E q \in v : q.id = r.id /\ q.sym = r.sym /\ r.more \subseteq q.more
  BY DEF GrownFrom
<1>1. PICK p \in u : p.id = r.id /\ p.sym = r.sym /\ r.more \subseteq p.more
  BY DEF GrownFrom
<1>2. PICK q \in v : q.id = p.id /\ q.sym = p.sym /\ p.more \subseteq q.more
  BY DEF GrownFrom
<1> QED BY <1>1, <1>2

\* A symbol that is persisted stays so as the table grows.
LEMMA PersistedStays ==
  ASSUME NEW t, NEW u, GrownFrom(t, u), NEW s, Persisted(t, s)
  PROVE  Persisted(u, s)
<1>1. PICK r \in t : /\ r.sym.pattern = s.pattern
                     /\ IF s.match = "exact" THEN r.sym.match = "exact" ELSE r.sym.value1 = s.value1
  BY DEF Persisted
<1>2. PICK q \in u : q.sym = r.sym
  BY DEF GrownFrom
<1> QED BY <1>1, <1>2 DEF Persisted

-----------------------------------------------------------------------------
(* Insert.                                                                 *)

LEMMA InsertRow ==
  ASSUME NEW t, NEW s
  PROVE  \E new : /\ InsertSymbol(t, s) = t \cup {new}
                  /\ new = [id |-> NextSymbolId(t), sym |-> [s EXCEPT !.value2 = Value2Of(s)],
                            more |-> {}]
  BY DEF InsertSymbol

LEMMA InsertGood ==
  ASSUME NEW t, GoodTable(t), NEW s \in Token
  PROVE  GoodTable(InsertSymbol(t, s))
<1> DEFINE z == [s EXCEPT !.value2 = Value2Of(s)]
           n == NextSymbolId(t)
<1>1. PICK new : InsertSymbol(t, s) = t \cup {new} /\ new = [id |-> n, sym |-> z, more |-> {}]
  BY InsertRow
<1>2. IsToken(s)
  BY TokenFields DEF Token
<1>3. z \in TokenWith(Text)
  BY <1>2, StoredToken
<1>4. n \in Nat \ {0} /\ \A r \in t : r.id < n
  BY NextSymbolIdIsNew
<1> HIDE DEF z, n
<1>5. new \in SymbolRow
  BY <1>1, <1>3, <1>4 DEF SymbolRow
<1>6. InsertSymbol(t, s) \subseteq SymbolRow
  BY <1>1, <1>5 DEF GoodTable
<1>7. \A r \in InsertSymbol(t, s) : r.id <= n
  <2>1. \A r \in t : r.id \in Nat
    BY RowFields DEF GoodTable
  <2> QED BY <1>1, <1>4, <2>1
<1>8. \A r, q \in InsertSymbol(t, s) : r.id = q.id => r = q
  <2>1. \A r \in t : r.id # new.id
    BY <1>1, <1>4, RowFields DEF GoodTable
  <2> QED BY <1>1, <2>1 DEF GoodTable
<1> QED BY <1>4, <1>6, <1>7, <1>8 DEF GoodTable, TableBounded

\* A token that is inserted takes no symbol away.
LEMMA InsertGrows ==
  ASSUME NEW t, \A r \in t : IsRow(r), NEW s
  PROVE  GrownFrom(t, InsertSymbol(t, s)) /\ \A r \in InsertSymbol(t, s) : IsRow(r)
<1>1. PICK new : /\ InsertSymbol(t, s) = t \cup {new}
                 /\ new = [id |-> NextSymbolId(t), sym |-> [s EXCEPT !.value2 = Value2Of(s)],
                           more |-> {}]
  BY InsertRow
<1>2. IsRow(new)
  BY <1>1 DEF IsRow
<1> QED BY <1>1, <1>2 DEF GrownFrom

\* What already_persisted lets in is no symbol of the table.
LEMMA InsertUnique ==
  ASSUME NEW t, UniqueIn(t), NEW s, IsToken(s), ~Persisted(t, s),
         s.match \in {"exact", "possibility"}
  PROVE  UniqueIn(InsertSymbol(t, s))
<1> DEFINE z == [s EXCEPT !.value2 = Value2Of(s)]
<1>1. PICK new : InsertSymbol(t, s) = t \cup {new} /\ new.sym = z
  BY InsertRow
<1>2. z.match = s.match /\ z.pattern = s.pattern /\ z.value1 = s.value1
  BY StoredToken
<1> HIDE DEF z
<1>3. ASSUME NEW r \in t, r.sym.pattern = new.sym.pattern, r.sym.match = new.sym.match
      PROVE  r.sym.match = "possibility" /\ r.sym.value1 # new.sym.value1
  BY <1>1, <1>2, <1>3 DEF Persisted
<1> QED BY <1>1, <1>3 DEF UniqueIn

-----------------------------------------------------------------------------
(* Flags.                                                                  *)

\* m is what becomes of the row r.
MarkOf(m, r, column, S) ==
  /\ IsRow(m) /\ m.id = r.id /\ m.sym = r.sym
  /\ m.more = IF r.sym[column] \in S THEN r.more \cup {FlagOf(column)} ELSE r.more

\* A marked table has the rows of the table, some of them with one flag more.
LEMMA MarkedRows ==
  ASSUME NEW t, \A r \in t : IsRow(r), NEW column, NEW S
  PROVE  /\ \A m \in MarkTexts(t, column, S) : \E r \in t : MarkOf(m, r, column, S)
         /\ \A r \in t : \E m \in MarkTexts(t, column, S) : MarkOf(m, r, column, S)
<1> DEFINE mark(r) == IF r.sym[column] \in S THEN [r EXCEPT !.more = @ \cup {FlagOf(column)}] ELSE r
<1>1. MarkTexts(t, column, S) = {mark(r) : r \in t}
  BY DEF MarkTexts
<1>2. ASSUME NEW r \in t PROVE MarkOf(mark(r), r, column, S)
  <2>1. r = [id |-> r.id, sym |-> r.sym, more |-> r.more]
    BY DEF IsRow
  <2>2. [r EXCEPT !.more = @ \cup {FlagOf(column)}]
          = [id |-> r.id, sym |-> r.sym, more |-> r.more \cup {FlagOf(column)}]
    BY <2>1
  <2> QED BY <2>1, <2>2 DEF IsRow, MarkOf
<1> HIDE DEF mark
<1> QED BY <1>1, <1>2

LEMMA MarkGrows ==
  ASSUME NEW t, \A r \in t : IsRow(r), NEW column, NEW S
  PROVE  GrownFrom(t, MarkTexts(t, column, S)) /\ \A r \in MarkTexts(t, column, S) : IsRow(r)
<1> DEFINE u == MarkTexts(t, column, S)
<1>1. /\ \A m \in u : \E r \in t : MarkOf(m, r, column, S)
      /\ \A r \in t : \E m \in u : MarkOf(m, r, column, S)
  BY MarkedRows
<1>2. ASSUME NEW m, NEW r, MarkOf(m, r, column, S)
      PROVE  IsRow(m) /\ m.id = r.id /\ m.sym = r.sym /\ r.more \subseteq m.more
  BY <1>2 DEF MarkOf
<1> HIDE DEF u
<1>3. GrownFrom(t, u) /\ \A r \in u : IsRow(r)
  BY <1>1, <1>2 DEF GrownFrom
<1> QED BY <1>3 DEF u

LEMMA MarkGood ==
  ASSUME NEW t, GoodTable(t), NEW column, NEW S
  PROVE  GoodTable(MarkTexts(t, column, S))
<1> DEFINE u == MarkTexts(t, column, S)
<1>1. \A m \in u : \E r \in t : MarkOf(m, r, column, S)
  BY RowFields, MarkedRows DEF GoodTable
<1> HIDE DEF u
<1>2. ASSUME NEW m \in u PROVE m \in SymbolRow
  <2>1. PICK r \in t : MarkOf(m, r, column, S)
    BY <1>1
  <2>2. FlagOf(column) \in Flags
    BY DEF FlagOf, Flags
  <2>3. r.id \in Nat \ {0} /\ r.sym \in TokenWith(Text) /\ r.more \in SUBSET Flags
    BY RowFields DEF GoodTable
  <2>4. m.more \in SUBSET Flags
    BY <2>1, <2>2, <2>3 DEF MarkOf
  <2> QED BY <2>1, <2>3, <2>4 DEF MarkOf, IsRow, SymbolRow
<1>3. TableBounded(u)
  BY <1>1 DEF GoodTable, TableBounded, MarkOf
<1>4. ASSUME NEW m \in u, NEW n \in u, m.id = n.id PROVE m = n
  <2>1. PICK r \in t : MarkOf(m, r, column, S)
    BY <1>1
  <2>2. PICK q \in t : MarkOf(n, q, column, S)
    BY <1>1
  <2>3. r = q
    BY <1>4, <2>1, <2>2 DEF GoodTable, MarkOf
  <2> QED BY <2>1, <2>2, <2>3 DEF IsRow, MarkOf
<1> QED BY <1>2, <1>3, <1>4 DEF GoodTable, u

\* Marking makes no two rows the same symbol.
LEMMA MarkUnique ==
  ASSUME NEW t, \A r \in t : IsRow(r), UniqueIn(t), NEW column, NEW S
  PROVE  UniqueIn(MarkTexts(t, column, S))
<1> DEFINE u == MarkTexts(t, column, S)
<1>1. \A m \in u : \E r \in t : MarkOf(m, r, column, S)
  BY MarkedRows
<1> HIDE DEF u
<1> SUFFICES ASSUME NEW m \in u, NEW n \in u, m # n, m.sym.pattern = n.sym.pattern,
                    m.sym.match = n.sym.match
             PROVE  m.sym.match = "possibility" /\ m.sym.value1 # n.sym.value1
  BY DEF UniqueIn, u
<1>2. PICK r \in t : MarkOf(m, r, column, S)
  BY <1>1
<1>3. PICK q \in t : MarkOf(n, q, column, S)
  BY <1>1
<1>4. r # q
  BY <1>2, <1>3 DEF MarkOf, IsRow
<1>5. m.sym = r.sym /\ n.sym = q.sym
  BY <1>2, <1>3 DEF MarkOf
<1> QED BY <1>4, <1>5 DEF UniqueIn

\* A text that longer ones begin with still does when the table grows.
LEMMA ExtendedStays ==
  ASSUME NEW t, NEW u, GrownFrom(t, u), NEW column
  PROVE  Extended(t, column) \subseteq Extended(u, column)
<1> SUFFICES ASSUME NEW x \in Extended(t, column) PROVE x \in Extended(u, column)
  OBVIOUS
<1>1. PICK r \in t : x = r.sym[column]
  BY DEF Extended
<1>2. x # <<>>
  BY DEF Extended
<1>3. PICK q \in t : IsStrictPrefix(x, q.sym[column])
  BY DEF Extended
<1>4. PICK v \in u : v.sym = r.sym
  BY DEF GrownFrom
<1>5. PICK w \in u : w.sym = q.sym
  BY DEF GrownFrom
<1> QED BY <1>1, <1>2, <1>3, <1>4, <1>5 DEF Extended

\* Marking adds no text.
LEMMA ExtendedMarked ==
  ASSUME NEW t, \A r \in t : IsRow(r), NEW column, NEW S, NEW other
  PROVE  Extended(MarkTexts(t, column, S), other) = Extended(t, other)
<1> DEFINE u == MarkTexts(t, column, S)
<1>0. /\ \A m \in u : \E r \in t : MarkOf(m, r, column, S)
      /\ \A r \in t : \E m \in u : MarkOf(m, r, column, S)
  BY MarkedRows
<1> HIDE DEF u
<1>1. \A m \in u : \E r \in t : m.sym = r.sym
  BY <1>0 DEF MarkOf
<1>2. \A r \in t : \E m \in u : m.sym = r.sym
  BY <1>0 DEF MarkOf
<1>3. {r.sym[other] : r \in u} = {r.sym[other] : r \in t}
  BY <1>1, <1>2
<1>4. ASSUME NEW x PROVE (\E q \in u : IsStrictPrefix(x, q.sym[other])) <=> \E q \in t : IsStrictPrefix(x, q.sym[other])
  BY <1>1, <1>2
<1>5. Extended(u, other) = Extended(t, other)
  BY <1>3, <1>4 DEF Extended
<1> QED BY <1>5 DEF u

\* The reason of a flag.
HasReason(t, r, f) ==
  \E i \in DOMAIN Columns : FlagOf(Columns[i]) = f /\ r.sym[Columns[i]] \in Extended(t, Columns[i])

\* Flags keep their reasons as long as no symbol is taken away.
LEMMA ReasonStays ==
  ASSUME NEW t, NEW u, GrownFrom(t, u), NEW r, NEW q, r.sym = q.sym, NEW f, HasReason(t, r, f)
  PROVE  HasReason(u, q, f)
<1>1. PICK i \in DOMAIN Columns : FlagOf(Columns[i]) = f /\ r.sym[Columns[i]] \in Extended(t, Columns[i])
  BY DEF HasReason
<1>2. q.sym[Columns[i]] \in Extended(u, Columns[i])
  BY <1>1, ExtendedStays
<1> QED BY <1>1, <1>2 DEF HasReason

\* A new row has no flag, and the reasons of the others stay.
LEMMA InsertSound ==
  ASSUME NEW t, \A r \in t : IsRow(r), FlagsSound(t), NEW s
  PROVE  FlagsSound(InsertSymbol(t, s))
<1> DEFINE u == InsertSymbol(t, s)
<1>1. PICK new : u = t \cup {new} /\ new.more = {}
  BY InsertRow
<1>2. GrownFrom(t, u)
  BY InsertGrows
<1> HIDE DEF u
<1>3. \A r \in t : \A f \in r.more : HasReason(t, r, f)
  BY DEF FlagsSound, HasReason
<1>4. ASSUME NEW r \in u, NEW f \in r.more PROVE HasReason(u, r, f)
  <2>1. r \in t
    BY <1>1, <1>4
  <2> QED BY <1>2, <1>3, <2>1, ReasonStays
<1> QED BY <1>4 DEF FlagsSound, HasReason, u

LEMMA MarkSound ==
  ASSUME NEW t, \A r \in t : IsRow(r), FlagsSound(t), NEW i \in DOMAIN Columns,
         NEW S \in SUBSET Extended(t, Columns[i])
  PROVE  FlagsSound(MarkTexts(t, Columns[i], S))
<1> DEFINE column == Columns[i]
           u == MarkTexts(t, column, S)
<1>1. GrownFrom(t, u) /\ \A m \in u : \E r \in t : MarkOf(m, r, column, S)
  BY MarkGrows, MarkedRows
<1>2. \A r \in t : \A f \in r.more : HasReason(t, r, f)
  BY DEF FlagsSound, HasReason
<1> HIDE DEF u
<1>3. ASSUME NEW m \in u, NEW f \in m.more PROVE HasReason(u, m, f)
  <2>1. PICK r \in t : MarkOf(m, r, column, S)
    BY <1>1
  <2>2. HasReason(t, r, f)
    <3>1. CASE f \in r.more
      BY <1>2, <3>1
    <3>2. CASE f \notin r.more
      <4>1. r.sym[column] \in S /\ f = FlagOf(column)
        BY <2>1, <3>2 DEF MarkOf
      <4> QED BY <4>1 DEF HasReason
    <3> QED BY <3>1, <3>2
  <2>3. m.sym = r.sym
    BY <2>1 DEF MarkOf
  <2> QED BY <1>1, <2>2, <2>3, ReasonStays
<1>4. FlagsSound(u)
  BY <1>3 DEF FlagsSound, HasReason
<1> QED BY <1>4 DEF u
=============================================================================
