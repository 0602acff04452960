-------------------------- MODULE Tokenizer_proofs --------------------------
(***************************************************************************)
(* Theorems about the tokenizer and its caches, for any symbol tables,     *)
(* texts and cache sizes.                                                  *)
(*                                                                         *)
(* TypeInv is TypeOK strengthened: cached keys are well formed, and what   *)
(* is held is a piece of the text that begins where the scan stands.  On   *)
(* it rest, each with an invariant of its own,                             *)
(*   Cover     the pieces of a result, joined, are the text so far;        *)
(*   Match     tokens in the caches, in the scan and in the result are     *)
(*             rows that the lookup of their piece asks for;               *)
(*   Alive     the cache entry of a segment is no older than the lookups   *)
(*             of the call, of which there are fewer than entries;         *)
(*   FreshInv  the caches answer what the statements would, and no piece   *)
(*             between what is held and what was tried has tokens.         *)
(***************************************************************************)
EXTENDS Tokenizer, SymbolsDb_proofs

-----------------------------------------------------------------------------
(* The caches.                                                             *)

KeysDiffer(cache) == \A i, j \in DOMAIN cache : cache[i].key = cache[j].key => i = j

\* Every entry of d is one of c, at most one place nearer to the old end, but for the
\* last, which is the one for key.
Touched(c, d, key) ==
  /\ d # <<>> /\ d[Len(d)].key = key
  /\ \A i \in DOMAIN d :
       i # Len(d) => \E j \in DOMAIN c : d[i] = c[j] /\ Len(d) - i <= Len(c) - j + 1

\* Entry is what was cached for the key.
LEMMA CachedEntry ==
  ASSUME NEW c, NEW key, Cached(c, key)
  PROVE  /\ PositionOf(c, key) \in DOMAIN c
         /\ Entry(c, key) = c[PositionOf(c, key)]
         /\ Entry(c, key).key = key
  BY DEF Cached, PositionOf, Entry

\* A sequence without its k-th element.
LEMMA Removed ==
  ASSUME NEW E, NEW c \in Seq(E), NEW k \in DOMAIN c
  PROVE  LET rest == RemoveAt(c, k) IN
         /\ rest \in Seq(E)
         /\ Len(rest) = Len(c) - 1
         /\ \A i \in 1..(Len(c) - 1) : rest[i] = IF i < k THEN c[i] ELSE c[i + 1]
<1> DEFINE n == Len(c)
           left == SubSeq(c, 1, k - 1)
           right == SubSeq(c, k + 1, n)
<1>1. n \in Nat /\ k \in 1..n /\ DOMAIN c = 1..n /\ \A i \in 1..n : c[i] \in E
  BY LenProperties, ElementOfSeq
<1> HIDE DEF n
<1>2. left \in Seq(E) /\ Len(left) = k - 1 /\ \A i \in 1..(k - 1) : left[i] = c[i]
  <2>1. /\ left \in Seq(E) /\ Len(left) = IF 1 <= k - 1 THEN k - 1 - 1 + 1 ELSE 0
        /\ \A i \in 1..(k - 1 - 1 + 1) : left[i] = c[1 + i - 1]
    <3>1. 1 \in Int /\ k - 1 \in Int /\ \A i \in 1..(k - 1) : c[i] \in E
      BY <1>1
    <3> QED BY <3>1, SubSeqProperties
  <2> HIDE DEF left
  <2> QED BY <2>1, <1>1
<1>3. right \in Seq(E) /\ Len(right) = n - k /\ \A i \in 1..(n - k) : right[i] = c[k + i]
  <2>1. /\ right \in Seq(E) /\ Len(right) = IF k + 1 <= n THEN n - (k + 1) + 1 ELSE 0
        /\ \A i \in 1..(n - (k + 1) + 1) : right[i] = c[k + 1 + i - 1]
    <3>1. k + 1 \in Int /\ n \in Int /\ \A i \in (k + 1)..n : c[i] \in E
      BY <1>1
    <3> QED BY <3>1, SubSeqProperties
  <2> HIDE DEF right
  <2>2. \A i \in 1..(n - k) : k + 1 + i - 1 = k + i /\ i \in 1..(n - (k + 1) + 1)
    BY <1>1
  <2> QED BY <2>1, <2>2, <1>1
<1> HIDE DEF left, right
<1>4. /\ left \o right \in Seq(E) /\ Len(left \o right) = Len(left) + Len(right)
      /\ \A i \in 1..(Len(left) + Len(right)) :
           (left \o right)[i] = IF i <= Len(left) THEN left[i] ELSE right[i - Len(left)]
  BY <1>2, <1>3, ConcatProperties
<1>5. RemoveAt(c, k) = left \o right
  BY DEF RemoveAt, left, right, n
<1> DEFINE rest == left \o right
<1>6. rest \in Seq(E) /\ Len(rest) = n - 1
  BY <1>4, <1>2, <1>3, <1>1
<1>7. ASSUME NEW i \in 1..(n - 1)
      PROVE  rest[i] = IF i < k THEN c[i] ELSE c[i + 1]
  <2>1. rest[i] = IF i <= k - 1 THEN left[i] ELSE right[i - (k - 1)]
    BY <1>4, <1>2, <1>3, <1>1
  <2>2. CASE i < k
    <3>1. i \in 1..(k - 1) /\ i <= k - 1
      BY <2>2, <1>1
    <3> QED BY <2>1, <3>1, <1>2, <2>2
  <2>3. CASE ~(i < k)
    <3>1. i - (k - 1) \in 1..(n - k) /\ k + (i - (k - 1)) = i + 1 /\ ~(i <= k - 1)
      BY <2>3, <1>1
    <3> QED BY <2>1, <3>1, <1>3, <2>3
  <2> QED BY <2>2, <2>3
<1> HIDE DEF rest
<1> QED BY <1>5, <1>6, <1>7 DEF rest, n

\* lru_find_in_cache moves the entry to the end and keeps all.
LEMMA FoundInCache ==
  ASSUME NEW E, NEW c \in Seq(E), NEW key, Cached(c, key)
  PROVE  LET d == FindInCache(c, key) IN
         /\ d \in Seq(E) /\ Len(d) = Len(c)
         /\ \A i \in DOMAIN d : \E j \in DOMAIN c : d[i] = c[j]
         /\ Touched(c, d, key)
         /\ KeysDiffer(c) => KeysDiffer(d)
<1> DEFINE k == PositionOf(c, key)
           n == Len(c)
           rest == RemoveAt(c, k)
           d == FindInCache(c, key)
<1>1. k \in DOMAIN c /\ c[k].key = key
  BY CachedEntry
<1>2. n \in Nat /\ k \in 1..n /\ DOMAIN c = 1..n /\ c[k] \in E
  BY <1>1, LenProperties, ElementOfSeq
<1> HIDE DEF k
<1>3. /\ rest \in Seq(E) /\ Len(rest) = n - 1
      /\ \A i \in 1..(n - 1) : rest[i] = IF i < k THEN c[i] ELSE c[i + 1]
  BY <1>1, Removed
<1>4. d = Append(rest, c[k])
  BY DEF FindInCache, Entry, k
<1> HIDE DEF rest, d
<1>5. /\ d \in Seq(E) /\ Len(d) = n /\ d[n] = c[k] /\ d # <<>>
      /\ \A i \in 1..(n - 1) : d[i] = IF i < k THEN c[i] ELSE c[i + 1]
  <2>1. /\ d \in Seq(E) /\ d # <<>> /\ Len(d) = Len(rest) + 1
        /\ \A i \in 1..Len(rest) : d[i] = rest[i]
        /\ d[Len(rest) + 1] = c[k]
    <3> DEFINE x == c[k]
    <3>1. rest \in Seq(E) /\ x \in E /\ d = Append(rest, x)
      BY <1>2, <1>3, <1>4
    <3> HIDE DEF x
    <3>2. /\ d \in Seq(E) /\ d # <<>> /\ Len(d) = Len(rest) + 1
          /\ \A i \in 1..Len(rest) : d[i] = rest[i]
          /\ d[Len(rest) + 1] = x
      BY <3>1, AppendProperties
    <3> QED BY <3>2 DEF x
  <2>2. Len(rest) + 1 = n
    BY <1>2, <1>3
  <2> QED BY <2>1, <2>2, <1>3
<1>6. DOMAIN d = 1..n
  BY <1>5, LenProperties
<1> HIDE DEF n
<1>7. ASSUME NEW i \in 1..n, i # n
      PROVE  \E j \in 1..n : d[i] = c[j] /\ n - i <= n - j + 1 /\ j # k
  <2>1. CASE i < k
    <3>1. d[i] = c[i] /\ n - i <= n - i + 1
      BY <2>1, <1>5, <1>7, <1>2
    <3> QED BY <3>1, <2>1
  <2>2. CASE ~(i < k)
    <3>1. d[i] = c[i + 1] /\ i + 1 \in 1..n /\ n - i <= n - (i + 1) + 1 /\ i + 1 # k
      BY <2>2, <1>5, <1>7, <1>2
    <3> QED BY <3>1
  <2> QED BY <2>1, <2>2
<1>8. \A i \in DOMAIN d : \E j \in DOMAIN c : d[i] = c[j]
  BY <1>2, <1>5, <1>6, <1>7
<1>9. Touched(c, d, key)
  <2>1. Len(d) = n /\ Len(c) = n
    BY <1>5 DEF n
  <2> QED BY <2>1, <1>1, <1>2, <1>5, <1>6, <1>7 DEF Touched
<1>10. ASSUME KeysDiffer(c), NEW i \in 1..n, NEW j \in 1..n, d[i].key = d[j].key
       PROVE  i = j
  <2> DEFINE source(x) == IF x = n THEN k ELSE IF x < k THEN x ELSE x + 1
  <2>1. \A x \in 1..n : source(x) \in 1..n /\ d[x] = c[source(x)]
    BY <1>2, <1>5
  <2>2. \A x \in 1..n : \A y \in 1..n : source(x) = source(y) => x = y
    BY <1>2
  <2> HIDE DEF source
  <2>3. c[source(i)].key = c[source(j)].key /\ source(i) \in DOMAIN c /\ source(j) \in DOMAIN c
    BY <2>1, <1>10, <1>2
  <2>4. source(i) = source(j)
    BY <2>3, <1>10 DEF KeysDiffer
  <2> QED BY <2>2, <2>4
<1> QED BY <1>5, <1>6, <1>8, <1>9, <1>10 DEF d, n, KeysDiffer

\* lru_add_to_cache appends the entry; when there is no room the oldest goes.
LEMMA AddedToCache ==
  ASSUME NEW E, NEW c \in Seq(E), NEW key, NEW value, [key |-> key, value |-> value] \in E,
         Len(c) < CacheSize
  PROVE  LET d == AddToCache(c, key, value) IN
         /\ d \in Seq(E) /\ Len(d) < CacheSize
         /\ \A i \in DOMAIN d :
              d[i] = [key |-> key, value |-> value] \/ \E j \in DOMAIN c : d[i] = c[j]
         /\ Touched(c, d, key)
         /\ KeysDiffer(c) /\ ~Cached(c, key) => KeysDiffer(d)
         /\ Evicts(c) => Len(c) + 1 >= CacheSize /\ (c # <<>> => Head(c) = c[1])
<1> DEFINE new == [key |-> key, value |-> value]
           n == Len(c)
           more == Append(c, new)
           d == AddToCache(c, key, value)
<1>0. CacheSize \in Nat /\ CacheSize > 1
  BY TokenizerAssumption
<1>1. n \in Nat /\ DOMAIN c = 1..n /\ new.key = key
  BY LenProperties
<1> HIDE DEF new
<1>2. /\ more \in Seq(E) /\ Len(more) = n + 1 /\ more # <<>>
      /\ \A i \in 1..n : more[i] = c[i]
      /\ more[n + 1] = new
  BY AppendProperties DEF new
<1>3. d = IF n + 1 >= CacheSize THEN Tail(more) ELSE more
  BY <1>2 DEF AddToCache, new
<1> DEFINE m == IF n + 1 >= CacheSize THEN n ELSE n + 1
           shift == IF n + 1 >= CacheSize THEN 1 ELSE 0
<1> HIDE DEF more, d
<1>4. /\ d \in Seq(E) /\ Len(d) = m
      /\ \A i \in 1..m : d[i] = more[i + shift]
  <2>1. CASE n + 1 >= CacheSize
    <3>1. /\ d \in Seq(E) /\ Len(d) = n + 1 - 1 /\ \A i \in 1..Len(d) : d[i] = more[i + 1]
      BY <2>1, <1>2, <1>3, HeadTailProperties
    <3> QED BY <3>1, <2>1, <1>1
  <2>2. CASE ~(n + 1 >= CacheSize)
    <3>1. \A i \in 1..(n + 1) : i + 0 = i
      OBVIOUS
    <3> QED BY <2>2, <1>2, <1>3, <3>1
  <2> QED BY <2>1, <2>2
<1>5. m \in Nat /\ m >= 1 /\ m < CacheSize /\ m + shift = n + 1 /\ shift \in 0..1
  <2>1. n < CacheSize
    BY DEF n
  <2> HIDE DEF n
  <2> QED BY <2>1, <1>0, <1>1
<1>6. DOMAIN d = 1..m
  BY <1>4, LenProperties
<1> HIDE DEF n, m, shift
<1>7. d[m] = new /\ d # <<>>
  <2>1. m \in 1..m
    BY <1>5
  <2>2. d # <<>>
    BY <1>4, <1>5
  <2> QED BY <2>1, <2>2, <1>2, <1>4, <1>5
<1>8. ASSUME NEW i \in 1..m, i # m
      PROVE  i + shift \in 1..n /\ d[i] = c[i + shift] /\ m - i <= n - (i + shift) + 1
  <2>1. i + shift \in 1..n /\ m - i <= n - (i + shift) + 1
    BY <1>1, <1>5, <1>8
  <2> QED BY <2>1, <1>2, <1>4
<1>9. \A i \in DOMAIN d : d[i] = new \/ \E j \in DOMAIN c : d[i] = c[j]
  BY <1>1, <1>6, <1>7, <1>8
<1>10. Touched(c, d, key)
  <2>1. Len(d) = m /\ Len(c) = n
    BY <1>4 DEF n
  <2> QED BY <2>1, <1>1, <1>6, <1>7, <1>8 DEF Touched
<1>11. ASSUME KeysDiffer(c), ~Cached(c, key), NEW i \in 1..m, NEW j \in 1..m, d[i].key = d[j].key
       PROVE  i = j
  <2>1. \A x \in 1..n : c[x].key # key
    BY <1>11, <1>1 DEF Cached
  <2>2. CASE i # m /\ j # m
    <3>1. i + shift = j + shift
      BY <2>2, <1>8, <1>11, <1>1 DEF KeysDiffer
    <3> QED BY <3>1, <1>5
  <2>3. CASE i = m /\ j # m
    BY <2>3, <2>1, <1>7, <1>8, <1>11, <1>1
  <2>4. CASE i # m /\ j = m
    BY <2>4, <2>1, <1>7, <1>8, <1>11, <1>1
  <2> QED BY <2>2, <2>3, <2>4
<1>12. Evicts(c) => n + 1 >= CacheSize /\ (c # <<>> => Head(c) = c[1])
  BY DEF Evicts, n
<1> QED BY <1>4, <1>5, <1>6, <1>9, <1>10, <1>11, <1>12 DEF d, new, n, KeysDiffer

-----------------------------------------------------------------------------
(* The tokens of a piece.                                                  *)

\* The row is one that a lookup of text asks for.
Asks(r, text, using, match) ==
  IF using = "pattern" THEN r.sym.pattern = text /\ r.sym.match = "exact"
  ELSE text \in {r.sym.value1, r.sym.value2} /\ (match = "exact" => r.sym.match = "exact")

\* x is the token made of a row that the lookup asks for: it may have its pattern in
\* lower case.
TokenOf(t, x, text, using, match) ==
  \E r \in t :
    /\ r.id = x.id /\ r.more = x.more /\ r.sym.match = x.sym.match
    /\ using = "pattern" => r.sym = x.sym
    /\ Asks(r, text, using, match)

ById == {p \in SymbolRow \X SymbolRow : p[1].id < p[2].id}

ByPriority ==
  {p \in SymbolRow \X SymbolRow :
     \/ p[1].sym.priority > p[2].sym.priority
     \/ p[1].sym.priority = p[2].sym.priority /\ p[1].id < p[2].id}

LEMMA IdOrders ==
  ASSUME NEW S \in SUBSET SymbolRow, \A r, q \in S : r.id = q.id => r = q
  PROVE  Orders(ById, S)
<1>1. \A r, q \in S : <<r, q>> \in ById <=> r.id < q.id
  BY DEF ById
<1>2. \A r \in S : r.id \in Nat
  BY RowFields
<1> QED BY <1>1, <1>2 DEF Orders

LEMMA PriorityOrders ==
  ASSUME NEW S \in SUBSET SymbolRow, \A r, q \in S : r.id = q.id => r = q
  PROVE  Orders(ByPriority, S)
<1> DEFINE prio(r) == r.sym.priority
           id(r) == r.id
<1>1. \A r, q \in S : <<r, q>> \in ByPriority <=>
        prio(r) > prio(q) \/ (prio(r) = prio(q) /\ id(r) < id(q))
  BY DEF ByPriority
<1>2. \A r \in S : prio(r) \in Int /\ id(r) \in Nat
  BY RowFields, TokenFields
<1>3. \A r, q \in S : id(r) = id(q) => r = q
  OBVIOUS
<1> HIDE DEF prio, id
<1>4. \A r \in S : <<r, r>> \notin ByPriority
  BY <1>1, <1>2
<1>5. \A r, q \in S : r # q => <<r, q>> \in ByPriority \/ <<q, r>> \in ByPriority
  BY <1>1, <1>2, <1>3
<1>6. ASSUME NEW r \in S, NEW q \in S, NEW p \in S, <<r, q>> \in ByPriority, <<q, p>> \in ByPriority
      PROVE  <<r, p>> \in ByPriority
  BY <1>1, <1>2, <1>6
<1> QED BY <1>4, <1>5, <1>6 DEF Orders

\* The statements give each row they ask for in its place.
LEMMA MatchesInOrder ==
  ASSUME NEW t \in SUBSET SymbolRow, NEW text, NEW using, NEW match,
         Grouped(ByValue(t, text, match)) \in SUBSET SymbolRow
  PROVE  \/ /\ using = "pattern"
            /\ InOrder({r \in t : r.sym.pattern = text /\ r.sym.match = "exact"}, ById,
                       Matches(t, text, using, match))
         \/ /\ using # "pattern"
            /\ InOrder(Grouped(ByValue(t, text, match)), ByPriority, Matches(t, text, using, match))
<1>1. CASE using = "pattern"
  <2> DEFINE S == {r \in t : r.sym.pattern = text /\ r.sym.match = "exact"}
  <2>1. \A r \in S : Smaller(ById, S, r) = {q \in S : q.id < r.id}
    BY DEF Smaller, ById
  <2>2. Matches(t, text, using, match) = Ordered(S, LAMBDA r, q : r.id < q.id)
    BY <1>1 DEF Matches
  <2> HIDE DEF S
  <2>3. Ordered(S, LAMBDA r, q : r.id < q.id)
        = [i \in 1..Cardinality(S) |->
             CHOOSE r \in S : Cardinality({q \in S : q.id < r.id}) = i - 1]
    BY DEF Ordered, Once
  <2>4. \A i \in 1..Cardinality(S) :
          (CHOOSE r \in S : Cardinality({q \in S : q.id < r.id}) = i - 1)
          = CHOOSE r \in S : Cardinality(Smaller(ById, S, r)) = i - 1
    BY <2>1
  <2> QED BY <1>1, <2>2, <2>3, <2>4 DEF InOrder, S
<1>2. CASE using # "pattern"
  <2> DEFINE S == Grouped(ByValue(t, text, match))
             P(r, q) == \/ r.sym.priority > q.sym.priority
                        \/ r.sym.priority = q.sym.priority /\ r.id < q.id
  <2>1. \A r \in S : Smaller(ByPriority, S, r) = {q \in S : P(q, r)}
    BY DEF Smaller, ByPriority
  <2>2. Matches(t, text, using, match)
        = Ordered(S, LAMBDA r, q : \/ r.sym.priority > q.sym.priority
                                   \/ r.sym.priority = q.sym.priority /\ r.id < q.id)
    BY <1>2 DEF Matches
  <2> HIDE DEF S
  <2>3. Ordered(S, LAMBDA r, q : \/ r.sym.priority > q.sym.priority
                                 \/ r.sym.priority = q.sym.priority /\ r.id < q.id)
        = [i \in 1..Cardinality(S) |->
             CHOOSE r \in S : Cardinality({q \in S : P(q, r)}) = i - 1]
    BY DEF Ordered, Once
  <2> HIDE DEF P
  <2>4. \A i \in 1..Cardinality(S) :
          (CHOOSE r \in S : Cardinality({q \in S : P(q, r)}) = i - 1)
          = CHOOSE r \in S : Cardinality(Smaller(ByPriority, S, r)) = i - 1
    BY <2>1
  <2> QED BY <1>2, <2>2, <2>3, <2>4 DEF InOrder, S
<1> QED BY <1>1, <1>2

LEMMA FoldText ==
  ASSUME NEW text \in Text
  PROVE  Fold(text) \in Text /\ Len(Fold(text)) = Len(text)
<1>1. Len(text) \in Nat /\ DOMAIN text = 1..Len(text) /\ \A i \in 1..Len(text) : text[i] \in Char
  BY LenProperties, ElementOfSeq DEF Text
<1>2. \A i \in 1..Len(text) : Lower[text[i]] \in Char
  BY <1>1, LowerAssumption
<1>3. Fold(text) \in [1..Len(text) -> Char]
  BY <1>1, <1>2 DEF Fold
<1> QED BY <1>1, <1>3 DEF Text

\* The row with its pattern in lower case.
LEMMA LowerRow ==
  ASSUME NEW r \in SymbolRow
  PROVE  LET z == [r EXCEPT !.sym.pattern = Fold(@)] IN
         /\ z \in SymbolRow
         /\ z.id = r.id /\ z.more = r.more /\ z.sym.match = r.sym.match
         /\ z.sym.value1 = r.sym.value1 /\ z.sym.value2 = r.sym.value2
<1> DEFINE z == [r EXCEPT !.sym.pattern = Fold(@)]
           s == r.sym
           p == Fold(s.pattern)
<1>1. IsRow(r) /\ s \in TokenWith(Text) /\ IsToken(s)
  BY RowFields, TokenFields
<1>2. p \in Text
  BY <1>1, TokenFields, FoldText
<1>3. z = [r EXCEPT !.sym = [s EXCEPT !.pattern = p]]
  OBVIOUS
<1> HIDE DEF p, z
<1> DEFINE y == [s EXCEPT !.pattern = p]
<1>4. /\ y = [type |-> s.type, match |-> s.match, pattern |-> p, value1 |-> s.value1,
              value2 |-> s.value2, priority |-> s.priority]
  BY <1>1 DEF IsToken
<1> HIDE DEF y, s
<1>5. y \in TokenWith(Text) /\ y.match = s.match /\ y.value1 = s.value1 /\ y.value2 = s.value2
  BY <1>1, <1>2, <1>4, TokenFields DEF TokenWith
<1>6. z = [id |-> r.id, sym |-> y, more |-> r.more]
  BY <1>1, <1>3 DEF IsRow, y
<1> QED BY <1>5, <1>6, RowFields DEF z, s, SymbolRow

\* The rows of a group are rows of the table in lower case, one of each id.
LEMMA GroupedRows ==
  ASSUME NEW t, GoodTable(t), NEW text, NEW match
  PROVE  LET G == Grouped(ByValue(t, text, match)) IN
         /\ G \in SUBSET SymbolRow
         /\ \A x, y \in G : x.id = y.id => x = y
         /\ \A x \in G : TokenOf(t, x, text, "value", match)
<1> DEFINE B == ByValue(t, text, match)
           G == Grouped(B)
<1>1. B \subseteq t /\ t \subseteq SymbolRow /\ \A r \in B : Asks(r, text, "value", match)
  BY DEF ByValue, GoodTable, Asks
<1> HIDE DEF B
<1>2. ASSUME NEW x \in G
      PROVE  \E r \in B : x = [r EXCEPT !.sym.pattern = Fold(@)]
  BY DEF Grouped
<1> HIDE DEF G
<1>3. ASSUME NEW x \in G
      PROVE  x \in SymbolRow /\ TokenOf(t, x, text, "value", match)
  <2>1. PICK r \in B : x = [r EXCEPT !.sym.pattern = Fold(@)]
    BY <1>2
  <2>2. /\ x \in SymbolRow /\ x.id = r.id /\ x.more = r.more /\ x.sym.match = r.sym.match
    BY <2>1, <1>1, LowerRow
  <2> QED BY <2>2, <1>1 DEF TokenOf
<1>4. ASSUME NEW x \in G, NEW y \in G, x.id = y.id
      PROVE  x = y
  <2>1. PICK r \in B : x = [r EXCEPT !.sym.pattern = Fold(@)]
    BY <1>2
  <2>2. PICK q \in B : y = [q EXCEPT !.sym.pattern = Fold(@)]
    BY <1>2
  <2>3. x.id = r.id /\ y.id = q.id
    BY <2>1, <2>2, <1>1, LowerRow
  <2>4. r = q
    BY <2>3, <1>1, <1>4 DEF GoodTable
  <2> QED BY <2>1, <2>2, <2>4
<1> QED BY <1>3, <1>4 DEF G, B

\* The row with the least id is in its group.
LEMMA GroupedEmpty ==
  ASSUME NEW t, GoodTable(t), NEW text, NEW match
  PROVE  Grouped(ByValue(t, text, match)) = {} <=> ~\E r \in t : Asks(r, text, "value", match)
<1> DEFINE B == ByValue(t, text, match)
<1>1. B = {} <=> ~\E r \in t : Asks(r, text, "value", match)
  BY DEF ByValue, Asks
<1>2. B \subseteq t /\ t \subseteq SymbolRow
  BY DEF ByValue, GoodTable
<1> HIDE DEF B
<1>3. ASSUME B # {}
      PROVE  Grouped(B) # {}
  <2> DEFINE S == {r.id : r \in B}
  <2>1. S \in SUBSET Nat /\ S # {}
    BY <1>2, <1>3, RowFields
  <2> HIDE DEF S
  <2>2. PICK m \in S : \A n \in S : m <= n
    BY <2>1, LeastNumber
  <2>3. PICK r \in B : m = r.id
    BY DEF S
  <2>4. \A q \in B : r.id <= q.id
    BY <2>2, <2>3 DEF S
  <2> QED BY <2>4 DEF Grouped
<1>4. ASSUME B = {}
      PROVE  Grouped(B) = {}
  BY <1>4 DEF Grouped
<1> QED BY <1>1, <1>3, <1>4 DEF B

\* The tokens of a piece are made of the rows that the lookup asks for, and there are
\* some when there are such rows.
LEMMA MatchesAsked ==
  ASSUME NEW t, GoodTable(t), NEW text, NEW using \in {"pattern", "value"}, NEW match
  PROVE  LET q == Matches(t, text, using, match) IN
         /\ q \in Seq(SymbolRow)
         /\ \A i \in DOMAIN q : TokenOf(t, q[i], text, using, match)
         /\ q = <<>> <=> ~\E r \in t : Asks(r, text, using, match)
<1> DEFINE q == Matches(t, text, using, match)
           G == Grouped(ByValue(t, text, match))
           S == {r \in t : r.sym.pattern = text /\ r.sym.match = "exact"}
<1>1. t \in SUBSET SymbolRow /\ IsFiniteSet(t) /\ \A x, y \in t : x.id = y.id => x = y
  BY TableIsFinite DEF GoodTable
<1>2. /\ G \in SUBSET SymbolRow /\ \A x, y \in G : x.id = y.id => x = y
      /\ \A x \in G : TokenOf(t, x, text, "value", match)
  BY GroupedRows
<1>3. \/ using = "pattern" /\ InOrder(S, ById, q)
      \/ using = "value" /\ InOrder(G, ByPriority, q)
  BY <1>1, <1>2, MatchesInOrder
<1>4. IsFiniteSet(G)
  <2>1. IsFiniteSet(ByValue(t, text, match))
    <3>1. ByValue(t, text, match) \in SUBSET t
      BY DEF ByValue
    <3> QED BY <3>1, <1>1, FS_Subset
  <2> DEFINE B == ByValue(t, text, match)
  <2>2. G \in SUBSET {[r EXCEPT !.sym.pattern = Fold(@)] : r \in B}
    BY DEF Grouped
  <2> HIDE DEF B, G
  <2>3. IsFiniteSet({[r EXCEPT !.sym.pattern = Fold(@)] : r \in B})
    <3> DEFINE f == [r \in B |-> [r EXCEPT !.sym.pattern = Fold(@)]]
               T == {[r EXCEPT !.sym.pattern = Fold(@)] : r \in B}
    <3>1. f \in Surjection(B, T)
      BY DEF Surjection
    <3> HIDE DEF f, T
    <3>2. IsFiniteSet(T)
      BY <3>1, <2>1, FS_Surjection DEF B
    <3> QED BY <3>2 DEF T
  <2> QED BY <2>2, <2>3, FS_Subset
<1>5. CASE using = "pattern"
  <2>1. S \in SUBSET t
    OBVIOUS
  <2>2. \A r \in S : TokenOf(t, r, text, using, match)
    BY <1>5 DEF TokenOf, Asks
  <2>3. S = {} <=> ~\E r \in t : Asks(r, text, using, match)
    BY <1>5 DEF Asks
  <2> HIDE DEF S, q, G
  <2>4. IsFiniteSet(S) /\ S \subseteq SymbolRow
    BY <2>1, <1>1, FS_Subset
  <2>5. Orders(ById, S)
    BY <2>1, <2>4, <1>1, IdOrders
  <2>6. InOrder(S, ById, q)
    BY <1>3, <1>5
  <2>7. q \in Seq(SymbolRow) /\ (\A i \in DOMAIN q : q[i] \in S) /\ (q = <<>> <=> S = {})
    BY <2>4, <2>5, <2>6, OrderedElements
  <2> QED BY <2>2, <2>3, <2>7 DEF q
<1>6. CASE using = "value"
  <2>1. G = {} <=> ~\E r \in t : Asks(r, text, using, match)
    BY <1>6, GroupedEmpty
  <2> HIDE DEF S, q, G
  <2>2. Orders(ByPriority, G)
    BY <1>2, PriorityOrders
  <2>3. InOrder(G, ByPriority, q)
    BY <1>3, <1>6
  <2>4. q \in Seq(SymbolRow) /\ (\A i \in DOMAIN q : q[i] \in G) /\ (q = <<>> <=> G = {})
    BY <1>2, <1>4, <2>2, <2>3, OrderedElements
  <2> QED BY <2>1, <2>4, <1>2, <1>6 DEF q
<1> QED BY <1>5, <1>6

-----------------------------------------------------------------------------
(* The table.                                                              *)

\* Rows that have the flag already are not changed.
LEMMA MarkNothing ==
  ASSUME NEW t, \A r \in t : IsRow(r), NEW column, NEW S,
         \A r \in t : r.sym[column] \in S => FlagOf(column) \in r.more
  PROVE  MarkTexts(t, column, S) = t
<1> DEFINE u == MarkTexts(t, column, S)
<1>1. /\ \A m \in u : \E r \in t : MarkOf(m, r, column, S)
      /\ \A r \in t : \E m \in u : MarkOf(m, r, column, S)
  BY MarkedRows
<1> HIDE DEF u
<1>2. ASSUME NEW r \in t, NEW m \in u, MarkOf(m, r, column, S)
      PROVE  m = r
  <2>1. m.more = r.more
    BY <1>2 DEF MarkOf
  <2>2. m = [id |-> m.id, sym |-> m.sym, more |-> m.more] /\ r = [id |-> r.id, sym |-> r.sym, more |-> r.more]
    BY <1>2 DEF MarkOf, IsRow
  <2>3. m.id = r.id /\ m.sym = r.sym
    BY <1>2 DEF MarkOf
  <2> QED BY <2>1, <2>2, <2>3
<1> QED BY <1>1, <1>2 DEF u

\* The prefix tree has all flags, and making it again changes nothing.
LEMMA FlagsAdded ==
  ASSUME NEW t, GoodTable(t)
  PROVE  LET u == WithFlags(t) IN
         /\ GoodTable(u) /\ GrownFrom(t, u)
         /\ FlagsComplete(u)
         /\ FlagsComplete(t) => u = t
<1> DEFINE P == Extended(t, "pattern")
           V == Extended(t, "value1")
           W == Extended(t, "value2")
           a == MarkTexts(t, "pattern", P)
           b == MarkTexts(a, "value1", V)
           u == MarkTexts(b, "value2", W)
<1>1. WithFlags(t) = u
  BY DEF WithFlags
<1>2. /\ GoodTable(a) /\ \A r \in t : IsRow(r)
      /\ \A r \in a : \E q \in t : MarkOf(r, q, "pattern", P)
  BY MarkGood, MarkedRows, RowFields DEF GoodTable
<1>3. GrownFrom(t, a) /\ \A c : Extended(a, c) = Extended(t, c)
  BY <1>2, MarkGrows, ExtendedMarked
<1> HIDE DEF a
<1>4. /\ GoodTable(b) /\ \A r \in a : IsRow(r)
      /\ \A r \in b : \E q \in a : MarkOf(r, q, "value1", V)
  BY <1>2, MarkGood, MarkedRows, RowFields DEF GoodTable
<1>5. GrownFrom(a, b) /\ \A c : Extended(b, c) = Extended(t, c)
  BY <1>3, <1>4, MarkGrows, ExtendedMarked
<1> HIDE DEF b
<1>6. /\ GoodTable(u) /\ \A r \in b : IsRow(r)
      /\ \A r \in u : \E q \in b : MarkOf(r, q, "value2", W)
  BY <1>4, MarkGood, MarkedRows, RowFields DEF GoodTable
<1>7. GrownFrom(b, u) /\ \A c : Extended(u, c) = Extended(t, c)
  BY <1>5, <1>6, MarkGrows, ExtendedMarked
<1> HIDE DEF u
<1>8. GrownFrom(t, u)
  BY <1>3, <1>5, <1>7, TableGrownTransitive
<1>9. ASSUME NEW r \in u, NEW i \in DOMAIN Columns, r.sym[Columns[i]] \in Extended(u, Columns[i])
      PROVE  FlagOf(Columns[i]) \in r.more
  <2>1. PICK q \in b : MarkOf(r, q, "value2", W)
    BY <1>6
  <2>2. PICK p \in a : MarkOf(q, p, "value1", V)
    BY <1>4
  <2>3. PICK o \in t : MarkOf(p, o, "pattern", P)
    BY <1>2
  <2>4. r.sym = o.sym /\ q.sym = o.sym /\ p.sym = o.sym
    BY <2>1, <2>2, <2>3 DEF MarkOf
  <2>5. p.more \subseteq q.more /\ q.more \subseteq r.more
    BY <2>1, <2>2 DEF MarkOf
  <2>6. r.sym[Columns[i]] \in Extended(t, Columns[i])
    BY <1>7, <1>9
  <2>7. Columns[i] \in {"pattern", "value1", "value2"}
    BY DEF Columns
  <2> DEFINE c == Columns[i]
  <2> HIDE DEF c, P, V, W
  <2>8. c \in {"pattern", "value1", "value2"} /\ o.sym[c] \in Extended(t, c)
    BY <2>4, <2>6, <2>7 DEF c
  <2>9. CASE c = "pattern"
    <3>1. FlagOf("pattern") \in p.more
      BY <2>3, <2>8, <2>9 DEF MarkOf, P
    <3> QED BY <3>1, <2>5, <2>9 DEF c
  <2>10. CASE c = "value1"
    <3>1. FlagOf("value1") \in q.more
      BY <2>2, <2>4, <2>8, <2>10 DEF MarkOf, V
    <3> QED BY <3>1, <2>5, <2>10 DEF c
  <2>11. CASE c = "value2"
    <3>1. FlagOf("value2") \in r.more
      BY <2>1, <2>4, <2>8, <2>11 DEF MarkOf, W
    <3> QED BY <3>1, <2>11 DEF c
  <2> QED BY <2>8, <2>9, <2>10, <2>11
<1>10. ASSUME FlagsComplete(t)
       PROVE  u = t
  <2>1. \A c \in {"pattern", "value1", "value2"} : \A r \in t : r.sym[c] \in Extended(t, c) => FlagOf(c) \in r.more
    <3>1. ASSUME NEW i \in DOMAIN Columns, NEW r \in t, r.sym[Columns[i]] \in Extended(t, Columns[i])
          PROVE  FlagOf(Columns[i]) \in r.more
      BY <1>10, <3>1 DEF FlagsComplete
    <3>2. /\ 1 \in DOMAIN Columns /\ 2 \in DOMAIN Columns /\ 3 \in DOMAIN Columns
          /\ Columns[1] = "pattern" /\ Columns[2] = "value1" /\ Columns[3] = "value2"
      BY DEF Columns
    <3> HIDE DEF P, V, W
    <3> QED BY <3>1, <3>2
  <2>2. a = t
    BY <2>1, <1>2, MarkNothing DEF a
  <2>3. b = t
    BY <2>1, <2>2, <1>2, MarkNothing DEF b
  <2> QED BY <2>1, <2>3, <1>2, MarkNothing DEF u
<1> QED BY <1>1, <1>6, <1>8, <1>9, <1>10 DEF FlagsComplete

\* The tables there are to begin with.
LEMMA TableOfGood ==
  ASSUME NEW tokens \in Seq(Token)
  PROVE  GoodTable(TableOf(tokens)) /\ FlagsComplete(TableOf(tokens))
<1> DEFINE n == Len(tokens)
           stored(i) == [tokens[i] EXCEPT !.value2 = Value2Of(tokens[i])]
           row(i) == [id |-> i, sym |-> stored(i), more |-> {}]
           t == {row(i) : i \in DOMAIN tokens}
<1>1. n \in Nat /\ DOMAIN tokens = 1..n /\ \A i \in 1..n : tokens[i] \in Token
  BY LenProperties, ElementOfSeq
<1>2. ASSUME NEW i \in 1..n PROVE stored(i) \in TokenWith(Text)
  <2>1. tokens[i] \in Token /\ IsToken(tokens[i])
    BY <1>1, TokenFields DEF Token
  <2> QED BY <2>1, StoredToken
<1> HIDE DEF stored, n
<1>3. \A i \in 1..n : row(i).id = i /\ row(i) \in SymbolRow
  BY <1>2 DEF SymbolRow, Flags
<1> HIDE DEF row
<1>4. /\ t \subseteq SymbolRow
      /\ \A r \in t : r.id <= n
      /\ \A r, q \in t : r.id = q.id => r = q
  BY <1>1, <1>3
<1>5. TableOf(tokens) = WithFlags(t)
  BY DEF TableOf, row, stored
<1> HIDE DEF t
<1>6. GoodTable(t)
  BY <1>1, <1>4 DEF GoodTable, TableBounded
<1> QED BY <1>5, <1>6, FlagsAdded

\* A table only grows, and it keeps its flags until a symbol is created.
LEMMA TableGrows ==
  ASSUME GoodTable(table), (\E s \in NewSymbols : CreateSymbol(s)) \/ MakePrefixTree
  PROVE  /\ GoodTable(table') /\ GrownFrom(table, table')
         /\ UNCHANGED <<caches, scan, result, requests, faults>>
         /\ \/ changes < MaxChanges /\ changes' = changes + 1
            \/ changes' = changes /\ (FlagsComplete(table) => table' = table)
<1>1. ASSUME NEW s \in NewSymbols, CreateSymbol(s)
      PROVE  /\ GoodTable(table') /\ GrownFrom(table, table')
             /\ UNCHANGED <<caches, scan, result, requests, faults>>
             /\ changes < MaxChanges /\ changes' = changes + 1
  <2>1. s \in Token
    BY TokenizerAssumption
  <2> DEFINE t == InsertSymbol(table, s)
  <2>2. GoodTable(t)
    BY <2>1, InsertGood
  <2>3. GrownFrom(table, t)
    BY InsertGrows, RowFields DEF GoodTable
  <2>4. table' = t \/ table' = WithFlags(t)
    BY <1>1 DEF CreateSymbol
  <2>5. UNCHANGED <<caches, scan, result, requests, faults>> /\ changes < MaxChanges /\ changes' = changes + 1
    BY <1>1 DEF CreateSymbol
  <2> HIDE DEF t
  <2>6. GoodTable(WithFlags(t)) /\ GrownFrom(table, WithFlags(t))
    BY <2>2, <2>3, FlagsAdded, TableGrownTransitive
  <2> QED BY <2>2, <2>3, <2>4, <2>5, <2>6
<1>2. ASSUME MakePrefixTree
      PROVE  /\ GoodTable(table') /\ GrownFrom(table, table')
             /\ UNCHANGED <<caches, scan, result, requests, faults>>
             /\ changes' = changes /\ (FlagsComplete(table) => table' = table)
  BY <1>2, FlagsAdded DEF MakePrefixTree
<1> QED BY <1>1, <1>2

-----------------------------------------------------------------------------
(* A call of vst_tokenize.                                                 *)

Keys == [text : Text, using : {"pattern", "value"}, match : {"exact", "all"}]

PossibleKeys == [text : Text, using : {"pattern", "value"}]

Found == [key : Keys, value : Seq(SymbolRow) \ {<<>>}]
Missed == [key : Keys, value : {TRUE}]
Answered == [key : PossibleKeys, value : BOOLEAN]

IsScan(s) ==
  s = [pc |-> s.pc, text |-> s.text, using |-> s.using, match |-> s.match, from |-> s.from,
       upto |-> s.upto, read |-> s.read, held |-> s.held]

\* The segment begins where the scan stands and is no longer than what was looked up.
Begins(s, x) ==
  /\ x \in Segments /\ x.at = s.from
  /\ Len(x.text) \in 1..(s.upto - s.from + 1)
  /\ x.text = SubSeq(s.text, s.from, s.from + Len(x.text) - 1)

ScanOK(s) ==
  /\ IsScan(s)
  /\ s.pc \in {"idle", "find", "probe"}
  /\ s.text \in Text /\ s.using \in {"pattern", "value"} /\ s.match \in {"exact", "all"}
  /\ s.from \in 1..(Len(s.text) + 1) /\ s.upto \in Nat
  /\ s.pc # "idle" => s.from <= s.upto /\ s.upto <= Len(s.text)
  /\ s.read \in Seq(SymbolRow)
  /\ s.held \in Seq(Segments) /\ Len(s.held) < 2
  /\ s.held # <<>> => s.pc # "idle" /\ Begins(s, s.held[1]) /\ Len(s.held[1].text) <= s.upto - s.from
  /\ s.pc = "idle" => s.read = <<>>

\* TypeOK, and what makes it inductive.
TypeInv ==
  /\ GoodTable(table)
  /\ tokensCache \in Seq(Found) /\ missCache \in Seq(Missed) /\ possibleCache \in Seq(Answered)
  /\ Len(tokensCache) < CacheSize /\ Len(missCache) < CacheSize /\ Len(possibleCache) < CacheSize
  /\ ScanOK(scan)
  /\ result \in Seq(Segments)
  /\ requests \in 0..MaxRequests /\ changes \in 0..MaxChanges /\ faults \in 0..MaxFaults

SameCall ==
  IsScan(scan') /\ scan'.text = scan.text /\ scan'.using = scan.using /\ scan'.match = scan.match

\* The scan goes on with a longer piece, or behind the segment it adds.
Longer(held, segments) ==
  /\ scan'.pc = "find" /\ scan'.from = scan.from /\ scan'.upto = scan.upto + 1
  /\ scan.upto < Len(scan.text)
  /\ scan'.held = <<held>>
  /\ result' = segments

Cut(held, segments) ==
  LET next == held.at + Len(held.text) IN
  /\ scan'.pc = IF next > Len(scan.text) THEN "idle" ELSE "find"
  /\ scan'.from = next /\ scan'.upto = next
  /\ scan'.held = <<>>
  /\ result' = Append(segments, held)

LEMMA Advanced ==
  ASSUME IsScan(scan), NEW held, NEW possible, NEW segments, Advance(scan, held, possible, segments)
  PROVE  /\ SameCall /\ scan'.read = <<>>
         /\ \/ possible /\ Longer(held, segments)
            \/ ~(possible /\ scan.upto < Len(scan.text)) /\ Cut(held, segments)
<1>1. CASE possible /\ scan.upto < Len(scan.text)
  <2>1. /\ scan' = [scan EXCEPT !.pc = "find", !.upto = @ + 1, !.held = <<held>>, !.read = <<>>]
        /\ result' = segments
    BY <1>1 DEF Advance
  <2>2. scan' = [pc |-> "find", text |-> scan.text, using |-> scan.using, match |-> scan.match,
                 from |-> scan.from, upto |-> scan.upto + 1, read |-> <<>>, held |-> <<held>>]
    BY <2>1 DEF IsScan
  <2> QED BY <1>1, <2>1, <2>2 DEF SameCall, Longer, IsScan
<1>2. CASE ~(possible /\ scan.upto < Len(scan.text))
  <2> DEFINE next == held.at + Len(held.text)
             pc == IF next > Len(scan.text) THEN "idle" ELSE "find"
  <2>1. /\ scan' = [scan EXCEPT !.pc = pc, !.from = next, !.upto = next, !.held = <<>>, !.read = <<>>]
        /\ result' = Append(segments, held)
    BY <1>2 DEF Advance, NextFrom
  <2> HIDE DEF next, pc
  <2>2. scan' = [pc |-> pc, text |-> scan.text, using |-> scan.using, match |-> scan.match,
                 from |-> next, upto |-> next, read |-> <<>>, held |-> <<>>]
    BY <2>1 DEF IsScan
  <2> QED BY <1>2, <2>1, <2>2 DEF SameCall, Cut, IsScan, next, pc
<1> QED BY <1>1, <1>2

\* A piece is text of the text.
LEMMA PieceText ==
  ASSUME ScanOK(scan), scan.pc # "idle"
  PROVE  Piece(scan) \in Text /\ Len(Piece(scan)) = scan.upto - scan.from + 1
<1>1. /\ scan.text \in Seq(Char) /\ scan.from \in Nat \ {0} /\ scan.upto \in Nat
      /\ scan.from <= scan.upto /\ scan.upto <= Len(scan.text) /\ Len(scan.text) \in Nat
  BY LenProperties DEF ScanOK, Text
<1>2. \A i \in scan.from..scan.upto : scan.text[i] \in Char
  <2>1. \A i \in scan.from..scan.upto : i \in 1..Len(scan.text)
    BY <1>1
  <2> QED BY <2>1, <1>1, ElementOfSeq
<1>3. scan.from \in Int /\ scan.upto \in Int
  BY <1>1
<1>4. /\ SubSeq(scan.text, scan.from, scan.upto) \in Seq(Char)
      /\ Len(SubSeq(scan.text, scan.from, scan.upto))
           = IF scan.from <= scan.upto THEN scan.upto - scan.from + 1 ELSE 0
  BY <1>2, <1>3, SubSeqProperties
<1> QED BY <1>1, <1>4 DEF Piece, Text

\* The segment of the piece, with the tokens found for it.
LEMMA SegmentBegins ==
  ASSUME ScanOK(scan), scan.pc # "idle", NEW tokens \in Seq(SymbolRow)
  PROVE  LET x == Segment(scan, tokens) IN
         Begins(scan, x) /\ x.text = Piece(scan) /\ x.tokens = tokens /\ x.freed = FALSE
<1> DEFINE x == Segment(scan, tokens)
<1>1. x = [at |-> scan.from, text |-> Piece(scan), tokens |-> tokens, freed |-> FALSE]
  BY DEF Segment
<1>2. /\ scan.from \in Nat \ {0} /\ scan.upto \in Nat /\ scan.from <= scan.upto
      /\ Len(scan.text) \in Nat
  BY LenProperties DEF ScanOK, Text
<1>3. Piece(scan) \in Text /\ Len(Piece(scan)) = scan.upto - scan.from + 1
  BY PieceText
<1> HIDE DEF x
<1>4. x \in Segments /\ x.at = scan.from /\ x.text = Piece(scan) /\ x.tokens = tokens /\ x.freed = FALSE
  BY <1>1, <1>2, <1>3 DEF Segments
<1>5. Len(x.text) \in 1..(scan.upto - scan.from + 1) /\ scan.from + Len(x.text) - 1 = scan.upto
  BY <1>2, <1>3, <1>4
<1> QED BY <1>4, <1>5 DEF Begins, Piece, x

LEMMA HeldBegins ==
  ASSUME ScanOK(scan), scan.pc # "idle"
  PROVE  Begins(scan, HeldOrOther(scan))
<1>1. CASE scan.held # <<>>
  BY <1>1 DEF ScanOK, HeldOrOther
<1>2. CASE scan.held = <<>>
  <2>1. <<>> \in Seq(SymbolRow)
    OBVIOUS
  <2> QED BY <1>2, <2>1, SegmentBegins DEF HeldOrOther
<1> QED BY <1>1, <1>2

\* The call stays sound as it goes on.
LEMMA AdvanceTypes ==
  ASSUME ScanOK(scan), scan.pc # "idle", NEW held, Begins(scan, held), NEW possible,
         NEW segments \in Seq(Segments), Advance(scan, held, possible, segments)
  PROVE  ScanOK(scan') /\ result' \in Seq(Segments)
<1>0. held \in Segments
  BY DEF Begins
<1>1. /\ SameCall /\ scan'.read = <<>>
      /\ Longer(held, segments) \/ Cut(held, segments)
  BY Advanced DEF ScanOK
<1>2. /\ scan.text \in Text /\ Len(scan.text) \in Nat
      /\ scan.from \in Nat \ {0} /\ scan.upto \in Nat
      /\ scan.from <= scan.upto /\ scan.upto <= Len(scan.text)
  BY LenProperties DEF ScanOK, Text
<1> DEFINE n == Len(held.text)
<1>3. n \in 1..(scan.upto - scan.from + 1) /\ held.at = scan.from
  BY DEF Begins
<1>4. IsScan(scan') /\ scan'.text \in Text /\ scan'.using \in {"pattern", "value"}
      /\ scan'.match \in {"exact", "all"} /\ scan'.read \in Seq(SymbolRow)
  BY <1>1 DEF SameCall, ScanOK
<1>5. CASE Longer(held, segments)
  <2>1. /\ scan'.pc = "find" /\ scan'.from = scan.from /\ scan'.upto = scan.upto + 1
        /\ scan.upto < Len(scan.text) /\ scan'.held = <<held>> /\ result' = segments
    BY <1>5 DEF Longer
  <2>2. scan'.from \in 1..(Len(scan'.text) + 1) /\ scan'.upto \in Nat
        /\ scan'.from <= scan'.upto /\ scan'.upto <= Len(scan'.text)
    BY <1>1, <1>2, <2>1 DEF SameCall
  <2>3. scan'.held \in Seq(Segments) /\ Len(scan'.held) < 2 /\ scan'.held[1] = held
    BY <1>0, <2>1
  <2>4. Begins(scan', held) /\ n <= scan'.upto - scan'.from
    <3>1. n \in 1..(scan'.upto - scan'.from + 1) /\ n <= scan'.upto - scan'.from
      BY <1>2, <1>3, <2>1
    <3> QED BY <3>1, <1>1, <2>1 DEF Begins, SameCall
  <2> QED BY <1>4, <2>1, <2>2, <2>3, <2>4 DEF ScanOK
<1>6. CASE Cut(held, segments)
  <2> DEFINE next == held.at + n
  <2>1. /\ scan'.pc = IF next > Len(scan.text) THEN "idle" ELSE "find"
        /\ scan'.from = next /\ scan'.upto = next
        /\ scan'.held = <<>> /\ result' = Append(segments, held)
    BY <1>6 DEF Cut
  <2>2. next \in 1..(Len(scan.text) + 1)
    <3> HIDE DEF n
    <3> QED BY <1>2, <1>3
  <2> HIDE DEF next, n
  <2>3. /\ scan'.from \in 1..(Len(scan'.text) + 1) /\ scan'.upto \in Nat
        /\ scan'.pc # "idle" => scan'.from <= scan'.upto /\ scan'.upto <= Len(scan'.text)
        /\ scan'.pc \in {"idle", "find", "probe"}
    BY <1>1, <1>2, <2>1, <2>2 DEF SameCall
  <2>4. scan'.held = <<>> /\ scan'.held \in Seq(Segments) /\ Len(scan'.held) < 2
    BY <2>1
  <2>5. result' \in Seq(Segments)
    BY <1>0, <2>1, AppendProperties
  <2> QED BY <1>1, <1>4, <2>3, <2>4, <2>5 DEF ScanOK
<1> QED BY <1>1, <1>5, <1>6

IsSegment(x) == x = [at |-> x.at, text |-> x.text, tokens |-> x.tokens, freed |-> x.freed]

LEMMA SegmentFreed ==
  ASSUME NEW x, IsSegment(x)
  PROVE  [x EXCEPT !.freed = TRUE] = [at |-> x.at, text |-> x.text, tokens |-> x.tokens, freed |-> TRUE]
<1>1. ASSUME NEW y, y = [x EXCEPT !.freed = TRUE]
      PROVE  y = [at |-> x.at, text |-> x.text, tokens |-> x.tokens, freed |-> TRUE]
  BY <1>1 DEF IsSegment
<1> QED BY <1>1

\* Marking segments as freed changes nothing else of them.
LEMMA FreedSegments ==
  ASSUME NEW segments \in Seq(Segments), NEW entry
  PROVE  LET f == Freed(segments, entry) IN
         /\ f \in Seq(Segments) /\ Len(f) = Len(segments)
         /\ \A i \in 1..Len(segments) :
              /\ f[i].at = segments[i].at /\ f[i].text = segments[i].text
              /\ f[i].tokens = segments[i].tokens
              /\ f[i] = segments[i] \/
                 entry.key = [text |-> segments[i].text, using |-> scan.using, match |-> scan.match]
<1> DEFINE n == Len(segments)
           hit(i) == entry.key = [text |-> segments[i].text, using |-> scan.using, match |-> scan.match]
           mark(i) == IF hit(i) THEN [segments[i] EXCEPT !.freed = TRUE] ELSE segments[i]
           f == Freed(segments, entry)
<1>1. n \in Nat /\ DOMAIN segments = 1..n /\ \A i \in 1..n : segments[i] \in Segments
  BY LenProperties, ElementOfSeq
<1> HIDE DEF n
<1>2. f = [i \in 1..n |-> mark(i)]
  BY <1>1 DEF Freed
<1>3. ASSUME NEW i \in 1..n
      PROVE  /\ mark(i) \in Segments /\ mark(i).at = segments[i].at /\ mark(i).text = segments[i].text
             /\ mark(i).tokens = segments[i].tokens
             /\ mark(i) = segments[i] \/ hit(i)
  <2> DEFINE x == segments[i]
  <2>0. x = [at |-> x.at, text |-> x.text, tokens |-> x.tokens, freed |-> x.freed]
    BY <1>1 DEF Segments
  <2>1. x \in Segments
    BY <1>1
  <2> HIDE DEF x, hit
  <2>2. [x EXCEPT !.freed = TRUE] = [at |-> x.at, text |-> x.text, tokens |-> x.tokens, freed |-> TRUE]
    BY <2>0, SegmentFreed DEF IsSegment
  <2>3. mark(i) = x \/ (hit(i) /\ mark(i) = [x EXCEPT !.freed = TRUE])
    <3>1. CASE hit(i)
      BY <3>1 DEF x
    <3>2. CASE ~hit(i)
      BY <3>2 DEF x
    <3> QED BY <3>1, <3>2
  <2> HIDE DEF mark
  <2>4. mark(i) \in Segments /\ mark(i).at = x.at /\ mark(i).text = x.text /\ mark(i).tokens = x.tokens
    BY <2>1, <2>2, <2>3 DEF Segments
  <2> QED BY <2>3, <2>4 DEF x
<1> HIDE DEF f, mark
<1>4. f \in Seq(Segments) /\ Len(f) = n
  <2>1. f \in [1..n -> Segments]
    BY <1>2, <1>3
  <2> QED BY <2>1, <1>1
<1>5. \A i \in 1..n : f[i] = mark(i)
  BY <1>2
<1> QED BY <1>3, <1>4, <1>5 DEF f, n

-----------------------------------------------------------------------------
(* What each step does.                                                    *)

\* The tokens of the piece are known, and the scan goes on.
Goes(tokens, segments) ==
  Advance(scan, Segment(scan, tokens), scan.using \in Head(tokens).more, segments)

FindsCached ==
  /\ scan.pc = "find" /\ Cached(tokensCache, Key(scan))
  /\ tokensCache' = FindInCache(tokensCache, Key(scan))
  /\ Goes(Entry(tokensCache, Key(scan)).value, result)
  /\ UNCHANGED <<table, missCache, possibleCache, requests, changes, faults>>

FindsMissed ==
  /\ scan.pc = "find" /\ ~Cached(tokensCache, Key(scan)) /\ Cached(missCache, Key(scan))
  /\ scan' = [scan EXCEPT !.pc = "probe"]
  /\ UNCHANGED <<table, caches, result, requests, changes, faults>>

ReadTokens == scan.read \o Matches(table, Piece(scan), scan.using, scan.match)

FindsNew ==
  /\ scan.pc = "find" /\ ~Cached(tokensCache, Key(scan)) /\ ReadTokens # <<>>
  /\ tokensCache' = AddToCache(tokensCache, Key(scan), ReadTokens)
  /\ Goes(ReadTokens, IF Evicts(tokensCache) THEN Freed(result, Head(tokensCache)) ELSE result)
  /\ UNCHANGED <<table, missCache, possibleCache, requests, changes, faults>>

FindsNone ==
  /\ scan.pc = "find" /\ ~Cached(tokensCache, Key(scan)) /\ ReadTokens = <<>>
  /\ missCache' = AddToCache(missCache, Key(scan), TRUE)
  /\ scan' = [scan EXCEPT !.pc = "probe"]
  /\ UNCHANGED <<table, tokensCache, possibleCache, result, requests, changes, faults>>

LEMMA FindSteps == Find => FindsCached \/ FindsMissed \/ FindsNew \/ FindsNone
  BY DEF Find, FindsCached, FindsMissed, FindsNew, FindsNone, FoundTokens, Goes, ReadTokens, caches

\* Whether longer symbols are possible is known, and the scan goes on.
Answers(possible) == Advance(scan, HeldOrOther(scan), possible, result)

ProbesCached ==
  /\ scan.pc = "probe" /\ Cached(possibleCache, PossibleKey(scan))
  /\ possibleCache' = FindInCache(possibleCache, PossibleKey(scan))
  /\ Answers(Entry(possibleCache, PossibleKey(scan)).value)
  /\ UNCHANGED <<table, tokensCache, missCache, requests, changes, faults>>

ProbesNew(possible) ==
  /\ scan.pc = "probe"
  /\ possibleCache' = AddToCache(possibleCache, PossibleKey(scan), possible)
  /\ Answers(possible)
  /\ UNCHANGED <<table, tokensCache, missCache, requests, changes>>
  /\ \/ possible = MoreLike(table, Piece(scan), scan.using) /\ faults' = faults
     \/ possible = FALSE /\ faults < MaxFaults /\ faults' = faults + 1

LEMMA ProbeSteps == Probe => ProbesCached \/ \E possible \in BOOLEAN : ProbesNew(possible)
<1> SUFFICES ASSUME Probe PROVE ProbesCached \/ \E possible \in BOOLEAN : ProbesNew(possible)
  OBVIOUS
<1>1. MoreLike(table, Piece(scan), scan.using) \in BOOLEAN
  BY DEF MoreLike
<1> QED BY <1>1 DEF Probe, ProbesCached, ProbesNew, Answers

\* No step but a creation changes the number of changes, and only these two end a call.
LEMMA NextSteps ==
  ASSUME [Next]_vars
  PROVE  \/ \E text \in Texts, way \in Ways : Start(text, way)
         \/ FindsCached \/ FindsMissed \/ FindsNew \/ FindsNone
         \/ ReadAgain
         \/ ProbesCached \/ \E possible \in BOOLEAN : ProbesNew(possible)
         \/ (\E s \in NewSymbols : CreateSymbol(s)) \/ MakePrefixTree
         \/ UNCHANGED vars
  BY FindSteps, ProbeSteps DEF Next

\* The scan as a step leaves it that only asks further.
LEMMA ScanProbes ==
  ASSUME ScanOK(scan), scan.pc = "find", scan' = [scan EXCEPT !.pc = "probe"]
  PROVE  /\ ScanOK(scan') /\ SameCall
         /\ scan'.pc = "probe" /\ scan'.from = scan.from /\ scan'.upto = scan.upto
         /\ scan'.read = scan.read /\ scan'.held = scan.held
         /\ Key(scan') = Key(scan) /\ Piece(scan') = Piece(scan)
<1>1. scan' = [pc |-> "probe", text |-> scan.text, using |-> scan.using, match |-> scan.match,
               from |-> scan.from, upto |-> scan.upto, read |-> scan.read, held |-> scan.held]
  BY DEF ScanOK, IsScan
<1>2. /\ scan'.pc = "probe" /\ scan'.from = scan.from /\ scan'.upto = scan.upto
      /\ scan'.read = scan.read /\ scan'.held = scan.held /\ SameCall
  BY <1>1 DEF SameCall, IsScan
<1>3. Key(scan') = Key(scan) /\ Piece(scan') = Piece(scan)
  BY <1>2 DEF Key, Piece, SameCall
<1>4. ASSUME NEW x PROVE Begins(scan', x) <=> Begins(scan, x)
  BY <1>2 DEF Begins, SameCall
<1>5. ScanOK(scan')
  BY <1>2, <1>4 DEF ScanOK, SameCall
<1> QED BY <1>2, <1>3, <1>5

\* And as ReadAgain leaves it.
LEMMA ScanReads ==
  ASSUME ScanOK(scan), scan.pc = "find", NEW read \in Seq(SymbolRow), scan' = [scan EXCEPT !.read = read]
  PROVE  /\ ScanOK(scan') /\ SameCall
         /\ scan'.pc = "find" /\ scan'.from = scan.from /\ scan'.upto = scan.upto
         /\ scan'.read = read /\ scan'.held = scan.held
         /\ Key(scan') = Key(scan)
<1>1. scan' = [pc |-> scan.pc, text |-> scan.text, using |-> scan.using, match |-> scan.match,
               from |-> scan.from, upto |-> scan.upto, read |-> read, held |-> scan.held]
  BY DEF ScanOK, IsScan
<1>2. /\ scan'.pc = "find" /\ scan'.from = scan.from /\ scan'.upto = scan.upto
      /\ scan'.read = read /\ scan'.held = scan.held /\ SameCall
  BY <1>1 DEF SameCall, IsScan
<1>3. Key(scan') = Key(scan)
  BY <1>2 DEF Key, Piece, SameCall
<1>4. ASSUME NEW x PROVE Begins(scan', x) <=> Begins(scan, x)
  BY <1>2 DEF Begins, SameCall
<1>5. ScanOK(scan')
  BY <1>2, <1>4 DEF ScanOK, SameCall
<1> QED BY <1>2, <1>3, <1>5

\* And as it begins.
LEMMA ScanStarts ==
  ASSUME NEW text \in Texts, NEW way \in Ways, Start(text, way)
  PROVE  /\ UNCHANGED <<table, caches, changes, faults>>
         /\ requests < MaxRequests /\ requests' = requests + 1
         /\ scan.pc = "idle"
         /\ \/ scan' = scan /\ result' = result
            \/ /\ ScanOK(scan') /\ scan'.text # <<>> /\ scan'.pc = "find" /\ scan'.from = 1 /\ scan'.upto = 1
               /\ scan'.read = <<>> /\ scan'.held = <<>>
               /\ result' = <<>>
<1>1. text \in Text /\ way[1] \in {"pattern", "value"} /\ way[2] \in {"exact", "all"}
  BY TokenizerAssumption
<1>2. CASE text # <<>>
  <2>1. scan' = [IdleScan EXCEPT !.pc = "find", !.text = text, !.using = way[1], !.match = way[2]]
        /\ result' = <<>>
    BY <1>2 DEF Start
  <2> DEFINE u == way[1]
             m == way[2]
  <2> HIDE DEF u, m
  <2>2. scan' = [pc |-> "find", text |-> text, using |-> u, match |-> m, from |-> 1, upto |-> 1,
                 read |-> <<>>, held |-> <<>>]
    BY <2>1 DEF IdleScan, u, m
  <2>3. /\ IsScan(scan') /\ scan'.text = text /\ scan'.pc = "find" /\ scan'.from = 1 /\ scan'.upto = 1
        /\ scan'.read = <<>> /\ scan'.held = <<>> /\ scan'.using = u /\ scan'.match = m
    BY <2>2 DEF IsScan
  <2>4. Len(text) \in Nat /\ Len(text) >= 1
    BY <1>1, <1>2, EmptySeq, LenProperties DEF Text
  <2>5. <<>> \in Seq(SymbolRow) /\ <<>> \in Seq(Segments) /\ Len(<<>>) < 2
    OBVIOUS
  <2>6. ScanOK(scan')
    BY <1>1, <2>3, <2>4, <2>5 DEF ScanOK, u, m
  <2> QED BY <1>2, <2>1, <2>3, <2>6 DEF Start
<1>3. CASE text = <<>>
  BY <1>3 DEF Start
<1> QED BY <1>2, <1>3

LEMMA KeyTypes ==
  ASSUME ScanOK(scan), scan.pc # "idle"
  PROVE  Key(scan) \in Keys /\ PossibleKey(scan) \in PossibleKeys
  BY PieceText DEF ScanOK, Key, Keys, PossibleKey, PossibleKeys

\* What a cache of tokens answers.
LEMMA CachedTokens ==
  ASSUME TypeInv, FindsCached
  PROVE  LET e == Entry(tokensCache, Key(scan)) IN
         /\ e \in Found /\ e.key = Key(scan)
         /\ e.value \in Seq(SymbolRow) /\ e.value # <<>>
         /\ \E i \in DOMAIN tokensCache : e = tokensCache[i]
<1>1. /\ PositionOf(tokensCache, Key(scan)) \in DOMAIN tokensCache
      /\ Entry(tokensCache, Key(scan)) = tokensCache[PositionOf(tokensCache, Key(scan))]
      /\ Entry(tokensCache, Key(scan)).key = Key(scan)
  BY CachedEntry DEF FindsCached
<1>2. \A i \in DOMAIN tokensCache : tokensCache[i] \in Found
  BY LenProperties, ElementOfSeq DEF TypeInv
<1>3. Entry(tokensCache, Key(scan)) \in Found
  BY <1>1, <1>2
<1> QED BY <1>1, <1>3 DEF Found

\* What a statement gives.
LEMMA TokensRead ==
  ASSUME TypeInv
  PROVE  /\ Matches(table, Piece(scan), scan.using, scan.match) \in Seq(SymbolRow)
         /\ ReadTokens \in Seq(SymbolRow)
<1>1. Matches(table, Piece(scan), scan.using, scan.match) \in Seq(SymbolRow)
  BY MatchesAsked DEF TypeInv, ScanOK
<1>2. scan.read \in Seq(SymbolRow)
  BY DEF TypeInv, ScanOK
<1> QED BY <1>1, <1>2, ConcatProperties DEF ReadTokens

-----------------------------------------------------------------------------
(* Types.                                                                  *)

LEMMA FindsCachedTypes ==
  ASSUME TypeInv, FindsCached
  PROVE  TypeInv'
<1> DEFINE tokens == Entry(tokensCache, Key(scan)).value
<1>1. tokens \in Seq(SymbolRow) /\ scan.pc = "find" /\ ScanOK(scan) /\ result \in Seq(Segments)
  BY CachedTokens DEF FindsCached, TypeInv
<1>2. Goes(tokens, result)
  BY DEF FindsCached
<1> HIDE DEF tokens
<1>3. Begins(scan, Segment(scan, tokens))
  BY <1>1, SegmentBegins
<1>4. ScanOK(scan') /\ result' \in Seq(Segments)
  BY <1>1, <1>2, <1>3, AdvanceTypes DEF Goes
<1>5. tokensCache' \in Seq(Found) /\ Len(tokensCache') = Len(tokensCache)
  BY FoundInCache DEF FindsCached, TypeInv
<1> QED BY <1>4, <1>5 DEF FindsCached, TypeInv

LEMMA FindsMissedTypes ==
  ASSUME TypeInv, FindsMissed
  PROVE  TypeInv'
<1>1. ScanOK(scan')
  BY ScanProbes DEF FindsMissed, TypeInv
<1> QED BY <1>1 DEF FindsMissed, TypeInv, caches

LEMMA FindsNewTypes ==
  ASSUME TypeInv, FindsNew
  PROVE  TypeInv'
<1> DEFINE segments == IF Evicts(tokensCache) THEN Freed(result, Head(tokensCache)) ELSE result
<1>1. ReadTokens \in Seq(SymbolRow) /\ ReadTokens # <<>>
      /\ scan.pc = "find" /\ ScanOK(scan) /\ result \in Seq(Segments)
  BY TokensRead DEF FindsNew, TypeInv
<1>2. segments \in Seq(Segments)
  BY <1>1, FreedSegments
<1>3. Goes(ReadTokens, segments)
  BY DEF FindsNew
<1> HIDE DEF segments
<1>4. Begins(scan, Segment(scan, ReadTokens))
  BY <1>1, SegmentBegins
<1>5. ScanOK(scan') /\ result' \in Seq(Segments)
  BY <1>1, <1>2, <1>3, <1>4, AdvanceTypes DEF Goes
<1>6. [key |-> Key(scan), value |-> ReadTokens] \in Found
  BY <1>1, KeyTypes DEF Found
<1>7. tokensCache' \in Seq(Found) /\ Len(tokensCache') < CacheSize
  BY <1>6, AddedToCache DEF FindsNew, TypeInv
<1> QED BY <1>5, <1>7 DEF FindsNew, TypeInv

LEMMA FindsNoneTypes ==
  ASSUME TypeInv, FindsNone
  PROVE  TypeInv'
<1>1. ScanOK(scan')
  BY ScanProbes DEF FindsNone, TypeInv
<1>2. [key |-> Key(scan), value |-> TRUE] \in Missed
  BY KeyTypes DEF Missed, FindsNone, TypeInv
<1>3. missCache' \in Seq(Missed) /\ Len(missCache') < CacheSize
  BY <1>2, AddedToCache DEF FindsNone, TypeInv
<1> QED BY <1>1, <1>3 DEF FindsNone, TypeInv

\* The rows that were read before a step failed.
LEMMA ReadsAgain ==
  ASSUME TypeInv, ReadAgain
  PROVE  LET tokens == Matches(table, Piece(scan), scan.using, scan.match) IN
         \E n \in 0..Len(tokens) :
           /\ SubSeq(tokens, 1, n) \in Seq(SymbolRow)
           /\ \A i \in DOMAIN SubSeq(tokens, 1, n) : \E j \in DOMAIN tokens : SubSeq(tokens, 1, n)[i] = tokens[j]
           /\ scan.read \o SubSeq(tokens, 1, n) \in Seq(SymbolRow)
           /\ scan' = [scan EXCEPT !.read = scan.read \o SubSeq(tokens, 1, n)]
<1> DEFINE tokens == Matches(table, Piece(scan), scan.using, scan.match)
<1>1. tokens \in Seq(SymbolRow) /\ scan.read \in Seq(SymbolRow)
  BY TokensRead DEF TypeInv, ScanOK
<1>2. PICK n \in 0..Len(tokens) : scan' = [scan EXCEPT !.read = @ \o SubSeq(tokens, 1, n)]
  BY DEF ReadAgain
<1> HIDE DEF tokens
<1>3. n \in Nat /\ n <= Len(tokens) /\ Len(tokens) \in Nat /\ DOMAIN tokens = 1..Len(tokens)
  BY <1>1, <1>2, LenProperties
<1> DEFINE some == SubSeq(tokens, 1, n)
<1>4. \A i \in 1..n : tokens[i] \in SymbolRow /\ i \in DOMAIN tokens
  BY <1>1, <1>3, ElementOfSeq
<1>5. /\ some \in Seq(SymbolRow) /\ Len(some) = IF 1 <= n THEN n - 1 + 1 ELSE 0
      /\ \A i \in 1..(n - 1 + 1) : some[i] = tokens[1 + i - 1]
  <2>1. 1 \in Int /\ n \in Int
    BY <1>3
  <2> QED BY <1>4, <2>1, SubSeqProperties
<1> HIDE DEF some
<1>6. DOMAIN some = 1..n /\ \A i \in 1..n : some[i] = tokens[i]
  <2>1. Len(some) = n
    BY <1>3, <1>5
  <2>2. DOMAIN some = 1..n
    BY <2>1, <1>5, LenProperties
  <2>3. \A i \in 1..n : 1 + i - 1 = i /\ i \in 1..(n - 1 + 1)
    BY <1>3
  <2> QED BY <2>2, <2>3, <1>5
<1>7. scan.read \o some \in Seq(SymbolRow)
  BY <1>1, <1>5, ConcatProperties
<1>8. scan' = [scan EXCEPT !.read = scan.read \o some]
  BY <1>2 DEF some
<1> QED BY <1>2, <1>4, <1>5, <1>6, <1>7, <1>8 DEF tokens, some

LEMMA ReadAgainTypes ==
  ASSUME TypeInv, ReadAgain
  PROVE  TypeInv'
<1>1. PICK read \in Seq(SymbolRow) : scan' = [scan EXCEPT !.read = read]
  BY ReadsAgain
<1>2. ScanOK(scan')
  BY <1>1, ScanReads DEF ReadAgain, TypeInv
<1>3. faults' \in 0..MaxFaults
  BY TokenizerAssumption DEF ReadAgain, TypeInv
<1> QED BY <1>2, <1>3 DEF ReadAgain, TypeInv, caches

LEMMA ProbesCachedTypes ==
  ASSUME TypeInv, ProbesCached
  PROVE  TypeInv'
<1> DEFINE possible == Entry(possibleCache, PossibleKey(scan)).value
<1>1. Advance(scan, HeldOrOther(scan), possible, result)
  BY DEF ProbesCached, Answers
<1> HIDE DEF possible
<1>2. ScanOK(scan') /\ result' \in Seq(Segments)
  BY <1>1, HeldBegins, AdvanceTypes DEF ProbesCached, TypeInv
<1>3. possibleCache' \in Seq(Answered) /\ Len(possibleCache') = Len(possibleCache)
  BY FoundInCache DEF ProbesCached, TypeInv
<1> QED BY <1>2, <1>3 DEF ProbesCached, TypeInv

LEMMA ProbesNewTypes ==
  ASSUME TypeInv, NEW possible \in BOOLEAN, ProbesNew(possible)
  PROVE  TypeInv'
<1>1. ScanOK(scan') /\ result' \in Seq(Segments)
  BY HeldBegins, AdvanceTypes DEF ProbesNew, Answers, TypeInv
<1>2. [key |-> PossibleKey(scan), value |-> possible] \in Answered
  BY KeyTypes DEF Answered, ProbesNew, TypeInv
<1>3. possibleCache' \in Seq(Answered) /\ Len(possibleCache') < CacheSize
  BY <1>2, AddedToCache DEF ProbesNew, TypeInv
<1>4. faults' \in 0..MaxFaults
  BY TokenizerAssumption DEF ProbesNew, TypeInv
<1> QED BY <1>1, <1>3, <1>4 DEF ProbesNew, TypeInv

LEMMA NextTypes ==
  ASSUME TypeInv, [Next]_vars
  PROVE  TypeInv'
<1>1. CASE \E text \in Texts, way \in Ways : Start(text, way)
  <2>1. PICK text \in Texts, way \in Ways : Start(text, way)
    BY <1>1
  <2>2. <<>> \in Seq(Segments)
    OBVIOUS
  <2>3. ScanOK(scan') /\ result' \in Seq(Segments)
    BY <2>1, <2>2, ScanStarts DEF TypeInv
  <2>4. requests' \in 0..MaxRequests
    BY <2>1, ScanStarts, TokenizerAssumption DEF TypeInv
  <2> QED BY <2>1, <2>3, <2>4, ScanStarts DEF TypeInv, caches
<1>2. CASE (\E s \in NewSymbols : CreateSymbol(s)) \/ MakePrefixTree
  <2>1. /\ GoodTable(table') /\ UNCHANGED <<caches, scan, result, requests, faults>>
        /\ changes' = changes \/ (changes < MaxChanges /\ changes' = changes + 1)
    BY <1>2, TableGrows DEF TypeInv
  <2>2. changes' \in 0..MaxChanges
    BY <2>1, TokenizerAssumption DEF TypeInv
  <2> QED BY <2>1, <2>2 DEF TypeInv, caches
<1>3. CASE UNCHANGED vars
  BY <1>3 DEF vars, caches, TypeInv
<1> QED BY <1>1, <1>2, <1>3, NextSteps, FindsCachedTypes, FindsMissedTypes, FindsNewTypes,
           FindsNoneTypes, ReadAgainTypes, ProbesCachedTypes, ProbesNewTypes

LEMMA InitTypes == Init => TypeInv
<1> SUFFICES ASSUME Init PROVE TypeInv
  OBVIOUS
<1>1. GoodTable(table)
  BY TableOfGood, TokenizerAssumption DEF Init
<1>2. ScanOK(scan)
  <2>1. /\ IsScan(scan) /\ scan.pc = "idle" /\ scan.text = <<>> /\ scan.using = "pattern" /\ scan.match = "exact"
        /\ scan.from = 1 /\ scan.upto = 1 /\ scan.read = <<>> /\ scan.held = <<>>
    BY DEF Init, IdleScan, IsScan
  <2>2. <<>> \in Text /\ Len(<<>>) = 0 /\ <<>> \in Seq(SymbolRow) /\ <<>> \in Seq(Segments)
    BY DEF Text
  <2> QED BY <2>1, <2>2 DEF ScanOK
<1>3. /\ <<>> \in Seq(Found) /\ <<>> \in Seq(Missed) /\ <<>> \in Seq(Answered) /\ <<>> \in Seq(Segments)
      /\ Len(<<>>) = 0
  OBVIOUS
<1> QED BY <1>1, <1>2, <1>3, TokenizerAssumption DEF Init, TypeInv

LEMMA TypeInvariant == Spec => []TypeInv
  BY InitTypes, NextTypes, PTL DEF Spec

\* Every variable of the tokenizer keeps its type, for any symbols, texts and cache
\* sizes: what is found is a sequence of rows, and never an empty one.
THEOREM TokenizerTypes == Spec => []TypeOK
<1>1. TypeInv => TypeOK
  <2> SUFFICES ASSUME TypeInv PROVE TypeOK
    OBVIOUS
  <2>1. table \subseteq SymbolRow
    BY DEF TypeInv, GoodTable
  <2>2. \A i \in DOMAIN tokensCache : tokensCache[i].value \in Seq(SymbolRow) \ {<<>>}
    <3>1. \A i \in DOMAIN tokensCache : tokensCache[i] \in Found
      BY LenProperties, ElementOfSeq DEF TypeInv
    <3> QED BY <3>1 DEF Found
  <2>3. \A i \in DOMAIN possibleCache : possibleCache[i].value \in BOOLEAN
    <3>1. \A i \in DOMAIN possibleCache : possibleCache[i] \in Answered
      BY LenProperties, ElementOfSeq DEF TypeInv
    <3> QED BY <3>1 DEF Answered
  <2>4. /\ scan.pc \in {"idle", "find", "probe"} /\ scan.read \in Seq(SymbolRow)
        /\ scan.held \in Seq(Segments) /\ Len(scan.held) < 2
    BY DEF TypeInv, ScanOK
  <2>5. scan.pc # "idle" => scan.from \in 1..scan.upto /\ scan.upto \in 1..Len(scan.text)
    BY LenProperties DEF TypeInv, ScanOK, Text
  <2> QED BY <2>1, <2>2, <2>3, <2>4, <2>5 DEF TypeOK, TypeInv
<1> QED BY <1>1, TypeInvariant, PTL

-----------------------------------------------------------------------------
(* The pieces of a result cover the text.                                  *)

TextsOf(segments) == [i \in DOMAIN segments |-> segments[i].text]

LEMMA TextsAppended ==
  ASSUME NEW segments \in Seq(Segments), NEW held \in Segments
  PROVE  TextsOf(segments) \in Seq(Text)
         /\ TextsOf(Append(segments, held)) = Append(TextsOf(segments), held.text)
<1> DEFINE n == Len(segments)
           more == Append(segments, held)
           texts == TextsOf(segments)
<1>1. /\ n \in Nat /\ DOMAIN segments = 1..n /\ \A i \in 1..n : segments[i].text \in Text
  <2>1. n \in Nat /\ DOMAIN segments = 1..n /\ \A i \in 1..n : segments[i] \in Segments
    BY LenProperties, ElementOfSeq
  <2> HIDE DEF n
  <2> QED BY <2>1 DEF Segments
<1>2. /\ more \in Seq(Segments) /\ Len(more) = n + 1 /\ \A i \in 1..n : more[i] = segments[i]
      /\ more[n + 1] = held
  BY AppendProperties
<1>3. DOMAIN more = 1..(n + 1)
  BY <1>2, LenProperties
<1> HIDE DEF n, more
<1>4. texts \in Seq(Text) /\ Len(texts) = n /\ \A i \in 1..n : texts[i] = segments[i].text
  <2>1. texts = [i \in 1..n |-> segments[i].text]
    BY <1>1 DEF TextsOf
  <2> QED BY <1>1, <2>1
<1> HIDE DEF texts
<1>5. held.text \in Text
  BY DEF Segments
<1>6. /\ Append(texts, held.text) \in Seq(Text) /\ Len(Append(texts, held.text)) = n + 1
      /\ \A i \in 1..n : Append(texts, held.text)[i] = texts[i]
      /\ Append(texts, held.text)[n + 1] = held.text
  BY <1>4, <1>5, AppendProperties
<1>7. TextsOf(more) \in Seq(Text) /\ Len(TextsOf(more)) = n + 1
      /\ \A i \in 1..(n + 1) : TextsOf(more)[i] = more[i].text
  <2>1. TextsOf(more) = [i \in 1..(n + 1) |-> more[i].text]
    BY <1>3 DEF TextsOf
  <2>2. \A i \in 1..(n + 1) : more[i].text \in Text
    BY <1>1, <1>2, <1>5
  <2> QED BY <1>1, <2>1, <2>2
<1>8. \A i \in 1..(n + 1) : TextsOf(more)[i] = Append(texts, held.text)[i]
  BY <1>1, <1>2, <1>4, <1>6, <1>7
<1>9. TextsOf(more) = Append(texts, held.text)
  BY <1>6, <1>7, <1>8, SeqEqual
<1> QED BY <1>4, <1>9 DEF texts, more

\* What a result covers, up to a place in the text.
Covers(segments, text, from) == FlattenSeq(TextsOf(segments)) = SubSeq(text, 1, from - 1)

LEMMA AdvanceCovers ==
  ASSUME ScanOK(scan), scan.pc # "idle", NEW held, Begins(scan, held), NEW possible,
         NEW segments \in Seq(Segments), Advance(scan, held, possible, segments),
         Covers(segments, scan.text, scan.from)
  PROVE  Covers(result', scan'.text, scan'.from)
<1>1. SameCall /\ (Longer(held, segments) \/ Cut(held, segments))
  BY Advanced DEF ScanOK
<1>2. CASE Longer(held, segments)
  BY <1>1, <1>2 DEF SameCall, Longer
<1>3. CASE Cut(held, segments)
  <2> DEFINE n == Len(held.text)
             from == scan.from
             len == Len(scan.text)
  <2>1. /\ scan'.text = scan.text /\ scan'.from = held.at + n /\ result' = Append(segments, held)
    BY <1>1, <1>3 DEF SameCall, Cut
  <2>2. /\ held \in Segments /\ held.at = from /\ n \in 1..(scan.upto - from + 1)
        /\ held.text = SubSeq(scan.text, from, from + n - 1)
    BY DEF Begins
  <2>3. /\ scan.text \in Seq(Char) /\ len \in Nat
        /\ from \in Nat \ {0} /\ scan.upto \in Nat /\ scan.upto <= len /\ from <= scan.upto
    BY LenProperties DEF ScanOK, Text
  <2> HIDE DEF n, from, len
  <2>4. TextsOf(segments) \in Seq(Text) /\ TextsOf(result') = Append(TextsOf(segments), held.text)
        /\ held.text \in Text
    BY <2>1, <2>2, TextsAppended DEF Segments
  <2>5. FlattenSeq(TextsOf(result')) = SubSeq(scan.text, 1, from - 1) \o SubSeq(scan.text, from, from + n - 1)
    <3>1. TextsOf(segments) \in Seq(Seq(Char)) /\ held.text \in Seq(Char)
      BY <2>4 DEF Text
    <3>2. FlattenSeq(Append(TextsOf(segments), held.text)) = FlattenSeq(TextsOf(segments)) \o held.text
      BY <3>1, FlattenAppended
    <3> QED BY <2>2, <2>4, <3>2 DEF Covers, from
  <2>6. SubSeq(scan.text, 1, from - 1) \o SubSeq(scan.text, from, from + n - 1)
          = SubSeq(scan.text, 1, from + n - 1)
    <3>1. /\ 1 \in 1..(len + 1) /\ from - 1 \in (1 - 1)..len
          /\ from + n - 1 \in (from - 1)..len /\ from - 1 + 1 = from
      BY <2>2, <2>3
    <3>2. SubSeq(scan.text, 1, from - 1) \o SubSeq(scan.text, from - 1 + 1, from + n - 1)
            = SubSeq(scan.text, 1, from + n - 1)
      BY <2>3, <3>1, ConcatAdjacentSubSeq DEF len
    <3> QED BY <3>1, <3>2
  <2>7. scan'.from - 1 = from + n - 1
    BY <2>1, <2>2, <2>3
  <2> QED BY <2>1, <2>5, <2>6, <2>7 DEF Covers
<1> QED BY <1>1, <1>2, <1>3

LEMMA FreedCovers ==
  ASSUME NEW segments \in Seq(Segments), NEW entry, NEW text, NEW from, Covers(segments, text, from)
  PROVE  Covers(Freed(segments, entry), text, from)
<1> DEFINE f == Freed(segments, entry)
           n == Len(segments)
<1>1. f \in Seq(Segments) /\ Len(f) = n /\ \A i \in 1..n : f[i].text = segments[i].text
  BY FreedSegments
<1>2. DOMAIN f = 1..n /\ DOMAIN segments = 1..n
  BY <1>1, LenProperties
<1> HIDE DEF f, n
<1>3. TextsOf(f) = TextsOf(segments)
  BY <1>1, <1>2 DEF TextsOf
<1> QED BY <1>3 DEF Covers, f

Cover == scan.text # <<>> => Covers(result, scan.text, scan.from)

LEMMA NextCovers ==
  ASSUME TypeInv, Cover, [Next]_vars
  PROVE  Cover'
<1>0. /\ ScanOK(scan) /\ result \in Seq(Segments)
      /\ scan.pc # "idle" => scan.text # <<>>
  <2>1. scan.pc # "idle" => Len(scan.text) # 0
    BY LenProperties DEF TypeInv, ScanOK, Text
  <2> QED BY <2>1 DEF TypeInv
<1>1. ASSUME NEW text \in Texts, NEW way \in Ways, Start(text, way) PROVE Cover'
  <2>1. CASE scan' = scan /\ result' = result
    BY <2>1 DEF Cover
  <2>2. CASE scan'.from = 1 /\ result' = <<>> /\ ScanOK(scan')
    <3>1. TextsOf(<<>>) = <<>> /\ FlattenSeq(<<>>) = <<>>
      BY DEF TextsOf, FlattenSeq
    <3>2. SubSeq(scan'.text, 1, 1 - 1) = <<>>
      <4>1. scan'.text \in Seq(Char)
        BY <2>2 DEF ScanOK, Text
      <4> QED BY <4>1, SubSeqEmpty
    <3> QED BY <2>2, <3>1, <3>2 DEF Cover, Covers
  <2> QED BY <1>1, <2>1, <2>2, ScanStarts
<1>2. ASSUME FindsCached PROVE Cover'
  <2> DEFINE tokens == Entry(tokensCache, Key(scan)).value
  <2>1. tokens \in Seq(SymbolRow) /\ scan.pc = "find" /\ Goes(tokens, result)
    BY <1>2, CachedTokens DEF FindsCached
  <2> HIDE DEF tokens
  <2> QED BY <1>0, <2>1, SegmentBegins, AdvanceCovers DEF Goes, Cover
<1>3. ASSUME FindsNew PROVE Cover'
  <2> DEFINE segments == IF Evicts(tokensCache) THEN Freed(result, Head(tokensCache)) ELSE result
  <2>1. ReadTokens \in Seq(SymbolRow) /\ scan.pc = "find" /\ Goes(ReadTokens, segments)
    BY <1>3, TokensRead DEF FindsNew
  <2>2. segments \in Seq(Segments) /\ Covers(segments, scan.text, scan.from)
    BY <1>0, <2>1, FreedSegments, FreedCovers DEF Cover
  <2> HIDE DEF segments
  <2> QED BY <1>0, <2>1, <2>2, SegmentBegins, AdvanceCovers DEF Goes, Cover
<1>4. ASSUME FindsMissed \/ FindsNone PROVE Cover'
  <2>1. SameCall /\ scan'.from = scan.from /\ result' = result
    BY <1>0, <1>4, ScanProbes DEF FindsMissed, FindsNone
  <2> QED BY <2>1 DEF Cover, SameCall
<1>5. ASSUME ReadAgain PROVE Cover'
  <2>1. SameCall /\ scan'.from = scan.from /\ result' = result
    BY <1>0, <1>5, ReadsAgain, ScanReads DEF ReadAgain
  <2> QED BY <2>1 DEF Cover, SameCall
<1>6. ASSUME NEW possible, Answers(possible), scan.pc = "probe" PROVE Cover'
  BY <1>0, <1>6, HeldBegins, AdvanceCovers DEF Answers, Cover
<1>7. ASSUME scan' = scan, result' = result PROVE Cover'
  BY <1>7 DEF Cover
<1>8. ProbesCached \/ (\E possible \in BOOLEAN : ProbesNew(possible)) => Cover'
  BY <1>6 DEF ProbesCached, ProbesNew
<1>9. (\E s \in NewSymbols : CreateSymbol(s)) \/ MakePrefixTree \/ UNCHANGED vars => Cover'
  <2>1. (\E s \in NewSymbols : CreateSymbol(s)) \/ MakePrefixTree => scan' = scan /\ result' = result
    BY DEF CreateSymbol, MakePrefixTree
  <2> QED BY <1>7, <2>1 DEF vars
<1> QED BY <1>1, <1>2, <1>3, <1>4, <1>5, <1>8, <1>9, NextSteps

\* For any tables, texts and cache sizes, and whatever fails or changes on the way: the
\* pieces of a result are the text, in its order, up to where the scan stands.
THEOREM TokenizerCoversText == Spec => []SegmentsCoverText
<1>1. Init => Cover
  BY DEF Init, IdleScan, Cover
<1>2. TypeInv /\ Cover => SegmentsCoverText
  BY DEF Cover, Covers, TextsOf, SegmentsCoverText
<1> QED BY <1>1, <1>2, NextCovers, TypeInvariant, PTL DEF Spec

-----------------------------------------------------------------------------
(* The tokens of a segment are the ones that its lookup asks for.          *)

\* x is of a row that the lookup asks for, though the row may have grown since.
AskedFor(t, x, text, using, match) ==
  /\ \E r \in t :
       /\ r.id = x.id
       /\ text \in IF using = "pattern" THEN {r.sym.pattern} ELSE {r.sym.value1, r.sym.value2}
  /\ match = "exact" => x.sym.match = "exact"

AllAsked(t, tokens, text, using, match) ==
  \A j \in DOMAIN tokens : AskedFor(t, tokens[j], text, using, match)

SegmentsAsked(t, segments, using, match) ==
  \A i \in DOMAIN segments : AllAsked(t, segments[i].tokens, segments[i].text, using, match)

EntriesAsked(t, cache) ==
  \A i \in DOMAIN cache :
    AllAsked(t, cache[i].value, cache[i].key.text, cache[i].key.using, cache[i].key.match)

Match ==
  /\ EntriesAsked(table, tokensCache)
  /\ scan.pc # "idle" => AllAsked(table, scan.read, Piece(scan), scan.using, scan.match)
  /\ SegmentsAsked(table, scan.held, scan.using, scan.match)
  /\ SegmentsAsked(table, result, scan.using, scan.match)

LEMMA AskedGrows ==
  ASSUME NEW t, NEW u, GrownFrom(t, u), NEW tokens, NEW text, NEW using, NEW match,
         AllAsked(t, tokens, text, using, match)
  PROVE  AllAsked(u, tokens, text, using, match)
<1> SUFFICES ASSUME NEW j \in DOMAIN tokens
             PROVE  AskedFor(u, tokens[j], text, using, match)
  BY DEF AllAsked
<1>1. AskedFor(t, tokens[j], text, using, match)
  BY DEF AllAsked
<1>2. PICK r \in t :
        /\ r.id = tokens[j].id
        /\ text \in IF using = "pattern" THEN {r.sym.pattern} ELSE {r.sym.value1, r.sym.value2}
  BY <1>1 DEF AskedFor
<1>3. PICK q \in u : q.id = r.id /\ q.sym = r.sym
  BY <1>2 DEF GrownFrom
<1> QED BY <1>1, <1>2, <1>3 DEF AskedFor

LEMMA MatchesAreAsked ==
  ASSUME NEW t, GoodTable(t), NEW text, NEW using \in {"pattern", "value"}, NEW match
  PROVE  AllAsked(t, Matches(t, text, using, match), text, using, match)
<1> DEFINE q == Matches(t, text, using, match)
<1> HIDE DEF q
<1>1. \A i \in DOMAIN q : TokenOf(t, q[i], text, using, match)
  BY MatchesAsked DEF q
<1> SUFFICES ASSUME NEW i \in DOMAIN q PROVE AskedFor(t, q[i], text, using, match)
  BY DEF AllAsked, q
<1>2. PICK r \in t :
        /\ r.id = q[i].id /\ r.more = q[i].more /\ r.sym.match = q[i].sym.match
        /\ using = "pattern" => r.sym = q[i].sym
        /\ Asks(r, text, using, match)
  BY <1>1 DEF TokenOf
<1> QED BY <1>2 DEF Asks, AskedFor

LEMMA BothAsked ==
  ASSUME NEW X, NEW a \in Seq(X), NEW b \in Seq(X), NEW t, NEW text, NEW using, NEW match,
         AllAsked(t, a, text, using, match), AllAsked(t, b, text, using, match)
  PROVE  AllAsked(t, a \o b, text, using, match)
<1> DEFINE c == a \o b
           A(x) == AskedFor(t, x, text, using, match)
<1>1. /\ c \in Seq(X) /\ Len(c) = Len(a) + Len(b)
      /\ \A i \in 1..(Len(a) + Len(b)) : c[i] = IF i <= Len(a) THEN a[i] ELSE b[i - Len(a)]
  BY ConcatProperties
<1>2. /\ DOMAIN a = 1..Len(a) /\ DOMAIN b = 1..Len(b) /\ Len(a) \in Nat /\ Len(b) \in Nat
      /\ DOMAIN c = 1..(Len(a) + Len(b))
  BY <1>1, LenProperties
<1>3. (\A i \in DOMAIN a : A(a[i])) /\ \A i \in DOMAIN b : A(b[i])
  BY DEF AllAsked
<1> HIDE DEF c, A
<1> SUFFICES ASSUME NEW i \in DOMAIN c PROVE A(c[i])
  BY DEF AllAsked, A, c
<1>4. CASE i <= Len(a)
  BY <1>1, <1>2, <1>3, <1>4
<1>5. CASE ~(i <= Len(a))
  <2>1. i - Len(a) \in DOMAIN b
    BY <1>2, <1>5
  <2> QED BY <1>1, <1>2, <1>3, <1>5, <2>1
<1> QED BY <1>4, <1>5

LEMMA AdvanceAsked ==
  ASSUME ScanOK(scan), scan.pc # "idle", NEW held, Begins(scan, held), NEW possible,
         NEW segments \in Seq(Segments), Advance(scan, held, possible, segments),
         NEW t, AllAsked(t, held.tokens, held.text, scan.using, scan.match),
         SegmentsAsked(t, segments, scan.using, scan.match)
  PROVE  /\ AllAsked(t, scan'.read, Piece(scan'), scan'.using, scan'.match)
         /\ SegmentsAsked(t, scan'.held, scan'.using, scan'.match)
         /\ SegmentsAsked(t, result', scan'.using, scan'.match)
<1>0. held \in Segments
  BY DEF Begins
<1>1. SameCall /\ scan'.read = <<>> /\ (Longer(held, segments) \/ Cut(held, segments))
  BY Advanced DEF ScanOK
<1>2. scan'.using = scan.using /\ scan'.match = scan.match
  BY <1>1 DEF SameCall
<1>3. AllAsked(t, scan'.read, Piece(scan'), scan'.using, scan'.match)
  BY <1>1 DEF AllAsked
<1>4. CASE Longer(held, segments)
  <2>1. scan'.held = <<held>> /\ result' = segments
    BY <1>4 DEF Longer
  <2> QED BY <1>2, <1>3, <2>1 DEF SegmentsAsked
<1>5. CASE Cut(held, segments)
  <2>1. scan'.held = <<>> /\ result' = Append(segments, held)
    BY <1>5 DEF Cut
  <2>2. /\ result' \in Seq(Segments) /\ Len(result') = Len(segments) + 1
        /\ \A i \in 1..Len(segments) : result'[i] = segments[i]
        /\ result'[Len(segments) + 1] = held
    BY <1>0, <2>1, AppendProperties
  <2>3. /\ DOMAIN segments = 1..Len(segments) /\ Len(segments) \in Nat
        /\ DOMAIN result' = 1..(Len(segments) + 1)
    BY <2>2, LenProperties
  <2>4. \A i \in DOMAIN result' : i \in DOMAIN segments \/ i = Len(segments) + 1
    BY <2>3
  <2>5. SegmentsAsked(t, result', scan'.using, scan'.match)
    BY <1>2, <2>2, <2>3, <2>4 DEF SegmentsAsked
  <2>6. SegmentsAsked(t, scan'.held, scan'.using, scan'.match)
    BY <2>1 DEF SegmentsAsked
  <2> QED BY <1>3, <2>5, <2>6
<1> QED BY <1>1, <1>4, <1>5

LEMMA FreedAsked ==
  ASSUME NEW segments \in Seq(Segments), NEW entry, NEW t, NEW using, NEW match,
         SegmentsAsked(t, segments, using, match)
  PROVE  SegmentsAsked(t, Freed(segments, entry), using, match)
<1> DEFINE f == Freed(segments, entry)
           n == Len(segments)
<1>1. f \in Seq(Segments) /\ Len(f) = n
      /\ \A i \in 1..n : f[i].text = segments[i].text /\ f[i].tokens = segments[i].tokens
  BY FreedSegments
<1>2. DOMAIN f = 1..n /\ DOMAIN segments = 1..n
  BY <1>1, LenProperties
<1> HIDE DEF f, n
<1>3. SegmentsAsked(t, f, using, match)
  BY <1>1, <1>2 DEF SegmentsAsked
<1> QED BY <1>3 DEF f

\* Tokens read for the piece the scan is at, or kept from an earlier call.
LEMMA GoesAsked ==
  ASSUME ScanOK(scan), scan.pc # "idle", NEW tokens \in Seq(SymbolRow), NEW t,
         AllAsked(t, tokens, Piece(scan), scan.using, scan.match),
         NEW segments \in Seq(Segments), SegmentsAsked(t, segments, scan.using, scan.match),
         Goes(tokens, segments)
  PROVE  /\ AllAsked(t, scan'.read, Piece(scan'), scan'.using, scan'.match)
         /\ SegmentsAsked(t, scan'.held, scan'.using, scan'.match)
         /\ SegmentsAsked(t, result', scan'.using, scan'.match)
<1> DEFINE held == Segment(scan, tokens)
<1>1. Begins(scan, held) /\ held.text = Piece(scan) /\ held.tokens = tokens
  BY SegmentBegins
<1>2. Advance(scan, held, scan.using \in Head(tokens).more, segments)
  BY DEF Goes
<1> HIDE DEF held
<1> QED BY <1>1, <1>2, AdvanceAsked

LEMMA AnswersAsked ==
  ASSUME TypeInv, Match, scan.pc = "probe", NEW possible, Answers(possible), table' = table,
         tokensCache' = tokensCache
  PROVE  Match'
<1>1. ScanOK(scan) /\ result \in Seq(Segments) /\ Begins(scan, HeldOrOther(scan))
  BY HeldBegins DEF TypeInv
<1> DEFINE held == HeldOrOther(scan)
<1>2. AllAsked(table, held.tokens, held.text, scan.using, scan.match)
  <2>1. CASE scan.held # <<>>
    <3>1. 1 \in DOMAIN scan.held
      BY <1>1, <2>1, EmptySeq, LenProperties DEF ScanOK
    <3> QED BY <2>1, <3>1 DEF HeldOrOther, Match, SegmentsAsked
  <2>2. CASE scan.held = <<>>
    <3>1. <<>> \in Seq(SymbolRow)
      OBVIOUS
    <3>2. held.tokens = <<>>
      BY <1>1, <2>2, <3>1, SegmentBegins DEF HeldOrOther
    <3> HIDE DEF held
    <3> QED BY <3>2 DEF AllAsked
  <2> QED BY <2>1, <2>2
<1>3. Advance(scan, held, possible, result)
  BY DEF Answers
<1> HIDE DEF held
<1>4. Begins(scan, held)
  BY <1>1 DEF held
<1> QED BY <1>1, <1>2, <1>3, <1>4, AdvanceAsked DEF Match

LEMMA NextMatch ==
  ASSUME TypeInv, Match, [Next]_vars
  PROVE  Match'
<1>0. /\ ScanOK(scan) /\ result \in Seq(Segments) /\ GoodTable(table)
      /\ scan.using \in {"pattern", "value"}
  BY DEF TypeInv, ScanOK
<1>1. ASSUME NEW text \in Texts, NEW way \in Ways, Start(text, way) PROVE Match'
  <2>0. table' = table /\ tokensCache' = tokensCache
    BY <1>1, ScanStarts DEF caches
  <2>1. CASE scan' = scan /\ result' = result
    BY <2>0, <2>1 DEF Match, Piece
  <2>2. CASE scan'.read = <<>> /\ scan'.held = <<>> /\ result' = <<>>
    BY <2>0, <2>2 DEF Match, AllAsked, SegmentsAsked
  <2> QED BY <1>1, <2>1, <2>2, ScanStarts
<1>2. ASSUME FindsCached PROVE Match'
  <2> DEFINE e == Entry(tokensCache, Key(scan))
             tokens == e.value
  <2>0. table' = table /\ scan.pc = "find" /\ tokensCache \in Seq(Found)
    BY <1>2 DEF FindsCached, TypeInv
  <2>1. tokens \in Seq(SymbolRow) /\ Goes(tokens, result)
    BY <1>2, CachedTokens DEF FindsCached
  <2>2. e.key = Key(scan) /\ \E i \in DOMAIN tokensCache : e = tokensCache[i]
    BY <1>2, CachedTokens
  <2> HIDE DEF e
  <2>3. AllAsked(table, tokens, Piece(scan), scan.using, scan.match)
    BY <2>2 DEF Match, EntriesAsked, Key
  <2> HIDE DEF tokens
  <2>4. /\ AllAsked(table, scan'.read, Piece(scan'), scan'.using, scan'.match)
        /\ SegmentsAsked(table, scan'.held, scan'.using, scan'.match)
        /\ SegmentsAsked(table, result', scan'.using, scan'.match)
    BY <1>0, <2>0, <2>1, <2>3, GoesAsked DEF Match
  <2>5. \A i \in DOMAIN tokensCache' : \E j \in DOMAIN tokensCache : tokensCache'[i] = tokensCache[j]
    BY <1>2, <2>0, FoundInCache DEF FindsCached
  <2>6. EntriesAsked(table, tokensCache')
    BY <2>5 DEF Match, EntriesAsked
  <2> QED BY <2>0, <2>4, <2>6 DEF Match
<1>3. ASSUME FindsNew PROVE Match'
  <2> DEFINE segments == IF Evicts(tokensCache) THEN Freed(result, Head(tokensCache)) ELSE result
             new == [key |-> Key(scan), value |-> ReadTokens]
  <2>0. /\ table' = table /\ scan.pc = "find" /\ ReadTokens # <<>>
        /\ tokensCache \in Seq(Found) /\ Len(tokensCache) < CacheSize
    BY <1>3 DEF FindsNew, TypeInv
  <2>1. ReadTokens \in Seq(SymbolRow) /\ Goes(ReadTokens, segments)
    BY <1>3, TokensRead DEF FindsNew
  <2>2. AllAsked(table, ReadTokens, Piece(scan), scan.using, scan.match)
    <3>1. AllAsked(table, Matches(table, Piece(scan), scan.using, scan.match),
                   Piece(scan), scan.using, scan.match)
      BY <1>0, MatchesAreAsked
    <3>2. scan.read \in Seq(SymbolRow)
      BY <1>0 DEF ScanOK
    <3>3. AllAsked(table, scan.read, Piece(scan), scan.using, scan.match)
      BY <2>0 DEF Match
    <3> QED BY <3>1, <3>2, <3>3, TokensRead, BothAsked DEF ReadTokens
  <2>3. segments \in Seq(Segments) /\ SegmentsAsked(table, segments, scan.using, scan.match)
    BY <1>0, FreedSegments, FreedAsked DEF Match
  <2> HIDE DEF segments
  <2>4. /\ AllAsked(table, scan'.read, Piece(scan'), scan'.using, scan'.match)
        /\ SegmentsAsked(table, scan'.held, scan'.using, scan'.match)
        /\ SegmentsAsked(table, result', scan'.using, scan'.match)
    BY <1>0, <2>0, <2>1, <2>2, <2>3, GoesAsked
  <2>5. new \in Found
    BY <1>0, <2>0, <2>1, KeyTypes DEF Found
  <2>6. \A i \in DOMAIN tokensCache' :
          tokensCache'[i] = new \/ \E j \in DOMAIN tokensCache : tokensCache'[i] = tokensCache[j]
    BY <1>3, <2>0, <2>5, AddedToCache DEF FindsNew
  <2>7. AllAsked(table, new.value, new.key.text, new.key.using, new.key.match)
    BY <2>2 DEF Key
  <2> HIDE DEF new
  <2>8. EntriesAsked(table, tokensCache')
    BY <2>6, <2>7 DEF Match, EntriesAsked
  <2> QED BY <2>0, <2>4, <2>8 DEF Match
<1>4. ASSUME FindsMissed \/ FindsNone PROVE Match'
  <2>1. /\ SameCall /\ scan.pc = "find" /\ scan'.read = scan.read /\ scan'.held = scan.held
        /\ Piece(scan') = Piece(scan)
    BY <1>0, <1>4, ScanProbes DEF FindsMissed, FindsNone
  <2>2. table' = table /\ tokensCache' = tokensCache /\ result' = result
    BY <1>4 DEF FindsMissed, FindsNone, caches
  <2> QED BY <2>1, <2>2 DEF Match, SameCall
<1>5. ASSUME ReadAgain PROVE Match'
  <2> DEFINE tokens == Matches(table, Piece(scan), scan.using, scan.match)
  <2>0. scan.pc = "find" /\ table' = table /\ tokensCache' = tokensCache /\ result' = result
    BY <1>5 DEF ReadAgain, caches
  <2>1. AllAsked(table, tokens, Piece(scan), scan.using, scan.match)
    BY <1>0, MatchesAreAsked
  <2>2. PICK n \in 0..Len(tokens) :
           /\ SubSeq(tokens, 1, n) \in Seq(SymbolRow)
           /\ \A i \in DOMAIN SubSeq(tokens, 1, n) : \E j \in DOMAIN tokens : SubSeq(tokens, 1, n)[i] = tokens[j]
           /\ scan.read \o SubSeq(tokens, 1, n) \in Seq(SymbolRow)
           /\ scan' = [scan EXCEPT !.read = scan.read \o SubSeq(tokens, 1, n)]
    BY <1>5, ReadsAgain
  <2> DEFINE some == SubSeq(tokens, 1, n)
             read == scan.read \o some
  <2> HIDE DEF tokens
  <2>3. AllAsked(table, some, Piece(scan), scan.using, scan.match)
    <3> HIDE DEF some
    <3>1. \A i \in DOMAIN some : \E j \in DOMAIN tokens : some[i] = tokens[j]
      BY <2>2 DEF some
    <3> QED BY <2>1, <3>1 DEF AllAsked
  <2>4. AllAsked(table, read, Piece(scan), scan.using, scan.match)
    <3>1. some \in Seq(SymbolRow) /\ scan.read \in Seq(SymbolRow)
      BY <1>0, <2>2 DEF ScanOK
    <3>2. AllAsked(table, scan.read, Piece(scan), scan.using, scan.match)
      BY <2>0 DEF Match
    <3> HIDE DEF some
    <3> QED BY <2>3, <3>1, <3>2, BothAsked
  <2>5. read \in Seq(SymbolRow) /\ scan' = [scan EXCEPT !.read = read]
    BY <2>2
  <2> HIDE DEF read
  <2>6. SameCall /\ scan'.from = scan.from /\ scan'.upto = scan.upto /\ scan'.read = read
        /\ scan'.held = scan.held
    BY <1>0, <2>0, <2>5, ScanReads
  <2>7. Piece(scan') = Piece(scan)
    BY <2>6 DEF SameCall, Piece
  <2> QED BY <2>0, <2>4, <2>6, <2>7 DEF Match, SameCall
<1>6. ProbesCached \/ (\E possible \in BOOLEAN : ProbesNew(possible)) => Match'
  BY AnswersAsked DEF ProbesCached, ProbesNew
<1>7. ASSUME (\E s \in NewSymbols : CreateSymbol(s)) \/ MakePrefixTree PROVE Match'
  <2>1. GrownFrom(table, table') /\ UNCHANGED <<caches, scan, result>>
    BY <1>0, <1>7, TableGrows
  <2>2. tokensCache' = tokensCache /\ scan' = scan /\ result' = result
    BY <2>1 DEF caches
  <2>3. Piece(scan') = Piece(scan)
    BY <2>2 DEF Piece
  <2>4. EntriesAsked(table', tokensCache')
    BY <2>1, <2>2, AskedGrows DEF Match, EntriesAsked
  <2>5. scan.pc # "idle" => AllAsked(table', scan.read, Piece(scan), scan.using, scan.match)
    BY <2>1, AskedGrows DEF Match
  <2>6. ASSUME NEW segments, SegmentsAsked(table, segments, scan.using, scan.match)
        PROVE  SegmentsAsked(table', segments, scan.using, scan.match)
    BY <2>1, <2>6, AskedGrows DEF SegmentsAsked
  <2> QED BY <2>2, <2>3, <2>4, <2>5, <2>6 DEF Match
<1>8. UNCHANGED vars => Match'
  <2> SUFFICES ASSUME UNCHANGED vars PROVE Match'
    OBVIOUS
  <2>1. table' = table /\ tokensCache' = tokensCache /\ scan' = scan /\ result' = result
    BY DEF vars
  <2> QED BY <2>1 DEF Match, Piece
<1> QED BY <1>1, <1>2, <1>3, <1>4, <1>5, <1>6, <1>7, <1>8, NextSteps

\* For any table, and whatever is cached, fails or is created on the way: each token of a
\* segment is a row whose pattern, or a value of it, is the segment's text, and it is
\* exact if the call wants so.
THEOREM TokenizerTokensMatch == Spec => []TokensMatch
<1>1. Init => Match
  BY DEF Init, IdleScan, Match, EntriesAsked, SegmentsAsked
<1>2. Match => TokensMatch
  BY DEF Match, SegmentsAsked, AllAsked, AskedFor, TokensMatch
<1> QED BY <1>1, <1>2, NextMatch, TypeInvariant, PTL DEF Spec

-----------------------------------------------------------------------------
(* The tokens of a result stay alive.                                      *)

\* Twice the number of pieces that a call has looked up before this one at most: those
\* that begin left of where it stands, and the shorter ones that begin there.
LookedUp(s) == (s.from - 1) * (2 * Len(s.text) - s.from + 2) + 2 * (s.upto - s.from)

\* The entry for the key, if there is one, is among the l / 2 youngest.
Near(c, key, l) ==
  \A p \in DOMAIN c : c[p].key = key => 2 * (Len(c) - p + 1) <= l

KeyOf(x, s) == [text |-> x.text, using |-> s.using, match |-> s.match]

Safe(c, x, s) == Near(c, KeyOf(x, s), LookedUp(s)) /\ ~x.freed

SafeSegments(c, segments, s) == \A i \in DOMAIN segments : Safe(c, segments[i], s)

Alive ==
  /\ KeysDiffer(tokensCache)
  /\ scan.pc = "probe" => ~Cached(tokensCache, Key(scan))
  /\ Lookups(scan.text) < CacheSize =>
       SafeSegments(tokensCache, scan.held, scan) /\ SafeSegments(tokensCache, result, scan)

LEMMA TouchedNear ==
  ASSUME NEW E, NEW c \in Seq(E), NEW d \in Seq(E), NEW new, Touched(c, d, new),
         NEW key, NEW l \in Nat, NEW m \in Nat, l + 2 <= m
  PROVE  /\ Near(c, key, l) => Near(d, key, m)
         /\ KeysDiffer(d) => Near(d, new, m)
<1>1. /\ Len(c) \in Nat /\ Len(d) \in Nat /\ DOMAIN c = 1..Len(c) /\ DOMAIN d = 1..Len(d)
      /\ Len(d) \in DOMAIN d
  BY LenProperties, EmptySeq DEF Touched
<1>2. ASSUME NEW p \in DOMAIN d, p = Len(d) PROVE 2 * (Len(d) - p + 1) <= m
  BY <1>1, <1>2
<1>3. ASSUME Near(c, key, l), NEW p \in DOMAIN d, d[p].key = key, p # Len(d)
      PROVE  2 * (Len(d) - p + 1) <= m
  <2>1. PICK j \in DOMAIN c : d[p] = c[j] /\ Len(d) - p <= Len(c) - j + 1
    BY <1>3 DEF Touched
  <2>2. 2 * (Len(c) - j + 1) <= l
    BY <1>3, <2>1 DEF Near
  <2>3. p \in Nat /\ j \in Nat
    BY <1>1
  <2> QED BY <1>1, <2>1, <2>2, <2>3
<1>4. Near(c, key, l) => Near(d, key, m)
  BY <1>2, <1>3 DEF Near
<1>5. ASSUME KeysDiffer(d), NEW p \in DOMAIN d, d[p].key = new PROVE p = Len(d)
  BY <1>1, <1>5 DEF KeysDiffer, Touched
<1>6. KeysDiffer(d) => Near(d, new, m)
  BY <1>2, <1>5 DEF Near
<1> QED BY <1>4, <1>6

LEMMA NearMore ==
  ASSUME NEW E, NEW c \in Seq(E), NEW key, NEW l \in Nat, NEW m \in Nat, l <= m, Near(c, key, l)
  PROVE  Near(c, key, m)
<1>1. Len(c) \in Nat /\ DOMAIN c = 1..Len(c)
  BY LenProperties
<1>2. ASSUME NEW p \in DOMAIN c, c[p].key = key PROVE 2 * (Len(c) - p + 1) <= m
  <2>1. p \in Nat /\ 2 * (Len(c) - p + 1) <= l
    BY <1>1, <1>2 DEF Near
  <2> QED BY <1>1, <2>1
<1> QED BY <1>2 DEF Near

\* Sums of pieces: a left of where the scan stands, b from there on.
LEMMA PieceSums ==
  ASSUME NEW a \in Nat, NEW b \in Nat \ {0}, NEW d \in 0..(b - 1), NEW m \in 1..b
  PROVE  LET before == a * (a + 2 * b + 1) IN
         /\ before \in Nat
         /\ before + 2 * d + 2 <= (a + b) * (a + b + 1)
         /\ before + 2 * d + 2 <= (a + m) * (a + m + 2 * (b - m) + 1)
<1> DEFINE before == a * (a + 2 * b + 1)
<1>1. before \in Nat
  BY DEF before
<1>2. (a + b) * (a + b + 1) = before + b * (b + 1)
  OBVIOUS
<1>3. 2 * b <= b * (b + 1)
  <2>1. b * (b + 1) = 2 * b + b * (b - 1)
    OBVIOUS
  <2>2. b * (b - 1) \in Nat
    <3>1. \A x, y \in Nat : x * y \in Nat
      OBVIOUS
    <3> QED BY <3>1
  <2> QED BY <2>1, <2>2
<1>4. (a + m) * (a + m + 2 * (b - m) + 1) = before + m * (2 * b + 1 - m)
  OBVIOUS
<1>5. 2 * b <= m * (2 * b + 1 - m)
  <2>1. m * (2 * b + 1 - m) = 2 * b + (m - 1) * (2 * b - m)
    OBVIOUS
  <2>2. (m - 1) * (2 * b - m) \in Nat
    <3>1. \A x, y \in Nat : x * y \in Nat
      OBVIOUS
    <3>2. m - 1 \in Nat /\ 2 * b - m \in Nat
      OBVIOUS
    <3> QED BY <3>1, <3>2
  <2>3. m * (2 * b + 1 - m) \in Int
    OBVIOUS
  <2> QED BY <2>1, <2>2, <2>3
<1>6. 2 * d + 2 <= 2 * b
  OBVIOUS
<1> HIDE DEF before
<1>7. before + 2 * d + 2 <= (a + b) * (a + b + 1)
  <2> DEFINE x == b * (b + 1)
  <2>1. x \in Int
    OBVIOUS
  <2> HIDE DEF x
  <2>2. 2 * b <= x /\ (a + b) * (a + b + 1) = before + x
    BY <1>2, <1>3 DEF x
  <2>3. before + 2 * d + 2 <= before + x
    BY <1>1, <1>6, <2>1, <2>2
  <2> QED BY <2>2, <2>3
<1>8. before + 2 * d + 2 <= (a + m) * (a + m + 2 * (b - m) + 1)
  <2> DEFINE x == m * (2 * b + 1 - m)
  <2>1. x \in Int
    OBVIOUS
  <2> HIDE DEF x
  <2>2. 2 * b <= x /\ (a + m) * (a + m + 2 * (b - m) + 1) = before + x
    BY <1>4, <1>5 DEF x
  <2>3. before + 2 * d + 2 <= before + x
    BY <1>1, <1>6, <2>1, <2>2
  <2> QED BY <2>2, <2>3
<1> QED BY <1>1, <1>7, <1>8 DEF before

\* Going on, a call looks up one piece at least; before that, it has not looked up all.
LEMMA LookupsGrow ==
  ASSUME ScanOK(scan), scan.pc # "idle"
  PROVE  /\ LookedUp(scan) \in Nat
         /\ LookedUp(scan) + 2 <= Len(scan.text) * (Len(scan.text) + 1)
         /\ \A held, segments :
              Begins(scan, held) /\ SameCall /\ (Longer(held, segments) \/ Cut(held, segments)) =>
                LookedUp(scan') \in Nat /\ LookedUp(scan) + 2 <= LookedUp(scan')
<1> DEFINE n == Len(scan.text)
           from == scan.from
           upto == scan.upto
<1>1. n \in Nat /\ from \in Nat \ {0} /\ upto \in Nat /\ from <= upto /\ upto <= n
  BY LenProperties DEF ScanOK, Text
<1> DEFINE a == from - 1
           b == n - from + 1
           d == upto - from
<1>2. /\ a \in Nat /\ b \in Nat \ {0} /\ d \in 0..(b - 1) /\ 1 \in 1..b
      /\ n = a + b /\ from = a + 1
  BY <1>1
<1> DEFINE sum(f, u) == (f - 1) * (2 * n - f + 2) + 2 * (u - f)
<1>3. /\ LookedUp(scan) = a * (2 * n - from + 2) + 2 * d
      /\ 2 * n - from + 2 = a + 2 * b + 1
  <2>1. LookedUp(scan) = a * (2 * n - from + 2) + 2 * d
    BY DEF LookedUp
  <2>2. 2 * n - from + 2 = a + 2 * b + 1
    <3> HIDE DEF n, from, upto
    <3> QED BY <1>1
  <2> QED BY <2>1, <2>2
<1>9. ASSUME NEW s, Len(s.text) = n PROVE LookedUp(s) = sum(s.from, s.upto)
  BY <1>9 DEF LookedUp
<1> HIDE DEF sum
<1> HIDE DEF n, from, upto, a, b, d
<1> DEFINE before == a * (a + 2 * b + 1)
<1>4. before \in Nat /\ before + 2 * d + 2 <= (a + b) * (a + b + 1)
  BY <1>2, PieceSums
<1>5. LookedUp(scan) = before + 2 * d
  BY <1>3
<1>6. n * (n + 1) = (a + b) * (a + b + 1)
  BY <1>2
<1> HIDE DEF before
<1>7. LookedUp(scan) \in Nat /\ LookedUp(scan) + 2 <= n * (n + 1)
  <2>1. before + 2 * d \in Nat /\ before + 2 * d + 2 <= (a + b) * (a + b + 1)
    BY <1>2, <1>4
  <2> QED BY <1>5, <1>6, <2>1
<1>8. ASSUME NEW held, NEW segments, Begins(scan, held), SameCall,
             Longer(held, segments) \/ Cut(held, segments)
      PROVE  LookedUp(scan') \in Nat /\ LookedUp(scan) + 2 <= LookedUp(scan')
  <2>1. Len(scan'.text) = n
    BY <1>8 DEF SameCall, n
  <2>2. CASE Longer(held, segments)
    <3>1. scan'.from = from /\ scan'.upto = upto + 1
      BY <2>2 DEF Longer, from, upto
    <3>2. LookedUp(scan') = a * (2 * n - from + 2) + 2 * (upto + 1 - from)
      <4>1. LookedUp(scan') = sum(from, upto + 1)
        BY <1>9, <2>1, <3>1
      <4> QED BY <1>1, <4>1 DEF sum, a
    <3>3. 2 * (upto + 1 - from) = 2 * d + 2
      BY <1>1 DEF d
    <3>4. LookedUp(scan') = before + (2 * d + 2)
      BY <1>3, <3>2, <3>3 DEF before
    <3> QED BY <1>2, <1>4, <1>5, <3>4
  <2>3. CASE Cut(held, segments)
    <3> DEFINE m == Len(held.text)
    <3>1. m \in 1..(upto - from + 1) /\ held.at = from
      BY <1>8 DEF Begins, from, upto
    <3>2. scan'.from = held.at + m /\ scan'.upto = held.at + m
      BY <2>3 DEF Cut
    <3> HIDE DEF m
    <3>3. m \in 1..b /\ m \in Nat
      BY <1>1, <3>1 DEF b
    <3>4. LookedUp(scan') = (from + m - 1) * (2 * n - (from + m) + 2) + 2 * (from + m - (from + m))
      <4>1. LookedUp(scan') = sum(from + m, from + m)
        BY <1>9, <2>1, <3>1, <3>2
      <4> QED BY <1>1, <3>3, <4>1 DEF sum
    <3>5. /\ from + m - 1 = a + m /\ 2 * n - (from + m) + 2 = a + m + 2 * (b - m) + 1
          /\ 2 * (from + m - (from + m)) = 0
      BY <1>1, <1>2, <3>3
    <3> DEFINE after == (a + m) * (a + m + 2 * (b - m) + 1)
    <3>6. LookedUp(scan') = after + 0 /\ after \in Int
      <4>1. after \in Int
        BY <1>2, <3>3
      <4> QED BY <3>4, <3>5, <4>1
    <3>7. before + 2 * d + 2 <= after
      BY <1>2, <3>3, PieceSums DEF before
    <3> HIDE DEF after
    <3> QED BY <1>2, <1>4, <1>5, <3>6, <3>7
  <2> QED BY <1>8, <2>2, <2>3
<1> QED BY <1>7, <1>8 DEF n

LEMMA AdvanceSafe ==
  ASSUME ScanOK(scan), scan.pc # "idle", NEW held, Begins(scan, held), NEW possible,
         NEW segments \in Seq(Segments), Advance(scan, held, possible, segments), NEW c,
         Near(c, KeyOf(held, scan), LookedUp(scan')), ~held.freed,
         \A i \in DOMAIN segments : Near(c, KeyOf(segments[i], scan), LookedUp(scan')) /\ ~segments[i].freed
  PROVE  SafeSegments(c, scan'.held, scan') /\ SafeSegments(c, result', scan')
<1>0. held \in Segments
  BY DEF Begins
<1>1. SameCall /\ (Longer(held, segments) \/ Cut(held, segments))
  BY Advanced DEF ScanOK
<1>2. ASSUME NEW x PROVE KeyOf(x, scan') = KeyOf(x, scan)
  BY <1>1 DEF SameCall, KeyOf
<1>3. Safe(c, held, scan') /\ \A i \in DOMAIN segments : Safe(c, segments[i], scan')
  BY <1>2 DEF Safe
<1>4. CASE Longer(held, segments)
  <2>1. scan'.held = <<held>> /\ result' = segments
    BY <1>4 DEF Longer
  <2> QED BY <1>3, <2>1 DEF SafeSegments
<1>5. CASE Cut(held, segments)
  <2>1. scan'.held = <<>> /\ result' = Append(segments, held)
    BY <1>5 DEF Cut
  <2>2. /\ result' \in Seq(Segments) /\ Len(result') = Len(segments) + 1
        /\ \A i \in 1..Len(segments) : result'[i] = segments[i]
        /\ result'[Len(segments) + 1] = held
    BY <1>0, <2>1, AppendProperties
  <2>3. /\ DOMAIN segments = 1..Len(segments) /\ Len(segments) \in Nat
        /\ DOMAIN result' = 1..(Len(segments) + 1)
    BY <2>2, LenProperties
  <2>4. \A i \in DOMAIN result' : i \in DOMAIN segments \/ i = Len(segments) + 1
    BY <2>3
  <2>5. SafeSegments(c, result', scan')
    BY <1>3, <2>2, <2>3, <2>4 DEF SafeSegments
  <2>6. SafeSegments(c, scan'.held, scan')
    BY <2>1 DEF SafeSegments
  <2> QED BY <2>5, <2>6
<1> QED BY <1>1, <1>4, <1>5

\* The entry that an addition drops is none of a segment's.
LEMMA NoneFreed ==
  ASSUME TypeInv, scan.pc # "idle", Lookups(scan.text) < CacheSize, Evicts(tokensCache),
         SafeSegments(tokensCache, result, scan)
  PROVE  \A i \in DOMAIN result : Freed(result, Head(tokensCache))[i] = result[i]
<1> DEFINE c == tokensCache
           n == Len(scan.text)
<1>1. /\ c \in Seq(Found) /\ Len(c) \in Nat /\ DOMAIN c = 1..Len(c) /\ result \in Seq(Segments)
      /\ DOMAIN result = 1..Len(result) /\ ScanOK(scan)
  BY LenProperties DEF TypeInv
<1> SUFFICES ASSUME NEW i \in DOMAIN result, Freed(result, Head(c))[i] # result[i]
             PROVE  FALSE
  OBVIOUS
<1>2. Head(c).key = KeyOf(result[i], scan)
  <2> DEFINE e == Head(c)
  <2> HIDE DEF e
  <2>1. i \in 1..Len(result) /\ Freed(result, e)[i] # result[i]
    BY <1>1 DEF e
  <2>2. e.key = [text |-> result[i].text, using |-> scan.using, match |-> scan.match]
    BY <1>1, <2>1, FreedSegments
  <2> QED BY <2>2 DEF KeyOf, e
<1>3. Len(c) + 1 >= CacheSize /\ CacheSize \in Nat /\ CacheSize > 1
  BY TokenizerAssumption DEF Evicts
<1>4. 1 \in DOMAIN c /\ c[1].key = KeyOf(result[i], scan)
  <2>1. Len(c) # 0
    BY <1>1, <1>3
  <2>2. c # <<>>
    BY <2>1
  <2>3. Head(c) = c[1]
    BY <1>1, <2>2, HeadTailProperties
  <2> QED BY <1>1, <1>2, <2>1, <2>3
<1>5. 2 * (Len(c) - 1 + 1) <= LookedUp(scan)
  BY <1>4 DEF SafeSegments, Safe, Near
<1>6. LookedUp(scan) \in Nat /\ LookedUp(scan) + 2 <= n * (n + 1)
  BY <1>1, LookupsGrow
<1>7. n \in Nat
  BY <1>1, LenProperties DEF ScanOK, Text
<1> DEFINE x == n * (n + 1)
<1>8. x \in Nat /\ x \div 2 < CacheSize
  <2>1. x \div 2 < CacheSize
    BY DEF Lookups
  <2>2. x \in Nat
    <3> HIDE DEF n
    <3> QED BY <1>7
  <2> QED BY <2>1, <2>2
<1> HIDE DEF x, n, c
<1>9. 2 * Len(c) + 2 <= x
  BY <1>1, <1>5, <1>6, <1>8 DEF x
<1>10. x \div 2 >= Len(c) + 1
  BY <1>1, <1>8, <1>9
<1>11. x \div 2 \in Int
  BY <1>8
<1> QED BY <1>1, <1>3, <1>8, <1>10, <1>11

\* The tokens of the piece were found in the cache, or added to it, which drops no entry
\* of a segment's: what was safe stays safe.
LEMMA TouchesSafely ==
  ASSUME TypeInv, Alive, scan.pc = "find", NEW tokens \in Seq(SymbolRow),
         NEW segments \in Seq(Segments), Goes(tokens, segments),
         tokensCache' \in Seq(Found), KeysDiffer(tokensCache'),
         Touched(tokensCache, tokensCache', Key(scan)),
         Len(segments) = Len(result),
         Lookups(scan.text) < CacheSize =>
           \A i \in DOMAIN result :
             segments[i] = result[i]
  PROVE  Alive'
<1> DEFINE held == Segment(scan, tokens)
           l == LookedUp(scan)
           m == LookedUp(scan')
<1>1. ScanOK(scan) /\ tokensCache \in Seq(Found) /\ result \in Seq(Segments)
  BY DEF TypeInv
<1>2. Begins(scan, held) /\ held.text = Piece(scan) /\ held.freed = FALSE
  BY <1>1, SegmentBegins
<1>3. Advance(scan, held, scan.using \in Head(tokens).more, segments)
  BY DEF Goes
<1> HIDE DEF held
<1>4. SameCall /\ (Longer(held, segments) \/ Cut(held, segments))
  BY <1>1, <1>3, Advanced DEF ScanOK
<1>5. l \in Nat /\ m \in Nat /\ l + 2 <= m
  BY <1>1, <1>2, <1>4, LookupsGrow
<1>6. KeyOf(held, scan) = Key(scan)
  BY <1>2 DEF KeyOf, Key
<1>7. scan'.pc # "probe"
  BY <1>4 DEF Longer, Cut
<1>8. ASSUME Lookups(scan.text) < CacheSize
      PROVE  SafeSegments(tokensCache', scan'.held, scan') /\ SafeSegments(tokensCache', result', scan')
  <2> HIDE DEF l, m
  <2>1. Near(tokensCache', Key(scan), m)
    BY <1>1, <1>5, TouchedNear
  <2>2. DOMAIN segments = DOMAIN result
    BY <1>1, LenProperties
  <2>3. ASSUME NEW i \in DOMAIN segments
        PROVE  Near(tokensCache', KeyOf(segments[i], scan), m) /\ ~segments[i].freed
    <3>1. segments[i] = result[i] /\ Safe(tokensCache, result[i], scan)
      BY <1>8, <2>2 DEF Alive, SafeSegments
    <3>2. Near(tokensCache, KeyOf(segments[i], scan), l) /\ ~segments[i].freed
      BY <3>1 DEF Safe, l
    <3> QED BY <1>1, <1>5, <3>2, TouchedNear
  <2> QED BY <1>1, <1>2, <1>3, <1>6, <2>1, <2>3, AdvanceSafe DEF m
<1>9. scan'.text = scan.text
  BY <1>4 DEF SameCall
<1> QED BY <1>7, <1>8, <1>9 DEF Alive

LEMMA AnswersSafely ==
  ASSUME TypeInv, Alive, scan.pc = "probe", NEW possible, Answers(possible), tokensCache' = tokensCache
  PROVE  Alive'
<1> DEFINE held == HeldOrOther(scan)
           l == LookedUp(scan)
           m == LookedUp(scan')
<1>1. ScanOK(scan) /\ tokensCache \in Seq(Found) /\ result \in Seq(Segments)
  BY DEF TypeInv
<1>2. Begins(scan, held) /\ Advance(scan, held, possible, result)
  BY <1>1, HeldBegins DEF Answers
<1>3. Lookups(scan.text) < CacheSize => Near(tokensCache, KeyOf(held, scan), l) /\ ~held.freed
  <2>1. CASE scan.held # <<>>
    <3>1. 1 \in DOMAIN scan.held
      BY <1>1, <2>1, EmptySeq, LenProperties DEF ScanOK
    <3> QED BY <2>1, <3>1 DEF HeldOrOther, Alive, SafeSegments, Safe
  <2>2. CASE scan.held = <<>>
    <3>1. <<>> \in Seq(SymbolRow)
      OBVIOUS
    <3>2. held.text = Piece(scan) /\ held.freed = FALSE
      BY <1>1, <2>2, <3>1, SegmentBegins DEF HeldOrOther
    <3> HIDE DEF held
    <3>3. KeyOf(held, scan) = Key(scan)
      BY <3>2 DEF KeyOf, Key
    <3>4. ~Cached(tokensCache, Key(scan))
      BY DEF Alive
    <3> QED BY <3>2, <3>3, <3>4 DEF Near, Cached
  <2> QED BY <2>1, <2>2
<1> HIDE DEF held
<1>4. SameCall /\ (Longer(held, result) \/ Cut(held, result))
  BY <1>1, <1>2, Advanced DEF ScanOK
<1>5. l \in Nat /\ m \in Nat /\ l <= m
  <2>1. l \in Nat /\ m \in Nat /\ l + 2 <= m
    BY <1>1, <1>2, <1>4, LookupsGrow
  <2> HIDE DEF l, m
  <2> QED BY <2>1
<1>7. scan'.pc # "probe"
  BY <1>4 DEF Longer, Cut
<1>8. ASSUME Lookups(scan.text) < CacheSize
      PROVE  SafeSegments(tokensCache, scan'.held, scan') /\ SafeSegments(tokensCache, result', scan')
  <2> HIDE DEF l, m
  <2>1. Near(tokensCache, KeyOf(held, scan), m) /\ ~held.freed
    BY <1>1, <1>3, <1>5, <1>8, NearMore
  <2>3. ASSUME NEW i \in DOMAIN result
        PROVE  Near(tokensCache, KeyOf(result[i], scan), m) /\ ~result[i].freed
    <3>1. Near(tokensCache, KeyOf(result[i], scan), l) /\ ~result[i].freed
      BY <1>8 DEF Safe, l, Alive, SafeSegments
    <3> QED BY <1>1, <1>5, <3>1, NearMore
  <2> QED BY <1>1, <1>2, <2>1, <2>3, AdvanceSafe DEF m
<1>9. scan'.text = scan.text
  BY <1>4 DEF SameCall
<1> QED BY <1>7, <1>8, <1>9 DEF Alive

\* A step that leaves the cache of tokens and what the scan holds alone.
LEMMA StaysAlive ==
  ASSUME Alive, tokensCache' = tokensCache, result' = result, SameCall,
         scan'.from = scan.from, scan'.upto = scan.upto, scan'.held = scan.held,
         scan'.pc = "probe" => ~Cached(tokensCache, Key(scan'))
  PROVE  Alive'
<1>1. LookedUp(scan') = LookedUp(scan) /\ scan'.text = scan.text
  BY DEF SameCall, LookedUp
<1>2. ASSUME NEW x PROVE KeyOf(x, scan') = KeyOf(x, scan)
  BY DEF SameCall, KeyOf
<1>3. ASSUME NEW segments, SafeSegments(tokensCache, segments, scan)
      PROVE  SafeSegments(tokensCache, segments, scan')
  BY <1>1, <1>2, <1>3 DEF SafeSegments, Safe
<1> QED BY <1>1, <1>3 DEF Alive

LEMMA NextAlive ==
  ASSUME TypeInv, Alive, [Next]_vars
  PROVE  Alive'
<1>0. ScanOK(scan) /\ result \in Seq(Segments) /\ tokensCache \in Seq(Found) /\ Len(tokensCache) < CacheSize
  BY DEF TypeInv
<1>1. ASSUME NEW text \in Texts, NEW way \in Ways, Start(text, way) PROVE Alive'
  <2>0. tokensCache' = tokensCache
    BY <1>1, ScanStarts DEF caches
  <2>1. CASE scan' = scan /\ result' = result
    <3>1. Key(scan') = Key(scan)
      BY <2>1
    <3> QED BY <2>0, <2>1, <3>1 DEF Alive
  <2>2. CASE scan'.pc = "find" /\ scan'.held = <<>> /\ result' = <<>>
    BY <2>0, <2>2 DEF Alive, SafeSegments
  <2> QED BY <1>1, <2>1, <2>2, ScanStarts
<1>2. ASSUME FindsCached PROVE Alive'
  <2> DEFINE tokens == Entry(tokensCache, Key(scan)).value
  <2>1. tokens \in Seq(SymbolRow) /\ scan.pc = "find" /\ Goes(tokens, result)
    BY <1>2, CachedTokens DEF FindsCached
  <2>2. /\ tokensCache' \in Seq(Found) /\ KeysDiffer(tokensCache')
        /\ Touched(tokensCache, tokensCache', Key(scan))
    BY <1>0, <1>2, FoundInCache DEF FindsCached, Alive
  <2> HIDE DEF tokens
  <2> QED BY <1>0, <2>1, <2>2, TouchesSafely
<1>3. ASSUME FindsNew PROVE Alive'
  <2> DEFINE segments == IF Evicts(tokensCache) THEN Freed(result, Head(tokensCache)) ELSE result
  <2>1. ReadTokens \in Seq(SymbolRow) /\ ReadTokens # <<>> /\ scan.pc = "find" /\ Goes(ReadTokens, segments)
    BY <1>3, TokensRead DEF FindsNew
  <2>2. segments \in Seq(Segments) /\ Len(segments) = Len(result)
    BY <1>0, FreedSegments
  <2>3. [key |-> Key(scan), value |-> ReadTokens] \in Found
    BY <1>0, <2>1, KeyTypes DEF Found
  <2>4. /\ tokensCache' \in Seq(Found) /\ KeysDiffer(tokensCache')
        /\ Touched(tokensCache, tokensCache', Key(scan))
    BY <1>0, <1>3, <2>3, AddedToCache DEF FindsNew, Alive
  <2>5. Lookups(scan.text) < CacheSize => \A i \in DOMAIN result : segments[i] = result[i]
    BY <2>1, NoneFreed DEF Alive
  <2> HIDE DEF segments
  <2> QED BY <2>1, <2>2, <2>4, <2>5, TouchesSafely
<1>4. ASSUME FindsMissed \/ FindsNone PROVE Alive'
  <2>1. /\ SameCall /\ scan'.from = scan.from /\ scan'.upto = scan.upto /\ scan'.held = scan.held
        /\ Key(scan') = Key(scan)
    BY <1>0, <1>4, ScanProbes DEF FindsMissed, FindsNone
  <2>2. ~Cached(tokensCache, Key(scan)) /\ tokensCache' = tokensCache /\ result' = result
    BY <1>4 DEF FindsMissed, FindsNone, caches
  <2> QED BY <2>1, <2>2, StaysAlive
<1>5. ASSUME ReadAgain PROVE Alive'
  <2>1. PICK read \in Seq(SymbolRow) : scan' = [scan EXCEPT !.read = read]
    BY <1>5, ReadsAgain
  <2>2. scan.pc = "find" /\ tokensCache' = tokensCache /\ result' = result
    BY <1>5 DEF ReadAgain, caches
  <2>3. /\ SameCall /\ scan'.from = scan.from /\ scan'.upto = scan.upto /\ scan'.held = scan.held
        /\ scan'.pc = "find"
    BY <1>0, <2>1, <2>2, ScanReads
  <2> QED BY <2>2, <2>3, StaysAlive
<1>6. ProbesCached \/ (\E possible \in BOOLEAN : ProbesNew(possible)) => Alive'
  BY AnswersSafely DEF ProbesCached, ProbesNew
<1>7. (\E s \in NewSymbols : CreateSymbol(s)) \/ MakePrefixTree \/ UNCHANGED vars => Alive'
  <2> SUFFICES ASSUME (\E s \in NewSymbols : CreateSymbol(s)) \/ MakePrefixTree \/ UNCHANGED vars
               PROVE  Alive'
    OBVIOUS
  <2>1. tokensCache' = tokensCache /\ scan' = scan /\ result' = result
    BY DEF CreateSymbol, MakePrefixTree, vars, caches
  <2>2. Key(scan') = Key(scan)
    BY <2>1
  <2> QED BY <2>1, <2>2 DEF Alive
<1> QED BY <1>1, <1>2, <1>3, <1>4, <1>5, <1>6, <1>7, NextSteps

\* For any table and cache size, and whatever is looked up again: no token of a result is
\* freed while the call runs, nor before the next, when the text has fewer pieces than
\* the cache has entries.
THEOREM TokenizerTokensAlive == Spec => []TokensAlive
<1>1. Init => Alive
  BY DEF Init, IdleScan, Alive, KeysDiffer, SafeSegments
<1>2. Alive => TokensAlive
  BY DEF Alive, SafeSegments, Safe, TokensAlive
<1> QED BY <1>1, <1>2, NextAlive, TypeInvariant, PTL DEF Spec

-----------------------------------------------------------------------------
(* Longest tokens: the table.                                              *)

LEMMA PrefixIf ==
  ASSUME NEW X, NEW a \in Seq(X), NEW b \in Seq(X), Len(a) <= Len(b),
         \A i \in 1..Len(a) : a[i] = b[i]
  PROVE  IsPrefix(a, b)
<1> DEFINE k == Len(a)
           m == Len(b)
<1>1. k \in Nat /\ m \in Nat /\ k <= m /\ k \in Int /\ 1 \in Int
  BY LenProperties
<1>2. \A i \in 1..m : b[i] \in X
  BY ElementOfSeq
<1>3. SubSeq(a, 1, k) = a
  BY SubSeqFull
<1> HIDE DEF k, m
<1> DEFINE c == SubSeq(b, 1, k)
<1>4. /\ c \in Seq(X) /\ Len(c) = IF 1 <= k THEN k - 1 + 1 ELSE 0
      /\ \A i \in 1..(k - 1 + 1) : c[i] = b[1 + i - 1]
  <2>1. \A i \in 1..k : b[i] \in X
    BY <1>1, <1>2
  <2> QED BY <1>1, <2>1, SubSeqProperties
<1> HIDE DEF c
<1>5. Len(c) = k /\ \A i \in 1..k : c[i] = a[i]
  <2>1. Len(c) = k
    BY <1>1, <1>4
  <2>2. \A i \in 1..k : i \in 1..(k - 1 + 1) /\ 1 + i - 1 = i
    BY <1>1
  <2>3. \A i \in 1..k : a[i] = b[i]
    BY DEF k
  <2> QED BY <1>4, <2>1, <2>2, <2>3
<1>6. c = a
  BY <1>4, <1>5, SeqEqual DEF k
<1> QED BY <1>1, <1>3, <1>6 DEF IsPrefix, c, k, m

\* A piece begins the longer ones from the same place, also when case is ignored.
LEMMA PiecesBegin ==
  ASSUME NEW text \in Text, NEW from \in Nat \ {0}, NEW upto \in Nat, NEW u \in Nat,
         from <= upto, upto < u, u <= Len(text)
  PROVE  LET a == SubSeq(text, from, upto)
             b == SubSeq(text, from, u)
         IN a \in Text /\ b \in Text /\ a # <<>> /\ IsStrictPrefix(a, b) /\ IsPrefix(Fold(a), Fold(b))
<1> DEFINE a == SubSeq(text, from, upto)
           b == SubSeq(text, from, u)
           k == upto - from + 1
           m == u - from + 1
<1>1. /\ Len(text) \in Nat /\ \A i \in 1..Len(text) : text[i] \in Char
      /\ from \in Int /\ upto \in Int /\ u \in Int
  BY LenProperties, ElementOfSeq DEF Text
<1>2. a \in Text /\ Len(a) = k /\ \A i \in 1..k : a[i] = text[from + i - 1]
  <2>1. \A i \in from..upto : text[i] \in Char
    BY <1>1
  <2> QED BY <1>1, <2>1, SubSeqProperties DEF Text
<1>3. b \in Text /\ Len(b) = m /\ \A i \in 1..m : b[i] = text[from + i - 1]
  <2>1. \A i \in from..u : text[i] \in Char
    BY <1>1
  <2> QED BY <1>1, <2>1, SubSeqProperties DEF Text
<1>4. k \in Nat \ {0} /\ m \in Nat /\ k < m /\ \A i \in 1..k : i \in 1..m
  OBVIOUS
<1> HIDE DEF a, b, k, m
<1>5. \A i \in 1..k : a[i] = b[i]
  BY <1>2, <1>3, <1>4
<1>6. IsPrefix(a, b)
  <2>1. a \in Seq(Char) /\ b \in Seq(Char) /\ Len(a) <= Len(b) /\ \A i \in 1..Len(a) : a[i] = b[i]
    BY <1>2, <1>3, <1>4, <1>5 DEF Text
  <2> QED BY <2>1, PrefixIf
<1>7. a # <<>> /\ a # b
  BY <1>2, <1>3, <1>4
<1>8. /\ Fold(a) \in Text /\ Fold(b) \in Text /\ Len(Fold(a)) = k /\ Len(Fold(b)) = m
  BY <1>2, <1>3, FoldText
<1>9. \A i \in 1..k : Fold(a)[i] = Fold(b)[i]
  <2>1. DOMAIN a = 1..k /\ DOMAIN b = 1..m
    BY <1>2, <1>3, LenProperties DEF Text
  <2>2. \A i \in 1..k : Fold(a)[i] = Lower[a[i]]
    BY <2>1 DEF Fold
  <2>3. \A i \in 1..m : Fold(b)[i] = Lower[b[i]]
    BY <2>1 DEF Fold
  <2> QED BY <1>4, <1>5, <2>2, <2>3
<1>10. IsPrefix(Fold(a), Fold(b))
  <2>1. /\ Fold(a) \in Seq(Char) /\ Fold(b) \in Seq(Char) /\ Len(Fold(a)) <= Len(Fold(b))
        /\ \A i \in 1..Len(Fold(a)) : Fold(a)[i] = Fold(b)[i]
    BY <1>4, <1>8, <1>9 DEF Text
  <2> QED BY <2>1, PrefixIf
<1> QED BY <1>2, <1>3, <1>6, <1>7, <1>10 DEF IsStrictPrefix, a, b

\* A flag tells of the longer symbol.
LEMMA FlagTold ==
  ASSUME NEW t, FlagsComplete(t), NEW r \in t, NEW q \in t, NEW column \in {"pattern", "value1", "value2"},
         r.sym[column] # <<>>, IsStrictPrefix(r.sym[column], q.sym[column])
  PROVE  FlagOf(column) \in r.more
<1>1. r.sym[column] \in Extended(t, column)
  BY DEF Extended
<1>2. \E i \in DOMAIN Columns : Columns[i] = column
  <2>1. /\ 1 \in DOMAIN Columns /\ 2 \in DOMAIN Columns /\ 3 \in DOMAIN Columns
        /\ Columns[1] = "pattern" /\ Columns[2] = "value1" /\ Columns[3] = "value2"
    BY DEF Columns
  <2> QED BY <2>1
<1> QED BY <1>1, <1>2 DEF FlagsComplete

\* When a longer piece has tokens, the first token of this one says so.
LEMMA LongerFlagged ==
  ASSUME NEW t, GoodTable(t), FlagsComplete(t), NEW using \in {"pattern", "value"}, NEW match,
         using = "value" => ColumnsApart(t), NEW a \in Text, NEW b \in Text, a # <<>>, IsStrictPrefix(a, b),
         Matches(t, a, using, match) # <<>>, Matches(t, b, using, match) # <<>>
  PROVE  using \in Head(Matches(t, a, using, match)).more
<1> DEFINE tokens == Matches(t, a, using, match)
           x == Head(tokens)
<1>1. tokens \in Seq(SymbolRow) /\ tokens # <<>> /\ \A i \in DOMAIN tokens : TokenOf(t, tokens[i], a, using, match)
  BY MatchesAsked
<1>2. PICK q \in t : Asks(q, b, using, match)
  BY MatchesAsked
<1> HIDE DEF tokens
<1>3. TokenOf(t, x, a, using, match)
  <2>1. 1 \in DOMAIN tokens /\ x = tokens[1]
    BY <1>1, EmptySeq, LenProperties, HeadTailProperties
  <2> QED BY <1>1, <2>1
<1>4. PICK r \in t : r.more = x.more /\ Asks(r, a, using, match)
  BY <1>3 DEF TokenOf
<1> HIDE DEF x
<1>5. using \in r.more
  <2>1. CASE using = "pattern"
    <3>1. r.sym["pattern"] = a /\ q.sym["pattern"] = b
      BY <1>2, <1>4, <2>1 DEF Asks
    <3> QED BY <2>1, <3>1, FlagTold DEF FlagOf
  <2>2. CASE using = "value"
    <3>1. a \in {r.sym["value1"], r.sym["value2"]} /\ b \in {q.sym["value1"], q.sym["value2"]}
      BY <1>2, <1>4, <2>2 DEF Asks
    <3>2. b # <<>>
      BY LenProperties, EmptySeq DEF IsStrictPrefix, IsPrefix, Text
    <3>3. /\ ~(a = r.sym["value1"] /\ b = q.sym["value2"])
          /\ ~(a = r.sym["value2"] /\ b = q.sym["value1"])
      <4>1. IsPrefix(a, b)
        BY DEF IsStrictPrefix
      <4>2. ColumnsApart(t)
        BY <2>2
      <4> QED BY <3>2, <4>1, <4>2 DEF ColumnsApart
    <3>4. CASE a = r.sym["value1"] /\ b = q.sym["value1"]
      BY <2>2, <3>4, FlagTold DEF FlagOf
    <3>5. CASE a = r.sym["value2"] /\ b = q.sym["value2"]
      BY <2>2, <3>5, FlagTold DEF FlagOf
    <3> QED BY <3>1, <3>3, <3>4, <3>5
  <2> QED BY <2>1, <2>2
<1> QED BY <1>4, <1>5 DEF x, tokens

\* When a longer piece has tokens, the statement says so.
LEMMA LongerLike ==
  ASSUME NEW t, GoodTable(t), NEW using \in {"pattern", "value"}, NEW match, NEW a, NEW b,
         IsPrefix(Fold(a), Fold(b)), Matches(t, b, using, match) # <<>>
  PROVE  MoreLike(t, a, using)
<1>1. PICK q \in t : Asks(q, b, using, match)
  BY MatchesAsked
<1>2. CASE using = "pattern"
  <2>1. q.sym["pattern"] = b
    BY <1>1, <1>2 DEF Asks
  <2> QED BY <1>2, <2>1 DEF MoreLike
<1>3. CASE using = "value"
  <2>1. \E column \in {"value1", "value2"} : q.sym[column] = b
    BY <1>1, <1>3 DEF Asks
  <2> QED BY <1>3, <2>1 DEF MoreLike
<1> QED BY <1>2, <1>3

-----------------------------------------------------------------------------
(* Longest tokens: the caches and the scan.                                *)

FreshTokens(t, cache) ==
  \A i \in DOMAIN cache :
    cache[i].value = Matches(t, cache[i].key.text, cache[i].key.using, cache[i].key.match)

FreshMisses(t, cache) ==
  \A i \in DOMAIN cache :
    Matches(t, cache[i].key.text, cache[i].key.using, cache[i].key.match) = <<>>

FreshAnswers(t, cache) ==
  \A i \in DOMAIN cache : cache[i].value = MoreLike(t, cache[i].key.text, cache[i].key.using)

\* The tokens the text of s has between the places from and upto.
PieceOf(t, s, upto) == Matches(t, SubSeq(s.text, s.from, upto), s.using, s.match)

\* Where a segment with tokens ends.
EndOf(s, x) == IF x.tokens # <<>> THEN s.from + Len(x.text) - 1 ELSE s.from - 1

HeldEnd(s) == IF s.held # <<>> THEN EndOf(s, s.held[1]) ELSE s.from - 1

Tried(s) == IF s.pc = "probe" THEN s.upto ELSE s.upto - 1

\* Between what is held and what was tried last no piece has tokens.
NoneBetween(t, s) == \A u \in (HeldEnd(s) + 1)..Tried(s) : PieceOf(t, s, u) = <<>>

Fresh ==
  /\ FlagsComplete(table) /\ scan.read = <<>>
  /\ FreshTokens(table, tokensCache) /\ FreshMisses(table, missCache)
  /\ FreshAnswers(table, possibleCache)
  /\ NoneBetween(table, scan)

FreshInv == changes = 0 /\ faults = 0 => Fresh

Apart == scan.using = "value" => ColumnsApart(table)

AddsLongest == \A i \in NewSegments : IsLongest(result'[i])

\* The scan goes on with the segment held, behind which there are no tokens up to
\* where it is, nor anywhere when no longer symbols are possible.
LEMMA AdvanceLongest ==
  ASSUME TypeInv, scan.pc # "idle", NEW held, Begins(scan, held), NEW possible,
         NEW segments \in Seq(Segments), Len(segments) = Len(result),
         Advance(scan, held, possible, segments),
         \A u \in (EndOf(scan, held) + 1)..scan.upto : PieceOf(table, scan, u) = <<>>,
         Apart /\ ~possible =>
           \A u \in (scan.upto + 1)..Len(scan.text) : PieceOf(table, scan, u) = <<>>
  PROVE  /\ scan'.read = <<>>
         /\ NoneBetween(table, scan')
         /\ Apart => AddsLongest
<1> DEFINE n == Len(scan.text)
           from == scan.from
           upto == scan.upto
           k == Len(held.text)
<1>1. ScanOK(scan) /\ result \in Seq(Segments)
  BY DEF TypeInv
<1>2. n \in Nat /\ from \in Nat \ {0} /\ upto \in Nat /\ from <= upto /\ upto <= n
  BY <1>1, LenProperties DEF ScanOK, Text
<1>3. k \in 1..(upto - from + 1) /\ held.at = from /\ held \in Segments
  BY DEF Begins
<1>4. SameCall /\ scan'.read = <<>>
      /\ \/ possible /\ Longer(held, segments)
         \/ ~(possible /\ upto < n) /\ Cut(held, segments)
  BY <1>1, Advanced DEF ScanOK
<1>5. ASSUME NEW u PROVE scan'.from = from => PieceOf(table, scan', u) = PieceOf(table, scan, u)
  BY <1>4 DEF PieceOf, SameCall
<1>6. DOMAIN segments = 1..Len(segments) /\ DOMAIN result = 1..Len(result) /\ Len(result) \in Nat
  BY <1>1, LenProperties
<1> HIDE DEF n, from, upto, k
<1>7. CASE Longer(held, segments)
  <2>1. /\ scan'.pc = "find" /\ scan'.from = from /\ scan'.upto = upto + 1
        /\ scan'.held = <<held>> /\ result' = segments
    BY <1>7 DEF Longer, from, upto
  <2>2. HeldEnd(scan') = EndOf(scan, held) /\ Tried(scan') = upto
    <3>1. scan'.held # <<>> /\ scan'.held[1] = held
      BY <2>1
    <3>2. HeldEnd(scan') = EndOf(scan', held) /\ EndOf(scan', held) = EndOf(scan, held)
      BY <2>1, <3>1 DEF HeldEnd, EndOf, from
    <3>3. Tried(scan') = upto + 1 - 1
      <4>1. Tried(scan') = scan'.upto - 1
        BY <2>1 DEF Tried
      <4> QED BY <1>2, <2>1, <4>1
    <3>4. upto + 1 - 1 = upto
      BY <1>2
    <3> QED BY <3>2, <3>3, <3>4
  <2>3. NoneBetween(table, scan')
    BY <1>5, <2>1, <2>2 DEF NoneBetween, upto
  <2>4. NewSegments = {}
    BY <1>6, <2>1 DEF NewSegments
  <2> QED BY <1>4, <2>3, <2>4 DEF AddsLongest
<1>8. CASE ~(possible /\ upto < n) /\ Cut(held, segments)
  <2> DEFINE next == held.at + k
  <2>1. /\ scan'.pc # "probe" /\ scan'.from = next /\ scan'.upto = next
        /\ scan'.held = <<>> /\ result' = Append(segments, held)
    BY <1>8 DEF Cut, k
  <2>2. NoneBetween(table, scan')
    <3>0. next \in Nat
      <4> HIDE DEF next
      <4>1. next = from + k
        BY <1>3 DEF next
      <4> QED BY <1>2, <1>3, <4>1
    <3> HIDE DEF next
    <3>1. HeldEnd(scan') = next - 1 /\ Tried(scan') = next - 1
      BY <2>1 DEF HeldEnd, Tried
    <3>2. (HeldEnd(scan') + 1)..Tried(scan') = {}
      BY <3>0, <3>1
    <3> QED BY <3>2 DEF NoneBetween
  <2>3. ASSUME Apart, NEW i \in NewSegments PROVE IsLongest(result'[i])
    <3>1. result'[i] = held
      <4>1. /\ result' \in Seq(Segments) /\ Len(result') = Len(segments) + 1
            /\ result'[Len(segments) + 1] = held
        BY <1>3, <2>1, AppendProperties
      <4>2. DOMAIN result' = 1..(Len(result) + 1)
        BY <4>1, LenProperties
      <4>3. i \in 1..(Len(result) + 1) /\ i \notin 1..Len(result)
        BY <1>6, <4>2 DEF NewSegments
      <4>4. i = Len(result) + 1
        BY <1>6, <4>3
      <4> QED BY <4>1, <4>4
    <3>2. ASSUME NEW u \in from..n, PieceOf(table, scan, u) # <<>>
          PROVE  held.tokens # <<>> /\ u <= from + k - 1
      <4>1. u <= upto
        <5>1. CASE upto < n
          <6>1. ~possible
            BY <1>8, <5>1
          <6>2. u \notin (upto + 1)..n
            BY <2>3, <3>2, <6>1 DEF n, upto
          <6> QED BY <1>2, <6>2
        <5>2. CASE ~(upto < n)
          BY <1>2, <5>2
        <5> QED BY <5>1, <5>2
      <4>2. u \notin (EndOf(scan, held) + 1)..upto
        BY <3>2 DEF upto
      <4>3. CASE held.tokens = <<>>
        <5>1. EndOf(scan, held) = from - 1
          BY <4>3 DEF EndOf, from
        <5> QED BY <1>2, <4>1, <4>2, <5>1
      <4>4. CASE held.tokens # <<>>
        <5>1. EndOf(scan, held) = from + k - 1
          BY <4>4 DEF EndOf, from, k
        <5> QED BY <1>2, <1>3, <4>1, <4>2, <4>4, <5>1
      <4> QED BY <4>3, <4>4
    <3>3. ASSUME NEW m \in 1..(n - from + 1),
                 Matches(table, SubSeq(scan.text, from, from + m - 1), scan.using, scan.match) # <<>>
          PROVE  m <= k /\ held.tokens # <<>>
      <4>1. from + m - 1 \in from..n
        BY <1>2
      <4>2. PieceOf(table, scan, from + m - 1) # <<>>
        BY <3>3 DEF PieceOf, from
      <4>3. held.tokens # <<>> /\ from + m - 1 <= from + k - 1
        BY <3>2, <4>1, <4>2
      <4> QED BY <1>2, <1>3, <4>3
    <3>4. IsLongest(held)
      BY <1>3, <3>3 DEF IsLongest, n, k
    <3> QED BY <3>1, <3>4
  <2> QED BY <1>4, <2>2, <2>3 DEF AddsLongest
<1> QED BY <1>4, <1>7, <1>8

\* The piece has tokens, and the first of them tells whether it is worth going on.
LEMMA GoesLongest ==
  ASSUME TypeInv, FlagsComplete(table), scan.pc = "find",
         NEW tokens \in Seq(SymbolRow), tokens # <<>>,
         tokens = Matches(table, Piece(scan), scan.using, scan.match),
         NEW segments \in Seq(Segments), Len(segments) = Len(result), Goes(tokens, segments)
  PROVE  /\ scan'.read = <<>>
         /\ NoneBetween(table, scan')
         /\ Apart => AddsLongest
<1> DEFINE held == Segment(scan, tokens)
           possible == scan.using \in Head(tokens).more
<1>1. ScanOK(scan) /\ GoodTable(table) /\ scan.using \in {"pattern", "value"} /\ scan.text \in Text
  BY DEF TypeInv, ScanOK
<1>2. /\ Len(scan.text) \in Nat /\ scan.from \in Nat \ {0} /\ scan.upto \in Nat
      /\ scan.from <= scan.upto /\ scan.upto <= Len(scan.text)
  BY <1>1, LenProperties DEF ScanOK, Text
<1>3. Begins(scan, held) /\ held.text = Piece(scan) /\ held.tokens = tokens
  BY <1>1, SegmentBegins
<1>4. Advance(scan, held, possible, segments)
  BY DEF Goes
<1> HIDE DEF held
<1>5. ASSUME NEW u \in (EndOf(scan, held) + 1)..scan.upto PROVE PieceOf(table, scan, u) = <<>>
  <2>1. Len(Piece(scan)) = scan.upto - scan.from + 1
    BY <1>1, PieceText
  <2>2. EndOf(scan, held) = scan.from + (scan.upto - scan.from + 1) - 1
    BY <1>3, <2>1 DEF EndOf
  <2>3. EndOf(scan, held) = scan.upto
    BY <1>2, <2>2
  <2> QED BY <1>2, <2>3
<1>6. ASSUME Apart, ~possible, NEW u \in (scan.upto + 1)..Len(scan.text)
      PROVE  PieceOf(table, scan, u) = <<>>
  <2> DEFINE b == SubSeq(scan.text, scan.from, u)
  <2>1. u \in Nat /\ scan.upto < u /\ u <= Len(scan.text)
    BY <1>2
  <2>2. Piece(scan) \in Text /\ b \in Text /\ Piece(scan) # <<>> /\ IsStrictPrefix(Piece(scan), b)
    BY <1>1, <1>2, <2>1, PiecesBegin DEF Piece
  <2> HIDE DEF b
  <2>3. Matches(table, b, scan.using, scan.match) # <<>> => possible
    BY <1>1, <1>6, <2>2, LongerFlagged DEF Apart
  <2> QED BY <1>6, <2>3 DEF PieceOf, b
<1> HIDE DEF possible
<1> QED BY <1>3, <1>4, <1>5, <1>6, AdvanceLongest

\* The piece has none, and the answer is what the statement would say.
LEMMA AnswersLongest ==
  ASSUME TypeInv, NoneBetween(table, scan), scan.pc = "probe", NEW possible,
         possible = MoreLike(table, Piece(scan), scan.using), Answers(possible)
  PROVE  /\ scan'.read = <<>>
         /\ NoneBetween(table, scan')
         /\ Apart => AddsLongest
<1> DEFINE held == HeldOrOther(scan)
<1>1. /\ ScanOK(scan) /\ GoodTable(table) /\ scan.using \in {"pattern", "value"} /\ scan.text \in Text
      /\ result \in Seq(Segments)
  BY DEF TypeInv, ScanOK
<1>2. /\ Len(scan.text) \in Nat /\ scan.from \in Nat \ {0} /\ scan.upto \in Nat
      /\ scan.from <= scan.upto /\ scan.upto <= Len(scan.text)
  BY <1>1, LenProperties DEF ScanOK, Text
<1>3. Begins(scan, held) /\ Advance(scan, held, possible, result)
  BY <1>1, HeldBegins DEF Answers
<1>4. EndOf(scan, held) = HeldEnd(scan)
  <2>1. CASE scan.held # <<>>
    BY <2>1 DEF HeldOrOther, HeldEnd
  <2>2. CASE scan.held = <<>>
    <3>1. <<>> \in Seq(SymbolRow)
      OBVIOUS
    <3>2. held.tokens = <<>>
      BY <1>1, <2>2, <3>1, SegmentBegins DEF HeldOrOther
    <3> HIDE DEF held
    <3> QED BY <2>2, <3>2 DEF EndOf, HeldEnd
  <2> QED BY <2>1, <2>2
<1> HIDE DEF held
<1>5. \A u \in (EndOf(scan, held) + 1)..scan.upto : PieceOf(table, scan, u) = <<>>
  BY <1>4 DEF NoneBetween, Tried
<1>6. ASSUME ~possible, NEW u \in (scan.upto + 1)..Len(scan.text)
      PROVE  PieceOf(table, scan, u) = <<>>
  <2> DEFINE b == SubSeq(scan.text, scan.from, u)
  <2>1. u \in Nat /\ scan.upto < u /\ u <= Len(scan.text)
    BY <1>2
  <2>2. IsPrefix(Fold(Piece(scan)), Fold(b))
    BY <1>1, <1>2, <2>1, PiecesBegin DEF Piece
  <2> HIDE DEF b
  <2>3. Matches(table, b, scan.using, scan.match) # <<>> => MoreLike(table, Piece(scan), scan.using)
    BY <1>1, <2>2, LongerLike
  <2> QED BY <1>6, <2>3 DEF PieceOf, b
<1> QED BY <1>1, <1>3, <1>5, <1>6, AdvanceLongest

\* Caches with one entry more, or another order.
LEMMA StillFresh ==
  ASSUME NEW t, NEW c, NEW d, \A i \in DOMAIN d : \E j \in DOMAIN c : d[i] = c[j]
  PROVE  /\ FreshTokens(t, c) => FreshTokens(t, d)
         /\ FreshMisses(t, c) => FreshMisses(t, d)
         /\ FreshAnswers(t, c) => FreshAnswers(t, d)
  BY DEF FreshTokens, FreshMisses, FreshAnswers

LEMMA FindsCachedFresh ==
  ASSUME TypeInv, Fresh, FindsCached
  PROVE  Fresh' /\ (Apart => AddsLongest)
<1> DEFINE e == Entry(tokensCache, Key(scan))
           tokens == e.value
<1>1. /\ scan.pc = "find" /\ table' = table /\ missCache' = missCache /\ possibleCache' = possibleCache
      /\ tokensCache \in Seq(Found) /\ result \in Seq(Segments) /\ FlagsComplete(table)
  BY DEF FindsCached, TypeInv, Fresh
<1>2. tokens \in Seq(SymbolRow) /\ tokens # <<>> /\ Goes(tokens, result)
  BY CachedTokens DEF FindsCached
<1>3. e.key = Key(scan) /\ \E i \in DOMAIN tokensCache : e = tokensCache[i]
  BY CachedTokens
<1>4. tokens = Matches(table, e.key.text, e.key.using, e.key.match)
  <2> HIDE DEF e
  <2> QED BY <1>3 DEF Fresh, FreshTokens
<1> HIDE DEF e
<1>5. tokens = Matches(table, Piece(scan), scan.using, scan.match)
  BY <1>3, <1>4 DEF Key
<1>6. FreshTokens(table, tokensCache')
  <2>1. \A i \in DOMAIN tokensCache' : \E j \in DOMAIN tokensCache : tokensCache'[i] = tokensCache[j]
    BY <1>1, FoundInCache DEF FindsCached
  <2> QED BY <2>1, StillFresh DEF Fresh
<1> HIDE DEF tokens
<1>7. scan'.read = <<>> /\ NoneBetween(table, scan') /\ (Apart => AddsLongest)
  BY <1>1, <1>2, <1>5, GoesLongest
<1> QED BY <1>1, <1>6, <1>7 DEF Fresh

LEMMA FindsNewFresh ==
  ASSUME TypeInv, Fresh, FindsNew
  PROVE  Fresh' /\ (Apart => AddsLongest)
<1> DEFINE segments == IF Evicts(tokensCache) THEN Freed(result, Head(tokensCache)) ELSE result
           new == [key |-> Key(scan), value |-> ReadTokens]
<1>1. /\ scan.pc = "find" /\ table' = table /\ missCache' = missCache /\ possibleCache' = possibleCache
      /\ tokensCache \in Seq(Found) /\ Len(tokensCache) < CacheSize /\ result \in Seq(Segments)
      /\ FlagsComplete(table) /\ ScanOK(scan)
  BY DEF FindsNew, TypeInv, Fresh
<1>2. ReadTokens \in Seq(SymbolRow) /\ ReadTokens # <<>> /\ Goes(ReadTokens, segments)
  BY TokensRead DEF FindsNew
<1>3. segments \in Seq(Segments) /\ Len(segments) = Len(result)
  BY <1>1, FreedSegments
<1>4. ReadTokens = Matches(table, Piece(scan), scan.using, scan.match)
  BY TokensRead, ConcatEmptySeq DEF ReadTokens, Fresh
<1>5. FreshTokens(table, tokensCache')
  <2>1. new \in Found
    BY <1>1, <1>2, KeyTypes DEF Found
  <2>2. \A i \in DOMAIN tokensCache' :
          tokensCache'[i] = new \/ \E j \in DOMAIN tokensCache : tokensCache'[i] = tokensCache[j]
    BY <1>1, <2>1, AddedToCache DEF FindsNew
  <2>3. new.value = Matches(table, new.key.text, new.key.using, new.key.match)
    BY <1>4 DEF Key
  <2> HIDE DEF new
  <2> QED BY <2>2, <2>3 DEF Fresh, FreshTokens
<1> HIDE DEF segments
<1>6. scan'.read = <<>> /\ NoneBetween(table, scan') /\ (Apart => AddsLongest)
  BY <1>1, <1>2, <1>3, <1>4, GoesLongest
<1> QED BY <1>1, <1>5, <1>6 DEF Fresh

\* The piece has no tokens, and now the scan knows.
LEMMA ProbesNone ==
  ASSUME TypeInv, Fresh, scan.pc = "find", scan' = [scan EXCEPT !.pc = "probe"], result' = result,
         Matches(table, Piece(scan), scan.using, scan.match) = <<>>
  PROVE  scan'.read = <<>> /\ NoneBetween(table, scan') /\ AddsLongest
<1>1. /\ ScanOK(scan) /\ SameCall /\ scan'.pc = "probe" /\ scan'.from = scan.from /\ scan'.upto = scan.upto
      /\ scan'.read = scan.read /\ scan'.held = scan.held
  BY ScanProbes DEF TypeInv
<1>2. HeldEnd(scan') = HeldEnd(scan) /\ Tried(scan') = scan.upto /\ Tried(scan) = scan.upto - 1
  BY <1>1 DEF HeldEnd, EndOf, Tried
<1>3. \A u : PieceOf(table, scan', u) = PieceOf(table, scan, u)
  BY <1>1 DEF PieceOf, SameCall
<1>4. HeldEnd(scan) \in Int /\ scan.upto \in Nat
  <2>1. scan.from \in Nat /\ scan.upto \in Nat
    BY <1>1, LenProperties DEF ScanOK, Text
  <2>2. scan.held # <<>> => Len(scan.held[1].text) \in Int
    BY <1>1 DEF ScanOK, Begins
  <2> QED BY <2>1, <2>2 DEF HeldEnd, EndOf
<1>5. ASSUME NEW u \in (HeldEnd(scan') + 1)..Tried(scan') PROVE PieceOf(table, scan', u) = <<>>
  <2>1. CASE u = scan.upto
    BY <1>3, <2>1 DEF PieceOf, Piece
  <2>2. CASE u # scan.upto
    <3>1. u \in (HeldEnd(scan) + 1)..Tried(scan)
      BY <1>2, <1>4, <1>5, <2>2
    <3> QED BY <1>3, <3>1 DEF Fresh, NoneBetween
  <2> QED BY <2>1, <2>2
<1>6. NewSegments = {}
  BY DEF NewSegments
<1> QED BY <1>1, <1>5, <1>6 DEF Fresh, NoneBetween, AddsLongest

LEMMA FindsMissedFresh ==
  ASSUME TypeInv, Fresh, FindsMissed
  PROVE  Fresh' /\ (Apart => AddsLongest)
<1>1. /\ scan.pc = "find" /\ scan' = [scan EXCEPT !.pc = "probe"] /\ result' = result
      /\ table' = table /\ tokensCache' = tokensCache /\ missCache' = missCache
      /\ possibleCache' = possibleCache
  BY DEF FindsMissed, caches
<1>2. PICK i \in DOMAIN missCache : missCache[i].key = Key(scan)
  BY DEF FindsMissed, Cached
<1>3. Matches(table, Piece(scan), scan.using, scan.match) = <<>>
  <2> DEFINE k == missCache[i].key
  <2>1. Matches(table, k.text, k.using, k.match) = <<>>
    BY DEF Fresh, FreshMisses
  <2>2. k = Key(scan)
    BY <1>2
  <2> HIDE DEF k
  <2> QED BY <2>1, <2>2 DEF Key
<1>4. scan'.read = <<>> /\ NoneBetween(table, scan') /\ AddsLongest
  BY <1>1, <1>3, ProbesNone
<1> QED BY <1>1, <1>4 DEF Fresh

LEMMA FindsNoneFresh ==
  ASSUME TypeInv, Fresh, FindsNone
  PROVE  Fresh' /\ (Apart => AddsLongest)
<1> DEFINE new == [key |-> Key(scan), value |-> TRUE]
<1>1. /\ scan.pc = "find" /\ scan' = [scan EXCEPT !.pc = "probe"] /\ result' = result
      /\ table' = table /\ tokensCache' = tokensCache /\ possibleCache' = possibleCache
      /\ missCache \in Seq(Missed) /\ Len(missCache) < CacheSize /\ ScanOK(scan)
  BY DEF FindsNone, TypeInv
<1>2. Matches(table, Piece(scan), scan.using, scan.match) = <<>>
  BY TokensRead, ConcatEmptySeq DEF ReadTokens, Fresh, FindsNone
<1>3. scan'.read = <<>> /\ NoneBetween(table, scan') /\ AddsLongest
  BY <1>1, <1>2, ProbesNone
<1>4. FreshMisses(table, missCache')
  <2>1. new \in Missed
    BY <1>1, KeyTypes DEF Missed
  <2>2. \A i \in DOMAIN missCache' :
          missCache'[i] = new \/ \E j \in DOMAIN missCache : missCache'[i] = missCache[j]
    <3> DEFINE value == TRUE
    <3>1. missCache' = AddToCache(missCache, Key(scan), value)
      BY DEF FindsNone
    <3>2. [key |-> Key(scan), value |-> value] \in Missed /\ new = [key |-> Key(scan), value |-> value]
      BY <2>1
    <3> HIDE DEF value, new
    <3>3. \A i \in DOMAIN missCache' :
            \/ missCache'[i] = [key |-> Key(scan), value |-> value]
            \/ \E j \in DOMAIN missCache : missCache'[i] = missCache[j]
      BY <1>1, <3>1, <3>2, AddedToCache
    <3> QED BY <3>2, <3>3
  <2>3. Matches(table, new.key.text, new.key.using, new.key.match) = <<>>
    BY <1>2 DEF Key
  <2> HIDE DEF new
  <2> QED BY <2>2, <2>3 DEF Fresh, FreshMisses
<1> QED BY <1>1, <1>3, <1>4 DEF Fresh

LEMMA ProbesCachedFresh ==
  ASSUME TypeInv, Fresh, ProbesCached
  PROVE  Fresh' /\ (Apart => AddsLongest)
<1> DEFINE e == Entry(possibleCache, PossibleKey(scan))
           possible == e.value
<1>1. /\ scan.pc = "probe" /\ table' = table /\ tokensCache' = tokensCache /\ missCache' = missCache
      /\ possibleCache \in Seq(Answered) /\ Answers(possible) /\ NoneBetween(table, scan)
  BY DEF ProbesCached, TypeInv, Fresh
<1>2. e.key = PossibleKey(scan) /\ \E i \in DOMAIN possibleCache : e = possibleCache[i]
  BY CachedEntry DEF ProbesCached
<1> HIDE DEF e
<1>3. possible = MoreLike(table, e.key.text, e.key.using)
  BY <1>2 DEF Fresh, FreshAnswers
<1>4. possible = MoreLike(table, Piece(scan), scan.using)
  BY <1>2, <1>3 DEF PossibleKey
<1>5. FreshAnswers(table, possibleCache')
  <2>1. \A i \in DOMAIN possibleCache' : \E j \in DOMAIN possibleCache : possibleCache'[i] = possibleCache[j]
    BY <1>1, FoundInCache DEF ProbesCached
  <2> QED BY <2>1, StillFresh DEF Fresh
<1> HIDE DEF possible
<1>6. scan'.read = <<>> /\ NoneBetween(table, scan') /\ (Apart => AddsLongest)
  BY <1>1, <1>4, AnswersLongest
<1> QED BY <1>1, <1>5, <1>6 DEF Fresh

LEMMA ProbesNewFresh ==
  ASSUME TypeInv, Fresh, NEW possible \in BOOLEAN, ProbesNew(possible),
         possible = MoreLike(table, Piece(scan), scan.using)
  PROVE  Fresh' /\ (Apart => AddsLongest)
<1> DEFINE new == [key |-> PossibleKey(scan), value |-> possible]
<1>1. /\ scan.pc = "probe" /\ table' = table /\ tokensCache' = tokensCache /\ missCache' = missCache
      /\ possibleCache \in Seq(Answered) /\ Len(possibleCache) < CacheSize
      /\ Answers(possible) /\ NoneBetween(table, scan) /\ ScanOK(scan)
  BY DEF ProbesNew, TypeInv, Fresh
<1>2. FreshAnswers(table, possibleCache')
  <2>1. new \in Answered
    BY <1>1, KeyTypes DEF Answered
  <2>2. \A i \in DOMAIN possibleCache' :
          possibleCache'[i] = new \/ \E j \in DOMAIN possibleCache : possibleCache'[i] = possibleCache[j]
    BY <1>1, <2>1, AddedToCache DEF ProbesNew
  <2>3. new.value = MoreLike(table, new.key.text, new.key.using)
    BY DEF PossibleKey
  <2> HIDE DEF new
  <2> QED BY <2>2, <2>3 DEF Fresh, FreshAnswers
<1>3. scan'.read = <<>> /\ NoneBetween(table, scan') /\ (Apart => AddsLongest)
  BY <1>1, AnswersLongest
<1> QED BY <1>1, <1>2, <1>3 DEF Fresh

LEMMA NextFresh ==
  ASSUME TypeInv, FreshInv, [Next]_vars
  PROVE  /\ FreshInv'
         /\ changes = 0 /\ faults' = 0 /\ Apart => AddsLongest
<1>0. /\ changes \in Nat /\ faults \in Nat /\ GoodTable(table)
      /\ result' = result \/ result' = <<>> => AddsLongest
  <2>1. result' = result \/ result' = <<>> => NewSegments = {}
    BY DEF NewSegments
  <2> QED BY <2>1, TokenizerAssumption DEF TypeInv, AddsLongest
<1>1. ASSUME NEW text \in Texts, NEW way \in Ways, Start(text, way)
      PROVE  FreshInv' /\ AddsLongest
  <2>0. UNCHANGED <<table, caches, changes, faults>>
    BY <1>1, ScanStarts
  <2>1. CASE scan' = scan /\ result' = result
    BY <1>0, <2>0, <2>1 DEF FreshInv, Fresh, caches
  <2>2. CASE /\ scan'.pc = "find" /\ scan'.from = 1 /\ scan'.upto = 1
             /\ scan'.read = <<>> /\ scan'.held = <<>> /\ result' = <<>>
    <3>1. HeldEnd(scan') = 0 /\ Tried(scan') = 0
      BY <2>2 DEF HeldEnd, Tried
    <3>2. NoneBetween(table, scan')
      BY <3>1 DEF NoneBetween
    <3> QED BY <1>0, <2>0, <2>2, <3>2 DEF FreshInv, Fresh, caches
  <2> QED BY <1>1, <2>1, <2>2, ScanStarts
<1>2. ASSUME FindsCached \/ FindsNew \/ FindsMissed \/ FindsNone \/ ProbesCached
      PROVE  FreshInv' /\ (changes = 0 /\ faults' = 0 /\ Apart => AddsLongest)
  <2>1. changes' = changes /\ faults' = faults
    BY <1>2 DEF FindsCached, FindsNew, FindsMissed, FindsNone, ProbesCached
  <2> QED BY <1>2, <2>1, FindsCachedFresh, FindsNewFresh, FindsMissedFresh, FindsNoneFresh,
             ProbesCachedFresh DEF FreshInv
<1>3. ASSUME NEW possible \in BOOLEAN, ProbesNew(possible)
      PROVE  FreshInv' /\ (changes = 0 /\ faults' = 0 /\ Apart => AddsLongest)
  <2>1. CASE possible = MoreLike(table, Piece(scan), scan.using) /\ faults' = faults
    <3>1. changes' = changes
      BY <1>3 DEF ProbesNew
    <3> QED BY <1>3, <2>1, <3>1, ProbesNewFresh DEF FreshInv
  <2>2. CASE faults' = faults + 1
    <3>1. faults' # 0
      BY <1>0, <2>2
    <3> QED BY <3>1 DEF FreshInv
  <2> QED BY <1>3, <2>1, <2>2 DEF ProbesNew
<1>4. ASSUME ReadAgain PROVE FreshInv' /\ AddsLongest
  <2>1. faults' # 0 /\ result' = result
    BY <1>0, <1>4 DEF ReadAgain
  <2> QED BY <1>0, <2>1 DEF FreshInv
<1>5. ASSUME (\E s \in NewSymbols : CreateSymbol(s)) \/ MakePrefixTree
      PROVE  FreshInv' /\ AddsLongest
  <2>1. /\ UNCHANGED <<caches, scan, result, requests, faults>>
        /\ \/ changes' = changes + 1
           \/ changes' = changes /\ (FlagsComplete(table) => table' = table)
    BY <1>0, <1>5, TableGrows
  <2>2. CASE changes' = changes + 1
    <3>1. changes' # 0
      BY <1>0, <2>2
    <3> QED BY <1>0, <2>1, <3>1 DEF FreshInv
  <2>3. CASE changes' = changes /\ (FlagsComplete(table) => table' = table)
    BY <1>0, <2>1, <2>3 DEF FreshInv, Fresh, caches
  <2> QED BY <2>1, <2>2, <2>3
<1>6. ASSUME UNCHANGED vars PROVE FreshInv' /\ AddsLongest
  BY <1>0, <1>6 DEF vars, FreshInv, Fresh
<1> QED BY <1>1, <1>2, <1>3, <1>4, <1>5, <1>6, NextSteps

\* For any table, texts and cache size: as long as the handle has seen no symbol created
\* and no statement fail, a segment is the longest that has tokens where it begins, and
\* one without tokens begins where no piece has any.  By value this holds when no value
\* of one column begins one of the other.
THEOREM TokenizerFindsLongest == Spec => LongestUntilChanged
<1>1. Init => FreshInv
  <2> SUFFICES ASSUME Init PROVE Fresh
    BY DEF FreshInv
  <2>1. FlagsComplete(table)
    BY TableOfGood, TokenizerAssumption DEF Init
  <2>2. /\ scan.pc = "idle" /\ scan.from = 1 /\ scan.upto = 1 /\ scan.read = <<>> /\ scan.held = <<>>
    BY DEF Init, IdleScan
  <2>3. HeldEnd(scan) = 0 /\ Tried(scan) = 0
    BY <2>2 DEF HeldEnd, Tried
  <2>4. NoneBetween(table, scan)
    BY <2>3 DEF NoneBetween
  <2>5. tokensCache = <<>> /\ missCache = <<>> /\ possibleCache = <<>>
    BY DEF Init
  <2> QED BY <2>1, <2>2, <2>4, <2>5 DEF Fresh, FreshTokens, FreshMisses, FreshAnswers
<1>2. TypeInv /\ FreshInv /\ [Next]_vars =>
        [changes = 0 /\ faults' = 0 /\ (scan.using = "value" => ColumnsApart(table)) =>
           \A i \in NewSegments : IsLongest(result'[i])]_vars
  BY NextFresh DEF Apart, AddsLongest
<1> QED BY <1>1, <1>2, NextFresh, TypeInvariant, PTL DEF Spec, LongestUntilChanged
=============================================================================
