----------------------------- MODULE Calls_proofs -----------------------------
(***************************************************************************)
(* The state of a handle across its calls, for any scheme, words, rules,   *)
(* failures and other processes.                                           *)
(*                                                                         *)
(* FullInv is inductive.  It has IInv of Handle_proofs and                 *)
(*   Numbers   the counters are within their bounds;                       *)
(*   StoreInv  the file is one of Files, what an open transaction would    *)
(*             commit has all that was stored before, and the words that   *)
(*             are known have their preferred pattern;                     *)
(*   MemInv    the pools are sound, and the strings and the array of the   *)
(*             result, or of the call that makes one, are in use;          *)
(*   FrameOK   the locals of the call in progress have their types, and an *)
(*             export has written the words it has read so far.            *)
(*                                                                         *)
(* SearchInv, kept beside it, is about a search for words while nothing is *)
(* written to the table it reads: matched is the longest match of the      *)
(* prefixes probed so far, and the words spelled like the input are among  *)
(* those found, or there are none.                                         *)
(*                                                                         *)
(* OwnedInv, kept beside it as well, is that the patterns of the file and  *)
(* of an open transaction have their words, when the symbols of a value    *)
(* agree: the products of a word are then written alike, prefix by prefix. *)
(***************************************************************************)
EXTENDS Handle_proofs

-----------------------------------------------------------------------------
(* What a text is typed as.                                                *)

LEMMA TypeTokenTyped ==
  ASSUME NEW r \in Renderings, NEW t \in SchemeToken
  PROVE  TypeToken(r, t) \in Renderings
<1> DEFINE s == t.sym
           custom == IF MlUnicode THEN MlUnicodeRtlRenderer(s) ELSE <<>>
           low == <<"_">>
           repeats == s.type = "vowel" /\ r.previous # <<>> /\ r.previous[1].sym.value1 = s.value1
           typed == IF custom # <<>> THEN custom[1] ELSE IF repeats THEN s.pattern \o low ELSE s.pattern
           one == <<t>>
<1>1. TypeToken(r, t) = [text |-> r.text \o typed, previous |-> one]
  BY DEF TypeToken
<1>2. r.text \in Text /\ s.pattern \in Text
  BY PreviousSymbol, TokenHasSymbol, SymbolFields
<1>3. low \in Text
  <2> DEFINE c == "_"
  <2>1. c \in Char
    BY RenderingAssumption
  <2> HIDE DEF c
  <2>2. <<c>> \in Text
    BY <2>1 DEF Text
  <2> QED BY <2>2 DEF c
<1> HIDE DEF low
<1>4. s.pattern \o low \in Text
  BY <1>2, <1>3, Joined
<1>5. custom = <<>> \/ custom = <<s.pattern \o low>>
  BY DEF MlUnicodeRtlRenderer, low
<1>6. one \in Seq(SchemeToken)
  OBVIOUS
<1> HIDE DEF custom, s, repeats, one
<1>7. typed \in Text
  <2>1. CASE custom = <<>>
    <3>1. typed \in {s.pattern, s.pattern \o low}
      BY <2>1
    <3> QED BY <1>2, <1>4, <3>1
  <2>2. CASE custom # <<>>
    <3>1. typed = custom[1]
      BY <2>2
    <3>2. custom[1] = s.pattern \o low
      BY <1>5, <2>2
    <3> QED BY <1>4, <3>1, <3>2
  <2> QED BY <2>1, <2>2
<1> HIDE DEF typed
<1>8. r.text \o typed \in Text
  BY <1>2, <1>7, Joined
<1> QED BY <1>1, <1>6, <1>8 DEF Renderings

LEMMA ReverseTransliteratedTyped ==
  ASSUME NEW w \in Text
  PROVE  ReverseTransliterated(w) \in Text
<1> DEFINE p == Tokenize(w, "value", "exact")
           s == FirstTokens(p)
           typed == Loop(TypeToken, Blank, s).text
<1>1. typed = Typed!Runs(0, Blank, s).text
  BY DEF Typed!Runs, Typed!Loop, Typed!Once, Loop, Once, TypeTurn
<1>2. s \in Seq(SchemeToken)
  BY TokenizeTyped, FirstTokensTyped
<1> HIDE DEF p
<1>3. Len(s) \in Nat /\ \A i \in 1..Len(s) : s[i] \in SchemeToken
  BY <1>2, LenProperties, ElementOfSeq
<1>4. \A i \in 1..Len(s) : \A r \in Renderings : TypeTurn(0, r, s[i]) \in Renderings
  BY <1>3, TypeTokenTyped DEF TypeTurn
<1>5. ReverseTransliterated(w) = IF IsSuffix(<<"_">>, typed) THEN Front(typed) ELSE typed
  BY DEF ReverseTransliterated, ResolveRtlTokens, p
<1> HIDE DEF s
<1>6. Typed!Runs(0, Blank, s) \in Renderings
  BY <1>3, <1>4, BlankTyped, Typed!StaysIn
<1>7. typed \in Text
  BY <1>1, <1>6, PreviousSymbol
<1> HIDE DEF typed
<1>8. Front(typed) \in Text
  BY <1>7, FrontTyped DEF Text
<1> QED BY <1>5, <1>7, <1>8

-----------------------------------------------------------------------------
(* Strings of the pool.                                                    *)

\* The handle returns no string; a reset takes back all of them.
Strings ==
  {s \in [pool : Pool, content : Seq(Text)] :
     s.pool.free = <<>> /\ Sound(s.pool) /\ Len(s.content) = s.pool.made}

LEMMA StringPut ==
  ASSUME NEW s \in Strings, NEW text \in Text
  PROVE  LET t == PutString(s, text) IN
         /\ t \in Strings
         /\ Slot(s.pool) = s.pool.next + 1 /\ t.pool.next = s.pool.next + 1 /\ s.pool.next \in Nat
         /\ t.content[Slot(s.pool)] = text
         /\ \A i \in 1..s.pool.next : t.content[i] = s.content[i]
<1> DEFINE p == s.pool
           q == Take(p)
           t == PutString(s, text)
           made == IF p.next < p.made THEN p.made ELSE p.made + 1
           slot == Slot(p)
           c == [i \in 1..q.made |-> IF i = slot THEN text ELSE s.content[i]]
<1>1. /\ p \in Pool /\ p.free = <<>> /\ p.next <= p.made /\ p.next \in Nat /\ p.made \in Nat
      /\ s.content \in Seq(Text) /\ Len(s.content) = p.made
  BY DEF Strings, Pool, Sound
<1>2. slot = p.next + 1 /\ q = [p EXCEPT !.next = p.next + 1, !.made = made]
  BY <1>1 DEF Slot, Take
<1>3. t = [pool |-> q, content |-> c]
  BY DEF PutString
<1>4. made \in Nat /\ p.next + 1 <= made /\ \A i \in 1..made : i # p.next + 1 => i \in 1..p.made
  BY <1>1
<1> HIDE DEF made
<1>5. q = [made |-> made, next |-> p.next + 1, free |-> <<>>]
  BY <1>1, <1>2, Fields
<1>6. q \in Pool /\ Sound(q) /\ q.made = made /\ q.next = p.next + 1 /\ q.free = <<>>
  <2> DEFINE none == <<>>
  <2>1. none \in Seq(Nat \ {0}) /\ Len(none) = 0
    OBVIOUS
  <2>2. q = [made |-> made, next |-> p.next + 1, free |-> none]
    BY <1>5
  <2> HIDE DEF none, q
  <2>3. q \in Pool /\ q.made = made /\ q.next = p.next + 1 /\ q.free = none
    BY <1>1, <1>4, <2>1, <2>2 DEF Pool
  <2>4. Sound(q)
    BY <1>4, <2>1, <2>3 DEF Sound
  <2> QED BY <2>3, <2>4 DEF none
<1> HIDE DEF q, slot
<1>7. ASSUME NEW i \in 1..made
      PROVE  c[i] \in Text /\ (i = slot => c[i] = text) /\ (i # slot => c[i] = s.content[i])
  <2>1. c[i] = IF i = slot THEN text ELSE s.content[i]
    BY <1>6
  <2>2. i # slot => s.content[i] \in Text
    BY <1>1, <1>2, <1>4, ElementOfSeq
  <2> QED BY <2>1, <2>2
<1>8. c = [i \in 1..made |-> c[i]]
  BY <1>6
<1> HIDE DEF c
<1>9. c \in Seq(Text) /\ Len(c) = made
  BY <1>4, <1>7, <1>8, ListOf
<1>10. t \in Strings /\ t.pool = q /\ t.content = c
  <2> HIDE DEF t
  <2>1. t \in [pool : Pool, content : Seq(Text)] /\ t.pool = q /\ t.content = c
    BY <1>3, <1>6, <1>9
  <2> QED BY <1>6, <1>9, <2>1 DEF Strings
<1>11. slot \in 1..made /\ slot = p.next + 1 /\ \A i \in 1..p.next : i \in 1..made /\ i # slot
  BY <1>1, <1>2, <1>4
<1> HIDE DEF t
<1>12. t.content[slot] = text /\ \A i \in 1..p.next : t.content[i] = s.content[i]
  BY <1>7, <1>10, <1>11
<1> QED BY <1>1, <1>6, <1>10, <1>11, <1>12 DEF t, slot

LEMMA NoStringsYet == NoStrings \in Strings /\ EmptyPool \in Pool /\ Sound(EmptyPool)
<1> DEFINE none == <<>>
<1>1. none \in Seq(Text) /\ none \in Seq(Nat \ {0}) /\ Len(none) = 0
  OBVIOUS
<1>2. /\ EmptyPool = [made |-> 0, next |-> 0, free |-> none]
      /\ NoStrings = [pool |-> EmptyPool, content |-> none]
  BY DEF EmptyPool, NoStrings
<1> HIDE DEF none
<1>3. EmptyPool \in Pool /\ EmptyPool.free = none /\ EmptyPool.made = 0 /\ EmptyPool.next = 0
  BY <1>1, <1>2 DEF Pool
<1>4. Sound(EmptyPool)
  BY <1>1, <1>3 DEF Sound
<1>5. NoStrings \in [pool : Pool, content : Seq(Text)] /\ NoStrings.pool = EmptyPool /\ NoStrings.content = none
  BY <1>1, <1>2, <1>3
<1> QED BY <1>1, <1>3, <1>4, <1>5 DEF Strings, none

LEMMA StringsReset ==
  ASSUME NEW s \in Strings
  PROVE  [s EXCEPT !.pool = Reset(@)] \in Strings
<1> DEFINE none == <<>>
           p == Reset(s.pool)
           t == [s EXCEPT !.pool = p]
<1>1. /\ s = [pool |-> s.pool, content |-> s.content] /\ s.content \in Seq(Text)
      /\ s.pool.made \in Nat /\ Len(s.content) = s.pool.made
  BY DEF Strings, Pool
<1>2. none \in Seq(Nat \ {0}) /\ Len(none) = 0
  OBVIOUS
<1>3. p = [made |-> s.pool.made, next |-> 0, free |-> none]
  BY DEF Reset
<1> HIDE DEF none, p
<1>4. p \in Pool /\ p.free = none /\ p.made = s.pool.made /\ p.next = 0
  BY <1>1, <1>2, <1>3 DEF Pool
<1>5. Sound(p)
  BY <1>1, <1>2, <1>4 DEF Sound
<1>6. t = [pool |-> p, content |-> s.content]
  BY <1>1
<1>7. t \in [pool : Pool, content : Seq(Text)] /\ t.pool = p /\ t.content = s.content
  BY <1>1, <1>4, <1>6
<1> HIDE DEF t
<1>8. t \in Strings
  BY <1>1, <1>4, <1>5, <1>7 DEF Strings, none
<1> QED BY <1>8 DEF t, p

GiveTurn(none, g, w) ==
  [strings |-> PutString(g.strings, w), slots |-> Append(g.slots, Slot(g.strings.pool))]
Giving == INSTANCE Loops_proofs WITH Turn <- GiveTurn

\* Each word is found in the string it was given.
LEMMA GivenEach ==
  ASSUME strings \in Strings, NEW words \in Seq(Text)
  PROVE  LET g == Given(words) IN
         /\ g.strings \in Strings
         /\ DOMAIN g.slots = DOMAIN words
         /\ \A i \in DOMAIN words :
              g.slots[i] \in 1..g.strings.pool.next /\ g.strings.content[g.slots[i]] = words[i]
<1> DEFINE n == Len(words)
           G == [strings : Strings, slots : Seq(Nat)]
           none == <<>>
           start == [strings |-> strings, slots |-> none]
           Holds(g, i) == g.slots[i] \in 1..g.strings.pool.next /\ g.strings.content[g.slots[i]] = words[i]
           D == [k \in 0..n |-> {g \in G : Len(g.slots) = k /\ \A i \in 1..k : Holds(g, i)}]
<1>1. Given(words) = Giving!Runs(0, start, words)
  BY DEF Giving!Runs, Giving!Loop, Giving!Once, Loop, Once, GiveTurn, Given
<1>2. n \in Nat /\ DOMAIN words = 1..n /\ \A k \in 1..n : words[k] \in Text
  BY LenProperties, ElementOfSeq
<1> HIDE DEF n
<1>3. \A k \in 0..n : D[k] = {g \in G : Len(g.slots) = k /\ \A i \in 1..k : Holds(g, i)}
  OBVIOUS
<1> HIDE DEF D
<1>4. start \in D[0]
  <2>1. none \in Seq(Nat) /\ Len(none) = 0
    OBVIOUS
  <2> HIDE DEF none, Holds
  <2>2. start \in G /\ start.slots = none
    BY <2>1
  <2>3. 0 \in 0..n /\ 1..0 = {}
    BY <1>2
  <2> HIDE DEF start, G
  <2> QED BY <1>3, <2>1, <2>2, <2>3
<1>5. ASSUME NEW k \in 1..n, NEW g \in D[k - 1]
      PROVE  GiveTurn(0, g, words[k]) \in D[k]
  <2> DEFINE s == g.strings
             t == PutString(s, words[k])
             slot == Slot(s.pool)
             all == Append(g.slots, slot)
             h == [strings |-> t, slots |-> all]
  <2>1. k - 1 \in 0..n /\ k \in 0..n /\ \A i \in 1..k : i = k \/ i \in 1..(k - 1)
    BY <1>2
  <2>2. g \in G /\ Len(g.slots) = k - 1 /\ \A i \in 1..(k - 1) : Holds(g, i)
    BY <1>3, <2>1
  <2>3. s \in Strings /\ g.slots \in Seq(Nat)
    BY <2>2
  <2>4. /\ t \in Strings /\ slot = s.pool.next + 1 /\ t.pool.next = s.pool.next + 1
        /\ s.pool.next \in Nat /\ t.content[slot] = words[k]
        /\ \A i \in 1..s.pool.next : t.content[i] = s.content[i]
    BY <1>2, <2>3, StringPut
  <2>5. GiveTurn(0, g, words[k]) = h
    BY DEF GiveTurn
  <2>6. \A i \in 1..(k - 1) : g.slots[i] \in 1..s.pool.next /\ s.content[g.slots[i]] = words[i]
    BY <2>2
  <2> HIDE DEF s, t, slot
  <2>7. /\ all \in Seq(Nat) /\ Len(all) = k /\ all[k] = slot
        /\ \A i \in 1..(k - 1) : all[i] = g.slots[i]
    <3>1. slot \in Nat /\ Len(g.slots) + 1 = k
      BY <2>1, <2>2, <2>4
    <3> QED BY <2>2, <2>3, <3>1, AppendProperties
  <2> HIDE DEF all
  <2>8. h \in G /\ h.strings = t /\ h.slots = all
    BY <2>4, <2>7
  <2> HIDE DEF h, G
  <2>9. ASSUME NEW i \in 1..k PROVE Holds(h, i)
    <3>1. CASE i = k
      <4>1. slot \in 1..t.pool.next
        BY <2>4
      <4> QED BY <2>4, <2>7, <2>8, <3>1, <4>1
    <3>2. CASE i # k
      <4>1. i \in 1..(k - 1)
        BY <2>1, <3>2
      <4>2. all[i] = g.slots[i] /\ g.slots[i] \in 1..s.pool.next /\ s.content[g.slots[i]] = words[i]
        BY <2>6, <2>7, <4>1
      <4>3. g.slots[i] \in 1..t.pool.next
        BY <2>4, <4>2
      <4> QED BY <2>4, <2>8, <4>2, <4>3
    <3> QED BY <3>1, <3>2
  <2> HIDE DEF Holds
  <2> QED BY <1>3, <2>1, <2>5, <2>7, <2>8, <2>9
<1> HIDE DEF start
<1>6. Giving!Runs(0, start, words) \in D[n]
  <2> HIDE DEF Holds, G
  <2> QED BY <1>2, <1>4, <1>5, Giving!StagesPassed DEF n
<1>7. n \in 0..n
  BY <1>2
<1> DEFINE g == Given(words)
<1> HIDE DEF g
<1>8. g \in G /\ Len(g.slots) = n /\ \A i \in 1..n : Holds(g, i)
  <2>1. g \in D[n]
    BY <1>1, <1>6 DEF g
  <2> HIDE DEF Holds, G
  <2> QED BY <1>3, <1>7, <2>1
<1>9. DOMAIN g.slots = 1..n /\ g.strings \in Strings
  BY <1>8, LenProperties
<1> QED BY <1>2, <1>8, <1>9 DEF g

-----------------------------------------------------------------------------
(* The files of an export.                                                 *)

\* What was written so far.
Written(all, written, files) ==
  /\ written \in 0..Len(all)
  /\ FlattenSeq(files) = SubSeq(all, 1, written)
  /\ \A i \in DOMAIN files :
       files[i] # <<>> /\ Len(files[i]) <= PerFile /\ (i < Len(files) => Len(files[i]) = PerFile)

LEMMA NothingWritten ==
  ASSUME NEW X, NEW all \in Seq(X)
  PROVE  Written(all, 0, <<>>)
<1> DEFINE none == <<>>
<1>1. 0 \in 0..Len(all) /\ SubSeq(all, 1, 0) = none
  BY LenProperties, SubSeqEmpty
<1>2. FlattenSeq(none) = none
  BY DEF FlattenSeq
<1>3. DOMAIN none = {}
  OBVIOUS
<1> HIDE DEF none
<1>4. Written(all, 0, none)
  BY <1>1, <1>2, <1>3 DEF Written
<1> QED BY <1>4 DEF none

LEMMA EntryAdded ==
  ASSUME NEW X, NEW all \in Seq(X), NEW files \in Seq(Seq(X)), NEW n, Written(all, n, files),
         n < Len(all)
  PROVE  LET next == AddToFiles(files, all[n + 1]) IN
         next \in Seq(Seq(X)) /\ Written(all, n + 1, next)
<1> DEFINE x == all[n + 1]
           one == <<x>>
           next == AddToFiles(files, x)
           k == Len(files)
<1>1. /\ n \in Nat /\ n + 1 \in 0..Len(all) /\ n + 1 \in 1..Len(all)
      /\ k \in Nat /\ DOMAIN files = 1..k
      /\ \A i \in 1..k : files[i] \in Seq(X)
      /\ \A i \in 1..k : files[i] # <<>> /\ Len(files[i]) <= PerFile /\ (i < k => Len(files[i]) = PerFile)
      /\ FlattenSeq(files) = SubSeq(all, 1, n)
  <2>1. /\ Len(all) \in Nat /\ k \in Nat /\ DOMAIN files = 1..k /\ \A i \in 1..k : files[i] \in Seq(X)
    BY LenProperties, ElementOfSeq
  <2>2. n \in 0..Len(all)
    BY DEF Written
  <2>3. n \in Nat /\ n + 1 \in 0..Len(all) /\ n + 1 \in 1..Len(all)
    BY <2>1, <2>2
  <2> QED BY <2>1, <2>3 DEF Written
<1>2. x \in X
  BY <1>1, ElementOfSeq
<1>3. one \in Seq(X) /\ one # <<>> /\ Len(one) = 1
  BY <1>2
<1>4. SubSeq(all, 1, n + 1) = SubSeq(all, 1, n) \o one
  <2>1. CASE n = 0
    <3>1. SubSeq(all, 1, n) = <<>>
      BY <2>1, SubSeqEmpty
    <3> DEFINE u == SubSeq(all, 1, 1)
    <3>2. /\ u \in Seq(X) /\ Len(u) = 1 /\ u[1] = all[1]
      <4>1. \A i \in 1..1 : all[i] \in X
        BY <1>1, <1>2, <2>1
      <4>2. 1 \in Int
        OBVIOUS
      <4>3. /\ SubSeq(all, 1, 1) \in Seq(X)
            /\ Len(SubSeq(all, 1, 1)) = IF 1 <= 1 THEN 1 - 1 + 1 ELSE 0
            /\ \A i \in 1..(1 - 1 + 1) : SubSeq(all, 1, 1)[i] = all[1 + i - 1]
        BY <4>1, <4>2, SubSeqProperties
      <4> QED BY <4>3
    <3>3. one[1] = all[1]
      BY <2>1
    <3> HIDE DEF u, one
    <3>4. u = one
      BY <1>3, <3>2, <3>3, SeqEqual
    <3>5. <<>> \o one = one
      BY <1>3, ConcatEmptySeq
    <3>6. SubSeq(all, 1, n + 1) = u
      <4>1. n + 1 = 1
        BY <2>1
      <4> QED BY <4>1 DEF u
    <3> QED BY <3>1, <3>4, <3>5, <3>6
  <2>2. CASE n # 0
    <3>1. 1 \in 1..Len(all) /\ n + 1 \in 1..Len(all) /\ n + 1 - 1 = n
      BY <1>1
    <3> QED BY <1>1, <3>1, SubSeqRecursiveSecond
  <2> QED BY <2>1, <2>2
<1> DEFINE full == files = <<>> \/ IsFull(files[k])
<1>5. CASE full
  <2>1. next = Append(files, one)
    BY <1>5 DEF AddToFiles
  <2>2. /\ next \in Seq(Seq(X)) /\ Len(next) = k + 1 /\ next[k + 1] = one
        /\ \A i \in 1..k : next[i] = files[i]
    <3> HIDE DEF next, one
    <3> QED BY <1>3, <2>1, AppendProperties
  <2>3. FlattenSeq(next) = SubSeq(all, 1, n + 1)
    <3> HIDE DEF next, one
    <3>1. FlattenSeq(next) = FlattenSeq(files) \o one
      BY <1>3, <2>1, FlattenAppended
    <3> QED BY <1>1, <1>4, <3>1
  <2>4. \A i \in 1..k : Len(files[i]) = PerFile
    <3>1. k # 0 => Len(files[k]) = PerFile
      <4>1. k # 0 => files # <<>>
        BY EmptySeq
      <4> QED BY <1>5, <4>1 DEF IsFull
    <3> SUFFICES ASSUME NEW i \in 1..k PROVE Len(files[i]) = PerFile
      OBVIOUS
    <3>2. CASE i < k
      BY <1>1, <3>2
    <3>3. CASE ~(i < k)
      <4>1. i = k /\ k # 0
        <5>1. k \in Nat
          BY <1>1
        <5> HIDE DEF k
        <5> QED BY <3>3, <5>1
      <4> QED BY <3>1, <4>1
    <3> QED BY <3>2, <3>3
  <2>5. DOMAIN next = 1..(k + 1)
    BY <2>2, LenProperties
  <2>6. ASSUME NEW i \in 1..(k + 1)
        PROVE  next[i] # <<>> /\ Len(next[i]) <= PerFile /\ (i < k + 1 => Len(next[i]) = PerFile)
    <3> HIDE DEF next, one, k
    <3>1. CASE i = k + 1
      <4>1. 1 <= PerFile /\ ~(i < k + 1)
        BY <1>1, <3>1, HandleAssumption
      <4> QED BY <1>3, <2>2, <3>1, <4>1
    <3>2. CASE i # k + 1
      <4>1. i \in 1..k /\ PerFile <= PerFile
        BY <1>1, <3>2, HandleAssumption
      <4> QED BY <1>1, <2>2, <2>4, <4>1
    <3> QED BY <3>1, <3>2
  <2> HIDE DEF next
  <2>7. Written(all, n + 1, next)
    BY <1>1, <2>2, <2>3, <2>5, <2>6 DEF Written
  <2> QED BY <2>2, <2>7 DEF next
<1>6. CASE ~full
  <2> DEFINE last == files[k]
             more == Append(last, x)
             m == k - 1
             front == SubSeq(files, 1, m)
  <2>1. next = [files EXCEPT ![k] = more]
    BY <1>6 DEF AddToFiles
  <2>2. k \in 1..k /\ k # 0 /\ m \in Nat /\ last \in Seq(X) /\ Len(last) <= PerFile /\ Len(last) # PerFile
    <3>1. k # 0
      BY <1>6, EmptySeq
    <3>2. k \in 1..k /\ m \in Nat
      BY <1>1, <3>1
    <3> QED BY <1>1, <1>6, <3>1, <3>2 DEF IsFull
  <2>3. more \in Seq(X) /\ more # <<>> /\ Len(more) = Len(last) + 1 /\ more = last \o one
    <3> HIDE DEF last, x
    <3>1. more \in Seq(X) /\ Len(more) = Len(last) + 1 /\ Len(last) \in Nat
      BY <1>2, <2>2, AppendProperties, LenProperties
    <3>2. more = last \o one
      BY <1>2, <2>2, AppendIsConcat
    <3>3. more # <<>>
      <4> HIDE DEF more
      <4>1. Len(more) # 0
        BY <3>1
      <4> QED BY <4>1
    <3> QED BY <3>1, <3>2, <3>3
  <2>4. /\ next = [i \in 1..k |-> next[i]] /\ next[k] = more
        /\ \A i \in 1..k : i # k => next[i] = files[i]
    BY <1>1, <2>1, <2>2
  <2> HIDE DEF next, more
  <2>5. \A i \in 1..k : next[i] \in Seq(X)
    BY <1>1, <2>3, <2>4
  <2>6. next \in Seq(Seq(X)) /\ Len(next) = k /\ DOMAIN next = 1..k
    <3> HIDE DEF k
    <3>1. next \in Seq(Seq(X)) /\ Len(next) = k
      BY <1>1, <2>4, <2>5, ListOf
    <3> QED BY <3>1, LenProperties
  <2>7. /\ front \in Seq(Seq(X)) /\ files = Append(front, last) /\ next = Append(front, more)
    <3>1. \A i \in 1..m : files[i] \in Seq(X)
      BY <1>1, <2>2
    <3> HIDE DEF last
    <3>2. /\ front \in Seq(Seq(X)) /\ Len(front) = m /\ \A i \in 1..m : front[i] = files[i]
      <4> HIDE DEF m
      <4>1. m \in Int
        BY <2>2
      <4>2. /\ SubSeq(files, 1, m) \in Seq(Seq(X))
            /\ Len(SubSeq(files, 1, m)) = IF 1 <= m THEN m - 1 + 1 ELSE 0
            /\ \A i \in 1..(m - 1 + 1) : SubSeq(files, 1, m)[i] = files[1 + i - 1]
        BY <3>1, <4>1, SubSeqProperties
      <4> QED BY <2>2, <4>2
    <3> HIDE DEF front
    <3>3. \A y \in Seq(X) : /\ Append(front, y) \in Seq(Seq(X)) /\ Len(Append(front, y)) = m + 1
                            /\ Append(front, y)[m + 1] = y
                            /\ \A i \in 1..m : Append(front, y)[i] = front[i]
      BY <3>2, AppendProperties
    <3>4. m + 1 = k /\ \A i \in 1..k : i = k \/ (i \in 1..m /\ i # k)
      <4>1. k \in Nat
        BY <1>1
      <4> HIDE DEF k
      <4> QED BY <4>1
    <3>5. files = Append(front, last)
      <4> DEFINE u == Append(front, last)
      <4>1. u \in Seq(Seq(X)) /\ Len(u) = k /\ u[k] = last /\ \A i \in 1..m : u[i] = files[i]
        BY <2>2, <3>2, <3>3, <3>4
      <4> HIDE DEF u
      <4>2. \A i \in 1..k : files[i] = u[i]
        BY <3>4, <4>1 DEF last
      <4>3. files = u
        BY <4>1, <4>2, SeqEqual
      <4> QED BY <4>3 DEF u
    <3>6. next = Append(front, more)
      <4> DEFINE u == Append(front, more)
      <4>1. u \in Seq(Seq(X)) /\ Len(u) = k /\ u[k] = more /\ \A i \in 1..m : u[i] = files[i]
        BY <2>3, <3>2, <3>3, <3>4
      <4> HIDE DEF u
      <4>2. \A i \in 1..k : next[i] = u[i]
        BY <2>4, <3>4, <4>1
      <4>3. next = u
        BY <2>6, <4>1, <4>2, SeqEqual
      <4> QED BY <4>3 DEF u
    <3> QED BY <3>2, <3>5, <3>6
  <2>8. FlattenSeq(next) = SubSeq(all, 1, n + 1)
    <3> HIDE DEF front, last, one
    <3> DEFINE f == FlattenSeq(front)
    <3>1. f \in Seq(X)
      BY <2>7, FlattenTyped
    <3>2. FlattenSeq(files) = f \o last /\ FlattenSeq(next) = f \o more
      BY <2>2, <2>3, <2>7, FlattenAppended
    <3> HIDE DEF f
    <3>3. (f \o last) \o one = f \o (last \o one)
      <4>1. f \in Seq(X) /\ last \in Seq(X) /\ one \in Seq(X)
        BY <1>3, <2>2, <3>1
      <4> QED BY <4>1, ConcatAssociative
    <3> QED BY <1>1, <1>4, <2>3, <3>2, <3>3
  <2>9. ASSUME NEW i \in 1..k
        PROVE  next[i] # <<>> /\ Len(next[i]) <= PerFile /\ (i < k => Len(next[i]) = PerFile)
    <3>1. CASE i = k
      <4>1. Len(last) \in Nat /\ PerFile \in Nat
        BY <2>2, LenProperties, HandleAssumption
      <4> HIDE DEF last, k
      <4>2. Len(more) <= PerFile /\ ~(i < k)
        BY <1>1, <2>2, <2>3, <3>1, <4>1
      <4> QED BY <2>3, <2>4, <3>1, <4>2
    <3>2. CASE i # k
      BY <1>1, <2>4, <3>2
    <3> QED BY <3>1, <3>2
  <2>10. Written(all, n + 1, next)
    BY <1>1, <2>6, <2>8, <2>9 DEF Written
  <2> QED BY <2>6, <2>10 DEF next
<1> QED BY <1>5, <1>6

-----------------------------------------------------------------------------
(* The locals of the calls.                                                *)

\* The locals of stem().
StemState == [word : Text, suffix : Text, stems : Seq(Text)]

\* A call that learns; the loop of stem() turns while there are letters left.
LearnFrames ==
  {f \in [pc : {"count", "stem", "commit"}, word : Text, stem : StemState] :
     f.pc = "stem" => f.stem.word # <<>>}

\* A call that transliterates; what it suggests comes behind the plain rendering.
TypedFrames ==
  {f \in [pc : {"best", "match", "probe", "suggest"}, input : Inputs, array : Nat,
          words : WordLists, at : Nat, found : Seq(Text), matched : Nat, seen : Nat] :
     f.pc = "suggest" => Plain[f.input] \in ToSet(f.words)}

ReadFrames == [pc : {"read"}, kind : {"full", "words"}]

\* A call that writes the files of an export.
IsWriting(f) ==
  /\ f = [pc |-> "write", kind |-> f.kind, all |-> f.all, written |-> f.written, files |-> f.files]
  /\ f.kind \in {"full", "words"}
  /\ \E X : f.all \in Seq(X) /\ f.files \in Seq(Seq(X)) /\ Written(f.all, f.written, f.files)

FrameOK(f) ==
  f = Idle \/ f \in LearnFrames \/ f \in TypedFrames \/ f \in ReadFrames \/ IsWriting(f)

\* The locals by the place of the call.
LEMMA FrameAt ==
  ASSUME NEW f, FrameOK(f)
  PROVE  /\ f.pc \in {"count", "stem", "commit"} => f \in LearnFrames
         /\ f.pc \in {"best", "match", "probe", "suggest"} => f \in TypedFrames
         /\ f.pc = "read" => f \in ReadFrames
         /\ f.pc = "write" => IsWriting(f)
         /\ f.pc \in {"idle", "count", "stem", "commit", "best", "match", "probe", "suggest", "read", "write"}
         /\ f.pc = "idle" => f = Idle
<1>1. f = Idle => f.pc = "idle"
  BY DEF Idle
<1>2. f \in LearnFrames => f.pc \in {"count", "stem", "commit"}
  BY DEF LearnFrames
<1>3. f \in TypedFrames => f.pc \in {"best", "match", "probe", "suggest"}
  BY DEF TypedFrames
<1>4. f \in ReadFrames => f.pc = "read"
  BY DEF ReadFrames
<1>5. IsWriting(f) => f.pc = "write"
  BY DEF IsWriting
<1> QED BY <1>1, <1>2, <1>3, <1>4, <1>5 DEF FrameOK

\* The fields of the locals.
LEMMA LearnFields ==
  ASSUME NEW f \in LearnFrames
  PROVE  /\ f = [pc |-> f.pc, word |-> f.word, stem |-> f.stem]
         /\ f.word \in Text /\ f.stem \in StemState
         /\ f.stem.word \in Text /\ f.stem.suffix \in Text /\ f.stem.stems \in Seq(Text)
         /\ f.stem = [word |-> f.stem.word, suffix |-> f.stem.suffix, stems |-> f.stem.stems]
         /\ f.pc = "stem" => f.stem.word # <<>>
BY DEF LearnFrames, StemState

\* The locals of a call that transliterates.
LEMMA TypedFields ==
  ASSUME NEW f \in TypedFrames
  PROVE  /\ f = [pc |-> f.pc, input |-> f.input, array |-> f.array, words |-> f.words, at |-> f.at,
                 found |-> f.found, matched |-> f.matched, seen |-> f.seen]
         /\ f.input \in Inputs /\ f.array \in Nat /\ f.words \in WordLists /\ f.at \in Nat
         /\ f.found \in Seq(Text) /\ f.matched \in Nat /\ f.seen \in Nat
         /\ f.pc = "suggest" => Plain[f.input] \in ToSet(f.words)
BY DEF TypedFrames

\* The locals after a turn of stem().
LEMMA StemmedFrame ==
  ASSUME NEW f \in LearnFrames, NEW s \in StemState
  PROVE  LET p == IF s.word = <<>> THEN "commit" ELSE "stem"
             g == [f EXCEPT !.stem = s, !.pc = p]
         IN  g \in LearnFrames /\ g.word = f.word /\ g.pc \in {"commit", "stem"}
<1> DEFINE p == IF s.word = <<>> THEN "commit" ELSE "stem"
           g == [f EXCEPT !.stem = s, !.pc = p]
<1>1. p \in {"count", "stem", "commit"} /\ p \in {"commit", "stem"} /\ (p = "stem" => s.word # <<>>)
  OBVIOUS
<1> HIDE DEF p
<1>2. f \in [pc : {"count", "stem", "commit"}, word : Text, stem : StemState]
  BY DEF LearnFrames
<1>3. /\ g \in [pc : {"count", "stem", "commit"}, word : Text, stem : StemState]
      /\ g.pc = p /\ g.stem = s /\ g.word = f.word
  BY <1>1, <1>2
<1> HIDE DEF g
<1>4. g \in LearnFrames
  BY <1>1, <1>3 DEF LearnFrames
<1> QED BY <1>1, <1>3, <1>4 DEF g, p

\* What is left and taken after a turn are texts.
LEMMA StemTyped ==
  ASSUME NEW rs, NEW es, Tables(rs, es), NEW s \in StemState, s.word # <<>>
  PROVE  /\ Taken(s) \in StemState
         /\ StemTurn(rs, es, s) \in StemState
         /\ \A left \in Text : HasRule(rs, Taken(s).suffix) => StemTurnFails(rs, s, left) \in StemState
<1> DEFINE t == Taken(s)
           n == NewEnding(rs, t.suffix)
           none == <<>>
<1>1. s.word \in Text /\ s.suffix \in Text /\ s.stems \in Seq(Text)
  BY DEF StemState
<1>2. t = [word |-> Front(s.word), suffix |-> <<Last(s.word)>> \o s.suffix, stems |-> s.stems]
  BY DEF Taken
<1>3. Front(s.word) \in Text /\ <<Last(s.word)>> \o s.suffix \in Text
  BY <1>1, TakenLetter
<1>4. /\ t \in StemState /\ t.word \in Text /\ t.suffix \in Text /\ t.stems \in Seq(Text)
      /\ t = [word |-> t.word, suffix |-> t.suffix, stems |-> t.stems]
  BY <1>1, <1>2, <1>3 DEF StemState
<1> HIDE DEF t
<1>5. none \in Text
  BY DEF Text
<1>6. ASSUME NEW u \in StemState, HasRule(rs, t.suffix)
      PROVE  Stemmed(u, n) \in StemState
  <2> DEFINE w == u.word \o n
             all == Append(u.stems, w)
  <2>1. n \in Text
    BY <1>6, NewEndingIsText
  <2>2. u.word \in Text /\ u.stems \in Seq(Text)
    BY DEF StemState
  <2> HIDE DEF n
  <2>3. w \in Text
    BY <2>1, <2>2, Joined
  <2>4. Stemmed(u, n) = [word |-> w, suffix |-> none, stems |-> all]
    BY DEF Stemmed
  <2> HIDE DEF w, none
  <2>5. all \in Seq(Text)
    BY <2>2, <2>3, AppendProperties
  <2> HIDE DEF all
  <2> QED BY <1>5, <2>3, <2>4, <2>5 DEF StemState
<1> HIDE DEF none
<1>7. StemTurn(rs, es, s) \in {t} \cup {u \in {Stemmed(t, n)} : HasRule(rs, t.suffix)}
  BY DEF StemTurn, t
<1>8. StemTurn(rs, es, s) \in StemState
  <2> HIDE DEF n
  <2> QED BY <1>4, <1>6, <1>7
<1>9. ASSUME NEW left \in Text, HasRule(rs, t.suffix)
      PROVE  StemTurnFails(rs, s, left) \in StemState
  <2> DEFINE u == [t EXCEPT !.word = left]
  <2>1. u = [word |-> left, suffix |-> t.suffix, stems |-> t.stems]
    BY <1>4
  <2>2. u \in StemState
    BY <1>4, <2>1 DEF StemState
  <2>3. StemTurnFails(rs, s, left) = Stemmed(u, n)
    BY DEF StemTurnFails, t
  <2> HIDE DEF u, n
  <2> QED BY <1>6, <1>9, <2>2, <2>3
<1> QED BY <1>4, <1>8, <1>9 DEF t

-----------------------------------------------------------------------------
(* The invariants.                                                         *)

\* The counters; the table has no more rules than there were calls.
Numbers ==
  /\ calls \in 0..MaxCalls /\ changes \in 0..MaxChanges /\ faults \in 0..MaxFaults
  /\ rc \in {"success", "error"}
  /\ count \in -1..MaxCalls
  /\ Len(rules) <= calls

\* What is stored for a word that was learned.
KnownIn(d, w) == Stored(d, w) /\ PatternsToLearn(w) \subseteq LearnedOf(d, w)

FileRecord == [db : Files, index : BOOLEAN]

\* What a transaction would commit has all that was stored before.
StoreInv ==
  /\ file \in FileRecord
  /\ txn # <<>> => \E t \in FileRecord : txn = <<t>> /\ t.db \in After(file.db)
  /\ known \subseteq Text /\ \A w \in known : KnownIn(file.db, w)
  /\ Learning => txn # <<>> /\ KnownIn(txn[1].db, frame.word)

\* What the handle sees is a learnings file.
LEMMA ViewTyped ==
  ASSUME StoreInv
  PROVE  /\ View \in FileRecord /\ View.db \in Files
         /\ View = [db |-> View.db, index |-> View.index]
         /\ txn # <<>> => txn = <<txn[1]>> /\ txn[1] \in FileRecord /\ txn[1].db \in After(file.db)
<1>1. ASSUME txn # <<>>
      PROVE  txn = <<txn[1]>> /\ txn[1] \in FileRecord /\ txn[1].db \in After(file.db)
  <2>1. PICK t \in FileRecord : txn = <<t>> /\ t.db \in After(file.db)
    BY <1>1 DEF StoreInv
  <2>2. txn[1] = t
    BY <2>1
  <2> QED BY <2>1, <2>2
<1>2. View \in FileRecord
  BY <1>1 DEF View, StoreInv
<1> HIDE DEF View
<1>3. \A f \in FileRecord : f.db \in Files /\ f = [db |-> f.db, index |-> f.index]
  BY DEF FileRecord
<1> QED BY <1>1, <1>2, <1>3

-----------------------------------------------------------------------------
(* The numbers.                                                            *)

\* A call that begins.
LEMMA NumbersCall ==
  ASSUME IInv, Numbers, Call, rc' \in {rc, "success", "error"}, count' \in {count, -1},
         rules' = rules \/ \E r \in Rules : rules' = Append(rules, r)
  PROVE  Numbers'
<1>1. /\ calls' = calls + 1 /\ calls < MaxCalls /\ changes' = changes /\ faults' = faults
      /\ MaxCalls \in Nat /\ calls \in 0..MaxCalls
  BY HandleAssumption DEF Call, Numbers
<1>2. rules \in Seq(Rule) /\ Len(rules) \in Nat
  BY LenProperties DEF IInv, Shape, Tables
<1>3. Len(rules') <= Len(rules) + 1
  BY <1>2, HandleAssumption, AppendProperties
<1>4. Len(rules') \in Nat
  BY <1>2, HandleAssumption, AppendProperties
<1>5. calls' \in 0..MaxCalls /\ -1 \in -1..MaxCalls
  BY <1>1
<1>6. Len(rules') <= calls'
  <2> DEFINE a == Len(rules')
             b == Len(rules)
  <2>1. a \in Nat /\ b \in Nat /\ a <= b + 1 /\ b <= calls
    BY <1>2, <1>3, <1>4 DEF Numbers
  <2> HIDE DEF a, b
  <2>2. a <= calls + 1
    BY <1>1, <2>1
  <2> QED BY <1>1, <2>2 DEF a
<1> QED BY <1>1, <1>5, <1>6 DEF Numbers

\* A step of a call.
LEMMA NumbersStep ==
  ASSUME IInv, Numbers, UNCHANGED <<calls, changes, faults, rules>>,
         rc' \in {rc, "success"}, count' \in {count, Len(rules)}
  PROVE  Numbers'
<1>1. Len(rules) \in Nat
  BY LenProperties DEF IInv, Shape, Tables
<1>2. Len(rules) \in -1..MaxCalls
  BY <1>1, HandleAssumption DEF Numbers
<1> QED BY <1>2 DEF Numbers

\* A failure.
LEMMA NumbersFault ==
  ASSUME IInv, Numbers, Fault, rules' = rules, rc' \in {rc, "success", "error"}, count' \in {count, -1}
  PROVE  Numbers'
<1>1. /\ faults' = faults + 1 /\ faults < MaxFaults /\ calls' = calls /\ changes' = changes
      /\ MaxFaults \in Nat /\ MaxCalls \in Nat /\ faults \in 0..MaxFaults
  BY HandleAssumption DEF Fault, Numbers
<1>2. faults' \in 0..MaxFaults /\ -1 \in -1..MaxCalls
  BY <1>1
<1> QED BY <1>1, <1>2 DEF Numbers

\* The step of the counters, by the actions of Next.
LEMMA NumbersKeep ==
  ASSUME IInv, Numbers, [Next]_vars
  PROVE  Numbers'
<1>1. CASE Enter
  <2>1. ASSUME Call, UNCHANGED <<rules, count>>, rc' \in {rc, "success", "error"}
        PROVE  Numbers'
    BY <2>1, NumbersCall
  <2>2. CASE EnableSuggestions \/ FlushBuffer
    BY <2>1, <2>2 DEF EnableSuggestions, FlushBuffer, scheme, stemming
  <2>3. CASE Reopen
    BY <2>3, NumbersCall DEF Reopen, Restarted, scheme
  <2>4. CASE \E input \in Inputs : Transliterate(input)
    BY <2>1, <2>4 DEF Transliterate, scheme, stemming
  <2>5. CASE \E word \in Values : ReverseTransliterate(word)
    BY <2>1, <2>5 DEF ReverseTransliterate, scheme, stemming
  <2>6. ASSUME NEW word \in LearnCalls, Learn(word)
        PROVE  Numbers'
    <3>1. rc' \in {rc, "error"} /\ Call /\ UNCHANGED <<rules, count>>
      BY <2>6 DEF Learn, scheme, stemming
    <3> QED BY <2>1, <3>1
  <2>7. CASE \E r \in Rules : CreateStemrule(r)
    BY <2>7, NumbersCall DEF CreateStemrule, stemming
  <2>8. CASE \E e \in Exceptions : CreateStemException(e)
    BY <2>1, <2>8 DEF CreateStemException, stemming
  <2>9. ASSUME NEW kind \in {"full", "words"}, Export(kind)
        PROVE  Numbers'
    <3>1. rc' \in {rc, "error"} /\ Call /\ UNCHANGED <<rules, count>>
      BY <2>9 DEF Export, scheme, stemming
    <3> QED BY <2>1, <3>1
  <2> QED BY <1>1, <2>2, <2>3, <2>4, <2>5, <2>6, <2>7, <2>8, <2>9 DEF Enter
<1>2. CASE Step
  <2>1. UNCHANGED <<calls, changes, faults, rules>> /\ rc' \in {rc, "success"}
    BY <1>2 DEF Step, BestMatch, Match, Probe, Suggest, CountRules, Stem, Commit, ReadWords, WriteWord,
                FinishExport, Return, scheme, bounds
  <2>2. count' \in {count, Len(rules)}
    BY <1>2 DEF Step, BestMatch, Match, Probe, Suggest, CountRules, Stem, Commit, ReadWords, WriteWord,
                FinishExport, stemming
  <2> QED BY <2>1, <2>2, NumbersStep
<1>3. CASE Fails
  <2>1. Fault /\ rules' = rules /\ rc' \in {rc, "success", "error"} /\ count' \in {count, -1}
    BY <1>3 DEF Fails, ReadFails, SyllableFails, StemFails, ExportFails, Die, Restarted, Return, scheme,
                stemming
  <2> QED BY <2>1, NumbersFault
<1>4. CASE Other
  <2>1. /\ changes < MaxChanges /\ changes' = changes + 1
        /\ UNCHANGED <<rules, count, rc, calls, faults>>
    BY <1>4 DEF Other, LearnElsewhere, DeleteElsewhere, Elsewhere, scheme, stemming
  <2>2. changes' \in 0..MaxChanges
    BY <2>1, HandleAssumption DEF Numbers
  <2> QED BY <2>1, <2>2 DEF Numbers
<1>5. CASE UNCHANGED vars
  BY <1>5 DEF Numbers, vars, scheme, stemming, bounds
<1> QED BY <1>1, <1>2, <1>3, <1>4, <1>5 DEF Next

-----------------------------------------------------------------------------
(* The locals, step by step.                                               *)

\* A call that transliterates begins at the first query, with array 1.
LEMMA TransliterateFrame ==
  ASSUME Numbers, NEW input \in Inputs, Transliterate(input)
  PROVE  frame' \in TypedFrames /\ frame'.pc = "best" /\ frame'.array = 1
<1> DEFINE none == <<>>
           a == Slot(Reset(arrays))
<1>1. a = 1
  BY DEF Slot, Reset
<1>2. none \in WordLists /\ none \in Seq(Text)
  BY NoWords
<1>3. changes \in Nat
  BY DEF Numbers
<1>4. frame' = [pc |-> "best", input |-> input, array |-> a, words |-> none, at |-> 0, found |-> none,
                matched |-> 0, seen |-> changes]
  BY DEF Transliterate
<1> HIDE DEF none, a
<1>5. frame' \in TypedFrames
  BY <1>1, <1>2, <1>3, <1>4 DEF TypedFrames
<1> QED BY <1>1, <1>4, <1>5

\* The fields of a call that transliterates are changed by its steps.
LEMMA TypedChanged ==
  ASSUME NEW f \in TypedFrames, NEW pc \in {"match", "probe", "suggest"}, NEW words \in WordLists,
         NEW at \in Nat, NEW found \in Seq(Text), NEW matched \in Nat,
         pc = "suggest" => Plain[f.input] \in ToSet(words)
  PROVE  LET g == [pc |-> pc, input |-> f.input, array |-> f.array, words |-> words, at |-> at,
                   found |-> found, matched |-> matched, seen |-> f.seen]
         IN  g \in TypedFrames /\ g.array = f.array /\ g.pc = pc
<1>1. f.input \in Inputs /\ f.array \in Nat /\ f.seen \in Nat
  BY TypedFields
<1> DEFINE g == [pc |-> pc, input |-> f.input, array |-> f.array, words |-> words, at |-> at,
                 found |-> found, matched |-> matched, seen |-> f.seen]
<1>2. /\ g \in [pc : {"best", "match", "probe", "suggest"}, input : Inputs, array : Nat,
                words : WordLists, at : Nat, found : Seq(Text), matched : Nat, seen : Nat]
      /\ g.pc = pc /\ g.input = f.input /\ g.words = words /\ g.array = f.array
  BY <1>1
<1> HIDE DEF g
<1>3. g \in TypedFrames
  BY <1>2 DEF TypedFrames
<1> QED BY <1>2, <1>3 DEF g

\* The queries leave such locals, and the array.
LEMMA TypedSteps ==
  ASSUME StoreInv, FrameOK(frame), BestMatch \/ Match \/ Probe
  PROVE  frame' \in TypedFrames /\ frame'.array = frame.array
<1>1. frame.pc \in {"best", "match", "probe", "suggest"}
  BY DEF BestMatch, Match, Probe
<1>2. frame \in TypedFrames
  BY <1>1, FrameAt
<1>3. /\ frame = [pc |-> frame.pc, input |-> frame.input, array |-> frame.array, words |-> frame.words,
                  at |-> frame.at, found |-> frame.found, matched |-> frame.matched,
                  seen |-> frame.seen]
      /\ frame.input \in Inputs /\ frame.words \in WordLists /\ frame.at \in Nat
      /\ frame.found \in Seq(Text) /\ frame.matched \in Nat
  BY <1>2, TypedFields
<1>4. Plain[frame.input] \in Text /\ View.db \in Files
  BY <1>3, PlainIs, ViewTyped
<1>5. CASE BestMatch
  <2> DEFINE words == IF enabled THEN BestMatches(View.db, frame.input) ELSE <<>>
             all == AddNew(words, Plain[frame.input])
  <2>2. CASE words = <<>> /\ enabled /\ Len(frame.input) > 2
    <3>1. frame' = [frame EXCEPT !.pc = "match", !.at = 1]
      BY <1>5, <2>2 DEF BestMatch
    <3>2. frame' = [pc |-> "match", input |-> frame.input, array |-> frame.array, words |-> frame.words,
                    at |-> 1, found |-> frame.found, matched |-> frame.matched, seen |-> frame.seen]
      BY <1>3, <3>1
    <3> QED BY <1>2, <1>3, <3>2, TypedChanged
  <2>3. CASE ~(words = <<>> /\ enabled /\ Len(frame.input) > 2)
    <3>1. frame' = [frame EXCEPT !.pc = "suggest", !.words = all]
      BY <1>5, <2>3 DEF BestMatch
    <3>2. words \in WordLists
      BY <1>4, OfferedTyped, NoWords
    <3> HIDE DEF words
    <3>3. all \in WordLists /\ Plain[frame.input] \in ToSet(all)
      BY <1>4, <3>2, AddedNew
    <3> HIDE DEF all
    <3>4. frame' = [pc |-> "suggest", input |-> frame.input, array |-> frame.array, words |-> all,
                    at |-> frame.at, found |-> frame.found, matched |-> frame.matched,
                    seen |-> frame.seen]
      BY <1>3, <3>1
    <3> QED BY <1>2, <1>3, <3>3, <3>4, TypedChanged
  <2> QED BY <2>2, <2>3
<1>6. CASE Match
  <2> DEFINE words == MatchesOf(View.db, Lookup)
  <2>1. words \in Seq(Text)
    BY <1>4, MatchesOfTyped
  <2>2. frame' = IF words = <<>> THEN [frame EXCEPT !.pc = "probe"]
                 ELSE [frame EXCEPT !.pc = "probe", !.found = words, !.matched = frame.at]
    BY <1>6 DEF Match
  <2> HIDE DEF words
  <2>3. CASE words = <<>>
    <3>1. frame' = [pc |-> "probe", input |-> frame.input, array |-> frame.array, words |-> frame.words,
                    at |-> frame.at, found |-> frame.found, matched |-> frame.matched,
                    seen |-> frame.seen]
      BY <1>3, <2>2, <2>3
    <3> QED BY <1>2, <1>3, <3>1, TypedChanged
  <2>4. CASE words # <<>>
    <3>1. frame' = [pc |-> "probe", input |-> frame.input, array |-> frame.array, words |-> frame.words,
                    at |-> frame.at, found |-> words, matched |-> frame.at, seen |-> frame.seen]
      BY <1>3, <2>2, <2>4
    <3> QED BY <1>2, <1>3, <2>1, <3>1, TypedChanged
  <2> QED BY <2>3, <2>4
<1>7. CASE Probe
  <2>1. CASE PossibleMatches(View.db, Lookup) /\ frame.at < Len(frame.input)
    <3> DEFINE next == frame.at + 1
    <3>1. frame' = [frame EXCEPT !.pc = "match", !.at = @ + 1]
      BY <1>7, <2>1 DEF Probe
    <3>2. next \in Nat
      BY <1>3
    <3>3. frame' = [pc |-> "match", input |-> frame.input, array |-> frame.array, words |-> frame.words,
                    at |-> next, found |-> frame.found, matched |-> frame.matched, seen |-> frame.seen]
      BY <1>3, <3>1
    <3> HIDE DEF next
    <3> QED BY <1>2, <1>3, <3>2, <3>3, TypedChanged
  <2>2. CASE ~(PossibleMatches(View.db, Lookup) /\ frame.at < Len(frame.input))
    <3> DEFINE none == <<>>
               plain == Plain[frame.input]
               rows == RowTexts(frame)
               more == Append(rows, plain)
               all == Loop(AddNew, none, more)
    <3>1. frame' = [frame EXCEPT !.pc = "suggest", !.words = all]
      BY <1>7, <2>2 DEF Probe
    <3>2. rows \in Seq(Text)
      <4>1. frame.input \in Text
        BY <1>3, HandleAssumption
      <4> QED BY <1>3, <4>1, RowTextsTyped
    <3>3. none \in WordLists
      BY NoWords
    <3> HIDE DEF rows, plain, none
    <3>4. more \in Seq(Text) /\ plain \in ToSet(more)
      <4>1. plain \in Text
        BY <1>4 DEF plain
      <4>2. more \in Seq(Text) /\ Len(more) = Len(rows) + 1 /\ more[Len(rows) + 1] = plain /\ Len(rows) \in Nat
        BY <3>2, <4>1, AppendProperties, LenProperties
      <4> HIDE DEF more
      <4>3. Len(rows) + 1 \in DOMAIN more
        BY <4>2, LenProperties
      <4> QED BY <4>2, <4>3 DEF ToSet
    <3> HIDE DEF more
    <3>5. all \in WordLists /\ plain \in ToSet(all)
      BY <3>3, <3>4, AllAdded
    <3> HIDE DEF all
    <3>6. frame' = [pc |-> "suggest", input |-> frame.input, array |-> frame.array, words |-> all,
                    at |-> frame.at, found |-> frame.found, matched |-> frame.matched,
                    seen |-> frame.seen]
      BY <1>3, <3>1
    <3> QED BY <1>2, <1>3, <3>5, <3>6, TypedChanged DEF plain
  <2> QED BY <2>1, <2>2
<1> QED BY <1>5, <1>6, <1>7

\* A call that learns begins to count the rules.
LEMMA LearnFrame ==
  ASSUME NEW word \in LearnCalls, frame' = [pc |-> "count", word |-> word, stem |-> StartStemming(word)]
  PROVE  frame' \in LearnFrames /\ frame'.pc = "count" /\ frame'.word = word
<1> DEFINE none == <<>>
           s == StartStemming(word)
<1>1. none \in Text /\ none \in Seq(Text) /\ word \in Text
  BY HandleAssumption DEF Text
<1>2. s = [word |-> word, suffix |-> none, stems |-> none]
  BY DEF StartStemming
<1> HIDE DEF none
<1>3. s \in StemState
  BY <1>1, <1>2 DEF StemState
<1>5. frame' = [pc |-> "count", word |-> word, stem |-> s]
  OBVIOUS
<1> HIDE DEF s
<1>4. /\ frame' \in [pc : {"count", "stem", "commit"}, word : Text, stem : StemState]
      /\ frame'.pc = "count" /\ frame'.word = word
  BY <1>1, <1>3, <1>5
<1> QED BY <1>4 DEF LearnFrames

\* The turns of stem() leave such locals.
LEMMA LearnSteps ==
  ASSUME IInv, FrameOK(frame), CountRules \/ Stem \/ SyllableFails
  PROVE  frame' \in LearnFrames /\ frame'.word = frame.word /\ frame'.pc \in {"stem", "commit"}
<1>1. frame.pc \in {"count", "stem"}
  BY DEF CountRules, Stem, SyllableFails
<1>2. frame \in LearnFrames
  BY <1>1, FrameAt
<1>3. /\ frame = [pc |-> frame.pc, word |-> frame.word, stem |-> frame.stem]
      /\ frame.word \in Text /\ frame.stem \in StemState
      /\ frame.pc = "stem" => frame.stem.word # <<>>
  BY <1>2, LearnFields
<1>4. Tables(rules, exceptions)
  BY DEF IInv, Shape
<1>5. CASE CountRules
  <2> DEFINE n == IF count = -1 THEN Len(rules) ELSE count
             p == IF n > 0 THEN "stem" ELSE "commit"
  <2>1. frame' = [frame EXCEPT !.pc = p] /\ frame.pc = "count"
    BY <1>5 DEF CountRules
  <2>2. p \in {"stem", "commit"}
    OBVIOUS
  <2> HIDE DEF p
  <2>3. frame' = [pc |-> p, word |-> frame.word, stem |-> frame.stem]
    BY <1>3, <2>1
  <2>4. frame.stem.word # <<>>
    <3>1. frame.stem = StartStemming(frame.word)
      BY <2>1 DEF IInv, StemInv
    <3>2. frame.word # <<>>
      BY <1>1 DEF IInv, Shape, Learning
    <3> QED BY <3>1, <3>2 DEF StartStemming
  <2>5. /\ frame' \in [pc : {"count", "stem", "commit"}, word : Text, stem : StemState]
        /\ frame'.pc = p /\ frame'.word = frame.word /\ frame'.stem = frame.stem
    BY <1>3, <2>2, <2>3
  <2> QED BY <2>2, <2>4, <2>5 DEF LearnFrames
<1>6. ASSUME NEW s \in StemState, frame' = StemmedTo(s)
      PROVE  frame' \in LearnFrames /\ frame'.word = frame.word /\ frame'.pc \in {"stem", "commit"}
  BY <1>2, <1>6, StemmedFrame DEF StemmedTo
<1>7. CASE Stem
  <2>1. frame' = StemmedTo(StemTurn(rules, exceptions, frame.stem)) /\ frame.pc = "stem"
    BY <1>7 DEF Stem
  <2>2. StemTurn(rules, exceptions, frame.stem) \in StemState
    BY <1>3, <1>4, <2>1, StemTyped
  <2> QED BY <1>6, <2>1, <2>2
<1>8. CASE SyllableFails
  <2> DEFINE word == Front(frame.stem.word)
  <2>1. /\ frame.pc = "stem" /\ HasRule(rules, Taken(frame.stem).suffix)
        /\ \E k \in 1..Len(word) : frame' = StemmedTo(StemTurnFails(rules, frame.stem, SubSeq(word, 1, k)))
    BY <1>8 DEF SyllableFails, Ending
  <2>2. word \in Text
    BY <1>3, <2>1, FrontTyped DEF StemState, Text
  <2> HIDE DEF word
  <2>3. PICK k \in 1..Len(word) : frame' = StemmedTo(StemTurnFails(rules, frame.stem, SubSeq(word, 1, k)))
    BY <2>1
  <2>4. Len(word) \in Nat /\ k \in Int /\ k <= Len(word)
    BY <2>2, LenProperties DEF Text
  <2>5. SubSeq(word, 1, k) \in Text
    BY <2>2, <2>4, PieceTyped
  <2>6. StemTurnFails(rules, frame.stem, SubSeq(word, 1, k)) \in StemState
    BY <1>3, <1>4, <2>1, <2>5, StemTyped
  <2> QED BY <1>6, <2>3, <2>6
<1> QED BY <1>5, <1>7, <1>8

\* What an export writes is a list.
LEMMA ExportedIs ==
  ASSUME NEW d \in Files, NEW kind
  PROVE  \E X : Exported(d, kind) \in Seq(X)
<1> DEFINE ids == {i \in Ids(d) : kind = "full" \/ \E r \in d.patterns : r.word_id = i /\ r.learned = 1}
           words == ByConfidence(d, ids)
           f == Exported(d, kind)
           n == Len(words)
           X == {Entry(d, words[i]) : i \in 1..n}
<1>1. words \in Seq(Text)
  <2> HIDE DEF ids
  <2> QED BY ByConfidenceTyped DEF WordLists
<1>2. f = [i \in DOMAIN words |-> Entry(d, words[i])]
  BY DEF Exported
<1> HIDE DEF words, f
<1>3. n \in Nat /\ DOMAIN words = 1..n
  BY <1>1, LenProperties
<1> HIDE DEF n
<1>4. f = [i \in 1..n |-> f[i]] /\ \A i \in 1..n : f[i] \in X
  BY <1>2, <1>3
<1> HIDE DEF X
<1> QED BY <1>3, <1>4, ListOf DEF f

\* It begins to write with no file.
LEMMA ReadWordsFrame ==
  ASSUME StoreInv, FrameOK(frame), ReadWords
  PROVE  IsWriting(frame')
<1> DEFINE all == Exported(View.db, frame.kind)
           none == <<>>
           kind == frame.kind
<1>1. frame' = [pc |-> "write", kind |-> kind, all |-> all, written |-> 0, files |-> none]
  BY DEF ReadWords
<1>2. kind \in {"full", "words"}
  <2>1. frame \in ReadFrames
    BY FrameAt DEF ReadWords
  <2> QED BY <2>1 DEF ReadFrames
<1>3. PICK X : all \in Seq(X)
  BY ViewTyped, ExportedIs
<1>4. none \in Seq(Seq(X)) /\ Written(all, 0, none)
  BY <1>3, NothingWritten
<1> HIDE DEF all, none, kind
<1>5. /\ frame' = [pc |-> "write", kind |-> frame'.kind, all |-> frame'.all, written |-> frame'.written,
                   files |-> frame'.files]
      /\ frame'.kind = kind /\ frame'.all = all /\ frame'.written = 0 /\ frame'.files = none
  BY <1>1
<1> QED BY <1>2, <1>3, <1>4, <1>5 DEF IsWriting

\* It writes the next word into the last file, or a new one.
LEMMA WriteWordFrame ==
  ASSUME FrameOK(frame), WriteWord
  PROVE  IsWriting(frame')
<1> DEFINE all == frame.all
           n == frame.written
           files == frame.files
           next == AddToFiles(files, all[n + 1])
           kind == frame.kind
<1>1. frame.pc = "write" /\ n < Len(all)
  BY DEF WriteWord
<1>2. IsWriting(frame)
  BY <1>1, FrameAt
<1>3. /\ frame = [pc |-> "write", kind |-> kind, all |-> all, written |-> n, files |-> files]
      /\ kind \in {"full", "words"}
  BY <1>2 DEF IsWriting
<1>4. PICK X : all \in Seq(X) /\ files \in Seq(Seq(X)) /\ Written(all, n, files)
  BY <1>2 DEF IsWriting
<1>5. frame' = [frame EXCEPT !.written = n + 1, !.files = next]
  BY DEF WriteWord
<1>6. next \in Seq(Seq(X)) /\ Written(all, n + 1, next)
  <2> HIDE DEF all, n, files
  <2> QED BY <1>1, <1>4, EntryAdded
<1> DEFINE m == n + 1
<1> HIDE DEF all, files, kind, next, n, m
<1>7. frame' = [pc |-> "write", kind |-> kind, all |-> all, written |-> m, files |-> next]
  BY <1>3, <1>5 DEF m
<1>8. /\ frame' = [pc |-> "write", kind |-> frame'.kind, all |-> frame'.all, written |-> frame'.written,
                   files |-> frame'.files]
      /\ frame'.kind = kind /\ frame'.all = all /\ frame'.written = m /\ frame'.files = next
  BY <1>7
<1>9. Written(all, m, next)
  BY <1>6 DEF m
<1> QED BY <1>3, <1>4, <1>6, <1>8, <1>9 DEF IsWriting

\* The step of the locals, by the actions of Next.
LEMMA FrameKeeps ==
  ASSUME IInv, Numbers, StoreInv, FrameOK(frame), [Next]_vars
  PROVE  FrameOK(frame')
<1>1. CASE Enter
  <2>1. ASSUME NEW input \in Inputs, Transliterate(input)
        PROVE  FrameOK(frame')
    BY <2>1, TransliterateFrame DEF FrameOK
  <2>2. ASSUME NEW word \in LearnCalls, Learn(word)
        PROVE  FrameOK(frame')
    <3>1. frame' = frame \/ frame' = [pc |-> "count", word |-> word, stem |-> StartStemming(word)]
      BY <2>2 DEF Learn
    <3>2. frame' = frame \/ frame' \in LearnFrames
      BY <3>1, LearnFrame
    <3> QED BY <3>2 DEF FrameOK
  <2>3. ASSUME NEW kind \in {"full", "words"}, Export(kind)
        PROVE  FrameOK(frame')
    <3>1. frame' = frame \/ frame' = [pc |-> "read", kind |-> kind]
      BY <2>3 DEF Export
    <3>2. frame' = frame \/ frame' \in ReadFrames
      BY <3>1 DEF ReadFrames
    <3> QED BY <3>2 DEF FrameOK
  <2>4. ASSUME frame' = frame \/ frame' = Idle
        PROVE  FrameOK(frame')
    BY <2>4 DEF FrameOK
  <2>5. CASE \/ EnableSuggestions \/ FlushBuffer \/ Reopen
             \/ \E word \in Values : ReverseTransliterate(word)
             \/ \E r \in Rules : CreateStemrule(r)
             \/ \E e \in Exceptions : CreateStemException(e)
    BY <2>4, <2>5 DEF EnableSuggestions, FlushBuffer, Reopen, Restarted, ReverseTransliterate,
                      CreateStemrule, CreateStemException
  <2> QED BY <1>1, <2>1, <2>2, <2>3, <2>5 DEF Enter
<1>2. CASE Step
  <2>1. CASE BestMatch \/ Match \/ Probe
    BY <2>1, TypedSteps DEF FrameOK
  <2>2. CASE CountRules \/ Stem
    BY <2>2, LearnSteps DEF FrameOK
  <2>3. CASE Suggest \/ Commit \/ FinishExport
    BY <2>3 DEF Suggest, Commit, FinishExport, Return, FrameOK
  <2>4. CASE ReadWords
    BY <2>4, ReadWordsFrame DEF FrameOK
  <2>5. CASE WriteWord
    BY <2>5, WriteWordFrame DEF FrameOK
  <2> QED BY <1>2, <2>1, <2>2, <2>3, <2>4, <2>5 DEF Step
<1>3. CASE Fails
  <2>1. CASE SyllableFails
    BY <2>1, LearnSteps DEF FrameOK
  <2>2. CASE ReadFails \/ StemFails \/ ExportFails \/ Die
    BY <2>2 DEF ReadFails, StemFails, ExportFails, Die, Restarted, Return, FrameOK
  <2> QED BY <1>3, <2>1, <2>2 DEF Fails
<1>4. CASE Other
  <2>1. frame' = frame
    BY <1>4 DEF Other, LearnElsewhere, DeleteElsewhere, Elsewhere
  <2> QED BY <2>1
<1>5. CASE UNCHANGED vars
  BY <1>5 DEF vars
<1> QED BY <1>1, <1>2, <1>3, <1>4, <1>5 DEF Next

-----------------------------------------------------------------------------
(* The learnings file, step by step.                                       *)

\* What is stored stays, unless it is deleted.
LEMMA KnownKept ==
  ASSUME NEW d \in Files, NEW e \in After(d), NEW w, KnownIn(d, w)
  PROVE  KnownIn(e, w)
<1>1. e \in Files /\ Grown(d, e)
  BY DEF After
<1> QED BY <1>1, StaysStored DEF KnownIn

\* A word that is learned is stored with its patterns.
LEMMA KnownLearned ==
  ASSUME NEW d \in Files, NEW w \in Text, NEW c \in Int
  PROVE  LearnInto(d, w, c) \in After(d) /\ KnownIn(LearnInto(d, w, c), w)
BY LearnedInto DEF KnownIn

CommitTurn(none, d, s) == LearnStem(d, s)
Committing == INSTANCE Loops_proofs WITH Turn <- CommitTurn

\* The stems that can be learned are learned with the word.
LEMMA StemsLearned ==
  ASSUME NEW d \in Files, NEW stems \in Seq(Text)
  PROVE  LET e == Loop(LearnStem, d, stems) IN
         e \in After(d) /\ \A w \in ToSet(stems) : CanLearnWord(w) => KnownIn(e, w)
<1> DEFINE n == Len(stems)
           Has(e, j) == CanLearnWord(stems[j]) => KnownIn(e, stems[j])
           D == [k \in 0..n |-> {e \in After(d) : \A j \in 1..k : Has(e, j)}]
           all == Loop(LearnStem, d, stems)
<1>1. all = Committing!Runs(0, d, stems)
  BY DEF Committing!Runs, Committing!Loop, Committing!Once, Loop, Once, CommitTurn
<1>2. n \in Nat /\ DOMAIN stems = 1..n /\ \A j \in 1..n : stems[j] \in Text
  BY LenProperties, ElementOfSeq
<1> HIDE DEF n, all
<1>3. \A k \in 0..n : D[k] = {e \in After(d) : \A j \in 1..k : Has(e, j)}
  OBVIOUS
<1> HIDE DEF D
<1>4. d \in D[0]
  <2>1. 0 \in 0..n /\ 1..0 = {}
    BY <1>2
  <2> HIDE DEF Has
  <2> QED BY <1>3, <2>1, AfterItself
<1>5. ASSUME NEW k \in 1..n, NEW e \in D[k - 1]
      PROVE  CommitTurn(0, e, stems[k]) \in D[k]
  <2> DEFINE f == CommitTurn(0, e, stems[k])
  <2>1. k - 1 \in 0..n /\ k \in 0..n /\ \A j \in 1..k : j = k \/ j \in 1..(k - 1)
    BY <1>2
  <2>2. e \in After(d) /\ \A j \in 1..(k - 1) : Has(e, j)
    BY <1>3, <2>1
  <2>3. e \in Files
    BY <2>2 DEF After
  <2>4. stems[k] \in Text
    BY <1>2
  <2>5. f \in After(e) /\ (CanLearnWord(stems[k]) => KnownIn(f, stems[k]))
    <3>1. f = IF CanLearnWord(stems[k]) THEN LearnInto(e, stems[k], 0) ELSE e
      BY DEF CommitTurn, LearnStem
    <3> HIDE DEF f
    <3>2. CASE CanLearnWord(stems[k])
      BY <2>3, <2>4, <3>1, <3>2, KnownLearned
    <3>3. CASE ~CanLearnWord(stems[k])
      BY <2>3, <3>1, <3>3, AfterItself
    <3> QED BY <3>2, <3>3
  <2> HIDE DEF f
  <2>6. f \in After(d)
    BY <2>2, <2>5, AfterAfter
  <2>7. \A j \in 1..k : Has(f, j)
    <3>1. \A j \in 1..(k - 1) : KnownIn(e, stems[j]) => KnownIn(f, stems[j])
      BY <2>3, <2>5, KnownKept
    <3> QED BY <2>1, <2>2, <2>5, <3>1
  <2> HIDE DEF Has
  <2>8. f \in D[k]
    BY <1>3, <2>1, <2>6, <2>7
  <2> QED BY <2>8 DEF f
<1>6. Committing!Runs(0, d, stems) \in D[n]
  <2> HIDE DEF Has
  <2> QED BY <1>2, <1>4, <1>5, Committing!StagesPassed DEF n
<1>7. n \in 0..n
  BY <1>2
<1>8. all \in After(d) /\ \A j \in 1..n : Has(all, j)
  <2> HIDE DEF Has
  <2> QED BY <1>1, <1>3, <1>6, <1>7
<1>9. \A w \in ToSet(stems) : \E j \in 1..n : w = stems[j]
  BY <1>2 DEF ToSet
<1> QED BY <1>8, <1>9 DEF all

\* The file stays as it is, and a call that learns goes on with its word.
LEMMA StoreRests ==
  ASSUME StoreInv, UNCHANGED store, ~Learning' \/ (Learning /\ frame'.word = frame.word)
  PROVE  StoreInv'
BY DEF StoreInv, store

\* Only the transaction is given up.
LEMMA StoreDropped ==
  ASSUME StoreInv, UNCHANGED <<file, known>>, txn' = <<>>, ~Learning'
  PROVE  StoreInv'
BY DEF StoreInv

\* The place of a handle that waits.
LEMMA IdleIs == Idle.pc = "idle"
BY DEF Idle

\* The transaction of a learn has the word.
LEMMA LearnStore ==
  ASSUME StoreInv, NEW word \in LearnCalls, Learn(word)
  PROVE  StoreInv'
<1>1. frame.pc = "idle" /\ ~Learning
  BY DEF Learn, Call, Learning
<1>2. CASE enabled /\ txn = <<>> /\ CanLearnWord(word)
  <2> DEFINE d == LearnInto(file.db, word, 1)
             t == [file EXCEPT !.db = d]
  <2>1. txn' = <<t>> /\ UNCHANGED <<file, known>>
    BY <1>2 DEF Learn
  <2>2. frame'.word = word
    BY <1>2 DEF Learn
  <2>3. word \in Text
    BY HandleAssumption
  <2>4. /\ file \in FileRecord /\ file.db \in Files /\ file.index \in BOOLEAN
        /\ file = [db |-> file.db, index |-> file.index]
    BY DEF StoreInv, FileRecord
  <2>5. d \in After(file.db) /\ KnownIn(d, word)
    BY <2>3, <2>4, KnownLearned
  <2> HIDE DEF d
  <2>6. t = [db |-> d, index |-> file.index]
    BY <2>4
  <2>7. t \in FileRecord /\ t.db = d
    BY <2>4, <2>5, <2>6 DEF FileRecord, After
  <2> HIDE DEF t
  <2>8. txn' # <<>> /\ txn'[1] = t
    BY <2>1
  <2> QED BY <2>1, <2>2, <2>5, <2>7, <2>8 DEF StoreInv
<1>3. CASE ~(enabled /\ txn = <<>> /\ CanLearnWord(word))
  <2>1. UNCHANGED store /\ frame' = frame
    BY <1>3 DEF Learn
  <2> QED BY <1>1, <2>1, StoreRests DEF Learning
<1> QED BY <1>2, <1>3

\* COMMIT makes it the file, with the stems.
LEMMA CommitStore ==
  ASSUME StoreInv, FrameOK(frame), Commit
  PROVE  StoreInv'
<1> DEFINE d == txn[1].db
           stems == frame.stem.stems
           e == Loop(LearnStem, d, stems)
           new == {s \in ToSet(stems) : CanLearnWord(s)}
<1>1. /\ frame.pc = "commit" /\ txn' = <<>> /\ file' = [txn[1] EXCEPT !.db = e]
      /\ known' = known \cup {frame.word} \cup new /\ frame' = Idle
  BY DEF Commit, Return
<1>2. Learning /\ txn # <<>> /\ KnownIn(d, frame.word)
  BY <1>1 DEF Learning, StoreInv
<1>3. /\ txn[1] \in FileRecord /\ d \in After(file.db) /\ d \in Files /\ txn[1].index \in BOOLEAN
      /\ txn[1] = [db |-> d, index |-> txn[1].index] /\ file.db \in Files
  BY <1>2, ViewTyped DEF FileRecord, StoreInv
<1>4. frame.word \in Text /\ stems \in Seq(Text)
  <2>1. frame \in LearnFrames
    BY <1>1, FrameAt
  <2> QED BY <2>1, LearnFields
<1> HIDE DEF stems
<1>5. e \in After(d) /\ \A w \in ToSet(stems) : CanLearnWord(w) => KnownIn(e, w)
  BY <1>3, <1>4, StemsLearned
<1>6. ToSet(stems) \subseteq Text
  BY <1>4, LenProperties, ElementOfSeq DEF ToSet
<1> HIDE DEF d, e
<1>7. file' = [db |-> e, index |-> txn[1].index]
  BY <1>1, <1>3
<1>8. file' \in FileRecord /\ file'.db = e
  BY <1>3, <1>5, <1>7 DEF FileRecord, After
<1>9. \A w : KnownIn(file.db, w) => KnownIn(d, w)
  BY <1>3, KnownKept
<1>10. \A w : KnownIn(d, w) => KnownIn(e, w)
  BY <1>3, <1>5, KnownKept
<1>11. known' \subseteq Text
  BY <1>1, <1>4, <1>6 DEF StoreInv
<1>12. \A w \in known' : KnownIn(e, w)
  BY <1>1, <1>2, <1>5, <1>9, <1>10 DEF StoreInv
<1>13. ~Learning'
  BY <1>1, IdleIs DEF Learning
<1> QED BY <1>1, <1>8, <1>11, <1>12, <1>13 DEF StoreInv

\* The index of an export changes no table.
LEMMA SetViewStore ==
  ASSUME StoreInv, NEW b \in BOOLEAN, SetView([View EXCEPT !.index = b]), known' = known, ~Learning'
  PROVE  StoreInv'
<1>1. /\ file \in FileRecord /\ file.db \in Files
      /\ file = [db |-> file.db, index |-> file.index]
  BY DEF StoreInv, FileRecord
<1>2. CASE txn = <<>>
  <2>1. file' = [file EXCEPT !.index = b] /\ txn' = <<>>
    BY <1>2 DEF SetView, View
  <2>2. file' = [db |-> file.db, index |-> b]
    BY <1>1, <2>1
  <2>3. file' \in FileRecord /\ file'.db = file.db
    BY <1>1, <2>2 DEF FileRecord
  <2> QED BY <2>1, <2>3 DEF StoreInv
<1>3. CASE txn # <<>>
  <2> DEFINE t == [txn[1] EXCEPT !.index = b]
  <2>1. txn' = <<t>> /\ file' = file
    BY <1>3 DEF SetView, View
  <2>2. /\ txn[1] \in FileRecord /\ txn[1].db \in After(file.db) /\ txn[1].db \in Files
        /\ txn[1] = [db |-> txn[1].db, index |-> txn[1].index]
    BY <1>3, ViewTyped DEF FileRecord
  <2>3. t = [db |-> txn[1].db, index |-> b]
    BY <2>2
  <2>4. t \in FileRecord /\ t.db = txn[1].db
    BY <2>2, <2>3 DEF FileRecord
  <2> HIDE DEF t
  <2> QED BY <2>1, <2>2, <2>4 DEF StoreInv
<1> QED BY <1>2, <1>3

\* It is made when an export begins.
LEMMA ExportStore ==
  ASSUME StoreInv, NEW kind \in {"full", "words"}, Export(kind)
  PROVE  StoreInv'
<1>1. frame.pc = "idle" /\ known' = known
  BY DEF Export, Call
<1>2. CASE enabled /\ ~(kind = "full" /\ View.index)
  <2> DEFINE b == View.index \/ kind = "full"
  <2>1. SetView([View EXCEPT !.index = b]) /\ frame' = [pc |-> "read", kind |-> kind]
    BY <1>2 DEF Export
  <2>2. b \in BOOLEAN
    OBVIOUS
  <2>3. ~Learning'
    BY <2>1 DEF Learning
  <2> HIDE DEF b
  <2> QED BY <1>1, <2>1, <2>2, <2>3, SetViewStore
<1>3. CASE ~(enabled /\ ~(kind = "full" /\ View.index))
  <2>1. UNCHANGED store /\ frame' = frame
    BY <1>1, <1>3 DEF Export, store
  <2> QED BY <1>1, <2>1, StoreRests DEF Learning
<1> QED BY <1>2, <1>3

\* It is dropped when an export ends.
LEMMA FinishExportStore ==
  ASSUME StoreInv, FinishExport
  PROVE  StoreInv'
<1> DEFINE b == IF frame.kind = "full" THEN FALSE ELSE View.index
<1>1. SetView([View EXCEPT !.index = b]) /\ known' = known /\ frame' = Idle
  BY DEF FinishExport, EndExport, Return
<1>2. View.index \in BOOLEAN
  BY ViewTyped DEF FileRecord
<1>3. b \in BOOLEAN
  BY <1>2
<1>4. ~Learning'
  BY <1>1, IdleIs DEF Learning
<1> HIDE DEF b
<1> QED BY <1>1, <1>3, <1>4, SetViewStore

\* Another process learns, or deletes a word, which is then no longer known.
LEMMA OtherStore ==
  ASSUME StoreInv, Other
  PROVE  StoreInv'
<1>1. txn = <<>> /\ txn' = txn /\ frame' = frame
  BY DEF Other, LearnElsewhere, DeleteElsewhere, Elsewhere
<1>2. /\ file \in FileRecord /\ file.db \in Files /\ file.index \in BOOLEAN
      /\ file = [db |-> file.db, index |-> file.index]
  BY DEF StoreInv, FileRecord
<1>3. ~Learning'
  BY <1>1 DEF StoreInv, Learning
<1>4. ASSUME NEW d \in Files, file' = [file EXCEPT !.db = d], known' \subseteq Text,
             \A w \in known' : KnownIn(d, w)
      PROVE  StoreInv'
  <2>1. file' = [db |-> d, index |-> file.index]
    BY <1>2, <1>4
  <2>2. file' \in FileRecord /\ file'.db = d
    BY <1>2, <2>1 DEF FileRecord
  <2> QED BY <1>1, <1>3, <1>4, <2>2 DEF StoreInv
<1>5. ASSUME NEW word \in LearnedElsewhere, LearnElsewhere(word)
      PROVE  StoreInv'
  <2> DEFINE d == LearnInto(file.db, word, 1)
  <2>1. file' = [file EXCEPT !.db = d] /\ known' = known \cup {word}
    BY <1>5 DEF LearnElsewhere
  <2>2. word \in Text
    BY HandleAssumption
  <2>3. d \in After(file.db) /\ KnownIn(d, word)
    BY <1>2, <2>2, KnownLearned
  <2> HIDE DEF d
  <2>4. d \in Files /\ \A w \in known : KnownIn(d, w)
    BY <1>2, <2>3, KnownKept DEF StoreInv, After
  <2> QED BY <1>4, <2>1, <2>2, <2>3, <2>4 DEF StoreInv
<1>6. ASSUME NEW word, DeleteElsewhere(word)
      PROVE  StoreInv'
  <2> DEFINE d == DeleteRows(file.db, IdOf(file.db, word))
  <2>1. file' = [file EXCEPT !.db = d] /\ known' = known \ {word} /\ Stored(file.db, word)
    BY <1>6 DEF DeleteElsewhere
  <2>2. /\ d \in Files
        /\ \A v : v # word /\ Stored(file.db, v) => Stored(d, v) /\ LearnedOf(file.db, v) \subseteq LearnedOf(d, v)
    BY <1>2, <2>1, RowsDeleted
  <2> HIDE DEF d
  <2>3. \A w \in known' : KnownIn(d, w)
    BY <2>1, <2>2 DEF StoreInv, KnownIn
  <2> QED BY <1>4, <2>1, <2>2, <2>3 DEF StoreInv
<1> QED BY <1>5, <1>6 DEF Other

\* The step of the file, by the actions of Next.
LEMMA StoreKeeps ==
  ASSUME IInv, Numbers, StoreInv, FrameOK(frame), [Next]_vars
  PROVE  StoreInv'
<1>1. ASSUME UNCHANGED store, frame' = frame \/ frame' = Idle
      PROVE  StoreInv'
  BY <1>1, StoreRests, IdleIs DEF Learning
<1>2. ASSUME UNCHANGED store, frame' \in TypedFrames \/ IsWriting(frame')
      PROVE  StoreInv'
  <2>1. ~Learning'
    BY <1>2 DEF Learning, TypedFrames, IsWriting
  <2> QED BY <1>2, <2>1, StoreRests
<1>3. CASE Enter
  <2>1. CASE EnableSuggestions \/ FlushBuffer
    BY <1>1, <2>1 DEF EnableSuggestions, FlushBuffer
  <2>2. CASE Reopen
    BY <2>2, StoreDropped, IdleIs DEF Reopen, Restarted, Learning
  <2>3. ASSUME NEW input \in Inputs, Transliterate(input)
        PROVE  StoreInv'
    BY <1>2, <2>3, TransliterateFrame DEF Transliterate
  <2>4. CASE \E word \in Values : ReverseTransliterate(word)
    BY <1>1, <2>4 DEF ReverseTransliterate
  <2>5. CASE \E r \in Rules : CreateStemrule(r)
    BY <1>1, <2>5 DEF CreateStemrule
  <2>6. CASE \E e \in Exceptions : CreateStemException(e)
    BY <1>1, <2>6 DEF CreateStemException
  <2> QED BY <1>3, <2>1, <2>2, <2>3, <2>4, <2>5, <2>6, LearnStore, ExportStore DEF Enter
<1>4. CASE Step
  <2>1. CASE BestMatch \/ Match \/ Probe
    <3>1. UNCHANGED store
      BY <2>1 DEF BestMatch, Match, Probe
    <3> QED BY <1>2, <2>1, <3>1, TypedSteps
  <2>2. CASE Suggest
    BY <1>1, <2>2 DEF Suggest, Return
  <2>3. CASE CountRules \/ Stem
    <3>1. UNCHANGED store /\ Learning
      BY <2>3 DEF CountRules, Stem, Learning
    <3> QED BY <2>3, <3>1, LearnSteps, StoreRests
  <2>4. CASE ReadWords \/ WriteWord
    <3>1. UNCHANGED store
      BY <2>4 DEF ReadWords, WriteWord
    <3> QED BY <1>2, <2>4, <3>1, ReadWordsFrame, WriteWordFrame
  <2> QED BY <1>4, <2>1, <2>2, <2>3, <2>4, CommitStore, FinishExportStore DEF Step
<1>5. CASE Fails
  <2>1. CASE ReadFails \/ StemFails \/ ExportFails
    BY <1>1, <2>1 DEF ReadFails, StemFails, ExportFails, Return
  <2>2. CASE SyllableFails
    <3>1. UNCHANGED store /\ Learning
      BY <2>2 DEF SyllableFails, Learning
    <3> QED BY <2>2, <3>1, LearnSteps, StoreRests
  <2>3. CASE Die
    BY <2>3, StoreDropped, IdleIs DEF Die, Restarted, Learning
  <2> QED BY <1>5, <2>1, <2>2, <2>3 DEF Fails
<1>6. CASE UNCHANGED vars
  BY <1>1, <1>6 DEF vars
<1> QED BY <1>3, <1>4, <1>5, <1>6, OtherStore DEF Next

-----------------------------------------------------------------------------
(* Strings and arrays, step by step.                                       *)

\* A call that transliterates is in progress.
Transliterating == frame.pc \in {"best", "match", "probe", "suggest"}

\* The words of a result are in strings that are given out.
Holds(s, r) ==
  r.live => \A i \in DOMAIN r.texts :
    r.slots[i] \in 1..s.pool.next /\ s.content[r.slots[i]] = r.texts[i]

\* The array of a result, and of a call that makes one, is in use.
MemInv ==
  /\ strings \in Strings
  /\ arrays \in Pool /\ Sound(arrays)
  /\ Holds(strings, result)
  /\ result.live /\ result.array # 0 => result.array \in InUse(arrays)
  /\ Transliterating => frame.array \in InUse(arrays)

\* A string that is put into the pool disturbs no string of a result.
LEMMA StringPutHolds ==
  ASSUME NEW s \in Strings, NEW text \in Text, NEW r, Holds(s, r)
  PROVE  PutString(s, text) \in Strings /\ Holds(PutString(s, text), r)
<1> DEFINE t == PutString(s, text)
<1>1. /\ t \in Strings /\ t.pool.next = s.pool.next + 1 /\ s.pool.next \in Nat
      /\ \A i \in 1..s.pool.next : t.content[i] = s.content[i]
  BY StringPut
<1> HIDE DEF t
<1>2. Holds(t, r)
  BY <1>1 DEF Holds
<1> QED BY <1>1, <1>2 DEF t

\* A step that leaves the pools alone.
LEMMA MemRests ==
  ASSUME MemInv, UNCHANGED memory, Transliterating' => Transliterating /\ frame'.array = frame.array
  PROVE  MemInv'
BY DEF MemInv, memory

\* The strings of a call that begins; the last result is given up.
LEMMA MemReset ==
  ASSUME MemInv, strings' = ResetStrings, result' = NoResult,
         \/ arrays' = Reset(arrays) /\ ~Transliterating'
         \/ arrays' = Take(Reset(arrays)) /\ frame'.array = Slot(Reset(arrays))
  PROVE  MemInv'
<1>1. strings' \in Strings
  BY StringsReset DEF MemInv, ResetStrings
<1>2. result'.live = FALSE
  BY DEF NoResult
<1> DEFINE a == Reset(arrays)
<1>3. a \in Pool /\ Sound(a)
  BY ResetFreesAll DEF MemInv
<1> HIDE DEF a
<1>4. Take(a) \in Pool /\ Sound(Take(a)) /\ Slot(a) \in InUse(Take(a))
  BY <1>3, TakeIsFresh
<1>5. arrays' \in Pool /\ Sound(arrays') /\ (Transliterating' => frame'.array \in InUse(arrays'))
  BY <1>3, <1>4 DEF a
<1> QED BY <1>1, <1>2, <1>5 DEF MemInv, Holds

\* A new handle has empty pools.
LEMMA MemNew ==
  ASSUME Restarted
  PROVE  MemInv'
<1>1. strings' = NoStrings /\ arrays' = EmptyPool /\ result' = NoResult /\ frame' = Idle
  BY DEF Restarted
<1>2. strings' \in Strings /\ arrays' \in Pool /\ Sound(arrays')
  BY <1>1, NoStringsYet
<1>3. result'.live = FALSE
  BY <1>1 DEF NoResult
<1>4. ~Transliterating'
  BY <1>1, IdleIs DEF Transliterating
<1> QED BY <1>2, <1>3, <1>4 DEF MemInv, Holds

\* varnam_flush_buffer takes a string.
LEMMA FlushMem ==
  ASSUME MemInv, FlushBuffer
  PROVE  MemInv'
<1> DEFINE none == <<>>
<1>1. none \in Text
  BY DEF Text
<1>2. strings' = PutString(strings, none) /\ UNCHANGED <<arrays, result, frame>>
  BY DEF FlushBuffer
<1> HIDE DEF none
<1>3. strings' \in Strings /\ Holds(strings', result)
  BY <1>1, <1>2, StringPutHolds DEF MemInv
<1> QED BY <1>2, <1>3 DEF MemInv, Transliterating

\* So does a new file of an export.
LEMMA WriteWordMem ==
  ASSUME MemInv, FrameOK(frame), WriteWord
  PROVE  MemInv'
<1> DEFINE none == <<>>
<1>1. none \in Text
  BY DEF Text
<1>2. strings' \in {strings, PutString(strings, none)} /\ UNCHANGED <<arrays, result>>
  BY DEF WriteWord
<1> HIDE DEF none
<1>3. strings' \in Strings /\ Holds(strings', result)
  BY <1>1, <1>2, StringPutHolds DEF MemInv
<1>4. ~Transliterating'
  BY WriteWordFrame DEF IsWriting, Transliterating
<1> QED BY <1>2, <1>3, <1>4 DEF MemInv

\* varnam_reverse_transliterate gives one string.
LEMMA ReverseMem ==
  ASSUME MemInv, NEW word \in Values, ReverseTransliterate(word)
  PROVE  MemInv'
<1> DEFINE text == ReverseTransliterated(word)
           s == ResetStrings
           t == PutString(s, text)
           slot == Slot(s.pool)
           a == Reset(arrays)
<1>1. /\ strings' = t /\ arrays' = Take(a) /\ frame' = frame /\ frame.pc = "idle"
      /\ result' = [live |-> TRUE, array |-> 0, slots |-> <<slot>>, texts |-> <<text>>]
  BY DEF ReverseTransliterate, Call
<1>2. text \in Text
  BY HandleAssumption, ReverseTransliteratedTyped
<1>3. s \in Strings
  BY StringsReset DEF MemInv, ResetStrings
<1>4. a \in Pool /\ Sound(a)
  BY ResetFreesAll DEF MemInv
<1> HIDE DEF text, s, a
<1>5. arrays' \in Pool /\ Sound(arrays')
  BY <1>1, <1>4, TakeIsFresh
<1>6. /\ t \in Strings /\ slot = s.pool.next + 1 /\ t.pool.next = s.pool.next + 1
      /\ s.pool.next \in Nat /\ t.content[slot] = text
  BY <1>2, <1>3, StringPut
<1> HIDE DEF t, slot
<1>7. slot \in 1..t.pool.next
  BY <1>6
<1>8. /\ result'.array = 0 /\ DOMAIN result'.texts = {1} /\ result'.texts[1] = text
      /\ result'.slots[1] = slot
  BY <1>1
<1>9. Holds(strings', result')
  BY <1>1, <1>6, <1>7, <1>8 DEF Holds
<1>10. ~Transliterating'
  BY <1>1 DEF Transliterating
<1> QED BY <1>1, <1>5, <1>6, <1>8, <1>9, <1>10 DEF MemInv

\* The array of the rest of the input is taken and given back.
LEMMA ScannedKeeps ==
  ASSUME NEW a \in Pool, Sound(a)
  PROVE  Scanned(a) \in Pool /\ Sound(Scanned(a)) /\ InUse(Scanned(a)) = InUse(a)
<1> DEFINE b == Take(a)
           s == Slot(a)
<1>1. b \in Pool /\ Sound(b) /\ s \notin InUse(a) /\ InUse(b) = InUse(a) \cup {s}
  BY TakeIsFresh
<1> HIDE DEF b, s
<1>2. s \in InUse(b)
  BY <1>1
<1>3. /\ GiveBack(b, s) \in Pool /\ Sound(GiveBack(b, s))
      /\ InUse(GiveBack(b, s)) = InUse(b) \ {s}
  BY <1>1, <1>2, GiveBackFrees
<1> QED BY <1>1, <1>3 DEF Scanned, b, s

\* That is what a search for a beginning does.
LEMMA ProbeMem ==
  ASSUME StoreInv, MemInv, FrameOK(frame), Probe
  PROVE  MemInv'
<1>1. arrays' \in {arrays, Scanned(arrays)} /\ UNCHANGED <<strings, result>>
  BY DEF Probe
<1>2. arrays' \in Pool /\ Sound(arrays') /\ InUse(arrays') = InUse(arrays)
  BY <1>1, ScannedKeeps DEF MemInv
<1>3. Transliterating /\ frame'.array = frame.array
  BY TypedSteps DEF Probe, Transliterating
<1> QED BY <1>1, <1>2, <1>3 DEF MemInv

\* What is offered of the words that begin with the input, behind what was found of it.
LEMMA SuggestGives ==
  ASSUME StoreInv, FrameOK(frame), Suggest
  PROVE  \E words \in WordLists :
           /\ Plain[frame.input] \in ToSet(words) /\ ToSet(frame.words) \subseteq ToSet(words)
           /\ strings' = Given(words).strings
           /\ result' = [live |-> TRUE, array |-> frame.array, slots |-> Given(words).slots,
                         texts |-> words]
<1> DEFINE none == <<>>
           more == IF enabled THEN Suggested(View.db, frame.input) ELSE none
           words == Loop(AddNew, frame.words, more)
<1>1. frame \in TypedFrames /\ frame.pc = "suggest"
  BY FrameAt DEF Suggest
<1>2. frame.words \in WordLists /\ Plain[frame.input] \in ToSet(frame.words)
  BY <1>1, TypedFields
<1>3. more \in Seq(Text)
  <2>1. none \in WordLists /\ Suggested(View.db, frame.input) \in WordLists
    BY ViewTyped, OfferedTyped, NoWords
  <2> QED BY <2>1 DEF WordLists
<1>4. Give(words, frame.array)
  BY DEF Suggest
<1> HIDE DEF more
<1>5. words \in WordLists /\ ToSet(frame.words) \subseteq ToSet(words)
  BY <1>2, <1>3, AllAdded
<1> HIDE DEF words
<1> QED BY <1>2, <1>4, <1>5 DEF Give

\* Each word of the result is in a string of its own.
LEMMA SuggestMem ==
  ASSUME StoreInv, MemInv, FrameOK(frame), Suggest
  PROVE  MemInv'
<1>1. /\ frame' = Idle /\ arrays' = arrays /\ Transliterating
  BY DEF Suggest, Return, Transliterating
<1>2. PICK words \in WordLists :
        /\ strings' = Given(words).strings
        /\ result' = [live |-> TRUE, array |-> frame.array, slots |-> Given(words).slots,
                      texts |-> words]
  BY SuggestGives
<1> DEFINE g == Given(words)
<1>3. words \in Seq(Text)
  BY DEF WordLists
<1>4. /\ g.strings \in Strings
      /\ \A i \in DOMAIN words :
           g.slots[i] \in 1..g.strings.pool.next /\ g.strings.content[g.slots[i]] = words[i]
  BY <1>3, GivenEach DEF MemInv
<1> HIDE DEF g
<1>5. result'.array = frame.array /\ result'.slots = g.slots /\ result'.texts = words
  BY <1>2 DEF g
<1>6. strings' = g.strings
  BY <1>2 DEF g
<1>7. Holds(strings', result')
  BY <1>4, <1>5, <1>6 DEF Holds
<1>8. ~Transliterating'
  BY <1>1, IdleIs DEF Transliterating
<1> QED BY <1>1, <1>4, <1>5, <1>6, <1>7, <1>8 DEF MemInv

\* The step of the memory, by the actions of Next.
LEMMA MemKeeps ==
  ASSUME IInv, Numbers, StoreInv, MemInv, FrameOK(frame), [Next]_vars
  PROVE  MemInv'
<1>1. ASSUME UNCHANGED memory, frame' = frame \/ frame' = Idle
      PROVE  MemInv'
  BY <1>1, MemRests, IdleIs DEF Transliterating
<1>2. ASSUME UNCHANGED memory, frame' \in LearnFrames \/ IsWriting(frame')
      PROVE  MemInv'
  <2>1. ~Transliterating'
    BY <1>2 DEF Transliterating, LearnFrames, IsWriting
  <2> QED BY <1>2, <2>1, MemRests
<1>3. CASE Enter
  <2>1. CASE EnableSuggestions
    BY <1>1, <2>1 DEF EnableSuggestions
  <2>2. CASE Reopen
    BY <2>2, MemNew DEF Reopen
  <2>3. ASSUME NEW input \in Inputs, Transliterate(input)
        PROVE  MemInv'
    <3>1. /\ strings' = ResetStrings /\ result' = NoResult /\ arrays' = Take(Reset(arrays))
          /\ frame'.array = Slot(Reset(arrays))
      BY <2>3 DEF Transliterate
    <3> QED BY <3>1, MemReset
  <2>4. ASSUME NEW word \in LearnCalls, Learn(word)
        PROVE  MemInv'
    <3>1. strings' = ResetStrings /\ result' = NoResult /\ arrays' = Reset(arrays)
      BY <2>4 DEF Learn
    <3>2. frame'.pc \in {"idle", "count"}
      BY <2>4 DEF Learn, Call
    <3> QED BY <3>1, <3>2, MemReset DEF Transliterating
  <2>5. ASSUME NEW kind \in {"full", "words"}, Export(kind)
        PROVE  MemInv'
    <3>1. strings' = ResetStrings /\ result' = NoResult /\ arrays' = Reset(arrays)
      BY <2>5 DEF Export
    <3>2. frame'.pc \in {"idle", "read"}
      BY <2>5 DEF Export, Call
    <3> QED BY <3>1, <3>2, MemReset DEF Transliterating
  <2>6. CASE \E r \in Rules : CreateStemrule(r)
    BY <1>1, <2>6 DEF CreateStemrule
  <2>7. CASE \E e \in Exceptions : CreateStemException(e)
    BY <1>1, <2>7 DEF CreateStemException
  <2> QED BY <1>3, <2>1, <2>2, <2>3, <2>4, <2>5, <2>6, <2>7, FlushMem, ReverseMem DEF Enter
<1>4. CASE Step
  <2>1. CASE BestMatch \/ Match
    <3>1. UNCHANGED memory /\ Transliterating
      BY <2>1 DEF BestMatch, Match, Transliterating
    <3> QED BY <2>1, <3>1, TypedSteps, MemRests
  <2>2. CASE CountRules \/ Stem
    <3>1. UNCHANGED memory
      BY <2>2 DEF CountRules, Stem
    <3> QED BY <1>2, <2>2, <3>1, LearnSteps
  <2>3. CASE Commit \/ FinishExport
    BY <1>1, <2>3 DEF Commit, FinishExport, Return
  <2>4. CASE ReadWords
    <3>1. UNCHANGED memory
      BY <2>4 DEF ReadWords
    <3> QED BY <1>2, <2>4, <3>1, ReadWordsFrame
  <2> QED BY <1>4, <2>1, <2>2, <2>3, <2>4, ProbeMem, SuggestMem, WriteWordMem DEF Step
<1>5. CASE Fails
  <2>1. CASE ReadFails \/ StemFails \/ ExportFails
    BY <1>1, <2>1 DEF ReadFails, StemFails, ExportFails, Return
  <2>2. CASE SyllableFails
    <3>1. UNCHANGED memory
      BY <2>2 DEF SyllableFails
    <3> QED BY <1>2, <2>2, <3>1, LearnSteps
  <2>3. CASE Die
    BY <2>3, MemNew DEF Die
  <2> QED BY <1>5, <2>1, <2>2, <2>3 DEF Fails
<1>6. CASE Other
  <2>1. UNCHANGED memory /\ frame' = frame
    BY <1>6 DEF Other, LearnElsewhere, DeleteElsewhere, Elsewhere
  <2> QED BY <1>1, <2>1
<1>7. CASE UNCHANGED vars
  BY <1>1, <1>7 DEF vars
<1> QED BY <1>3, <1>4, <1>5, <1>6, <1>7 DEF Next

-----------------------------------------------------------------------------
(* The invariant, and what follows from it.                                *)

\* The state between any two steps.
FullInv == IInv /\ Numbers /\ StoreInv /\ MemInv /\ FrameOK(frame)

\* The learnings file of a new user.
LEMMA NothingStored == EmptyDb \in Files
<1> DEFINE none == {}
<1>1. EmptyDb = [words |-> none, patterns |-> none] /\ GoodDb(EmptyDb, Text, Text)
  BY EmptyDbGood DEF EmptyDb
<1>2. OneToOne(EmptyDb) /\ LearnedForWords(EmptyDb)
  BY <1>1 DEF OneToOne, LearnedForWords
<1>3. IsFiniteSet(EmptyDb.words)
  BY <1>1, FS_EmptySet
<1> QED BY <1>1, <1>2, <1>3, FileIs

\* A handle on empty tables.
LEMMA FullInitially == Init => FullInv
<1> SUFFICES ASSUME Init PROVE FullInv
  OBVIOUS
<1>1. /\ file = [db |-> EmptyDb, index |-> FALSE] /\ txn = <<>> /\ known = {}
      /\ rules = <<>> /\ count = -1 /\ strings = NoStrings /\ arrays = EmptyPool
      /\ result = NoResult /\ frame = Idle /\ rc = "success"
      /\ calls = 0 /\ changes = 0 /\ faults = 0
  BY DEF Init
<1>2. Len(rules) = 0
  BY <1>1
<1>3. Numbers
  BY <1>1, <1>2, HandleAssumption DEF Numbers
<1>4. StoreInv
  BY <1>1, NothingStored, IdleIs DEF StoreInv, FileRecord, Learning
<1>5. result.live = FALSE
  BY <1>1 DEF NoResult
<1>6. MemInv
  BY <1>1, <1>5, NoStringsYet, IdleIs DEF MemInv, Holds, Transliterating
<1> QED BY <1>1, <1>3, <1>4, <1>6, Initially DEF FullInv, FrameOK

\* Every step keeps the invariant, part by part.
LEMMA FullStepwise == FullInv /\ [Next]_vars => FullInv'
BY Stepwise, NumbersKeep, StoreKeeps, MemKeeps, FrameKeeps DEF FullInv

\* So it holds always.
LEMMA FullAlways == Spec => []FullInv
BY FullInitially, FullStepwise, PTL DEF Spec

\* All variables of the handle have values of their types, for every scheme, every word
\* and every set of rules; a transaction is open while a word is learned (learn.c).
THEOREM HandleTypes == Spec => []TypeOK
<1>1. ASSUME FullInv PROVE TypeOK
  <2>1. IInv /\ Numbers /\ StoreInv /\ MemInv /\ FrameOK(frame)
    BY <1>1 DEF FullInv
  <2>2. file.db \in Db(Text, Text) /\ file.index \in BOOLEAN
    BY <2>1 DEF StoreInv, FileRecord, Files
  <2>3. txn # <<>> => txn[1].db \in Db(Text, Text) /\ txn[1].index \in BOOLEAN
    BY <2>1, ViewTyped DEF FileRecord, Files
  <2>4. frame.pc # "write" => frame \in Frame
    <3>1. CASE frame = Idle
      BY <3>1 DEF Frame
    <3>2. CASE frame \in LearnFrames
      BY <3>2 DEF Frame, LearnFrames, StemState
    <3>3. CASE frame \in TypedFrames
      <4>1. frame.input \in Text /\ frame.words \in Seq(Text)
        BY <3>3, TypedFields, HandleAssumption DEF WordLists
      <4> QED BY <3>3, <4>1, TypedFields DEF Frame, TypedFrames
    <3>4. CASE frame \in ReadFrames
      BY <3>4 DEF Frame, ReadFrames
    <3>5. CASE IsWriting(frame)
      BY <3>5 DEF IsWriting
    <3> QED BY <2>1, <3>1, <3>2, <3>3, <3>4, <3>5 DEF FrameOK
  <2>5. frame.pc \in {"count", "stem", "commit"} => txn # <<>>
    BY <2>1 DEF StoreInv, Learning
  <2>6. strings.pool \in Pool /\ arrays \in Pool /\ Len(strings.content) = strings.pool.made
    BY <2>1 DEF MemInv, Strings
  <2> QED BY <2>1, <2>2, <2>3, <2>4, <2>5, <2>6 DEF TypeOK, Numbers
<1> QED BY <1>1, FullAlways, PTL

\* The strings and the array a client was given stay as they are until a call that
\* resets the pools, for every sequence of calls, failures and deaths (varray.c).
THEOREM ResultsStay == Spec => []ResultStays
<1>1. ASSUME FullInv PROVE ResultStays
  <2>1. MemInv
    BY <1>1 DEF FullInv
  <2> QED BY <2>1 DEF MemInv, Strings, Holds, ResultStays
<1> QED BY <1>1, FullAlways, PTL

\* No word has more patterns learned than MAXIMUM_PATTERNS_TO_LEARN, for every scheme and
\* every word, whatever was learned and deleted before (learn.c).
THEOREM PatternsLimited == Spec => []PatternsWithinLimit
<1>1. ASSUME FullInv PROVE PatternsWithinLimit
  <2>1. file.db \in Files /\ known \subseteq Text
    BY <1>1 DEF FullInv, StoreInv, FileRecord
  <2> QED BY <2>1, FewPatterns DEF PatternsWithinLimit
<1> QED BY <1>1, FullAlways, PTL

\* The pattern of a word's preferred tokens is learned with it, whatever the reduction of
\* noise takes away and however many products the word has (learn.c).
THEOREM PreferredLearned == Spec => []PreferredIsLearned
<1>1. ASSUME FullInv PROVE PreferredIsLearned
  <2>1. known \subseteq Text /\ \A w \in known : PatternOf(Preferred(w)) \in LearnedOf(file.db, w)
    BY <1>1, PreferredToLearn DEF FullInv, StoreInv, KnownIn
  <2>2. \A w \in known : Firm(Kept(w)) => Preferred(w) = FirstTokens(Kept(w))
    BY <2>1, PreferredIs
  <2> QED BY <2>1, <2>2 DEF PreferredIsLearned, Firm
<1> QED BY <1>1, FullAlways, PTL

\* What transliterate gives to the client has the plain rendering of the input, and no
\* word twice, whatever the learnings file holds (varnam.c).
THEOREM OfferedOnce == Spec => OffersOnce
<1>1. ASSUME FullInv, Suggest
      PROVE  Plain[frame.input] \in ToSet(result'.texts) /\ IsInjective(result'.texts)
  <2>1. PICK words \in WordLists : Plain[frame.input] \in ToSet(words) /\ result'.texts = words
    <3>1. PICK words \in WordLists :
            /\ Plain[frame.input] \in ToSet(words)
            /\ result' = [live |-> TRUE, array |-> frame.array, slots |-> Given(words).slots,
                          texts |-> words]
      BY <1>1, SuggestGives DEF FullInv
    <3> QED BY <3>1
  <2> QED BY <2>1 DEF WordLists
<1>2. FullInv /\ [Next]_vars =>
        [Suggest => Plain[frame.input] \in ToSet(result'.texts) /\ IsInjective(result'.texts)]_vars
  BY <1>1
<1> QED BY <1>2, FullAlways, PTL DEF Spec, OffersOnce

\* The files of an export have all words it read, in their order, and are full but for
\* the last, for every number of words and of words per file (words-table.c).
THEOREM ExportsWhole == Spec => ExportWhole
<1>1. ASSUME FullInv, FinishExport
      PROVE  /\ FlattenSeq(frame.files) = frame.all
             /\ \A i \in DOMAIN frame.files :
                  /\ Len(frame.files[i]) <= PerFile
                  /\ i < Len(frame.files) => Len(frame.files[i]) = PerFile
  <2> DEFINE all == frame.all
             n == Len(all)
  <2>1. IsWriting(frame) /\ frame.written = n
    BY <1>1, FrameAt DEF FullInv, FinishExport
  <2>2. PICK X : all \in Seq(X) /\ Written(all, n, frame.files)
    BY <2>1 DEF IsWriting
  <2>3. SubSeq(all, 1, n) = all
    BY <2>2, SubSeqFull
  <2> HIDE DEF all, n
  <2>4. FlattenSeq(frame.files) = all
    BY <2>2, <2>3 DEF Written
  <2> QED BY <2>2, <2>4 DEF Written, all
<1>2. FullInv /\ [Next]_vars =>
        [FinishExport =>
           /\ FlattenSeq(frame.files) = frame.all
           /\ \A i \in DOMAIN frame.files :
                Len(frame.files[i]) <= PerFile /\ (i < Len(frame.files) => Len(frame.files[i]) = PerFile)]_vars
  BY <1>1
<1> QED BY <1>2, FullAlways, PTL DEF Spec, ExportWhole

-----------------------------------------------------------------------------
(* The search for the longest match.                                       *)

SmallPatterns(d) == \A r \in d.patterns : BelowZ(r.pattern)

\* What the locals of a search say of the table d, when nothing was written to it since
\* the call began: n is the number of writes.
SearchAt(f, d, n) ==
  /\ f.seen <= n
  /\ f.pc = "best" => f.at = 0 /\ f.matched = 0
  /\ f.pc \in {"match", "probe"} => f.at \in 1..Len(f.input)
  /\ f.seen = n /\ SmallPatterns(d) =>
       /\ f.pc = "match" => LongestUpTo(d, f.input, f.at - 1, f.matched)
       /\ f.pc = "probe" => LongestUpTo(d, f.input, f.at, f.matched)
       /\ f.pc = "suggest" /\ f.at > 0 => f.matched = LongestMatch(d, f.input)

\* And what they say of the words that are spelled like the input, when on tells whether
\* suggestions are enabled.
OfferAt(f, d, n, on) ==
  f.seen = n /\ on =>
    /\ f.pc \in {"match", "probe"} => BestMatches(d, f.input) = <<>>
    /\ f.pc = "suggest" => ToSet(BestMatches(d, f.input)) \subseteq ToSet(f.words)

Searches(f, d, n, on) == SearchAt(f, d, n) /\ OfferAt(f, d, n, on)

SearchInv == Transliterating => Searches(frame, View.db, changes, enabled)

\* The search begins with no letter.
LEMMA NothingMatched ==
  ASSUME NEW d, NEW input
  PROVE  LongestUpTo(d, input, 0, 0)
<1>1. 0 \in 0..0 /\ ~(0 > 0) /\ 1..0 = {}
  OBVIOUS
<1> QED BY <1>1 DEF LongestUpTo

LEMMA BestMatchSearches ==
  ASSUME FullInv, SearchInv, BestMatch
  PROVE  Searches(frame', View.db, changes, enabled)
<1> DEFINE f == frame
           g == frame'
           d == View.db
           words == IF enabled THEN BestMatches(View.db, frame.input) ELSE <<>>
           all == AddNew(words, Plain[frame.input])
<1>1. f.pc = "best" /\ Transliterating
  BY DEF BestMatch, Transliterating
<1>2. /\ f = [pc |-> f.pc, input |-> f.input, array |-> f.array, words |-> f.words, at |-> f.at,
              found |-> f.found, matched |-> f.matched, seen |-> f.seen]
      /\ f.input \in Text /\ f.seen \in Nat
  BY <1>1, FrameAt, TypedFields, HandleAssumption DEF FullInv
<1>3. f.seen <= changes /\ f.at = 0 /\ f.matched = 0
  BY <1>1 DEF SearchInv, Searches, SearchAt, OfferAt
<1>4. CASE words = <<>> /\ enabled /\ Len(f.input) > 2
  <2>1. g = [f EXCEPT !.pc = "match", !.at = 1]
    BY <1>4 DEF BestMatch
  <2>2. /\ g.pc = "match" /\ g.at = 1 /\ g.matched = f.matched /\ g.seen = f.seen
        /\ g.input = f.input
    BY <1>2, <2>1
  <2>3. Len(f.input) \in Nat
    BY <1>2, LenProperties DEF Text
  <2> HIDE DEF f, g, d
  <2>4. 1 \in 1..Len(f.input) /\ 1 - 1 = 0
    BY <1>4, <2>3 DEF f
  <2>5. LongestUpTo(d, g.input, g.at - 1, g.matched)
    BY <1>3, <2>2, <2>4, NothingMatched
  <2>6. SearchAt(g, d, changes)
    BY <1>3, <2>2, <2>4, <2>5 DEF SearchAt
  <2>7. BestMatches(d, g.input) = <<>>
    <3>1. enabled /\ words = <<>> /\ f.input = frame.input
      BY <1>4 DEF f
    <3> QED BY <2>2, <3>1 DEF d
  <2>8. OfferAt(g, d, changes, enabled)
    BY <2>2, <2>7 DEF OfferAt
  <2> QED BY <2>6, <2>8 DEF g, d, Searches
<1>5. CASE ~(words = <<>> /\ enabled /\ Len(f.input) > 2)
  <2>1. g = [f EXCEPT !.pc = "suggest", !.words = all]
    BY <1>5 DEF BestMatch
  <2>4. enabled => BestMatches(d, f.input) = words
    OBVIOUS
  <2>5. ToSet(words) \subseteq ToSet(all)
    <3>1. words \in WordLists
      <4>1. d \in Files
        BY ViewTyped DEF FullInv
      <4> QED BY <4>1, OfferedTyped, NoWords
    <3>2. Plain[frame.input] \in Text
      BY <1>1, FrameAt, TypedFields, PlainIs DEF FullInv
    <3> HIDE DEF words
    <3> QED BY <3>1, <3>2, AddedNew
  <2> HIDE DEF all, words
  <2>2. g.pc = "suggest" /\ g.at = 0 /\ g.seen = f.seen /\ g.words = all /\ g.input = f.input
    BY <1>2, <1>3, <2>1
  <2> HIDE DEF f, g, d
  <2>3. SearchAt(g, d, changes)
    BY <1>3, <2>2 DEF SearchAt
  <2>6. OfferAt(g, d, changes, enabled)
    BY <2>2, <2>4, <2>5 DEF OfferAt
  <2> QED BY <2>3, <2>6 DEF g, d, Searches
<1> QED BY <1>4, <1>5

LEMMA MatchSearches ==
  ASSUME FullInv, SearchInv, Match
  PROVE  Searches(frame', View.db, changes, enabled)
<1> DEFINE f == frame
           g == frame'
           d == View.db
           k == frame.at
           words == MatchesOf(View.db, Lookup)
<1>1. f.pc = "match" /\ Transliterating
  BY DEF Match, Transliterating
<1>2. /\ f = [pc |-> f.pc, input |-> f.input, array |-> f.array, words |-> f.words, at |-> f.at,
              found |-> f.found, matched |-> f.matched, seen |-> f.seen]
      /\ f.input \in Text /\ f.seen \in Nat
  BY <1>1, FrameAt, TypedFields, HandleAssumption DEF FullInv
<1>3. /\ f.seen <= changes /\ k \in 1..Len(f.input)
      /\ f.seen = changes /\ SmallPatterns(d) => LongestUpTo(d, f.input, k - 1, f.matched)
      /\ f.seen = changes /\ enabled => BestMatches(d, f.input) = <<>>
  BY <1>1 DEF SearchInv, Searches, SearchAt, OfferAt
<1>4. words = MatchesOf(d, SubSeq(f.input, 1, k))
  BY DEF Lookup
<1>5. g = IF words = <<>> THEN [f EXCEPT !.pc = "probe"]
          ELSE [f EXCEPT !.pc = "probe", !.found = words, !.matched = k]
  BY DEF Match
<1>6. k \in Nat \ {0}
  <2>1. Len(f.input) \in Nat
    BY <1>2, LenProperties DEF Text
  <2> QED BY <1>3, <2>1
<1> HIDE DEF words
<1>7. /\ g.pc = "probe" /\ g.at = k /\ g.seen = f.seen /\ g.input = f.input
      /\ g.matched = IF words = <<>> THEN f.matched ELSE k
  <2>1. CASE words = <<>>
    BY <1>2, <1>5, <2>1
  <2>2. CASE words # <<>>
    BY <1>2, <1>5, <2>2
  <2> QED BY <2>1, <2>2
<1> HIDE DEF f, g, d, k
<1>8. ASSUME f.seen = changes, SmallPatterns(d)
      PROVE  LongestUpTo(d, g.input, g.at, g.matched)
  <2>1. LongestUpTo(d, f.input, k - 1, f.matched)
    BY <1>3, <1>8
  <2>2. /\ words = <<>> => LongestUpTo(d, f.input, k, f.matched)
        /\ words # <<>> => LongestUpTo(d, f.input, k, k)
    BY <1>4, <1>6, <2>1, LongestGoesOn
  <2> QED BY <1>7, <2>2
<1>9. SearchAt(g, d, changes)
  BY <1>3, <1>7, <1>8 DEF SearchAt
<1>10. OfferAt(g, d, changes, enabled)
  BY <1>3, <1>7 DEF OfferAt
<1> QED BY <1>9, <1>10 DEF g, d, Searches

LEMMA ProbeSearches ==
  ASSUME FullInv, SearchInv, Probe
  PROVE  Searches(frame', View.db, changes, enabled)
<1> DEFINE f == frame
           g == frame'
           d == View.db
           k == frame.at
           goesOn == PossibleMatches(View.db, Lookup) /\ frame.at < Len(frame.input)
           all == Loop(AddNew, <<>>, Append(RowTexts(frame), Plain[frame.input]))
<1>1. f.pc = "probe" /\ Transliterating
  BY DEF Probe, Transliterating
<1>2. /\ f = [pc |-> f.pc, input |-> f.input, array |-> f.array, words |-> f.words, at |-> f.at,
              found |-> f.found, matched |-> f.matched, seen |-> f.seen]
      /\ f.input \in Text /\ f.seen \in Nat
  BY <1>1, FrameAt, TypedFields, HandleAssumption DEF FullInv
<1>3. /\ f.seen <= changes /\ k \in 1..Len(f.input)
      /\ f.seen = changes /\ SmallPatterns(d) => LongestUpTo(d, f.input, k, f.matched)
      /\ f.seen = changes /\ enabled => BestMatches(d, f.input) = <<>>
  BY <1>1 DEF SearchInv, Searches, SearchAt, OfferAt
<1>4. goesOn = (PossibleMatches(d, SubSeq(f.input, 1, k)) /\ k < Len(f.input))
  BY DEF Lookup
<1>5. g = IF goesOn THEN [f EXCEPT !.pc = "match", !.at = @ + 1]
          ELSE [f EXCEPT !.pc = "suggest", !.words = all]
  BY DEF Probe
<1>6. Len(f.input) \in Nat /\ k \in Nat \ {0} /\ d \in Files
  <2>1. Len(f.input) \in Nat
    BY <1>2, LenProperties DEF Text
  <2>2. d \in Files
    BY ViewTyped DEF FullInv
  <2> QED BY <1>3, <2>1, <2>2
<1> HIDE DEF all, goesOn
<1>7. CASE goesOn
  <2>1. /\ g.pc = "match" /\ g.at = k + 1 /\ g.seen = f.seen /\ g.input = f.input
        /\ g.matched = f.matched
    BY <1>2, <1>5, <1>7
  <2> HIDE DEF f, g, d, k
  <2>2. k + 1 \in 1..Len(f.input) /\ k + 1 - 1 = k
    <3>1. k < Len(f.input)
      BY <1>4, <1>7
    <3> QED BY <1>6, <3>1
  <2>3. SearchAt(g, d, changes)
    BY <1>3, <2>1, <2>2 DEF SearchAt
  <2>4. OfferAt(g, d, changes, enabled)
    BY <1>3, <2>1 DEF OfferAt
  <2> QED BY <2>3, <2>4 DEF g, d, Searches
<1>8. CASE ~goesOn
  <2>1. /\ g.pc = "suggest" /\ g.at = k /\ g.seen = f.seen /\ g.input = f.input
        /\ g.matched = f.matched
    BY <1>2, <1>5, <1>8
  <2> HIDE DEF f, g, d, k
  <2>2. ASSUME f.seen = changes, SmallPatterns(d)
        PROVE  g.matched = LongestMatch(d, g.input)
    <3>1. LongestUpTo(d, f.input, k, f.matched)
      BY <1>3, <2>2
    <3>2. ~(PossibleMatches(d, SubSeq(f.input, 1, k)) /\ k < Len(f.input))
      BY <1>4, <1>8
    <3>3. f.matched = LongestMatch(d, f.input)
      BY <1>2, <1>3, <1>6, <2>2, <3>1, <3>2, LongestStops DEF SmallPatterns
    <3> QED BY <2>1, <3>3
  <2>3. SearchAt(g, d, changes)
    BY <1>3, <2>1, <2>2 DEF SearchAt
  <2>4. OfferAt(g, d, changes, enabled)
    <3> DEFINE none == <<>>
    <3>1. ToSet(none) = {}
      BY DEF ToSet
    <3> HIDE DEF none
    <3>2. f.seen = changes /\ enabled => BestMatches(d, g.input) = none
      BY <1>3, <2>1 DEF none
    <3> QED BY <2>1, <3>1, <3>2 DEF OfferAt
  <2> QED BY <2>3, <2>4 DEF g, d, Searches
<1> QED BY <1>7, <1>8

\* Only the search itself goes on while nothing else is written.
LEMMA SearchKeeps == FullInv /\ SearchInv /\ [Next]_vars => SearchInv'
<1> SUFFICES ASSUME FullInv, SearchInv, [Next]_vars PROVE SearchInv'
  OBVIOUS
<1>1. ASSUME frame'.pc \notin {"best", "match", "probe", "suggest"} PROVE SearchInv'
  BY <1>1 DEF SearchInv, Transliterating
<1>2. changes \in Nat
  BY DEF FullInv, Numbers
<1>3. ASSUME BestMatch \/ Match \/ Probe PROVE SearchInv'
  <2>1. UNCHANGED store /\ UNCHANGED <<changes, enabled>>
    BY <1>3 DEF BestMatch, Match, Probe, bounds
  <2>2. View' = View
    BY <2>1 DEF store, View
  <2>3. Searches(frame', View.db, changes, enabled)
    BY <1>3, BestMatchSearches, MatchSearches, ProbeSearches
  <2>4. Searches(frame', View'.db, changes', enabled')
    BY <2>1, <2>2, <2>3
  <2> QED BY <2>4 DEF SearchInv
<1>4. CASE Enter
  <2>1. ASSUME NEW input \in Inputs, Transliterate(input) PROVE SearchInv'
    <3>1. /\ frame'.pc = "best" /\ frame'.at = 0 /\ frame'.matched = 0 /\ frame'.seen = changes
          /\ changes' = changes
      BY <2>1 DEF Transliterate, Call
    <3> QED BY <1>2, <3>1 DEF SearchInv, Searches, SearchAt, OfferAt
  <2>2. ASSUME NEW word \in LearnCalls, Learn(word) PROVE SearchInv'
    <3>1. frame'.pc \in {"idle", "count"}
      BY <2>2 DEF Learn, Call
    <3> QED BY <1>1, <3>1
  <2>3. ASSUME NEW kind \in {"full", "words"}, Export(kind) PROVE SearchInv'
    <3>1. frame'.pc \in {"idle", "read"}
      BY <2>3 DEF Export, Call
    <3> QED BY <1>1, <3>1
  <2>4. CASE \/ EnableSuggestions \/ FlushBuffer \/ Reopen
             \/ \E word \in Values : ReverseTransliterate(word)
             \/ \E r \in Rules : CreateStemrule(r)
             \/ \E e \in Exceptions : CreateStemException(e)
    <3>1. frame'.pc = "idle"
      BY <2>4, IdleIs DEF EnableSuggestions, FlushBuffer, Reopen, Restarted, ReverseTransliterate,
                          CreateStemrule, CreateStemException, Call
    <3> QED BY <1>1, <3>1
  <2> QED BY <1>4, <2>1, <2>2, <2>3, <2>4 DEF Enter
<1>5. CASE Step
  <2>1. CASE CountRules \/ Stem
    <3>1. frame'.pc \in {"stem", "commit"}
      BY <2>1, LearnSteps DEF FullInv
    <3> QED BY <1>1, <3>1
  <2>2. CASE Commit \/ FinishExport \/ Suggest
    <3>1. frame'.pc = "idle"
      BY <2>2, IdleIs DEF Commit, FinishExport, Suggest, Return
    <3> QED BY <1>1, <3>1
  <2>3. CASE ReadWords \/ WriteWord
    <3>1. frame'.pc = "write"
      BY <2>3, ReadWordsFrame, WriteWordFrame DEF FullInv, IsWriting
    <3> QED BY <1>1, <3>1
  <2> QED BY <1>3, <1>5, <2>1, <2>2, <2>3 DEF Step
<1>6. CASE Fails
  <2>1. CASE SyllableFails
    <3>1. frame'.pc \in {"stem", "commit"}
      BY <2>1, LearnSteps DEF FullInv
    <3> QED BY <1>1, <3>1
  <2>2. CASE ReadFails \/ StemFails \/ ExportFails \/ Die
    <3>1. frame'.pc = "idle"
      BY <2>2, IdleIs DEF ReadFails, StemFails, ExportFails, Die, Restarted, Return
    <3> QED BY <1>1, <3>1
  <2> QED BY <1>6, <2>1, <2>2 DEF Fails
<1>7. CASE Other
  <2>1. changes' = changes + 1 /\ frame' = frame
    BY <1>7 DEF Other, LearnElsewhere, DeleteElsewhere, Elsewhere
  <2> SUFFICES ASSUME Transliterating' PROVE Searches(frame, View'.db, changes + 1, enabled')
    BY <2>1 DEF SearchInv
  <2>2. Transliterating
    BY <2>1 DEF Transliterating
  <2>3. SearchAt(frame, View.db, changes)
    BY <2>2 DEF SearchInv, Searches
  <2>4. frame.seen \in Nat
    BY <2>2, FrameAt, TypedFields DEF FullInv, Transliterating
  <2>5. frame.seen <= changes + 1 /\ frame.seen # changes + 1
    BY <1>2, <2>3, <2>4 DEF SearchAt
  <2> QED BY <2>3, <2>5 DEF Searches, SearchAt, OfferAt
<1>8. CASE UNCHANGED vars
  <2>1. UNCHANGED store /\ changes' = changes /\ frame' = frame /\ enabled' = enabled
    BY <1>8 DEF vars, bounds
  <2>2. View' = View
    BY <2>1 DEF store, View
  <2> QED BY <2>1, <2>2 DEF SearchInv, Transliterating
<1> QED BY <1>4, <1>5, <1>6, <1>7, <1>8 DEF Next

LEMMA SearchAlways == Spec => []SearchInv
<1>1. Init => SearchInv
  BY IdleIs DEF Init, SearchInv, Transliterating
<1> QED BY <1>1, SearchKeeps, FullAlways, PTL DEF Spec

\* The longest beginning by which the table has a word is found, for every table of
\* patterns below z, when nothing is written while it is searched (words-table.c).
THEOREM LongestMatchFound == Spec => []LongestWordMatchBelowZ
<1>1. ASSUME FullInv, SearchInv PROVE LongestWordMatchBelowZ
  <2> SUFFICES ASSUME SmallPatterns(View.db), frame.pc = "suggest", frame.at > 0,
                      frame.seen = changes
               PROVE  frame.matched = LongestMatch(View.db, frame.input)
    BY DEF LongestWordMatchBelowZ, LongestWordMatch, SmallPatterns
  <2>1. SearchAt(frame, View.db, changes)
    BY <1>1 DEF SearchInv, Searches, Transliterating
  <2> QED BY <2>1 DEF SearchAt
<1> QED BY <1>1, FullAlways, SearchAlways, PTL

\* A word that was learned, and was not deleted since, is offered for each of its
\* patterns, unless more words than the limit are spelled the same: for every scheme,
\* every history of calls and every other process (words-table.c).
THEOREM LearnedOffered == Spec => LearnedIsOffered
<1>1. ASSUME FullInv, SearchInv, Suggest, frame.seen = changes, enabled,
             Len(frame.input) >= MinimumLength, NEW w \in known,
             NEW product \in ToSet(Products(Reduced(w))),
             PatternOf(product) = Fold(frame.input),
             Cardinality(Homographs(View.db, PatternOf(product))) <= Limit
      PROVE  w \in ToSet(result'.texts)
  <2> DEFINE d == View.db
             p == PatternOf(product)
             input == frame.input
  <2>1. file.db \in Files /\ d \in After(file.db) /\ d \in Files
    <3>1. file.db \in Files
      BY <1>1 DEF FullInv, StoreInv, FileRecord
    <3>2. CASE txn = <<>>
      BY <3>1, <3>2, AfterItself DEF View
    <3>3. CASE txn # <<>>
      BY <1>1, <3>1, <3>3, ViewTyped DEF FullInv, View, After
    <3> QED BY <3>1, <3>2, <3>3, AfterItself DEF After
  <2>2. KnownIn(file.db, w)
    BY <1>1 DEF FullInv, StoreInv
  <2>3. KnownIn(d, w)
    BY <2>1, <2>2, KnownKept
  <2>4. Stored(d, w) /\ p \in LearnedOf(d, w)
    <3>1. p \in PatternsToLearn(w)
      BY DEF PatternsToLearn
    <3> QED BY <2>3, <3>1 DEF KnownIn
  <2>5. frame.pc = "suggest" /\ input \in Text
    BY <1>1, FrameAt, TypedFields, HandleAssumption DEF FullInv, Suggest
  <2>6. p = Fold(input) /\ p \in Text
    BY <1>1, <2>5, FoldIsText
  <2> HIDE DEF p
  <2>7. w \in ToSet(ByConfidence(d, FirstIds(Homographs(d, p), Limit)))
    BY <1>1, <2>1, <2>4, <2>6, LearnedFound DEF p
  <2>8. BestMatches(d, input) = ByConfidence(d, FirstIds(Homographs(d, p), Limit))
    <3>1. ~(Len(input) < MinimumLength)
      <4>1. Len(input) \in Nat
        BY <2>5, LenProperties DEF Text
      <4> QED BY <1>1, <4>1 DEF MinimumLength
    <3> QED BY <2>6, <3>1 DEF BestMatches, Homographs
  <2>9. ToSet(BestMatches(d, input)) \subseteq ToSet(frame.words)
    BY <1>1, <2>5 DEF SearchInv, Transliterating, Searches, OfferAt
  <2>10. ToSet(frame.words) \subseteq ToSet(result'.texts)
    <3>1. PICK words \in WordLists :
            /\ ToSet(frame.words) \subseteq ToSet(words)
            /\ result' = [live |-> TRUE, array |-> frame.array, slots |-> Given(words).slots,
                          texts |-> words]
      BY <1>1, SuggestGives DEF FullInv
    <3>2. result'.texts = words
      BY <3>1
    <3> QED BY <3>1, <3>2
  <2> QED BY <2>7, <2>8, <2>9, <2>10
<1>2. FullInv /\ SearchInv /\ [Next]_vars =>
        [Suggest /\ frame.seen = changes /\ enabled /\ Len(frame.input) >= MinimumLength =>
           \A w \in known : \A product \in ToSet(Products(Reduced(w))) :
             /\ PatternOf(product) = Fold(frame.input)
             /\ Cardinality(Homographs(View.db, PatternOf(product))) <= Limit
             => w \in ToSet(result'.texts)]_vars
  BY <1>1
<1> QED BY <1>2, FullAlways, SearchAlways, PTL DEF Spec, LearnedIsOffered

\* Tokens of low priority are given up first, for every scheme and every word that is
\* learned (learn.c).
THEOREM LowPriorityFirst == Spec => []LowGoesFirst
<1>1. ASSUME FullInv PROVE LowGoesFirst
  <2> SUFFICES ASSUME frame.pc = "count"
               PROVE  LET p == Kept(frame.word)
                          q == Reduced(frame.word)
                      IN (\E i \in DOMAIN p : \E t \in ToSet(p[i]) :
                            t.sym.priority > Low /\ t \notin ToSet(q[i])) =>
                           \A i \in DOMAIN q : Len(q[i]) > 1 => \A t \in ToSet(q[i]) : t.sym.priority > Low
    BY DEF LowGoesFirst
  <2>1. frame.word \in Text
    BY <1>1, FrameAt, LearnFields DEF FullInv
  <2> QED BY <2>1, LowGoneFirst
<1> QED BY <1>1, FullAlways, PTL

-----------------------------------------------------------------------------
(* The words of the patterns, step by step.                                *)

\* So it is with the stems of a word.
LEMMA StemsOwned ==
  ASSUME Agreeing, NEW d \in Files, Owned(d), NEW stems \in Seq(Text)
  PROVE  Owned(Loop(LearnStem, d, stems))
<1> DEFINE D == {e \in Files : Owned(e)}
<1>1. Loop(LearnStem, d, stems) = Committing!Runs(0, d, stems)
  BY DEF Committing!Runs, Committing!Loop, Committing!Once, Loop, Once, CommitTurn
<1>2. Len(stems) \in Nat /\ \A j \in 1..Len(stems) : stems[j] \in Text
  BY LenProperties, ElementOfSeq
<1>3. ASSUME NEW j \in 1..Len(stems), NEW e \in D
      PROVE  CommitTurn(0, e, stems[j]) \in D
  <2> DEFINE f == LearnInto(e, stems[j], 0)
  <2>1. f \in Files /\ Owned(f)
    BY <1>2, KnownLearned, LearnedOwned DEF After
  <2>2. CommitTurn(0, e, stems[j]) \in {e, f}
    BY DEF CommitTurn, LearnStem
  <2> HIDE DEF f
  <2> QED BY <2>1, <2>2
<1>4. d \in D
  OBVIOUS
<1> HIDE DEF D
<1>5. Committing!Runs(0, d, stems) \in D
  BY <1>2, <1>3, <1>4, Committing!StaysIn
<1> QED BY <1>1, <1>5 DEF D


\* In the file, and in what an open transaction would make of it.
PatternsOwned == Owned(file.db) /\ (txn # <<>> => Owned(txn[1].db))
OwnedInv == Agreeing => PatternsOwned

LEMMA OwnedInitially == Init => OwnedInv
<1> SUFFICES ASSUME Init PROVE PatternsOwned
  BY DEF OwnedInv
<1>1. file.db = EmptyDb /\ txn = <<>>
  BY DEF Init
<1>2. EmptyDb.patterns = {}
  BY DEF EmptyDb
<1> QED BY <1>1, <1>2 DEF PatternsOwned, Owned

\* As long as the tables stay the same.
LEMMA OwnedRests ==
  ASSUME PatternsOwned, UNCHANGED store
  PROVE  PatternsOwned'
BY DEF PatternsOwned, Owned, Ids, store

LEMMA OwnedDropped ==
  ASSUME PatternsOwned, file' = file, txn' = <<>>
  PROVE  PatternsOwned'
BY DEF PatternsOwned, Owned, Ids

\* Whatever the file is made of, its patterns have their words.
LEMMA OwnedFile ==
  ASSUME NEW d, Owned(d), NEW b, file' = [db |-> d, index |-> b], txn' = <<>>
  PROVE  PatternsOwned'
<1>1. file'.db = d
  OBVIOUS
<1> QED BY <1>1 DEF PatternsOwned, Owned, Ids

LEMMA OwnedTransaction ==
  ASSUME PatternsOwned, file' = file, NEW d, Owned(d), NEW b, txn' = <<[db |-> d, index |-> b]>>
  PROVE  PatternsOwned'
<1>1. txn'[1].db = d
  OBVIOUS
<1> QED BY <1>1 DEF PatternsOwned, Owned, Ids

LEMMA LearnOwned ==
  ASSUME Agreeing, PatternsOwned, StoreInv, NEW word \in LearnCalls, Learn(word)
  PROVE  PatternsOwned'
<1>1. CASE enabled /\ txn = <<>> /\ CanLearnWord(word)
  <2> DEFINE d == LearnInto(file.db, word, 1)
             t == [file EXCEPT !.db = d]
  <2>1. txn' = <<t>> /\ file' = file
    BY <1>1 DEF Learn
  <2>2. file.db \in Files /\ file = [db |-> file.db, index |-> file.index]
    BY DEF StoreInv, FileRecord
  <2>3. Owned(d)
    BY <2>2, LearnedOwned, HandleAssumption DEF PatternsOwned
  <2> HIDE DEF d
  <2>4. t = [db |-> d, index |-> file.index]
    BY <2>2
  <2> HIDE DEF t
  <2> QED BY <2>1, <2>3, <2>4, OwnedTransaction
<1>2. CASE ~(enabled /\ txn = <<>> /\ CanLearnWord(word))
  <2>1. UNCHANGED store
    BY <1>2 DEF Learn
  <2> QED BY <2>1, OwnedRests
<1> QED BY <1>1, <1>2

LEMMA CommitOwned ==
  ASSUME Agreeing, PatternsOwned, StoreInv, FrameOK(frame), Commit
  PROVE  PatternsOwned'
<1> DEFINE d == txn[1].db
           stems == frame.stem.stems
           e == Loop(LearnStem, d, stems)
<1>1. frame.pc = "commit" /\ txn' = <<>> /\ file' = [txn[1] EXCEPT !.db = e]
  BY DEF Commit
<1>2. txn # <<>>
  BY <1>1 DEF Learning, StoreInv
<1>3. d \in Files /\ txn[1] = [db |-> d, index |-> txn[1].index]
  BY <1>2, ViewTyped DEF FileRecord
<1>4. stems \in Seq(Text)
  <2>1. frame \in LearnFrames
    BY <1>1, FrameAt
  <2> QED BY <2>1, LearnFields
<1>5. Owned(d)
  BY <1>2 DEF PatternsOwned
<1> HIDE DEF stems, d
<1>6. Owned(e)
  BY <1>3, <1>4, <1>5, StemsOwned
<1> HIDE DEF e
<1>7. file' = [db |-> e, index |-> txn[1].index]
  BY <1>1, <1>3
<1> QED BY <1>1, <1>6, <1>7, OwnedFile

LEMMA SetViewOwned ==
  ASSUME PatternsOwned, StoreInv, NEW b, SetView([View EXCEPT !.index = b])
  PROVE  PatternsOwned'
<1>1. CASE txn = <<>>
  <2>1. file' = [file EXCEPT !.index = b] /\ txn' = <<>>
    BY <1>1 DEF SetView, View
  <2>2. file = [db |-> file.db, index |-> file.index]
    BY DEF StoreInv, FileRecord
  <2>3. file' = [db |-> file.db, index |-> b]
    BY <2>1, <2>2
  <2> QED BY <2>1, <2>3, OwnedFile DEF PatternsOwned
<1>2. CASE txn # <<>>
  <2> DEFINE t == [txn[1] EXCEPT !.index = b]
  <2>1. txn' = <<t>> /\ file' = file
    BY <1>2 DEF SetView, View
  <2>2. txn[1] = [db |-> txn[1].db, index |-> txn[1].index]
    BY <1>2, ViewTyped DEF FileRecord
  <2>3. t = [db |-> txn[1].db, index |-> b]
    BY <2>2
  <2> HIDE DEF t
  <2> QED BY <1>2, <2>1, <2>3, OwnedTransaction DEF PatternsOwned
<1> QED BY <1>1, <1>2

LEMMA ExportOwned ==
  ASSUME PatternsOwned, StoreInv, NEW kind \in {"full", "words"}, Export(kind)
  PROVE  PatternsOwned'
<1> DEFINE b == View.index \/ kind = "full"
<1>1. SetView([View EXCEPT !.index = b]) \/ UNCHANGED store
  BY DEF Export, store
<1> HIDE DEF b
<1> QED BY <1>1, SetViewOwned, OwnedRests

LEMMA FinishExportOwned ==
  ASSUME PatternsOwned, StoreInv, FinishExport
  PROVE  PatternsOwned'
<1> DEFINE b == IF frame.kind = "full" THEN FALSE ELSE View.index
<1>1. SetView([View EXCEPT !.index = b])
  BY DEF FinishExport, EndExport
<1> HIDE DEF b
<1> QED BY <1>1, SetViewOwned

\* The other processes learn and delete as this one does.
LEMMA OtherOwned ==
  ASSUME Agreeing, PatternsOwned, StoreInv, Other
  PROVE  PatternsOwned'
<1>1. txn = <<>> /\ txn' = <<>>
  BY DEF Other, LearnElsewhere, DeleteElsewhere, Elsewhere
<1>2. file.db \in Files /\ file = [db |-> file.db, index |-> file.index]
  BY DEF StoreInv, FileRecord
<1>3. ASSUME NEW d, Owned(d), file' = [file EXCEPT !.db = d]
      PROVE  PatternsOwned'
  <2>1. file' = [db |-> d, index |-> file.index]
    BY <1>2, <1>3
  <2> QED BY <1>1, <1>3, <2>1, OwnedFile
<1>4. ASSUME NEW word \in LearnedElsewhere, LearnElsewhere(word)
      PROVE  PatternsOwned'
  <2> DEFINE d == LearnInto(file.db, word, 1)
  <2>1. file' = [file EXCEPT !.db = d]
    BY <1>4 DEF LearnElsewhere
  <2>2. Owned(d)
    BY <1>2, LearnedOwned, HandleAssumption DEF PatternsOwned
  <2> HIDE DEF d
  <2> QED BY <1>3, <2>1, <2>2
<1>5. ASSUME NEW word, DeleteElsewhere(word)
      PROVE  PatternsOwned'
  <2> DEFINE d == DeleteRows(file.db, IdOf(file.db, word))
  <2>1. file' = [file EXCEPT !.db = d]
    BY <1>5 DEF DeleteElsewhere
  <2>2. Owned(d)
    BY DeletedOwned DEF PatternsOwned
  <2> HIDE DEF d
  <2> QED BY <1>3, <2>1, <2>2
<1> QED BY <1>4, <1>5 DEF Other

\* The step of the patterns, by the actions of Next.
LEMMA OwnedKeeps == FullInv /\ OwnedInv /\ [Next]_vars => OwnedInv'
<1> SUFFICES ASSUME FullInv, PatternsOwned, Agreeing, [Next]_vars
             PROVE  PatternsOwned'
  BY DEF OwnedInv
<1>1. StoreInv /\ FrameOK(frame)
  BY DEF FullInv
<1>2. ASSUME UNCHANGED store
      PROVE  PatternsOwned'
  BY <1>2, OwnedRests
<1>3. CASE Enter
  <2>1. CASE EnableSuggestions \/ FlushBuffer
    BY <1>2, <2>1 DEF EnableSuggestions, FlushBuffer
  <2>2. CASE Reopen
    BY <2>2, OwnedDropped DEF Reopen, Restarted
  <2>3. CASE \E input \in Inputs : Transliterate(input)
    BY <1>2, <2>3 DEF Transliterate
  <2>4. CASE \E word \in Values : ReverseTransliterate(word)
    BY <1>2, <2>4 DEF ReverseTransliterate
  <2>5. CASE \E r \in Rules : CreateStemrule(r)
    BY <1>2, <2>5 DEF CreateStemrule
  <2>6. CASE \E e \in Exceptions : CreateStemException(e)
    BY <1>2, <2>6 DEF CreateStemException
  <2> QED BY <1>1, <1>3, <2>1, <2>2, <2>3, <2>4, <2>5, <2>6, LearnOwned, ExportOwned DEF Enter
<1>4. CASE Step
  <2>1. CASE BestMatch \/ Match \/ Probe \/ Suggest \/ CountRules \/ Stem \/ ReadWords \/ WriteWord
    BY <1>2, <2>1 DEF BestMatch, Match, Probe, Suggest, CountRules, Stem, ReadWords, WriteWord
  <2> QED BY <1>1, <1>4, <2>1, CommitOwned, FinishExportOwned DEF Step
<1>5. CASE Fails
  <2>1. CASE ReadFails \/ SyllableFails \/ StemFails \/ ExportFails
    BY <1>2, <2>1 DEF ReadFails, SyllableFails, StemFails, ExportFails
  <2>2. CASE Die
    BY <2>2, OwnedDropped DEF Die, Restarted
  <2> QED BY <1>5, <2>1, <2>2 DEF Fails
<1>6. CASE UNCHANGED vars
  BY <1>2, <1>6 DEF vars
<1> QED BY <1>1, <1>3, <1>4, <1>5, <1>6, OtherOwned DEF Next

\* Every pattern that is stored is the pattern of a stored word: no prefix of a later
\* product is looked up in vain, for every scheme whose symbols of a value agree, every
\* history of calls and every other process (words-table.c).
THEOREM PatternsKeepWords == Spec => []PatternsHaveWords
<1>1. OwnedInv => PatternsHaveWords
  BY DEF OwnedInv, PatternsOwned, Owned, PatternsHaveWords
<1> QED BY <1>1, OwnedInitially, OwnedKeeps, FullAlways, PTL DEF Spec
===============================================================================
