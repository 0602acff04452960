--------------------------- MODULE SymbolQueries ----------------------------
(***************************************************************************)
(* What vst_tokenize reads of the table symbols (symbol-table.c): the      *)
(* tokens of a text by pattern or by value, in the order the prepared      *)
(* statements give them.                                                   *)
(***************************************************************************)
EXTENDS SymbolsDb, Loops

CONSTANT Lower  \* Lower[c]: the letter c as lower() makes it, and as LIKE sees it

ASSUME LowerAssumption == Lower \in [Char -> Char]

Fold(text) == [i \in DOMAIN text |-> Lower[text[i]]]

ByValue(t, text, match) ==
  {r \in t : text \in {r.sym.value1, r.sym.value2} /\ (match = "exact" => r.sym.match = "exact")}

\* group by lower(pattern): the row with the least id, its pattern in lower case.
Grouped(rows) ==
  {[r EXCEPT !.sym.pattern = Fold(@)] :
     r \in {q \in rows : \A p \in rows : Fold(p.sym.pattern) = Fold(q.sym.pattern) => q.id <= p.id}}

\* The tokens of a piece in the order the statement gives them.
Matches(t, text, using, match) ==
  IF using = "pattern"
  THEN Ordered({r \in t : r.sym.pattern = text /\ r.sym.match = "exact"},
               LAMBDA r, q : r.id < q.id)
  ELSE Ordered(Grouped(ByValue(t, text, match)),
               LAMBDA r, q : \/ r.sym.priority > q.sym.priority
                             \/ r.sym.priority = q.sym.priority /\ r.id < q.id)

\* No value1 begins, or is begun by, a value2.
ColumnsApart(t) ==
  \A r, q \in t : r.sym.value1 # <<>> /\ q.sym.value2 # <<>> =>
    ~IsPrefix(r.sym.value1, q.sym.value2) /\ ~IsPrefix(q.sym.value2, r.sym.value1)
=============================================================================
