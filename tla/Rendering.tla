------------------------------ MODULE Rendering ------------------------------
(***************************************************************************)
(* rendering.c and renderer/ml_unicode.c: the text a sequence of tokens is *)
(* written as, and the pattern a sequence of values is typed as.  Both go  *)
(* through the tokens once, with the text so far and the token before.     *)
(***************************************************************************)
EXTENDS Scheme

CONSTANTS
  MlUnicode,    \* whether the scheme's identifier has a renderer: ml-unicode is the one there is
  IndicDigits   \* v_->config_use_indic_digits

ASSUME RenderingAssumption ==
  MlUnicode \in BOOLEAN /\ IndicDigits \in BOOLEAN /\ "_" \in Char

\* previous: <<>>, or the token before.
Blank == [text |-> <<>>, previous |-> <<>>]

Without(text, ending) == SubSeq(text, 1, Len(text) - Len(ending))

Follows(r, tag) == r.previous # <<>> /\ r.previous[1].sym.tag = tag

\* What stands of a text when the chillu at its end is taken back: the letters that
\* end it are those of value1, or else of value2.  <<>> when it ends in neither.
ChilluTaken(r) ==
  LET p == r.previous[1].sym IN
  IF IsSuffix(p.value1, r.text) THEN <<Without(r.text, p.value1)>>
  ELSE IF IsSuffix(p.value2, r.text) THEN <<Without(r.text, p.value2)>>
  ELSE <<>>

\* ml_unicode_renderer: <<>> when it leaves the token to resolve_tokens.
MlUnicodeRenderer(r, s) ==
  IF r.previous # <<>> /\ s.type = "vowel" /\ s.pattern = <<"r">> THEN <<r.text \o s.value3>>
  ELSE IF r.previous # <<>> /\ s.tag = "render_value2" THEN <<r.text \o s.value2>>
  ELSE IF Follows(r, "chill") /\ s.type = "vowel" /\ ChilluTaken(r) # <<>>
       THEN <<ChilluTaken(r)[1] \o r.previous[1].sym.value3 \o s.value2>>
  ELSE <<>>

\* A vowel is a sign after anything that can carry one; after a virama it takes its place.
VowelText(r, s) ==
  IF IsSuffix(Virama, r.text) THEN Without(r.text, Virama) \o s.value2
  ELSE IF r.previous # <<>> /\ r.previous[1].sym.type # "other" THEN r.text \o s.value2
  ELSE r.text \o s.value1

PlainText(r, s) ==
  CASE s.type = "virama" ->
         (IF IsSuffix(Virama, r.text) THEN r.text ELSE r.text \o Virama) \o <<NonJoiner>>
    [] s.type = "vowel" -> VowelText(r, s)
    [] s.type = "number" /\ ~IndicDigits -> r.text \o s.pattern
    [] OTHER -> r.text \o s.value1

\* A token its own renderer has written is not the previous token of the next one.
Render(r, token) ==
  LET custom == IF MlUnicode THEN MlUnicodeRenderer(r, token.sym) ELSE <<>> IN
  IF token.sym.type = "non_joiner" THEN [r EXCEPT !.previous = <<>>]
  ELSE IF custom # <<>> THEN [r EXCEPT !.text = custom[1]]
  ELSE [text |-> PlainText(r, token.sym), previous |-> <<token>>]

ResolveTokens(tokens) == Loop(Render, Blank, tokens).text

Transliterated(text) ==
  Once(LAMBDA positions : ResolveTokens(FlattenSeq(positions)), Tokenize(text, "pattern", "exact"))

\* Nothing is put behind a chillu.
FaultyMlUnicodeRtlRenderer(s) == <<>>

\* ml_unicode_rtl_renderer: what it types for a token, <<>> when it leaves it.
MlUnicodeRtlRenderer(s) == IF s.tag = "chill" THEN <<s.pattern \o <<"_">>>> ELSE <<>>

TypeToken(r, token) ==
  LET s == token.sym
      custom == IF MlUnicode THEN MlUnicodeRtlRenderer(s) ELSE <<>>
      repeats == s.type = "vowel" /\ r.previous # <<>> /\ r.previous[1].sym.value1 = s.value1
  IN [text |-> r.text \o (IF custom # <<>> THEN custom[1]
                          ELSE IF repeats THEN s.pattern \o <<"_">> ELSE s.pattern),
      previous |-> <<token>>]

\* resolve_rtl_tokens; one _ at the end is dropped.
ResolveRtlTokens(positions) ==
  LET typed == Loop(TypeToken, Blank, FirstTokens(positions)).text
  IN IF IsSuffix(<<"_">>, typed) THEN Front(typed) ELSE typed

ReverseTransliterated(text) == ResolveRtlTokens(Tokenize(text, "value", "exact"))
=============================================================================
