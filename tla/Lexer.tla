------------------------------- MODULE Lexer -------------------------------
(* The text of a source file and the tokens internal/lexer reads from it. A *)
(* text is a sequence of items as they stand on the page, each with the     *)
(* white space in front of it: "none", "space", "line" (a line break),      *)
(* "blank" (a blank line too) or "blanks" (several). An item is a word, a   *)
(* mark or a comment; `ind` is its indentation, which the scanner skips.    *)
EXTENDS Naturals, Sequences, SequencesExt

\* v: TLC keeps the value it compares, and not the steps to it.
Held(v) == IF v = v THEN v ELSE v

Item(t, v, gap) == [t |-> t, v |-> v, gap |-> gap, ind |-> 0]

\* Marks of several characters; every other mark is a character.
Spelling(t) ==
  CASE t = "==" -> <<"=", "=">> [] t = "=>" -> <<"=", ">">> [] t = "!=" -> <<"!", "=">>
    [] t = "<=" -> <<"<", "=">> [] t = ">=" -> <<">", "=">> [] t = "->" -> <<"-", ">">>
    [] t = ".." -> <<".", ".">> [] t = "::" -> <<":", ":">> [] t = "..." -> <<".", ".", ".">>
    [] OTHER -> <<t>>

\* compoundTokens, and the `=>` that scanToken tries first.
Compounds == {"==", "=>", "!=", "<=", ">=", "->", "..", "::"}

Keywords ==
  {"fn", "import", "pub", "let", "var", "return", "defer", "errdefer", "if", "else", "while",
   "break", "continue", "match", "struct", "enum", "union", "contract", "for", "impl", "true",
   "false", "and", "or", "mut", "unsafe", "extern", "export", "comptime", "try", "move", "null",
   "orelse", "catch"}

IsWord(t) == t = "IDENT" \/ t \in Keywords
IsComment(item) == item.t = "//"

\* The characters of a text: a mark's characters one by one, a word or a literal
\* as one, each with the white space before it.
Characters(text) ==
  FlattenSeq([i \in DOMAIN text |->
    LET s == Spelling(text[i].t)
    IN [j \in DOMAIN s |-> [c |-> s[j], v |-> text[i].v, gap |-> IF j = 1 THEN text[i].gap ELSE "none"]]])

LineBreaks(gap) == CASE gap = "line" -> 1 [] gap = "blank" -> 2 [] gap = "blanks" -> 3 [] OTHER -> 0

\* What the characters from i on begin with, reading as far as they stand
\* together: [t, v, n] of the token and the number of characters it takes.
scanToken(cs, i) ==
  LET together(n) == i + n - 1 <= Len(cs) /\ \A j \in i + 1 .. i + n - 1 : cs[j].gap = "none"
      c(j) == cs[i + j].c
      \* readIdentifier goes on through letters and digits.
      word == CHOOSE n \in 1 .. Len(cs) :
                /\ together(n) /\ \A j \in 1 .. n - 1 : IsWord(c(j)) \/ c(j) = "INT"
                /\ ~(together(n + 1) /\ (IsWord(c(n)) \/ c(n) = "INT"))
  IN CASE together(3) /\ c(0) = "." /\ c(1) = "." /\ c(2) = "." -> [t |-> "...", v |-> "", n |-> 3]
       [] together(3) /\ c(0) = "INT" /\ c(1) = "." /\ c(2) = "INT" ->
            [t |-> "FLOAT", v |-> cs[i].v, n |-> 3]
       [] together(2) /\ \E m \in Compounds : Spelling(m) = <<c(0), c(1)>> ->
            [t |-> CHOOSE m \in Compounds : Spelling(m) = <<c(0), c(1)>>, v |-> "", n |-> 2]
       [] together(2) /\ c(0) = "IDENT" /\ cs[i].v = "c" /\ c(1) = "STRING" ->
            [t |-> "CSTRING", v |-> cs[i + 1].v, n |-> 2]
       \* skipIgnored takes the rest of the line; no program goes on after it.
       [] together(2) /\ c(0) = "/" /\ c(1) = "/" -> [t |-> "ILLEGAL", v |-> "", n |-> 2]
       [] IsWord(c(0)) /\ word > 1 -> [t |-> "IDENT", v |-> "joined", n |-> word]
       [] together(2) /\ c(0) = "INT" /\ c(1) = "INT" -> [t |-> "INT", v |-> "joined", n |-> 2]
       \* A quote ends a string that is not written in the multiline form.
       [] c(0) = "STRING" /\ cs[i].v = "quote" -> [t |-> "ILLEGAL", v |-> "", n |-> 1]
       [] OTHER -> [t |-> IF c(0) = "MULTILINE" THEN "STRING" ELSE c(0), v |-> cs[i].v, n |-> 1]

None == [doc |-> <<>>, safety |-> <<>>]

\* skipIgnored: doc and safety comments are kept for the next token; a blank line
\* or any other comment in between drops what was kept.
Kept(pending, ch) ==
  LET before == IF LineBreaks(ch.gap) > 1 THEN None ELSE pending
  IN IF ch.c # "//" THEN before
     ELSE CASE ch.v = "doc" -> [before EXCEPT !.doc = Append(@, ch.v)]
            [] ch.v = "safety" -> [before EXCEPT !.safety = Append(@, ch.v)]
            [] OTHER -> None

\* A comment takes everything up to the end of its line.
NextLine(cs, i) ==
  CHOOSE j \in i + 1 .. Len(cs) + 1 :
    /\ j = Len(cs) + 1 \/ LineBreaks(cs[j].gap) > 0
    /\ \A k \in i + 1 .. j - 1 : LineBreaks(cs[k].gap) = 0

RECURSIVE tokensFrom(_, _, _, _)
tokensFrom(cs, i, line, pending) ==
  IF i > Len(cs)
  THEN <<[t |-> "EOF", v |-> "", line |-> line + 1, tight |-> FALSE, doc |-> pending.doc,
          safety |-> pending.safety]>>
  ELSE LET at == line + LineBreaks(cs[i].gap)
           kept == Kept(pending, cs[i])
           tok == scanToken(cs, i)
       IN IF cs[i].c = "//" THEN tokensFrom(cs, NextLine(cs, i), at, kept)
          ELSE <<[t |-> tok.t, v |-> tok.v, line |-> at,
                  tight |-> i > 1 /\ cs[i].gap = "none", doc |-> kept.doc, safety |-> kept.safety]>>
               \o tokensFrom(cs, i + tok.n, at, None)

\* Every token of the text, EOF last; `tight` says that a token stands in the
\* column right after the one before it.
tokenize(text) == LET cs == Held(Characters(text)) IN Held(tokensFrom(cs, 1, 1, None))

=============================================================================
