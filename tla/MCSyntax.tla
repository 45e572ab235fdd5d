------------------------------ MODULE MCSyntax ------------------------------
(* Drafts for Syntax. A piece is written as words: a mark or a keyword is     *)
(* itself, "^" and the line breaks say how the next word stands.              *)
EXTENDS Syntax

Names == {"a", "b", "x", "f", "c", "T", "A", "B", "ptr", "const", "cast", "type", "error", "test",
          "link_library", "f64x2"}
Numbers == {"0", "3"}
Gaps == {"^", "nl", "bl"}

Word(w, gap) ==
  CASE w \in Names -> Item("IDENT", w, gap)
    [] w \in Numbers -> Item("INT", w, gap)
    [] w = "'c'" -> Item("STRING", "c", gap)
    [] w = "'s'" -> Item("STRING", "s", gap)
    [] w = "'q'" -> Item("MULTILINE", "quote", "line")
    [] w \in {"doc", "safety", "plain"} -> Item("//", w, gap)
    [] OTHER -> Item(w, "", gap)

Gap(w) == CASE w = "^" -> "none" [] w = "nl" -> "line" [] w = "bl" -> "blank" [] OTHER -> "space"

\* The items of a piece.
Items(ws) ==
  LET at == SelectSeq([i \in DOMAIN ws |-> i], LAMBDA i : ws[i] \notin Gaps)
  IN [k \in DOMAIN at |-> Word(ws[at[k]], Gap(IF at[k] = 1 THEN "" ELSE ws[at[k] - 1]))]

Places(seq) == [k \in DOMAIN seq |-> {Items(ws) : ws \in seq[k]}]

Starts(first) == {<<"fn", "f", "(", ")", "{", "nl">> \o first}
End == {<<";", "nl", "}">>}

\* Three operands and the marks that stand for several things.
Operands == {<<"a">>, <<"-", "a">>, <<"a", ".", "*">>, <<"(", "a", ")">>}
Operators == {<<"-">>, <<"&">>, <<"<">>, <<">">>, <<"<", "^", "<">>, <<">", "^", ">">>, <<"nl", "*">>, <<"|">>}
Expressions == Places(<<Starts(<<"x", "=">>), Operands, Operators, Operands, Operators, Operands, End>>)

\* One form of expression and what may follow it.
Forms == {
  <<"f", "<", "T", ">", "(", "b", ",", ")">>, <<"f", "(", "a", "<", "b", ",", "c", ">", "a", ")">>,
  <<"f", "(", "a", "<", "b", ",", "c", ">", "(", "a", ")", ")">>, <<"a", "::", "f", "<", "3", ">", "(", ")">>,
  <<"cast", "<", "A", "<", "A", "<", "T", ">", "^", ">", ">", "(", "a", ")">>, <<"type", "<", "T", ">", "==", "type", "<", "a", "::", "A", ">">>,
  <<"a", "[", "3", "..", "]">>, <<"a", "[", "..", "-", "b", "]">>, <<"a", "[", "b", "]", "[", "3", "..", "b", "]">>,
  <<"A", "{", "a", ":", "b", ",", "b", ":", "3", "}">>, <<"a", "::", "B", "{", "nl", "a", ":", "[", "3", "]", "T", "{", "a", "}", "nl", "}">>,
  <<"[", "3", "]", "[", "(", "a", "+", "b", ")", "]", "T", "{", "}">>, <<"f64x2", "{", "a", ",", "b", "}">>,
  <<"try", "move", "a", ".", "b">>, <<"comptime", "f", "(", "a", ")">>, <<"a", "catch", "break", ":", "x">>,
  <<"a", "orelse", "return", "-", "b">>, <<"-", "(", "a", ")">>, <<"!", "~", "&", "var", "a">>, <<"'s'">>, <<"'q'">>,
  <<"if", "a", "|", "b", "|", "{", "b", "}", "else", "{", "nl", "a", "|", "b", "nl", "}">>,
  <<"match", "a", "{", "A", "(", "x", ")", "=>", "x", ",", "nl", "B", "::", "A", "=>", "{", "b", "}", "nl", "}">>}
Followers == {<<>>, <<"-", "b">>, <<"(", "b", ")">>, <<"[", "b", "]">>, <<"nl", "&", "b">>, <<"and", "[", "3", "]", "T", "{", "}">>}
Whole == Places(<<Starts(<<"x", "=">>), Forms, Followers, End>>)

\* Types, in each place a type may stand.
Wrappers == {<<>>, <<"[", "]">>, <<"[", "3", "]">>, <<"[", "(", "a", "-", "3", ")", "]">>, <<"?">>, <<"a", "::", "A", "!">>, <<"&", "var">>}
Bases == {<<"T">>, <<"A", "<", "A", "<", "T", ">", "^", ">">>, <<"fn", "(", "T", ",", "&", "T", ")", "->", "!", "T">>, <<"ptr", "<", "const", "T", ">">>}
Typed(before, after) == Places(<<{before}, Wrappers, Wrappers, Bases, {after}>>)
Types == {
  Typed(<<"fn", "f", "(", ")", "{", "let", "x", ":">>, <<"=", "a", ";", "}">>),
  Typed(<<"pub", "extern", "'c'", "fn", "f", "(", "a", ":">>, <<",", "...", ")">>),
  Typed(<<"fn", "(", "a", ":", "T", ")", "f", "<", "T", ",", "b", ":", "T", ">", "(", ")", "->">>, <<"{", "return", ";", "nl", "}">>),
  Typed(<<"union", "A", "<", "T", ">", "{", "nl", "A", "(">>, <<")", "nl", "}">>)}

\* Where the author breaks lines inside and around groups.
Arguments == {<<"a">>, <<"nl", "f", "(", "nl", "a", "nl", ")">>, <<"f", "(", "nl", "[", "3", "]", "T", "{", "nl", "b", ",", "nl", "}", ")">>, <<"plain", "nl", "a", "nl", "+", "b">>}
Broken == Places(<<Starts(<<"f", "(">>), Arguments, {<<",">>, <<"nl", ",">>, <<",", "plain">>}, Arguments, {<<>>, <<",">>, <<"plain">>}, {<<")">>, <<"nl", ")">>}, End>>)

\* Statements, on one line or several, with comments and blank lines between.
Statements == {
  <<"a", ";">>, <<"nl", "x", ":", "while", "a", "|", "b", "|", "{", "break", ":", "x", ";", "}">>, <<"bl", "safety", "nl", "unsafe", "a", ";", "plain">>,
  <<"nl", "if", "a", "{", "nl", "safety", "bl", "unsafe", "a", ";", "}", "else", "if", "b", "{", "}">>, <<"nl", "plain", "nl", "return", "unsafe", "a", ";">>,
  <<"nl", "for", "a", "..", "b", "|", "x", "|", "{", "nl", "}">>, <<"bl", "var", "x", "=", "'q'", "nl", ";">>, <<"nl", "comptime", "match", "a", "|", "x", ",", "b", "|", "{", "nl", "a", ";", "nl", "}">>,
  <<"defer", "a", "(", ")", ";", "nl", "safety">>, <<"comptime", "if", "a", "{", "plain", "nl", "b", ";", "nl", "}", "else", "comptime", "if", "b", "{", "}">>,
  <<"nl", "match", "a", "{", "nl", "A", "=>", "x", "=", "b", ";", ",", "plain", "nl", "B", "=>", "return", "nl", "}">>}
Blocks == Places(<<{<<"test", "'s'", "{">>}, Statements, Statements, {<<"nl", "}">>}>>)

\* Declarations one after another.
Declarations == {
  <<"import", "b", "::", "a", ";">>, <<"import", "a", ";">>, <<"fn", "f", "(", ")", "{", "}">>, <<"pub", "unsafe", "fn", "f", "(", ")", "{", "nl", "plain", "nl", "}">>,
  <<"struct", "A", "{", "doc", "nl", "pub", "a", ":", "T", ",", "bl", "doc", "nl", "b", ":", "&", "T", "plain", "nl", "}">>, <<"enum", "A", "{", "A", ",", "B", "}">>,
  <<"pub", "enum", "A", "{", "nl", "doc", "nl", "A", ",", "plain", "nl", "B", "nl", "plain", "nl", "}">>, <<"union", "A", "{", "nl", "A", "(", "T", ")", "nl", "}">>,
  <<"error", "A", "{", "nl", "A", "nl", "}">>, <<"pub", "error", "A", "=", "B", "or", "a", "::", "B", ";">>, <<"impl", "A", "for", "B", ";">>,
  <<"contract", "A", "{", "nl", "fn", "f", "(", "a", ":", "T", ")", ";", "nl", "fn", "f", "(", ")", "->", "T", "nl", "}">>,
  <<"@", "link_library", "(", "'s'", ")", "nl", "extern", "'c'", "fn", "f", "(", "a", ":", "T", ",", "...", ")", "->", "T">>,
  <<"export", "'c'", "fn", "f", "(", ")", "{", "return", ";", "}">>, <<"extern", "'c'", "struct", "A", "{", "a", ":", "T", "}">>}
Between == {<<>>, <<"nl", "doc", "nl">>, <<"plain", "bl", "doc", "nl">>, <<"bl", "plain", "bl">>, <<"nl">>}
Files == Places(<<Declarations, {gap \o d : gap \in Between, d \in Declarations}>>)

MCDrafts == LET all == {Expressions, Whole, Broken, Blocks, Files} \union Types IN all
MCParsed(source) == LET made == parsePath(source) IN made
MCLaid(source) == LET made == Format(source) IN made
MCKnown(source) == LET met == Disagreements(source) IN met
=============================================================================
