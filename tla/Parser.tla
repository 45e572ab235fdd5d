------------------------------- MODULE Parser -------------------------------
(* internal/parser: tokens to tree. As in the source a parse function starts *)
(* with its first token current and leaves its last token current; `i` is    *)
(* the place of the current token, i + 1 of `peek`. The first error ends a   *)
(* parse: what the parser goes on to report after one changes no tree.       *)
(* Names, literals and spans are left to the token they come from.           *)
EXTENDS Lexer, FiniteSetsExt

N(k, v, c) == [k |-> k, v |-> v, c |-> c]
Leaf(k, v) == N(k, v, <<>>)
Nil == Leaf("", "")

\* The result of a parse: the place of its last token and its node, or (i = 0)
\* an error at some token.
Ok(i, n) == [i |-> i, n |-> n, at |-> 0]
Bad(at) == [i |-> 0, n |-> Nil, at |-> at]
Then(r, next(_, _)) == IF r.i = 0 THEN r ELSE next(r.i, r.n)

T(ts, i) == IF i > Len(ts) THEN "EOF" ELSE ts[i].t
V(ts, i) == IF i > Len(ts) THEN "" ELSE ts[i].v
Name(ts, i) == Leaf("name", V(ts, i))

\* commentText of the comments the scanner kept.
Doc(ts, i) == N("doc", "", [k \in DOMAIN ts[i].doc |-> Leaf("line", ts[i].doc[k])])

\* expectPeek for each of the tokens `want` in turn.
expectPeek(ts, i, want) ==
  LET wrong == {k \in DOMAIN want : T(ts, i + k) # want[k]}
  IN IF wrong = {} THEN Ok(i + Len(want), Nil) ELSE Bad(i + Min(wrong))

startsUpper(name) == name \in {"A", "B", "T"}
IsVector(name) == name = "f64x2"

RECURSIVE parseTypeName(_, _), parseExpression(_, _, _, _), infixes(_, _, _, _),
          commaList(_, _, _, _, _, _), braceList(_, _, _, _, _), statements(_, _, _),
          parseStatement(_, _), parseIfStmt(_, _, _), parseComptimeIfStmt(_, _, _),
          parseMatchStmt(_, _, _), contractMethods(_, _, _), linkAttributes(_, _, _),
          combines(_, _, _), names(_, _, _)

----------------------------------------------------------------------------
\* Lists. `kind` says what an entry is.

\* `a::b::c` with its first name current.
names(ts, i, acc) ==
  LET path == Append(acc, Name(ts, i))
  IN IF T(ts, i + 1) # "::" THEN Ok(i, N("path", "", path))
     ELSE Then(expectPeek(ts, i, <<"::", "IDENT">>), LAMBDA j, n : names(ts, j, path))

\* A type inside another one; `const` is for ptr<const T> alone.
parseTypeArg(ts, i, allowConst) ==
  IF T(ts, i) = "IDENT" /\ V(ts, i) = "const"
  THEN IF allowConst THEN Then(parseTypeName(ts, i + 1), LAMBDA j, n : Ok(j, N("const", "", <<n>>)))
       ELSE Bad(i)
  ELSE parseTypeName(ts, i)

\* staticExprText: integer arithmetic on literals and names only.
RECURSIVE staticExprText(_)
staticExprText(n) ==
  \/ n.k \in {"INT", "name"}
  \/ n.k = "prefix" /\ n.v = "-" /\ staticExprText(n.c[1])
  \/ n.k = "binary" /\ n.v \in {"+", "-", "*", "/", "%"} /\ \A x \in Range(n.c) : staticExprText(x)

parseStaticExprArg(ts, i) ==
  Then(parseExpression(ts, i + 1, <<>>, 1), LAMBDA j, n :
    Then(expectPeek(ts, j, <<")">>), LAMBDA k, m :
      IF staticExprText(n) THEN Ok(k, N("static", "", <<n>>)) ELSE Bad(k)))

parseStaticTypeArg(ts, i) ==
  CASE T(ts, i) \in {"IDENT", "!", "&", "[", "?"} -> parseTypeArg(ts, i, FALSE)
    [] T(ts, i) \in {"INT", "true", "false"} -> Ok(i, Leaf(T(ts, i), V(ts, i)))
    [] T(ts, i) = "(" -> parseStaticExprArg(ts, i)
    [] OTHER -> Bad(i)

\* `&T` and `&var T` in front of a parameter's or a field's type.
Borrowed(ts, i) ==
  CASE T(ts, i) = "&" /\ T(ts, i + 1) = "var" -> [i |-> i + 2, v |-> "&var"]
    [] T(ts, i) = "&" -> [i |-> i + 1, v |-> "&"]
    [] OTHER -> [i |-> i, v |-> ""]

parseParam(ts, i) ==
  IF T(ts, i) # "IDENT" THEN Bad(i)
  ELSE Then(expectPeek(ts, i, <<":">>), LAMBDA j, n :
         LET b == Borrowed(ts, j + 1)
         IN Then(parseTypeName(ts, b.i), LAMBDA k, m : Ok(k, N("param", b.v, <<Name(ts, i), m>>))))

\* `...` ends the list of an extern "c" fn and stands nowhere else.
checkVariadicMarker(ts, i, allowVariadic, named) ==
  IF allowVariadic /\ named > 0 /\ T(ts, i + 1) = ")" THEN Ok(i, Leaf("...", "")) ELSE Bad(i)

parseStaticParam(ts, i, acc) ==
  CASE T(ts, i) # "IDENT" \/ \E k \in DOMAIN acc : acc[k].v = V(ts, i) -> Bad(i)
    [] T(ts, i + 1) = ":" ->
         Then(parseTypeName(ts, i + 2), LAMBDA j, n : Ok(j, N("static", V(ts, i), <<n>>)))
    [] OTHER -> Ok(i, Leaf("static", V(ts, i)))

\* An entry of a list that commas separate and `)` or `>` ends.
Entry(ts, i, kind, s, acc) ==
  CASE kind = "arg" -> parseExpression(ts, i, s, 1)
    [] kind = "type" -> parseTypeName(ts, i)
    [] kind = "typeArg" -> parseTypeArg(ts, i, FALSE)
    [] kind = "ptrArg" -> parseTypeArg(ts, i, TRUE)
    [] kind = "staticArg" -> parseStaticTypeArg(ts, i)
    [] kind = "staticParam" -> parseStaticParam(ts, i, acc)
    [] kind \in {"param", "cparam"} ->
         IF T(ts, i) = "..." THEN checkVariadicMarker(ts, i, kind = "cparam", Len(acc)) ELSE parseParam(ts, i)

\* The loop of parseTypeArgNodes, parseTypeArgList, parseStaticParamList,
\* parseParams and parseCallExpr: a comma may stand before the closing mark. Only
\* parseFuncTypeName's allows none there (its `close` is "").
commaList(ts, i, kind, close, s, acc) ==
  Then(Entry(ts, i, kind, s, acc), LAMBDA j, n :
    LET all == Append(acc, n)
    IN CASE T(ts, j + 1) # "," -> Ok(j, N("list", "", all))
         [] T(ts, j + 2) = close -> Ok(j + 1, N("list", "", all))
         [] OTHER -> commaList(ts, j + 2, kind, close, s, all))

\* A `>` that ended the last argument also ends the list, whether or not another
\* one follows it.
expectTypeClose(ts, i) ==
  IF T(ts, i) = ">" THEN Ok(IF T(ts, i + 1) = ">" THEN i + 1 ELSE i, Nil)
  ELSE expectPeek(ts, i, <<">">>)

\* `<...>` after a declared name, with the name current: type parameters, and for
\* a function also values.
parseStaticParamList(ts, i, typesOnly) ==
  IF T(ts, i + 1) # "<" THEN Ok(i, Nil)
  ELSE Then(commaList(ts, i + 2, "staticParam", ">", <<>>, <<>>), LAMBDA j, n :
         IF typesOnly /\ \E p \in Range(n.c) : p.c # <<>> THEN Bad(j)
         ELSE Then(expectTypeClose(ts, j), LAMBDA k, m : Ok(k, n)))

----------------------------------------------------------------------------
\* Types.

parseFuncTypeName(ts, i, marker) ==
  Then(expectPeek(ts, i, <<"(">>), LAMBDA j, n :
    Then(IF T(ts, j + 1) = ")" THEN Ok(j, Leaf("list", "")) ELSE commaList(ts, j + 1, "type", "", <<>>, <<>>),
      LAMBDA k, params :
        Then(expectPeek(ts, k, <<")", "->">>), LAMBDA l, m :
          Then(parseTypeName(ts, l + 1), LAMBDA r, result : Ok(r, N("fn", marker, <<params, result>>))))))

parseExternFuncTypeName(ts, i) ==
  Then(expectPeek(ts, i, <<"STRING">>), LAMBDA j, n :
    CASE V(ts, j) # "c" -> Bad(j)
      [] T(ts, j + 1) # "fn" -> Bad(j + 1)
      [] OTHER -> parseFuncTypeName(ts, j + 1, "extern"))

parseNamedTypeName(ts, i) ==
  Then(names(ts, i, <<>>), LAMBDA j, path :
    CASE T(ts, j + 1) = "!" ->
           Then(parseTypeName(ts, j + 2), LAMBDA k, ok : Ok(k, N("!", "", <<path, ok>>)))
      [] T(ts, j + 1) # "<" -> Ok(j, path)
      [] OTHER ->
           Then(commaList(ts, j + 2, IF path.c = <<Leaf("name", "ptr")>> THEN "ptrArg" ELSE "typeArg", ">", <<>>, <<>>),
             LAMBDA k, args :
               Then(expectTypeClose(ts, k), LAMBDA l, m : Ok(l, N("generic", "", <<path, args>>)))))

\* []T, and [N]T with N a positive integer, a name or a parenthesised expression.
parseSliceTypeName(ts, i) ==
  LET elem(j, len) ==
        Then(expectPeek(ts, j, <<"]">>), LAMBDA k, m :
          Then(parseTypeArg(ts, k + 1, FALSE), LAMBDA l, n : Ok(l, N("[]", "", <<len, n>>))))
  IN CASE T(ts, i + 1) = "IDENT" -> elem(i + 1, Name(ts, i + 1))
       [] T(ts, i + 1) = "INT" ->
            IF V(ts, i + 1) = "0" THEN Bad(i + 1) ELSE elem(i + 1, Leaf("INT", V(ts, i + 1)))
       [] T(ts, i + 1) = "(" -> Then(parseStaticExprArg(ts, i + 1), LAMBDA j, n : elem(j, n))
       [] OTHER -> elem(i, Nil)

parseTypeName(ts, i) ==
  CASE T(ts, i) = "!" -> Then(parseTypeName(ts, i + 1), LAMBDA j, n : Ok(j, N("!", "", <<n>>)))
    [] T(ts, i) = "?" -> Then(parseTypeName(ts, i + 1), LAMBDA j, n : Ok(j, N("?", "", <<n>>)))
    [] T(ts, i) = "&" ->
         LET b == Borrowed(ts, i) IN Then(parseTypeName(ts, b.i), LAMBDA j, n : Ok(j, N(b.v, "", <<n>>)))
    [] T(ts, i) = "[" -> parseSliceTypeName(ts, i)
    [] T(ts, i) = "fn" -> parseFuncTypeName(ts, i, "")
    [] T(ts, i) = "unsafe" ->
         IF T(ts, i + 1) = "fn" THEN parseFuncTypeName(ts, i + 1, "unsafe") ELSE Bad(i + 1)
    [] T(ts, i) = "extern" -> parseExternFuncTypeName(ts, i)
    [] T(ts, i) = "IDENT" -> parseNamedTypeName(ts, i)
    [] OTHER -> Bad(i)

----------------------------------------------------------------------------
\* Expressions.

precedences(t) ==
  CASE t \in {"orelse", "catch"} -> 2 [] t = "or" -> 3 [] t = "and" -> 4
    [] t \in {"==", "!="} -> 5 [] t \in {"<", "<=", ">", ">="} -> 6
    [] t = "|" -> 7 [] t = "^" -> 8 [] t = "&" -> 9 [] t \in {"+", "-"} -> 11
    [] t \in {"*", "/", "%"} -> 12 [] t \in {"(", "["} -> 14 [] t \in {".", "::"} -> 15
    [] OTHER -> 1

Prefix == 13

\* `<<` and `>>` are two tokens with nothing between them.
shiftPair(ts, i) ==
  T(ts, i + 1) \in {"<", ">"} /\ T(ts, i + 2) = T(ts, i + 1) /\ ts[i + 2].tight

\* `|name| {` or `|name, name| {`: any other `|` is the bitwise or.
captureAhead(ts, i) ==
  T(ts, i + 1) = "|" /\
  \E n \in 1 .. 3 :
    /\ \A k \in 1 .. n : T(ts, i + 2 * k) = "IDENT" /\ (k < n => T(ts, i + 2 * k + 1) = ",")
    /\ T(ts, i + 2 * n + 1) = "|" /\ T(ts, i + 2 * n + 2) = "{"

peekPrecedence(ts, i) ==
  CASE shiftPair(ts, i) -> 10 [] captureAhead(ts, i) -> 1 [] OTHER -> precedences(T(ts, i + 1))

\* typeApplyLooksLikeCall: the `<` at peek closes, outside parentheses, before the
\* statement ends, and a call follows.
RECURSIVE closes(_, _, _, _)
closes(ts, i, depth, parens) ==
  LET t == T(ts, i) IN
  CASE t \in {"EOF", ";", "{", "}"} -> FALSE
    [] t = "(" -> closes(ts, i + 1, depth, parens + 1)
    [] t = ")" -> closes(ts, i + 1, depth, parens - 1)
    [] t = "<" /\ parens = 0 -> closes(ts, i + 1, depth + 1, parens)
    [] t = ">" /\ parens = 0 ->
         IF depth = 1 THEN T(ts, i + 1) = "(" ELSE closes(ts, i + 1, depth - 1, parens)
    [] OTHER -> closes(ts, i + 1, depth, parens)

shouldParseTypeApply(ts, i, n) ==
  (n.k = "name" \/ n.k = "::") /\ closes(ts, i + 2, 1, 0)

\* The names of `a::b::C` when a struct literal may follow it.
RECURSIVE namespaceExprParts(_)
namespaceExprParts(n) ==
  CASE n.k = "name" -> <<n.v>>
    [] n.k = "::" -> LET parts == namespaceExprParts(n.c[1])
                     IN IF parts = <<>> THEN <<>> ELSE Append(parts, n.v)
    [] OTHER -> <<>>

structLiteralTypeName(n) ==
  LET parts == namespaceExprParts(n)
      size == Len(parts)
  IN size > 0 /\ startsUpper(parts[size]) /\ ~(size > 1 /\ startsUpper(parts[size - 1]))

parseFieldValue(ts, i, s) ==
  IF T(ts, i) # "IDENT" THEN Bad(i)
  ELSE Then(expectPeek(ts, i, <<":">>), LAMBDA j, n :
         Then(parseExpression(ts, j + 1, s, 1), LAMBDA k, m : Ok(k, N("value", V(ts, i), <<m>>))))

\* `{ field: value, ... }` or `{ value, ... }` with the token before `{` current.
parseStructLiteralExpr(ts, i, s, type, kind) ==
  Then(braceList(ts, i + 2, kind, s, <<>>), LAMBDA j, n : Ok(j, N("literal", "", <<type, n>>)))

parseBufferLiteralExpr(ts, i, s) ==
  Then(parseTypeName(ts, i), LAMBDA j, type :
    IF type.k # "[]" \/ type.c[1] = Nil THEN Bad(j)
    ELSE Then(expectPeek(ts, j, <<"{">>), LAMBDA k, n : parseStructLiteralExpr(ts, k - 1, s, type, "element")))

parseCastExpr(ts, i, s) ==
  Then(parseTypeName(ts, i + 2), LAMBDA j, type :
    Then(expectPeek(ts, j, <<">", "(">>), LAMBDA k, n :
      Then(parseExpression(ts, k + 1, s, 1), LAMBDA l, value :
        Then(expectPeek(ts, l, <<")">>), LAMBDA m, x : Ok(m, N("cast", "", <<type, value>>))))))

parseIdentPrefixExpression(ts, i, s) ==
  CASE V(ts, i) = "cast" /\ T(ts, i + 1) = "<" -> parseCastExpr(ts, i, s)
    [] V(ts, i) = "type" /\ T(ts, i + 1) = "<" ->
         Then(parseStaticTypeArg(ts, i + 2), LAMBDA j, n :
           Then(expectTypeClose(ts, j), LAMBDA k, m : Ok(k, N("type", "", <<n>>))))
    [] T(ts, i + 1) = "{" /\ startsUpper(V(ts, i)) ->
         parseStructLiteralExpr(ts, i, s, Name(ts, i), "value")
    [] T(ts, i + 1) = "{" /\ IsVector(V(ts, i)) ->
         parseStructLiteralExpr(ts, i, s, Name(ts, i), "element")
    [] OTHER -> Ok(i, Name(ts, i))

\* comptime takes the whole expression; try, move and unsafe one operand.
parseMarkerExpression(ts, i, s) ==
  Then(parseExpression(ts, i + 1, s, IF T(ts, i) = "comptime" THEN 1 ELSE Prefix), LAMBDA j, n :
    Ok(j, N(T(ts, i), "", IF T(ts, i) = "unsafe" THEN <<n, N("safety", "", [k \in DOMAIN s |-> Leaf("line", s[k])])>> ELSE <<n>>)))

parsePrefixExpression(ts, i, s) ==
  CASE T(ts, i) = "IDENT" -> parseIdentPrefixExpression(ts, i, s)
    [] T(ts, i) \in {"INT", "FLOAT", "STRING", "CSTRING", "true", "false", "null"} ->
         Ok(i, Leaf(T(ts, i), V(ts, i)))
    [] T(ts, i) = "if" -> parseIfStmt(ts, i, s)
    [] T(ts, i) = "match" -> parseMatchStmt(ts, i, s)
    [] T(ts, i) \in {"comptime", "try", "move", "unsafe"} -> parseMarkerExpression(ts, i, s)
    [] T(ts, i) \in {"&", "!", "-", "~"} ->
         LET b == IF T(ts, i) = "&" THEN Borrowed(ts, i) ELSE [i |-> i + 1, v |-> T(ts, i)]
         IN Then(parseExpression(ts, b.i, s, Prefix), LAMBDA j, n : Ok(j, N("prefix", b.v, <<n>>)))
    [] T(ts, i) = "(" ->
         Then(parseExpression(ts, i + 1, s, 1), LAMBDA j, n :
           Then(expectPeek(ts, j, <<")">>), LAMBDA k, m : Ok(k, n)))
    [] T(ts, i) = "[" -> parseBufferLiteralExpr(ts, i, s)
    [] OTHER -> Bad(i)

\* a[i], a[from..], a[..to], a[from..to], with `[` current.
parseIndexExpr(ts, i, s, target) ==
  LET to(j, from) ==
        Then(parseExpression(ts, j, s, 1), LAMBDA k, end :
          Then(expectPeek(ts, k, <<"]">>), LAMBDA l, m : Ok(l, N("slice", "", <<target, from, end>>))))
  IN IF T(ts, i + 1) = ".."
     THEN IF T(ts, i + 2) = "]" THEN Bad(i + 2) ELSE to(i + 2, Nil)
     ELSE Then(parseExpression(ts, i + 1, s, 1), LAMBDA j, n :
            CASE T(ts, j + 1) # ".." ->
                   Then(expectPeek(ts, j, <<"]">>), LAMBDA k, m : Ok(k, N("index", "", <<target, n>>)))
              [] T(ts, j + 2) = "]" -> Ok(j + 2, N("slice", "", <<target, n, Nil>>))
              [] OTHER -> to(j + 2, n))

parseOptionalBranchLabel(ts, i) ==
  IF T(ts, i + 1) # ":" THEN Ok(i, Leaf(T(ts, i), ""))
  ELSE Then(expectPeek(ts, i, <<":", "IDENT">>), LAMBDA j, n : Ok(j, Leaf(T(ts, i), V(ts, j))))

\* The exit after `orelse` or `catch`, which is current; Nil when a default
\* follows instead.
parseGuardExit(ts, i, s) ==
  CASE T(ts, i + 1) = "return" ->
         IF T(ts, i + 2) \in {";", ",", "}", ")", "]"} THEN Ok(i + 1, Leaf("return", ""))
         ELSE Then(parseExpression(ts, i + 2, s, 1), LAMBDA j, n : Ok(j, N("return", "", <<n>>)))
    [] T(ts, i + 1) \in {"break", "continue"} -> parseOptionalBranchLabel(ts, i + 1)
    [] OTHER -> Ok(i, Nil)

parseBinaryExpr(ts, i, s, left) ==
  Then(parseExpression(ts, i + 1, s, precedences(T(ts, i))), LAMBDA j, right :
    Ok(j, N("binary", T(ts, i), <<left, right>>)))

parseGuardableExpr(ts, i, s, left) ==
  Then(parseGuardExit(ts, i, s), LAMBDA j, exit :
    IF exit = Nil THEN parseBinaryExpr(ts, i, s, left)
    ELSE Ok(j, N("guard", T(ts, i), <<left, exit>>)))

parseShiftExpr(ts, i, s, left) ==
  Then(parseExpression(ts, i + 3, s, 10), LAMBDA j, right :
    Ok(j, N("binary", IF T(ts, i + 1) = "<" THEN "shl" ELSE "shr", <<left, right>>)))

\* The arguments of a call, with `(` current.
parseCallExpr(ts, i, s, callee) ==
  IF T(ts, i + 1) = ")" THEN Ok(i + 1, N("call", "", <<callee>>))
  ELSE Then(commaList(ts, i + 1, "arg", ")", s, <<>>), LAMBDA j, args :
         Then(expectPeek(ts, j, <<")">>), LAMBDA k, m : Ok(k, N("call", "", <<callee, args>>))))

parseTypeApplyExpr(ts, i, callee) ==
  Then(commaList(ts, i + 1, "staticArg", ">", <<>>, <<>>), LAMBDA j, args :
    Then(expectTypeClose(ts, j), LAMBDA k, m : Ok(k, N("apply", "", <<callee, args>>))))

parseFieldExpr(ts, i, receiver) ==
  IF T(ts, i) = "." /\ T(ts, i + 1) = "*" THEN Ok(i + 1, N("deref", "", <<receiver>>))
  ELSE Then(expectPeek(ts, i, <<"IDENT">>), LAMBDA j, n : Ok(j, N(T(ts, i), V(ts, j), <<receiver>>)))

\* The operator at peek applied to the expression that ends at i.
parseInfix(ts, i, s, left) ==
  LET t == T(ts, i + 1) IN
  CASE shiftPair(ts, i) -> parseShiftExpr(ts, i, s, left)
    [] t \in {"orelse", "catch"} -> parseGuardableExpr(ts, i + 1, s, left)
    [] t = "(" -> parseCallExpr(ts, i + 1, s, left)
    [] t = "[" -> parseIndexExpr(ts, i + 1, s, left)
    [] t = "<" /\ shouldParseTypeApply(ts, i, left) -> parseTypeApplyExpr(ts, i + 1, left)
    [] t \in {".", "::"} -> parseFieldExpr(ts, i + 1, left)
    [] OTHER -> parseBinaryExpr(ts, i + 1, s, left)

infixes(ts, r, s, precedence) ==
  Then(r, LAMBDA i, left :
    IF T(ts, i + 1) # ";" /\ ( \/ precedence < peekPrecedence(ts, i)
                               \/ T(ts, i + 1) = "<" /\ shouldParseTypeApply(ts, i, left))
    THEN infixes(ts, parseInfix(ts, i, s, left), s, precedence)
    ELSE r)

parseExpression(ts, i, s, precedence) ==
  Then(infixes(ts, parsePrefixExpression(ts, i, s), s, precedence), LAMBDA j, n :
    IF T(ts, j + 1) = "{" /\ structLiteralTypeName(n) THEN parseStructLiteralExpr(ts, j, s, n, "value")
    ELSE Ok(j, n))

----------------------------------------------------------------------------
\* Statements.

expectStatementTerminator(ts, r) ==
  Then(r, LAMBDA i, n :
    CASE T(ts, i) = ";" -> r [] T(ts, i + 1) = ";" -> Ok(i + 1, n) [] OTHER -> Bad(i + 1))

\* `{ ... }` with `{` current.
parseBlockStmt(ts, i) == statements(ts, i + 1, <<>>)

statements(ts, i, acc) ==
  CASE T(ts, i) = "}" -> Ok(i, N("block", "", acc))
    [] T(ts, i) = "EOF" -> Bad(i)
    [] OTHER -> Then(parseStatement(ts, i), LAMBDA j, n : statements(ts, j + 1, Append(acc, n)))

\* `|name|` or, for a variant, `|name, name|`; none at all is Nil.
parsePayloadCapture(ts, i, variant) ==
  CASE T(ts, i + 1) # "|" -> Ok(i, Nil)
    [] variant /\ T(ts, i + 3) = "," ->
         Then(expectPeek(ts, i, <<"|", "IDENT", ",", "IDENT", "|">>), LAMBDA j, n :
           Ok(j, N("capture", "", <<Name(ts, i + 2), Name(ts, i + 4)>>)))
    [] OTHER ->
         Then(expectPeek(ts, i, <<"|", "IDENT", "|">>), LAMBDA j, n :
           Ok(j, N("capture", "", <<Name(ts, i + 2)>>)))

\* The block after a condition, capture or header that ends at i.
Body(ts, i, k, parts) ==
  Then(expectPeek(ts, i, <<"{">>), LAMBDA j, n :
    Then(parseBlockStmt(ts, j), LAMBDA l, block : Ok(l, N(k, "", Append(parts, block)))))

\* What an `else` at peek holds. `else if` is the block with that if in it.
parseElse(ts, i, s, n) ==
  IF T(ts, i + 1) # "else" THEN Ok(i, n)
  ELSE LET chain(r) == Then(r, LAMBDA j, nested :
                         Ok(j, [n EXCEPT !.c = Append(@, N("else", "", <<N("block", "", <<nested>>)>>))]))
       IN CASE T(ts, i + 2) = "comptime" -> chain(parseComptimeIfStmt(ts, i + 2, s))
            [] T(ts, i + 2) = "if" -> chain(parseIfStmt(ts, i + 2, s))
            [] OTHER ->
                 Then(IF n.k = "if" THEN parsePayloadCapture(ts, i + 1, FALSE) ELSE Ok(i + 1, Nil),
                   LAMBDA j, capture :
                     Then(Body(ts, j, "else", IF capture = Nil THEN <<>> ELSE <<capture>>),
                       LAMBDA k, alternative : Ok(k, [n EXCEPT !.c = Append(@, alternative)])))

parseIfStmt(ts, i, s) ==
  Then(parseExpression(ts, i + 1, s, 1), LAMBDA j, condition :
    Then(parsePayloadCapture(ts, j, FALSE), LAMBDA k, capture :
      Then(Body(ts, k, "if", <<condition, capture>>), LAMBDA l, n : parseElse(ts, l, s, n))))

\* `comptime if`, with `comptime` current; no other statement starts here.
parseComptimeIfStmt(ts, i, s) ==
  Then(expectPeek(ts, i, <<"if">>), LAMBDA h, m :
    Then(parseExpression(ts, h + 1, s, 1), LAMBDA j, condition :
      Then(Body(ts, j, "comptimeIf", <<condition>>), LAMBDA l, n : parseElse(ts, l, s, n))))

\* `let x: T = e;` and `var`.
parseLetStmt(ts, i, s) ==
  Then(expectPeek(ts, i, <<"IDENT">>), LAMBDA j, n :
    Then(IF T(ts, j + 1) = ":" THEN parseTypeName(ts, j + 2) ELSE Ok(j, Nil), LAMBDA k, type :
      Then(expectPeek(ts, k, <<"=">>), LAMBDA l, m :
        expectStatementTerminator(ts,
          Then(parseExpression(ts, l + 1, s, 1), LAMBDA r, value :
            Ok(r, N(T(ts, i), V(ts, j), <<type, value>>)))))))

parseReturnStmt(ts, i, s) ==
  IF T(ts, i + 1) = ";" THEN Ok(i + 1, Leaf("return", ""))
  ELSE expectStatementTerminator(ts,
         Then(parseExpression(ts, i + 1, s, 1), LAMBDA j, n : Ok(j, N("return", "", <<n>>))))

parseDeferStmt(ts, i, s) ==
  IF T(ts, i + 1) \in {"let", "var", "return", "defer", "errdefer", "{"} THEN Bad(i + 1)
  ELSE expectStatementTerminator(ts,
         Then(parseExpression(ts, i + 1, s, 1), LAMBDA j, n : Ok(j, N(T(ts, i), "", <<n>>))))

parseWhileStmt(ts, i, s, label) ==
  Then(parseExpression(ts, i + 1, s, 1), LAMBDA j, condition :
    Then(parsePayloadCapture(ts, j, FALSE), LAMBDA k, capture :
      Body(ts, k, "while", <<label, condition, capture>>)))

\* `for a..b |i| { }`; a compile-time one may walk a list instead.
parseForStmt(ts, i, s, k, label) ==
  Then(parseExpression(ts, i + 1, s, 1), LAMBDA j, first :
    Then(IF T(ts, j + 1) = ".." THEN parseExpression(ts, j + 2, s, 1)
         ELSE IF k = "for" THEN Bad(j + 1) ELSE Ok(j, Nil), LAMBDA l, end :
      Then(parsePayloadCapture(ts, l, FALSE), LAMBDA m, capture :
        IF capture = Nil THEN Bad(m + 1) ELSE Body(ts, m, k, <<label, first, end, capture>>))))

parseComptimeMatchStmt(ts, i, s) ==
  Then(parseExpression(ts, i + 1, s, 1), LAMBDA j, value :
    Then(parsePayloadCapture(ts, j, TRUE), LAMBDA k, captures :
      IF captures = Nil THEN Bad(k + 1) ELSE Body(ts, k, "comptimeMatch", <<value, captures>>)))

\* `match e { arms }`
parseMatchStmt(ts, i, s) ==
  Then(parseExpression(ts, i + 1, s, 1), LAMBDA j, value :
    Then(expectPeek(ts, j, <<"{">>), LAMBDA k, m :
      Then(braceList(ts, k + 1, "arm", s, <<>>), LAMBDA l, arms : Ok(l, N("match", "", <<value, arms>>)))))

\* `return` in an arm: the arm's comma or brace ends it.
parseMatchArmReturn(ts, i, s) ==
  IF T(ts, i + 1) \in {",", "}"} THEN Ok(i, Leaf("return", ""))
  ELSE Then(parseExpression(ts, i + 1, s, 1), LAMBDA j, n : Ok(j, N("return", "", <<n>>)))

parseMatchArm(ts, i, s) ==
  IF T(ts, i) # "IDENT" THEN Bad(i)
  ELSE Then(names(ts, i, <<>>), LAMBDA j, tag :
         Then(IF T(ts, j + 1) = "(" THEN expectPeek(ts, j, <<"(", "IDENT", ")">>) ELSE Ok(j, Nil), LAMBDA k, m :
           Then(expectPeek(ts, k, <<"=>">>), LAMBDA l, x :
             Then(CASE T(ts, l + 1) = "return" -> parseMatchArmReturn(ts, l + 1, s)
                    [] T(ts, l + 1) = "{" -> parseBlockStmt(ts, l + 1)
                    [] OTHER -> parseStatement(ts, l + 1), LAMBDA r, body :
               Ok(r, N("arm", IF k > j THEN V(ts, j + 2) ELSE "", <<tag, body>>))))))

\* `pub`, a name and a type, in a struct.
parseStructField(ts, i) ==
  LET at == IF T(ts, i) = "pub" THEN i + 1 ELSE i
  IN Then(parseParam(ts, at), LAMBDA j, n :
       Ok(j, N("field", IF at > i THEN "pub" ELSE "", <<Doc(ts, i), n>>)))

parseUnionVariant(ts, i) ==
  CASE T(ts, i) # "IDENT" -> Bad(i)
    [] T(ts, i + 1) # "(" -> Ok(i, N("variant", V(ts, i), <<Doc(ts, i)>>))
    [] OTHER ->
         Then(parseTypeName(ts, i + 2), LAMBDA j, n :
           Then(expectPeek(ts, j, <<")">>), LAMBDA k, m : Ok(k, N("variant", V(ts, i), <<Doc(ts, i), n>>))))

\* A list that commas separate and `}` ends, with its first entry current.
braceList(ts, i, kind, s, acc) ==
  CASE T(ts, i) = "}" -> Ok(i, N("list", "", acc))
    [] T(ts, i) = "EOF" -> Bad(i)
    [] OTHER ->
         Then(CASE kind = "value" -> parseFieldValue(ts, i, s)
                [] kind = "element" -> parseExpression(ts, i, s, 1)
                [] kind = "arm" -> parseMatchArm(ts, i, s)
                [] kind = "field" -> parseStructField(ts, i)
                [] kind = "variant" -> parseUnionVariant(ts, i)
                [] kind = "tag" -> IF T(ts, i) = "IDENT" THEN Ok(i, N("tag", V(ts, i), <<Doc(ts, i)>>)) ELSE Bad(i),
           LAMBDA j, n :
             CASE T(ts, j + 1) = "," -> braceList(ts, j + 2, kind, s, Append(acc, n))
               [] T(ts, j + 1) \in {"}", "EOF"} -> braceList(ts, j + 1, kind, s, Append(acc, n))
               [] OTHER -> Bad(j + 1))

\* An expression statement ends with `;`, or stands as the value of its block or arm.
finishExprStmt(ts, i, n) ==
  CASE T(ts, i + 1) = ";" -> Ok(i + 1, N("expr", ";", <<n>>))
    [] T(ts, i + 1) \in {"}", ","} -> Ok(i, N("expr", "", <<n>>))
    [] OTHER -> Bad(i + 1)

parseAssignStmt(ts, i, s, target) ==
  expectStatementTerminator(ts,
    Then(parseExpression(ts, i + 2, s, 1), LAMBDA j, n : Ok(j, N("assign", "", <<target, n>>))))

parseLabeledStmt(ts, i, s) ==
  CASE T(ts, i + 2) = "while" -> parseWhileStmt(ts, i + 2, s, Name(ts, i))
    [] T(ts, i + 2) = "for" -> parseForStmt(ts, i + 2, s, "for", Name(ts, i))
    [] OTHER -> Bad(i + 2)

\* A statement, with the safety comment above it in force until it ends.
parseStatement(ts, i) ==
  LET s == ts[i].safety
      t == T(ts, i)
      next == T(ts, i + 1)
  IN CASE t \in {"let", "var"} -> parseLetStmt(ts, i, s)
       [] t = "return" -> parseReturnStmt(ts, i, s)
       [] t \in {"defer", "errdefer"} -> parseDeferStmt(ts, i, s)
       [] t = "if" -> parseIfStmt(ts, i, s)
       [] t = "while" -> parseWhileStmt(ts, i, s, Nil)
       [] t = "for" -> parseForStmt(ts, i, s, "for", Nil)
       [] t \in {"break", "continue"} -> expectStatementTerminator(ts, parseOptionalBranchLabel(ts, i))
       [] t = "match" -> parseMatchStmt(ts, i, s)
       [] t = "comptime" /\ next = "if" -> parseComptimeIfStmt(ts, i, s)
       [] t = "comptime" /\ next = "for" -> parseForStmt(ts, i + 1, s, "comptimeFor", Nil)
       [] t = "comptime" /\ next = "match" -> parseComptimeMatchStmt(ts, i + 1, s)
       [] t = "IDENT" /\ next = ":" -> parseLabeledStmt(ts, i, s)
       [] OTHER ->
            Then(parseExpression(ts, i, s, 1), LAMBDA j, n :
              IF T(ts, j + 1) = "=" THEN parseAssignStmt(ts, j, s, n) ELSE finishExprStmt(ts, j, n))

----------------------------------------------------------------------------
\* Declarations, each with its first token current and the docs read before it.

parseParams(ts, i, kind) ==
  IF T(ts, i + 1) = ")" THEN Ok(i + 1, Leaf("list", ""))
  ELSE Then(commaList(ts, i + 1, kind, ")", <<>>, <<>>), LAMBDA j, n :
         Then(expectPeek(ts, j, <<")">>), LAMBDA k, m : Ok(k, n)))

\* The one receiver of a method, with `fn` current.
parseReceiver(ts, i) ==
  IF T(ts, i + 1) # "(" THEN Ok(i, Nil)
  ELSE Then(parseParams(ts, i + 1, "param"), LAMBDA j, n : IF Len(n.c) = 1 THEN Ok(j, n) ELSE Bad(j))

parseReturnClause(ts, i) == IF T(ts, i + 1) = "->" THEN parseTypeName(ts, i + 2) ELSE Ok(i, Nil)

\* From `fn` to the result: only an extern "c" function may take `...`.
parseFunctionSignatureAfterFn(ts, i, abi) ==
  Then(parseReceiver(ts, i), LAMBDA r, receiver :
    Then(expectPeek(ts, r, <<"IDENT">>), LAMBDA j, m :
      Then(parseStaticParamList(ts, j, FALSE), LAMBDA k, static :
        Then(expectPeek(ts, k, <<"(">>), LAMBDA l, x :
          Then(parseParams(ts, l, IF abi = "c" /\ receiver = Nil THEN "cparam" ELSE "param"), LAMBDA p, params :
            Then(parseReturnClause(ts, p), LAMBDA q, result :
              Ok(q, N("fn", V(ts, j), <<receiver, static, params, result>>))))))))

\* What is declared, marked with the words in front of it.
Marked(r, mark, docs) ==
  Then(r, LAMBDA i, n : Ok(i, N("decl", mark, <<docs, n>>)))

parseFunctionAfterFn(ts, i, abi, docs) ==
  Marked(Then(parseFunctionSignatureAfterFn(ts, i, abi), LAMBDA j, n : Body(ts, j, "function", <<n>>)), "", docs)

parseStructDeclWithDoc(ts, i, docs) ==
  Marked(Then(expectPeek(ts, i, <<"IDENT">>), LAMBDA j, m :
           Then(parseStaticParamList(ts, j, TRUE), LAMBDA k, params :
             Then(expectPeek(ts, k, <<"{">>), LAMBDA l, x :
               Then(braceList(ts, l + 1, "field", <<>>, <<>>), LAMBDA r, fields :
                 Ok(r, N("struct", V(ts, j), <<params, fields>>)))))), "", docs)

parseUnionDeclWithDoc(ts, i, docs) ==
  Marked(Then(expectPeek(ts, i, <<"IDENT">>), LAMBDA j, m :
           Then(parseStaticParamList(ts, j, TRUE), LAMBDA k, params :
             Then(expectPeek(ts, k, <<"{">>), LAMBDA l, x :
               Then(braceList(ts, l + 1, "variant", <<>>, <<>>), LAMBDA r, variants :
                 Ok(r, N("union", V(ts, j), <<params, variants>>)))))), "", docs)

\* `enum Name { tags }`, and the same of an error set.
parseEnumDeclWithDoc(ts, i, docs) ==
  Marked(Then(expectPeek(ts, i, <<"IDENT", "{">>), LAMBDA j, m :
           Then(braceList(ts, j + 1, "tag", <<>>, <<>>), LAMBDA k, tags :
             Ok(k, N(V(ts, i), V(ts, i + 1), <<tags>>)))), "", docs)

\* The sets after `=`, with the token before the next one current.
combines(ts, i, acc) ==
  Then(expectPeek(ts, i, <<"IDENT">>), LAMBDA j, m :
    Then(names(ts, j, <<>>), LAMBDA k, path :
      IF T(ts, k + 1) = "or" THEN combines(ts, k + 1, Append(acc, path))
      ELSE Then(expectPeek(ts, k, <<";">>), LAMBDA l, x : Ok(l, N("combines", "", Append(acc, path))))))

startsErrorSetDecl(ts, i) == V(ts, i) = "error" /\ T(ts, i + 1) = "IDENT"

parseErrorSetDeclWithDoc(ts, i, docs) ==
  IF T(ts, i + 2) = "=" THEN Marked(combines(ts, i + 2, <<>>), V(ts, i + 1), docs)
  ELSE parseEnumDeclWithDoc(ts, i, docs)

\* The methods of a contract, which take no receiver.
contractMethods(ts, i, acc) ==
  CASE T(ts, i) = "}" -> Ok(i, N("contract", "", acc))
    [] T(ts, i) # "fn" -> Bad(i)
    [] OTHER ->
         Then(parseFunctionSignatureAfterFn(ts, i, ""), LAMBDA j, n :
           IF n.c[1] # Nil THEN Bad(j)
           ELSE contractMethods(ts, IF T(ts, j + 1) = ";" THEN j + 2 ELSE j + 1, Append(acc, n)))

parseContractDecl(ts, i) ==
  Then(expectPeek(ts, i, <<"IDENT", "{">>), LAMBDA j, m : Marked(contractMethods(ts, j + 1, <<>>), V(ts, i + 1), Nil))

parseImplDecl(ts, i) ==
  expectStatementTerminator(ts,
    Then(expectPeek(ts, i, <<"IDENT", "for", "IDENT">>), LAMBDA j, m :
      Ok(j, N("impl", "", <<Name(ts, i + 1), Name(ts, i + 3)>>))))

parseImportDecl(ts, i) ==
  expectStatementTerminator(ts,
    Then(expectPeek(ts, i, <<"IDENT">>), LAMBDA j, m :
      Then(names(ts, j, <<>>), LAMBDA k, path : Ok(k, N("import", "", <<path>>)))))

parseTestDecl(ts, i) ==
  Then(expectPeek(ts, i, <<"STRING">>), LAMBDA j, m : Body(ts, j, "test", <<Leaf("STRING", V(ts, j))>>))

\* `unsafe` in front of a function or a struct.
parseUnsafeDecl(ts, i, docs) ==
  CASE T(ts, i + 1) = "struct" -> Marked(parseStructDeclWithDoc(ts, i + 1, docs), "unsafe", Nil)
    [] T(ts, i + 1) = "fn" -> Marked(parseFunctionAfterFn(ts, i + 1, "", docs), "unsafe", Nil)
    [] OTHER -> Bad(i + 1)

\* A foreign function, or a struct laid out the foreign way, whose fields no
\* `pub` may mark. An ABI has a name.
parseExternDeclWithDoc(ts, i, docs) ==
  Then(expectPeek(ts, i, <<"STRING">>), LAMBDA j, m :
    CASE V(ts, j) = "" -> Bad(j)
      [] T(ts, j + 1) = "struct" ->
           Then(parseStructDeclWithDoc(ts, j + 1, docs), LAMBDA k, n :
             IF \E f \in Range(n.c[2].c[2].c) : f.v = "pub" THEN Bad(k) ELSE Marked(Ok(k, n), "extern struct", Nil))
      [] T(ts, j + 1) = "fn" -> Marked(parseFunctionSignatureAfterFn(ts, j + 1, V(ts, j)), "extern fn", docs)
      [] OTHER -> Bad(j + 1))

parseExportDeclWithDoc(ts, i, docs) ==
  Then(expectPeek(ts, i, <<"STRING", "fn">>), LAMBDA j, m :
    IF V(ts, i + 1) = "" THEN Bad(j) ELSE Marked(parseFunctionAfterFn(ts, j, "", docs), "export", Nil))

\* What may follow `pub` or a link attribute.
parseTopLevelDeclWithDoc(ts, i, docs) ==
  CASE T(ts, i) = "fn" -> parseFunctionAfterFn(ts, i, "", docs)
    [] T(ts, i) = "unsafe" -> parseUnsafeDecl(ts, i, docs)
    [] T(ts, i) = "extern" -> parseExternDeclWithDoc(ts, i, docs)
    [] T(ts, i) = "export" -> parseExportDeclWithDoc(ts, i, docs)
    [] T(ts, i) = "struct" -> parseStructDeclWithDoc(ts, i, docs)
    [] T(ts, i) = "enum" -> parseEnumDeclWithDoc(ts, i, docs)
    [] T(ts, i) = "union" -> parseUnionDeclWithDoc(ts, i, docs)
    [] T(ts, i) = "contract" -> parseContractDecl(ts, i)
    [] T(ts, i) = "IDENT" /\ startsErrorSetDecl(ts, i) -> parseErrorSetDeclWithDoc(ts, i, docs)
    [] OTHER -> Bad(i)

parsePublicDecl(ts, i, docs) == Marked(parseTopLevelDeclWithDoc(ts, i + 1, docs), "pub", Nil)

\* `@name("value")` for one or both of the two attributes, with `@` current; the
\* node lists them and the place is that of the declaration's first token.
linkAttributes(ts, i, acc) ==
  IF T(ts, i) # "@" THEN Ok(i, N("link", "", acc))
  ELSE Then(expectPeek(ts, i, <<"IDENT", "(", "STRING", ")">>), LAMBDA j, m :
         IF \/ V(ts, i + 3) = "" \/ V(ts, i + 1) \notin {"link_library", "link_framework"}
            \/ \E k \in DOMAIN acc : acc[k].k = V(ts, i + 1)
         THEN Bad(j) ELSE linkAttributes(ts, j + 1, Append(acc, Leaf(V(ts, i + 1), V(ts, i + 3)))))

parseAttributedDecl(ts, i) ==
  Then(linkAttributes(ts, i, <<>>), LAMBDA j, links :
    LET r == IF T(ts, j) = "pub" THEN parsePublicDecl(ts, j, Doc(ts, i)) ELSE parseTopLevelDeclWithDoc(ts, j, Doc(ts, i))
        foreign == r.n.v = "extern fn" \/ (r.n.v = "pub" /\ r.n.c[2].v = "extern fn")
    IN IF r.i # 0 /\ ~foreign THEN Bad(r.i) ELSE Marked(r, "link", links))

parseTopLevel(ts, i) ==
  CASE T(ts, i) = "import" -> parseImportDecl(ts, i)
    [] T(ts, i) = "pub" -> parsePublicDecl(ts, i, Doc(ts, i))
    [] T(ts, i) = "@" -> parseAttributedDecl(ts, i)
    [] T(ts, i) = "impl" -> parseImplDecl(ts, i)
    [] T(ts, i) = "IDENT" /\ V(ts, i) = "test" -> parseTestDecl(ts, i)
    [] OTHER -> parseTopLevelDeclWithDoc(ts, i, Doc(ts, i))

RECURSIVE declarations(_, _, _)
declarations(ts, i, acc) ==
  IF T(ts, i) = "EOF" THEN Ok(i, N("program", "", acc))
  ELSE Then(parseTopLevel(ts, i), LAMBDA j, n : declarations(ts, j + 1, Append(acc, n)))

ParseProgram(ts) == declarations(ts, 1, <<>>)

=============================================================================
