----------------------------- MODULE Formatter -----------------------------
(* internal/fmt: the canonical layout of a source text. The formatter is     *)
(* token based: it never sees the tree and decides spaces, line breaks and   *)
(* indentation from the tokens around it and the line each came from. An     *)
(* operator on `b` is a method of the builder; F holds what it reads.        *)
EXTENDS Lexer, FiniteSetsExt

At(ts, i) == IF i < 1 THEN "" ELSE ts[i].t

shiftHalf(ts, i) ==
  LET adjacent(a) == a >= 1 /\ a < Len(ts) /\ ts[a].t = ts[a + 1].t /\ ts[a + 1].tight
  IN adjacent(i) \/ adjacent(i - 1)

\* Where the scan of detectGenericBrackets finds the `>` of a `<`, or 0.
RECURSIVE genericClose(_, _, _)
genericClose(ts, j, depth) ==
  CASE ts[j].t \in {";", "{", "}", "=", "==", "!=", "<=", ">=", "and", "or", "EOF"} -> 0
    [] ts[j].t = ">" /\ depth = 1 -> j
    [] ts[j].t = ">" -> genericClose(ts, j + 1, depth - 1)
    [] ts[j].t = "<" /\ At(ts, j - 1) = "IDENT" /\ ~shiftHalf(ts, j) -> genericClose(ts, j + 1, depth + 1)
    [] OTHER -> genericClose(ts, j + 1, depth)

\* The brackets taken for those of a list of static arguments.
detectGenericBrackets(ts) ==
  LET opens == {i \in DOMAIN ts : /\ ts[i].t = "<" /\ ~shiftHalf(ts, i) /\ At(ts, i - 1) = "IDENT"
                                  /\ genericClose(ts, i + 1, 1) # 0}
  IN opens \union {genericClose(ts, i + 1, 1) : i \in opens}

detectShiftPairs(ts, generic) ==
  UNION {{i, i + 1} : i \in {j \in 1 .. Len(ts) - 1 :
    /\ ts[j].t \in {"<", ">"} /\ ts[j + 1].t = ts[j].t /\ ts[j + 1].tight
    /\ {j, j + 1} \intersect generic = {}}}

\* Every comment of a text: its line, whether code stands before it there, and
\* the blank lines around it.
lineComments(text) ==
  LET breaks[i \in 0 .. Len(text)] == IF i = 0 THEN 1 ELSE breaks[i - 1] + LineBreaks(text[i].gap)
      alone(i) == i = 1 \/ LineBreaks(text[i].gap) > 0
      at == SelectSeq([i \in DOMAIN text |-> i], LAMBDA i : IsComment(text[i]))
  IN [k \in DOMAIN at |->
       LET i == at[k]
       IN [v |-> text[i].v, line |-> breaks[i], trailing |-> ~alone(i),
           blankBefore |-> alone(i) /\ LineBreaks(text[i].gap) > 1,
           blankAfter |-> alone(i) /\ i < Len(text) /\ LineBreaks(text[i + 1].gap) > 1]]

\* The order of import paths: a path before the longer ones it begins.
Rank(name) == CASE name = "a" -> 1 [] name = "b" -> 2 [] OTHER -> 3

pathBefore(p, q) ==
  \E n \in 0 .. Len(p) :
    /\ \A k \in 1 .. n : k <= Len(q) /\ p[k] = q[k]
    /\ n < Len(q) /\ (n = Len(p) \/ Rank(p[n + 1]) < Rank(q[n + 1]))

RECURSIVE leadingImportRanges(_, _)
leadingImportRanges(ts, i) ==
  IF ts[i].t # "import" THEN <<>>
  ELSE LET end == Min({j \in i .. Len(ts) : ts[j].t \in {";", "EOF"}})
       IN <<SubSeq(ts, i, end)>> \o leadingImportRanges(ts, end + 1)

importPathKey(range) ==
  LET words == SelectSeq(range, LAMBDA tok : tok.t = "IDENT") IN [k \in DOMAIN words |-> words[k].v]

\* The imports a file begins with, in the order of their paths.
normalizeLeadingImports(ts) ==
  LET ranges == leadingImportRanges(ts, 1)
      sorted == FlattenSeq(SortSeq(ranges, LAMBDA x, y : pathBefore(importPathKey(x), importPathKey(y))))
  IN sorted \o SubSeq(ts, Len(sorted) + 1, Len(ts))

----------------------------------------------------------------------------
\* The builder: what is written (`nl` line breaks last), the token written last
\* and its place, the line of the source it came from, the open blocks and groups.
builder ==
  [out |-> <<>>, nl |-> 0, depth |-> 0, delimiterLines |-> <<>>, continuation |-> 0, prev |-> "",
   prevIndex |-> 0, sourceLine |-> 0, lastTopDecl |-> "", commentIdx |-> 1, blockStack |-> <<>>,
   afterComment |-> FALSE, inCapture |-> FALSE]

atLineStart(b) == b.out = <<>> \/ b.nl > 0

Put(b, t, v, sep, ind) ==
  LET gap == CASE b.out = <<>> -> "none" [] b.nl = 0 -> sep [] b.nl = 1 -> "line"
               [] b.nl = 2 -> "blank" [] OTHER -> "blanks"
  IN [b EXCEPT !.out = Append(@, [t |-> t, v |-> v, gap |-> gap, ind |-> ind]), !.nl = 0]

\* writeIndent in front of a token.
PutIndented(b, t, v) == [Put(b, t, v, "none", b.depth + b.continuation) EXCEPT !.continuation = 0]

blankLine(b) == IF b.nl < 2 THEN [b EXCEPT !.nl = @ + 1] ELSE b

\* Mutant: a comment of any later line goes behind the line being written.
trailingAnywhere(F, b) ==
  b.commentIdx <= Len(F.comments) /\ ~atLineStart(b) /\ F.comments[b.commentIdx].trailing

trailingComment(F, b) ==
  /\ b.commentIdx <= Len(F.comments) /\ ~atLineStart(b)
  /\ F.comments[b.commentIdx].trailing /\ F.comments[b.commentIdx].line = b.sourceLine

flushTrailingComment(F, b) ==
  IF trailingComment(F, b)
  THEN [Put(b, "//", F.comments[b.commentIdx].v, "space", 0) EXCEPT !.commentIdx = @ + 1] ELSE b

newline(F, b) == [flushTrailingComment(F, b) EXCEPT !.nl = @ + 1]

\* Line starts are told apart by block and by the lines the open groups began on.
currentDelimiterBase(b) == IF b.blockStack = <<>> THEN 0 ELSE Last(b.blockStack).delimiterBase

distinctDelimiterLines(b, end) ==
  LET base == currentDelimiterBase(b)
  IN Cardinality({k \in base + 1 .. end : k = base + 1 \/ b.delimiterLines[k] # b.delimiterLines[k - 1]})

opensContinuationGroup(F, i) == F.ts[i].t \in {"(", "["} \/ (F.ts[i].t = "<" /\ i \in F.generic)
closesContinuationGroup(F, i) == F.ts[i].t \in {")", "]"} \/ (F.ts[i].t = ">" /\ i \in F.generic)

continuationIndent(b, closes) ==
  LET end == Len(b.delimiterLines)
      base == currentDelimiterBase(b)
  IN CASE closes /\ end > base ->
            distinctDelimiterLines(b, end - 1)
              - (IF end - 1 > base /\ b.delimiterLines[end - 1] = b.delimiterLines[end] THEN 1 ELSE 0)
       [] closes -> 0
       [] distinctDelimiterLines(b, end) > 0 -> distinctDelimiterLines(b, end)
       [] b.depth = 0 \/ b.prev \in {"{", "}", ";", ","} -> 0
       [] OTHER -> 1

writeCommentLine(F, b, c) ==
  LET opened == IF atLineStart(b) THEN b ELSE newline(F, b)
      spaced == IF c.blankBefore /\ b.out # <<>> /\ b.nl < 2 THEN [opened EXCEPT !.nl = @ + 1] ELSE opened
      placed == IF b.prev = "" THEN spaced ELSE [spaced EXCEPT !.continuation = continuationIndent(spaced, FALSE)]
      put == PutIndented(placed, "//", c.v)
  IN [put EXCEPT !.nl = IF c.blankAfter THEN 2 ELSE 1, !.afterComment = TRUE, !.sourceLine = c.line]

\* The comments of the lines above `line`.
RECURSIVE emitCommentsBefore(_, _, _)
emitCommentsBefore(F, b, line) ==
  IF b.commentIdx > Len(F.comments) \/ F.comments[b.commentIdx].line >= line THEN b
  ELSE IF trailingComment(F, b) THEN emitCommentsBefore(F, flushTrailingComment(F, b), line)
       ELSE emitCommentsBefore(F,
              [writeCommentLine(F, b, F.comments[b.commentIdx]) EXCEPT !.commentIdx = @ + 1], line)

isTopLevelDeclStart(tok) ==
  \/ tok.t \in {"import", "pub", "extern", "export", "@", "fn", "struct", "enum", "union", "contract", "impl"}
  \/ tok.t = "IDENT" /\ tok.v \in {"test", "error"}

maybeBlankLineForTopLevel(F, b, i) ==
  LET tok == F.ts[i]
      together == \/ b.afterComment \/ b.prev = "" \/ b.out = <<>>
                  \/ b.lastTopDecl = "@" \/ (tok.t = "import" /\ b.lastTopDecl = "import")
  IN IF ~(b.depth = 0 /\ atLineStart(b) /\ isTopLevelDeclStart(tok)) THEN b
     ELSE [(IF together THEN b ELSE blankLine(b)) EXCEPT !.lastTopDecl = tok.t]

maybePreserveSourceLineBreak(F, b, i) ==
  LET line == F.ts[i].line
      indent(c) == [c EXCEPT !.continuation = continuationIndent(c, closesContinuationGroup(F, i))]
      kept(c) == IF b.depth = 0 \/ line <= b.sourceLine + 1 \/ b.prev = "{" THEN c ELSE blankLine(c)
  IN CASE b.prev = "" \/ line <= b.sourceLine -> b
       [] atLineStart(b) -> kept(IF b.afterComment THEN indent(b) ELSE b)
       [] OTHER -> indent(newline(F, b))

----------------------------------------------------------------------------
\* The space between two tokens of a line, from the tokens around it.

endsOperand(t) ==
  t \in {"IDENT", "INT", "FLOAT", "STRING", "CSTRING", "true", "false", "null", ")", "]"}

noSpaceBefore(t) == t \in {")", "]", ";", ",", ".", "::", ":", ".."}
noSpaceAfter(t) == t \in {"(", "[", ".", "::", "!", "?", "&", "~", "..", "@"}

\* A `-` that signs what follows it: no operand ends in front of it.
signMinus(F, b) ==
  LET before == At(F.ts, b.prevIndex - 1)
  IN IF before = "*" THEN At(F.ts, b.prevIndex - 2) # "." ELSE ~endsOperand(before)

binaryAmp(F, b) == b.prev = "&" /\ endsOperand(At(F.ts, b.prevIndex - 1))

tightGenericBracket(F, b, i) ==
  \/ F.ts[i].t \in {"<", ">"} /\ i \in F.generic
  \/ b.prev = "<" /\ b.prevIndex \in F.generic

\* Mutant: the halves of a shift are spaced like other operators.
shiftHalvesApart(F, b, i) == FALSE

shiftHalves(F, b, i) == {i, b.prevIndex} \subseteq F.shift /\ b.prev = F.ts[i].t

openingParen(ts, i) ==
  LET depth[j \in 1 .. i] ==
        (IF j = i THEN 0 ELSE depth[j + 1]) + (CASE ts[j].t = ")" -> 1 [] ts[j].t = "(" -> -1 [] OTHER -> 0)
  IN Max({0} \union {j \in 1 .. i : depth[j] = 0})

\* The `[` of `[]`, `[N]` or `[(e)]` whose `]` is at i, or 0.
openingTypeBracket(ts, i) ==
  LET open == CASE At(ts, i - 1) \in {"INT", "IDENT"} -> i - 2
                [] At(ts, i - 1) = ")" -> openingParen(ts, i - 1) - 1
                [] OTHER -> i - 1
  IN IF At(ts, open) = "[" THEN open ELSE 0

\* The first of the brackets `[3][3]` that end at i.
RECURSIVE outerTypeBracket(_, _)
outerTypeBracket(ts, open) ==
  IF At(ts, open - 1) = "]" /\ openingTypeBracket(ts, open - 1) # 0
  THEN outerTypeBracket(ts, openingTypeBracket(ts, open - 1)) ELSE open

closesTypeBrackets(F, b) ==
  LET open == openingTypeBracket(F.ts, b.prevIndex)
  IN b.prev = "]" /\ open # 0 /\ ~endsOperand(At(F.ts, outerTypeBracket(F.ts, open) - 1))

canFollowSliceMarker(t) == t \in {"IDENT", "&", "!", "?", "["} \union Keywords

\* Where the type of `[N][M]T` begins when T is at i and each bracket has a length.
RECURSIVE arrayStart(_, _)
arrayStart(ts, i) ==
  LET open == IF At(ts, i - 1) = "]" THEN openingTypeBracket(ts, i - 1) ELSE 0
  IN IF open = 0 \/ open = i - 2 THEN i ELSE arrayStart(ts, open)

\* The brace of an array literal hugs its type, that of a body does not.
stackBufferBrace(F, b) ==
  LET start == arrayStart(F.ts, b.prevIndex)
  IN b.prev = "IDENT" /\ start < b.prevIndex /\ At(F.ts, start - 1) # "->"

functionOpensDeclaration(F, b) == At(F.ts, b.prevIndex - 1) \in {"", "pub", "{", "}", ";"}

parenTakesSpace(F, b) ==
  CASE b.prev = "fn" -> functionOpensDeclaration(F, b)
    [] b.prev = "-" -> ~signMinus(F, b)
    [] b.prev = "&" -> binaryAmp(F, b)
    [] b.prev \in {"IDENT", ")", "]"} -> FALSE
    [] b.prev = ">" -> b.prevIndex \notin F.generic
    [] OTHER -> ~noSpaceAfter(b.prev)

\* An index or the `!` of an error union against what it belongs to.
attachedTokenHugsLeft(F, b, t) ==
  /\ t \in {"[", "!"}
  /\ \/ b.prev \in {"IDENT", "STRING", "CSTRING", ")", "]", "}"}
     \/ b.prev = ">" /\ b.prevIndex \in F.generic

labelReference(t) == t \in {"break", "continue"}
labelHugsColon(F, b) == b.prev = ":" /\ labelReference(At(F.ts, b.prevIndex - 1))

operatorSpacing(F, b, t) ==
  /\ ~noSpaceBefore(t)
  /\ noSpaceAfter(b.prev) => binaryAmp(F, b)
  /\ ~(b.prev = "-" /\ signMinus(F, b))
  /\ ~(b.inCapture /\ "|" \in {t, b.prev})
  /\ ~(closesTypeBrackets(F, b) /\ canFollowSliceMarker(t))

shouldInsertSpace(F, b, i) ==
  LET t == F.ts[i].t
  IN CASE tightGenericBracket(F, b, i) \/ shiftHalves(F, b, i) -> FALSE
       [] t = "(" -> parenTakesSpace(F, b)
       [] attachedTokenHugsLeft(F, b, t) \/ labelHugsColon(F, b) -> FALSE
       [] t = "{" /\ stackBufferBrace(F, b) -> FALSE
       [] t = ":" /\ labelReference(b.prev) -> TRUE
       [] OTHER -> operatorSpacing(F, b, t)

----------------------------------------------------------------------------
\* Blocks.

\* The `}` of the `{` at i, or 0.
RECURSIVE closingBrace(_, _, _)
closingBrace(ts, j, depth) ==
  CASE ts[j].t = "EOF" -> 0
    [] ts[j].t = "}" /\ depth = 0 -> j
    [] ts[j].t = "}" -> closingBrace(ts, j + 1, depth - 1)
    [] ts[j].t = "{" -> closingBrace(ts, j + 1, depth + 1)
    [] OTHER -> closingBrace(ts, j + 1, depth)

closesOnSameLine(ts, i) ==
  LET close == closingBrace(ts, i + 1, 0) IN close # 0 /\ ts[close].line = ts[i].line

opensErrorSetBlock(ts, i) == At(ts, i - 1) = "IDENT" /\ At(ts, i - 2) = "IDENT" /\ ts[i - 2].v = "error"

\* The keyword in front of the `{` at i says that its last entry keeps a comma.
opensCommaTerminatedBlock(ts, i) ==
  LET last == Max({0} \union {j \in 1 .. i - 1 : ts[j].t \in {"struct", "enum", "union", "match", "{", "}", ";"}})
  IN \/ opensErrorSetBlock(ts, i)
     \/ At(ts, last) \in {"struct", "enum", "union"}
     \/ At(ts, last) = "match" /\ At(ts, last - 1) # "comptime"

currentOpenBlockKind(ts, i) ==
  CASE closesOnSameLine(ts, i) -> "inline" [] opensCommaTerminatedBlock(ts, i) -> "comma" [] OTHER -> "normal"

currentBlockKind(b) == IF b.blockStack = <<>> THEN "normal" ELSE Last(b.blockStack).kind

rbraceWantsNewline(t) == t \notin {"EOF", ",", ";", ".", "::", ")", "]", "}", "?", "!", "else"}

\* What a written token leaves in the builder.
Wrote(F, b, i) ==
  [b EXCEPT !.prev = F.ts[i].t, !.prevIndex = i, !.sourceLine = F.ts[i].line, !.afterComment = FALSE]

\* Mutant: whether the last entry has its comma is not looked at.
trailingCommaAlways(b) ==
  IF currentBlockKind(b) # "comma" \/ b.prev \in {"", "{"} THEN b
  ELSE [Put(b, ",", "", "none", 0) EXCEPT !.prev = ",", !.afterComment = FALSE]

\* The comma a struct, a tag list or a match lacks behind its last entry.
emitTrailingCommaBeforeClose(b) ==
  IF currentBlockKind(b) # "comma" \/ b.prev \in {"", ",", "{"} THEN b
  ELSE [Put(b, ",", "", "none", 0) EXCEPT !.prev = ",", !.afterComment = FALSE]

emitInlineRBrace(F, b, i, next) ==
  LET put == Wrote(F, Put(b, "}", "", IF b.prev = "{" THEN "none" ELSE "space", 0), i)
  IN IF rbraceWantsNewline(next) THEN [newline(F, put) EXCEPT !.continuation = 0] ELSE put

emitRBrace(F, b, i, next) ==
  LET popped == [b EXCEPT !.blockStack = IF @ = <<>> THEN @ ELSE Front(@)]
      closed == [popped EXCEPT !.depth = IF @ > 0 THEN @ - 1 ELSE 0]
      put == Wrote(F, IF b.prev = "{" THEN Put(closed, "}", "", "none", 0)
                      ELSE PutIndented(IF atLineStart(closed) THEN closed ELSE newline(F, closed), "}", ""), i)
  IN CASE currentBlockKind(b) = "inline" -> emitInlineRBrace(F, popped, i, next)
       [] rbraceWantsNewline(next) -> newline(F, put)
       [] OTHER -> put

\* A string with a quote in it has no other form than `\\` on a line of its own.
emitMultilineString(F, b, i) ==
  LET opened == IF atLineStart(b) THEN b ELSE newline(F, b)
  IN [Put(opened, "MULTILINE", F.ts[i].v, "none", b.depth + 1) EXCEPT
        !.nl = 1, !.prev = "STRING", !.prevIndex = i, !.sourceLine = F.ts[i].line]

captureOpensAt(ts, i) ==
  \E n \in 1 .. 3 :
    /\ i + 2 * n + 1 <= Len(ts)
    /\ \A k \in 1 .. n : ts[i + 2 * k - 1].t = "IDENT" /\ (k < n => ts[i + 2 * k].t = ",")
    /\ ts[i + 2 * n].t = "|" /\ ts[i + 2 * n + 1].t = "{"

recordEmitted(F, b, i) ==
  [Wrote(F, b, i) EXCEPT
     !.inCapture = IF F.ts[i].t = "|" THEN ~@ /\ captureOpensAt(F.ts, i) ELSE @,
     !.delimiterLines = CASE opensContinuationGroup(F, i) -> Append(@, F.ts[i].line)
                          [] closesContinuationGroup(F, i) /\ @ # <<>> -> Front(@)
                          [] OTHER -> @]

maybeTrailingNewline(F, b, i, next) ==
  LET t == F.ts[i].t
      kind == currentOpenBlockKind(F.ts, i)
      entered == [b EXCEPT !.blockStack = Append(@, [kind |-> kind, delimiterBase |-> Len(b.delimiterLines)]),
                           !.depth = IF kind = "inline" THEN @ ELSE @ + 1]
  IN CASE t = "{" -> IF kind = "inline" \/ next = "}" THEN entered ELSE newline(F, entered)
       [] t = ";" /\ currentBlockKind(b) # "inline" /\ next # "," -> [newline(F, b) EXCEPT !.continuation = 0]
       [] OTHER -> b

\* writeSeparator and writeToken.
writeToken(F, b, i) ==
  LET tok == F.ts[i]
  IN IF atLineStart(b) THEN PutIndented(b, tok.t, tok.v)
     ELSE Put(b, tok.t, tok.v, IF b.prev # "" /\ shouldInsertSpace(F, b, i) THEN "space" ELSE "none", 0)

emit(F, b, i, next) ==
  CASE F.ts[i].t = "}" -> emitRBrace(F, b, i, next)
    [] F.ts[i].t = "STRING" /\ F.ts[i].v = "quote" -> emitMultilineString(F, b, i)
    [] OTHER ->
         maybeTrailingNewline(F,
           recordEmitted(F,
             writeToken(F, maybePreserveSourceLineBreak(F, maybeBlankLineForTopLevel(F, b, i), i), i), i), i, next)

\* The tokens from i on, each with the comments above it. (The comparison makes
\* TLC work out a token's builder before the next token's.)
RECURSIVE emitFrom(_, _, _)
emitFrom(F, b, i) ==
  LET tok == F.ts[i]
      comma == IF tok.t = "}" THEN emitTrailingCommaBeforeClose(b) ELSE b
      commented == emitCommentsBefore(F, comma, tok.line)
      written == emit(F, commented, i, F.ts[i + 1].t)
  IN CASE i = Len(F.ts) -> commented
       [] commented = commented /\ written = written -> emitFrom(F, written, i + 1)

\* The text Format writes for a text; it ends with one line break.
Format(text) ==
  LET tokens == normalizeLeadingImports(tokenize(text))
      generic == detectGenericBrackets(tokens)
      F == [ts |-> tokens, generic |-> generic, shift |-> detectShiftPairs(tokens, generic),
            comments |-> lineComments(text)]
  IN emitFrom(F, builder, 1).out

=============================================================================
