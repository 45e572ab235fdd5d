------------------------------- MODULE Syntax -------------------------------
(* A source file between its author and `kizu fmt --write`. The author writes *)
(* a text piece by piece; the command reads the file, refuses it when it does *)
(* not parse, and replaces it by what Format makes of its tokens. The parser  *)
(* and the formatter never meet: what keeps them in step is checked here.     *)
EXTENDS Parser, Formatter

CONSTANTS
    Drafts,         \* each a sequence of places, a place the set of pieces that may go there
    Parsed(_),      \* what the parser makes of a text
    Laid(_),        \* what Format makes of a text
    Known(_)        \* the disagreements below that a text meets

\* `text` is the file, `draft` what its author has yet to write, and `authored`
\* the text as it was before the first rewrite.
VARIABLES text, draft, authored
vars == <<text, draft, authored>>

Init == text = <<>> /\ authored = <<>> /\ draft \in Drafts

\* A comment and a `\\` string end with their line.
EndsLine(item) == IsComment(item) \/ item.t = "MULTILINE"

Joined(before, piece) ==
  IF before # <<>> /\ piece # <<>> /\ EndsLine(Last(before)) /\ LineBreaks(piece[1].gap) = 0
  THEN before \o [piece EXCEPT ![1].gap = "line"] ELSE before \o piece

Write ==
  /\ draft # <<>>
  /\ \E piece \in Head(draft) : text' = Joined(text, piece)
  /\ draft' = Tail(draft)
  /\ UNCHANGED authored

fmtCommand ==
  /\ draft = <<>> /\ Parsed(text).i # 0
  /\ text' = Laid(text)
  /\ authored' = IF authored = <<>> THEN text ELSE authored
  /\ UNCHANGED draft

Next == Write \/ fmtCommand
Spec == Init /\ [][Next]_vars

Formatted == authored # <<>>

----------------------------------------------------------------------------
\* Texts the formatter is known to mishandle (README, "Disagreements").

\* A block whose only content is a comment after its opening brace.
CommentSwallowsBrace(source) ==
  \E i \in 2 .. Len(source) - 1 :
    /\ source[i - 1].t = "{" /\ IsComment(source[i]) /\ LineBreaks(source[i].gap) = 0
    /\ source[i + 1].t = "}"

\* A comparison whose right side shifts right: its first `>` is taken for a bracket.
ShiftTakenForBracket(source) ==
  LET ts == tokenize(source)
      generic == detectGenericBrackets(ts)
  IN \E i \in generic : /\ ts[i].t = ">" /\ shiftHalf(ts, i)
                        /\ \E j \in {i - 1, i + 1} : ts[j].t = ">" /\ j \notin generic

\* A last match arm that ends with `;` and no comma.
ArmEndsWithSemicolon(source) ==
  LET ts == tokenize(source)
  IN \E i \in DOMAIN ts : /\ ts[i].t = "{" /\ currentOpenBlockKind(ts, i) = "comma"
                          /\ ts[closingBrace(ts, i + 1, 0) - 1].t = ";"

\* A comment between imports that change places.
ImportsMovePastComment(source) ==
  LET ts == tokenize(source) IN normalizeLeadingImports(ts) # ts /\ lineComments(source) # <<>>

\* A comment behind several statements or declarations of one line: they go on
\* lines of their own and it stays behind the first.
CommentedLineSplit(source) ==
  LET ts == tokenize(source)
      ends(i) == \/ ts[i].t = ";"
                 \/ ts[i].t = "}" /\ rbraceWantsNewline(ts[i + 1].t)
                 \/ ts[i].t = "{" /\ ts[i + 1].t # "}" /\ currentOpenBlockKind(ts, i) # "inline"
  IN \E c \in Range(lineComments(source)), i \in 1 .. Len(ts) - 1 :
       c.trailing /\ {ts[i].line, ts[i + 1].line} = {c.line} /\ ends(i)

Disagreements(source) ==
  {name \in {"brace", "shift", "arm", "imports", "split"} :
     CASE name = "brace" -> CommentSwallowsBrace(source)
       [] name = "shift" -> ShiftTakenForBracket(source)
       [] name = "arm" -> ArmEndsWithSemicolon(source)
       [] name = "imports" -> ImportsMovePastComment(source)
       [] name = "split" -> CommentedLineSplit(source)}

parsePath(source) == ParseProgram(tokenize(source))

----------------------------------------------------------------------------
\* The tree of a file, its imports in any order.
Tree(source) ==
  LET parsed == Parsed(source)
      decls == parsed.n.c
      imports == {k \in DOMAIN decls : decls[k].k = "import"}
  IN [refused |-> parsed.i = 0, imports |-> {decls[k] : k \in imports},
      rest |-> SelectSeq(decls, LAMBDA d : d.k # "import")]

Meets(some) == Known(authored) \intersect some # {}

\* Formatting changes no meaning: the tree of the file the command writes, with
\* the doc and safety comments each declaration and unsafe expression is read
\* with, is the tree of the file it read.
SameTree ==
  Formatted => Tree(text) = Tree(authored) \/ Meets({"brace", "shift", "split"})

\* Formatting settles: what the command wrote it leaves alone, byte for byte.
Settled ==
  Formatted => Laid(text) = text \/ Meets({"brace", "shift", "arm"})

\* The comments of a text, each with how much code stands in front of it and
\* whether it shares a line with code.
Placed(source) ==
  LET code(i) == SelectSeq(SubSeq(source, 1, i), LAMBDA item : ~IsComment(item) /\ item.t # ",")
      at == SelectSeq([i \in DOMAIN source |-> i], LAMBDA i : IsComment(source[i]))
  IN [k \in DOMAIN at |->
       <<Len(code(at[k])), source[at[k]].v, at[k] > 1 /\ LineBreaks(source[at[k]].gap) = 0>>]

\* No comment is lost and none changes hands: each stands behind the same code as
\* before and, if it shared a line with code, still does.
CommentsStay ==
  Formatted => Placed(text) = Placed(authored) \/ Meets({"brace", "imports", "split"})

=============================================================================
