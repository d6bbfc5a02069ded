------------------------------- MODULE TemplateParser ------------------------------
(* How template/native.rs reads a template: lex cuts the source into text, outputs and *)
(* tags, the node parser nests the tags, and ExprParser reads the expression of an      *)
(* output, a condition or a loop. The three read different things and share no state;   *)
(* "reading" says which of them a behaviour is about.                                   *)
EXTENDS Integers, SequencesExt, FiniteSetsExt, TLC

CONSTANTS MaxChars,   \* bound: characters of a source
          MaxTokens,  \* bound: tokens of a template
          MaxExpr     \* bound: characters of an expression

ParserAssumption == {MaxChars, MaxTokens, MaxExpr} \subseteq Nat

VARIABLES reading,  \* "source", "tokens" or "expression"
          input,    \* what is to be read, or what has been read so far
          parser    \* the state of the parser

template == <<reading, input, parser>>

-----------------------------------------------------------------------------------
(* lex. A comment is kept here as a piece of its own kind; the lexer drops it.         *)

Closer == ("{" :> "}") @@ ("%" :> "%") @@ ("#" :> "#")
Kind == ("{" :> "output") @@ ("%" :> "tag") @@ ("#" :> "comment")

LexInit == /\ input \in BoundedSeq({"{", "}", "%", "#", "x"}, MaxChars)
           /\ parser = [at |-> 1, text |-> 1, pieces |-> <<>>, end |-> "none"]

Piece(kind, chars) == [kind |-> kind, chars |-> chars]

Pending(to) == IF to > parser.text THEN <<Piece("text", SubSeq(input, parser.text, to - 1))>> ELSE <<>>

Opening(i) == i < Len(input) /\ input[i] = "{" /\ input[i + 1] \in DOMAIN Closer

Closings_FromOpener(i) == {j \in i + 1 .. Len(input) - 1 :
                              input[j] = Closer[input[i + 1]] /\ input[j + 1] = "}"}

(* The first closer of the same kind, quotes or not; a brace of the opener is not one. *)
Closings(i) == {j \in i + 2 .. Len(input) - 1 : input[j] = Closer[input[i + 1]] /\ input[j + 1] = "}"}

Lex ==
    /\ reading = "source" /\ parser.end = "none"
    /\ LET i == parser.at IN
       parser' =
           CASE i > Len(input) ->
                    [parser EXCEPT !.end = "done", !.pieces = @ \o Pending(Len(input) + 1)]
             [] i <= Len(input) /\ ~Opening(i) -> [parser EXCEPT !.at = i + 1]
             [] i <= Len(input) /\ Opening(i) /\ Closings(i) = {} -> [parser EXCEPT !.end = "error"]
             [] OTHER ->
                    LET j == Min(Closings(i)) IN
                    [parser EXCEPT !.at = j + 2, !.text = j + 2,
                                   !.pieces = @ \o Pending(i) \o
                                       <<Piece(Kind[input[i + 1]], SubSeq(input, i + 2, j - 1))>>]
    /\ UNCHANGED <<reading, input>>

-----------------------------------------------------------------------------------
(* parse and parse_nodes. The parser descends into the bodies of tags; here the bodies  *)
(* that are open are a stack, and one token is one step. Tokens are records; "good"     *)
(* says whether the argument of a tag, or the expression in it, can be read.            *)

Token(kind, name, expr, good) == [kind |-> kind, name |-> name, expr |-> expr, good |-> good]

Nothing == ""   \* no parent, no name

Start == [extends |-> Nothing, leading |-> TRUE, stack |-> <<>>, nodes |-> <<>>, error |-> FALSE]

Leaf(token) == [kind |-> token.kind, name |-> token.name, expr |-> token.expr]

Adds(p, node) == [p EXCEPT !.nodes = Append(@, node), !.leading = FALSE]

(* A body begins: the nodes around it wait on the stack. *)
Opens(p, token) == [p EXCEPT !.stack = Append(@, [token |-> token, around |-> p.nodes,
                                                  branches |-> <<>>, other |-> FALSE,
                                                  conditions |-> <<token.expr>>]),
                             !.nodes = <<>>, !.leading = FALSE]

Innermost(p) == IF p.stack = <<>> THEN "nothing" ELSE Last(p.stack).token.kind

(* elif and else end a branch; only endif may follow the branch of else. *)
Branches(p, token) ==
    [p EXCEPT !.stack[Len(p.stack)] =
                  [@ EXCEPT !.branches = Append(@, p.nodes), !.other = token.kind = "else",
                            !.conditions = IF token.kind = "elif" THEN Append(@, token.expr) ELSE @],
              !.nodes = <<>>]

Node(top, bodies) == [kind |-> top.token.kind, name |-> top.token.name, other |-> top.other,
                      conditions |-> top.conditions, bodies |-> bodies]

Closes_DropsLast(p) == [p EXCEPT !.stack = Front(@),
                                 !.nodes = Append(Last(p.stack).around,
                                                  Node(Last(p.stack), <<p.nodes>>))]

Closes(p) == [p EXCEPT !.stack = Front(@),
                       !.nodes = Append(Last(p.stack).around,
                                        Node(Last(p.stack), Append(Last(p.stack).branches, p.nodes)))]

Fails(p) == [p EXCEPT !.error = TRUE]

InIf(p) == Innermost(p) = "if" /\ ~Last(p.stack).other

(* A tag that ends no body that is open at this place is an unknown tag. *)
Take(p, token) ==
    LET kind == token.kind
    IN  IF p.error \/ ~token.good THEN Fails(p)
        ELSE CASE kind = "blank" -> IF p.leading THEN p ELSE Adds(p, Leaf(token))
               [] kind \in {"text", "out", "include"} -> Adds(p, Leaf(token))
               [] kind = "extends" /\ p.leading -> [p EXCEPT !.extends = token.name, !.leading = FALSE]
               [] kind \in {"if", "for", "block"} -> Opens(p, token)
               [] kind \in {"elif", "else"} /\ InIf(p) -> Branches(p, token)
               [] kind = "endif" /\ Innermost(p) = "if" -> Closes(p)
               [] kind = "endfor" /\ Innermost(p) = "for" -> Closes(p)
               [] kind = "endblock" /\ Innermost(p) = "block" -> Closes(p)
               [] OTHER -> Fails(p)

(* A body that is still open at the end is an error. *)
Accepts(p) == ~p.error /\ p.stack = <<>>

Parsed(tokens) == FoldLeft(Take, Start, tokens)

Tag(kind, name, good) == Token(kind, name, <<>>, good)

Tags == {Tag(k, Nothing, TRUE) : k \in {"blank", "out", "if", "elif", "else", "endif", "for",
                                        "endfor", "endblock", "other"}}
          \union {Tag("out", Nothing, FALSE), Tag("for", Nothing, FALSE), Tag("extends", "base", TRUE),
                  Tag("include", "part", TRUE), Tag("block", "a", TRUE)}

NodesInit == input = <<>> /\ parser = Start

ReadToken(token) == /\ reading = "tokens" /\ Len(input) < MaxTokens
                    /\ "done" \notin DOMAIN parser /\ ~parser.error
                    /\ input' = Append(input, token)
                    /\ parser' = Take(parser, token)
                    /\ UNCHANGED reading

EndOfTokens == /\ reading = "tokens" /\ "done" \notin DOMAIN parser
               /\ parser' = parser @@ [done |-> Accepts(parser)]
               /\ UNCHANGED <<reading, input>>

-----------------------------------------------------------------------------------
(* ExprParser, one character at a time: "want" is where in the recursive descent it is. *)
(* "primary" begins a value, "after" follows one; an argument list nests one level.     *)

Letters == {"a"}
Digits == {"1"}
Marks == {"-", ".", "\"", "|", "(", ")", ",", "=", "<", " "}

(* What was read: values, names of filters and the signs between them. *)
ExprInit == /\ input = <<>>
            /\ parser = [want |-> "primary", inside |-> FALSE, compared |-> FALSE,
                         word |-> <<>>, parts |-> <<>>]

Part(kind, text) == <<kind, text>>

(* The word ends before this character, which is read in the state that follows.       *)
Finished(p) ==
    CASE p.want = "number" -> [p EXCEPT !.parts = Append(@, Part("number", p.word)),
                                        !.word = <<>>, !.want = "after"]
      [] p.want = "path" -> [p EXCEPT !.parts = Append(@, Part("path", p.word)),
                                      !.word = <<>>, !.want = "after"]
      [] p.want = "filter" /\ p.word # <<>> ->
             [p EXCEPT !.parts = Append(@, Part("filter", p.word)), !.word = <<>>, !.want = "args"]
      [] OTHER -> p

(* One dot at most and one digit at least: what f64 reads. *)
IsNumber(word) == /\ \E i \in DOMAIN word : word[i] \in Digits
                  /\ Cardinality({i \in DOMAIN word : word[i] = "."}) <= 1

Continues(p, c) ==
    CASE p.want = "string" -> TRUE
      [] p.want = "number" -> c \in Digits \union {"."}
      [] p.want \in {"path", "filter"} -> c \in Letters \union Digits
      [] OTHER -> FALSE

Err(p) == [p EXCEPT !.want = "error"]

Word(p, want, c) == [p EXCEPT !.want = want, !.word = Append(@, c)]

Primary(p, c) == CASE c = "\"" -> [p EXCEPT !.want = "string"]
                   [] c \in Digits \union {"-"} -> Word(p, "number", c)
                   [] c \in Letters -> Word(p, "path", c)
                   [] OTHER -> Err(p)

Sign(p, c, want) == [p EXCEPT !.want = want, !.parts = Append(@, Part("sign", <<c>>))]

(* After a value, or after a filter that may have arguments. *)
After(p, c) ==
    CASE p.inside /\ c = "," -> Sign(p, c, "argument")
      [] p.inside /\ c = ")" -> [Sign(p, c, "after") EXCEPT !.inside = FALSE]
      [] ~p.inside /\ c = "|" -> Sign(p, c, "filter")
      [] ~p.inside /\ c = "(" /\ p.want = "args" -> [Sign(p, c, "argument") EXCEPT !.inside = TRUE]
      [] ~p.inside /\ c = "<" /\ ~p.compared -> [Sign(p, c, "less") EXCEPT !.compared = TRUE]
      [] ~p.inside /\ c = "=" /\ ~p.compared -> [p EXCEPT !.want = "equal", !.compared = TRUE]
      [] OTHER -> Err(p)

Step(p, c) ==
    IF p.want = "error" THEN p
    ELSE IF p.want = "string" /\ c = "\""
    THEN [p EXCEPT !.parts = Append(@, Part("string", p.word)), !.word = <<>>, !.want = "after"]
    ELSE IF Continues(p, c) THEN Word(p, p.want, c)
    ELSE IF p.want = "number" /\ ~IsNumber(p.word) THEN Err(p)
    ELSE IF c = " " /\ p.want # "equal"
    THEN Finished(IF p.want = "less" THEN [p EXCEPT !.want = "primary"] ELSE p)
    ELSE CASE p.want = "path" /\ c = "." -> Word(p, "dot", c)
           [] p.want = "equal" -> IF c = "=" THEN Sign(p, "==", "primary") ELSE Err(p)
           [] p.want = "less" /\ c = "=" -> [p EXCEPT !.parts[Len(p.parts)] = Part("sign", <<"<=">>),
                                                      !.want = "primary"]
           [] p.want = "less" /\ c # "=" -> Primary(p, c)
           [] p.want = "primary" -> Primary(p, c)
           [] p.want = "argument" -> IF c = ")" THEN [Sign(p, c, "after") EXCEPT !.inside = FALSE]
                                     ELSE Primary(p, c)
           [] p.want = "dot" -> IF c \in Letters \union Digits THEN Word(p, "path", c) ELSE Err(p)
           [] p.want = "filter" /\ p.word = <<>> ->
                  IF c \in Letters \union Digits THEN Word(p, "filter", c) ELSE Err(p)
           [] OTHER -> After(Finished(p), c)

ReadChar(c) == /\ reading = "expression" /\ Len(input) < MaxExpr
               /\ parser.want \notin {"error", "end"}
               /\ input' = Append(input, c)
               /\ parser' = Step(parser, c)
               /\ UNCHANGED reading

Complete(p) == p.want \in {"after", "args"} /\ ~p.inside

EndOfExpression ==
    /\ reading = "expression" /\ parser.want \notin {"error", "end"}
    /\ parser' = IF Complete(Finished(parser)) /\ (parser.want = "number" => IsNumber(parser.word))
                 THEN [Finished(parser) EXCEPT !.want = "end"] ELSE Err(parser)
    /\ UNCHANGED <<reading, input>>

-----------------------------------------------------------------------------------

Init == \/ reading = "source" /\ LexInit
        \/ reading = "tokens" /\ NodesInit
        \/ reading = "expression" /\ ExprInit

Next == \/ Lex \/ EndOfTokens \/ EndOfExpression
        \/ \E token \in Tags : ReadToken(token)
        \/ \E c \in Letters \union Digits \union Marks : ReadChar(c)

Spec == Init /\ [][Next]_template

-----------------------------------------------------------------------------------
(* Properties. *)

TypeOK == /\ reading \in {"source", "tokens", "expression"}
          /\ reading = "source" => parser.at \in 1 .. Len(input) + 1 /\ parser.text <= parser.at
          /\ reading = "tokens" => parser.error \in BOOLEAN
          /\ reading = "expression" => parser.inside \in BOOLEAN

Written(piece) == CASE piece.kind = "text" -> piece.chars
                    [] piece.kind = "output" -> <<"{", "{">> \o piece.chars \o <<"}", "}">>
                    [] piece.kind = "tag" -> <<"{", "%">> \o piece.chars \o <<"%", "}">>
                    [] OTHER -> <<"{", "#">> \o piece.chars \o <<"#", "}">>

Pairs(chars, first, second) ==
    \E i \in 1 .. Len(chars) - 1 : chars[i] = first /\ chars[i + 1] = second

(* No character of a source is lost, moved or read twice: the pieces put together are  *)
(* the source, text holds no opener and no piece its own closer.                       *)
LexerKeepsAll ==
    reading = "source" /\ parser.end = "done" =>
        /\ FlattenSeq([i \in DOMAIN parser.pieces |-> Written(parser.pieces[i])]) = input
        /\ \A i \in DOMAIN parser.pieces :
               LET piece == parser.pieces[i] IN
               IF piece.kind = "text" THEN \A c \in DOMAIN Closer : ~Pairs(piece.chars, "{", c)
               ELSE \A c \in DOMAIN Closer :
                        Kind[c] = piece.kind => ~Pairs(piece.chars, Closer[c], "}")

(* A nest of tags taken apart from the inside: an innermost body without tags goes.    *)
Tagged == SelectSeq(input, LAMBDA t : t.kind \notin {"blank", "out", "include"})
Kinds(tokens) == [i \in DOMAIN tokens |-> tokens[i].kind]

Cut(kinds, i, n) == SubSeq(kinds, 1, i - 1) \o SubSeq(kinds, i + n, Len(kinds))
Smaller(kinds) ==
    {Cut(kinds, i, 2) : i \in {i \in 1 .. Len(kinds) - 1 :
          <<kinds[i], kinds[i + 1]>> \in {<<"if", "endif">>, <<"for", "endfor">>, <<"block", "endblock">>}}}
      \union {Cut(kinds, i + 1, 1) : i \in {i \in 1 .. Len(kinds) - 1 :
          <<kinds[i], kinds[i + 1]>> = <<"if", "elif">>}}
      \union {Cut(kinds, i + 1, 1) : i \in {i \in 1 .. Len(kinds) - 2 :
          <<kinds[i], kinds[i + 1], kinds[i + 2]>> = <<"if", "else", "endif">>}}

RECURSIVE Vanishes(_)
Vanishes(kinds) == kinds = <<>> \/ \E smaller \in Smaller(kinds) : Vanishes(smaller)

(* extends may stand only before everything but blanks. *)
Child == Tagged # <<>> /\ Tagged[1].kind = "extends"
           /\ \A i \in DOMAIN input : (\A j \in 1 .. i : input[j].kind # "extends") => input[i].kind = "blank"

RECURSIVE Printed(_)
Printed(nodes) ==
    FlattenSeq([i \in DOMAIN nodes |->
        IF "bodies" \notin DOMAIN nodes[i] THEN <<nodes[i].kind>>
        ELSE <<nodes[i].kind>>
               \o FlattenSeq([j \in DOMAIN nodes[i].bodies |->
                     (IF j = 1 THEN <<>>
                      ELSE IF j = Len(nodes[i].bodies) /\ nodes[i].other THEN <<"else">> ELSE <<"elif">>)
                        \o Printed(nodes[i].bodies[j])])
               \o <<"end" \o nodes[i].kind>>])

LeadingBlanks == SelectInSeq(Append(input, Tag("end", Nothing, TRUE)), LAMBDA t : t.kind # "blank") - 1

(* A template is taken exactly when its tags nest, and its tree is the text again.     *)
TreeIsTheText ==
    reading = "tokens" /\ "done" \in DOMAIN parser =>
        /\ parser.done <=> /\ \A i \in DOMAIN input : input[i].good
                           /\ Vanishes(Kinds(IF Child THEN Tail(Tagged) ELSE Tagged))
        /\ parser.done =>
               (IF Child THEN <<"extends">> ELSE <<>>) \o Printed(parser.nodes)
                  = SubSeq(Kinds(input), LeadingBlanks + 1, Len(input))

(* The parts of an expression, written again without the blanks between them. *)
Rewritten == FlattenSeq([i \in DOMAIN parser.parts |->
                LET part == parser.parts[i] IN
                CASE part[1] = "string" -> <<"\"">> \o part[2] \o <<"\"">>
                  [] part[2] = <<"==">> -> <<"=", "=">>
                  [] part[2] = <<"<=">> -> <<"<", "=">>
                  [] OTHER -> part[2]])

Quoted(i) == Cardinality({j \in 1 .. i - 1 : input[j] = "\""}) % 2 = 1
Unspaced == LET kept == {i \in DOMAIN input : input[i] # " " \/ Quoted(i)}
            IN  [n \in 1 .. Cardinality(kept) |->
                    input[CHOOSE i \in kept : Cardinality({j \in kept : j <= i}) = n]]

PartKinds == [i \in DOMAIN parser.parts |-> parser.parts[i][1]]
Value(kind) == kind \in {"string", "number", "path"}

(* An expression that is accepted is read whole, blanks mean nothing outside of        *)
(* strings, and values, filters and signs alternate: never two values side by side, a  *)
(* filter only behind a bar, and one comparison at most.                               *)
ExpressionIsTheText ==
    reading = "expression" /\ parser.want = "end" =>
        /\ Rewritten = Unspaced
        /\ Value(PartKinds[1])
        /\ \A i \in 1 .. Len(parser.parts) - 1 :
               /\ ~(Value(PartKinds[i]) /\ PartKinds[i + 1] # "sign")
               /\ PartKinds[i + 1] = "filter" <=> parser.parts[i] = Part("sign", <<"|">>)
        /\ Cardinality({i \in DOMAIN parser.parts :
                            parser.parts[i][2] \in {<<"==">>, <<"<=">>, <<"<">>}
                            /\ PartKinds[i] = "sign"}) <= 1
==================================================================================
