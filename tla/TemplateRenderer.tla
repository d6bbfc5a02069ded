------------------------------ MODULE TemplateRenderer -----------------------------
(* How template/native.rs renders: templates are added one after the other, in the     *)
(* order in which a directory is read; a template that is rendered climbs to the root  *)
(* of its ancestors and renders that, with the most derived body of every block. The   *)
(* calls of render_nodes and render_template are frames of a stack. Strings are        *)
(* sequences of letters, "<" and "&", and of what these become when they are escaped.  *)
EXTENDS Integers, SequencesExt, FiniteSetsExt, TLC

CONSTANTS Sources,   \* name -> the sources a template of that name may have
          Items,     \* items of a list that a context holds
          MaxDepth   \* bound: frames; more of them overflow the stack

VARIABLES engine,   \* the templates that were added
          context,  \* the value of x, which is all that a page is given
          render,   \* the stack of calls, the ancestors climbed, the output or the error
          history   \* what was asked for, and the expressions written out with what they meant

rendering == <<engine, context, render, history>>

(* The tree that a source becomes: operators of the parser, none of its state. *)
Tree == INSTANCE TemplateParser WITH reading <- 0, input <- 0, parser <- 0,
                                     MaxChars <- 0, MaxTokens <- 0, MaxExpr <- 0

Nothing == Tree!Nothing
Parsed(source) == Tree!Parsed(source)
Accepts(p) == Tree!Accepts(p)

-----------------------------------------------------------------------------------
(* Values and filters: eval, apply_filter, truthy, compare. *)

Null == [type |-> "null"]
Bool(b) == [type |-> "bool", is |-> b]
Whole(n) == [type |-> "int", n |-> n]
Float(n) == [type |-> "float", n |-> n]
Str(s) == [type |-> "string", chars |-> s]
List(s) == [type |-> "list", items |-> s]

NumberChars == (0 :> <<"0">>) @@ (1 :> <<"1">>) @@ (2 :> <<"2">>)

value_to_string(v) == CASE v.type = "null" -> <<>>
                        [] v.type = "bool" -> IF v.is THEN <<"true">> ELSE <<"false">>
                        [] v.type = "int" -> NumberChars[v.n]
                        [] v.type = "float" -> NumberChars[v.n] \o <<".0">>
                        [] v.type = "string" -> v.chars
                        [] OTHER -> <<"[...]">>

(* & is replaced after <: its own entity is escaped again. *)
html_escape_Late(s) == FlattenSeq([i \in DOMAIN s |-> CASE s[i] = "<" -> <<"&", "amp;", "lt;">>
                                                  [] s[i] = "&" -> <<"&", "amp;">>
                                                  [] OTHER -> <<s[i]>>])

html_escape(s) == FlattenSeq([i \in DOMAIN s |-> CASE s[i] = "<" -> <<"&", "lt;">>
                                                  [] s[i] = "&" -> <<"&", "amp;">>
                                                  [] OTHER -> <<s[i]>>])

(* The number a literal becomes: always a floating one. *)
Literal(v) == IF v.type = "int" THEN Float(v.n) ELSE v

Length(v) == CASE v.type = "list" -> Len(v.items) [] v.type = "string" -> Len(v.chars) [] OTHER -> 0

Joined(items) == FlattenSeq([i \in DOMAIN items |->
                     value_to_string(items[i]) \o (IF i < Len(items) THEN <<",">> ELSE <<>>)])

(* A filter that is not known gives the value back; join does so for what is no list.  *)
apply_filter(name, v) ==
    CASE name = "upper" -> Str(value_to_string(v))
      [] name = "length" -> Whole(Length(v))
      [] name = "escape" -> Str(html_escape(value_to_string(v)))
      [] name = "default" -> IF value_to_string(v) = <<>> THEN Str(<<"d">>) ELSE v
      [] name = "join" /\ v.type = "list" -> Str(Joined(v.items))
      [] OTHER -> v

truthy(v) == CASE v.type = "null" -> FALSE
               [] v.type = "bool" -> v.is
               [] v.type \in {"int", "float"} -> v.n # 0
               [] v.type = "string" -> v.chars # <<>>
               [] OTHER -> v.items # <<>>

(* serde_json: numbers are equal when they are of one kind and equal. *)
compare(a, op, b) == CASE op = "==" -> a = b
                       [] op = "!=" -> a # b
                       [] OTHER -> /\ {a.type, b.type} \subseteq {"int", "float"}
                                   /\ IF op = "<" THEN a.n < b.n ELSE a.n > b.n

Filtered(v, names) == FoldLeft(LAMBDA w, name : apply_filter(name, w), v, names)

(* What paths lead to: x, and inside of a loop its variable and what it says of itself. *)
lookup(scope, key) == IF key \in DOMAIN scope THEN scope[key] ELSE Null

(* What is around a loop stays in sight inside of it, unless the loop has the name too. *)
scope_with_loop(scope, var, item, index, length) ==
    ("loop.index" :> Whole(index)) @@ ("loop.first" :> Bool(index = 1))
       @@ ("loop.last" :> Bool(index = length)) @@ ("loop.length" :> Whole(length))
       @@ (var :> item) @@ scope

(* An expression: a path or a literal, its filters, and a comparison or none. *)
Expr(from, filters, op, with) == [from |-> from, filters |-> filters, op |-> op, with |-> with]
Path(key) == [type |-> "path", key |-> key]

Operand(from, scope) == IF from.type = "path" THEN lookup(scope, from.key) ELSE Literal(from)

eval(expr, scope) ==
    LET v == Filtered(Operand(expr.from, scope), expr.filters)
    IN  IF expr.op = "none" THEN v ELSE Bool(compare(v, expr.op, Operand(expr.with, scope)))

Safe(expr) == expr.op = "none" /\ \E i \in DOMAIN expr.filters : expr.filters[i] \in {"safe", "raw"}

(* safe or raw anywhere among the filters is enough. *)
render_output(expr, scope) ==
    LET s == value_to_string(eval(expr, scope)) IN IF Safe(expr) THEN s ELSE html_escape(s)

-----------------------------------------------------------------------------------
(* collect_blocks: the blocks in the order of the text, those inside of blocks, of     *)
(* branches and of loops too.                                                          *)
RECURSIVE Blocks(_)
Blocks(nodes) ==
    FlattenSeq([i \in DOMAIN nodes |->
        IF "bodies" \notin DOMAIN nodes[i] THEN <<>>
        ELSE LET inside == FlattenSeq([j \in DOMAIN nodes[i].bodies |-> Blocks(nodes[i].bodies[j])])
             IN  (IF nodes[i].kind = "block" THEN <<nodes[i]>> ELSE <<>>) \o inside])

-----------------------------------------------------------------------------------
(* Templates that lead back to themselves: an observer's view, no part of the engine.  *)

RECURSIVE Mentions(_)
Mentions(nodes) ==
    UNION {IF "bodies" \in DOMAIN nodes[i]
           THEN {nodes[i]} \union UNION {Mentions(nodes[i].bodies[j]) : j \in DOMAIN nodes[i].bodies}
           ELSE {nodes[i]} : i \in DOMAIN nodes}

(* What a template leads to: its ancestors and what they, or it, include; and of a      *)
(* block the blocks inside the bodies that any template gives it.                      *)
LeadsTo(name) == ({engine[name].extends} \ {Nothing})
                    \union {n.name : n \in {m \in Mentions(engine[name].nodes) : m.kind = "include"}}

Trees(inline) == {engine[name].nodes : name \in DOMAIN engine} \union {inline}
BlocksOf(nodes) == {n \in Mentions(nodes) : n.kind = "block"}
BlocksIn(block, inline) ==
    UNION {UNION {{n.name : n \in BlocksOf(b.bodies[1])} : b \in {m \in BlocksOf(nodes) : m.name = block}} :
           nodes \in Trees(inline)}

Round(step) == \E set \in SUBSET DOMAIN step :
                         /\ set # {} /\ \A x \in set : step[x] \intersect set # {}

Tangled(inline) == \/ Round([n \in DOMAIN engine |-> LeadsTo(n)])
                   \/ Round([b \in {"a", "c"} |-> BlocksIn(b, inline)])

-----------------------------------------------------------------------------------
(* add, get. *)

Add(name, source) ==
    /\ render.at = "idle" /\ name \notin DOMAIN engine
    /\ LET p == Parsed(source) IN
       IF Accepts(p)
       THEN engine' = engine @@ (name :> [extends |-> p.extends, nodes |-> p.nodes])
            /\ UNCHANGED render
       ELSE render' = [at |-> "failed", why |-> "syntax"] /\ UNCHANGED engine
    /\ UNCHANGED <<context, history>>

Scope == "x" :> context
NoLoop == [items |-> <<>>, at |-> 0]

Frame(nodes, scope, overrides) == [nodes |-> nodes, i |-> 1, scope |-> scope, overrides |-> overrides,
                                   loop |-> NoLoop]

(* collect_blocks of one template: what is overridden already stays. *)
Collect_LastWins(overrides, nodes) ==
    FoldLeft(LAMBDA o, block : (block.name :> block.bodies[1]) @@ o, overrides, Blocks(nodes))

Collect(overrides, nodes) ==
    FoldLeft(LAMBDA o, block : o @@ (block.name :> block.bodies[1]), overrides, Blocks(nodes))

NoBlocks == [n \in {} |-> <<>>]

Fail(why) == render' = [at |-> "failed", why |-> why] /\ UNCHANGED <<engine, context, history>>

(* render_template begins to climb, for a render or for an include. *)
Climbing(name, scope, below) ==
    [at |-> "climbing", to |-> name, scope |-> scope, overrides |-> NoBlocks, stack |-> below,
     out |-> IF "out" \in DOMAIN render THEN render.out ELSE <<>>]

Render(name) == /\ render.at = "idle" /\ DOMAIN engine = DOMAIN Sources
                /\ render' = Climbing(name, Scope, <<>>)
                /\ history' = [history EXCEPT !.of = name, !.tangled = Tangled(<<>>)]
                /\ UNCHANGED <<engine, context>>

(* Nothing remembers the ancestors that were climbed. *)
Climb ==
    /\ render.at = "climbing"
    /\ IF render.to \notin DOMAIN engine THEN Fail("not found")
       ELSE LET tmpl == engine[render.to]
                overrides == Collect(render.overrides, tmpl.nodes)
            IN  /\ render' = IF tmpl.extends # Nothing
                             THEN [render EXCEPT !.to = tmpl.extends, !.overrides = overrides]
                             ELSE [at |-> "rendering", out |-> render.out,
                                   stack |-> Append(render.stack,
                                                    Frame(tmpl.nodes, render.scope, overrides))]
                /\ history' = [history EXCEPT !.climbs = IF tmpl.extends # Nothing THEN @ + 1 ELSE 0]
                /\ UNCHANGED <<engine, context>>

(* render_str: a source that is not registered, with a registered ancestor or none.    *)
RenderStr(source) ==
    /\ render.at = "idle" /\ DOMAIN engine = DOMAIN Sources
    /\ LET p == Parsed(source) IN
       /\ render' = CASE ~Accepts(p) -> [at |-> "failed", why |-> "syntax"]
                        [] Accepts(p) /\ p.extends # Nothing ->
                               [Climbing(p.extends, Scope, <<>>)
                                   EXCEPT !.overrides = Collect(NoBlocks, p.nodes)]
                        [] OTHER -> [at |-> "rendering", out |-> <<>>,
                                     stack |-> <<Frame(p.nodes, Scope, NoBlocks)>>]
       /\ history' = [history EXCEPT !.tangled = Tangled(p.nodes)]
    /\ UNCHANGED <<engine, context>>

-----------------------------------------------------------------------------------
(* render_nodes. *)

Top == Last(render.stack)
Now == Top.nodes[Top.i]
HasNode == render.at = "rendering" /\ render.stack # <<>> /\ Top.i <= Len(Top.nodes)

Stepped == [render.stack EXCEPT ![Len(render.stack)].i = @ + 1]

Calls(frame) == /\ render' = [render EXCEPT !.stack = Append(Stepped, frame)]
                /\ UNCHANGED <<engine, context, history>>

Skips == render' = [render EXCEPT !.stack = Stepped] /\ UNCHANGED <<engine, context, history>>

Text == /\ HasNode /\ Now.kind \in {"text", "blank"}
        /\ render' = [render EXCEPT !.stack = Stepped, !.out = Append(@, Now.name)]
        /\ UNCHANGED <<engine, context, history>>

(* History: what an expression would say if nothing of it were escaped. *)
Meant(expr, scope) ==
    LET plain == SelectSeq(expr.filters, LAMBDA f : f \notin {"escape", "safe", "raw"})
    IN  value_to_string(eval([expr EXCEPT !.filters = plain], scope))

Output == /\ HasNode /\ Now.kind = "out"
          /\ LET text == render_output(Now.expr, Top.scope) IN
             /\ render' = [render EXCEPT !.stack = Stepped, !.out = @ \o text]
             /\ history' = [history EXCEPT !.written =
                    Append(@, [expr |-> Now.expr, meant |-> Meant(Now.expr, Top.scope), text |-> text])]
          /\ UNCHANGED <<engine, context>>

Holding == {i \in DOMAIN Now.conditions : truthy(eval(Now.conditions[i], Top.scope))}

(* The branch of the first condition that holds, or that of else. *)
If == /\ HasNode /\ Now.kind = "if"
      /\ CASE Holding # {} -> Calls(Frame(Now.bodies[Min(Holding)], Top.scope, Top.overrides))
           [] Holding = {} /\ Now.other -> Calls(Frame(Last(Now.bodies), Top.scope, Top.overrides))
           [] OTHER -> Skips

(* What the body of a loop sees at its turn. *)
Turn(loop) == scope_with_loop(loop.around, loop.var, loop.items[loop.at], loop.at, Len(loop.items))

(* What is no list is no loop. The frame renders its body once for each item.          *)
For == /\ HasNode /\ Now.kind = "for"
       /\ LET list == eval(Now.conditions[1], Top.scope)
              loop == [var |-> Now.name, items |-> list.items, around |-> Top.scope, at |-> 1]
          IN  IF list.type = "list" /\ list.items # <<>>
              THEN Calls([Frame(Now.bodies[1], Turn(loop), Top.overrides) EXCEPT !.loop = loop])
              ELSE Skips

Block == /\ HasNode /\ Now.kind = "block"
         /\ Calls(Frame(IF Now.name \in DOMAIN Top.overrides THEN Top.overrides[Now.name]
                        ELSE Now.bodies[1], Top.scope, Top.overrides))

(* An included template has ancestors and blocks of its own. *)
Include == /\ HasNode /\ Now.kind = "include"
           /\ render' = Climbing(Now.name, Top.scope, Stepped)
           /\ UNCHANGED <<engine, context, history>>

Return == /\ render.at = "rendering" /\ render.stack # <<>> /\ Top.i > Len(Top.nodes)
          /\ LET next == [Top.loop EXCEPT !.at = @ + 1] IN
             render' = IF next.at <= Len(next.items)
                       THEN [render EXCEPT !.stack[Len(render.stack)] =
                                [@ EXCEPT !.i = 1, !.scope = Turn(next), !.loop = next]]
                       ELSE [render EXCEPT !.stack = Front(@)]
          /\ UNCHANGED <<engine, context, history>>

Done == /\ render.at = "rendering" /\ render.stack = <<>>
        /\ render' = [at |-> "done", out |-> render.out]
        /\ UNCHANGED <<engine, context, history>>

(* A climb that goes round, or a stack that only grows: the render never ends. *)
Endless == /\ render.at \in {"climbing", "rendering"}
           /\ history.climbs >= Cardinality(DOMAIN Sources) \/ Len(render.stack) >= MaxDepth

Overflow == /\ Endless
            /\ render' = [at |-> "overflowed"]
            /\ UNCHANGED <<engine, context, history>>

Contexts == {Null, Whole(0), Whole(2), Str(<<>>), Str(<<"<", "&">>)}
              \union {List(s) : s \in BoundedSeq(Items, 2)}

Init == /\ engine = [n \in {} |-> <<>>] /\ context \in Contexts
        /\ render = [at |-> "idle"] /\ history = [of |-> "", tangled |-> FALSE, climbs |-> 0, written |-> <<>>]

Works == Climb \/ Text \/ Output \/ If \/ For \/ Block \/ Include \/ Return \/ Done

Next == \/ Overflow \/ (~Endless /\ Works)
        \/ \E name \in DOMAIN Sources :
               Render(name) \/ \E source \in Sources[name] : Add(name, source) \/ RenderStr(source)

Spec == Init /\ [][Next]_rendering

-----------------------------------------------------------------------------------
(* Properties. *)

TypeOK == /\ DOMAIN engine \subseteq DOMAIN Sources
          /\ render.at \in {"idle", "climbing", "rendering", "done", "failed", "overflowed"}
          /\ "stack" \in DOMAIN render => Len(render.stack) <= MaxDepth

(* How a browser shows a text: every entity is the character it stands for. *)
Entity == ("lt;" :> "<") @@ ("amp;" :> "&")
Unescaped(s) ==
    LET Ends(i) == i \in DOMAIN s /\ i > 1 /\ s[i] \in DOMAIN Entity /\ s[i - 1] = "&"
    IN  FlattenSeq([i \in DOMAIN s |-> CASE Ends(i) -> <<Entity[s[i]]>>
                                         [] Ends(i + 1) -> <<>>
                                         [] OTHER -> <<s[i]>>])

ByHand(expr) == expr.op = "none" /\ "escape" \in ToSet(expr.filters)

(* The exception: escape does not tell the output that the work is done, so that what   *)
(* says escape and neither safe nor raw is escaped twice, and a reader sees the entity. *)
EscapedTwice(expr) == ByHand(expr) /\ ~Safe(expr)

(* A reader sees what an expression meant: it is escaped exactly once, by the engine or  *)
(* by its own escape filter, but for the exception, which shows one layer too many. Only *)
(* safe or raw without escape writes it as it is: nothing of the context gets into the   *)
(* page as markup by itself.                                                             *)
EscapedOnce ==
    \A i \in DOMAIN history.written :
        LET w == history.written[i]
            open == Safe(w.expr) /\ ~ByHand(w.expr)
            seen == Unescaped(w.text)
        IN  IF open THEN w.text = w.meant
            ELSE /\ "<" \notin ToSet(w.text)
                 /\ IF EscapedTwice(w.expr) THEN Unescaped(seen) = w.meant ELSE seen = w.meant

(* The names a template climbs to, itself first; none twice. *)
RECURSIVE Ancestors(_, _)
Ancestors(name, seen) ==
    IF name \notin DOMAIN engine \/ name \in ToSet(seen) THEN seen
    ELSE IF engine[name].extends = Nothing THEN Append(seen, name)
    ELSE Ancestors(engine[name].extends, Append(seen, name))

Defines(name, block) == \E i \in DOMAIN Blocks(engine[name].nodes) :
                            Blocks(engine[name].nodes)[i].name = block

(* A text says in its name which template and which block it stands in. When a          *)
(* template is rendered that includes nothing, a text of a block is written only if no *)
(* template below the one it stands in has that block too.                             *)
Includes == \E name \in DOMAIN engine : \E n \in Mentions(engine[name].nodes) : n.kind = "include"

MostDerivedWins ==
    render.at = "done" /\ history.of # "" /\ ~Includes =>
        LET chain == Ancestors(history.of, <<>>) IN
        \A i \in DOMAIN chain : \A block \in {"a", "c"} :
            (chain[i] \o "/" \o block) \in ToSet(render.out) =>
                \A j \in 1 .. i - 1 : ~Defines(chain[j], block)

(* Whatever the templates hold, a render ends, with a page or an error: unless a        *)
(* template is its own ancestor, includes itself or has a block within the same block. *)
(* Then it climbs for ever or exhausts the stack.                                      *)
RenderingEnds == render.at = "overflowed" => history.tangled
==================================================================================
