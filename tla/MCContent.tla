-------------------------------- MODULE MCContent ---------------------------------
(* What a site reads, shows and sends, for TLC: the file of roles, templates as they are *)
(* read and as they are rendered, and mails. They share no state, so "part" says which   *)
(* of them a behaviour is about; the variables u1 to u6 stand for those of the part,     *)
(* when it is not the renderer.                                                          *)
EXTENDS TemplateRenderer

CONSTANTS p1, p2   \* two handles of the template engine

VARIABLES part, u1, u2, u3, u4, u5, u6

state == <<u1, u2, u3, u4, u5, u6>>

Symmetry == Permutations({p1, p2})

Parser == INSTANCE TemplateParser WITH
              reading <- u1, input <- u2, parser <- u3,
              MaxChars <- 5, MaxTokens <- 5, MaxExpr <- 5

Hierarchy == INSTANCE RoleHierarchy WITH
                 files <- u1, lines <- u2, parser <- u3, search <- u4, app <- u5,
                 Roles <- {"a", "b", "c"}, MaxLines <- 3, MAX_ROLES <- 3, MAX_CHILDREN <- 2

Mails == INSTANCE Mailing WITH
             sender <- u1, builder <- u2, disk <- u3, engines <- u4, sent <- u5, asked <- u6,
             Handles <- {p1, p2}, MaxCalls <- 4, MaxEdits <- 2, MaxLoads <- 1

ASSUME InstanceAssumptions ==
    Parser!ParserAssumption /\ Hierarchy!RolesAssumption /\ Mails!MailAssumption

-----------------------------------------------------------------------------------
(* Templates to render: a base with blocks inside blocks, pages that extend it,          *)
(* themselves or nothing, and a part that is included. A text names the template and the *)
(* block it stands in.                                                                   *)

X == Path("x")
Plain(filters) == Expr(X, filters, "none", Null)

T(name, block) == Tree!Token("text", name \o "/" \o block, Plain(<<>>), TRUE)
Out(expr) == Tree!Token("out", "", expr, TRUE)
With(kind, expr) == Tree!Token(kind, "", expr, TRUE)
Tag(kind) == With(kind, Plain(<<>>))
Named(kind, name) == Tree!Token(kind, name, Plain(<<>>), TRUE)
BlockOf(block, tokens) == <<Named("block", block)>> \o tokens \o <<Tag("endblock")>>
Extends(name) == Named("extends", name)
Inc(name) == Named("include", name)

If1 == <<With("if", Expr(X, <<>>, "==", Whole(2))), T("base", "if"),
         With("elif", Expr(X, <<"length">>, ">", Whole(0))),
         Out(Plain(<<>>)), Out(Plain(<<"escape">>)), Out(Plain(<<"escape", "safe">>)),
         Tag("else"), Out(Plain(<<"default", "escape">>)), Tag("endif")>>

(* for item in x, with a look at the loop and at the list around it. *)
Of(key, filters) == Expr(Path(key), filters, "none", Null)
Loop == <<Named("for", "item"), Out(Of("item", <<"upper">>)), Out(Of("loop.index", <<>>)),
          With("if", Of("loop.last", <<>>)), T("base", "last"), Out(Plain(<<"join">>)), Tag("endif"),
          Tag("endfor")>>

MCSources ==
    ("base" :> {<<T("base", "")>> \o BlockOf("a", <<T("base", "a")>> \o BlockOf("c", <<T("base", "c")>>)),
                BlockOf("a", <<Inc("part")>>) \o BlockOf("c", Loop),
                If1})
      @@ ("page" :> {<<Tag("blank"), Extends("base")>> \o BlockOf("a", <<T("page", "a")>>),
                     <<Extends("base")>> \o BlockOf("c", <<T("page", "c"), Out(Plain(<<"join", "safe">>))>>),
                     <<Extends("page")>>,
                     <<Extends("base")>> \o BlockOf("a", BlockOf("a", <<T("page", "a")>>)),
                     <<Tag("endif")>>,
                     Loop \o BlockOf("a", <<T("page", "a")>>) \o BlockOf("a", <<T("page", "")>>)})
      @@ ("part" :> {<<Extends("page")>> \o BlockOf("c", <<T("part", "c")>>),
                     <<Inc("page"), Out(Expr(X, <<>>, "==", Whole(2)))>>,
                     <<Extends("gone")>>})

MCItems == {Str(<<"<">>), Whole(2)}

-----------------------------------------------------------------------------------

(* What a part has no variable for. *)
No4 == u4 = 0
No56 == u5 = 0 /\ u6 = 0
NoPart == u1 = 0 /\ u2 = 0 /\ u3 = 0 /\ No4 /\ No56
NoRendering == engine = 0 /\ context = 0 /\ render = [at |-> "none"] /\ history = 0

MCInit == \/ part = "rendering" /\ Init /\ NoPart
          \/ /\ NoRendering
             /\ \/ part = "reading" /\ Parser!Init /\ No4 /\ No56
                \/ part = "roles" /\ Hierarchy!Init /\ u6 = 0
                \/ part = "mail" /\ Mails!Init

MCNext == \/ part = "rendering" /\ Next /\ UNCHANGED <<part, state>>
          \/ /\ UNCHANGED <<part, rendering>>
             /\ \/ part = "reading" /\ Parser!Next /\ UNCHANGED <<u4, u5, u6>>
                \/ part = "roles" /\ Hierarchy!Next /\ UNCHANGED u6
                \/ part = "mail" /\ Mails!Next

MCSpec == MCInit /\ [][MCNext]_<<part, rendering, state>>

-----------------------------------------------------------------------------------

(* An application runs with the roles its file declares, line for line and without     *)
(* cycles, and grants what can be reached: security/role_hierarchy.rs and its readers. *)
RolesAreSound ==
    part = "roles" => Hierarchy!TypeOK /\ Hierarchy!FileIsTheHierarchy /\ Hierarchy!GrantsTheReachable

(* A template is read whole and as it stands, or refused: its characters, its tags and  *)
(* its expressions (template/native.rs).                                                *)
TemplatesAreReadWhole ==
    part = "reading" => /\ Parser!TypeOK /\ Parser!LexerKeepsAll
                        /\ Parser!TreeIsTheText /\ Parser!ExpressionIsTheText

(* A page is escaped once, its blocks are those of the most derived template, and it    *)
(* ends unless its templates are entangled (template/native.rs).                        *)
PagesAreSound == part = "rendering" => TypeOK /\ EscapedOnce /\ MostDerivedWins /\ RenderingEnds

(* A mail is what its calls asked for, rendered from one reading of the templates       *)
(* (mail/mailer.rs, template/engine.rs).                                                *)
MailIsWhole == part = "mail" => Mails!TypeOK /\ Mails!MailSaysWhatWasAsked /\ Mails!MailIsOfOneReading
==================================================================================
