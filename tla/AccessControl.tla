------------------------------ MODULE AccessControl -------------------------------
(* Who may reach a handler: the firewall of security/firewall.rs, the path it judges   *)
(* (util/http.rs), AuthGuard and its middleware (security/guard.rs), the tokens of     *)
(* security/jwt.rs and the checks that the controller macro of karbon-macros writes    *)
(* into a handler. A path is a sequence of bytes, each as it is or escaped (%XX). A    *)
(* handler that serves files decodes the path on its own. A pattern of a rule is the   *)
(* beginning of the paths it matches (a regex starting with ^).                        *)
EXTENDS SequencesExt, FiniteSetsExt

CONSTANTS Roles,    \* names of roles
          Grants,   \* what RoleHierarchy resolves: role -> the roles that it includes
          MaxPath,  \* bound: bytes of a path after its leading /
          None      \* no role, no user

AccessAssumption == None \notin Roles

VARIABLES app,      \* the key of the tokens, the rules of the firewall, what serve came to
          request,  \* the path as it is on the wire, and the token
          route     \* the handler's declaration, and how far the request has come

access == <<app, request, route>>

Bytes == {"/", "\\", ".", "a"}
Plain(b) == <<b, FALSE>>
Escape(b) == <<b, TRUE>>
BadEscape == <<"", TRUE>>   \* not hexadecimal, a NUL, or not UTF-8 when it is decoded

RawPaths == {<<Plain("/")>> \o s : s \in SeqOf({Plain(b) : b \in Bytes} \union
                                              {Escape(b) : b \in Bytes} \union {BadEscape}, MaxPath)}

(* A token: the key it is signed with, whether its time has passed, its roles. "none"  *)
(* is no Authorization, or one that is no Bearer token.                                *)
Token(key, fresh, roles) == [key |-> key, fresh |-> fresh, roles |-> roles]
Given == {Token("none", TRUE, {})} \union {Token("app", TRUE, {r}) : r \in Roles}
Forged == {Token(k, TRUE, {r}) : k \in {"empty", "other"}, r \in Roles}

Patterns == {<<"/", "a">>, <<"/">>}
Rule(pattern, public, roles) == [pattern |-> pattern, public |-> public, roles |-> roles]
RulesOf(pattern) == {Rule(pattern, TRUE, {}), Rule(pattern, FALSE, {})}
                        \union {Rule(pattern, FALSE, {r}) : r \in Roles}

Init == /\ app \in [at : {"starting"}, secret : {"empty", "weak", "strong"}, production : BOOLEAN,
                    deny : BOOLEAN,
                    rules : {<<>>} \union {<<r>> : r \in RulesOf(<<"/", "a">>)}
                              \union {<<r, s>> : r \in RulesOf(<<"/", "a">>), s \in RulesOf(<<"/">>)}]
        /\ app.deny => Len(app.rules) < 2   \* a rule for / leaves nothing to the default
        /\ request = [path |-> <<>>] /\ route = [at |-> "none"]

(* App::serve: a secret that is missing or weak is refused in production. *)
Serve == /\ app.at = "starting"
         /\ app' = IF app.secret # "strong" /\ app.production THEN [at |-> "refused"]
                   ELSE [at |-> "running", deny |-> app.deny, rules |-> app.rules,
                         key |-> IF app.secret = "empty" THEN "empty" ELSE "app"]
         /\ UNCHANGED <<request, route>>

Receive(path, token) == /\ app.at = "running" /\ request.path = <<>>
                        /\ request' = [path |-> path, token |-> token]
                        /\ route' = [at |-> "firewall"]
                        /\ UNCHANGED app

Expires == /\ route.at \in {"routing", "handler"} /\ request.token.fresh
           /\ request' = [request EXCEPT !.token.fresh = FALSE]
           /\ UNCHANGED <<app, route>>

-----------------------------------------------------------------------------------
(* canonical_path. *)

Decoded(path) == [i \in DOMAIN path |-> path[i][1]]

(* The parts between the bytes that are marked as separators. *)
Parts(marked) ==
    FoldLeft(LAMBDA parts, m : IF m.separates THEN Append(parts, <<>>)
                               ELSE Append(Front(parts), Append(Last(parts), m.byte)),
             <<<<>>>>, marked)

Split(bytes, separators) ==
    Parts([i \in DOMAIN bytes |-> [byte |-> bytes[i], separates |-> bytes[i] \in separators]])

Named(parts) == SelectSeq(parts, LAMBDA p : p \notin {<<>>, <<".">>})

(* Segments joined again, with the slash at the end if there was one. *)
Join(segments, slash) ==
    (IF segments = <<>> THEN <<"/">> ELSE FlattenSeq([i \in DOMAIN segments |-> <<"/">> \o segments[i]]))
        \o (IF slash /\ segments # <<>> THEN <<"/">> ELSE <<>>)

Unsafe(path) == \/ BadEscape \in ToSet(path)
                \/ {Escape("/"), Escape("\\")} \intersect ToSet(path) # {}
                \/ <<".", ".">> \in ToSet(Split(Decoded(path), {"/", "\\"}))

canonical_path_Raw(path) == Decoded(SelectSeq(path, LAMBDA b : ~b[2]))

(* Defined for a path that is not Unsafe; the others are refused. *)
canonical_path(path) == Join(Named(Split(Decoded(path), {"/", "\\"})), Last(Decoded(path)) = "/")

-----------------------------------------------------------------------------------
(* JwtManager::verify, AuthGuard, RoleHierarchy::has_role. *)

(* With an empty secret every token is refused, also one signed with the empty key. *)
verify(token) == app.key # "empty" /\ token.key = app.key /\ token.fresh

has_role(token, role) == \E r \in token.roles : role \in Grants[r]

(* AccessControl::decision: the first rule that matches. *)
Matching(path) == {i \in DOMAIN app.rules : IsPrefix(app.rules[i].pattern, path)}

decision(path) ==
    IF Matching(path) = {} THEN [kind |-> IF app.deny THEN "deny" ELSE "allow"]
    ELSE LET rule == app.rules[Min(Matching(path))]
         IN  IF rule.public THEN [kind |-> "allow"] ELSE [kind |-> "require", roles |-> rule.roles]

Answers(status) == route' = [at |-> "answered", status |-> status] /\ UNCHANGED <<app, request>>

(* firewall::enforce. *)
Enforce ==
    /\ route.at = "firewall"
    /\ IF Unsafe(request.path) THEN Answers(400)
       ELSE LET d == decision(canonical_path(request.path)) IN
            CASE d.kind = "deny" -> Answers(403)
              [] d.kind = "require" /\ ~verify(request.token) -> Answers(401)
              [] /\ d.kind = "require" /\ verify(request.token) /\ d.roles # {}
                 /\ ~\E r \in d.roles : has_role(request.token, r) -> Answers(403)
              [] OTHER -> route' = [at |-> "routing"] /\ UNCHANGED <<app, request>>

-----------------------------------------------------------------------------------
(* The controller macro. *)

(* A declaration: the roles of the controller, of the method and of a middleware on    *)
(* the group, whether the method's is a literal or a constant, and whether the handler  *)
(* has an AuthGuard and the path parameter is valid.                                    *)
Declarations == {d \in [controller : Roles \union {None}, method : Roles \union {None},
                        literal : BOOLEAN, group : Roles \union {None},
                        guard : BOOLEAN, valid : BOOLEAN] :
                    /\ d.method = None => d.literal
                    /\ Cardinality({d.controller, d.method, d.group} \ {None}) <= 1 \/ d.group = None}

(* The role of the method stands in for that of the controller, if it is a literal: of  *)
(* any other the macro reads nothing, and takes the attribute away.                     *)
effective_role_Controller(d) == IF d.controller # None THEN d.controller ELSE d.method
effective_role(d) == IF d.method # None /\ d.literal THEN d.method ELSE d.controller

(* A role without an AuthGuard to check it with is a compile error. *)
Compiles(d) == effective_role(d) # None => d.guard

(* The router finds the handler, behind the middleware require_role of its group. *)
Routed(d) == /\ route.at = "routing" /\ Compiles(d)
             /\ CASE d.group # None /\ ~verify(request.token) -> Answers(401)
                  [] d.group # None /\ verify(request.token) /\ ~has_role(request.token, d.group) ->
                         Answers(403)
                  [] OTHER -> route' = [at |-> "handler", declared |-> d] /\ UNCHANGED <<app, request>>

NotFound == route.at = "routing" /\ Answers(404)

(* The extractor verifies the token again; then the role, then the path parameters. *)
Handler ==
    /\ route.at = "handler"
    /\ LET d == route.declared IN
       IF d.guard /\ ~verify(request.token) THEN Answers(401)
       ELSE IF /\ d.guard /\ effective_role(d) # None
               /\ ~has_role(request.token, effective_role(d)) THEN Answers(403)
       ELSE IF ~d.valid THEN Answers(400)
       ELSE /\ route' = [at |-> "answered", status |-> 200, declared |-> d]
            /\ UNCHANGED <<app, request>>

Next == \/ Serve \/ Enforce \/ Expires \/ NotFound \/ Handler
        \/ \E path \in RawPaths, token \in Given : Receive(path, token)
        \/ \E token \in Forged : Receive(<<Plain("/"), Plain("a")>>, token)
        \/ \E d \in Declarations : Routed(d)

Spec == Init /\ [][Next]_access

-----------------------------------------------------------------------------------
(* Properties. *)

TypeOK == /\ app.at \in {"starting", "refused", "running"}
          /\ route.at \in {"none", "firewall", "routing", "handler", "answered"}
          /\ route.at = "answered" => route.status \in {200, 400, 401, 403, 404}

(* The file a handler finds: it decodes the path once, splits it where the system      *)
(* splits and leaves out what means nothing; it serves nothing above its root.         *)
ServedPaths(separators) ==
    LET parts == Split(Decoded(request.path), separators)
    IN  IF BadEscape \in ToSet(request.path) \/ <<".", ".">> \in ToSet(parts) THEN {}
        ELSE {Join(Named(parts), Last(Decoded(request.path)) = "/")}

(* The firewall reads a backslash as a separator, which it is not on every system.      *)
Backslashed == "\\" \in ToSet(Decoded(request.path))

(* What a declaration asks for. A role of the method that is not a literal is not read. *)
Unread(d) == d.method # None /\ ~d.literal
AsksFor(d) == {d.group, IF d.method = None \/ Unread(d) THEN d.controller ELSE d.method} \ {None}

Holds(roles) == \E r \in request.token.roles : Grants[r] \intersect roles # {}
Genuine == app.key = "app" /\ request.token.key = "app"

(* Whatever way the path is written, a request that reaches a handler had what the     *)
(* first rule for the file behind that path asks for, and the role that the method,    *)
(* else the controller, and the group declare. Two exceptions: where a backslash is a   *)
(* byte like others, a path with one was judged as the path with a slash in its place; *)
(* and a role given as a constant counts for nothing.                                   *)
ReachesWhatItMay ==
    route.at = "answered" /\ route.status = 200 =>
        /\ \A separators \in {{"/"}, {"/", "\\"}} : \A path \in ServedPaths(separators) :
               \/ Backslashed /\ separators = {"/"}
               \/ LET d == decision(path) IN
                  /\ d.kind # "deny"
                  /\ d.kind = "require" => Genuine /\ (d.roles = {} \/ Holds(d.roles))
        /\ \A role \in AsksFor(route.declared) : Genuine /\ Holds({role})
==================================================================================
