------------------------------- MODULE Application --------------------------------
(* App::serve of http/app.rs: the steps of a start, each of which may end it, the      *)
(* layers it wraps around the routes, the way of a request in through the layers and   *)
(* of its answer out again, and the graceful shutdown. The layers that are modelled    *)
(* are those that answer or change something: http/dev_mode.rs, studio/middleware.rs,  *)
(* request_id, security_headers and http_cache of http/middleware, http/panic.rs.      *)
EXTENDS Integers, SequencesExt, TLC

VARIABLES setup,     \* what is configured, and which step of the start fails
          stage,     \* how far serve has come
          request,   \* the request under way and the layer it is in
          response   \* the answer on its way out, or the last one

application == <<setup, stage, request, response>>

Options == {"dev", "studio", "rate_limit", "firewall", "csrf", "frontend", "http_cache"}

(* Kinds of requests, named for what becomes of them. "html" is a page that has a      *)
(* body, "api" an answer without one, "missing" matches no route. "protected" is a     *)
(* preflight of CORS for a path that the firewall protects.                            *)
Kinds == {"html", "api", "missing", "panics", "denied", "limited", "forged", "preflight",
          "protected", "large", "studio", "activation", "stream"}

Start == <<"hierarchy", "database", "secret", "mailer", "templates", "modules", "bundles", "bind">>

(* Steps whose failure only disables what they set up. *)
Optional == {"mailer", "templates"}

Silent == [by |-> "nobody", status |-> 0, html |-> FALSE, with |-> <<>>, cached |-> FALSE]

Init == /\ setup \in [on : SUBSET Options, fails : {"nothing"}]
                      \union [on : {{}}, fails : ToSet(Start)]
        /\ stage = [at |-> "starting", step |-> 1, up |-> {}]
        /\ request = [kind |-> "none", at |-> 0, way |-> "in", dev |-> FALSE]
        /\ response = Silent

(* One step of serve: what it set up, or the error that ends it. *)
Starts ==
    /\ stage.at = "starting" /\ stage.step <= Len(Start)
    /\ LET step == Start[stage.step] IN
       stage' = CASE setup.fails # step -> [stage EXCEPT !.step = @ + 1, !.up = @ \union {step}]
                  [] setup.fails = step /\ step \in Optional -> [stage EXCEPT !.step = @ + 1]
                  [] OTHER -> [stage EXCEPT !.at = "failed"]
    /\ UNCHANGED <<setup, request, response>>

Listens == /\ stage.at = "starting" /\ stage.step > Len(Start)
           /\ stage' = [stage EXCEPT !.at = "serving"]
           /\ UNCHANGED <<setup, request, response>>

-----------------------------------------------------------------------------------
(* The layers, from the outside in: each call of layer wraps those before it.          *)

Always == {"trace", "cors", "compression", "body_limit", "security_headers", "request_id",
           "catch_panic", "routes"}

Layered_PanicOutside ==
    <<"dev", "studio", "rate_limit", "firewall", "csrf", "trace", "catch_panic", "cors", "compression",
      "body_limit", "security_headers", "request_id", "toolbar", "http_cache", "routes">>

Layered ==
    <<"dev", "studio", "rate_limit", "firewall", "csrf", "trace", "cors", "compression",
      "body_limit", "security_headers", "request_id", "catch_panic", "toolbar", "http_cache", "routes">>

Present == Always \union setup.on \union (IF "studio" \in setup.on THEN {"toolbar"} ELSE {})

(* A layer that is not configured is not there: nothing happens in its place. *)
Here == Layered[request.at]
Works(layer) == Here = layer /\ layer \in Present

Accept(kind, dev) ==
    /\ stage.at = "serving" /\ request.kind = "none"
    /\ request' = [kind |-> kind, at |-> 1, way |-> "in", dev |-> dev /\ "dev" \in setup.on]
    /\ response' = Silent
    /\ UNCHANGED <<setup, stage>>

(* A layer that answers itself; the answer then passes only the layers outside of it.  *)
Answered(status, html) ==
    /\ response' = [by |-> Here, status |-> status, html |-> html, with |-> <<>>, cached |-> FALSE]
    /\ request' = [request EXCEPT !.way = "out", !.at = @ - 1]
    /\ UNCHANGED <<setup, stage>>

Inward == request.kind # "none" /\ request.way = "in"

Refusals == [dev |-> {"activation"}, rate_limit |-> {"limited"}, firewall |-> {"denied", "protected"},
             csrf |-> {"forged"}, cors |-> {"preflight", "protected"}, body_limit |-> {"large"}]

RefusedBy(layer, kind) == layer \in Present /\ layer \in DOMAIN Refusals /\ kind \in Refusals[layer]
Refuses == RefusedBy(Here, request.kind)

Status(kind) == CASE kind = "activation" -> 303 [] kind = "limited" -> 429
                  [] kind \in {"preflight", "protected"} -> IF Here = "firewall" THEN 401 ELSE 200
                  [] kind = "large" -> 413 [] OTHER -> 403

Stops == Inward /\ Refuses /\ Answered(Status(request.kind), FALSE)

(* /_studio is a router of its own, beside the one that the other layers wrap.         *)
Studio == Inward /\ Works("studio") /\ request.kind = "studio" /\ Answered(200, TRUE)

Passes == /\ Inward /\ ~Refuses /\ Here # "routes"
          /\ ~(Works("studio") /\ request.kind = "studio")
          /\ request' = [request EXCEPT !.at = @ + 1]
          /\ UNCHANGED <<setup, stage, response>>

(* The routes. A path that matches none goes to the frontend, if there is one.         *)
Unmatched == {"missing", "studio"}

Routes == /\ Inward /\ Here = "routes"
          /\ \/ request.kind = "html" /\ Answered(200, TRUE)
             \/ request.kind = "panics" /\ Answered(0, FALSE)
             \/ request.kind \in Unmatched /\ "frontend" \notin setup.on /\ Answered(404, FALSE)
             \/ /\ request.kind \in Unmatched /\ "frontend" \in setup.on
                /\ Answered(200, TRUE) \/ Answered(502, FALSE)
             \/ request.kind \notin Unmatched \union {"html", "panics"} /\ Answered(200, FALSE)

-----------------------------------------------------------------------------------
(* The way out. *)

Panicked == response.status = 0

(* render_toolbar into a page, for a request in debug mode: it carries Studio's token.  *)
Toolbar == Works("toolbar") /\ response.html /\ request.dev

Cacheable == Works("http_cache") /\ response.status = 200

Marking == {"cors", "compression", "security_headers", "request_id"}

(* What the layer makes of an answer; while a panic unwinds there is none yet. *)
Adds == [response EXCEPT
            !.status = IF Panicked /\ Here = "catch_panic" THEN 500 ELSE @,
            !.with = IF ~Panicked /\ (Here \in Marking \/ Toolbar) THEN Append(@, Here) ELSE @,
            !.cached = ~Toolbar /\ (@ \/ Cacheable)]

Outward == /\ request.way = "out" /\ request.at > 0
           /\ response' = Adds
           /\ request' = [request EXCEPT !.at = @ - 1]
           /\ UNCHANGED <<setup, stage>>

Sent == /\ request.way = "out" /\ request.at = 0 /\ request.kind # "none"
        /\ request.kind # "stream"
        /\ request' = [request EXCEPT !.kind = "none"]
        /\ UNCHANGED <<setup, stage, response>>

(* The body of a stream ends when its client leaves. *)
ClientLeaves == /\ request.way = "out" /\ request.at = 0 /\ request.kind = "stream"
                /\ request' = [request EXCEPT !.kind = "none"]
                /\ UNCHANGED <<setup, stage, response>>

-----------------------------------------------------------------------------------
(* shutdown_signal and with_graceful_shutdown: no new request, those under way finish. *)

Signal == /\ stage.at = "serving"
          /\ stage' = [stage EXCEPT !.at = "draining"]
          /\ UNCHANGED <<setup, request, response>>

Stopped == /\ stage.at = "draining" /\ request.kind = "none"
           /\ stage' = [stage EXCEPT !.at = "stopped"]
           /\ UNCHANGED <<setup, request, response>>

Handles == Stops \/ Studio \/ Passes \/ Routes \/ Outward \/ Sent

Next == \/ Starts \/ Listens \/ Handles \/ ClientLeaves \/ Signal \/ Stopped
        \/ \E kind \in Kinds, dev \in BOOLEAN : Accept(kind, dev)

Spec == Init /\ [][Next]_application

-----------------------------------------------------------------------------------
(* Properties. *)

TypeOK == /\ stage.at \in {"starting", "failed", "serving", "draining", "stopped"}
          /\ request.at \in 0 .. Len(Layered)
          /\ request.way \in {"in", "out"}

Complete(a) == {"request_id", "security_headers"} \subseteq ToSet(a.with)

Outside == response.by # "nobody" /\ request.way = "out" /\ request.at = 0

Gate == [activation |-> "dev", limited |-> "rate_limit", denied |-> "firewall", protected |-> "cors",
         preflight |-> "cors", large |-> "body_limit", forged |-> "csrf"]

(* "the 500 it builds still goes out through request-id, security headers, CORS and     *)
(* tracing": whatever a handler does, a panic too, the client gets a whole answer. The  *)
(* toolbar and with it Studio's token goes into pages of debug sessions only, before    *)
(* the page is compressed, and into no page that a cache may keep. What reaches a route *)
(* or the frontend has been through the gates that are configured, and only a server    *)
(* that was set up completely, but for mail and templates, takes requests at all.       *)
AnswersAreWhole ==
    Outside =>
        /\ ToSet(Start) \ Optional \subseteq stage.up
        /\ response.by = "routes" =>
               /\ response.status # 0
               /\ Complete(response) /\ "cors" \in ToSet(response.with)
               /\ request.kind \in DOMAIN Gate => Gate[request.kind] \notin Present
        /\ "toolbar" \in ToSet(response.with) =>
               request.dev /\ ~response.cached /\ Head(response.with) = "toolbar"
==================================================================================
