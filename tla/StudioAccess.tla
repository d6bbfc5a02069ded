-------------------------------- MODULE StudioAccess -------------------------------
(* Who sees Studio, and pages with its toolbar: http/dev_mode.rs gives a browser a     *)
(* debug session, studio/middleware.rs puts the toolbar with the token into its pages, *)
(* and studio/handlers.rs lets a request in. The browsers, the networks they move to   *)
(* and a shared cache in front of the server are the environment.                      *)
EXTENDS Integers, FiniteSets, TLC

CONSTANTS Browsers,     \* people: any of them may be told the debug key
          Ips,          \* networks, behind a reverse proxy on the server's host
          Allowed,      \* KARBON_DEBUG_IPS, as it may be set
          SessionLife,  \* SESSION_TTL_SECS, in ticks
          MaxTime,      \* bound: ticks
          MaxStarts     \* bound: starts of the server

AccessAssumption == /\ Allowed \subseteq SUBSET Ips /\ SessionLife \in Nat
                    /\ MaxTime \in Nat /\ MaxStarts \in Nat \ {0}

VARIABLES server,    \* how it was built and configured, and which start of it runs
          browsers,  \* browser -> its network, its session, the token it knows, and as a
                     \* history the starts in which it ran in debug mode
          clock,
          cached,    \* the page as the shared cache has it, or none
          answer,    \* what the last request to Studio got, when it was let in
          grants     \* history: the sessions that were opened with the key, ip and time

access == <<server, browsers, clock, cached, answer, grants>>

-----------------------------------------------------------------------------------
(* A token is the number of the start that drew it; 0 is none. *)

NoToken == 0
NoCookie == [exp |-> -1, ip |-> "none"]
NoPage == [token |-> NoToken, there |-> FALSE]

(* A request that a browser makes, with a token in its query, or in the cookie that the *)
(* dashboard gave it, or none.                                                         *)
Request(b, token) == [token |-> token, ip |-> browsers[b].ip, session |-> browsers[b].session]

ip_allowed(ip) == ip \in server.allowed

(* History: a session was opened with the key on this network, an allowed one, no       *)
(* longer ago than a session lives.                                                    *)
Granted(ip) == /\ ip_allowed(ip)
               /\ \E grant \in grants : grant[1] = ip /\ clock <= grant[2] + SessionLife

(* What Studio lets in, with what the properties ask of the request: whether it showed *)
(* the token of this start, and whether a session was granted to its network.          *)
Answer(r, kind) == [kind |-> kind, shown |-> r.token = server.start, granted |-> Granted(r.ip)]
NoAnswer == [kind |-> "none", shown |-> FALSE, granted |-> FALSE]

session_cookie(ip) == [exp |-> clock + SessionLife, ip |-> ip]

(* The signature holds: a cookie that is changed fails it. *)
cookie_valid_AnyIp(cookie, ip) == cookie # NoCookie /\ clock <= cookie.exp /\ ip_allowed(ip)
cookie_valid(cookie, ip) == /\ cookie # NoCookie /\ clock <= cookie.exp
                            /\ cookie.ip = ip /\ ip_allowed(ip)

always_on == ~server.release

(* The middleware is there in a debug build, and where a key is configured. *)
active(r) == IF always_on \/ server.key THEN always_on \/ cookie_valid(r.session, r.ip) ELSE FALSE

Carries(r, token) == token # NoToken /\ token = r.token

(* studio_guard. Behind the proxy every peer is the loopback interface. *)
Guard(r) == \/ Carries(r, server.start)
            \/ active(r)
            \/ ~server.release   \* and the peer is a loopback address

studio_dev_open == server.env = "development"

check_token_Skipped(r) == TRUE
check_token(r) == studio_dev_open \/ Carries(r, server.start)

(* studio_toolbar_middleware: the page of an active request carries the token and may  *)
(* not be kept by a cache.                                                             *)
Toolbar_Public(active_) == [token |-> IF active_ THEN server.start ELSE NoToken, public |-> TRUE]
Toolbar(active_) == [token |-> IF active_ THEN server.start ELSE NoToken, public |-> ~active_]

-----------------------------------------------------------------------------------
(* One request through dev_mode::run and what it wraps. *)

Learns(b, token, debug) ==
    LET knows == IF token = NoToken THEN browsers[b].token ELSE token
        was == IF debug THEN browsers[b].was \union {server.start} ELSE browsers[b].was
    IN  [browsers EXCEPT ![b] = [ip |-> browsers[b].ip, session |-> browsers[b].session,
                                 token |-> knows, was |-> was]]

(* activation_action, handle_activation: a redirect without the parameter. *)
Activate(b, right) ==
    /\ always_on \/ server.key
    /\ LET r == Request(b, NoToken)
           opens == right /\ server.key /\ ip_allowed(r.ip)
       IN  /\ browsers' = IF opens THEN [browsers EXCEPT ![b].session = session_cookie(r.ip)] ELSE browsers
           /\ grants' = IF opens THEN grants \union {<<r.ip, clock>>} ELSE grants
           /\ answer' = NoAnswer
    /\ UNCHANGED <<server, clock, cached>>

Deactivate(b) ==
    /\ always_on \/ server.key
    /\ browsers[b].session # NoCookie
    /\ browsers' = [browsers EXCEPT ![b].session = NoCookie]
    /\ answer' = NoAnswer
    /\ UNCHANGED <<server, clock, cached, grants>>

(* A page of the application, which it lets caches keep. *)
VisitPage(b) ==
    /\ LET r == Request(b, NoToken)
           page == Toolbar(active(r))
       IN  /\ answer' = NoAnswer
           /\ browsers' = Learns(b, page.token, active(r))
           /\ cached' = IF page.public THEN [token |-> page.token, there |-> TRUE] ELSE cached
    /\ UNCHANGED <<server, clock, grants>>

(* The shared cache answers in place of the server. *)
VisitCached(b) == /\ cached.there
                  /\ browsers' = Learns(b, cached.token, FALSE)
                  /\ UNCHANGED <<server, clock, cached, answer, grants>>

(* studio_guard, then the handler's own check_token; the dashboard sets the cookie and *)
(* holds the token; the terminal runs only where the environment is development.       *)
VisitStudio(b, path, token) ==
    /\ server.mounted
    /\ LET r == Request(b, token)
           terminal == path = "terminal"
       IN  IF Guard(r) /\ check_token(r) /\ (terminal => studio_dev_open)
           THEN /\ answer' = Answer(r, IF terminal THEN "terminal" ELSE "studio")
                /\ browsers' = Learns(b, IF path = "dashboard" THEN server.start ELSE NoToken, active(r))
           ELSE answer' = NoAnswer /\ UNCHANGED browsers   \* 401, or 403 of the terminal
    /\ UNCHANGED <<server, clock, cached, grants>>

-----------------------------------------------------------------------------------
(* The environment. *)

Move(b, ip) == /\ browsers[b].ip # ip /\ browsers' = [browsers EXCEPT ![b].ip = ip]
               /\ UNCHANGED <<server, clock, cached, answer, grants>>

(* A cookie that is copied from one browser to another. *)
Copy(b, c) == /\ browsers[b].session # browsers[c].session
              /\ browsers' = [browsers EXCEPT ![c].session = browsers[b].session]
              /\ UNCHANGED <<server, clock, cached, answer, grants>>

Tick == clock < MaxTime /\ clock' = clock + 1 /\ UNCHANGED <<server, browsers, cached, answer, grants>>

(* A new start draws a new token; the key that signs sessions stays. *)
Restart == /\ server.start < MaxStarts
           /\ server' = [server EXCEPT !.start = @ + 1]
           /\ answer' = NoAnswer
           /\ UNCHANGED <<browsers, clock, cached, grants>>

Init == /\ \E release, key, chosen \in BOOLEAN, env \in {"development", "production"}, ips \in Allowed :
               server = [release |-> release, key |-> key, env |-> env, start |-> 1, allowed |-> ips,
                         mounted |-> ~release \/ chosen \/ key]
        /\ browsers \in {[b \in Browsers |-> [ip |-> ip, session |-> NoCookie, token |-> NoToken, was |-> {}]] : ip \in server.allowed}
        /\ clock = 0 /\ cached = NoPage /\ answer = NoAnswer /\ grants = {}

Next == \/ Tick \/ Restart
        \/ \E b \in Browsers :
               \/ \E right \in BOOLEAN : Activate(b, right)
               \/ Deactivate(b) \/ VisitPage(b) \/ VisitCached(b)
               \/ \E path \in {"dashboard", "api", "terminal"} :
                      \E token \in {NoToken, browsers[b].token} : VisitStudio(b, path, token)
               \/ \E ip \in Ips : Move(b, ip)
               \/ \E c \in Browsers : Copy(b, c)

Spec == Init /\ [][Next]_access

-----------------------------------------------------------------------------------
(* Properties. *)

TypeOK == /\ clock \in 0 .. MaxTime
          /\ \A b \in Browsers : browsers[b].ip \in Ips /\ browsers[b].token \in 0 .. MaxStarts
          /\ answer.kind \in {"none", "studio", "terminal"}

(* A request runs in debug mode only in a debug build, or in a session that is granted *)
(* to its network and alive: a cookie that is copied or carried to another network is  *)
(* worth nothing, whatever was restarted in between.                                   *)
SessionsAreEarned ==
    \A b \in Browsers :
        server.release /\ active(Request(b, NoToken)) => Granted(browsers[b].ip)

(* Studio answers only who shows the token of this start; where the environment is     *)
(* development, a release also who is in a session at that moment and a debug build    *)
(* everybody. The terminal answers nobody outside of development. In a release only    *)
(* those know the token of a start who were in a session during it, and a shared cache *)
(* has none.                                                                           *)
StudioIsGuarded ==
    /\ answer.kind \in {"studio", "terminal"} =>
           \/ answer.shown
           \/ /\ server.env = "development"
              /\ server.release => answer.granted
    /\ answer.kind = "terminal" => server.env = "development"
    /\ server.release =>
           /\ cached.token = NoToken
           /\ \A b \in Browsers : browsers[b].token \in browsers[b].was \union {NoToken}
==================================================================================
