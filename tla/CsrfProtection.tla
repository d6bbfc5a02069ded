------------------------------ MODULE CsrfProtection ------------------------------
(* The CSRF middleware of http/middleware/csrf.rs with a browser in front of it. The   *)
(* server keeps nothing: the token lives in the browser's cookie, is read by a page    *)
(* and comes back in a header, while other requests of the same browser are under way. *)
EXTENDS Integers, FiniteSets

CONSTANTS MaxTokens,  \* bound: tokens that are made
          MaxFlight,  \* bound: requests of the browser at once
          None

VARIABLES jar,      \* the browser's csrf_token cookie
          page,     \* the token an open page has read, and whether it may since be another
          flight,   \* requests and answers under way
          made,     \* tokens made so far
          setting,  \* how the application is deployed, whether a Host gets there (over
                    \* HTTP/1.0 and HTTP/2 there is none), and CORS_ORIGINS
          verdict   \* the last unsafe request, and whether it was let through

csrf == <<jar, page, flight, made, setting, verdict>>

(* Hosts; the application is reached as "public", a proxy calls it "upstream".         *)
Hosts == {"public", "partner", "stranger"}

CsrfAssumption == /\ MaxTokens \in Nat /\ MaxFlight \in Nat
                  /\ None \notin {"upstream"} \union Hosts \union [scheme : {"http", "https"}, host : Hosts]

Proxies == {"none", "trusted", "untrusted"}

(* CORS_ORIGINS: entries with and without a scheme, and the wildcard. *)
Origin(scheme, host) == [scheme |-> scheme, host |-> host]
Listings == {{}, {Origin("https", "partner")}, {Origin(None, "partner")}, {Origin(None, "*")}}

Init == /\ jar = None /\ page = [token |-> None, raced |-> FALSE]
        /\ flight = {} /\ made = 0 /\ verdict = [on |-> FALSE]
        /\ setting \in [proxy : Proxies, named : BOOLEAN, allowed : Listings]

-----------------------------------------------------------------------------------
(* origin_is_accepted, public_host, allowlist_covers. *)

(* X-Forwarded-Host counts only from a trusted proxy; a proxy rewrites Host.           *)
public_host(req) == IF setting.proxy = "trusted" /\ req.forwarded # None THEN req.forwarded
                    ELSE IF ~setting.named THEN None
                    ELSE IF setting.proxy = "none" THEN req.host ELSE "upstream"

(* The wildcard covers nothing; an entry without a scheme covers every scheme.         *)
allowlist_covers(entry, source) ==
    entry.host # "*" /\ entry.host = source.host /\ entry.scheme \in {None, source.scheme}

(* No Origin and no Referer is accepted, nor is anything refused where no host is known. *)
origin_is_accepted(req) ==
    \/ req.origin = None
    \/ \E entry \in setting.allowed : allowlist_covers(entry, req.origin)
    \/ public_host(req) \in {None, req.origin.host}

(* A request with a Bearer token is exempt. Then the origin, then the double submit.   *)
Allowed(req) == \/ req.bearer
                \/ /\ origin_is_accepted(req)
                   /\ req.cookie # None => req.header = req.cookie

-----------------------------------------------------------------------------------
(* The browser. A cookie of SameSite=Strict stays away from the requests of other sites. *)

Get == /\ Cardinality(flight) < MaxFlight
       /\ \E id \in 1 .. MaxFlight :
             /\ \A r \in flight : r.id # id
             /\ flight' = flight \union {[id |-> id, kind |-> "get", cookie |-> jar]}
       /\ UNCHANGED <<jar, page, made, setting, verdict>>

SetsCookie_Always(req) == TRUE

SetsCookie(req) == req.cookie = None

(* csrf_protection_with, safe methods: a token unless the browser sent one.            *)
Answer(req) ==
    /\ req.kind = "get"
    /\ SetsCookie(req) => made < MaxTokens
    /\ flight' = (flight \ {req})
                    \union {[id |-> req.id, kind |-> "answer",
                             cookie |-> IF SetsCookie(req) THEN made + 1 ELSE None]}
    /\ made' = IF SetsCookie(req) THEN made + 1 ELSE made
    /\ UNCHANGED <<jar, page, setting, verdict>>

(* An application may set a token of its own: the middleware adds none.                *)
AnswerWithOwn(req) ==
    /\ req.kind = "get" /\ SetsCookie(req) /\ made < MaxTokens
    /\ made' = made + 1
    /\ flight' = (flight \ {req}) \union {[id |-> req.id, kind |-> "answer", cookie |-> made + 1]}
    /\ UNCHANGED <<jar, page, setting, verdict>>

Arrives(resp) == /\ resp.kind = "answer"
                 /\ jar' = IF resp.cookie # None THEN resp.cookie ELSE jar
                 /\ flight' = flight \ {resp}
                 /\ UNCHANGED <<page, made, setting, verdict>>

(* A script of the page reads the cookie. Requests that left without one may replace it. *)
Cookieless == \E r \in flight : IF r.kind = "get" THEN r.cookie = None ELSE r.cookie # None

Reads == /\ jar # None
         /\ page' = [token |-> jar, raced |-> Cookieless]
         /\ UNCHANGED <<jar, flight, made, setting, verdict>>

(* After a day. The cookie is gone, and the next answer brings another.                *)
Expires == /\ jar # None
           /\ jar' = None /\ page' = [page EXCEPT !.raced = TRUE]
           /\ UNCHANGED <<flight, made, setting, verdict>>

Request(site, origin, cookie, header, bearer, forwarded) ==
    [site |-> site, origin |-> origin, cookie |-> cookie, header |-> header, bearer |-> bearer,
     host |-> "public", forwarded |-> forwarded]

Judges(req) == /\ verdict' = [on |-> TRUE, req |-> req, allowed |-> Allowed(req),
                              raced |-> page.raced]
               /\ UNCHANGED <<jar, page, flight, made, setting>>

(* The page submits its form: the browser adds the cookie it has by now.               *)
Submit == /\ page.token # None
          /\ \E origin \in {None, Origin("https", "public")} :
                Judges(Request("public", origin, jar, page.token, FALSE, "public"))

(* Another site sends a form: the browser says whose it is and keeps the cookie.       *)
CrossSite(host) == /\ host # "public"
                   /\ Judges(Request(host, Origin("https", host), None, None, FALSE, "public"))

(* A client that is no browser: a Bearer token, or forged headers towards the server.  *)
Direct == \E forwarded \in Hosts, bearer \in BOOLEAN :
              /\ setting.proxy # "trusted"
              /\ Judges(Request("stranger", Origin("http", "stranger"), None, None, bearer, forwarded))

Next == \/ Get \/ Reads \/ Expires \/ Submit \/ Direct
        \/ \E r \in flight : Answer(r) \/ AnswerWithOwn(r) \/ Arrives(r)
        \/ \E host \in Hosts : CrossSite(host)

Spec == Init /\ [][Next]_csrf

-----------------------------------------------------------------------------------
(* Properties. *)

TypeOK == /\ made \in 0 .. MaxTokens
          /\ jar \in 1 .. MaxTokens \union {None}
          /\ \A r \in flight : r.kind \in {"get", "answer"} /\ r.cookie \in 1 .. MaxTokens \union {None}

(* A form goes through although other requests of the browser were under way when the  *)
(* page read its token and while it was filled in: only a request that had left before *)
(* the browser had any cookie, or a day, takes the token away. (Behind a proxy that is *)
(* not listed the host is unknown and nothing with an origin goes through.)            *)
FormsGoThrough ==
    verdict.on /\ verdict.req.site = "public" /\ ~verdict.raced /\ setting.proxy # "untrusted"
    => verdict.allowed

(* What another site makes the browser send goes through only if CORS_ORIGINS names     *)
(* that site; the wildcard names none, and no header of the client stands in for it.   *)
(* Where no Host gets to the application, and no trusted proxy tells it, there is       *)
(* nothing to compare with, and every site goes through.                               *)
OtherSitesAreNamed ==
    /\ verdict.on /\ verdict.req.site # "public" /\ ~verdict.req.bearer /\ verdict.allowed
    /\ setting.named \/ setting.proxy = "trusted"
    => \E entry \in setting.allowed : entry.host = verdict.req.site
==================================================================================
