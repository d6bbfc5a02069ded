-------------------------------- MODULE HttpProofs ---------------------------------
(* Proofs about the gates of the HTTP server, side by side as MCHttp has them: for any  *)
(* addresses, roles, sizes and lengths of paths and chains.                             *)
EXTENDS MCHttp, Sequences, FiniteSetTheorems, WellFoundedInduction, TLAPS

-----------------------------------------------------------------------------------
(* Forms. A page whose token was not raced holds the cookie of the browser, and nothing *)
(* that is under way will replace it: what left before carried a cookie, and what comes *)
(* back brings none.                                                                    *)

CsrfIInv ==
    /\ Csrf!TypeOK
    /\ u5 \in [proxy : Csrf!Proxies, named : BOOLEAN, allowed : Csrf!Listings]
    /\ u2.token # None /\ ~u2.raced =>
           /\ u1 = u2.token
           /\ \A r \in u3 : IF r.kind = "get" THEN r.cookie # None ELSE r.cookie = None
    /\ Csrf!FormsGoThrough /\ Csrf!OtherSitesAreNamed

(* No step of a browser or of the middleware breaks it.                                 *)
LEMMA CsrfKeeps ==
    ASSUME CsrfIInv, Csrf!CsrfAssumption, Csrf!Next
    PROVE  CsrfIInv'
<1> USE DEF CsrfIInv, Csrf!TypeOK
<1>1. ASSUME UNCHANGED <<u1, u2, u5, u6>>, u4' \in 0 .. MaxTokens,
             NEW r \in u3, r.kind = "get",
             NEW cookie \in (1 .. MaxTokens) \union {None}, r.cookie # None => cookie = None,
             u3' = (u3 \ {r}) \union {[id |-> r.id, kind |-> "answer", cookie |-> cookie]}
      PROVE  CsrfIInv'
    BY <1>1 DEF Csrf!FormsGoThrough, Csrf!OtherSitesAreNamed
<1>2. CASE Csrf!Get
  <2>1. PICK id : /\ u3' = u3 \union {[id |-> id, kind |-> "get", cookie |-> u1]}
                  /\ UNCHANGED <<u1, u2, u4, u5, u6>>
      BY <1>2 DEF Csrf!Get
  <2> QED BY <2>1 DEF Csrf!FormsGoThrough, Csrf!OtherSitesAreNamed
<1>3. ASSUME NEW r \in u3, Csrf!Answer(r) PROVE CsrfIInv'
    BY <1>1, <1>3 DEF Csrf!Answer, Csrf!SetsCookie, Csrf!CsrfAssumption
<1>4. ASSUME NEW r \in u3, Csrf!AnswerWithOwn(r) PROVE CsrfIInv'
    BY <1>1, <1>4 DEF Csrf!AnswerWithOwn, Csrf!SetsCookie, Csrf!CsrfAssumption
<1>5. ASSUME NEW r \in u3, Csrf!Arrives(r) PROVE CsrfIInv'
    BY <1>5 DEF Csrf!Arrives, Csrf!FormsGoThrough, Csrf!OtherSitesAreNamed
<1>6. CASE Csrf!Reads
    BY <1>6 DEF Csrf!Reads, Csrf!Cookieless, Csrf!FormsGoThrough, Csrf!OtherSitesAreNamed
<1>7. CASE Csrf!Expires
    BY <1>7 DEF Csrf!Expires, Csrf!FormsGoThrough, Csrf!OtherSitesAreNamed
<1> DEFINE J(req) == /\ req.site = "public" /\ ~u2.raced /\ u5.proxy # "untrusted" => Csrf!Allowed(req)
                     /\ req.site # "public" /\ ~req.bearer /\ Csrf!Allowed(req)
                        /\ (u5.named \/ u5.proxy = "trusted")
                        => \E entry \in u5.allowed : entry.host = req.site
<1>8. ASSUME NEW req, Csrf!Judges(req), J(req) PROVE CsrfIInv'
  <2>1. /\ UNCHANGED <<u1, u2, u3, u4, u5>>
        /\ u6'.req = req /\ (u6'.allowed <=> Csrf!Allowed(req)) /\ u6'.raced = u2.raced
      BY <1>8 DEF Csrf!Judges
  <2>2. Csrf!FormsGoThrough' /\ Csrf!OtherSitesAreNamed'
      BY <1>8, <2>1 DEF Csrf!FormsGoThrough, Csrf!OtherSitesAreNamed
  <2> QED BY <2>1, <2>2
<1>9. CASE Csrf!Submit
  <2>1. PICK origin \in {None, Csrf!Origin("https", "public")} :
            Csrf!Judges(Csrf!Request("public", origin, u1, u2.token, FALSE, "public"))
      BY <1>9 DEF Csrf!Submit
  <2> DEFINE req == Csrf!Request("public", origin, u1, u2.token, FALSE, "public")
  <2>2. /\ req.site = "public" /\ req.origin = origin /\ req.cookie = u1 /\ req.header = u2.token
        /\ req.forwarded = "public" /\ req.host = "public"
      BY DEF Csrf!Request
  <2> HIDE DEF req
  <2>3. u5.proxy # "untrusted" => Csrf!public_host(req) \in {None, "public"}
      BY <2>2 DEF Csrf!public_host, Csrf!Proxies, Csrf!CsrfAssumption, Csrf!Hosts
  <2>4. u5.proxy # "untrusted" => Csrf!origin_is_accepted(req)
      BY <2>1, <2>2, <2>3 DEF Csrf!origin_is_accepted, Csrf!Origin
  <2>5. u2.token # None
      BY <1>9 DEF Csrf!Submit
  <2>6. J(req)
      BY <2>2, <2>4, <2>5 DEF Csrf!Allowed
  <2> HIDE DEF J
  <2> QED BY <1>8, <2>1, <2>6 DEF req
<1>10. ASSUME NEW host \in {"partner", "stranger"}, NEW scheme \in {"http", "https"}, NEW req,
              req.site = host, req.origin = Csrf!Origin(scheme, host), req.host = "public",
              u5.proxy = "trusted" => req.forwarded = "public"
       PROVE  J(req)
  <2>0. None # req.origin
      BY <1>10 DEF Csrf!CsrfAssumption, Csrf!Origin, Csrf!Hosts
  <2>1. u5.named \/ u5.proxy = "trusted" => Csrf!public_host(req) \notin {None, host}
      BY <1>10 DEF Csrf!public_host, Csrf!Proxies, Csrf!CsrfAssumption, Csrf!Hosts
  <2>2. req.origin.host = host
      BY <1>10 DEF Csrf!Origin
  <2>3. Csrf!Allowed(req) /\ ~req.bearer /\ (u5.named \/ u5.proxy = "trusted")
        => \E entry \in u5.allowed : entry.host = host
      BY <1>10, <2>0, <2>1, <2>2 DEF Csrf!Allowed, Csrf!origin_is_accepted, Csrf!allowlist_covers
  <2> QED BY <1>10, <2>3
<1>11. ASSUME NEW host \in Csrf!Hosts, Csrf!CrossSite(host) PROVE CsrfIInv'
  <2> DEFINE req == Csrf!Request(host, Csrf!Origin("https", host), None, None, FALSE, "public")
  <2>1. J(req)
      BY <1>10, <1>11 DEF Csrf!CrossSite, Csrf!Hosts, Csrf!Request
  <2> HIDE DEF J
  <2> QED BY <1>8, <1>11, <2>1 DEF Csrf!CrossSite
<1>12. CASE Csrf!Direct
  <2>1. PICK forwarded \in Csrf!Hosts, bearer \in BOOLEAN :
            Csrf!Judges(Csrf!Request("stranger", Csrf!Origin("http", "stranger"), None, None,
                                     bearer, forwarded))
      BY <1>12 DEF Csrf!Direct
  <2>2. u5.proxy # "trusted"
      BY <1>12 DEF Csrf!Direct
  <2>3. J(Csrf!Request("stranger", Csrf!Origin("http", "stranger"), None, None, bearer, forwarded))
      BY <1>10, <2>2 DEF Csrf!Request
  <2> HIDE DEF J
  <2> QED BY <1>8, <2>1, <2>3
<1> QED BY <1>2, <1>3, <1>4, <1>5, <1>6, <1>7, <1>9, <1>11, <1>12 DEF Csrf!Next

(* A form of the application goes through unless its token was raced, and what another  *)
(* site sends only if CORS_ORIGINS names it: for any number of requests under way.      *)
THEOREM FormsAreSafe == Spec => []FormsAreOurs
<1> DEFINE I == part = "csrf" => CsrfIInv
<1>1. Init => I
    BY InstanceAssumptions
       DEF Init, CsrfIInv, Csrf!Init, Csrf!TypeOK, Csrf!CsrfAssumption,
           Csrf!FormsGoThrough, Csrf!OtherSitesAreNamed
<1>2. ASSUME I, [Next]_<<part, state>> PROVE I'
  <2>1. CASE UNCHANGED <<part, state>>
      BY <1>2, <2>1 DEF state, CsrfIInv, Csrf!TypeOK, Csrf!FormsGoThrough, Csrf!OtherSitesAreNamed
  <2>2. CASE Next
      BY <1>2, <2>2, CsrfKeeps, InstanceAssumptions DEF Next
  <2> QED BY <1>2, <2>1, <2>2
<1>3. I => FormsAreOurs
    BY DEF CsrfIInv, FormsAreOurs
<1> QED BY <1>1, <1>2, <1>3, PTL DEF Spec

-----------------------------------------------------------------------------------
(* The limit. The requests that were let in within the last window are those of the     *)
(* window that runs now, as many as its count says, and those of the one before.        *)

Running(ip) == {r \in u3[ip] : r.age <= u1[ip].age}
Before(ip) == u3[ip] \ Running(ip)

(* No window of the address runs: the requests of the last one are all there are, and   *)
(* there is none of this tick.                                                          *)
Quiet(ip) == /\ Cardinality(u3[ip]) <= MaxRequests
             /\ \A r \in u3[ip] : r.age >= 1

Runs(ip) == /\ Cardinality(Running(ip)) <= MaxRequests
            /\ Cardinality(Running(ip)) = u1[ip].count
                   \/ (Cardinality(Running(ip)) = MaxRequests /\ u1[ip].count = MaxRequests + 1)
            /\ Cardinality(Before(ip)) <= MaxRequests

(* The history tells the requests of an address apart.                                  *)
Numbered(ip) == /\ IsFiniteSet(u3[ip])
                /\ \A r \in u3[ip] : r.age = 0 => r.nth < Cardinality(u3[ip])

IsRunning(ip) == ip \in DOMAIN u1 /\ u1[ip].age <= Window

LimiterIInv ==
    /\ Limiter!TypeOK
    /\ \A ip \in IPs : Numbered(ip) /\ IF IsRunning(ip) THEN Runs(ip) ELSE Quiet(ip)
    /\ u2 # Limiter!Silent /\ ~u2.ok => Cardinality(u3[u2.to]) >= MaxRequests

(* The module has its own name for the size of a set.                                   *)
LEMMA SameSize == \A S : Limiter!Cardinality(S) = Cardinality(S)
BY DEF Limiter!Cardinality, Cardinality

(* What is in a set or not in it makes up the set.                                      *)
LEMMA Halves ==
    ASSUME NEW S, IsFiniteSet(S), NEW A \in SUBSET S
    PROVE  /\ IsFiniteSet(A) /\ IsFiniteSet(S \ A)
           /\ Cardinality(A) \in Nat /\ Cardinality(S \ A) \in Nat /\ Cardinality(S) \in Nat
           /\ Cardinality(S) = Cardinality(A) + Cardinality(S \ A)
<1>1. IsFiniteSet(A) /\ IsFiniteSet(S \ A)
    BY FS_Subset
<1>2. Cardinality(A) \in Nat /\ Cardinality(S \ A) \in Nat /\ Cardinality(S) \in Nat
    BY <1>1, FS_CardinalityType
<1>3. Cardinality(S \ A) = Cardinality(S) - Cardinality(S \intersect A)
    BY FS_Difference
<1>4. S \intersect A = A
    OBVIOUS
<1>5. Cardinality(S \intersect A) = Cardinality(A)
    BY <1>4, Zenon
<1>6. Cardinality(S) = Cardinality(A) + Cardinality(S \ A)
    BY <1>2, <1>3, <1>5
<1> QED BY <1>1, <1>2, <1>6

(* No address ever has more than two windows' worth.                                    *)
LEMMA TwoWindows ==
    ASSUME LimiterIInv, Limiter!LimiterAssumption, NEW ip \in IPs
    PROVE  /\ Cardinality(u3[ip]) \in 0 .. 2 * MaxRequests
           /\ IsRunning(ip) =>
                 /\ Cardinality(u3[ip]) = Cardinality(Running(ip)) + Cardinality(Before(ip))
                 /\ Cardinality(Running(ip)) \in Nat /\ Cardinality(Before(ip)) \in Nat
<1>0. MaxRequests \in Nat /\ Cardinality(u3[ip]) \in Nat
    BY FS_CardinalityType DEF LimiterIInv, Numbered, Limiter!LimiterAssumption
<1>1. CASE IsRunning(ip)
  <2>1. IsFiniteSet(u3[ip]) /\ Running(ip) \in SUBSET u3[ip]
      BY DEF LimiterIInv, Numbered, Running
  <2>3. /\ Cardinality(u3[ip]) = Cardinality(Running(ip)) + Cardinality(Before(ip))
        /\ Cardinality(Running(ip)) \in Nat /\ Cardinality(Before(ip)) \in Nat
      BY <2>1, Halves DEF Before
  <2> QED BY <1>0, <1>1, <2>3 DEF LimiterIInv, Runs
<1>2. CASE ~IsRunning(ip)
    BY <1>0, <1>2 DEF LimiterIInv, Quiet
<1> QED BY <1>1, <1>2

(* The two windows hold what the property counts.                                       *)
LEMMA LimiterHolds ==
    ASSUME LimiterIInv, Limiter!LimiterAssumption
    PROVE  Limiter!TypeOK /\ Limiter!RateLimited
BY TwoWindows, SameSize DEF LimiterIInv, Limiter!RateLimited, Limiter!Recent, Limiter!TypeOK

(* RateLimitLayer::new: no address has a window.                                        *)
LEMMA LimiterInit ==
    ASSUME Limiter!Init, Limiter!LimiterAssumption
    PROVE  LimiterIInv
BY FS_EmptySet DEF Limiter!Init, LimiterIInv, Limiter!TypeOK, Limiter!Silent, IsRunning, Quiet, Numbered,
                   Limiter!LimiterAssumption

(* A request is let in or refused; both go by the count of the window that runs.        *)
LEMMA CallKeeps ==
    ASSUME LimiterIInv, Limiter!LimiterAssumption, NEW ip \in IPs, Limiter!Call(ip)
    PROVE  LimiterIInv'
<1> DEFINE old == IF ip \in Limiter!Kept THEN Limiter!Renewed(ip) ELSE Limiter!NewWindow
           entry == Limiter!Counted(old)
           ok == entry.count <= MaxRequests
           new == [age |-> 0, nth |-> Cardinality(u3[ip])]
<1>0. /\ MaxRequests \in Nat /\ Window \in Nat
      /\ Limiter!TypeOK /\ LimiterIInv
    BY DEF LimiterIInv, Limiter!LimiterAssumption
<1>1. /\ u1' = [i \in Limiter!Kept \union {ip} |-> IF i = ip THEN entry ELSE u1[i]]
      /\ u2' = [to |-> ip, ok |-> ok]
      /\ u3' = IF ok THEN [u3 EXCEPT ![ip] = @ \union {new}] ELSE u3
    BY SameSize DEF Limiter!Call, Limiter!Passed
(* The window it is counted in, and what was let in within it.                          *)
<1>2. /\ old \in [count : 0 .. MaxRequests + 1, age : 0 .. Window]
      /\ entry.age = old.age
      /\ entry.count = IF old.count > MaxRequests THEN old.count ELSE old.count + 1
      /\ entry \in [count : 1 .. MaxRequests + 1, age : 0 .. Window]
    BY <1>0 DEF Limiter!TypeOK, Limiter!Ages, Limiter!Renewed, Limiter!NewWindow, Limiter!Kept,
                Limiter!Counted
<1> DEFINE A == {r \in u3[ip] : r.age <= old.age}
           B == u3[ip] \ A
<1>3. /\ IsFiniteSet(A) /\ IsFiniteSet(B)
      /\ Cardinality(A) \in Nat /\ Cardinality(B) \in Nat /\ Cardinality(B) <= MaxRequests
      /\ \/ Cardinality(A) = old.count /\ old.count <= MaxRequests
         \/ Cardinality(A) = MaxRequests /\ old.count = MaxRequests + 1
      /\ Cardinality(u3[ip]) = Cardinality(A) + Cardinality(B)
  <2>1. IsFiniteSet(u3[ip]) /\ A \in SUBSET u3[ip]
      BY DEF LimiterIInv, Numbered
  <2>2. /\ IsFiniteSet(A) /\ IsFiniteSet(B)
        /\ Cardinality(A) \in Nat /\ Cardinality(B) \in Nat
        /\ Cardinality(u3[ip]) = Cardinality(A) + Cardinality(B)
      BY <2>1, Halves
  <2>3. CASE IsRunning(ip)
    <3>1. old = u1[ip]
        BY <1>0, <2>3 DEF IsRunning, Limiter!Kept, Limiter!Renewed, Limiter!TypeOK, Limiter!Ages
    <3>2. A = Running(ip) /\ B = Before(ip)
        BY <3>1 DEF Running, Before
    <3>3. Runs(ip)
        BY <1>0, <2>3 DEF LimiterIInv
    <3> QED BY <1>0, <1>2, <2>2, <3>1, <3>2, <3>3 DEF Runs
  <2>4. CASE ~IsRunning(ip)
    <3>1. old = Limiter!NewWindow
        BY <1>0, <2>4 DEF IsRunning, Limiter!Kept, Limiter!Renewed, Limiter!TypeOK, Limiter!Ages
    <3>2. Quiet(ip)
        BY <1>0, <2>4 DEF LimiterIInv
    <3>3. A = {}
        BY <1>0, <3>1, <3>2 DEF Quiet, Limiter!NewWindow, Limiter!TypeOK
    <3>4. Cardinality(A) = 0 /\ Cardinality(B) <= MaxRequests
        BY <2>2, <3>2, <3>3, FS_EmptySet DEF Quiet
    <3> QED BY <1>0, <2>2, <3>1, <3>4 DEF Limiter!NewWindow
  <2> QED BY <2>3, <2>4
<1> HIDE DEF old, entry
<1>4. new \notin u3[ip] /\ new \notin A /\ new \notin B
    BY <1>0 DEF LimiterIInv, Numbered, Limiter!TypeOK
<1>5. ASSUME ok PROVE Runs(ip)' /\ Numbered(ip)'
  <2>1. u3' = [u3 EXCEPT ![ip] = @ \union {new}] /\ u3'[ip] = u3[ip] \union {new}
      BY <1>0, <1>1, <1>5 DEF Limiter!TypeOK
  <2>2. IsFiniteSet(u3[ip])
      BY <1>0 DEF LimiterIInv, Numbered
  <2>3. /\ IsFiniteSet(u3[ip] \union {new}) /\ Cardinality(u3[ip] \union {new}) = Cardinality(u3[ip]) + 1
        /\ Cardinality(A \union {new}) = Cardinality(A) + 1
      BY <1>3, <1>4, <2>2, FS_AddElement
  <2>4. Running(ip)' = A \union {new}
      BY <1>0, <1>1, <1>2, <2>1 DEF Running
  <2>5. Before(ip)' = B
      BY <1>4, <2>1, <2>4 DEF Before
  <2>6. Cardinality(Running(ip)') = Cardinality(A) + 1 /\ Cardinality(Before(ip)') = Cardinality(B)
      BY <2>3, <2>4, <2>5, Zenon
  <2>7. Runs(ip)'
      BY <1>0, <1>1, <1>2, <1>3, <1>5, <2>6 DEF Runs
  <2>8. IsFiniteSet(u3'[ip]) /\ Cardinality(u3'[ip]) = Cardinality(u3[ip]) + 1
      BY <2>1, <2>3
  <2>9. \A r \in u3'[ip] : r.age = 0 => r.nth < Cardinality(u3'[ip])
    <3>1. Cardinality(u3[ip]) \in Nat
        BY <2>2, FS_CardinalityType
    <3>2. \A r \in u3[ip] : r.age = 0 => r.nth < Cardinality(u3[ip]) /\ r.nth \in Nat
        BY <1>0 DEF LimiterIInv, Numbered, Limiter!TypeOK
    <3> QED BY <2>1, <2>8, <3>1, <3>2
  <2> QED BY <2>7, <2>8, <2>9 DEF Numbered
<1>6. ASSUME ~ok PROVE Runs(ip)' /\ Numbered(ip)' /\ Cardinality(u3'[ip]) >= MaxRequests
  <2>1. u3' = u3
      BY <1>1, <1>6
  <2>2. Running(ip)' = A /\ Before(ip)' = B
      BY <1>0, <1>1, <1>2, <2>1 DEF Running, Before
  <2>3. Runs(ip)'
      BY <1>0, <1>1, <1>2, <1>3, <1>6, <2>2 DEF Runs
  <2>4. Cardinality(u3[ip]) >= MaxRequests
      BY <1>0, <1>2, <1>3, <1>6
  <2> QED BY <1>0, <2>1, <2>3, <2>4 DEF LimiterIInv, Numbered
<1>7. IsRunning(ip)'
    BY <1>0, <1>1, <1>2 DEF IsRunning
(* The others: a sweep takes only windows that ended.                                   *)
<1>8. ASSUME NEW i \in IPs, i # ip
      PROVE  Numbered(i)' /\ IF IsRunning(i)' THEN Runs(i)' ELSE Quiet(i)'
  <2>1. u3'[i] = u3[i]
      BY <1>0, <1>1, <1>8 DEF Limiter!TypeOK
  <2>2. /\ IsRunning(i)' <=> IsRunning(i)
        /\ IsRunning(i) => u1'[i] = u1[i]
      BY <1>0, <1>1, <1>8 DEF IsRunning, Limiter!Kept, Limiter!TypeOK, Limiter!Ages
  <2>3. IsRunning(i) => Running(i)' = Running(i) /\ Before(i)' = Before(i)
      BY <2>1, <2>2 DEF Running, Before
  <2>4. IsRunning(i) => Runs(i)'
    <3>1. IsRunning(i) => Runs(i)
        BY <1>0, <1>8 DEF LimiterIInv
    <3> QED BY <2>2, <2>3, <3>1 DEF Runs
  <2>5. ~IsRunning(i) => Quiet(i)'
      BY <1>0, <1>8, <2>1 DEF LimiterIInv, Quiet
  <2>6. Numbered(i)'
      BY <1>0, <1>8, <2>1 DEF LimiterIInv, Numbered
  <2> QED BY <2>2, <2>4, <2>5, <2>6
<1>9. Limiter!TypeOK'
  <2>1. u1' \in [DOMAIN u1' -> [count : 1 .. MaxRequests + 1, age : Limiter!Ages]] /\ DOMAIN u1' \subseteq IPs
      BY <1>0, <1>1, <1>2 DEF Limiter!TypeOK, Limiter!Kept, Limiter!Ages
  <2>2. u2' \in [to : IPs, ok : BOOLEAN]
      BY <1>1
  <2>3. new \in [age : 0 .. Window, nth : 0 .. 2 * MaxRequests]
      BY <1>0, TwoWindows
  <2>4. u3' \in [IPs -> SUBSET [age : 0 .. Window, nth : 0 .. 2 * MaxRequests]]
      BY <1>0, <1>1, <2>3 DEF Limiter!TypeOK
  <2> QED BY <2>1, <2>2, <2>4 DEF Limiter!TypeOK
<1>10. ~u2'.ok => Cardinality(u3'[u2'.to]) >= MaxRequests
    BY <1>1, <1>6
<1>11. \A i \in IPs : Numbered(i)' /\ IF IsRunning(i)' THEN Runs(i)' ELSE Quiet(i)'
    BY <1>5, <1>6, <1>7, <1>8
<1> HIDE DEF ok, new
<1> QED BY <1>9, <1>10, <1>11 DEF LimiterIInv

(* Requests get older, and none of them gets lost or doubled by it.                     *)
Older(S) == {Limiter!Aged(r) : r \in S}

LEMMA OlderIsAsLarge ==
    ASSUME NEW S \in SUBSET [age : Nat, nth : Nat], IsFiniteSet(S)
    PROVE  /\ IsFiniteSet(Older(S)) /\ Cardinality(Older(S)) = Cardinality(S)
           /\ Cardinality(S) \in Nat
<1> DEFINE f == [r \in S |-> Limiter!Aged(r)]
<1>1. f \in Surjection(S, Older(S))
    BY DEF Surjection, Older
<1>2. \A r, s \in S : Limiter!Aged(r) = Limiter!Aged(s) => r = s
  <2> TAKE r, s \in S
  <2>1. /\ r \in [age : Nat, nth : Nat] /\ s \in [age : Nat, nth : Nat]
        /\ Limiter!Aged(r).age = r.age + 1 /\ Limiter!Aged(r).nth = r.nth
        /\ Limiter!Aged(s).age = s.age + 1 /\ Limiter!Aged(s).nth = s.nth
      BY DEF Limiter!Aged
  <2>2. Limiter!Aged(r) = Limiter!Aged(s) => r.age = s.age /\ r.nth = s.nth
      BY <2>1
  <2> QED BY <2>1, <2>2
<1>3. f \in Injection(S, Older(S))
    BY <1>1, <1>2 DEF Injection, IsInjective, Surjection
<1>4. ExistsBijection(S, Older(S))
    BY <1>1, <1>3 DEF Bijection, ExistsBijection
<1> QED BY <1>4, FS_Bijection, FS_CardinalityType

(* Time passes: what was let in gets older, and when a window has ended, what is left   *)
(* is left of it.                                                                       *)
LEMMA TickKeeps ==
    ASSUME LimiterIInv, Limiter!LimiterAssumption, Limiter!Tick
    PROVE  LimiterIInv'
<1>0. /\ MaxRequests \in Nat /\ Window \in Nat
      /\ Limiter!TypeOK /\ LimiterIInv
    BY DEF LimiterIInv, Limiter!LimiterAssumption
<1>1. /\ DOMAIN u1' = DOMAIN u1
      /\ \A ip \in DOMAIN u1 :
            /\ u1'[ip].count = u1[ip].count
            /\ u1'[ip].age = IF u1[ip].age > Window THEN u1[ip].age ELSE u1[ip].age + 1
      /\ u2' = Limiter!Silent
      /\ \A ip \in IPs : u3'[ip] = {Limiter!Aged(r) : r \in {s \in u3[ip] : s.age < Window}}
    BY <1>0 DEF Limiter!Tick, Limiter!TypeOK
<1>2. ASSUME NEW ip \in IPs
      PROVE  Numbered(ip)' /\ IF IsRunning(ip)' THEN Runs(ip)' ELSE Quiet(ip)'
  <2> DEFINE young(S) == {s \in S : s.age < Window}
  <2>1. /\ u3[ip] \in SUBSET [age : 0 .. Window, nth : 0 .. 2 * MaxRequests]
        /\ u3[ip] \in SUBSET [age : Nat, nth : Nat]
        /\ IsFiniteSet(u3[ip]) /\ u3'[ip] = Older(young(u3[ip]))
      BY <1>0, <1>1 DEF LimiterIInv, Numbered, Limiter!TypeOK, Older
  <2>2. ASSUME NEW S \in SUBSET u3[ip]
        PROVE  /\ IsFiniteSet(Older(young(S))) /\ IsFiniteSet(S)
               /\ Cardinality(Older(young(S))) <= Cardinality(S)
    <3>1. young(S) \in SUBSET S /\ IsFiniteSet(S) /\ IsFiniteSet(young(S))
        BY <2>1, FS_Subset
    <3>2. Cardinality(young(S)) <= Cardinality(S)
        BY <3>1, FS_Subset
    <3> QED BY <2>1, <3>1, <3>2, OlderIsAsLarge
  <2>3. \A r \in u3'[ip] : r.age \in Nat /\ r.age >= 1
      BY <2>1 DEF Older, Limiter!Aged
  <2>4. Numbered(ip)'
      BY <2>1, <2>2, <2>3 DEF Numbered
  <2>5. ASSUME IsRunning(ip)' PROVE Runs(ip)'
    <3>1. /\ IsRunning(ip) /\ u1[ip].age \in Nat /\ u1[ip].age < Window
          /\ u1'[ip].age = u1[ip].age + 1 /\ u1'[ip].count = u1[ip].count
        BY <1>0, <1>1, <2>5 DEF IsRunning, Limiter!TypeOK, Limiter!Ages
    <3>2. Runs(ip) /\ Running(ip) \in SUBSET u3[ip] /\ Before(ip) \in SUBSET u3[ip]
        BY <1>0, <3>1 DEF LimiterIInv, Running, Before
    <3>3. \A r \in u3[ip] : /\ Limiter!Aged(r).age = r.age + 1
                            /\ r.age \in Nat
        BY <2>1 DEF Limiter!Aged
    <3>4. Running(ip)' = Older(Running(ip))
      <4>1. Running(ip)' = {r \in u3'[ip] : r.age <= u1[ip].age + 1}
          BY <3>1 DEF Running
      <4>2. \A r \in Running(ip) : r \in young(u3[ip]) /\ Limiter!Aged(r).age <= u1[ip].age + 1
          BY <1>0, <2>1, <3>1, <3>3 DEF Running
      <4>3. \A r \in young(u3[ip]) : Limiter!Aged(r).age <= u1[ip].age + 1 => r \in Running(ip)
          BY <1>0, <2>1, <3>1, <3>3 DEF Running
      <4> HIDE DEF young
      <4> QED BY <2>1, <4>1, <4>2, <4>3 DEF Older
    <3>5. Before(ip)' = Older(young(Before(ip)))
        BY <2>1, <3>1, <3>3 DEF Running, Before, Older
    <3>6. /\ Cardinality(Older(Running(ip))) = Cardinality(Running(ip))
          /\ Cardinality(Running(ip)) \in Nat
      <4>1. IsFiniteSet(Running(ip)) /\ Running(ip) \in SUBSET [age : Nat, nth : Nat]
          BY <2>1, <3>2, FS_Subset
      <4> QED BY <4>1, OlderIsAsLarge
    <3>7. Cardinality(Older(young(Before(ip)))) <= MaxRequests
      <4>1. /\ Cardinality(Older(young(Before(ip)))) <= Cardinality(Before(ip))
            /\ IsFiniteSet(Before(ip)) /\ IsFiniteSet(Older(young(Before(ip))))
          BY <2>2, <3>2
      <4>2. /\ Cardinality(Before(ip)) \in Nat /\ Cardinality(Before(ip)) <= MaxRequests
            /\ Cardinality(Older(young(Before(ip)))) \in Nat
          BY <3>2, <4>1, FS_CardinalityType DEF Runs
      <4> QED BY <1>0, <4>1, <4>2
    <3> HIDE DEF young
    <3> QED BY <3>1, <3>2, <3>4, <3>5, <3>6, <3>7 DEF Runs
  <2>6. ASSUME ~IsRunning(ip)' PROVE Quiet(ip)'
    <3>1. Cardinality(u3[ip]) <= MaxRequests
      <4>1. CASE IsRunning(ip)
        <5>1. u1[ip].age = Window
            BY <1>0, <1>1, <2>6, <4>1 DEF IsRunning, Limiter!TypeOK, Limiter!Ages
        <5>2. Running(ip) = u3[ip]
            BY <2>1, <5>1 DEF Running
        <5>3. Cardinality(Running(ip)) <= MaxRequests
            BY <1>0, <4>1 DEF LimiterIInv, Runs
        <5> QED BY <5>2, <5>3
      <4>2. CASE ~IsRunning(ip)
          BY <1>0, <4>2 DEF LimiterIInv, Quiet
      <4> QED BY <4>1, <4>2
    <3>2. /\ Cardinality(u3'[ip]) <= Cardinality(u3[ip])
          /\ Cardinality(u3'[ip]) \in Nat /\ Cardinality(u3[ip]) \in Nat
        BY <2>1, <2>2, FS_CardinalityType
    <3> QED BY <1>0, <2>3, <3>1, <3>2 DEF Quiet
  <2> QED BY <2>4, <2>5, <2>6
<1>3. Limiter!TypeOK'
  <2>1. \A ip \in IPs : u3'[ip] \in SUBSET [age : 0 .. Window, nth : 0 .. 2 * MaxRequests]
      BY <1>0, <1>1 DEF Limiter!TypeOK, Limiter!Aged
  <2>2. u3' \in [IPs -> SUBSET [age : 0 .. Window, nth : 0 .. 2 * MaxRequests]]
      BY <2>1 DEF Limiter!Tick
  <2>3. DOMAIN u1' \subseteq IPs /\ u2' = Limiter!Silent
      BY <1>0, <1>1 DEF Limiter!TypeOK
  <2>4. \A ip \in DOMAIN u1' : u1'[ip] \in [count : 1 .. MaxRequests + 1, age : Limiter!Ages]
      BY <1>0 DEF Limiter!Tick, Limiter!TypeOK, Limiter!Ages
  <2> QED BY <2>2, <2>3, <2>4 DEF Limiter!TypeOK
<1> QED BY <1>1, <1>2, <1>3 DEF LimiterIInv

(* A request or a tick: the whole of the limiter.                                       *)
LEMMA LimiterKeeps ==
    ASSUME LimiterIInv, Limiter!LimiterAssumption, Limiter!Next
    PROVE  LimiterIInv'
BY CallKeeps, TickKeeps DEF Limiter!Next

-----------------------------------------------------------------------------------
(* Addresses. The end of the chain is what the proxies wrote into it: the addresses of  *)
(* the real connections but for the last, which is the peer.                            *)

Addresses == 0 .. 2 ^ Width - 1

(* From the m-th connection on.                                                         *)
Traced(m) == /\ u2.peer = u3[Len(u3)]
             /\ \A i \in m .. Len(u3) - 1 :
                   /\ Len(u2.chain) - Len(u3) + 1 + i >= 1
                   /\ u2.chain[Len(u2.chain) - Len(u3) + 1 + i] = u3[i]

Decided == Chain!SensibleList => u4.client = u3[Chain!Max(Chain!Doubted)]

Told == u2.forwarded_host = "forged" => Chain!is_trusted_proxy(u3[1], u1)

(* The server did not believe its peer and began a new chain with it.                   *)
Cut == /\ Traced(Len(u3) - 1)
       /\ ~Chain!is_trusted_proxy(u3[Len(u3) - 1], u1)

ChainIInv ==
    /\ DOMAIN u2 = {"peer", "chain", "first", "real", "proto", "host", "forwarded_host"}
    /\ u2.chain \in Seq(Addresses) /\ u2.first \in 0 .. Len(u2.chain)
    /\ u3 \in Seq(Addresses) /\ Len(u3) >= 1
    /\ u4.at \in {"edge", "application", "forwarded", "behind", "dropped"}
    /\ u4.at \in {"edge", "application"} =>
           /\ \A i \in DOMAIN u3 : u3[i] \in Clients \union Edges
           /\ u2.forwarded_host = "forged" => Len(u3) = 1
           /\ u2.host # "forged"
           /\ u4.at = "edge" \/ ~u4.normalized => Traced(1)
           /\ u2.peer = u3[Len(u3)]
    /\ u4.at \in {"application", "forwarded", "behind"} => u4.normalized \in BOOLEAN
    /\ u4.at = "application" =>
           DOMAIN u4 = {"at", "list", "client", "last", "normalized"} /\ Decided
    /\ u4.at = "forwarded" =>
           /\ Len(u3) >= 2 /\ u3[Len(u3)] = Self
           /\ \A i \in 1 .. Len(u3) - 1 : u3[i] # Self
           /\ Told
           /\ ~u4.normalized => Traced(1) \/ Cut \/ (u4.lost /\ Traced(Len(u3) - 1))
    /\ u4.at = "behind" => Told /\ (~u4.normalized /\ ~Chain!Forgotten => Decided)

(* A set of places has a last one.                                                      *)
LEMMA LastPlace ==
    ASSUME NEW n \in Nat, NEW S \in SUBSET (1 .. n), S # {}
    PROVE  Chain!Max(S) \in S /\ \A y \in S : y <= Chain!Max(S)
<1> DEFINE R == StrictSubsetOrdering(S)
           Without == {A \in SUBSET S : A # {} /\ ~\E v \in A : \A y \in A : v >= y}
<1>1. IsFiniteSet(S)
  <2>1. IsFiniteSet(1 .. n)
      BY FS_Interval
  <2> QED BY <2>1, FS_Subset
<1>2. IsWellFoundedOn(R, SUBSET S)
    BY <1>1, FS_StrictSubsetOrderingWellFounded, FS_FiniteSubsetsOfFinite
<1>3. Without = {}
  <2> S \subseteq Nat
      OBVIOUS
  <2>1. SUFFICES ASSUME Without # {} PROVE FALSE
      OBVIOUS
  <2>2. PICK A \in Without : \A B \in Without : <<B, A>> \notin R
      BY <1>2, <2>1, WFMin
  <2>3. PICK x \in A : x \in Nat
      BY <2>2
  <2> DEFINE B == {y \in A : y > x}
  <2>4. B \in SUBSET S /\ B # {} /\ <<B, A>> \in R
    <3>1. B # {}
        BY <2>2, <2>3
    <3>2. B \subseteq A /\ B # A /\ A \in SUBSET S
        BY <2>2, <2>3
    <3> QED BY <3>1, <3>2 DEF StrictSubsetOrdering
  <2>5. PICK v \in B : \A y \in B : v >= y
      BY <2>2, <2>4
  <2>6. \A y \in A : v >= y
      BY <2>3, <2>5
  <2> QED BY <2>2, <2>5, <2>6
<1>4. \E v \in S : \A y \in S : v >= y
    BY <1>3
<1> QED BY <1>4 DEF Chain!Max

(* What client_ip_trusted decides, where the chain is the real one behind the last      *)
(* connection that is doubted.                                                          *)
LEMMA DecidesTheDoubted ==
    ASSUME NEW list, NEW n \in Nat, n >= 1, n = Len(u3), u3 \in Seq(Addresses),
           u2.chain \in Seq(Addresses),
           NEW m \in 1 .. n, Traced(m), NEW D \in SUBSET (1 .. n), D # {}, m <= Chain!Max(D),
           \A i \in 1 .. n :
               i \notin D <=> Chain!Matched(u3[i], list) \/ (i = n /\ Chain!Everyone \in list)
    PROVE  Chain!client_ip_trusted(u2, list) = u3[Chain!Max(D)]
<1>1. /\ Chain!Max(D) \in D /\ \A i \in D : i <= Chain!Max(D)
      /\ Chain!Max(D) \in 1 .. n /\ u2.peer = u3[n]
    BY LastPlace DEF Traced
<1> DEFINE d == Chain!Max(D)
           off == Len(u2.chain) - n + 1
<1>2. CASE ~Chain!is_trusted_proxy(u2.peer, list)
  <2>1. n \in D
      BY <1>1, <1>2 DEF Chain!is_trusted_proxy
  <2>2. d = n
      BY <1>1, <2>1
  <2>3. Chain!client_ip_trusted(u2, list) = u2.peer
      BY <1>2 DEF Chain!client_ip_trusted
  <2> QED BY <1>1, <2>2, <2>3
<1>3. CASE Chain!is_trusted_proxy(u2.peer, list)
  <2>1. n \notin D /\ d \in m .. n - 1
      BY <1>1, <1>3 DEF Chain!is_trusted_proxy
  <2>2. /\ off \in Int /\ off + d >= 1 /\ Len(u2.chain) \in Nat /\ off + d \in DOMAIN u2.chain
        /\ u2.chain[off + d] = u3[d]
      BY <1>1, <2>1 DEF Traced
  <2>3. ~Chain!Matched(u3[d], list)
      BY <1>1
  <2> DEFINE strangers == Chain!Strangers(u2.chain, list)
  <2>4. strangers \in SUBSET (1 .. Len(u2.chain)) /\ off + d \in strangers
      BY <2>2, <2>3 DEF Chain!Strangers
  <2>5. ASSUME NEW j \in strangers PROVE j <= off + d
    <3>1. SUFFICES ASSUME j > off + d PROVE FALSE
        BY <2>2, <2>4
    <3> DEFINE i == j - off
    <3>2. i \in m .. n - 1 /\ i > d /\ j = off + i
        BY <1>1, <2>1, <2>2, <2>4, <3>1
    <3>3. u2.chain[j] = u3[i]
        BY <3>2 DEF Traced
    <3>4. Chain!Matched(u3[i], list)
        BY <1>1, <3>2
    <3> QED BY <2>5, <3>3, <3>4 DEF Chain!Strangers
  <2>6. Chain!Max(strangers) = off + d
    <3>1. /\ Chain!Max(strangers) \in strangers
          /\ \A y \in strangers : y <= Chain!Max(strangers)
        BY <2>2, <2>4, LastPlace
    <3> HIDE DEF strangers
    <3>2. Chain!Max(strangers) \in 1 .. Len(u2.chain)
        BY <2>4, <3>1
    <3>3. off + d \in Int
        BY <1>1, <2>2
    <3> QED BY <2>2, <2>4, <2>5, <3>1, <3>2, <3>3
  <2>7. Chain!client_ip_trusted(u2, list) = u2.chain[Chain!Max(strangers)]
      BY <1>3, <2>4 DEF Chain!client_ip_trusted
  <2> QED BY <2>2, <2>6, <2>7
<1> QED BY <1>2, <1>3

(* A decision taken where the chain is the real one from the m-th connection on: with   *)
(* m = 1 always, else where that connection is doubted.                                 *)
LEMMA DecidesOfTheReal ==
    ASSUME NEW list, u3 \in Seq(Addresses), Len(u3) >= 1, u2.chain \in Seq(Addresses),
           NEW m \in 1 .. Len(u3), Traced(m),
           m = 1 \/ (m < Len(u3) /\ ~Chain!Matched(u3[m], list)),
           u3' = u3, u4'.list = list, u4'.client = Chain!client_ip_trusted(u2, list)
    PROVE  Decided'
<1> DEFINE n == Len(u3)
           D == {i \in 1 .. n : ~(Chain!Matched(u3[i], list) \/ (i = n /\ Chain!Everyone \in list))}
<1>1. (Chain!Doubted)' = D
  <2>1. DOMAIN u3 = 1 .. n
      OBVIOUS
  <2>2. \A i : (Chain!Believed(i))' <=> Chain!Matched(u3[i], list) \/ (i = n /\ Chain!Everyone \in list)
      BY DEF Chain!Believed, Chain!Matched, Chain!matches_proxy, Chain!Masked, Chain!Everyone
  <2> QED BY <2>1, <2>2 DEF Chain!Doubted
<1>2. SUFFICES ASSUME D # {} PROVE u4'.client = u3[Chain!Max(D)]
  <2>1. D # {} => u4'.client = u3[Chain!Max(D)]
      BY <1>2
  <2>2. (Chain!SensibleList)' <=> D # {}
      BY <1>1 DEF Chain!SensibleList
  <2>3. (Chain!Max(Chain!Doubted))' = Chain!Max(D)
      BY <1>1 DEF Chain!Max
  <2> QED BY <2>1, <2>2, <2>3 DEF Decided
<1>3. n \in Nat /\ D \in SUBSET (1 .. n)
    OBVIOUS
<1>4. Chain!Max(D) \in D /\ \A i \in D : i <= Chain!Max(D)
    BY <1>2, <1>3, LastPlace
<1>5. m <= Chain!Max(D)
  <2>1. CASE m = 1
      BY <1>3, <1>4, <2>1
  <2>2. CASE m < n /\ ~Chain!Matched(u3[m], list)
      BY <1>3, <1>4, <2>2
  <2> QED BY <2>1, <2>2
<1>6. \A i \in 1 .. n :
          i \notin D <=> Chain!Matched(u3[i], list) \/ (i = n /\ Chain!Everyone \in list)
    OBVIOUS
<1> HIDE DEF D
<1>7. Chain!client_ip_trusted(u2, list) = u3[Chain!Max(D)]
    BY <1>2, <1>3, <1>5, <1>6, DecidesTheDoubted
<1> QED BY <1>7

(* The request of a client, whatever it wrote into its headers.                         *)
LEMMA ChainInit ==
    ASSUME Chain!Init, Chain!ForwardedAssumption
    PROVE  ChainIInv
<1> USE DEF Chain!Init
<1>1. PICK c \in Clients, written \in Chain!SeqOf(Clients \union Edges, 2), first \in 0 .. 2,
          real \in Clients \union {None}, host \in {None, "forged"} :
          /\ first <= Len(written)
          /\ u2 = [peer |-> c, chain |-> written, first |-> first, real |-> real, proto |-> None,
                   host |-> "public", forwarded_host |-> host]
          /\ u3 = <<c>>
    OBVIOUS
<1>2. Clients \union Edges \subseteq Addresses
    BY DEF Chain!ForwardedAssumption, Addresses
<1>3. u2.chain \in Seq(Addresses)
  <2>1. PICK k \in 0 .. 2 : written \in [1 .. k -> Clients \union Edges]
      BY DEF Chain!SeqOf
  <2>2. written \in Seq(Clients \union Edges)
      BY <2>1
  <2> QED BY <1>1, <1>2, <2>2
<1>4. /\ u3 \in Seq(Addresses) /\ Len(u3) = 1 /\ u3[1] = c /\ DOMAIN u3 = {1} /\ u4.at = "edge"
    BY <1>1, <1>2
<1>5. Traced(1)
    BY <1>1, <1>4 DEF Traced
<1>6. u2.first \in 0 .. Len(u2.chain)
    BY <1>1, <1>3
<1> QED BY <1>1, <1>3, <1>4, <1>5, <1>6 DEF ChainIInv

(* A proxy before the application appends the connection it took.                       *)
LEMMA EdgeKeeps ==
    ASSUME ChainIInv, Chain!ForwardedAssumption, NEW p \in Edges, NEW joins, Chain!Edge(p, joins)
    PROVE  ChainIInv'
<1> DEFINE n == Len(u3)
<1>1. /\ u4.at = "edge" /\ u4' = u4 /\ u1' = u1
      /\ u2' = [u2 EXCEPT !.chain = Append(@, u2.peer), !.peer = p,
                          !.first = IF joins THEN Len(u2.chain) + 1 ELSE @,
                          !.host = "upstream", !.forwarded_host = "public"]
      /\ u3' = Append(u3, p)
    BY DEF Chain!Edge
<1>2. /\ DOMAIN u2 = {"peer", "chain", "first", "real", "proto", "host", "forwarded_host"}
      /\ u2.chain \in Seq(Addresses) /\ u3 \in Seq(Addresses) /\ n \in Nat /\ n >= 1
      /\ Traced(1) /\ \A i \in DOMAIN u3 : u3[i] \in Clients \union Edges
    BY <1>1 DEF ChainIInv
<1>3. p \in Addresses /\ u2.peer \in Addresses /\ u2.peer = u3[n]
    BY <1>2 DEF Traced, Chain!ForwardedAssumption, Addresses
<1>4. /\ u2'.chain = Append(u2.chain, u2.peer) /\ u2'.peer = p
      /\ u2'.host = "upstream" /\ u2'.forwarded_host = "public" /\ DOMAIN u2' = DOMAIN u2
    BY <1>1, <1>2
<1>5. /\ u2'.chain \in Seq(Addresses) /\ Len(u2'.chain) = Len(u2.chain) + 1
      /\ Len(u2.chain) \in Nat
      /\ \A i \in 1 .. Len(u2.chain) : u2'.chain[i] = u2.chain[i]
      /\ u2'.chain[Len(u2.chain) + 1] = u3[n]
    BY <1>2, <1>3, <1>4
<1>6. /\ u3' \in Seq(Addresses) /\ Len(u3') = n + 1 /\ u3'[n + 1] = p
      /\ \A i \in 1 .. n : u3'[i] = u3[i]
    BY <1>1, <1>2, <1>3
<1>7. Traced(1)'
  <2>1. ASSUME NEW i \in 1 .. n
        PROVE  /\ Len(u2'.chain) - Len(u3') + 1 + i >= 1
               /\ u2'.chain[Len(u2'.chain) - Len(u3') + 1 + i] = u3'[i]
    <3>1. CASE i = n
        BY <1>2, <1>5, <1>6, <3>1
    <3>2. CASE i \in 1 .. n - 1
      <4> DEFINE k == Len(u2.chain) - n + 1 + i
      <4>1. k >= 1 /\ u2.chain[k] = u3[i]
          BY <1>2, <3>2 DEF Traced
      <4>2. k \in 1 .. Len(u2.chain)
          BY <1>2, <1>5, <3>2, <4>1
      <4>3. Len(u2'.chain) - Len(u3') + 1 + i = k
          BY <1>2, <1>5, <1>6
      <4> HIDE DEF k
      <4> QED BY <1>5, <1>6, <4>1, <4>2, <4>3
    <3> QED BY <1>2, <3>1, <3>2
  <2>2. 1 .. Len(u3') - 1 = 1 .. n
      BY <1>2, <1>6
  <2>3. u2'.peer = u3'[Len(u3')]
      BY <1>4, <1>6
  <2> QED BY <2>1, <2>2, <2>3 DEF Traced
<1>8. \A i \in DOMAIN u3' : u3'[i] \in Clients \union Edges
    BY <1>1, <1>2
<1>9. u2'.first \in 0 .. Len(u2'.chain)
  <2>1. u2'.first = IF joins THEN Len(u2.chain) + 1 ELSE u2.first
      BY <1>1, <1>2
  <2>2. u2.first \in 0 .. Len(u2.chain)
      BY DEF ChainIInv
  <2> QED BY <1>5, <2>1, <2>2
<1> QED BY <1>1, <1>2, <1>4, <1>5, <1>6, <1>7, <1>8, <1>9 DEF ChainIInv, Traced

(* At the application the whole chain of real connections is there.                     *)
LEMMA ArriveKeeps ==
    ASSUME ChainIInv, Chain!ForwardedAssumption, Chain!Arrive
    PROVE  ChainIInv'
<1>1. /\ u4.at = "edge" /\ u1' = u1 /\ u2' = u2 /\ u3' = u3
      /\ u4' = [at |-> "application", list |-> u1, client |-> Chain!client_ip_trusted(u2, u1),
                last |-> Chain!client_ip(u2), normalized |-> FALSE]
    BY DEF Chain!Arrive, Chain!Decides
<1>2. /\ u2.chain \in Seq(Addresses) /\ u3 \in Seq(Addresses) /\ Len(u3) >= 1 /\ Traced(1)
      /\ 1 \in 1 .. Len(u3)
    BY <1>1 DEF ChainIInv
<1>3. Decided'
  <2>1. u4'.list = u1 /\ u4'.client = Chain!client_ip_trusted(u2, u1)
      BY <1>1
  <2> QED BY <1>1, <1>2, <2>1, DecidesOfTheReal
<1>4. Traced(1)' /\ u4'.at = "application" /\ u4'.normalized = FALSE
      /\ DOMAIN u4' = {"at", "list", "client", "last", "normalized"}
    BY <1>1, <1>2 DEF Traced
<1> QED BY <1>1, <1>3, <1>4 DEF ChainIInv

(* A decision stands while the real connections and the list do.                        *)
LEMMA DecisionStands ==
    ASSUME Decided, u3' = u3, u4'.list = u4.list, u4'.client = u4.client
    PROVE  Decided'
<1>1. (Chain!Doubted)' = Chain!Doubted
    BY DEF Chain!Doubted, Chain!Believed, Chain!Matched, Chain!matches_proxy, Chain!Masked,
           Chain!Everyone
<1> QED BY <1>1 DEF Decided, Chain!SensibleList, Chain!Max

(* After normalize_client_ip the decision is what is left.                              *)
LEMMA NormalizeKeeps ==
    ASSUME ChainIInv, Chain!Normalize
    PROVE  ChainIInv'
<1>1. /\ u4.at = "application" /\ u1' = u1 /\ u3' = u3
      /\ u2' = [u2 EXCEPT !.chain = <<>>, !.first = 0, !.real = u4.client]
      /\ u4' = [u4 EXCEPT !.normalized = TRUE]
    BY DEF Chain!Normalize
<1>2. /\ DOMAIN u2 = {"peer", "chain", "first", "real", "proto", "host", "forwarded_host"}
      /\ DOMAIN u4 = {"at", "list", "client", "last", "normalized"} /\ Decided
      /\ u2.peer = u3[Len(u3)]
    BY <1>1 DEF ChainIInv
<1>3. /\ DOMAIN u2' = DOMAIN u2 /\ u2'.chain = <<>> /\ u2'.first = 0 /\ u2'.host = u2.host
      /\ u2'.forwarded_host = u2.forwarded_host /\ u2'.peer = u2.peer
    BY <1>1, <1>2
<1>4. /\ u4'.at = u4.at /\ u4'.list = u4.list /\ u4'.client = u4.client
      /\ u4'.normalized = TRUE /\ DOMAIN u4' = DOMAIN u4
    BY <1>1, <1>2
<1>5. Decided'
    BY <1>1, <1>2, <1>4, DecisionStands
<1>6. u2'.chain \in Seq(Addresses) /\ u2'.first \in 0 .. Len(u2'.chain)
    BY <1>3
<1> QED BY <1>1, <1>2, <1>3, <1>4, <1>5, <1>6 DEF ChainIInv

(* A request that is dropped has no decision.                                           *)
LEMMA DroppedKeeps ==
    ASSUME ChainIInv, Chain!NormalizeUnknown \/ Chain!BadGateway
    PROVE  ChainIInv'
<1>1. /\ u3' = u3 /\ u4' = [at |-> "dropped"]
      /\ u2' = u2 \/ u2' = [u2 EXCEPT !.chain = <<>>, !.first = 0, !.real = None]
    BY DEF Chain!NormalizeUnknown, Chain!BadGateway
<1>2. /\ DOMAIN u2 = {"peer", "chain", "first", "real", "proto", "host", "forwarded_host"}
      /\ u2.chain \in Seq(Addresses) /\ u2.first \in 0 .. Len(u2.chain)
      /\ u3 \in Seq(Addresses) /\ Len(u3) >= 1
    BY DEF ChainIInv
<1>3. /\ DOMAIN u2' = DOMAIN u2 /\ u2'.chain \in Seq(Addresses)
      /\ u2'.first \in 0 .. Len(u2'.chain)
  <2>1. CASE u2' = u2
      BY <1>2, <2>1
  <2>2. CASE u2' = [u2 EXCEPT !.chain = <<>>, !.first = 0, !.real = None]
    <3>1. DOMAIN u2' = DOMAIN u2
        BY <2>2
    <3>2. u2'.chain = <<>> /\ u2'.first = 0
        BY <1>2, <2>2
    <3> QED BY <3>1, <3>2
  <2> QED BY <1>1, <2>1, <2>2
<1>4. u4'.at = "dropped"
    BY <1>1
<1> QED BY <1>1, <1>2, <1>3, <1>4 DEF ChainIInv

(* The addresses of the first header are all there are, if there is no other.           *)
LEMMA WholeIsItself ==
    ASSUME NEW chain \in Seq(Addresses), NEW n \in 0 .. Len(chain)
    PROVE  /\ SubSeq(chain, 1, n) \in Seq(Addresses) /\ Len(SubSeq(chain, 1, n)) = n
           /\ n = Len(chain) => SubSeq(chain, 1, n) = chain
OBVIOUS

(* FrontendProxy: the chain goes on behind a peer that is believed, and begins anew     *)
(* behind any other. If it goes on without some headers, the peer is still its end.     *)
LEMMA ForwardKeeps ==
    ASSUME ChainIInv, Chain!ForwardedAssumption, Chain!Forward
    PROVE  ChainIInv'
<1> DEFINE n == Len(u3)
           believed == Chain!is_trusted_proxy(u2.peer, u1)
           kept == SubSeq(u2.chain, 1, u2.first)
<1>1. /\ u4.at = "application" /\ u1' = u1 /\ u3' = Append(u3, Self)
      /\ u4' = [at |-> "forwarded", normalized |-> u4.normalized,
                lost |-> believed /\ u2.first < Len(u2.chain)]
      /\ u2' = [peer |-> Self, real |-> u2.real, host |-> "frontend",
                chain |-> IF believed THEN Append(kept, u2.peer) ELSE <<u2.peer>>,
                first |-> IF believed THEN u2.first + 1 ELSE 1,
                forwarded_host |-> IF believed /\ u2.forwarded_host # None
                                   THEN u2.forwarded_host ELSE u2.host,
                proto |-> IF believed /\ u2.proto # None THEN u2.proto ELSE "https"]
    BY DEF Chain!Forward
<1>2. /\ u2.chain \in Seq(Addresses) /\ u3 \in Seq(Addresses) /\ n \in Nat /\ n >= 1
      /\ u2.first \in 0 .. Len(u2.chain)
      /\ \A i \in DOMAIN u3 : u3[i] \in Clients \union Edges
      /\ u2.forwarded_host = "forged" => n = 1
      /\ u2.host # "forged"
      /\ ~u4.normalized => Traced(1)
      /\ u2.peer = u3[n] /\ u4.normalized \in BOOLEAN
    BY <1>1 DEF ChainIInv
<1>3. Self \in Addresses /\ u2.peer \in Addresses /\ Self \notin Clients \union Edges
    BY <1>2 DEF Chain!ForwardedAssumption, Addresses
<1>4. /\ u2'.peer = Self
      /\ u2'.chain = IF believed THEN Append(kept, u2.peer) ELSE <<u2.peer>>
      /\ u2'.first = IF believed THEN u2.first + 1 ELSE 1
      /\ u2'.forwarded_host = "forged" => believed /\ u2.forwarded_host = "forged"
      /\ DOMAIN u2' = {"peer", "chain", "first", "real", "proto", "host", "forwarded_host"}
      /\ u4'.at = "forwarded" /\ u4'.normalized = u4.normalized
      /\ u4'.lost <=> believed /\ u2.first < Len(u2.chain)
    BY <1>1, <1>2
<1>5. /\ u3' \in Seq(Addresses) /\ Len(u3') = n + 1 /\ u3'[n + 1] = Self
      /\ \A i \in 1 .. n : u3'[i] = u3[i]
    BY <1>1, <1>2, <1>3
<1>6. /\ kept \in Seq(Addresses) /\ Len(kept) = u2.first
      /\ u2.first = Len(u2.chain) => kept = u2.chain
      /\ u2'.chain \in Seq(Addresses) /\ u2'.first \in 0 .. Len(u2'.chain)
  <2>1. /\ kept \in Seq(Addresses) /\ Len(kept) = u2.first
        /\ u2.first = Len(u2.chain) => kept = u2.chain
      BY <1>2, WholeIsItself
  <2> HIDE DEF kept
  <2> QED BY <1>2, <1>3, <1>4, <2>1
<1> HIDE DEF kept
<1>7. Told'
  <2>1. SUFFICES ASSUME u2'.forwarded_host = "forged"
                 PROVE  (Chain!is_trusted_proxy(u3[1], u1))'
      BY DEF Told
  <2>2. believed /\ u2.peer = u3[1] /\ u3'[1] = u3[1]
      BY <1>2, <1>4, <1>5, <2>1
  <2> QED BY <1>1, <2>2 DEF Chain!is_trusted_proxy, Chain!Matched, Chain!matches_proxy,
                            Chain!Masked, Chain!Everyone
<1>8. \A i \in 1 .. Len(u3') - 1 : u3'[i] # Self
    BY <1>2, <1>3, <1>5
<1>9. ASSUME ~u4.normalized
      PROVE  Traced(1)' \/ Cut' \/ (u4'.lost /\ Traced(Len(u3) - 1)')
  <2>1. Traced(1)
      BY <1>2, <1>9
  <2>2. CASE believed /\ u2.first = Len(u2.chain)
    <3>1. /\ u2'.chain = Append(u2.chain, u2.peer)
          /\ Len(u2'.chain) = Len(u2.chain) + 1 /\ Len(u2.chain) \in Nat
          /\ \A i \in 1 .. Len(u2.chain) : u2'.chain[i] = u2.chain[i]
          /\ u2'.chain[Len(u2.chain) + 1] = u3[n]
        BY <1>2, <1>3, <1>4, <1>6, <2>2
    <3>2. ASSUME NEW i \in 1 .. n
          PROVE  /\ Len(u2'.chain) - Len(u3') + 1 + i >= 1
                 /\ u2'.chain[Len(u2'.chain) - Len(u3') + 1 + i] = u3'[i]
      <4>1. CASE i = n
          BY <1>2, <1>5, <3>1, <4>1
      <4>2. CASE i \in 1 .. n - 1
        <5> DEFINE k == Len(u2.chain) - n + 1 + i
        <5>1. k >= 1 /\ u2.chain[k] = u3[i]
            BY <1>2, <2>1, <4>2 DEF Traced
        <5>2. k \in 1 .. Len(u2.chain)
            BY <1>2, <3>1, <4>2, <5>1
        <5>3. Len(u2'.chain) - Len(u3') + 1 + i = k
            BY <1>2, <1>5, <3>1
        <5> HIDE DEF k
        <5> QED BY <1>5, <3>1, <5>1, <5>2, <5>3
      <4> QED BY <1>2, <4>1, <4>2
    <3>3. 1 .. Len(u3') - 1 = 1 .. n /\ u2'.peer = u3'[Len(u3')]
        BY <1>2, <1>4, <1>5
    <3> QED BY <3>2, <3>3 DEF Traced
  <2>3. ASSUME ~(believed /\ u2.first = Len(u2.chain))
        PROVE  Traced(Len(u3) - 1)'
    <3>1. /\ Len(u2'.chain) \in Nat /\ Len(u2'.chain) >= 1
          /\ u2'.chain[Len(u2'.chain)] = u3[n] /\ u2'.peer = u3'[Len(u3')]
      <4>1. CASE believed
          BY <1>2, <1>3, <1>4, <1>5, <1>6, <4>1
      <4>2. CASE ~believed
          BY <1>2, <1>4, <1>5, <4>2
      <4> QED BY <4>1, <4>2
    <3>2. \A i \in Len(u3') - 1 .. Len(u3') - 1 : i = n
        BY <1>2, <1>5
    <3>3. Len(u2'.chain) - Len(u3') + 1 + n = Len(u2'.chain)
        BY <1>2, <1>5, <3>1
    <3>4. u2'.chain[Len(u2'.chain)] = u3'[n]
        BY <1>2, <1>5, <3>1
    <3> QED BY <3>1, <3>2, <3>3, <3>4 DEF Traced
  <2>4. CASE believed /\ u2.first # Len(u2.chain)
    <3>1. u4'.lost
        BY <1>2, <1>4, <2>4
    <3> QED BY <2>3, <2>4, <3>1
  <2>5. CASE ~believed
    <3>1. ~(Chain!is_trusted_proxy(u3[Len(u3) - 1], u1))'
      <4>1. u3'[Len(u3') - 1] = u2.peer
          BY <1>2, <1>5
      <4> QED BY <1>1, <2>5, <4>1 DEF Chain!is_trusted_proxy, Chain!Matched, Chain!matches_proxy,
                                      Chain!Masked, Chain!Everyone
    <3> QED BY <2>3, <2>5, <3>1 DEF Cut
  <2> QED BY <2>2, <2>4, <2>5
<1>10. Len(u3') >= 2 /\ u3'[Len(u3')] = Self
    BY <1>2, <1>5
<1> QED BY <1>2, <1>4, <1>5, <1>6, <1>7, <1>8, <1>9, <1>10 DEF ChainIInv

(* The server behind trusts this server alone, or its proxies too: where the chain was  *)
(* begun anew its first address is one that neither list has, and where a part of it    *)
(* was lost its last one decides unless that is believed.                               *)
LEMMA ArriveBehindKeeps ==
    ASSUME ChainIInv, NEW list \in {u1 \union {Chain!Exact(Self)}, {Chain!Exact(Self)}},
           Chain!ArriveBehind(list)
    PROVE  ChainIInv'
<1> DEFINE n == Len(u3)
<1>1. /\ u4.at = "forwarded" /\ u1' = u1 /\ u2' = u2 /\ u3' = u3
      /\ u4' = [at |-> "behind", list |-> list, client |-> Chain!client_ip_trusted(u2, list),
                last |-> Chain!client_ip(u2), normalized |-> u4.normalized, lost |-> u4.lost]
    BY DEF Chain!ArriveBehind
<1>2. /\ u2.chain \in Seq(Addresses) /\ u3 \in Seq(Addresses) /\ n \in Nat /\ n >= 2
      /\ \A i \in 1 .. n - 1 : u3[i] # Self
      /\ Told /\ (~u4.normalized => Traced(1) \/ Cut \/ (u4.lost /\ Traced(n - 1)))
      /\ u4.normalized \in BOOLEAN
    BY <1>1 DEF ChainIInv
<1>3. /\ u4'.at = "behind" /\ u4'.normalized = u4.normalized /\ u4'.list = list
      /\ u4'.lost = u4.lost
      /\ u4'.client = Chain!client_ip_trusted(u2, list)
    BY <1>1
<1>4. Told'
    BY <1>1, <1>2 DEF Told, Chain!is_trusted_proxy, Chain!Matched, Chain!matches_proxy,
                      Chain!Masked, Chain!Everyone
<1>5. ASSUME Traced(1) PROVE Decided'
  <2>1. 1 \in 1 .. n /\ n >= 1
      BY <1>2
  <2> QED BY <1>1, <1>2, <1>3, <1>5, <2>1, DecidesOfTheReal
<1>6. ASSUME Cut PROVE Decided'
  <2>1. n - 1 \in 1 .. n /\ n - 1 < n /\ Traced(n - 1) /\ n >= 1 /\ u3[n - 1] # Self
      BY <1>2, <1>6 DEF Cut
  <2>2. ~Chain!Matched(u3[n - 1], u1)
      BY <1>6 DEF Cut, Chain!is_trusted_proxy
  <2>3. ~Chain!matches_proxy(u3[n - 1], Chain!Exact(Self))
      BY <2>1 DEF Chain!matches_proxy, Chain!Exact
  <2>4. ~Chain!Matched(u3[n - 1], list)
      BY <2>2, <2>3 DEF Chain!Matched
  <2> QED BY <1>1, <1>2, <1>3, <2>1, <2>4, DecidesOfTheReal
<1>7. ASSUME u4.lost, Traced(n - 1), ~(Chain!Forgotten)' PROVE Decided'
  <2>1. ~(Chain!Believed(Len(u3) - 1))'
      BY <1>3, <1>7 DEF Chain!Forgotten
  <2>2. ~Chain!Matched(u3[n - 1], list)
      BY <1>1, <1>3, <2>1 DEF Chain!Believed, Chain!Matched, Chain!matches_proxy, Chain!Masked
  <2>3. n - 1 \in 1 .. n /\ n - 1 < n /\ n >= 1
      BY <1>2
  <2> QED BY <1>1, <1>2, <1>3, <1>7, <2>2, <2>3, DecidesOfTheReal
<1>8. ~u4'.normalized /\ ~(Chain!Forgotten)' => Decided'
    BY <1>2, <1>3, <1>5, <1>6, <1>7
<1>9. DOMAIN u2' = {"peer", "chain", "first", "real", "proto", "host", "forwarded_host"}
    BY <1>1 DEF ChainIInv
<1>10. u2'.first \in 0 .. Len(u2'.chain)
    BY <1>1 DEF ChainIInv
<1> QED BY <1>1, <1>2, <1>3, <1>4, <1>8, <1>9, <1>10 DEF ChainIInv

(* Every step of a request keeps the trace of its connections.                          *)
LEMMA ChainKeeps ==
    ASSUME ChainIInv, Chain!ForwardedAssumption, Chain!Next
    PROVE  ChainIInv'
<1>1. \/ \E p \in Edges, joins \in BOOLEAN : Chain!Edge(p, joins)
      \/ Chain!Arrive \/ Chain!Normalize \/ Chain!NormalizeUnknown \/ Chain!Forward
      \/ Chain!BadGateway
      \/ \E list \in {u1 \union {Chain!Exact(Self)}, {Chain!Exact(Self)}} :
             Chain!ArriveBehind(list)
    BY DEF Chain!Next
<1> QED BY <1>1, EdgeKeeps, ArriveKeeps, NormalizeKeeps, DroppedKeeps, ForwardKeeps,
           ArriveBehindKeeps

(* And so does a step of nothing.                                                       *)
LEMMA ChainStutters ==
    ASSUME ChainIInv, u1' = u1, u2' = u2, u3' = u3, u4' = u4
    PROVE  ChainIInv'
<1>1. (Chain!Doubted)' = Chain!Doubted
    BY DEF Chain!Doubted, Chain!Believed, Chain!Matched, Chain!matches_proxy, Chain!Masked,
           Chain!Everyone
<1>2. (Decided <=> Decided') /\ (Told <=> Told') /\ (Cut <=> Cut') /\ (Traced(1) <=> Traced(1)')
    BY <1>1 DEF Decided, Told, Cut, Traced, Chain!SensibleList, Chain!Max, Chain!is_trusted_proxy,
                Chain!Matched, Chain!matches_proxy, Chain!Masked, Chain!Everyone
<1>3. Traced(Len(u3) - 1) <=> Traced(Len(u3) - 1)'
    BY DEF Traced
<1>4. Chain!Forgotten <=> (Chain!Forgotten)'
    BY DEF Chain!Forgotten, Chain!Believed, Chain!Matched, Chain!matches_proxy, Chain!Masked,
           Chain!Everyone
<1> QED BY <1>2, <1>3, <1>4 DEF ChainIInv, Addresses

(* What is decided for a server is what the property says of it.                        *)
LEMMA ChainHolds ==
    ASSUME ChainIInv
    PROVE  Chain!TypeOK /\ Chain!DecidesARealHop
<1>1. Chain!TypeOK
  <2>1. u2.chain \in Seq(Addresses) /\ u3 \in Seq(Addresses)
      BY DEF ChainIInv
  <2>2. Chain!ToSet(u2.chain) \subseteq Addresses /\ Chain!ToSet(u3) \subseteq Addresses
      BY <2>1 DEF Chain!ToSet
  <2>3. /\ u4.at \in {"edge", "application", "forwarded", "behind", "dropped"}
        /\ u2.first \in 0 .. Len(u2.chain)
      BY DEF ChainIInv
  <2> QED BY <2>2, <2>3 DEF Chain!TypeOK, Addresses
<1>2. ASSUME u4.at \in {"application", "behind"}, Chain!SensibleList,
             u4.at = "behind" => ~u4.normalized /\ ~Chain!Forgotten
      PROVE  u4.client = u3[Chain!Max(Chain!Doubted)]
  <2>1. Decided
      BY <1>2 DEF ChainIInv
  <2> QED BY <1>2, <2>1 DEF Decided
<1>3. ASSUME u4.at = "behind", u2.forwarded_host = "forged"
      PROVE  Chain!is_trusted_proxy(u3[1], u1)
    BY <1>3 DEF ChainIInv, Told
<1> QED BY <1>1, <1>2, <1>3 DEF Chain!DecidesARealHop

-----------------------------------------------------------------------------------
(* The two parts about addresses.                                                       *)

AddressesIInv == /\ part = "chain" => ChainIInv
                 /\ part = "limiter" => LimiterIInv

(* For every set of addresses, every width of them, every list of trusted proxies and   *)
(* every chain a client can write, the address client_ip_trusted decides is that of a   *)
(* real connection; and for every limit no address gets more through a window than it. *)
THEOREM AddressesAreSafe == Spec => []AddressesAreReal
<1>1. Init => AddressesIInv
  <2>1. Chain!ForwardedAssumption /\ Limiter!LimiterAssumption
      BY InstanceAssumptions
  <2>2. ASSUME Init, part = "chain" PROVE ChainIInv
    <3>1. Chain!Init
        BY <2>2 DEF Init
    <3> QED BY <2>1, <3>1, ChainInit
  <2>3. ASSUME Init, part = "limiter" PROVE LimiterIInv
    <3>1. Limiter!Init
        BY <2>3 DEF Init
    <3> QED BY <2>1, <3>1, LimiterInit
  <2> QED BY <2>2, <2>3 DEF AddressesIInv
<1>2. AddressesIInv /\ [Next]_<<part, state>> => AddressesIInv'
  <2> SUFFICES ASSUME AddressesIInv, [Next]_<<part, state>> PROVE AddressesIInv'
      OBVIOUS
  <2>1. Chain!ForwardedAssumption /\ Limiter!LimiterAssumption
      BY InstanceAssumptions
  <2>2. CASE UNCHANGED <<part, state>>
    <3>1. /\ part' = part /\ u1' = u1 /\ u2' = u2 /\ u3' = u3 /\ u4' = u4
        BY <2>2 DEF state
    <3>2. ChainIInv => ChainIInv'
        BY <3>1, ChainStutters
    <3>3. LimiterIInv => LimiterIInv'
        BY <3>1 DEF LimiterIInv, Limiter!TypeOK, Numbered, IsRunning, Runs, Quiet, Running, Before,
                    Limiter!Silent, Limiter!Ages
    <3> QED BY <3>1, <3>2, <3>3 DEF AddressesIInv
  <2>3. CASE Next
    <3>1. part' = part
        BY <2>3 DEF Next
    <3>2. ASSUME part = "chain" PROVE ChainIInv'
      <4>1. Chain!Next
          BY <2>3, <3>2 DEF Next
      <4> QED BY <2>1, <3>2, <4>1, ChainKeeps DEF AddressesIInv
    <3>3. ASSUME part = "limiter" PROVE LimiterIInv'
      <4>1. Limiter!Next
          BY <2>3, <3>3 DEF Next
      <4> QED BY <2>1, <3>3, <4>1, LimiterKeeps DEF AddressesIInv
    <3> QED BY <3>1, <3>2, <3>3 DEF AddressesIInv
  <2> QED BY <2>2, <2>3
<1>3. AddressesIInv => AddressesAreReal
  <2>1. part = "chain" /\ AddressesIInv => Chain!TypeOK /\ Chain!DecidesARealHop
      BY ChainHolds DEF AddressesIInv
  <2>2. part = "limiter" /\ AddressesIInv => Limiter!TypeOK /\ Limiter!RateLimited
      BY InstanceAssumptions, LimiterHolds DEF AddressesIInv
  <2> QED BY <2>1, <2>2 DEF AddressesAreReal
<1> QED BY <1>1, <1>2, <1>3, PTL DEF Spec

-----------------------------------------------------------------------------------
(* Access. Past the firewall the path is one that both sides read the same way, and    *)
(* what the rule for it asks for was there; the token may expire, its key and its roles *)
(* stay.                                                                                *)

Permitted(path) == LET d == Access!decision(path) IN
                   /\ d.kind # "deny"
                   /\ d.kind = "require" => Access!Genuine /\ (d.roles = {} \/ Access!Holds(d.roles))

Cleared == ~Access!Unsafe(u2.path) /\ Permitted(Access!canonical_path(u2.path))

Succeeded == u3.at = "answered" /\ u3.status = 200

Asked == \A role \in {Access!effective_role(u3.declared), u3.declared.group} \ {None} :
             Access!Genuine /\ Access!Holds({role})

(* What the macro writes into a handler is what the declaration asks for. *)
LEMMA MacroAsksForIt ==
    ASSUME NEW d
    PROVE  Access!AsksFor(d) = {Access!effective_role(d), d.group} \ {None}
BY DEF Access!AsksFor, Access!Unread, Access!effective_role

AccessIInv ==
    /\ Access!TypeOK
    /\ u1.at = "running" => u1.key \in {"empty", "app"}
    /\ u3.at # "none" => /\ u1.at = "running"
                         /\ DOMAIN u2 = {"path", "token"}
                         /\ DOMAIN u2.token = {"key", "fresh", "roles"}
    /\ u3.at \in {"routing", "handler"} \/ Succeeded => Cleared
    /\ u3.at = "handler" =>
           /\ Access!Compiles(u3.declared)
           /\ u3.declared.group # None => Access!Genuine /\ Access!Holds({u3.declared.group})
    /\ Succeeded => Asked

(* A token the manager accepts is one of the application's own key.                     *)
LEMMA VerifiedIsGenuine ==
    ASSUME u1.key \in {"empty", "app"}, Access!verify(u2.token)
    PROVE  Access!Genuine
BY DEF Access!verify, Access!Genuine

(* Roles, as the guard asks for them and as the property does.                          *)
LEMMA HasIsHolds ==
    /\ \A role : Access!has_role(u2.token, role) <=> Access!Holds({role})
    /\ \A roles : (\E r \in roles : Access!has_role(u2.token, r)) <=> Access!Holds(roles)
BY DEF Access!has_role, Access!Holds

(* A file handler finds what the firewall judged, whichever separators it knows, but for *)
(* a path with a backslash that it takes for a byte.                                    *)
LEMMA ServesTheJudged ==
    ASSUME ~Access!Unsafe(u2.path)
    PROVE  \A separators \in {{"/"}, {"/", "\\"}} : \A path \in Access!ServedPaths(separators) :
               \/ Access!Backslashed /\ separators = {"/"}
               \/ path = Access!canonical_path(u2.path)
<1> DEFINE bytes == Access!Decoded(u2.path)
           both == Access!Split(bytes, {"/", "\\"})
<1>1. /\ Access!BadEscape \notin Access!ToSet(u2.path)
      /\ <<".", ".">> \notin Access!ToSet(both)
    BY DEF Access!Unsafe
<1>2. Access!canonical_path(u2.path) = Access!Join(Access!Named(both), Access!Last(bytes) = "/")
    BY DEF Access!canonical_path
<1>3. Access!ServedPaths({"/", "\\"}) = {Access!canonical_path(u2.path)}
  <2> HIDE DEF both
  <2>1. Access!ServedPaths({"/", "\\"}) =
            IF Access!BadEscape \in Access!ToSet(u2.path) \/ <<".", ".">> \in Access!ToSet(both)
            THEN {} ELSE {Access!Join(Access!Named(both), Access!Last(bytes) = "/")}
      BY DEF Access!ServedPaths, both
  <2> QED BY <1>1, <1>2, <2>1
<1>4. ASSUME "\\" \notin Access!ToSet(bytes)
      PROVE  Access!ServedPaths({"/"}) = Access!ServedPaths({"/", "\\"})
  <2>1. \A i \in DOMAIN bytes : bytes[i] # "\\"
      BY <1>4 DEF Access!ToSet
  <2>2. [i \in DOMAIN bytes |-> [byte |-> bytes[i], separates |-> bytes[i] \in {"/"}]]
            = [i \in DOMAIN bytes |-> [byte |-> bytes[i], separates |-> bytes[i] \in {"/", "\\"}]]
      BY <2>1
  <2>3. Access!Split(bytes, {"/"}) = both
      BY <2>2 DEF Access!Split
  <2> QED BY <2>3 DEF Access!ServedPaths
<1> QED BY <1>3, <1>4 DEF Access!Backslashed

LEMMA AccessHolds ==
    ASSUME AccessIInv
    PROVE  Access!TypeOK /\ Access!ReachesWhatItMay
<1>1. ASSUME Succeeded, NEW separators \in {{"/"}, {"/", "\\"}},
             NEW path \in Access!ServedPaths(separators), ~(Access!Backslashed /\ separators = {"/"})
      PROVE  LET d == Access!decision(path) IN
             /\ d.kind # "deny"
             /\ d.kind = "require" => Access!Genuine /\ (d.roles = {} \/ Access!Holds(d.roles))
  <2>1. Cleared
      BY <1>1 DEF AccessIInv
  <2>2. path = Access!canonical_path(u2.path)
      BY <1>1, <2>1, ServesTheJudged DEF Cleared
  <2> QED BY <2>1, <2>2 DEF Cleared, Permitted
<1>2. Succeeded => Asked
    BY DEF AccessIInv
<1>3. Access!TypeOK
    BY DEF AccessIInv
<1> QED BY <1>1, <1>2, <1>3, MacroAsksForIt DEF Access!ReachesWhatItMay, Succeeded, Asked

LEMMA AccessInit ==
    ASSUME Access!Init
    PROVE  AccessIInv
<1>1. u1.at = "starting" /\ u3.at = "none"
    BY DEF Access!Init
<1> QED BY <1>1 DEF AccessIInv, Access!TypeOK, Succeeded

(* What was asked for stays, while the application, the path and the token's key and    *)
(* roles do.                                                                            *)
LEMMA PermissionStands ==
    ASSUME u1' = u1, u2'.path = u2.path, u2'.token.key = u2.token.key,
           u2'.token.roles = u2.token.roles
    PROVE  /\ Cleared <=> Cleared'
           /\ Access!Genuine <=> Access!Genuine'
           /\ \A roles : Access!Holds(roles) <=> Access!Holds(roles)'
<1>1. Access!Genuine <=> Access!Genuine'
    BY DEF Access!Genuine
<1>2. \A roles : Access!Holds(roles) <=> Access!Holds(roles)'
    BY DEF Access!Holds
<1>3. \A path : (Access!decision(path))' = Access!decision(path)
    BY DEF Access!decision, Access!Matching
<1>4. \A path : Permitted(path) <=> Permitted(path)'
    BY <1>1, <1>2, <1>3 DEF Permitted
<1>5. Cleared <=> Cleared'
    BY <1>4 DEF Cleared
<1> QED BY <1>1, <1>2, <1>5

(* An answer that is not the handler's own promises nothing.                            *)
LEMMA RefusalKeeps ==
    ASSUME AccessIInv, u3.at # "none", NEW status \in {400, 401, 403, 404},
           Access!Answers(status)
    PROVE  AccessIInv'
<1>1. u1' = u1 /\ u2' = u2 /\ u3' = [at |-> "answered", status |-> status]
    BY DEF Access!Answers
<1>2. u3'.at = "answered" /\ u3'.status = status /\ status # 200
    BY <1>1
<1> QED BY <1>1, <1>2 DEF AccessIInv, Access!TypeOK, Succeeded

(* The firewall lets on to the routes only what its rule permits.                       *)
LEMMA EnforceKeeps ==
    ASSUME AccessIInv, Access!Enforce
    PROVE  AccessIInv'
<1> DEFINE d == Access!decision(Access!canonical_path(u2.path))
           listed == \E r \in d.roles : Access!has_role(u2.token, r)
<1>1. u3.at = "firewall" /\ u1.at = "running" /\ u1.key \in {"empty", "app"}
    BY DEF AccessIInv, Access!Enforce
<1>2. \/ \E status \in {400, 401, 403, 404} : Access!Answers(status)
      \/ /\ ~Access!Unsafe(u2.path) /\ d.kind # "deny"
         /\ d.kind = "require" => Access!verify(u2.token) /\ (d.roles = {} \/ listed)
         /\ u3' = [at |-> "routing"] /\ UNCHANGED <<u1, u2>>
  <2>1. CASE Access!Unsafe(u2.path)
      BY <2>1 DEF Access!Enforce
  <2>2. CASE ~Access!Unsafe(u2.path)
    <3>1. CASE d.kind = "deny"
        BY <2>2, <3>1 DEF Access!Enforce
    <3>2. CASE d.kind = "require" /\ ~Access!verify(u2.token)
        BY <2>2, <3>2 DEF Access!Enforce
    <3>3. CASE d.kind = "require" /\ Access!verify(u2.token) /\ d.roles # {} /\ ~listed
        BY <2>2, <3>3 DEF Access!Enforce
    <3>4. CASE /\ d.kind # "deny"
               /\ ~(d.kind = "require" /\ ~Access!verify(u2.token))
               /\ ~(d.kind = "require" /\ Access!verify(u2.token) /\ d.roles # {} /\ ~listed)
      <4>1. u3' = [at |-> "routing"] /\ UNCHANGED <<u1, u2>>
          BY <2>2, <3>4 DEF Access!Enforce
      <4> QED BY <2>2, <3>4, <4>1
    <3> QED BY <3>1, <3>2, <3>3, <3>4
  <2> QED BY <2>1, <2>2
<1>3. CASE \E status \in {400, 401, 403, 404} : Access!Answers(status)
    BY <1>1, <1>3, RefusalKeeps
<1>4. CASE /\ ~Access!Unsafe(u2.path) /\ d.kind # "deny"
           /\ d.kind = "require" => Access!verify(u2.token) /\ (d.roles = {} \/ listed)
           /\ u3' = [at |-> "routing"] /\ UNCHANGED <<u1, u2>>
  <2>1. d.kind = "require" => Access!Genuine /\ (d.roles = {} \/ Access!Holds(d.roles))
      BY <1>1, <1>4, VerifiedIsGenuine, HasIsHolds
  <2>2. Cleared
      BY <1>4, <2>1 DEF Cleared, Permitted
  <2>3. Cleared'
      BY <1>4, <2>2, PermissionStands
  <2>4. u3'.at = "routing"
      BY <1>4
  <2> QED BY <1>1, <1>4, <2>3, <2>4 DEF AccessIInv, Access!TypeOK, Succeeded
<1> QED BY <1>2, <1>3, <1>4

(* The group's middleware stands before the handler.                                    *)
LEMMA RoutedKeeps ==
    ASSUME AccessIInv, NEW d, Access!Routed(d)
    PROVE  AccessIInv'
<1>1. u3.at = "routing" /\ u1.at = "running" /\ u1.key \in {"empty", "app"} /\ Access!Compiles(d)
    BY DEF AccessIInv, Access!Routed
<1>2. \/ \E status \in {400, 401, 403, 404} : Access!Answers(status)
      \/ /\ d.group # None => Access!verify(u2.token) /\ Access!has_role(u2.token, d.group)
         /\ u3' = [at |-> "handler", declared |-> d] /\ UNCHANGED <<u1, u2>>
  <2>1. CASE d.group # None /\ ~Access!verify(u2.token)
      BY <2>1 DEF Access!Routed
  <2>2. CASE d.group # None /\ Access!verify(u2.token) /\ ~Access!has_role(u2.token, d.group)
      BY <2>2 DEF Access!Routed
  <2>3. CASE d.group # None => Access!verify(u2.token) /\ Access!has_role(u2.token, d.group)
      BY <2>3 DEF Access!Routed
  <2> QED BY <2>1, <2>2, <2>3
<1>3. CASE \E status \in {400, 401, 403, 404} : Access!Answers(status)
    BY <1>1, <1>3, RefusalKeeps
<1>4. CASE /\ d.group # None => Access!verify(u2.token) /\ Access!has_role(u2.token, d.group)
           /\ u3' = [at |-> "handler", declared |-> d] /\ UNCHANGED <<u1, u2>>
  <2>1. d.group # None => Access!Genuine /\ Access!Holds({d.group})
      BY <1>1, <1>4, VerifiedIsGenuine, HasIsHolds
  <2>2. Cleared /\ u3'.at = "handler" /\ u3'.declared = d
      BY <1>1, <1>4 DEF AccessIInv
  <2>3. Cleared' /\ (d.group # None => Access!Genuine' /\ Access!Holds({d.group})')
      BY <1>4, <2>1, <2>2, PermissionStands
  <2>4. Access!Compiles(d)'
      BY <1>1 DEF Access!Compiles, Access!effective_role
  <2> QED BY <1>1, <1>4, <2>2, <2>3, <2>4 DEF AccessIInv, Access!TypeOK, Succeeded
<1> QED BY <1>2, <1>3, <1>4

(* A declared role was compiled together with the guard that checks it.                 *)
LEMMA HandlerKeeps ==
    ASSUME AccessIInv, Access!Handler
    PROVE  AccessIInv'
<1> DEFINE d == u3.declared
           role == Access!effective_role(d)
<1>1. /\ u3.at = "handler" /\ u1.at = "running" /\ u1.key \in {"empty", "app"} /\ Cleared
      /\ role # None => d.guard
      /\ d.group # None => Access!Genuine /\ Access!Holds({d.group})
    BY DEF AccessIInv, Access!Handler, Access!Compiles
<1>2. \/ \E status \in {400, 401, 403, 404} : Access!Answers(status)
      \/ /\ d.guard => Access!verify(u2.token)
         /\ d.guard /\ role # None => Access!has_role(u2.token, role)
         /\ u3' = [at |-> "answered", status |-> 200, declared |-> d] /\ UNCHANGED <<u1, u2>>
    BY DEF Access!Handler
<1>3. CASE \E status \in {400, 401, 403, 404} : Access!Answers(status)
    BY <1>1, <1>3, RefusalKeeps
<1>4. CASE /\ d.guard => Access!verify(u2.token)
           /\ d.guard /\ role # None => Access!has_role(u2.token, role)
           /\ u3' = [at |-> "answered", status |-> 200, declared |-> d] /\ UNCHANGED <<u1, u2>>
  <2>1. role # None => Access!Genuine /\ Access!Holds({role})
      BY <1>1, <1>4, VerifiedIsGenuine, HasIsHolds
  <2>2. /\ Cleared'
        /\ role # None => Access!Genuine' /\ Access!Holds({role})'
        /\ d.group # None => Access!Genuine' /\ Access!Holds({d.group})'
      BY <1>1, <1>4, <2>1, PermissionStands
  <2>3. u3'.at = "answered" /\ u3'.status = 200 /\ u3'.declared = d
      BY <1>4
  <2>4. Asked'
      BY <2>2, <2>3 DEF Asked, Access!effective_role
  <2> QED BY <1>1, <1>4, <2>2, <2>3, <2>4 DEF AccessIInv, Access!TypeOK, Succeeded
<1> QED BY <1>2, <1>3, <1>4

(* The start of the application, a request, and the passing of time.                    *)
LEMMA OthersKeep ==
    ASSUME AccessIInv,
           Access!Serve \/ Access!Expires \/ Access!NotFound \/ (\E path, token : 
               Access!Receive(path, token) /\ DOMAIN token = {"key", "fresh", "roles"})
    PROVE  AccessIInv'
<1>1. CASE Access!Serve
  <2>1. u1.at = "starting" /\ u2' = u2 /\ u3' = u3 /\ u3.at = "none"
      BY <1>1 DEF Access!Serve, AccessIInv
  <2>2. u1'.at = "refused" \/ (u1'.at = "running" /\ u1'.key \in {"empty", "app"})
      BY <1>1 DEF Access!Serve
  <2> QED BY <2>1, <2>2 DEF AccessIInv, Access!TypeOK, Succeeded
<1>2. CASE Access!Expires
  <2>1. /\ u3.at \in {"routing", "handler"} /\ u1' = u1 /\ u3' = u3
        /\ u2' = [u2 EXCEPT !.token.fresh = FALSE]
        /\ DOMAIN u2 = {"path", "token"} /\ DOMAIN u2.token = {"key", "fresh", "roles"}
      BY <1>2 DEF Access!Expires, AccessIInv
  <2>2. /\ u2'.path = u2.path /\ u2'.token.key = u2.token.key
        /\ u2'.token.roles = u2.token.roles
        /\ DOMAIN u2' = {"path", "token"} /\ DOMAIN u2'.token = {"key", "fresh", "roles"}
      BY <2>1
  <2>3. Cleared'
      BY <2>1, <2>2, PermissionStands DEF AccessIInv
  <2>4. ASSUME u3.at = "handler", NEW role, role = u3.declared.group, role # None
        PROVE  Access!Genuine' /\ Access!Holds({role})'
    <3>1. Access!Genuine /\ Access!Holds({role})
        BY <2>4 DEF AccessIInv
    <3> QED BY <2>1, <2>2, <3>1, PermissionStands
  <2> QED BY <2>1, <2>2, <2>3, <2>4
          DEF AccessIInv, Access!TypeOK, Succeeded, Access!Compiles, Access!effective_role
<1>3. CASE Access!NotFound
  <2>1. u3.at # "none" /\ Access!Answers(404)
      BY <1>3 DEF Access!NotFound
  <2> QED BY <2>1, RefusalKeeps
<1>4. ASSUME NEW path, NEW token, Access!Receive(path, token),
             DOMAIN token = {"key", "fresh", "roles"}
      PROVE  AccessIInv'
  <2>1. /\ u1.at = "running" /\ u1' = u1 /\ u2' = [path |-> path, token |-> token]
        /\ u3' = [at |-> "firewall"]
      BY <1>4 DEF Access!Receive
  <2>2. DOMAIN u2' = {"path", "token"} /\ u2'.token = token /\ u3'.at = "firewall"
      BY <2>1
  <2> QED BY <1>4, <2>1, <2>2 DEF AccessIInv, Access!TypeOK, Succeeded
<1> QED BY <1>1, <1>2, <1>3, <1>4

(* For every set of roles and of grants among them, and paths of every length: whoever  *)
(* gets a handler's answer had what the first rule for the path, the controller, the    *)
(* method and the group ask for, however the path is written.                           *)
THEOREM NobodyPassesUnasked == Spec => []ReachesWhatItMay
<1> DEFINE I == part = "access" => AccessIInv
<1>1. Init => I
    BY AccessInit DEF Init
<1>2. ASSUME I, [Next]_<<part, state>> PROVE I'
  <2>1. CASE UNCHANGED <<part, state>>
    <3>1. part' = part /\ u1' = u1 /\ u2' = u2 /\ u3' = u3
        BY <2>1 DEF state
    <3>2. ASSUME AccessIInv PROVE AccessIInv'
      <4>1. /\ Cleared <=> Cleared'
            /\ Access!Genuine <=> Access!Genuine'
            /\ \A roles : Access!Holds(roles) <=> Access!Holds(roles)'
          BY <3>1, PermissionStands
      <4>2. Asked <=> Asked'
          BY <3>1, <4>1 DEF Asked, Access!effective_role
      <4> QED BY <3>1, <3>2, <4>1, <4>2
              DEF AccessIInv, Access!TypeOK, Succeeded, Access!Compiles, Access!effective_role
    <3> QED BY <1>2, <3>1, <3>2
  <2>2. ASSUME Next, part = "access", AccessIInv PROVE AccessIInv'
    <3>1. Access!Next
        BY <2>2 DEF Next
    <3>2. \A token \in Access!Given \union Access!Forged : DOMAIN token = {"key", "fresh", "roles"}
        BY DEF Access!Given, Access!Forged, Access!Token
    <3>3. CASE Access!Serve \/ Access!Expires \/ Access!NotFound
        BY <2>2, <3>3, OthersKeep
    <3>4. CASE \/ \E path \in Access!RawPaths, token \in Access!Given : Access!Receive(path, token)
               \/ \E token \in Access!Forged :
                      Access!Receive(<<Access!Plain("/"), Access!Plain("a")>>, token)
        BY <2>2, <3>2, <3>4, OthersKeep
    <3>5. CASE Access!Enforce \/ Access!Handler \/ \E d \in Access!Declarations : Access!Routed(d)
        BY <2>2, <3>5, EnforceKeeps, HandlerKeeps, RoutedKeeps
    <3> QED BY <3>1, <3>3, <3>4, <3>5 DEF Access!Next
  <2>3. Next => part' = part
      BY DEF Next
  <2> QED BY <1>2, <2>1, <2>2, <2>3
<1>3. I => ReachesWhatItMay
    BY AccessHolds DEF ReachesWhatItMay
<1> QED BY <1>1, <1>2, <1>3, PTL DEF Spec
===================================================================================
