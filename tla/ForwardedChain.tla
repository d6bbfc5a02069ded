------------------------------ MODULE ForwardedChain ------------------------------
(* The address of the client behind proxies: client_ip_trusted and its helpers of      *)
(* util/http.rs, the middleware normalize_client_ip of http/middleware/client_ip.rs    *)
(* and the reverse proxy of http/proxy.rs, through which one server stands in front of *)
(* another. The proxies before the application are not part of the framework: each     *)
(* appends the address that connected to it, to the header there is or in one of its   *)
(* own. What a client writes into its headers is its own choice. Addresses are numbers  *)
(* of Width bits.                                                                      *)
EXTENDS Integers, SequencesExt, FiniteSetsExt

CONSTANTS Width,    \* bits of an address: 32, or 128
          Clients, Edges, Self,   \* addresses of clients, of proxies, of this server
          None

(* The server has an address that no client and no proxy before it has. *)
ForwardedAssumption == /\ Width \in Nat
                       /\ Clients \union Edges \union {Self} \subseteq 0 .. 2 ^ Width - 1
                       /\ Self \notin Clients \union Edges

VARIABLES trusted,  \* TRUSTED_PROXIES of the application
          wire,     \* the request: its peer, its headers; chain is what all of its
                    \* X-Forwarded-For headers list, of which first are in the first of them
          hops,     \* history: the addresses it really came through, the client first
          server    \* where it is, and the address that was decided there

forwarding == <<trusted, wire, hops, server>>

Everyone == [kind |-> "*", net |-> 0, prefix |-> 0]
Exact(net) == [kind |-> "exact", net |-> net, prefix |-> Width]
Cidr(net, prefix) == [kind |-> "cidr", net |-> net, prefix |-> prefix]

Entries == {Everyone} \union {Exact(p) : p \in Edges} \union {Cidr(p, Width - 1) : p \in Edges}
               \union {Cidr(0, 0), Cidr(0, Width + 1)}

Init == /\ trusted \in {ts \in SUBSET Entries : Cardinality(ts) <= 2}
        /\ \E c \in Clients, written \in SeqOf(Clients \union Edges, 2),
              first \in 0 .. 2, real \in Clients \union {None}, host \in {None, "forged"} :
              /\ first <= Len(written)
              /\ wire = [peer |-> c, chain |-> written, first |-> first, real |-> real,
                         proto |-> None, host |-> "public", forwarded_host |-> host]
              /\ hops = <<c>>
        /\ server = [at |-> "edge"]

-----------------------------------------------------------------------------------
(* matches_proxy, is_trusted_proxy, client_ip_trusted, client_ip. *)

(* The mask is the shifted maximum; shifting by the whole width gives None, then 0.    *)
Masked(ip, prefix) == ip - (ip % (2 ^ (Width - prefix)))

matches_proxy(ip, entry) ==
    CASE entry.kind = "*" -> FALSE
      [] entry.kind = "exact" -> ip = entry.net
      [] OTHER -> entry.prefix <= Width /\ Masked(ip, entry.prefix) = Masked(entry.net, entry.prefix)

Matched(ip, list) == \E t \in list : matches_proxy(ip, t)

is_trusted_proxy(peer, list) == Everyone \in list \/ Matched(peer, list)

Strangers_Leftmost(chain, list) == {i \in DOMAIN chain : i = 1}

Strangers(chain, list) == {i \in DOMAIN chain : ~Matched(chain[i], list)}

(* From the right, the first entry that is not a trusted proxy; when all of them are,  *)
(* the origin of the chain; then X-Real-IP, then the peer.                             *)
client_ip_trusted(w, list) ==
    IF ~is_trusted_proxy(w.peer, list) THEN w.peer
    ELSE IF Strangers(w.chain, list) # {} THEN w.chain[Max(Strangers(w.chain, list))]
    ELSE IF w.chain # <<>> THEN w.chain[1]
    ELSE IF w.real # None THEN w.real ELSE w.peer

(* client_ip knows no trusted proxies: the last entry. *)
client_ip(w) == IF w.chain # <<>> THEN Last(w.chain)
                ELSE IF w.real # None THEN w.real ELSE w.peer

-----------------------------------------------------------------------------------

(* A proxy in front of the application, which also rewrites Host. It joins the headers  *)
(* into one, or adds its own behind those that are there.                              *)
Edge(p, joins) ==
    /\ server.at = "edge" /\ p \notin ToSet(hops)
    /\ wire' = [wire EXCEPT !.chain = Append(@, wire.peer), !.peer = p,
                            !.first = IF joins THEN Len(wire.chain) + 1 ELSE @,
                            !.host = "upstream", !.forwarded_host = "public"]
    /\ hops' = Append(hops, p)
    /\ UNCHANGED <<trusted, server>>

Decides(at, list) == server' = [at |-> at, list |-> list, client |-> client_ip_trusted(wire, list),
                                last |-> client_ip(wire), normalized |-> FALSE]

Arrive == /\ server.at = "edge"
          /\ Decides("application", trusted)
          /\ UNCHANGED <<trusted, wire, hops>>

(* normalize_client_ip: one header is left, with the address that was decided. *)
Normalize == /\ server.at = "application" /\ ~server.normalized
             /\ wire' = [wire EXCEPT !.chain = <<>>, !.first = 0, !.real = server.client]
             /\ server' = [server EXCEPT !.normalized = TRUE]
             /\ UNCHANGED <<trusted, hops>>

(* The middleware without ConnectInfo does not know the peer: no header is believed.   *)
NormalizeUnknown == /\ server.at = "application" /\ ~server.normalized
                    /\ wire' = [wire EXCEPT !.chain = <<>>, !.first = 0, !.real = None]
                    /\ server' = [at |-> "dropped"]
                    /\ UNCHANGED <<trusted, hops>>

(* FrontendProxy::proxy: the first header of a trusted peer is extended, any other      *)
(* header dropped. The history lost says that one of those had addresses.               *)
Forward ==
    /\ server.at = "application"
    /\ LET believed == is_trusted_proxy(wire.peer, trusted) IN
       /\ wire' = [peer |-> Self, real |-> wire.real, host |-> "frontend",
                   chain |-> IF believed THEN Append(SubSeq(wire.chain, 1, wire.first), wire.peer)
                             ELSE <<wire.peer>>,
                   first |-> IF believed THEN wire.first + 1 ELSE 1,
                   forwarded_host |-> IF believed /\ wire.forwarded_host # None
                                      THEN wire.forwarded_host ELSE wire.host,
                   proto |-> IF believed /\ wire.proto # None THEN wire.proto ELSE "https"]
       /\ server' = [at |-> "forwarded", normalized |-> server.normalized,
                     lost |-> believed /\ wire.first < Len(wire.chain)]
    /\ hops' = Append(hops, Self)
    /\ UNCHANGED trusted

BadGateway == /\ server.at = "application"
              /\ server' = [at |-> "dropped"]
              /\ UNCHANGED <<trusted, wire, hops>>

(* The server behind trusts this one, and the proxies before it or none. *)
ArriveBehind(list) ==
    /\ server.at = "forwarded"
    /\ server' = [at |-> "behind", list |-> list, client |-> client_ip_trusted(wire, list),
                  last |-> client_ip(wire), normalized |-> server.normalized,
                  lost |-> server.lost]
    /\ UNCHANGED <<trusted, wire, hops>>

Next == \/ \E p \in Edges, joins \in BOOLEAN : Edge(p, joins)
        \/ Arrive \/ Normalize \/ NormalizeUnknown \/ Forward \/ BadGateway
        \/ \E list \in {trusted \union {Exact(Self)}, {Exact(Self)}} : ArriveBehind(list)

Spec == Init /\ [][Next]_forwarding

-----------------------------------------------------------------------------------
(* Properties. *)

TypeOK == /\ ToSet(wire.chain) \subseteq 0 .. 2 ^ Width - 1
          /\ wire.first \in 0 .. Len(wire.chain)
          /\ ToSet(hops) \subseteq 0 .. 2 ^ Width - 1
          /\ server.at \in {"edge", "application", "forwarded", "behind", "dropped"}

(* The real connections, seen from the server that decides: with * only the nearest is *)
(* believed whoever it is.                                                             *)
Believed(i) == Matched(hops[i], server.list) \/ (i = Len(hops) /\ Everyone \in server.list)
Doubted == {i \in DOMAIN hops : ~Believed(i)}

(* A client whose own address is in the list is itself believed; with * there has to be *)
(* a proxy in front.                                                                   *)
SensibleList == Doubted # {}

(* What stood before the peer of the application, in headers that its proxy dropped, is *)
(* what decides behind it if that peer is believed there.                              *)
Forgotten == server.at = "behind" /\ server.lost /\ Believed(Len(hops) - 1)

(* However long the chain that the client wrote and over however many headers, the      *)
(* address that is decided is that of a real connection: the nearest one that is not a  *)
(* trusted proxy. The server behind decides the same, unless the application in front   *)
(* of it has normalized and so given up the chain, or has dropped a part of it; and it  *)
(* is told no host that an untrusted client chose.                                     *)
DecidesARealHop ==
    /\ /\ server.at \in {"application", "behind"} /\ SensibleList
       /\ server.at = "behind" => ~server.normalized /\ ~Forgotten
       => server.client = hops[Max(Doubted)]
    /\ server.at = "behind" /\ wire.forwarded_host = "forged" => is_trusted_proxy(hops[1], trusted)
==================================================================================
