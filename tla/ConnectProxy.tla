---------------------------- MODULE ConnectProxy ----------------------------
(***************************************************************************)
(* The proxy sidecar of runtime_assets/codex_connect_proxy.py, up to the   *)
(* relay (module TunnelRelay): the accept loop with its connection slots,  *)
(* and one handler thread per connection that reads the CONNECT header,    *)
(* answers, reads the TLS ClientHello, resolves the host in a subprocess   *)
(* under the resolver slots and connects to one of its global addresses.   *)
(*                                                                         *)
(* Text is abstracted to what the checks tell apart: an authority is a     *)
(* host, the case it is written in, its form and whether its port is 443;  *)
(* a ClientHello is a run of TLS records of some size and the server names *)
(* it carries; an address is global or not.                                *)
(***************************************************************************)
EXTENDS Integers, FiniteSets, Sequences

CONSTANTS Conns,           \* the connections that clients open
          MaxConnections,  \* MAX_CONNECTIONS
          MaxDns,          \* MAX_DNS_PROCESSES
          MaxAddresses,    \* MAX_RESOLVED_ADDRESSES
          MaxHello,        \* MAX_CLIENT_HELLO_BYTES, in units of a record header
          Refused          \* what a check that raises ProxyRequestError yields

ASSUME ProxyBounds == {MaxConnections, MaxDns, MaxAddresses, MaxHello} \subseteq Nat \ {0}

VARIABLES
  handler,    \* handler[c]: where the thread of connection c is
  tunnel,     \* tunnel[c]: what it has found out: host, names seen, target
  connSlots,  \* _slots of the server
  dnsSlots,   \* _DNS_SLOTS
  replies     \* replies[c]: the responses sent to the client of c

proxyVars == <<handler, tunnel, connSlots, dnsSlots, replies>>

(***************************************************************************)
(* The parsers.                                                            *)
(***************************************************************************)
ExactHosts == {"model"}       \* _EXACT_HOSTS and what _CONTENT_HOST matches
TaskHosts == {"task"}         \* _TASK_EXACT_HOSTS, from --allow-host
Hosts == ExactHosts \cup TaskHosts \cup {"other"}
Spelled == [host : Hosts, upper : BOOLEAN]

Lower(name) == name.host

Authorities == [name : Spelled, form : {"dns", "literal"}, port443 : BOOLEAN]

validate_authority(a) ==
  IF a.form = "dns" /\ a.port443 /\ Lower(a.name) \in ExactHosts \cup TaskHosts
  THEN Lower(a.name) ELSE Refused

Headers == [framed : BOOLEAN, connect : BOOLEAN, authority : Authorities]

parse_connect_request(h) ==
  IF h.framed /\ h.connect THEN validate_authority(h.authority) ELSE Refused

(* The names of the server_name extensions, in order: a second one, none or *)
(* one that is not a DNS host name is refused.                              *)
ServerNames == {<<>>} \cup {<<n>> : n \in Spelled}
                 \cup {<<[host |-> "model", upper |-> FALSE], n>> : n \in Spelled}

client_hello_sni(names) == IF Len(names) # 1 THEN Refused ELSE Lower(names[1])

(* resolve_global_targets: the global stream addresses, each once, capped.  *)
Addresses == [id : {1, 2}, global : BOOLEAN]
Answers == {<<>>} \cup {<<a>> : a \in Addresses} \cup {<<a, b>> : a, b \in Addresses}

resolve_global_targets(answer) ==
  LET targets[i \in 0..Len(answer)] ==
        IF i = 0 THEN <<>>
        ELSE IF /\ answer[i].global
                /\ \A j \in DOMAIN targets[i - 1] : targets[i - 1][j] # answer[i]
                /\ Len(targets[i - 1]) < MaxAddresses
             THEN Append(targets[i - 1], answer[i])
             ELSE targets[i - 1]
  IN targets[Len(answer)]

(***************************************************************************)
(* The accept loop.                                                        *)
(***************************************************************************)
NoTunnel == [host |-> Refused, sni |-> Refused, raw |-> 0, hello |-> 0, expected |-> 0,
             targets |-> <<>>, target |-> Refused]

ProxyInit ==
  /\ handler = [c \in Conns |-> "none"]
  /\ tunnel = [c \in Conns |-> NoTunnel]
  /\ connSlots = MaxConnections /\ dnsSlots = MaxDns
  /\ replies = [c \in Conns |-> <<>>]

Moves(c, to) == handler' = [handler EXCEPT ![c] = to]

(* process_request: a slot and a thread, or, with every slot taken, the     *)
(* socket is closed by the base class, which releases nothing.              *)
(* Mutated form: the refusal goes through the method that releases.         *)
RefuseAndRelease(c) ==
  /\ handler[c] = "none" /\ connSlots = 0
  /\ Moves(c, "closed") /\ connSlots' = connSlots + 1
  /\ UNCHANGED <<tunnel, dnsSlots, replies>>

RefuseConnection(c) ==
  /\ handler[c] = "none" /\ connSlots = 0
  /\ Moves(c, "closed")
  /\ UNCHANGED <<tunnel, connSlots, dnsSlots, replies>>

(* With a slot, the thread starts, or fails to and the loop closes the      *)
(* request, slot included.                                                  *)
AcceptConnection(c) ==
  /\ handler[c] = "none" /\ connSlots > 0
  /\ connSlots' = connSlots - 1
  /\ Moves(c, "header") \/ Moves(c, "closing")
  /\ UNCHANGED <<tunnel, dnsSlots, replies>>

(* shutdown_request: the socket is closed and the slot goes back; what the  *)
(* thread knew is gone with it.                                             *)
shutdown_request(c) ==
  /\ handler[c] = "closing"
  /\ Moves(c, "closed") /\ connSlots' = connSlots + 1
  /\ replies' = [replies EXCEPT ![c] = <<>>]
  /\ UNCHANGED <<tunnel, dnsSlots>>

(***************************************************************************)
(* The handler.  Before the 200 an error is answered, after it only the    *)
(* end of the connection tells.                                            *)
(***************************************************************************)
Replying(c, response) == replies' = [replies EXCEPT ![c] = Append(@, response)]

RejectRequest(c, response) ==
  /\ handler[c] = "header"
  /\ Moves(c, "closing") /\ (Replying(c, response) \/ UNCHANGED replies)
  /\ UNCHANGED <<tunnel, connSlots, dnsSlots>>

(* The header is refused (403), or the client is slow or gone (502).        *)
ReadBadHeader(c) ==
  \/ \E h \in Headers : parse_connect_request(h) = Refused /\ RejectRequest(c, "403")
  \/ RejectRequest(c, "502")

(* The 200 goes out before the ClientHello is read and the host resolved.   *)
ReadHeader(c) ==
  /\ handler[c] = "header"
  /\ \E h \in Headers :
       /\ parse_connect_request(h) # Refused
       /\ tunnel' = [tunnel EXCEPT ![c].host = parse_connect_request(h)]
  /\ Moves(c, "hello") /\ Replying(c, "200")
  /\ UNCHANGED <<connSlots, dnsSlots>>

(* Any failure after the 200: a refused ClientHello, a timeout, an OSError. *)
GiveUp(c) ==
  /\ Moves(c, "closing")
  /\ tunnel' = [tunnel EXCEPT ![c] = NoTunnel]
  /\ UNCHANGED <<connSlots, dnsSlots, replies>>

LoseClient(c) == handler[c] = "hello" /\ GiveUp(c)

(* One TLS record: a header of one unit and size units of handshake; the    *)
(* first tells how long the ClientHello is.                                 *)
ReadRecord(c, size, length) ==
  LET t == tunnel[c]
      raw == t.raw + 1 + size
      expected == IF t.expected = 0 THEN length ELSE t.expected
  IN /\ handler[c] = "hello" /\ (t.expected = 0 \/ t.hello < t.expected)
     /\ IF raw > MaxHello \/ expected > MaxHello
        THEN GiveUp(c)
        ELSE /\ tunnel' = [tunnel EXCEPT ![c] = [t EXCEPT !.raw = raw, !.hello = @ + size,
                                                          !.expected = expected]]
             /\ UNCHANGED <<handler, connSlots, dnsSlots, replies>>

(* A complete ClientHello must name the host of the authority, and no other.*)
CheckHello(c) ==
  /\ handler[c] = "hello" /\ tunnel[c].expected # 0 /\ tunnel[c].hello >= tunnel[c].expected
  /\ \E names \in ServerNames :
       IF client_hello_sni(names) # tunnel[c].host
       THEN GiveUp(c)
       ELSE /\ tunnel' = [tunnel EXCEPT ![c].sni = client_hello_sni(names)]
            /\ Moves(c, "resolve")
            /\ UNCHANGED <<connSlots, dnsSlots, replies>>

(***************************************************************************)
(* _spawn_result: a resolver slot, a subprocess, its answer or a timeout,  *)
(* and in every case the process ended and the slot given back.            *)
(***************************************************************************)
AcquireResolver(c) ==
  /\ handler[c] = "resolve" /\ dnsSlots > 0
  /\ dnsSlots' = dnsSlots - 1
  /\ Moves(c, "resolving")
  /\ UNCHANGED <<tunnel, connSlots, replies>>

ResolverBusy(c) == handler[c] = "resolve" /\ dnsSlots = 0 /\ GiveUp(c)

(* The subprocess does not start, does not answer in time, answers with a   *)
(* failure or cannot be ended; or its answer has no global address.         *)
ResolveFails(c) ==
  /\ handler[c] = "resolving"
  /\ dnsSlots' = dnsSlots + 1
  /\ Moves(c, "closing") /\ tunnel' = [tunnel EXCEPT ![c] = NoTunnel]
  /\ UNCHANGED <<connSlots, replies>>

Resolve(c) ==
  /\ handler[c] = "resolving"
  /\ dnsSlots' = dnsSlots + 1
  /\ \E answer \in Answers :
       LET found == resolve_global_targets(answer) IN
       /\ found # <<>>
       /\ tunnel' = [tunnel EXCEPT ![c].targets = found]
  /\ Moves(c, "connect")
  /\ UNCHANGED <<connSlots, replies>>

(* connect_upstream: the addresses in order until one answers or the time   *)
(* for all of them is up.                                                   *)
ConnectNext(c) ==
  /\ handler[c] = "connect" /\ tunnel[c].targets # <<>>
  /\ \/ /\ tunnel' = [tunnel EXCEPT ![c].target = Head(tunnel[c].targets), ![c].targets = <<>>]
        /\ Moves(c, "relay")
     \/ /\ tunnel' = [tunnel EXCEPT ![c].targets = Tail(@)]
        /\ UNCHANGED handler
  /\ UNCHANGED <<connSlots, dnsSlots, replies>>

ConnectFails(c) == handler[c] = "connect" /\ GiveUp(c)

(* relay_tunnel returns (RelayEnds) and the upstream socket is closed.      *)
RelayReturned(c) == handler[c] = "relay" /\ GiveUp(c)

HandlerStep(c) ==
  \/ ReadBadHeader(c) \/ ReadHeader(c) \/ LoseClient(c) \/ CheckHello(c)
  \/ \E size \in 1..2, length \in 1..MaxHello + 1 : ReadRecord(c, size, length)
  \/ AcquireResolver(c) \/ ResolverBusy(c) \/ ResolveFails(c) \/ Resolve(c)
  \/ ConnectNext(c) \/ ConnectFails(c) \/ RelayReturned(c) \/ shutdown_request(c)

ProxyNext ==
  \E c \in Conns : RefuseConnection(c) \/ AcceptConnection(c) \/ HandlerStep(c)

(***************************************************************************)
(* Whatever the interleaving of accepts, refusals, errors and timeouts,    *)
(* the free slots and the connections (or lookups) that hold one add up to *)
(* the limit: no path loses a slot and none gives one back twice, which    *)
(* the bounded semaphore would raise on.  A tunnel is relayed only after   *)
(* one 200, to a global address, and for a ClientHello that is complete,   *)
(* within its limit and names the very host of the allowed authority.      *)
(***************************************************************************)
ProxyIsSound ==
  /\ connSlots + Cardinality({c \in Conns : handler[c] \notin {"none", "closed"}})
       = MaxConnections
  /\ dnsSlots + Cardinality({c \in Conns : handler[c] = "resolving"}) = MaxDns
  /\ \A c \in Conns : handler[c] = "relay" =>
       /\ tunnel[c].host \in ExactHosts \cup TaskHosts
       /\ tunnel[c].sni = tunnel[c].host
       /\ tunnel[c].hello >= tunnel[c].expected /\ tunnel[c].raw <= MaxHello
       /\ tunnel[c].target.global
       /\ replies[c] = <<"200">>
  /\ \A c \in Conns : Len(replies[c]) <= 1
=============================================================================
