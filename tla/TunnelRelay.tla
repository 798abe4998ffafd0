----------------------------- MODULE TunnelRelay -----------------------------
(***************************************************************************)
(* relay_tunnel of runtime_assets/codex_connect_proxy.py: one thread moves *)
(* the bytes of an accepted tunnel both ways through two bounded buffers,  *)
(* without ever blocking in a write.                                       *)
(*                                                                         *)
(* "up" is the direction from the client (Codex) to the upstream host,     *)
(* "down" the other one.  Bytes of a direction are counted, not named: a   *)
(* bytearray is only ever extended at its end and cut at its front.  The   *)
(* peers are the environment: they send, close their sending side and read *)
(* what they are sent when they please.                                    *)
(***************************************************************************)
EXTENDS Integers, FiniteSets

CONSTANTS BufferBytes,   \* MAX_DIRECTION_BUFFER_BYTES
          TunnelBytes,   \* MAX_TUNNEL_BYTES
          ChunkBytes,    \* RELAY_CHUNK_BYTES
          PrefaceBytes,  \* length of the ClientHello handed over by the handler
          MaxSent        \* bound: bytes a peer sends in a direction

ASSUME RelayBounds ==
  /\ {BufferBytes, TunnelBytes, ChunkBytes, MaxSent} \subseteq Nat \ {0}
  /\ PrefaceBytes \in 0..BufferBytes /\ BufferBytes <= TunnelBytes

VARIABLES
  relayPc,      \* "top", "select", "handle" or how relay_tunnel returned
  relayEvents,  \* the sockets select reported, not handled yet: {[of, mask]}
  relayMap,     \* the selector's map: the interests registered for a socket
  pending,      \* pending[d]: bytes in to_upstream ("up") or to_client ("down")
  readOpen,     \* readOpen[d]: client_read_open ("up"), upstream_read_open
  writeShut,    \* writeShut[d]: upstream_write_shutdown ("up"), client_...
  transferred,  \* bytes read so far, the preface included
  unread,       \* unread[d]: bytes of the sender waiting in its socket
  peerSent,     \* peerSent[d]: bytes the sender has sent in all
  peerClosed,   \* peerClosed[d]: the sender has closed its sending side
  peerGot,      \* peerGot[d]: bytes handed to the receiver
  window,       \* window[d]: the receiver has room for another write
  relayOld      \* MAX_TUNNEL_LIFETIME_SECONDS have passed

relayVars == <<relayPc, relayEvents, relayMap, pending, readOpen, writeShut, transferred,
               unread, peerSent, peerClosed, peerGot, window, relayOld>>

Directions == {"up", "down"}
Sockets == {"client", "upstream"}
ReadsFor(sock) == IF sock = "client" THEN "up" ELSE "down"
WritesFor(sock) == IF sock = "client" THEN "down" ELSE "up"
Returned == {"lifetime", "idle", "limit", "closed", "nothing", "error"}

RelayInit ==
  /\ relayPc = "top" /\ relayEvents = {}
  /\ relayMap = [s \in Sockets |-> {}]
  /\ pending = [d \in Directions |-> IF d = "up" THEN PrefaceBytes ELSE 0]
  /\ readOpen = [d \in Directions |-> TRUE]
  /\ writeShut = [d \in Directions |-> FALSE]
  /\ transferred = PrefaceBytes
  /\ unread = [d \in Directions |-> 0]
  /\ peerSent = [d \in Directions |-> IF d = "up" THEN PrefaceBytes ELSE 0]
  /\ peerClosed = [d \in Directions |-> FALSE]
  /\ peerGot = [d \in Directions |-> 0]
  /\ window = [d \in Directions |-> TRUE]
  /\ relayOld = FALSE

Drained == \A d \in Directions : pending[d] = 0

(***************************************************************************)
(* The top of the loop: the four reasons to return, the half closes that   *)
(* are due, and the interests registered with the selector.                *)
(***************************************************************************)
ReturnsAtTop ==
  CASE relayOld -> "lifetime"
    [] ~relayOld /\ transferred >= TunnelBytes /\ Drained -> "limit"
    [] ~relayOld /\ transferred < TunnelBytes /\ Drained
         /\ \A d \in Directions : ~readOpen[d] -> "closed"
    [] OTHER -> "stays"

ShutNow(d) == ~readOpen[d] /\ pending[d] = 0

(* Mutated form: what is read is not held back while the buffer is full.    *)
InterestsWhenFull(sock, shut) ==
  LET d == ReadsFor(sock) IN
  (IF readOpen[d] /\ transferred < TunnelBytes THEN {"read"} ELSE {})
    \cup (IF pending[WritesFor(sock)] > 0 /\ ~shut[WritesFor(sock)] THEN {"write"} ELSE {})

interests(sock, shut) ==
  LET d == ReadsFor(sock) IN
  (IF readOpen[d] /\ pending[d] < BufferBytes /\ transferred < TunnelBytes
     THEN {"read"} ELSE {})
    \cup (IF pending[WritesFor(sock)] > 0 /\ ~shut[WritesFor(sock)] THEN {"write"} ELSE {})

RelayReturns ==
  /\ relayPc = "top" /\ ReturnsAtTop # "stays"
  /\ relayPc' = ReturnsAtTop
  /\ UNCHANGED <<relayEvents, relayMap, pending, readOpen, writeShut, transferred,
                 unread, peerSent, peerClosed, peerGot, window, relayOld>>

RelayTop ==
  /\ relayPc = "top" /\ ReturnsAtTop = "stays"
  /\ writeShut' = [d \in Directions |-> writeShut[d] \/ ShutNow(d)]
  /\ relayMap' = [s \in Sockets |-> interests(s, writeShut')]
  /\ relayPc' = IF \A s \in Sockets : relayMap'[s] = {} THEN "nothing" ELSE "select"
  /\ UNCHANGED <<relayEvents, pending, readOpen, transferred,
                 unread, peerSent, peerClosed, peerGot, window, relayOld>>

(* A socket is readable when it holds bytes or its end, writable when the   *)
(* receiver has room.                                                       *)
Ready(s) ==
  {e \in relayMap[s] : IF e = "read" THEN unread[ReadsFor(s)] > 0 \/ peerClosed[ReadsFor(s)]
                                     ELSE window[WritesFor(s)]}

RelaySelects ==
  /\ relayPc = "select"
  /\ \E s \in Sockets : Ready(s) # {}
  /\ relayEvents' = {[of |-> s, mask |-> Ready(s)] : s \in {t \in Sockets : Ready(t) # {}}}
  /\ relayPc' = "handle"
  /\ UNCHANGED <<relayMap, pending, readOpen, writeShut, transferred,
                 unread, peerSent, peerClosed, peerGot, window, relayOld>>

(* No event before the idle or the lifetime bound: the tunnel is given up.  *)
RelayIdles ==
  /\ relayPc = "select"
  /\ \A s \in Sockets : Ready(s) = {}
  /\ relayPc' = "idle"
  /\ UNCHANGED <<relayEvents, relayMap, pending, readOpen, writeShut, transferred,
                 unread, peerSent, peerClosed, peerGot, window, relayOld>>

Least(S) == CHOOSE n \in S : \A k \in S : n <= k

(* read_into: n bytes are taken, or the end of the stream is seen, and no   *)
(* capacity reads as the end of the stream.                                 *)
ReadCapacity(d) == Least({ChunkBytes, BufferBytes - pending[d], TunnelBytes - transferred})

read_into(d, n) ==
  IF ReadCapacity(d) <= 0 \/ (unread[d] = 0 /\ peerClosed[d])
  THEN n = 0 /\ readOpen' = [readOpen EXCEPT ![d] = FALSE] /\ UNCHANGED <<unread, transferred>>
  ELSE /\ n \in (IF unread[d] = 0 THEN 0 ELSE 1)..Least({ReadCapacity(d), unread[d]})
       /\ unread' = [unread EXCEPT ![d] = @ - n]
       /\ transferred' = transferred + n
       /\ UNCHANGED readOpen

(* write_from: some of what is pending is taken, and the receiver may then  *)
(* have no room left.                                                       *)
write_from(d, n) ==
  IF window[d]
  THEN /\ n \in 1..pending[d]
       /\ window' \in {window, [window EXCEPT ![d] = FALSE]}
       /\ peerGot' = [peerGot EXCEPT ![d] = @ + n]
  ELSE n = 0 /\ UNCHANGED <<window, peerGot>>

RelayHandles(e) ==
  LET r == ReadsFor(e.of)
      w == WritesFor(e.of)
      reads == "read" \in e.mask /\ readOpen[r]
      writes == "write" \in e.mask /\ pending[w] > 0 IN
  /\ relayPc = "handle" /\ e \in relayEvents
  /\ relayEvents' = relayEvents \ {e}
  /\ relayPc' = IF relayEvents' = {} THEN "top" ELSE "handle"
  /\ \E n \in 0..ChunkBytes, k \in 0..BufferBytes :
       /\ IF reads THEN read_into(r, n) ELSE n = 0 /\ UNCHANGED <<unread, transferred, readOpen>>
       /\ IF writes THEN write_from(w, k) ELSE k = 0 /\ UNCHANGED <<window, peerGot>>
       /\ pending' = [pending EXCEPT ![r] = @ + n, ![w] = @ - k]
  /\ UNCHANGED <<relayMap, writeShut, peerSent, peerClosed, relayOld>>

(* A reset or any other socket error ends the relay at once.                *)
RelayFails ==
  /\ relayPc = "handle"
  /\ relayPc' = "error" /\ relayEvents' = {}
  /\ UNCHANGED <<relayMap, pending, readOpen, writeShut, transferred,
                 unread, peerSent, peerClosed, peerGot, window, relayOld>>

RelayStep ==
  RelayReturns \/ RelayTop \/ RelaySelects \/ RelayFails \/ (\E e \in relayEvents : RelayHandles(e))

(***************************************************************************)
(* The peers and the clock.                                                *)
(***************************************************************************)
PeerSends(d) ==
  /\ ~peerClosed[d] /\ peerSent[d] < MaxSent
  /\ peerSent' = [peerSent EXCEPT ![d] = @ + 1]
  /\ unread' = [unread EXCEPT ![d] = @ + 1]
  /\ UNCHANGED <<relayPc, relayEvents, relayMap, pending, readOpen, writeShut, transferred,
                 peerClosed, peerGot, window, relayOld>>

PeerCloses(d) ==
  /\ ~peerClosed[d]
  /\ peerClosed' = [peerClosed EXCEPT ![d] = TRUE]
  /\ UNCHANGED <<relayPc, relayEvents, relayMap, pending, readOpen, writeShut, transferred,
                 unread, peerSent, peerGot, window, relayOld>>

PeerReads(d) ==
  /\ ~window[d]
  /\ window' = [window EXCEPT ![d] = TRUE]
  /\ UNCHANGED <<relayPc, relayEvents, relayMap, pending, readOpen, writeShut, transferred,
                 unread, peerSent, peerClosed, peerGot, relayOld>>

LifetimeEnds ==
  /\ ~relayOld
  /\ relayOld' = TRUE
  /\ UNCHANGED <<relayPc, relayEvents, relayMap, pending, readOpen, writeShut, transferred,
                 unread, peerSent, peerClosed, peerGot, window>>

RelayNext ==
  /\ relayPc \notin Returned
  /\ \/ RelayStep \/ RelayIdles \/ LifetimeEnds
     \/ \E d \in Directions : PeerSends(d) \/ PeerCloses(d) \/ PeerReads(d)

(***************************************************************************)
(* A side is told that nothing more will come (shutdown of its socket)     *)
(* only when the other side has closed and every byte it sent has been     *)
(* handed over, or when the tunnel has used up its allowance; a relay that *)
(* returns because both sides are finished has delivered everything; and   *)
(* it never returns because it has nothing left to wait for.  A full       *)
(* buffer must therefore never be taken for the end of a stream.           *)
(***************************************************************************)
RelayIsFaithful ==
  /\ \A d \in Directions : writeShut[d] \/ relayPc = "closed" =>
       \/ transferred >= TunnelBytes
       \/ peerClosed[d] /\ peerGot[d] = peerSent[d]
  /\ relayPc # "nothing"
  /\ \A d \in Directions : pending[d] <= BufferBytes
  /\ transferred <= TunnelBytes
=============================================================================
