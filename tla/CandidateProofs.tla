--------------------------- MODULE CandidateProofs --------------------------
(***************************************************************************)
(* What the parts on the Candidate's side promise, for every value of      *)
(* their limits, number of connections, bytes, files and imports: the run  *)
(* loop with its stop review, the sidecar's relay and proxy, the Docker    *)
(* runtime, the A3S OS runtime, and the pipeline of an export.  Each part  *)
(* is proved on its own, as it shares no state with the others.            *)
(***************************************************************************)
EXTENDS StopReview, TunnelRelay, ConnectProxy, DockerRuntime, OsInvocation, WorkspaceExport,
        Loops

-----------------------------------------------------------------------------
(***************************************************************************)
(* codex_run_loop.sh and codex_stop_hook.sh.                               *)
(***************************************************************************)
(* What a stop without a claim could break: a count is there only once the *)
(* review directory is, so that a stop the hook could not note at all      *)
(* leaves no count that runs ahead of the claims.                          *)
ReviewType ==
  /\ countFile \in -1..(Limit - 1) /\ claims \in Nat /\ stops \in Nat
  /\ resumeCount \in 0..MaxResumes

ReviewCounts ==
  /\ ~reviewDir => countFile = -1
  /\ countFile <= claims
  /\ accepted => claims >= Limit

SamePolicy == invoked \ {"prompt", "continue", "resume --last"} = run_initial(options) \ {"prompt"}

ReviewInv ==
  /\ ReviewType /\ ReviewCounts /\ SamePolicy
  /\ why = "accepted" => accepted

-----------------------------------------------------------------------------
(* The two argument vectors of codex_run_loop.sh differ in the prompt and  *)
(* in how the session is found, and in nothing else.                       *)
LEMMA VectorsAgree ==
  ASSUME NEW o
  PROVE  /\ run_resume(o) \ {"prompt", "continue", "resume --last"} = run_initial(o) \ {"prompt"}
         /\ run_initial(o) \ {"prompt", "continue", "resume --last"} = run_initial(o) \ {"prompt"}
  BY DEF run_resume, run_initial, If

LEMMA ReviewInvInit == ReviewInit => ReviewInv
  <1> SUFFICES ASSUME ReviewInit PROVE ReviewInv
    OBVIOUS
  <1>1. ReviewType /\ ReviewCounts
    BY ReviewBounds DEF ReviewInit, ReviewType, ReviewCounts
  <1>2. SamePolicy
    BY VectorsAgree DEF ReviewInit, SamePolicy
  <1>3. why # "accepted"
    BY DEF ReviewInit
  <1> QED
    BY <1>1, <1>2, <1>3 DEF ReviewInv

(* What the hook does to the counts, whichever of its writes fail.         *)
LEMMA HookKeepsCounts ==
  ASSUME ReviewType, ReviewCounts, ReviewDirFails \/ StopUnclaimed \/ StopAccepted \/ StopNoted
  PROVE  ReviewType' /\ ReviewCounts'
  <1> USE ReviewBounds
  <1>1. CASE ReviewDirFails
    BY <1>1 DEF ReviewDirFails, HookCalled, ReviewType, ReviewCounts
  <1>2. CASE StopUnclaimed
    BY <1>2 DEF StopUnclaimed, HookCalled, ReviewType, ReviewCounts
  <1>3. CASE StopAccepted
    <2>1. claims + 1 >= Limit
      BY <1>3 DEF StopAccepted, HookCalled, Counted, ReviewType, ReviewCounts
    <2> QED
      BY <1>3, <2>1 DEF StopAccepted, HookCalled, ReviewType, ReviewCounts
  <1>4. CASE StopNoted
    <2>1. /\ countFile' \in -1..(Limit - 1)
          /\ countFile' <= claims + 1
      BY <1>4 DEF StopNoted, Counted, ReviewType, ReviewCounts
    <2> QED
      BY <1>4, <2>1 DEF StopNoted, HookCalled, ReviewType, ReviewCounts
  <1> QED
    BY <1>1, <1>2, <1>3, <1>4

LEMMA ReviewInvNext == ReviewInv /\ [ReviewNext]_reviewVars => ReviewInv'
  <1> SUFFICES ASSUME ReviewInv, [ReviewNext]_reviewVars PROVE ReviewInv'
    OBVIOUS
  <1>1. CASE ReviewDirFails \/ StopUnclaimed \/ StopAccepted \/ StopNoted
    <2>1. ReviewType' /\ ReviewCounts'
      BY <1>1, HookKeepsCounts DEF ReviewInv
    <2>2. UNCHANGED <<options, invoked, why>> /\ (accepted => accepted')
      BY <1>1 DEF ReviewDirFails, StopUnclaimed, StopAccepted, StopNoted
    <2> QED
      BY <2>1, <2>2 DEF ReviewInv, SamePolicy
  <1>2. CASE CodexExits
    BY <1>2 DEF CodexExits, ReviewInv, ReviewType, ReviewCounts, SamePolicy
  <1>3. CASE ResumeCodex
    <2>1. ReviewType' /\ ReviewCounts'
      BY <1>3, ReviewBounds DEF ResumeCodex, MayResume, ReviewInv, ReviewType, ReviewCounts
    <2>2. SamePolicy'
      BY <1>3, VectorsAgree DEF ResumeCodex, SamePolicy
    <2> QED
      BY <1>3, <2>1, <2>2 DEF ResumeCodex, ReviewInv
  <1>4. CASE EndLoop
    <2>1. why' = "accepted" => accepted
      BY <1>4 DEF EndLoop
    <2> QED
      BY <1>4, <2>1 DEF EndLoop, ReviewInv, ReviewType, ReviewCounts, SamePolicy
  <1>5. CASE UNCHANGED reviewVars
    BY <1>5 DEF reviewVars, ReviewInv, ReviewType, ReviewCounts, SamePolicy
  <1> QED
    BY <1>1, <1>2, <1>3, <1>4, <1>5 DEF ReviewNext, LoopStep

-----------------------------------------------------------------------------
(* codex_stop_hook.sh accepts a review only after Limit stops in a row     *)
(* with a claim, through resumed sessions and failing writes, and          *)
(* codex_run_loop.sh runs every session under the same policy.             *)
THEOREM ReviewsAreEarned == ReviewSpec => []ReviewIsEarned
  <1>1. ASSUME ReviewInv PROVE ReviewIsEarned
    <2>1. /\ accepted => claims >= Limit
          /\ countFile <= claims /\ countFile < Limit
          /\ resumeCount <= MaxResumes
      BY <1>1, ReviewBounds DEF ReviewInv, ReviewType, ReviewCounts
    <2>2. SamePolicy /\ (why = "accepted" => accepted)
      BY <1>1 DEF ReviewInv
    <2> QED
      BY <2>1, <2>2 DEF ReviewIsEarned, SamePolicy
  <1> QED
    BY <1>1, ReviewInvInit, ReviewInvNext, PTL DEF ReviewSpec

-----------------------------------------------------------------------------
(***************************************************************************)
(* relay_tunnel of codex_connect_proxy.py.                                 *)
(***************************************************************************)
RelaySpec == RelayInit /\ [][RelayNext]_relayVars

RelayTypes ==
  /\ relayPc \in {"top", "select", "handle"} \cup Returned
  /\ relayEvents \subseteq [of : Sockets, mask : SUBSET {"read", "write"}]
  /\ relayMap \in [Sockets -> SUBSET {"read", "write"}]
  /\ pending \in [Directions -> Nat] /\ unread \in [Directions -> Nat]
  /\ peerSent \in [Directions -> Nat] /\ peerGot \in [Directions -> Nat]
  /\ readOpen \in [Directions -> BOOLEAN] /\ writeShut \in [Directions -> BOOLEAN]
  /\ peerClosed \in [Directions -> BOOLEAN] /\ window \in [Directions -> BOOLEAN]
  /\ transferred \in Nat

(* No byte is lost or made up, and neither bound is passed.                *)
Conserved ==
  /\ \A d \in Directions : peerSent[d] = peerGot[d] + pending[d] + unread[d]
  /\ \A d \in Directions : pending[d] <= BufferBytes
  /\ transferred <= TunnelBytes

(* Reading stops only at the end of what the sender sent, or at the        *)
(* allowance; a side is shut only behind what was read.                    *)
EndsAreTrue ==
  \A d \in Directions :
    /\ ~readOpen[d] => transferred >= TunnelBytes \/ (peerClosed[d] /\ unread[d] = 0)
    /\ writeShut[d] => ~readOpen[d] /\ pending[d] = 0

(* A full buffer has no interest in reading, and nobody but the event of   *)
(* its own socket fills it before that event is handled: what read_into    *)
(* finds without capacity has used up the allowance.                       *)
HasRoom(sock) == pending[ReadsFor(sock)] < BufferBytes

RoomToRead ==
  /\ relayPc = "select" => \A s \in Sockets : "read" \in relayMap[s] => HasRoom(s)
  /\ relayPc = "handle" => \A e \in relayEvents : "read" \in e.mask => HasRoom(e.of)
  /\ \A e, f \in relayEvents : e.of = f.of => e = f

ClosedIsDone ==
  /\ relayPc = "closed" =>
       \A d \in Directions : transferred >= TunnelBytes \/ (peerClosed[d] /\ peerGot[d] = peerSent[d])
  /\ relayPc # "nothing"

RelayInv == RelayTypes /\ Conserved /\ EndsAreTrue /\ RoomToRead /\ ClosedIsDone

LEMMA LeastOfThree ==
  ASSUME NEW a \in Int, NEW b \in Int, NEW c \in Int
  PROVE  /\ Least({a, b, c}) \in {a, b, c}
         /\ Least({a, b, c}) <= a /\ Least({a, b, c}) <= b /\ Least({a, b, c}) <= c
  <1>1. \E n \in {a, b, c} : \A k \in {a, b, c} : n <= k
    <2>1. CASE a <= b /\ a <= c
      BY <2>1
    <2>2. CASE b <= a /\ b <= c
      BY <2>2
    <2>3. CASE c <= a /\ c <= b
      BY <2>3
    <2> QED
      BY <2>1, <2>2, <2>3
  <1> QED
    BY <1>1 DEF Least

LEMMA LeastOfTwo ==
  ASSUME NEW a \in Int, NEW b \in Int
  PROVE  Least({a, b}) \in {a, b} /\ Least({a, b}) <= a /\ Least({a, b}) <= b
  <1>1. \E n \in {a, b} : \A k \in {a, b} : n <= k
    BY SMT
  <1> QED
    BY <1>1 DEF Least

LEMMA RelayInvInit == RelayInit => RelayInv
  BY RelayBounds DEF RelayInit, RelayInv, RelayTypes, Conserved, EndsAreTrue, RoomToRead,
     ClosedIsDone, Returned, Directions, Sockets

(* The top of the loop with something to do leaves at least one interest   *)
(* registered: it never waits for nothing.                                 *)
LEMMA SomethingToWaitFor ==
  ASSUME RelayTypes, Conserved, EndsAreTrue, RelayTop
  PROVE  relayPc' = "select"
  <1> SUFFICES ASSUME \A s \in Sockets : relayMap'[s] = {} PROVE FALSE
    BY DEF RelayTop
  <1>1. \A s \in Sockets : interests(s, writeShut') = {}
    BY DEF RelayTop
  <1>2. \A d \in Directions : \E s \in Sockets : WritesFor(s) = d
    BY DEF Directions, Sockets, WritesFor
  <1>3. \A d \in Directions : \E s \in Sockets : ReadsFor(s) = d
    BY DEF Directions, Sockets, ReadsFor
  <1>4. Drained
    <2> SUFFICES ASSUME NEW d \in Directions PROVE pending[d] = 0
      BY DEF Drained
    <2>1. PICK s \in Sockets : WritesFor(s) = d
      BY <1>2
    <2>2. ~(pending[d] > 0 /\ ~writeShut'[d])
      BY <1>1, <2>1 DEF interests
    <2>3. writeShut'[d] => pending[d] = 0
      BY DEF RelayTop, ShutNow, EndsAreTrue
    <2> QED
      BY <2>2, <2>3 DEF RelayTypes
  <1>5. ~relayOld /\ transferred < TunnelBytes /\ \E d \in Directions : readOpen[d]
    BY <1>4, RelayBounds DEF RelayTop, ReturnsAtTop, RelayTypes
  <1>6. PICK d \in Directions : readOpen[d]
    BY <1>5
  <1>7. PICK s \in Sockets : ReadsFor(s) = d
    BY <1>3
  <1>8. pending[d] < BufferBytes
    BY <1>4, RelayBounds DEF Drained
  <1>9. "read" \in interests(s, writeShut')
    BY <1>5, <1>6, <1>7, <1>8 DEF interests
  <1> QED
    BY <1>1, <1>9


(* What one event does, whatever it finds: n bytes are taken of one        *)
(* direction and k handed over of the other, and reading is given up only  *)
(* for a reason.                                                           *)
Handled(r, w, n, k) ==
  /\ n \in Nat /\ k \in Nat
  /\ n <= unread[r] /\ pending[r] + n <= BufferBytes /\ transferred + n <= TunnelBytes
  /\ k <= pending[w]
  /\ unread' = [unread EXCEPT ![r] = @ - n] /\ transferred' = transferred + n
  /\ pending' = [pending EXCEPT ![r] = @ + n, ![w] = @ - k]
  /\ peerGot' = [peerGot EXCEPT ![w] = @ + k]
  /\ window' \in [Directions -> BOOLEAN]
  /\ \/ readOpen' = readOpen
     \/ /\ readOpen' = [readOpen EXCEPT ![r] = FALSE]
        /\ transferred >= TunnelBytes \/ (peerClosed[r] /\ unread[r] = 0)
  /\ ~readOpen[r] => n = 0

LEMMA ReadIsBounded ==
  ASSUME RelayTypes, Conserved, NEW d \in Directions, NEW n \in Nat,
         pending[d] < BufferBytes, read_into(d, n)
  PROVE  /\ n <= unread[d] /\ pending[d] + n <= BufferBytes /\ transferred + n <= TunnelBytes
         /\ unread' = [unread EXCEPT ![d] = @ - n] /\ transferred' = transferred + n
         /\ \/ readOpen' = readOpen
            \/ /\ readOpen' = [readOpen EXCEPT ![d] = FALSE]
               /\ transferred >= TunnelBytes \/ (peerClosed[d] /\ unread[d] = 0)
  <1> DEFINE cap == ReadCapacity(d)
  <1>0. /\ BufferBytes \in Nat /\ TunnelBytes \in Nat /\ ChunkBytes \in Nat \ {0}
        /\ pending[d] \in Nat /\ unread[d] \in Nat /\ transferred \in Nat /\ unread \in [Directions -> Nat]
    BY RelayBounds DEF RelayTypes
  <1>1. /\ cap \in {ChunkBytes, BufferBytes - pending[d], TunnelBytes - transferred}
        /\ cap <= BufferBytes - pending[d] /\ cap <= TunnelBytes - transferred
    <2>1. ChunkBytes \in Int /\ BufferBytes - pending[d] \in Int /\ TunnelBytes - transferred \in Int
      BY <1>0
    <2> QED
      BY ONLY <2>1, LeastOfThree DEF ReadCapacity, cap
  <1>2. cap \in Int
    BY <1>0, <1>1
  <1> HIDE DEF cap
  <1>3. CASE cap <= 0 \/ (unread[d] = 0 /\ peerClosed[d])
    <2>1. n = 0 /\ readOpen' = [readOpen EXCEPT ![d] = FALSE] /\ UNCHANGED <<unread, transferred>>
      BY <1>3 DEF read_into, cap
    <2>2. unread = [unread EXCEPT ![d] = @ - 0]
      BY <1>0
    <2>3. cap <= 0 => transferred >= TunnelBytes
      BY <1>0, <1>1
    <2>4. transferred <= TunnelBytes /\ pending[d] <= BufferBytes
      BY DEF Conserved
    <2> QED
      BY <1>0, <1>3, <2>1, <2>2, <2>3, <2>4
  <1>4. CASE ~(cap <= 0 \/ (unread[d] = 0 /\ peerClosed[d]))
    <2>1. /\ n \in (IF unread[d] = 0 THEN 0 ELSE 1)..Least({cap, unread[d]})
          /\ unread' = [unread EXCEPT ![d] = @ - n] /\ transferred' = transferred + n
          /\ readOpen' = readOpen
      BY <1>4 DEF read_into, cap
    <2>2. /\ Least({cap, unread[d]}) \in {cap, unread[d]}
          /\ Least({cap, unread[d]}) <= cap /\ Least({cap, unread[d]}) <= unread[d]
      BY <1>0, <1>2, LeastOfTwo
    <2>3. n <= cap /\ n <= unread[d]
      BY <1>0, <1>2, <2>1, <2>2
    <2> QED
      BY <1>0, <1>1, <1>2, <2>1, <2>3
  <1> QED
    BY <1>3, <1>4

LEMMA EventIsHandled ==
  ASSUME RelayInv, NEW e \in relayEvents, RelayHandles(e)
  PROVE  \E n, k : Handled(ReadsFor(e.of), WritesFor(e.of), n, k)
  <1> DEFINE r == ReadsFor(e.of)
             w == WritesFor(e.of)
             reads == "read" \in e.mask /\ readOpen[r]
             writes == "write" \in e.mask /\ pending[w] > 0
  <1>1. r \in Directions /\ w \in Directions
    BY DEF Directions, ReadsFor, WritesFor
  <1>2. /\ unread \in [Directions -> Nat] /\ pending \in [Directions -> Nat] /\ transferred \in Nat
        /\ peerGot \in [Directions -> Nat] /\ window \in [Directions -> BOOLEAN]
        /\ readOpen \in [Directions -> BOOLEAN]
    BY DEF RelayInv, RelayTypes
  <1>3. BufferBytes \in Nat /\ ChunkBytes \in Nat /\ TunnelBytes \in Nat
        /\ pending[r] <= BufferBytes /\ transferred <= TunnelBytes
    BY <1>1, RelayBounds DEF RelayInv, Conserved
  <1>4. PICK n \in 0..ChunkBytes, k \in 0..BufferBytes :
          /\ IF reads THEN read_into(r, n) ELSE n = 0 /\ UNCHANGED <<unread, transferred, readOpen>>
          /\ IF writes THEN write_from(w, k) ELSE k = 0 /\ UNCHANGED <<window, peerGot>>
          /\ pending' = [pending EXCEPT ![r] = @ + n, ![w] = @ - k]
    BY DEF RelayHandles
  <1>5. n \in Nat /\ k \in Nat
    BY <1>3, <1>4
  <1>6. reads => pending[r] < BufferBytes
    BY DEF RelayHandles, RelayInv, RoomToRead, HasRoom
  <1>7. /\ n <= unread[r] /\ pending[r] + n <= BufferBytes /\ transferred + n <= TunnelBytes
        /\ unread' = [unread EXCEPT ![r] = @ - n] /\ transferred' = transferred + n
        /\ \/ readOpen' = readOpen
           \/ /\ readOpen' = [readOpen EXCEPT ![r] = FALSE]
              /\ transferred >= TunnelBytes \/ (peerClosed[r] /\ unread[r] = 0)
        /\ ~readOpen[r] => n = 0
    <2>1. CASE reads
      <3>1. RelayTypes /\ Conserved /\ read_into(r, n)
        BY <1>4, <2>1 DEF RelayInv
      <3> QED
        BY <1>1, <1>5, <1>6, <2>1, <3>1, ReadIsBounded
    <2>2. CASE ~reads
      <3>1. n = 0 /\ UNCHANGED <<unread, transferred, readOpen>>
        BY <1>4, <2>2
      <3>2. unread = [unread EXCEPT ![r] = @ - 0] /\ unread[r] \in Nat /\ pending[r] \in Nat
        BY <1>1, <1>2
      <3> QED
        BY <1>2, <1>3, <3>1, <3>2
    <2> QED
      BY <2>1, <2>2
  <1>8. k <= pending[w] /\ peerGot' = [peerGot EXCEPT ![w] = @ + k] /\ window' \in [Directions -> BOOLEAN]
    <2>0. peerGot = [peerGot EXCEPT ![w] = @ + 0] /\ pending[w] \in Nat
      BY <1>1, <1>2
    <2>1. CASE writes /\ window[w]
      <3>1. k \in 1..pending[w] /\ window' \in {window, [window EXCEPT ![w] = FALSE]}
            /\ peerGot' = [peerGot EXCEPT ![w] = @ + k]
        BY <1>4, <2>1 DEF write_from
      <3>2. k <= pending[w]
        BY <2>0, <3>1
      <3>3. [window EXCEPT ![w] = FALSE] \in [Directions -> BOOLEAN]
        BY <1>1, <1>2
      <3> QED
        BY <1>2, <3>1, <3>2, <3>3
    <2>2. CASE ~(writes /\ window[w])
      <3>1. k = 0 /\ UNCHANGED <<window, peerGot>>
        BY <1>4, <2>2 DEF write_from
      <3> QED
        BY <1>2, <2>0, <3>1
    <2> QED
      BY <2>1, <2>2
  <1>9. Handled(r, w, n, k)
    BY <1>4, <1>5, <1>7, <1>8 DEF Handled
  <1> QED
    BY <1>9

LEMMA HandlingKeeps ==
  ASSUME RelayInv, NEW e \in relayEvents, RelayHandles(e)
  PROVE  RelayInv'
  <1> DEFINE r == ReadsFor(e.of)
             w == WritesFor(e.of)
  <1>1. PICK n, k : Handled(r, w, n, k)
    BY EventIsHandled
  <1>2. e \in [of : Sockets, mask : SUBSET {"read", "write"}]
    BY DEF RelayInv, RelayTypes
  <1>3. r \in Directions /\ w \in Directions /\ r # w /\ \A d \in Directions : d = r \/ d = w
    BY <1>2 DEF Directions, Sockets, ReadsFor, WritesFor
  <1>4. \A f \in relayEvents : f # e => ReadsFor(f.of) # r
    BY <1>2 DEF RelayInv, RoomToRead, RelayTypes, Sockets, ReadsFor
  <1>5. /\ relayPc = "handle" /\ relayPc' \in {"top", "handle"}
        /\ relayEvents' = relayEvents \ {e}
        /\ UNCHANGED <<relayMap, writeShut, peerSent, peerClosed, relayOld>>
    BY DEF RelayHandles
  <1> HIDE DEF r, w
  <1>6. /\ unread[r] \in Nat /\ pending[r] \in Nat /\ peerGot[r] \in Nat /\ peerSent[r] \in Nat
        /\ unread[w] \in Nat /\ pending[w] \in Nat /\ peerGot[w] \in Nat /\ peerSent[w] \in Nat
        /\ unread \in [Directions -> Nat] /\ pending \in [Directions -> Nat]
        /\ peerGot \in [Directions -> Nat] /\ readOpen \in [Directions -> BOOLEAN] /\ transferred \in Nat
        /\ BufferBytes \in Nat /\ TunnelBytes \in Nat
    BY <1>3, RelayBounds DEF RelayInv, RelayTypes
  <1>7. /\ n \in Nat /\ k \in Nat /\ n <= unread[r] /\ k <= pending[w]
        /\ pending[r] + n <= BufferBytes /\ transferred + n <= TunnelBytes
        /\ transferred' = transferred + n
        /\ unread'[r] = unread[r] - n /\ unread'[w] = unread[w]
        /\ pending'[r] = pending[r] + n /\ pending'[w] = pending[w] - k
        /\ peerGot'[w] = peerGot[w] + k /\ peerGot'[r] = peerGot[r]
        /\ ~readOpen[r] => n = 0
    BY <1>1, <1>3, <1>6 DEF Handled
  <1>8. RelayTypes'
    <2>1. /\ unread' = [unread EXCEPT ![r] = unread[r] - n] /\ unread[r] - n \in Nat
          /\ peerGot' = [peerGot EXCEPT ![w] = peerGot[w] + k] /\ peerGot[w] + k \in Nat
          /\ pending' = [pending EXCEPT ![r] = pending[r] + n, ![w] = pending[w] - k]
          /\ pending[r] + n \in Nat /\ pending[w] - k \in Nat
      BY <1>1, <1>3, <1>6, <1>7 DEF Handled
    <2>2. /\ unread' \in [Directions -> Nat] /\ peerGot' \in [Directions -> Nat]
          /\ pending' \in [Directions -> Nat]
      BY <1>3, <1>6, <2>1
    <2>3. readOpen' \in [Directions -> BOOLEAN] /\ window' \in [Directions -> BOOLEAN]
      BY <1>1, <1>3, <1>6 DEF Handled
    <2>4. transferred' \in Nat
      BY <1>6, <1>7
    <2> QED
      BY <1>5, <2>2, <2>3, <2>4 DEF RelayInv, RelayTypes
  <1>9. Conserved'
    <2>1. /\ peerSent[r] = peerGot[r] + pending[r] + unread[r]
          /\ peerSent[w] = peerGot[w] + pending[w] + unread[w] /\ pending[w] <= BufferBytes
      BY <1>3 DEF RelayInv, Conserved
    <2>2. /\ peerSent[r] = peerGot'[r] + pending'[r] + unread'[r]
          /\ peerSent[w] = peerGot'[w] + pending'[w] + unread'[w]
          /\ pending'[w] <= BufferBytes /\ pending'[r] <= BufferBytes /\ transferred' <= TunnelBytes
      BY <1>6, <1>7, <2>1
    <2> QED
      BY <1>3, <1>5, <2>2 DEF Conserved
  <1>10. EndsAreTrue'
    <2>1. ASSUME NEW d \in Directions, ~readOpen'[d]
          PROVE  transferred' >= TunnelBytes \/ (peerClosed[d] /\ unread'[d] = 0)
      <3>1. CASE readOpen'[d] = readOpen[d]
        BY <1>3, <1>6, <1>7, <2>1, <3>1 DEF RelayInv, EndsAreTrue
      <3>2. CASE readOpen'[d] # readOpen[d]
        <4>1. d = r /\ (transferred >= TunnelBytes \/ (peerClosed[r] /\ unread[r] = 0))
          BY <1>1, <1>3, <1>6, <3>2 DEF Handled
        <4> QED
          BY <1>6, <1>7, <4>1
      <3> QED
        BY <3>1, <3>2
    <2>2. ASSUME NEW d \in Directions, writeShut[d]
          PROVE  ~readOpen'[d] /\ pending'[d] = 0
      <3>1. ~readOpen[d] /\ pending[d] = 0
        BY <2>2 DEF RelayInv, EndsAreTrue
      <3>2. ~readOpen'[d]
        BY <1>1, <1>3, <1>6, <3>1 DEF Handled
      <3>3. pending'[d] = 0
        <4>1. CASE d = r
          BY ONLY <1>6, <1>7, <3>1, <4>1
        <4>2. CASE d = w
          BY ONLY <1>6, <1>7, <3>1, <4>2
        <4> QED
          BY <1>3, <4>1, <4>2
      <3> QED
        BY <3>2, <3>3
    <2> QED
      BY <1>5, <2>1, <2>2 DEF EndsAreTrue
  <1>11. RoomToRead'
    <2>1. ASSUME NEW f \in relayEvents', "read" \in f.mask
          PROVE  pending'[ReadsFor(f.of)] < BufferBytes
      <3>1. f \in relayEvents /\ ReadsFor(f.of) # r /\ ReadsFor(f.of) \in Directions
        BY <1>4, <1>5 DEF ReadsFor, Directions
      <3>2. ReadsFor(f.of) = w /\ pending[w] < BufferBytes
        BY <1>3, <1>5, <2>1, <3>1 DEF RelayInv, RoomToRead, HasRoom
      <3> QED
        BY <1>6, <1>7, <3>2
    <2> QED
      BY <1>5, <2>1 DEF RelayInv, RoomToRead, HasRoom
  <1>12. ClosedIsDone'
    BY <1>5 DEF ClosedIsDone
  <1> QED
    BY <1>8, <1>9, <1>10, <1>11, <1>12 DEF RelayInv

LEMMA RelayInvNext == RelayInv /\ [RelayNext]_relayVars => RelayInv'
  <1> SUFFICES ASSUME RelayInv, [RelayNext]_relayVars PROVE RelayInv'
    OBVIOUS
  <1> USE DEF RelayInv
  <1>1. CASE RelayReturns
    <2>1. relayPc' \in Returned /\ relayPc' \notin {"nothing", "select", "handle"}
      BY <1>1 DEF RelayReturns, ReturnsAtTop, Returned
    <2>2. ASSUME relayPc' = "closed", NEW d \in Directions
          PROVE  peerClosed[d] /\ peerGot[d] = peerSent[d]
      <3>1. transferred < TunnelBytes /\ Drained /\ ~readOpen[d]
        BY <1>1, <2>2 DEF RelayReturns, ReturnsAtTop
      <3>2. peerClosed[d] /\ unread[d] = 0 /\ pending[d] = 0
        BY <3>1, RelayBounds DEF EndsAreTrue, Drained, RelayTypes
      <3> QED
        BY <3>2 DEF Conserved, RelayTypes
    <2> QED
      BY <1>1, <2>1, <2>2 DEF RelayReturns, RelayTypes, Conserved, EndsAreTrue, RoomToRead, ClosedIsDone
  <1>2. CASE RelayTop
    <2>1. relayPc' = "select"
      BY <1>2, SomethingToWaitFor
    <2>2. writeShut' \in [Directions -> BOOLEAN]
      BY <1>2 DEF RelayTop, ShutNow, RelayTypes
    <2>3. relayMap' \in [Sockets -> SUBSET {"read", "write"}]
      BY <1>2 DEF RelayTop, interests
    <2>4. RelayTypes'
      BY <1>2, <2>1, <2>2, <2>3 DEF RelayTop, RelayTypes
    <2>5. EndsAreTrue'
      BY <1>2 DEF RelayTop, EndsAreTrue, ShutNow
    <2>6. RoomToRead'
      BY <1>2, <2>1 DEF RelayTop, RoomToRead, interests, HasRoom
    <2> QED
      BY <1>2, <2>1, <2>4, <2>5, <2>6 DEF RelayTop, Conserved, ClosedIsDone
  <1>3. CASE RelaySelects
    <2>1. relayEvents' \subseteq [of : Sockets, mask : SUBSET {"read", "write"}]
      BY <1>3 DEF RelaySelects, Ready, RelayTypes
    <2>2. RoomToRead'
      <3>1. relayPc = "select" /\ relayPc' = "handle" /\ pending' = pending
        BY <1>3 DEF RelaySelects
      <3>2. \A e \in relayEvents' : e = [of |-> e.of, mask |-> Ready(e.of)] /\ e.of \in Sockets
        BY <1>3 DEF RelaySelects
      <3>3. \A t \in Sockets : Ready(t) \subseteq relayMap[t]
        BY DEF Ready
      <3>4. \A e \in relayEvents' : "read" \in e.mask => HasRoom(e.of)
        BY <3>1, <3>2, <3>3 DEF RoomToRead
      <3>5. \A e, f \in relayEvents' : e.of = f.of => e = f
        BY <3>2
      <3> QED
        BY <3>1, <3>4, <3>5 DEF RoomToRead, HasRoom
    <2> QED
      BY <1>3, <2>1, <2>2 DEF RelaySelects, RelayTypes, Conserved, EndsAreTrue, ClosedIsDone
  <1>4. CASE RelayFails \/ RelayIdles
    BY <1>4 DEF RelayFails, RelayIdles, Returned, RelayTypes, Conserved, EndsAreTrue, RoomToRead, ClosedIsDone
  <1>5. CASE \E e \in relayEvents : RelayHandles(e)
    BY <1>5, HandlingKeeps
  <1>6. ASSUME relayPc \notin Returned, NEW d \in Directions, PeerSends(d)
        PROVE  RelayInv'
    <2>1. /\ peerSent' = [peerSent EXCEPT ![d] = peerSent[d] + 1] /\ ~peerClosed[d]
          /\ unread' = [unread EXCEPT ![d] = unread[d] + 1]
      BY <1>6 DEF PeerSends
    <2>2. peerSent' \in [Directions -> Nat] /\ unread' \in [Directions -> Nat]
      BY <2>1 DEF RelayTypes
    <2>3. Conserved'
      <3> SUFFICES ASSUME NEW x \in Directions
                   PROVE  peerSent'[x] = peerGot[x] + pending[x] + unread'[x]
        BY <1>6 DEF PeerSends, Conserved
      <3>1. peerSent[x] = peerGot[x] + pending[x] + unread[x]
        BY DEF Conserved
      <3>2. peerSent[x] \in Nat /\ peerGot[x] \in Nat /\ pending[x] \in Nat /\ unread[x] \in Nat
        BY DEF RelayTypes
      <3>3. IF x = d THEN peerSent'[x] = peerSent[x] + 1 /\ unread'[x] = unread[x] + 1
                     ELSE peerSent'[x] = peerSent[x] /\ unread'[x] = unread[x]
        BY <2>1 DEF RelayTypes
      <3> QED
        BY <3>1, <3>2, <3>3
    <2>4. EndsAreTrue'
      BY <1>6, <2>1 DEF PeerSends, EndsAreTrue, RelayTypes
    <2> QED
      BY <1>6, <2>2, <2>3, <2>4 DEF PeerSends, RelayTypes, RoomToRead, HasRoom, ClosedIsDone, Returned
  <1>7. ASSUME relayPc \notin Returned, NEW d \in Directions, PeerCloses(d) \/ PeerReads(d)
        PROVE  RelayInv'
    <2>1. /\ peerClosed' \in [Directions -> BOOLEAN] /\ window' \in [Directions -> BOOLEAN]
          /\ \A x \in Directions : peerClosed[x] => peerClosed'[x]
      BY <1>7 DEF PeerCloses, PeerReads, RelayTypes
    <2> QED
      BY <1>7, <2>1 DEF PeerCloses, PeerReads, RelayTypes, Conserved, EndsAreTrue, RoomToRead, HasRoom, ClosedIsDone, Returned
  <1>8. CASE LifetimeEnds \/ UNCHANGED relayVars
    BY <1>8 DEF LifetimeEnds, relayVars, RelayTypes, Conserved, EndsAreTrue, RoomToRead, HasRoom, ClosedIsDone
  <1> QED
    BY <1>1, <1>2, <1>3, <1>4, <1>5, <1>6, <1>7, <1>8 DEF RelayNext, RelayStep

(* The relay of codex_connect_proxy.py never takes a full buffer for the   *)
(* end of a stream: what it shuts or calls finished has been delivered,    *)
(* both bounds hold, and it always has something to wait for.              *)
THEOREM TunnelsAreFaithful == RelaySpec => []RelayIsFaithful
  <1>1. RelayInv => RelayIsFaithful
    <2> SUFFICES ASSUME RelayInv PROVE RelayIsFaithful
      OBVIOUS
    <2>1. ASSUME NEW d \in Directions, writeShut[d], ~(transferred >= TunnelBytes)
          PROVE  peerClosed[d] /\ peerGot[d] = peerSent[d]
      <3>1. peerClosed[d] /\ unread[d] = 0 /\ pending[d] = 0
        BY <2>1 DEF RelayInv, EndsAreTrue
      <3> QED
        BY <3>1 DEF RelayInv, Conserved, RelayTypes
    <2> QED
      BY <2>1 DEF RelayInv, Conserved, ClosedIsDone, RelayIsFaithful
  <1> QED
    BY <1>1, RelayInvInit, RelayInvNext, PTL DEF RelaySpec

-----------------------------------------------------------------------------
(***************************************************************************)
(* The proxy sidecar up to the relay.                                      *)
(***************************************************************************)
ProxySpec == ProxyInit /\ [][ProxyNext]_proxyVars

HandlerSteps ==
  {"none", "header", "hello", "resolve", "resolving", "connect", "relay", "closing", "closed"}

Allowed == ExactHosts \cup TaskHosts
Globals == {a \in Addresses : a.global}

Tunnels ==
  [host : Hosts \cup {Refused}, sni : Hosts \cup {Refused}, raw : Nat, hello : Nat,
   expected : Nat, targets : Seq(Globals), target : Globals \cup {Refused}]

ProxyTypes ==
  /\ handler \in [Conns -> HandlerSteps]
  /\ tunnel \in [Conns -> Tunnels]
  /\ connSlots \in Nat /\ dnsSlots \in Nat
  /\ replies \in [Conns -> Seq({"200", "403", "502"})]

(* The connections that hold a slot, and those that hold a resolver.       *)
Holding == {c \in Conns : handler[c] \notin {"none", "closed"}}
Resolving == {c \in Conns : handler[c] = "resolving"}

SlotsAddUp ==
  /\ IsFiniteSet(Holding) /\ connSlots + Cardinality(Holding) = MaxConnections
  /\ IsFiniteSet(Resolving) /\ dnsSlots + Cardinality(Resolving) = MaxDns

(* What a handler has established by each of its steps.                    *)
Checked(c) ==
  /\ handler[c] \in {"none", "header"} => tunnel[c] = NoTunnel /\ replies[c] = <<>>
  /\ handler[c] \in {"hello", "resolve", "resolving", "connect", "relay"} =>
       tunnel[c].host \in Allowed /\ tunnel[c].raw <= MaxHello /\ replies[c] = <<"200">>
  /\ handler[c] \in {"resolve", "resolving", "connect", "relay"} =>
       tunnel[c].sni = tunnel[c].host /\ tunnel[c].hello >= tunnel[c].expected
  /\ handler[c] = "relay" => tunnel[c].target \in Globals
  /\ Len(replies[c]) <= 1

ProxyInv == ProxyTypes /\ SlotsAddUp /\ \A c \in Conns : Checked(c)

(* The loop of resolve_global_targets keeps nothing but global addresses,  *)
(* for an answer of any length.                                            *)
LEMMA TargetsAreGlobal ==
  ASSUME NEW answer \in Seq(Addresses)
  PROVE  resolve_global_targets(answer) \in Seq(Globals)
  <1> DEFINE Step(before, i) ==
               IF /\ answer[i].global
                  /\ \A j \in DOMAIN before : before[j] # answer[i]
                  /\ Len(before) < MaxAddresses
               THEN Append(before, answer[i]) ELSE before
             N == Len(answer)
             S == Seq(Globals)
             Loop(f) == f = [i \in 0..N |-> IF i = 0 THEN <<>> ELSE Step(f[i - 1], i)]
             found == CHOOSE f : Loop(f)
  <1>0. N \in Nat /\ \A i \in 1..N : answer[i] \in Addresses
    OBVIOUS
  <1>1. resolve_global_targets(answer) = found[N]
    BY DEF resolve_global_targets
  <1>2. ASSUME NEW before \in S, NEW i \in 1..N PROVE Step(before, i) \in S
    BY <1>0, <1>2 DEF Globals
  <1>a. <<>> \in S
    OBVIOUS
  <1>3. PICK base \in S : base = <<>>
    BY <1>a
  <1> HIDE DEF Step, N, S
  <1>4. \E f : Loop(f)
    <2> DEFINE step == [p \in S \X (1..N) |-> Step(p[1], p[2])]
    <2>1. step \in [S \X (1..N) -> S] /\ \A before \in S, i \in 1..N : step[<<before, i>>] = Step(before, i)
      BY <1>2
    <2> HIDE DEF step
    <2>2. PICK f : IsLoop(f, S, base, N, step)
      <3>1. base \in S /\ N \in Nat /\ step \in [S \X (1..N) -> S]
        BY <1>0, <1>3, <2>1
      <3> QED
        BY ONLY <3>1, LoopExists
    <2>3. \A i \in 1..N : f[i] = Step(f[i - 1], i)
      <3> SUFFICES ASSUME NEW i \in 1..N PROVE f[i] = Step(f[i - 1], i)
        OBVIOUS
      <3>1. i - 1 \in 0..N
        BY <1>0
      <3> QED
        BY <2>1, <2>2, <3>1 DEF IsLoop
    <2>4. f = [i \in 0..N |-> IF i = 0 THEN <<>> ELSE Step(f[i - 1], i)]
      <3>1. f = [i \in 0..N |-> f[i]]
        BY <2>2 DEF IsLoop
      <3>2. \A i \in 0..N : i # 0 => i \in 1..N
        BY <1>0
      <3>3. \A i \in 0..N : f[i] = IF i = 0 THEN <<>> ELSE Step(f[i - 1], i)
        BY <1>3, <2>2, <2>3, <3>2 DEF IsLoop
      <3> QED
        BY <3>1, <3>3
    <2> QED
      BY <2>4
  <1>5. Loop(found)
    BY <1>4
  <1> HIDE DEF found
  <1>6. found[0] = <<>> /\ \A i \in 1..N : found[i] = Step(found[i - 1], i)
    BY <1>0, <1>5
  <1> DEFINE Typed == {i \in 0..N : found[i] \in S}
  <1>7. \A i \in 0..N : i \in Typed
    <2>1. 0 \in Typed
      BY <1>0, <1>3, <1>6
    <2>2. ASSUME NEW i \in 1..N, i - 1 \in Typed PROVE i \in Typed
      BY <1>0, <1>2, <1>6, <2>2
    <2> HIDE DEF Typed
    <2> QED
      BY <1>0, <2>1, <2>2, UpTo
  <1> QED
    BY <1>0, <1>1, <1>7 DEF S, N

LEMMA ProxyInvInit == ProxyInit => ProxyInv
  <1> SUFFICES ASSUME ProxyInit PROVE ProxyInv
    OBVIOUS
  <1> USE DEF ProxyInit
  <1>1. NoTunnel \in Tunnels
    BY DEF NoTunnel, Tunnels
  <1>2. ProxyTypes
    BY <1>1, ProxyBounds DEF ProxyTypes, HandlerSteps
  <1>3. Holding = {} /\ Resolving = {}
    BY DEF Holding, Resolving
  <1>4. SlotsAddUp
    BY <1>3, ProxyBounds, FS_EmptySet DEF SlotsAddUp
  <1>5. \A c \in Conns : Checked(c)
    BY DEF Checked
  <1> QED
    BY <1>2, <1>4, <1>5 DEF ProxyInv

(* How the two counts follow the step of one handler.                      *)
LEMMA CountsFollow ==
  ASSUME ProxyInv, NEW c \in Conns, NEW to, Moves(c, to)
  PROVE  /\ Holding' = IF to \in {"none", "closed"} THEN Holding \ {c} ELSE Holding \cup {c}
         /\ Resolving' = IF to = "resolving" THEN Resolving \cup {c} ELSE Resolving \ {c}
         /\ c \in Holding <=> handler[c] \notin {"none", "closed"}
         /\ c \in Resolving <=> handler[c] = "resolving"
         /\ IsFiniteSet(Holding') /\ IsFiniteSet(Resolving')
         /\ Cardinality(Holding) \in Nat /\ Cardinality(Resolving) \in Nat
         /\ Cardinality(Holding \ {c}) = IF c \in Holding THEN Cardinality(Holding) - 1 ELSE Cardinality(Holding)
         /\ Cardinality(Holding \cup {c}) = IF c \in Holding THEN Cardinality(Holding) ELSE Cardinality(Holding) + 1
         /\ Cardinality(Resolving \ {c}) = IF c \in Resolving THEN Cardinality(Resolving) - 1 ELSE Cardinality(Resolving)
         /\ Cardinality(Resolving \cup {c}) = IF c \in Resolving THEN Cardinality(Resolving) ELSE Cardinality(Resolving) + 1
  <1>1. /\ Holding' = IF to \in {"none", "closed"} THEN Holding \ {c} ELSE Holding \cup {c}
        /\ Resolving' = IF to = "resolving" THEN Resolving \cup {c} ELSE Resolving \ {c}
    BY DEF Moves, Holding, Resolving, ProxyInv, ProxyTypes
  <1>2. IsFiniteSet(Holding) /\ IsFiniteSet(Resolving)
    BY DEF ProxyInv, SlotsAddUp
  <1>3. /\ c \in Holding <=> handler[c] \notin {"none", "closed"}
        /\ c \in Resolving <=> handler[c] = "resolving"
    BY DEF Holding, Resolving
  <1> QED
    BY <1>1, <1>2, <1>3, FS_AddElement, FS_RemoveElement, FS_CardinalityType

(* A handler that goes on with its slot, and neither takes nor gives back  *)
(* a resolver.                                                             *)
LEMMA KeepsItsSlots ==
  ASSUME ProxyInv, NEW c \in Conns, NEW to, Moves(c, to),
         handler[c] \notin {"none", "closed", "resolving"}, to \notin {"none", "closed", "resolving"},
         UNCHANGED <<connSlots, dnsSlots>>
  PROVE  SlotsAddUp'
  <1>1. Holding' = Holding /\ Resolving' = Resolving
    BY CountsFollow
  <1> QED
    BY <1>1 DEF ProxyInv, SlotsAddUp

(* A step of one handler is none of the others' business.                  *)
LEMMA OthersStay ==
  ASSUME ProxyInv, NEW c \in Conns, NEW to \in HandlerSteps, Moves(c, to),
         NEW t \in Tunnels, tunnel' = [tunnel EXCEPT ![c] = t],
         NEW r \in Seq({"200", "403", "502"}), replies' = [replies EXCEPT ![c] = r],
         SlotsAddUp', connSlots' \in Nat, dnsSlots' \in Nat, Checked(c)'
  PROVE  ProxyInv'
  <1>1. ProxyTypes'
    BY DEF ProxyInv, ProxyTypes, Moves
  <1>2. ASSUME NEW d \in Conns PROVE Checked(d)'
    <2>1. CASE d = c
      BY <2>1
    <2>2. CASE d # c
      <3>1. handler'[d] = handler[d] /\ tunnel'[d] = tunnel[d] /\ replies'[d] = replies[d]
        BY <2>2 DEF ProxyInv, ProxyTypes, Moves
      <3> QED
        BY <3>1 DEF ProxyInv, Checked
    <2> QED
      BY <2>1, <2>2
  <1> QED
    BY <1>1, <1>2 DEF ProxyInv

(* What one handler keeps in its own record.                               *)
LEMMA OwnState ==
  ASSUME ProxyInv, NEW c \in Conns
  PROVE  /\ tunnel \in [Conns -> Tunnels] /\ tunnel[c] \in Tunnels /\ tunnel = [tunnel EXCEPT ![c] = tunnel[c]]
         /\ replies[c] \in Seq({"200", "403", "502"}) /\ replies = [replies EXCEPT ![c] = replies[c]]
         /\ handler[c] \in HandlerSteps /\ handler = [handler EXCEPT ![c] = handler[c]]
         /\ Checked(c) /\ NoTunnel \in Tunnels
         /\ connSlots \in Nat /\ dnsSlots \in Nat
  BY DEF ProxyInv, ProxyTypes, NoTunnel, Tunnels

LEMMA GivingUpKeeps ==
  ASSUME ProxyInv, NEW c \in Conns, GiveUp(c),
         handler[c] \in {"hello", "resolve", "connect", "relay"}
  PROVE  ProxyInv'
  <1>1. Moves(c, "closing") /\ UNCHANGED <<connSlots, dnsSlots, replies>>
        /\ tunnel' = [tunnel EXCEPT ![c] = NoTunnel]
    BY DEF GiveUp
  <1>2. SlotsAddUp'
    BY <1>1, KeepsItsSlots
  <1>3. handler'[c] = "closing" /\ replies' = [replies EXCEPT ![c] = replies[c]] /\ "closing" \in HandlerSteps
    BY <1>1, OwnState DEF Moves, HandlerSteps, ProxyInv, ProxyTypes
  <1>4. Checked(c)'
    BY <1>1, <1>3, OwnState DEF Checked
  <1> QED
    BY <1>1, <1>2, <1>3, <1>4, OwnState, OthersStay

(* The accept loop and the end of a connection, which move the slots.      *)
LEMMA AcceptingKeeps ==
  ASSUME ProxyInv, NEW c \in Conns,
         RefuseConnection(c) \/ AcceptConnection(c) \/ shutdown_request(c)
  PROVE  ProxyInv'
  <1> USE DEF HandlerSteps
  <1>0. connSlots + Cardinality(Holding) = MaxConnections /\ connSlots \in Nat /\ MaxConnections \in Nat
    BY ProxyBounds DEF ProxyInv, ProxyTypes, SlotsAddUp
  <1>1. CASE RefuseConnection(c)
    <2>1. Moves(c, "closed") /\ UNCHANGED <<tunnel, connSlots, dnsSlots, replies>> /\ handler[c] = "none"
      BY <1>1 DEF RefuseConnection
    <2>2. Holding' = Holding /\ Resolving' = Resolving
      BY <2>1, CountsFollow
    <2>3. SlotsAddUp'
      BY <2>1, <2>2 DEF ProxyInv, SlotsAddUp
    <2>4. Checked(c)'
      <3>1. handler'[c] = "closed"
        BY <2>1 DEF Moves, ProxyInv, ProxyTypes
      <3> QED
        BY <2>1, <3>1, OwnState DEF Checked
    <2> QED
      BY <2>1, <2>3, <2>4, OwnState, OthersStay
  <1>2. CASE AcceptConnection(c)
    <2>1. PICK to \in {"header", "closing"} : Moves(c, to)
      BY <1>2 DEF AcceptConnection
    <2>2. /\ handler[c] = "none" /\ connSlots > 0 /\ connSlots' = connSlots - 1
          /\ UNCHANGED <<tunnel, dnsSlots, replies>>
      BY <1>2 DEF AcceptConnection
    <2>3. /\ Holding' = Holding \cup {c} /\ Resolving' = Resolving /\ IsFiniteSet(Holding')
          /\ Cardinality(Holding') = Cardinality(Holding) + 1 /\ Cardinality(Holding) \in Nat
      BY <2>1, <2>2, CountsFollow
    <2>4. connSlots' \in Nat /\ connSlots' + Cardinality(Holding') = MaxConnections
      BY <1>0, <2>2, <2>3
    <2>5. SlotsAddUp'
      BY <2>2, <2>3, <2>4 DEF ProxyInv, SlotsAddUp
    <2>6. Checked(c)'
      <3>1. handler'[c] = to
        BY <2>1 DEF Moves, ProxyInv, ProxyTypes
      <3> QED
        BY <2>1, <2>2, <3>1, OwnState DEF Checked
    <2> QED
      BY <2>1, <2>2, <2>4, <2>5, <2>6, OwnState, OthersStay
  <1>3. CASE shutdown_request(c)
    <2>1. /\ Moves(c, "closed") /\ handler[c] = "closing" /\ connSlots' = connSlots + 1
          /\ replies' = [replies EXCEPT ![c] = <<>>] /\ UNCHANGED <<tunnel, dnsSlots>>
      BY <1>3 DEF shutdown_request
    <2>2. /\ Holding' = Holding \ {c} /\ Resolving' = Resolving /\ IsFiniteSet(Holding')
          /\ Cardinality(Holding') = Cardinality(Holding) - 1 /\ Cardinality(Holding) \in Nat
      BY <2>1, CountsFollow
    <2>3. connSlots' \in Nat /\ connSlots' + Cardinality(Holding') = MaxConnections
      BY <1>0, <2>1, <2>2
    <2>4. SlotsAddUp'
      BY <2>1, <2>2, <2>3 DEF ProxyInv, SlotsAddUp
    <2>5. Checked(c)' /\ <<>> \in Seq({"200", "403", "502"})
      <3>1. handler'[c] = "closed" /\ replies'[c] = <<>>
        BY <2>1 DEF Moves, ProxyInv, ProxyTypes
      <3> QED
        BY <3>1 DEF Checked
    <2> QED
      BY <2>1, <2>3, <2>4, <2>5, OwnState, OthersStay
  <1> QED
    BY <1>1, <1>2, <1>3


(* The header and the ClientHello.                                         *)
LEMMA ReadingKeeps ==
  ASSUME ProxyInv, NEW c \in Conns,
         \/ ReadBadHeader(c) \/ ReadHeader(c) \/ LoseClient(c) \/ CheckHello(c)
         \/ \E size \in 1..2, length \in 1..MaxHello + 1 : ReadRecord(c, size, length)
  PROVE  ProxyInv'
  <1> USE DEF HandlerSteps
  <1> DEFINE t == tunnel[c]
  <1>0. /\ t = [host |-> t.host, sni |-> t.sni, raw |-> t.raw, hello |-> t.hello,
                expected |-> t.expected, targets |-> t.targets, target |-> t.target]
        /\ t.host \in Hosts \cup {Refused} /\ t.sni \in Hosts \cup {Refused} /\ t.raw \in Nat
        /\ t.hello \in Nat /\ t.expected \in Nat
        /\ t.targets \in Seq(Globals) /\ t.target \in Globals \cup {Refused}
    BY OwnState DEF Tunnels
  <1>1. CASE ReadBadHeader(c)
    <2>1. PICK response \in {"403", "502"} : RejectRequest(c, response)
      BY <1>1 DEF ReadBadHeader
    <2>2. /\ handler[c] = "header" /\ Moves(c, "closing") /\ UNCHANGED <<tunnel, connSlots, dnsSlots>>
          /\ replies' = [replies EXCEPT ![c] = Append(replies[c], response)] \/ replies' = replies
      BY <2>1 DEF RejectRequest, Replying
    <2>3. replies[c] = <<>>
      BY <2>2, OwnState DEF Checked
    <2>4. PICK r \in {<<>>, <<response>>} : replies' = [replies EXCEPT ![c] = r]
      BY <2>2, <2>3, OwnState
    <2>5. SlotsAddUp'
      BY <2>2, KeepsItsSlots
    <2>6. Checked(c)' /\ r \in Seq({"200", "403", "502"})
      <3>1. handler'[c] = "closing" /\ replies'[c] = r
        BY <2>2, <2>4 DEF Moves, ProxyInv, ProxyTypes
      <3>2. Len(r) <= 1 /\ r \in Seq({"200", "403", "502"})
        <4>1. CASE r = <<>>
          BY <4>1
        <4>2. CASE r = <<response>>
          BY <4>2
        <4> QED
          BY <4>1, <4>2
      <3> QED
        BY <3>1, <3>2 DEF Checked
    <2> QED
      BY <2>2, <2>4, <2>5, <2>6, OwnState, OthersStay
  <1>2. CASE ReadHeader(c)
    <2>1. PICK h \in Headers :
            /\ parse_connect_request(h) # Refused
            /\ tunnel' = [tunnel EXCEPT ![c].host = parse_connect_request(h)]
      BY <1>2 DEF ReadHeader
    <2>2. parse_connect_request(h) \in Allowed
      BY <2>1 DEF parse_connect_request, validate_authority, Allowed
    <2> DEFINE host == parse_connect_request(h)
               new == [tunnel[c] EXCEPT !.host = host]
    <2>3. /\ handler[c] = "header" /\ Moves(c, "hello") /\ UNCHANGED <<connSlots, dnsSlots>>
          /\ replies' = [replies EXCEPT ![c] = Append(replies[c], "200")]
      BY <1>2 DEF ReadHeader, Replying
    <2>4. tunnel[c] = NoTunnel /\ replies[c] = <<>>
      BY <2>3, OwnState DEF Checked
    <2>5. replies' = [replies EXCEPT ![c] = <<"200">>] /\ tunnel' = [tunnel EXCEPT ![c] = new]
      BY <2>1, <2>3, <2>4
    <2>6. new \in Tunnels /\ new.host \in Allowed /\ new.raw = 0
      <3>1. host \in Hosts \cup {Refused}
        BY <2>2 DEF Allowed, Hosts
      <3>2. t.raw = 0
        BY <2>4 DEF NoTunnel
      <3> HIDE DEF host
      <3>3. new \in Tunnels /\ new.host = host /\ new.raw = t.raw
        BY <1>0, <3>1 DEF Tunnels
      <3> QED
        BY <2>2, <3>2, <3>3 DEF host
    <2> HIDE DEF new
    <2>7. SlotsAddUp'
      BY <2>3, KeepsItsSlots
    <2>8. Checked(c)' /\ <<"200">> \in Seq({"200", "403", "502"})
      <3>1. handler'[c] = "hello" /\ replies'[c] = <<"200">> /\ tunnel'[c] = new
        BY <2>3, <2>5 DEF Moves, ProxyInv, ProxyTypes
      <3> QED
        BY <2>6, <3>1, ProxyBounds DEF Checked
    <2> QED
      BY <2>3, <2>5, <2>6, <2>7, <2>8, OwnState, OthersStay
  <1>3. CASE LoseClient(c)
    BY <1>3, GivingUpKeeps DEF LoseClient
  <1>4. CASE CheckHello(c)
    <2>1. handler[c] = "hello" /\ tunnel[c].expected # 0 /\ tunnel[c].hello >= tunnel[c].expected
      BY <1>4 DEF CheckHello
    <2>2. PICK names \in ServerNames :
            IF client_hello_sni(names) # tunnel[c].host
            THEN GiveUp(c)
            ELSE /\ tunnel' = [tunnel EXCEPT ![c].sni = client_hello_sni(names)]
                 /\ Moves(c, "resolve") /\ UNCHANGED <<connSlots, dnsSlots, replies>>
      BY <1>4 DEF CheckHello
    <2>3. CASE client_hello_sni(names) # tunnel[c].host
      BY <2>1, <2>2, <2>3, GivingUpKeeps
    <2>4. CASE client_hello_sni(names) = tunnel[c].host
      <3> DEFINE new == [tunnel[c] EXCEPT !.sni = tunnel[c].host]
      <3>1. /\ tunnel' = [tunnel EXCEPT ![c] = new] /\ Moves(c, "resolve")
            /\ UNCHANGED <<connSlots, dnsSlots, replies>>
        BY <2>2, <2>4
      <3>2. /\ new \in Tunnels /\ new.host = t.host /\ new.sni = t.host /\ new.raw = t.raw
            /\ new.hello = t.hello /\ new.expected = t.expected
        BY <1>0 DEF Tunnels
      <3> HIDE DEF new
      <3>3. SlotsAddUp'
        BY <2>1, <3>1, KeepsItsSlots
      <3>4. Checked(c)'
        <4>1. handler'[c] = "resolve" /\ replies'[c] = replies[c] /\ tunnel'[c] = new
          BY <3>1 DEF Moves, ProxyInv, ProxyTypes
        <4> QED
          BY <2>1, <3>2, <4>1, OwnState DEF Checked
      <3> QED
        BY <3>1, <3>2, <3>3, <3>4, OwnState, OthersStay
    <2> QED
      BY <2>3, <2>4
  <1>5. ASSUME NEW size \in 1..2, NEW length \in 1..MaxHello + 1, ReadRecord(c, size, length)
        PROVE  ProxyInv'
    <2> DEFINE raw == t.raw + 1 + size
               expected == IF t.expected = 0 THEN length ELSE t.expected
               new == [tunnel[c] EXCEPT !.raw = raw, !.hello = @ + size, !.expected = expected]
    <2>1. handler[c] = "hello"
      BY <1>5 DEF ReadRecord
    <2>2. CASE raw > MaxHello \/ expected > MaxHello
      BY <1>5, <2>1, <2>2, GivingUpKeeps DEF ReadRecord
    <2>3. CASE ~(raw > MaxHello \/ expected > MaxHello)
      <3>1. tunnel' = [tunnel EXCEPT ![c] = new] /\ UNCHANGED <<handler, connSlots, dnsSlots, replies>>
        BY <1>5, <2>3 DEF ReadRecord
      <3>2. raw \in Nat /\ t.hello + size \in Nat /\ expected \in Nat /\ raw <= MaxHello
        <4>1. size \in Nat /\ length \in Nat /\ MaxHello \in Nat /\ t.raw \in Nat /\ t.hello \in Nat /\ t.expected \in Nat
          BY <1>0, ProxyBounds
        <4> HIDE DEF t
        <4>2. raw \in Nat /\ t.hello + size \in Nat /\ expected \in Nat
          BY <4>1
        <4> HIDE DEF raw, expected
        <4> QED
          BY <2>3, <4>1, <4>2
      <3>3. new \in Tunnels /\ new.host = t.host /\ new.raw = raw
        BY <1>0, <3>2 DEF Tunnels
      <3> HIDE DEF new, raw, expected
      <3>4. SlotsAddUp' /\ Moves(c, "hello")
        BY <2>1, <3>1, OwnState DEF ProxyInv, SlotsAddUp, Holding, Resolving, Moves
      <3>5. Checked(c)'
        <4>1. handler'[c] = "hello" /\ replies'[c] = replies[c] /\ tunnel'[c] = new
          BY <2>1, <3>1 DEF ProxyInv, ProxyTypes
        <4> QED
          BY <2>1, <3>2, <3>3, <4>1, OwnState DEF Checked
      <3> QED
        BY <3>1, <3>3, <3>4, <3>5, OwnState, OthersStay
    <2> QED
      BY <2>2, <2>3
  <1> QED
    BY <1>1, <1>2, <1>3, <1>4, <1>5

(* The resolver and the connection to the host.                            *)
LEMMA ConnectingKeeps ==
  ASSUME ProxyInv, NEW c \in Conns,
         \/ AcquireResolver(c) \/ ResolverBusy(c) \/ ResolveFails(c) \/ Resolve(c)
         \/ ConnectNext(c) \/ ConnectFails(c) \/ RelayReturned(c)
  PROVE  ProxyInv'
  <1> USE DEF HandlerSteps
  <1> DEFINE t == tunnel[c]
  <1>0. /\ t = [host |-> t.host, sni |-> t.sni, raw |-> t.raw, hello |-> t.hello,
                expected |-> t.expected, targets |-> t.targets, target |-> t.target]
        /\ t.host \in Hosts \cup {Refused} /\ t.sni \in Hosts \cup {Refused} /\ t.raw \in Nat
        /\ t.hello \in Nat /\ t.expected \in Nat
        /\ t.targets \in Seq(Globals) /\ t.target \in Globals \cup {Refused}
    BY OwnState DEF Tunnels
  <1>1. dnsSlots + Cardinality(Resolving) = MaxDns /\ dnsSlots \in Nat /\ MaxDns \in Nat
    BY ProxyBounds DEF ProxyInv, ProxyTypes, SlotsAddUp
  <1>2. CASE AcquireResolver(c)
    <2>1. /\ Moves(c, "resolving") /\ handler[c] = "resolve" /\ dnsSlots > 0 /\ dnsSlots' = dnsSlots - 1
          /\ UNCHANGED <<tunnel, connSlots, replies>>
      BY <1>2 DEF AcquireResolver
    <2>2. /\ Holding' = Holding /\ Resolving' = Resolving \cup {c} /\ IsFiniteSet(Resolving')
          /\ Cardinality(Resolving') = Cardinality(Resolving) + 1 /\ Cardinality(Resolving) \in Nat
      BY <2>1, CountsFollow
    <2>3. dnsSlots' \in Nat /\ dnsSlots' + Cardinality(Resolving') = MaxDns
      BY <1>1, <2>1, <2>2
    <2>4. SlotsAddUp'
      BY <2>1, <2>2, <2>3 DEF ProxyInv, SlotsAddUp
    <2>5. Checked(c)'
      <3>1. handler'[c] = "resolving"
        BY <2>1 DEF Moves, ProxyInv, ProxyTypes
      <3> QED
        BY <2>1, <3>1, OwnState DEF Checked
    <2> QED
      BY <2>1, <2>3, <2>4, <2>5, OwnState, OthersStay
  <1>3. CASE ResolveFails(c) \/ Resolve(c)
    <2>1. PICK to \in {"closing", "connect"}, new \in Tunnels :
            /\ Moves(c, to) /\ tunnel' = [tunnel EXCEPT ![c] = new]
            /\ to = "connect" => /\ new.host = t.host /\ new.sni = t.sni /\ new.raw = t.raw
                                 /\ new.hello = t.hello /\ new.expected = t.expected
      <3>1. CASE ResolveFails(c)
        BY <3>1, OwnState DEF ResolveFails
      <3>2. CASE Resolve(c)
        <4>1. PICK answer \in Answers :
                tunnel' = [tunnel EXCEPT ![c].targets = resolve_global_targets(answer)]
          BY <3>2 DEF Resolve
        <4>2. answer \in Seq(Addresses)
          <5>1. CASE answer = <<>>
            BY <5>1
          <5>2. ASSUME NEW a \in Addresses, answer = <<a>> PROVE answer \in Seq(Addresses)
            BY <5>2
          <5>3. ASSUME NEW a \in Addresses, NEW b \in Addresses, answer = <<a, b>>
                PROVE  answer \in Seq(Addresses)
            BY <5>3
          <5> QED
            BY <5>1, <5>2, <5>3 DEF Answers
        <4>3. resolve_global_targets(answer) \in Seq(Globals)
          BY <4>2, TargetsAreGlobal
        <4> DEFINE found == resolve_global_targets(answer)
                   new == [tunnel[c] EXCEPT !.targets = found]
        <4> HIDE DEF found
        <4>4. /\ new \in Tunnels /\ new.host = t.host /\ new.sni = t.sni /\ new.raw = t.raw
              /\ new.hello = t.hello /\ new.expected = t.expected
          BY <1>0, <4>3 DEF Tunnels, found
        <4>5. Moves(c, "connect") /\ tunnel' = [tunnel EXCEPT ![c] = new]
          BY <3>2, <4>1 DEF Resolve, found
        <4> QED
          BY <4>4, <4>5
      <3> QED
        BY <1>3, <3>1, <3>2
    <2>2. handler[c] = "resolving" /\ dnsSlots' = dnsSlots + 1 /\ UNCHANGED <<connSlots, replies>>
      BY <1>3 DEF ResolveFails, Resolve
    <2>3. /\ Holding' = Holding /\ Resolving' = Resolving \ {c} /\ IsFiniteSet(Resolving')
          /\ Cardinality(Resolving') = Cardinality(Resolving) - 1 /\ Cardinality(Resolving) \in Nat
      BY <2>1, <2>2, CountsFollow
    <2>4. dnsSlots' \in Nat /\ dnsSlots' + Cardinality(Resolving') = MaxDns
      BY <1>1, <2>2, <2>3
    <2>5. SlotsAddUp'
      BY <2>2, <2>3, <2>4 DEF ProxyInv, SlotsAddUp
    <2>6. Checked(c)'
      <3>1. handler'[c] = to /\ tunnel'[c] = new
        BY <2>1 DEF Moves, ProxyInv, ProxyTypes
      <3> QED
        BY <2>1, <2>2, <3>1, OwnState DEF Checked
    <2> QED
      BY <2>1, <2>2, <2>4, <2>5, <2>6, OwnState, OthersStay
  <1>4. CASE ConnectNext(c)
    <2>1. /\ handler[c] = "connect" /\ t.targets # <<>> /\ UNCHANGED <<connSlots, dnsSlots, replies>>
      BY <1>4 DEF ConnectNext
    <2>2. Head(t.targets) \in Globals /\ Tail(t.targets) \in Seq(Globals)
      BY <1>0, <2>1
    <2>3. PICK to \in {"relay", "connect"}, new \in Tunnels :
            /\ Moves(c, to) /\ tunnel' = [tunnel EXCEPT ![c] = new]
            /\ new.host = t.host /\ new.sni = t.sni /\ new.raw = t.raw
            /\ new.hello = t.hello /\ new.expected = t.expected
            /\ to = "relay" => new.target \in Globals
      <3>1. CASE Moves(c, "relay")
                 /\ tunnel' = [tunnel EXCEPT ![c].target = Head(tunnel[c].targets), ![c].targets = <<>>]
        <4> DEFINE first == Head(t.targets)
                   new == [tunnel[c] EXCEPT !.target = first, !.targets = <<>>]
        <4>1. tunnel' = [tunnel EXCEPT ![c] = new]
          BY <3>1, OwnState
        <4> HIDE DEF first
        <4>2. /\ new \in Tunnels /\ new.host = t.host /\ new.sni = t.sni /\ new.raw = t.raw
              /\ new.hello = t.hello /\ new.expected = t.expected /\ new.target \in Globals
          <5> DEFINE mid == [tunnel[c] EXCEPT !.target = first]
          <5>1. first \in Globals /\ <<>> \in Seq(Globals)
            BY <2>2 DEF first
          <5>2. /\ mid \in Tunnels /\ mid.host = t.host /\ mid.sni = t.sni /\ mid.raw = t.raw
                /\ mid.hello = t.hello /\ mid.expected = t.expected /\ mid.target = first
            BY <1>0, <5>1 DEF Tunnels
          <5>3. new = [mid EXCEPT !.targets = <<>>]
            OBVIOUS
          <5> HIDE DEF mid, new
          <5> QED
            BY <5>1, <5>2, <5>3 DEF Tunnels
        <4> QED
          BY <3>1, <4>1, <4>2
      <3>2. CASE tunnel' = [tunnel EXCEPT ![c].targets = Tail(@)] /\ UNCHANGED handler
        <4> DEFINE rest == Tail(t.targets)
                   new == [tunnel[c] EXCEPT !.targets = rest]
        <4>1. tunnel' = [tunnel EXCEPT ![c] = new]
          BY <3>2
        <4> HIDE DEF rest
        <4>2. /\ new \in Tunnels /\ new.host = t.host /\ new.sni = t.sni /\ new.raw = t.raw
              /\ new.hello = t.hello /\ new.expected = t.expected
          BY <1>0, <2>2 DEF Tunnels, rest
        <4>3. Moves(c, "connect")
          BY <2>1, <3>2, OwnState DEF Moves
        <4> QED
          BY <4>1, <4>2, <4>3
      <3> QED
        BY <1>4, <3>1, <3>2 DEF ConnectNext
    <2>4. SlotsAddUp'
      BY <2>1, <2>3, KeepsItsSlots
    <2>5. Checked(c)'
      <3>1. handler'[c] = to /\ tunnel'[c] = new
        BY <2>3 DEF Moves, ProxyInv, ProxyTypes
      <3> QED
        BY <2>1, <2>3, <3>1, OwnState DEF Checked
    <2> QED
      BY <2>1, <2>3, <2>4, <2>5, OwnState, OthersStay
  <1>5. CASE ResolverBusy(c) \/ ConnectFails(c) \/ RelayReturned(c)
    BY <1>5, GivingUpKeeps DEF ResolverBusy, ConnectFails, RelayReturned
  <1> QED
    BY <1>2, <1>3, <1>4, <1>5

LEMMA ProxyInvNext == ProxyInv /\ [ProxyNext]_proxyVars => ProxyInv'
  <1> SUFFICES ASSUME ProxyInv, [ProxyNext]_proxyVars PROVE ProxyInv'
    OBVIOUS
  <1>1. CASE ProxyNext
    BY <1>1, AcceptingKeeps, ReadingKeeps, ConnectingKeeps DEF ProxyNext, HandlerStep
  <1>2. CASE UNCHANGED proxyVars
    BY <1>2 DEF proxyVars, ProxyInv, ProxyTypes, SlotsAddUp, Holding, Resolving, Checked
  <1> QED
    BY <1>1, <1>2

(* codex_connect_proxy.py loses and doubles no slot of either semaphore on *)
(* any path, and relays only what its checks have let through.             *)
THEOREM ProxiesAreSound == ProxySpec => []ProxyIsSound
  <1>1. ProxyInv => ProxyIsSound
    <2> SUFFICES ASSUME ProxyInv PROVE ProxyIsSound
      OBVIOUS
    <2>1. /\ connSlots + Cardinality({c \in Conns : handler[c] \notin {"none", "closed"}}) = MaxConnections
          /\ dnsSlots + Cardinality({c \in Conns : handler[c] = "resolving"}) = MaxDns
      BY DEF ProxyInv, SlotsAddUp, Holding, Resolving
    <2>2. \A c \in Conns : Checked(c)
      BY DEF ProxyInv
    <2> QED
      BY <2>1, <2>2 DEF ProxyIsSound, Checked, Allowed, Globals
  <1> QED
    BY <1>1, ProxyInvInit, ProxyInvNext, PTL DEF ProxySpec

-----------------------------------------------------------------------------
(***************************************************************************)
(* A script Candidate on Docker (runtime.rs).                              *)
(***************************************************************************)
DockerSpec == DockerInit /\ [][DockerNext]_dockerRunVars

DockerTypes ==
  /\ dockerPc \in {"pull", "import", "stage", "candidate", "remove", "drop", "judge", "ended"}
  /\ imported \in Seq(ImportNames)
  /\ waiting \in RunContainers \cup {""}
  /\ asked \in [RunContainers -> {"nothing", "create", "start", "done"}]
  /\ container \in [RunContainers -> {"none", "created", "running"}]

(* A client waits or is removed in three places only, the list is empty    *)
(* before the imports and behind Drop, and a Candidate that completed has  *)
(* passed them all.                                                        *)
ClientInStep ==
  /\ waiting # "" <=> dockerPc \in {"stage", "candidate", "remove"}
  /\ dockerPc \in {"pull", "judge", "ended"} => imported = <<>>
  /\ outcome = "Completed" => dockerPc \in {"drop", "judge", "ended"}

(* The list holds the first imports, and all a waiting client mounts.      *)
Listed == {imported[i] : i \in DOMAIN imported}

ImportsInStep ==
  /\ Len(imported) <= Len(Imports)
  /\ \A i \in DOMAIN imported : imported[i] = Imports[i]
  /\ waiting # "" => Mounts(waiting) \subseteq Listed

(* What the daemon has of a container follows what its client has asked;   *)
(* one that nobody waits for any more does not run.                        *)
Follows(k) ==
  /\ asked[k] \in {"nothing", "done"} => container[k] = "none"
  /\ asked[k] = "create" => container[k] # "running"
  /\ asked[k] = "start" => container[k] # "none"

NothingRunsOn ==
  \A k \in RunContainers : Follows(k) /\ (k # waiting /\ k \notin lostRuns => asked[k] # "start")

(* Up to its end, a run has no container but the one it waits for.         *)
OneContainer ==
  dockerPc \in {"pull", "import", "stage", "candidate"} \/ outcome = "Completed" =>
    \A k \in RunContainers : k # waiting => asked[k] \in {"nothing", "done"}

(* Every volume is in the list of those to be dropped, or lost, or may be  *)
(* made again.                                                             *)
MayBeMade(v) == \E k \in RunContainers : v \in Mounts(k) /\ asked[k] = "create"
VolumesListed == \A v \in volumes : v \in Listed \/ v \in lostVols \/ MayBeMade(v)

DockerInv ==
  DockerTypes /\ ClientInStep /\ ImportsInStep /\ NothingRunsOn /\ OneContainer /\ VolumesListed

LEMMA NoEmptyName == "" \notin RunContainers /\ "candidate" \notin ImportNames
  BY ImportNamed DEF RunContainers, ImportNames

(* The list of imports, as a sequence.                                     *)
LEMMA ImportsListed ==
  ASSUME DockerInv
  PROVE  /\ imported \in Seq(ImportNames) /\ Len(imported) \in Nat /\ DOMAIN imported = 1..Len(imported)
         /\ Len(Imports) \in Nat /\ DOMAIN Imports = 1..Len(Imports)
  <1>1. imported \in Seq(ImportNames)
    BY DEF DockerInv, DockerTypes
  <1>2. Imports \in Seq(STRING)
    BY ImportNamed
  <1>3. Len(imported) \in Nat /\ DOMAIN imported = 1..Len(imported)
    BY ONLY <1>1
  <1>4. Len(Imports) \in Nat /\ DOMAIN Imports = 1..Len(Imports)
    BY ONLY <1>2
  <1> QED
    BY <1>1, <1>3, <1>4

LEMMA DockerInvInit == DockerInit => DockerInv
  <1>1. <<>> \in Seq(ImportNames) /\ DOMAIN <<>> = {} /\ Len(<<>>) = 0
    OBVIOUS
  <1>2. Len(Imports) \in Nat
    <2>1. Imports \in Seq(STRING)
      BY ImportNamed
    <2> QED
      BY ONLY <2>1
  <1> SUFFICES ASSUME DockerInit PROVE DockerInv
    OBVIOUS
  <1> USE DEF DockerInit
  <1>3. DockerTypes
    BY <1>1 DEF DockerTypes
  <1>4. ImportsInStep
    <2>1. waiting = "" /\ DOMAIN imported = {} /\ Len(imported) = 0
      BY <1>1
    <2>2. 0 <= Len(Imports)
      BY ONLY <1>2
    <2> QED
      BY ONLY <2>1, <2>2 DEF ImportsInStep
  <1>5. ClientInStep /\ NothingRunsOn /\ OneContainer /\ VolumesListed
    BY DEF ClientInStep, NothingRunsOn, Follows, OneContainer, VolumesListed
  <1> QED
    BY <1>3, <1>4, <1>5 DEF DockerInv

(* The steps before there is a client, and behind the last one.            *)
LEMMA PreparingKeeps ==
  ASSUME DockerInv,
         \/ ImageIsLocal \/ PullSucceeds \/ PullFails \/ CreateVolumeFails \/ DropEnds \/ JudgeAnswersRun
  PROVE  DockerInv'
  <1>1. /\ UNCHANGED <<imported, waiting, asked, container, lostRuns>>
        /\ dockerPc \notin {"stage", "candidate", "remove"}
        /\ dockerPc' \in {"pull", "import", "drop", "judge", "ended"}
        /\ dockerPc' \in {"pull", "judge", "ended"} => imported = <<>>
        /\ dockerPc' \in {"pull", "import"} => dockerPc = "pull"
        /\ outcome' \in {outcome, "Failed"}
        /\ outcome = "Completed" => dockerPc' \in {"judge", "ended"}
        /\ \A v \in volumes' : v \in volumes \/ v \in lostVols'
        /\ lostVols \subseteq lostVols'
    <2>1. CASE ImageIsLocal \/ PullSucceeds \/ PullFails
      BY <2>1 DEF ImageIsLocal, PullSucceeds, PullFails, DockerFails, DockerInv, ClientInStep
    <2>2. CASE CreateVolumeFails
      BY <2>2 DEF CreateVolumeFails, DockerFails, DockerInv, ClientInStep
    <2>3. CASE DropEnds
      BY <2>3 DEF DropEnds
    <2>4. CASE JudgeAnswersRun
      <3>1. /\ dockerPc' = "ended" /\ dockerPc = "judge" /\ outcome' \in {outcome, "Failed"}
            /\ UNCHANGED <<imported, volumes, waiting, asked, container, lostRuns, lostVols>>
        BY <2>4 DEF JudgeAnswersRun, DockerFails
      <3> QED
        BY <3>1 DEF DockerInv, ClientInStep
    <2> QED
      BY <2>1, <2>2, <2>3, <2>4
  <1>2. DockerTypes' /\ ClientInStep' /\ ImportsInStep'
    BY <1>1 DEF DockerInv, DockerTypes, ClientInStep, ImportsInStep, Listed
  <1>3. NothingRunsOn'
    BY <1>1, Zenon DEF DockerInv, NothingRunsOn, Follows
  <1>4. OneContainer'
    <2>1. dockerPc' \in {"pull", "import", "stage", "candidate"} \/ outcome' = "Completed" =>
            dockerPc = "pull" \/ outcome = "Completed"
      BY <1>1
    <2> QED
      BY <1>1, <2>1 DEF DockerInv, OneContainer
  <1>5. VolumesListed'
    BY <1>1 DEF DockerInv, VolumesListed, Listed, MayBeMade
  <1> QED
    BY <1>2, <1>3, <1>4, <1>5 DEF DockerInv

LEMMA StartingKeeps ==
  ASSUME DockerInv, CreateVolume \/ StartCandidate
  PROVE  DockerInv'
  <1> USE DEF DockerInv
  <1>1. CASE CreateVolume
    <2> DEFINE n == Len(imported)
    <2>1. /\ dockerPc = "import" /\ n < Len(Imports)
          /\ volumes' = volumes \cup {NextImport} /\ imported' = Append(imported, NextImport)
          /\ waiting' = NextImport /\ dockerPc' = "stage"
          /\ UNCHANGED <<asked, container, lostRuns, lostVols, outcome>>
      BY <1>1 DEF CreateVolume
    <2>2. n \in Nat /\ Len(Imports) \in Nat /\ DOMAIN Imports = 1..Len(Imports)
      BY ImportsListed
    <2>3. n + 1 \in DOMAIN Imports /\ NextImport = Imports[n + 1]
      BY <2>1, <2>2 DEF NextImport
    <2>4. /\ NextImport \in ImportNames /\ NextImport \notin {"", "candidate"}
          /\ NextImport \in RunContainers
      BY <2>3, ImportNamed DEF ImportNames, RunContainers
    <2>5. /\ imported' \in Seq(ImportNames) /\ Len(imported') = n + 1 /\ DOMAIN imported' = 1..(n + 1)
          /\ imported'[n + 1] = NextImport /\ \A i \in 1..n : imported'[i] = imported[i]
      <3>1. imported \in Seq(ImportNames) /\ NextImport \in ImportNames
            /\ imported' = Append(imported, NextImport)
        BY <2>1, <2>4, ImportsListed
      <3> QED
        BY ONLY <3>1
    <2>6. Listed' = Listed \cup {NextImport}
      <3>1. DOMAIN imported = 1..n
        BY ImportsListed
      <3>2. 1..(n + 1) = (1..n) \cup {n + 1}
        BY ONLY <2>2
      <3> HIDE DEF n
      <3> QED
        BY <2>5, <3>1, <3>2 DEF Listed
    <2>7. waiting = ""
      BY <2>1 DEF ClientInStep
    <2>8. ImportsInStep'
      <3>1. Len(imported') <= Len(Imports)
        BY <2>1, <2>2, <2>5
      <3>2. \A i \in DOMAIN imported' : imported'[i] = Imports[i]
        <4>1. \A i \in 1..n : imported[i] = Imports[i]
          BY ImportsListed DEF ImportsInStep
        <4>2. \A i \in 1..(n + 1) : i \in 1..n \/ i = n + 1
          BY <2>2
        <4> QED
          BY <2>3, <2>5, <4>1, <4>2
      <3>3. Mounts(NextImport) = {NextImport}
        BY <2>4 DEF Mounts
      <3> QED
        BY <2>1, <2>6, <3>1, <3>2, <3>3 DEF ImportsInStep, Mounts
    <2>9. NothingRunsOn'
      BY <2>1, <2>4, <2>7, NoEmptyName DEF NothingRunsOn, Follows, OneContainer
    <2>10. OneContainer'
      BY <2>1, <2>7, NoEmptyName DEF OneContainer
    <2>11. VolumesListed'
      BY <2>1, <2>6 DEF VolumesListed, MayBeMade
    <2>12. DockerTypes' /\ ClientInStep'
      BY <2>1, <2>4, <2>5 DEF DockerTypes, ClientInStep
    <2> QED
      BY <2>8, <2>9, <2>10, <2>11, <2>12
  <1>2. CASE StartCandidate
    <2>1. /\ dockerPc = "import" /\ Len(imported) = Len(Imports)
          /\ waiting' = "candidate" /\ dockerPc' = "candidate"
          /\ UNCHANGED <<imported, volumes, asked, container, lostRuns, lostVols, outcome>>
      BY <1>2 DEF StartCandidate
    <2>2. waiting = "" /\ "candidate" \in RunContainers
      BY <2>1 DEF ClientInStep, RunContainers
    <2>3. Listed = ImportNames
      BY <2>1, ImportsListed DEF Listed, ImportNames, ImportsInStep
    <2>4. ImportsInStep'
      BY <2>1, <2>3 DEF ImportsInStep, Mounts, Listed
    <2>5. NothingRunsOn' /\ OneContainer'
      BY <2>1, <2>2, NoEmptyName DEF NothingRunsOn, Follows, OneContainer
    <2>6. VolumesListed'
      BY <2>1 DEF VolumesListed, MayBeMade, Listed
    <2>7. DockerTypes' /\ ClientInStep'
      BY <2>1, <2>2 DEF DockerTypes, ClientInStep
    <2> QED
      BY <2>4, <2>5, <2>6, <2>7
  <1> QED
    BY <1>1, <1>2

(* The client and the daemon of one `docker run`.                          *)
LEMMA RunningKeeps ==
  ASSUME DockerInv, ClientAsks \/ \E k \in RunContainers : DaemonCreates(k) \/ DaemonStarts(k) \/ ContainerExits(k)
  PROVE  DockerInv'
  <1> USE DEF DockerInv
  <1>1. PICK k \in RunContainers :
          \/ ClientAsks /\ k = waiting
          \/ DaemonCreates(k) \/ DaemonStarts(k) \/ ContainerExits(k)
    <2>1. ClientAsks => waiting \in RunContainers
      BY DEF ClientAsks, ClientRuns, ClientInStep, DockerTypes
    <2> QED
      BY <2>1
  <1>2. asked[k] \in {"nothing", "create", "start", "done"} /\ container[k] \in {"none", "created", "running"}
        /\ Follows(k)
    BY DEF DockerTypes, NothingRunsOn
  <1>3. PICK a \in {"nothing", "create", "start", "done"}, b \in {"none", "created", "running"} :
          /\ asked' = [asked EXCEPT ![k] = a] /\ container' = [container EXCEPT ![k] = b]
          /\ (a \in {"nothing", "done"} => b = "none") /\ (a = "create" => b # "running")
          /\ (a = "start" => b # "none")
          /\ k = waiting \/ a = asked[k] \/ (asked[k] = "start" /\ a = "done")
          /\ \A v \in volumes' : v \in volumes \/ (v \in Mounts(k) /\ a = "create")
    <2>0. asked = [asked EXCEPT ![k] = asked[k]] /\ container = [container EXCEPT ![k] = container[k]]
      BY DEF DockerTypes
    <2>1. CASE ClientAsks /\ k = waiting
      <3>1. /\ asked[k] \in {"nothing", "create"} /\ (asked[k] = "create" => container[k] = "created")
            /\ asked' = [asked EXCEPT ![k] = IF asked[k] = "nothing" THEN "create" ELSE "start"]
            /\ container' = container /\ volumes' = volumes
        BY <2>1 DEF ClientAsks
      <3>2. CASE asked[k] = "nothing"
        BY <1>2, <2>0, <2>1, <3>1, <3>2 DEF Follows
      <3>3. CASE asked[k] = "create"
        BY <1>2, <2>0, <2>1, <3>1, <3>3 DEF Follows
      <3> QED
        BY <3>1, <3>2, <3>3
    <2>2. CASE DaemonCreates(k)
      BY <1>2, <2>0, <2>2 DEF DaemonCreates, Follows
    <2>3. CASE DaemonStarts(k)
      BY <1>2, <2>0, <2>3 DEF DaemonStarts, Follows
    <2>4. CASE ContainerExits(k)
      BY <1>2, <2>0, <2>4 DEF ContainerExits, Follows
    <2> QED
      BY <1>1, <2>1, <2>2, <2>3, <2>4
  <1>4. UNCHANGED <<dockerPc, imported, waiting, lostRuns, lostVols, outcome>>
    BY <1>1 DEF ClientAsks, DaemonCreates, DaemonStarts, ContainerExits
  <1>5. /\ asked'[k] = a /\ container'[k] = b
        /\ \A j \in RunContainers \ {k} : asked'[j] = asked[j] /\ container'[j] = container[j]
        /\ asked' \in [RunContainers -> {"nothing", "create", "start", "done"}]
        /\ container' \in [RunContainers -> {"none", "created", "running"}]
    BY <1>3 DEF DockerTypes
  <1>6. NothingRunsOn'
    <2> SUFFICES ASSUME NEW j \in RunContainers
                 PROVE  Follows(j)' /\ (j # waiting /\ j \notin lostRuns => asked'[j] # "start")
      BY <1>4 DEF NothingRunsOn
    <2>1. Follows(j) /\ (j # waiting /\ j \notin lostRuns => asked[j] # "start")
      BY DEF NothingRunsOn
    <2>2. CASE j = k
      BY <1>3, <1>5, <2>1, <2>2 DEF Follows
    <2>3. CASE j # k
      BY <1>5, <2>1, <2>3 DEF Follows
    <2> QED
      BY <2>2, <2>3
  <1>7. OneContainer'
    <2> SUFFICES ASSUME NEW j \in RunContainers, j # waiting, asked[j] \in {"nothing", "done"}
                 PROVE  asked'[j] \in {"nothing", "done"}
      BY <1>4 DEF OneContainer
    <2> QED
      BY <1>3, <1>5
  <1>8. VolumesListed'
    <2> SUFFICES ASSUME NEW v \in volumes', v \notin Listed, v \notin lostVols
                 PROVE  \E j \in RunContainers : v \in Mounts(j) /\ asked'[j] = "create"
      BY <1>4 DEF VolumesListed, Listed, MayBeMade
    <2>1. CASE v \in Mounts(k) /\ a = "create"
      BY <1>5, <2>1
    <2>2. CASE v \in volumes
      <3>1. PICK j \in RunContainers : v \in Mounts(j) /\ asked[j] = "create"
        BY <2>2 DEF VolumesListed, MayBeMade
      <3>2. j # waiting
        BY <3>1, NoEmptyName DEF ImportsInStep
      <3>3. asked'[j] = "create"
        BY <1>3, <1>5, <3>1, <3>2
      <3> QED
        BY <3>1, <3>3
    <2> QED
      BY <1>3, <2>1, <2>2
  <1>9. DockerTypes' /\ ClientInStep'
    BY <1>4, <1>5 DEF DockerTypes, ClientInStep
  <1>10. ImportsInStep'
    BY <1>4, Zenon DEF ImportsInStep, Listed
  <1> QED
    BY <1>6, <1>7, <1>8, <1>9, <1>10

(* The end of a `docker run`, in time or not.                              *)
LEMMA EndingKeeps ==
  ASSUME DockerInv, RunReturns \/ ClientFails \/ RunTimesOut \/ RemoveContainer
  PROVE  DockerInv'
  <1> USE DEF DockerInv
  <1>1. CASE RunReturns
    <2>1. /\ dockerPc \in {"stage", "candidate"} /\ asked[waiting] = "done"
          /\ waiting' = "" /\ dockerPc' \in {"import", "drop"}
          /\ outcome' = "Completed" => dockerPc' = "drop"
          /\ UNCHANGED <<imported, volumes, asked, container, lostRuns, lostVols>>
      BY <1>1 DEF RunReturns, DockerFails, ClientRuns, ClientInStep
    <2>2. NothingRunsOn' /\ OneContainer'
      BY <2>1 DEF NothingRunsOn, Follows, OneContainer
    <2>3. VolumesListed'
      BY <2>1 DEF VolumesListed, Listed, MayBeMade
    <2> QED
      BY <2>1, <2>2, <2>3 DEF DockerTypes, ClientInStep, ImportsInStep, Listed
  <1>2. CASE ClientFails
    <2>1. /\ waiting' = "" /\ dockerPc' = "drop" /\ outcome' = "Failed"
          /\ lostRuns' = lostRuns \cup {waiting}
          /\ UNCHANGED <<imported, volumes, asked, container, lostVols>>
      BY <1>2 DEF ClientFails, DockerFails
    <2>2. NothingRunsOn' /\ OneContainer'
      BY <2>1 DEF NothingRunsOn, Follows, OneContainer
    <2>3. VolumesListed'
      BY <2>1 DEF VolumesListed, Listed, MayBeMade
    <2> QED
      BY <2>1, <2>2, <2>3 DEF DockerTypes, ClientInStep, ImportsInStep, Listed
  <1>3. CASE RunTimesOut
    <2>1. /\ dockerPc \in {"stage", "candidate"} /\ dockerPc' = "remove"
          /\ UNCHANGED <<imported, volumes, waiting, asked, container, lostRuns, lostVols, outcome>>
      BY <1>3 DEF RunTimesOut, ClientRuns
    <2>2. NothingRunsOn' /\ OneContainer'
      BY <2>1 DEF NothingRunsOn, Follows, OneContainer, ClientInStep
    <2>3. VolumesListed'
      BY <2>1 DEF VolumesListed, Listed, MayBeMade
    <2> QED
      BY <2>1, <2>2, <2>3 DEF DockerTypes, ClientInStep, ImportsInStep, Listed
  <1>4. CASE RemoveContainer
    <2> DEFINE w == waiting
    <2>1. /\ dockerPc = "remove" /\ waiting' = "" /\ dockerPc' = "drop"
          /\ outcome' \in {"TimedOut", "Failed"}
          /\ UNCHANGED <<imported, volumes, lostVols>> /\ w \in RunContainers
      BY <1>4 DEF RemoveContainer, RunOver, DockerTypes, ClientInStep
    <2>2. asked[w] \in {"nothing", "create", "start", "done"} /\ container[w] \in {"none", "created", "running"}
          /\ Follows(w)
      BY <2>1 DEF DockerTypes, NothingRunsOn
    <2>3. CASE lostRuns' = lostRuns \cup {w} /\ UNCHANGED <<container, asked>>
      <3>1. NothingRunsOn' /\ OneContainer'
        BY <2>1, <2>3 DEF NothingRunsOn, Follows, OneContainer
      <3>2. VolumesListed'
        BY <2>1, <2>3 DEF VolumesListed, Listed, MayBeMade
      <3> QED
        BY <2>1, <2>3, <3>1, <3>2 DEF DockerTypes, ClientInStep, ImportsInStep, Listed
    <2>4. CASE /\ container' = [container EXCEPT ![w] = "none"]
               /\ asked' = [asked EXCEPT ![w] = IF container[w] = "none" THEN @ ELSE "done"]
               /\ UNCHANGED lostRuns
      <3>1. /\ asked' \in [RunContainers -> {"nothing", "create", "start", "done"}]
            /\ container' \in [RunContainers -> {"none", "created", "running"}]
            /\ container'[w] = "none" /\ asked'[w] = IF container[w] = "none" THEN asked[w] ELSE "done"
            /\ \A j \in RunContainers \ {w} : asked'[j] = asked[j] /\ container'[j] = container[j]
        BY <2>1, <2>2, <2>4 DEF DockerTypes
      <3>2. ASSUME NEW j \in RunContainers
            PROVE  Follows(j)' /\ (j \notin lostRuns => asked'[j] # "start")
        <4>1. Follows(j) /\ (j # w /\ j \notin lostRuns => asked[j] # "start")
          BY DEF NothingRunsOn
        <4>2. CASE j = w
          BY <2>2, <3>1, <4>2 DEF Follows
        <4>3. CASE j # w
          BY <3>1, <4>1, <4>3 DEF Follows
        <4> QED
          BY <4>2, <4>3
      <3>3. NothingRunsOn' /\ OneContainer'
        BY <2>1, <2>4, <3>2 DEF NothingRunsOn, OneContainer
      <3>4. VolumesListed'
        <4> SUFFICES ASSUME NEW v \in volumes, v \notin Listed, v \notin lostVols
                     PROVE  \E j \in RunContainers : v \in Mounts(j) /\ asked'[j] = "create"
          BY <2>1 DEF VolumesListed, Listed, MayBeMade
        <4>1. PICK j \in RunContainers : v \in Mounts(j) /\ asked[j] = "create"
          BY DEF VolumesListed, MayBeMade
        <4>2. j # w
          BY <4>1, NoEmptyName DEF ImportsInStep
        <4> QED
          BY <3>1, <4>1, <4>2
      <3> QED
        BY <2>1, <2>4, <3>1, <3>3, <3>4 DEF DockerTypes, ClientInStep, ImportsInStep, Listed
    <2> QED
      BY <1>4, <2>3, <2>4 DEF RemoveContainer
  <1> QED
    BY <1>1, <1>2, <1>3, <1>4

(* Drop takes the last volume off the list.                                *)
LEMMA DroppingKeeps ==
  ASSUME DockerInv, DropVolume
  PROVE  DockerInv'
  <1> USE DEF DockerInv
  <1> DEFINE n == Len(imported)
             v == imported[n]
  <1>1. /\ dockerPc = "drop" /\ imported # <<>> /\ imported' = SubSeq(imported, 1, n - 1)
        /\ \/ volumes' = volumes \ {v} /\ UNCHANGED lostVols
           \/ lostVols' = lostVols \cup {v} /\ UNCHANGED volumes
        /\ UNCHANGED <<dockerPc, waiting, asked, container, lostRuns, outcome>>
    BY DEF DropVolume
  <1>2. imported \in Seq(ImportNames) /\ n \in Nat \ {0} /\ DOMAIN imported = 1..n
    <2>1. imported \in Seq(ImportNames)
      BY ImportsListed
    <2> QED
      BY ONLY <1>1, <2>1
  <1>3. /\ imported' \in Seq(ImportNames) /\ Len(imported') = n - 1 /\ DOMAIN imported' = 1..(n - 1)
        /\ \A i \in 1..(n - 1) : imported'[i] = imported[i]
    BY ONLY <1>1, <1>2
  <1>4. Listed \subseteq Listed' \cup {v}
    <2>1. ASSUME NEW i \in 1..n, i # n PROVE imported[i] \in Listed'
      <3>1. i \in 1..(n - 1)
        <4>1. n \in Nat \ {0} /\ i \in 1..n /\ i # n
          BY <1>2, <2>1
        <4> HIDE DEF n
        <4> QED
          BY ONLY <4>1
      <3>2. i \in DOMAIN imported' /\ imported'[i] = imported[i]
        BY ONLY <1>3, <3>1
      <3>3. imported'[i] \in Listed'
        BY <3>2, Zenon DEF Listed
      <3> QED
        BY ONLY <3>2, <3>3
    <2>2. \A x \in Listed : \E i \in 1..n : x = imported[i]
      BY <1>2, Zenon DEF Listed
    <2> HIDE DEF n
    <2>3. v = imported[n]
      OBVIOUS
    <2> HIDE DEF v
    <2> QED
      BY <2>1, <2>2, <2>3, Zenon
  <1>5. VolumesListed'
    <2> SUFFICES ASSUME NEW x \in volumes', x \notin Listed', x \notin lostVols'
                 PROVE  MayBeMade(x)'
      BY DEF VolumesListed
    <2>1. x \in volumes /\ x # v /\ x \notin lostVols
      BY <1>1, <1>4 DEF VolumesListed
    <2>2. MayBeMade(x)
      BY <1>4, <2>1 DEF VolumesListed
    <2> QED
      BY <1>1, <2>2 DEF MayBeMade
  <1>6. ImportsInStep'
    <2>1. Len(imported') <= Len(Imports)
      <3>1. Len(imported) <= Len(Imports) /\ Len(imported) \in Nat /\ Len(Imports) \in Nat
        BY ImportsListed DEF ImportsInStep
      <3>2. Len(imported') = Len(imported) - 1
        BY <1>3
      <3> QED
        BY ONLY <3>1, <3>2
    <2>2. \A i \in 1..(n - 1) : i \in 1..n
      BY <1>2
    <2>3. waiting = ""
      BY <1>1 DEF ClientInStep
    <2> QED
      BY <1>1, <1>2, <1>3, <2>1, <2>2, <2>3 DEF ImportsInStep
  <1>7. NothingRunsOn' /\ OneContainer'
    BY <1>1 DEF NothingRunsOn, Follows, OneContainer
  <1> QED
    BY <1>1, <1>3, <1>5, <1>6, <1>7 DEF DockerTypes, ClientInStep

LEMMA DockerInvNext == DockerInv /\ [DockerNext]_dockerRunVars => DockerInv'
  <1> SUFFICES ASSUME DockerInv, [DockerNext]_dockerRunVars PROVE DockerInv'
    OBVIOUS
  <1>1. CASE DockerNext
    BY <1>1, PreparingKeeps, StartingKeeps, RunningKeeps, EndingKeeps, DroppingKeeps
       DEF DockerNext, TimedStep, UntimedCall
  <1>2. CASE UNCHANGED dockerRunVars
    <2>1. UNCHANGED <<dockerPc, imported, volumes, waiting, asked, container, lostRuns, lostVols, outcome>>
      BY <1>2 DEF dockerRunVars
    <2>2. DockerTypes' /\ ClientInStep'
      BY <2>1, Zenon DEF DockerInv, DockerTypes, ClientInStep
    <2>3. ImportsInStep' /\ VolumesListed'
      BY <2>1, Zenon DEF DockerInv, ImportsInStep, VolumesListed, Listed, MayBeMade
    <2>4. NothingRunsOn' /\ OneContainer'
      BY <2>1, Zenon DEF DockerInv, NothingRunsOn, Follows, OneContainer
    <2> QED
      BY <2>2, <2>3, <2>4 DEF DockerInv
  <1> QED
    BY <1>1, <1>2

(* For any list of imports, whichever step fails or times out, whenever a  *)
(* client ends with an error, and whatever the daemon does late: runtime.rs *)
(* leaves the workspace of a Candidate that completed to nobody, and no    *)
(* container or volume behind but those it could not remove, those of a    *)
(* client that ended by itself, and those of a create that comes late.     *)
THEOREM DockerRunsLeaveNothing == DockerSpec => []RunLeavesNothing
  <1>1. DockerInv => RunLeavesNothing
    <2> SUFFICES ASSUME DockerInv PROVE RunLeavesNothing
      OBVIOUS
    <2> USE DEF DockerInv
    <2>1. ASSUME outcome = "Completed", NEW k \in RunContainers PROVE container[k] = "none"
      <3>1. k # waiting
        BY <2>1, NoEmptyName DEF ClientInStep
      <3> QED
        BY <2>1, <3>1 DEF OneContainer, NothingRunsOn, Follows
    <2>2. ASSUME dockerPc \in {"drop", "judge", "ended"}, NEW k \in RunContainers, container[k] # "none",
                 k \notin lostRuns
          PROVE  container[k] = "created" /\ asked[k] = "create"
      <3>1. k # waiting
        BY <2>2, NoEmptyName DEF ClientInStep
      <3>2. asked[k] # "start" /\ Follows(k)
        BY <2>2, <3>1 DEF NothingRunsOn
      <3> QED
        BY <2>2, <3>2 DEF Follows, DockerTypes
    <2>3. ASSUME dockerPc \in {"judge", "ended"}, NEW v \in volumes
          PROVE  v \in lostVols \/ \E k \in RunContainers : v \in Mounts(k) /\ asked[k] = "create"
      <3>1. DOMAIN imported = {}
        <4>1. imported = <<>>
          BY <2>3 DEF ClientInStep
        <4> QED
          BY ONLY <4>1
      <3> QED
        BY <3>1 DEF VolumesListed, Listed, MayBeMade
    <2> QED
      BY <2>1, <2>2, <2>3 DEF RunLeavesNothing
  <1> QED
    BY <1>1, DockerInvInit, DockerInvNext, PTL DEF DockerSpec

-----------------------------------------------------------------------------
(***************************************************************************)
(* A step on the A3S OS runtime (os_runtime.rs).                           *)
(***************************************************************************)
OsSpec == OsInit /\ [][OsNext]_osVars

Lines == [marker : {TRUE}, tree : SUBSET OsFiles]

OsTypes ==
  /\ osRole \in {"candidate", "judge"}
  /\ osPc = "capture" => localTree \subseteq OsFiles
  /\ sentTree \subseteq OsFiles /\ remoteTree \subseteq OsFiles
  /\ osLog \in Seq(Lines)

(* There is an invocation only once the request is made, and the last line *)
(* of its log is its workspace as soon as it has succeeded, whatever the   *)
(* Candidate has printed before.                                           *)
JobInStep ==
  /\ osPc \in {"capture", "connect", "post"} => osJob = "none"
  /\ osJob = "succeeded" => osLog # <<>> /\ osLog[Len(osLog)] = [marker |-> TRUE, tree |-> remoteTree]

(* A tree as it is written on the host.                                    *)
Written(t) == {WrittenFile(f) : f \in t}

(* What has been read of the log is final, and replaces the workspace of a *)
(* Candidate file by file, never that of a Judge.                          *)
ResultInStep ==
  /\ osPc \in {"clear", "write", "verdict", "done"} => osJob = "succeeded" /\ osResult = remoteTree
  /\ osPc \in {"clear", "write"} => osRole = "candidate"
  /\ osPc = "verdict" => osRole = "judge"
  /\ osPc = "clear" => osWriting = osResult
  /\ osPc = "write" => localTree \cup Written(osWriting) = Written(osResult)
  /\ osPc = "done" /\ osRole = "candidate" => localTree = Written(osResult)

HostTree ==
  /\ osRole = "judge" => localTree = sentTree \/ sentTree = EmptyTree
  /\ osPc \in {"connect", "post", "poll", "logs"} => localTree = sentTree

OsInv == OsTypes /\ JobInStep /\ ResultInStep /\ HostTree

(* parse_marked_result, of a log that ends in a marked line.               *)
LEMMA LastLineIsTaken ==
  ASSUME OsTypes, osLog # <<>>
  PROVE  parse_marked_result = osLog[Len(osLog)].tree
  <1> DEFINE n == Len(osLog)
  <1>1. osLog \in Seq(Lines)
    BY DEF OsTypes
  <1>2. n \in Nat \ {0} /\ DOMAIN osLog = 1..n /\ \A i \in 1..n : osLog[i] \in Lines
    BY ONLY <1>1, osLog # <<>>
  <1>3. Marked = 1..n
    BY <1>2 DEF Marked, Lines
  <1> HIDE DEF n
  <1>4. \A i \in 1..n : (\A k \in 1..n : k <= i) => i = n
    BY ONLY <1>2
  <1>5. n \in 1..n /\ \A k \in 1..n : k <= n
    BY <1>2
  <1>6. LastOf(1..n) = n
    BY <1>4, <1>5 DEF LastOf
  <1> QED
    BY <1>3, <1>6 DEF parse_marked_result, n

LEMMA OsInvInit == OsInit => OsInv
  <1>1. <<>> \in Seq(Lines)
    OBVIOUS
  <1> SUFFICES ASSUME OsInit PROVE OsInv
    OBVIOUS
  <1>2. OsTypes
    BY <1>1 DEF OsInit, OsTypes, OsTrees, EmptyTree
  <1>3. JobInStep /\ ResultInStep /\ HostTree
    BY DEF OsInit, JobInStep, ResultInStep, HostTree
  <1> QED
    BY <1>2, <1>3 DEF OsInv

(* The steps of the client up to the logs, which touch no tree but the     *)
(* envelope, and every failure.                                            *)
LEMMA AskingKeeps ==
  ASSUME OsInv,
         \/ OsConnect \/ OsCapture \/ OsPost \/ OsPoll \/ PostAnswerLost
         \/ OsFails /\ osPc \notin {"done", "failed"}
  PROVE  OsInv'
  <1> USE DEF OsInv, osTask, osTrees, osAuth, osClock, osService, osTaken
  <1>1. CASE OsFails
    BY <1>1 DEF OsFails, OsTypes, JobInStep, ResultInStep, HostTree
  <1>2. CASE OsConnect
    BY <1>2 DEF OsConnect, OsTypes, JobInStep, ResultInStep, HostTree
  <1>3. CASE OsCapture
    BY <1>3 DEF OsCapture, OsTypes, JobInStep, ResultInStep, HostTree
  <1>4. CASE OsPost \/ PostAnswerLost
    BY <1>4 DEF OsPost, PostAnswerLost, OsTypes, JobInStep, ResultInStep, HostTree
  <1>5. CASE OsPoll
    BY <1>5 DEF OsPoll, OsTypes, JobInStep, ResultInStep, HostTree
  <1> QED
    BY <1>1, <1>2, <1>3, <1>4, <1>5

(* The result, and what becomes of it.                                     *)
LEMMA TakingKeeps ==
  ASSUME OsInv, ReadLogs \/ TakeVerdict \/ ClearOne \/ WriteOne
  PROVE  OsInv'
  <1> USE DEF OsInv, osTask, osTrees, osAuth, osClock, osService, osTaken
  <1>1. CASE ReadLogs
    <2>1. /\ osPc = "logs" /\ UNCHANGED <<osRole, localTree, sentTree, osJob, remoteTree, osLog>>
          /\ \/ osPc' = "failed"
             \/ /\ osJob = "succeeded" /\ osPc' = (IF osRole = "candidate" THEN "clear" ELSE "verdict")
                /\ osResult' = parse_marked_result /\ osWriting' = parse_marked_result
      BY <1>1 DEF ReadLogs
    <2>2. osJob = "succeeded" => parse_marked_result = remoteTree
      BY LastLineIsTaken DEF JobInStep
    <2> QED
      BY <2>1, <2>2 DEF OsTypes, JobInStep, ResultInStep, HostTree
  <1>2. CASE TakeVerdict
    BY <1>2 DEF TakeVerdict, OsTypes, JobInStep, ResultInStep, HostTree
  <1>3. CASE ClearOne
    BY <1>3 DEF ClearOne, OsTypes, JobInStep, ResultInStep, HostTree
  <1>4. CASE WriteOne
    <2>1. /\ osPc \in {"clear", "write"} /\ (osPc = "clear" => localTree = {})
          /\ UNCHANGED <<osRole, sentTree, osJob, remoteTree, osLog, osResult>>
      BY <1>4 DEF WriteOne
    <2>2. osRole = "candidate" /\ localTree \cup Written(osWriting) = Written(osResult)
          /\ osResult = remoteTree /\ osJob = "succeeded"
      BY <2>1 DEF ResultInStep
    <2>3. /\ localTree' \cup Written(osWriting') = Written(osResult)
          /\ osPc' = "write" \/ (osPc' = "done" /\ localTree' = Written(osResult))
      <3>1. CASE osWriting = {}
        BY <1>4, <2>2, <3>1 DEF WriteOne, Written
      <3>2. CASE osWriting # {}
        <4>1. PICK f \in osWriting : /\ localTree' = localTree \cup {WrittenFile(f)}
                                     /\ osWriting' = osWriting \ {f} /\ osPc' = "write"
          BY <1>4, <3>2 DEF WriteOne
        <4>2. Written(osWriting) = Written(osWriting \ {f}) \cup {WrittenFile(f)}
          BY DEF Written
        <4> QED
          BY <2>2, <4>1, <4>2
      <3> QED
        BY <3>1, <3>2
    <2> QED
      BY <2>1, <2>2, <2>3 DEF OsTypes, JobInStep, ResultInStep, HostTree
  <1> QED
    BY <1>1, <1>2, <1>3, <1>4

(* The invocation and the clock.                                           *)
LEMMA ServiceKeeps ==
  ASSUME OsInv, JobStarts \/ CandidateWorks \/ JobReports \/ JobFails \/ OsTick
  PROVE  OsInv'
  <1> USE DEF OsInv, osTask, osTrees, osAuth, osClock, osService, osTaken
  <1>1. UNCHANGED <<osRole, osPc, localTree, sentTree, osResult, osWriting>>
    BY DEF JobStarts, CandidateWorks, JobReports, JobFails, OsTick
  <1>2. CASE OsTick
    BY <1>1, <1>2 DEF OsTick, OsTypes, JobInStep, ResultInStep, HostTree
  <1>3. ASSUME osJob \in {"queued", "running"}, osJob' \in {"running", "failed"}, OsTypes'
        PROVE  OsInv'
    BY <1>1, <1>3 DEF JobInStep, ResultInStep, HostTree
  <1>4. CASE JobStarts \/ JobFails
    BY <1>1, <1>3, <1>4 DEF JobStarts, JobFails, OsTypes
  <1>5. CASE CandidateWorks
    <2>1. remoteTree' \subseteq OsFiles
      BY <1>5 DEF CandidateWorks, OsTrees
    <2>2. osLog' \in Seq(Lines)
      <3>1. <<>> \in Seq(Lines) /\ \A l \in Lines : <<l>> \in Seq(Lines)
        OBVIOUS
      <3>2. \A t \in {EmptyTree, sentTree} : [marker |-> TRUE, tree |-> t] \in Lines
        BY DEF Lines, EmptyTree, OsTypes
      <3> QED
        BY <1>5, <3>1, <3>2 DEF CandidateWorks
    <2> QED
      BY <1>1, <1>3, <1>5, <2>1, <2>2 DEF CandidateWorks, OsTypes
  <1>6. CASE JobReports
    <2> DEFINE line == [marker |-> TRUE, tree |-> remoteTree]
    <2>1. /\ osJob = "running" /\ remoteTree' = remoteTree
          /\ \/ osJob' = "failed" /\ osLog' = osLog
             \/ osJob' = "succeeded" /\ osLog' = Append(osLog, line)
      BY <1>6 DEF JobReports
    <2>2. line \in Lines
      BY DEF Lines, OsTypes
    <2>3. /\ Append(osLog, line) \in Seq(Lines) /\ Append(osLog, line) # <<>>
          /\ Append(osLog, line)[Len(Append(osLog, line))] = line
      <3>1. osLog \in Seq(Lines)
        BY DEF OsTypes
      <3> HIDE DEF line
      <3> QED
        BY ONLY <2>2, <3>1
    <2>4. OsTypes'
      BY <1>1, <2>1, <2>3 DEF OsTypes
    <2>5. CASE osJob' = "failed"
      BY <1>3, <2>1, <2>4, <2>5
    <2>6. CASE osJob' = "succeeded" /\ osLog' = Append(osLog, line)
      <3>1. JobInStep'
        BY <1>1, <2>1, <2>3, <2>6 DEF JobInStep
      <3> QED
        BY <1>1, <2>1, <2>4, <2>6, <3>1 DEF JobInStep, ResultInStep, HostTree
    <2> QED
      BY <2>1, <2>5, <2>6
  <1> QED
    BY <1>2, <1>4, <1>5, <1>6

LEMMA OsInvNext == OsInv /\ [OsNext]_osVars => OsInv'
  <1> SUFFICES ASSUME OsInv, [OsNext]_osVars PROVE OsInv'
    OBVIOUS
  <1>1. CASE OsNext
    <2>1. CASE CaptureFails \/ RequestFails \/ RequestIsRefused \/ ConnectIsRefused \/ ReplaceFails
      <3>1. OsFails /\ osPc \notin {"done", "failed"}
        BY <1>1, <2>1 DEF OsNext, CaptureFails, RequestFails, RequestIsRefused, ConnectIsRefused, ReplaceFails
      <3> QED
        BY <3>1, AskingKeeps
    <2> QED
      BY <1>1, <2>1, AskingKeeps, TakingKeeps, ServiceKeeps DEF OsNext, OsClient, OsFaults
  <1>2. CASE UNCHANGED osVars
    BY <1>2 DEF osVars, osTask, osTrees, osAuth, osClock, osService, osTaken,
                OsInv, OsTypes, JobInStep, ResultInStep, HostTree
  <1> QED
    BY <1>1, <1>2

LEMMA WrittenContents ==
  ASSUME NEW t, t \subseteq OsFiles
  PROVE  OsContents(Written(t)) = OsContents(t)
  <1>1. ASSUME NEW f \in OsFiles
        PROVE  WrittenFile(f).path = f.path /\ WrittenFile(f).version = f.version
    BY DEF WrittenFile, OsFiles
  <1> QED
    BY <1>1 DEF OsContents, Written

(* os_runtime.rs takes what the script reported last, replaces the files   *)
(* of a workspace and their contents as a whole or fails, and touches none *)
(* before it has a whole result.                                           *)
THEOREM StepsYieldWorkspaces == OsSpec => []StepYieldsWorkspace
  <1>1. OsInv => StepYieldsWorkspace
    <2> SUFFICES ASSUME OsInv PROVE StepYieldsWorkspace
      OBVIOUS
    <2>1. osPc = "done" /\ osRole = "candidate" => OsContents(localTree) = OsContents(remoteTree)
      BY WrittenContents DEF OsInv, OsTypes, ResultInStep
    <2> QED
      BY <2>1 DEF OsInv, ResultInStep, HostTree, StepYieldsWorkspace
  <1> QED
    BY <1>1, OsInvInit, OsInvNext, PTL DEF OsSpec

-----------------------------------------------------------------------------
(***************************************************************************)
(* The export of a Candidate's files.                                      *)
(***************************************************************************)
ExportSpec == ExportInit /\ [][ExportNext]_exportVars

FileSizes == 0 .. MaxSizes
Totals == [kept : Seq(FileSizes), total : Nat]
Nothing == [kept |-> <<>>, total |-> 0]

(* What the limits make of one more file, and of the files one by one.     *)
TakeFile(before, size) ==
  IF Selectable(before.kept, before.total, size)
    THEN [kept |-> Append(before.kept, size), total |-> before.total + size]
    ELSE before

TakenOf(files) ==
  CHOOSE f : /\ f \in [0 .. Len(files) -> Totals]
             /\ f[0] = Nothing
             /\ \A i \in 1 .. Len(files) : f[i] = TakeFile(f[i - 1], files[i])

LEMMA TakeTyped ==
  ASSUME NEW before \in Totals, NEW size \in FileSizes
  PROVE  TakeFile(before, size) \in Totals
  <1>1. Append(before.kept, size) \in Seq(FileSizes) /\ before.total + size \in Nat
    BY ExportPolicy DEF Totals, FileSizes
  <1> HIDE DEF FileSizes
  <1> QED
    BY <1>1 DEF TakeFile, Totals

LEMMA NothingTyped == Nothing \in Totals
  <1>1. <<>> \in Seq(FileSizes)
    OBVIOUS
  <1> QED
    BY <1>1 DEF Nothing, Totals

LEMMA TakenIs ==
  ASSUME NEW files \in Seq(FileSizes)
  PROVE  /\ TakenOf(files) \in [0 .. Len(files) -> Totals]
         /\ TakenOf(files)[0] = Nothing
         /\ \A i \in 1 .. Len(files) : TakenOf(files)[i] = TakeFile(TakenOf(files)[i - 1], files[i])
  <1> DEFINE N == Len(files)
             step == [p \in Totals \X (1 .. N) |-> TakeFile(p[1], files[p[2]])]
  <1>1. N \in Nat /\ \A i \in 1 .. N : files[i] \in FileSizes
    OBVIOUS
  <1>2. /\ step \in [Totals \X (1 .. N) -> Totals]
        /\ \A before \in Totals, i \in 1 .. N : step[<<before, i>>] = TakeFile(before, files[i])
    <2> HIDE DEF N
    <2> QED
      BY <1>1, TakeTyped
  <1> HIDE DEF step, N
  <1>3. PICK f : IsLoop(f, Totals, Nothing, N, step)
    <2>1. Nothing \in Totals /\ N \in Nat /\ step \in [Totals \X (1 .. N) -> Totals]
      BY <1>1, <1>2, NothingTyped
    <2> QED
      BY ONLY <2>1, LoopExists
  <1>4. ASSUME NEW i \in 1 .. N PROVE f[i] = TakeFile(f[i - 1], files[i])
    <2>1. i - 1 \in 0 .. N
      BY <1>1
    <2> QED
      BY <1>2, <1>3, <2>1 DEF IsLoop
  <1>5. f \in [0 .. N -> Totals] /\ f[0] = Nothing
    BY <1>3 DEF IsLoop
  <1> QED
    BY <1>4, <1>5 DEF TakenOf, N

(* Once the limits are full, no file is taken any more.                    *)
LEMMA FullStays ==
  ASSUME NEW files \in Seq(FileSizes), NEW k \in 0 .. Len(files), LimitsFull(TakenOf(files)[k].kept)
  PROVE  TakenOf(files)[Len(files)] = TakenOf(files)[k]
  <1> DEFINE N == Len(files)
             Same == {i \in 0 .. N : i >= k => TakenOf(files)[i] = TakenOf(files)[k]}
  <1>1. N \in Nat /\ k \in 0 .. N
    OBVIOUS
  <1>2. 0 \in Same
    BY <1>1
  <1>3. ASSUME NEW i \in 1 .. N, i - 1 \in Same PROVE i \in Same
    <2>1. CASE i - 1 >= k
      <3>1. TakenOf(files)[i - 1] = TakenOf(files)[k]
        BY <1>3, <2>1
      <3>2. TakenOf(files)[i] = TakeFile(TakenOf(files)[i - 1], files[i])
        BY TakenIs
      <3>3. TakenOf(files)[i] = TakenOf(files)[k]
        BY <3>1, <3>2 DEF TakeFile, Selectable
      <3> QED
        BY <1>1, <3>3
    <2>2. CASE i - 1 < k
      BY <1>1, <2>2
    <2> QED
      BY <1>1, <2>1, <2>2
  <1> HIDE DEF N, Same
  <1>4. \A i \in 0 .. N : i \in Same
    BY <1>1, <1>2, <1>3, UpTo
  <1>5. N \in 0 .. N /\ N >= k
    BY <1>1
  <1> QED
    BY <1>4, <1>5 DEF Same, N

(* What the loop over the inventory has selected after each entry.         *)
LEMMA CandidatesAre ==
  ASSUME NEW entries \in Seq(Entries)
  PROVE  \E c \in [0 .. Len(entries) -> Seq(FileSizes)] :
           /\ c[0] = <<>>
           /\ \A i \in 1 .. Len(entries) :
                c[i] = IF Matches(entries[i]) THEN Append(c[i - 1], entries[i].size) ELSE c[i - 1]
           /\ Candidates(entries) = c[Len(entries)]
  <1> DEFINE N == Len(entries)
             S == Seq(FileSizes)
             Step(before, i) == IF Matches(entries[i]) THEN Append(before, entries[i].size) ELSE before
             Loop(f) == f = [i \in 0 .. N |->
                          IF i = 0 THEN <<>>
                          ELSE IF Matches(entries[i]) THEN Append(f[i - 1], entries[i].size) ELSE f[i - 1]]
             sizes == CHOOSE f : Loop(f)
             step == [p \in S \X (1 .. N) |-> Step(p[1], p[2])]
  <1>0. N \in Nat /\ \A i \in 1 .. N : entries[i] \in Entries
    OBVIOUS
  <1>1. Candidates(entries) = sizes[N]
    BY DEF Candidates
  <1>2. ASSUME NEW before \in S, NEW i \in 1 .. N PROVE Step(before, i) \in S
    <2>1. entries[i].size \in FileSizes
      BY <1>0 DEF Entries, FileSizes
    <2> HIDE DEF FileSizes
    <2> QED
      BY <2>1
  <1>3. <<>> \in S
    OBVIOUS
  <1> HIDE DEF N, S
  <1>4. step \in [S \X (1 .. N) -> S] /\ \A before \in S, i \in 1 .. N : step[<<before, i>>] = Step(before, i)
    BY <1>2
  <1>5. PICK base \in S : base = <<>>
    BY <1>3
  <1> HIDE DEF step, sizes
  <1>6. PICK f : IsLoop(f, S, base, N, step)
    <2>1. base \in S /\ N \in Nat /\ step \in [S \X (1 .. N) -> S]
      BY <1>0, <1>4, <1>5
    <2> QED
      BY ONLY <2>1, LoopExists
  <1>7. ASSUME NEW i \in 1 .. N PROVE i - 1 \in 0 .. N /\ f[i] = Step(f[i - 1], i)
    <2>1. i - 1 \in 0 .. N
      BY <1>0
    <2> QED
      BY <1>4, <1>6, <2>1 DEF IsLoop
  <1>8. Loop(f)
    <2>1. f = [i \in 0 .. N |-> f[i]]
      BY <1>6 DEF IsLoop
    <2>2. \A i \in 0 .. N : i # 0 => i \in 1 .. N
      BY <1>0
    <2>3. \A i \in 0 .. N : f[i] = IF i = 0 THEN <<>> ELSE Step(f[i - 1], i)
      BY <1>5, <1>6, <1>7, <2>2 DEF IsLoop
    <2> QED
      BY <2>1, <2>3
  <1>9. Loop(sizes)
    BY <1>8 DEF sizes
  <1>10. sizes[0] = <<>> /\ \A i \in 1 .. N : sizes[i] = Step(sizes[i - 1], i)
    <2>1. 0 \in 0 .. N /\ \A i \in 1 .. N : i \in 0 .. N /\ i # 0
      BY <1>0
    <2>2. sizes[0] = <<>>
      BY <1>9, <2>1
    <2>3. ASSUME NEW i \in 1 .. N PROVE sizes[i] = Step(sizes[i - 1], i)
      BY <1>9, <2>1
    <2> QED
      BY <2>2, <2>3
  <1> DEFINE Typed == {i \in 0 .. N : sizes[i] \in S}
  <1>11. \A i \in 0 .. N : i \in Typed
    <2>1. 0 \in Typed
      BY <1>0, <1>3, <1>10
    <2>2. ASSUME NEW i \in 1 .. N, i - 1 \in Typed PROVE i \in Typed
      BY <1>0, <1>2, <1>10, <2>2
    <2> HIDE DEF Typed
    <2> QED
      BY <1>0, <2>1, <2>2, UpTo
  <1>12. sizes \in [0 .. N -> S]
    <2> HIDE DEF Step
    <2> QED
      BY <1>9, <1>11
  <1> QED
    BY <1>1, <1>10, <1>12 DEF N, S

LEMMA ProjectedIs ==
  ASSUME inventory \in Seq(Entries)
  PROVE  \E t \in [0 .. Len(inventory) -> Totals] :
           /\ t[0] = Nothing
           /\ \A i \in 1 .. Len(inventory) :
                t[i] = IF Matches(inventory[i]) THEN TakeFile(t[i - 1], inventory[i].size) ELSE t[i - 1]
           /\ Projected = t[Len(inventory)].kept
  <1> DEFINE N == Len(inventory)
             Step(before, i) == IF Matches(inventory[i]) THEN TakeFile(before, inventory[i].size) ELSE before
             Body(before, i) ==
               IF Matches(inventory[i]) /\ Selectable(before.kept, before.total, inventory[i].size)
               THEN [kept |-> Append(before.kept, inventory[i].size),
                     total |-> before.total + inventory[i].size]
               ELSE before
             Loop(f) == f = [i \in 0 .. N |-> IF i = 0 THEN [kept |-> <<>>, total |-> 0] ELSE Body(f[i - 1], i)]
             taken == CHOOSE f : Loop(f)
             step == [p \in Totals \X (1 .. N) |-> Step(p[1], p[2])]
  <1>0. N \in Nat /\ \A i \in 1 .. N : inventory[i] \in Entries
    OBVIOUS
  <1>1. Projected = taken[N].kept
    BY DEF Projected
  <1>2. ASSUME NEW before \in Totals, NEW i \in 1 .. N PROVE Step(before, i) \in Totals
    <2>1. inventory[i].size \in FileSizes
      BY <1>0 DEF Entries, FileSizes
    <2> QED
      BY <2>1, TakeTyped
  <1>3. ASSUME NEW before, NEW i PROVE Body(before, i) = Step(before, i)
    BY DEF TakeFile
  <1> HIDE DEF N
  <1>4. /\ step \in [Totals \X (1 .. N) -> Totals]
        /\ \A before \in Totals, i \in 1 .. N : step[<<before, i>>] = Step(before, i)
    BY <1>2
  <1> HIDE DEF step, taken, Body, Step
  <1>6. PICK f : IsLoop(f, Totals, Nothing, N, step)
    <2>1. Nothing \in Totals /\ N \in Nat /\ step \in [Totals \X (1 .. N) -> Totals]
      BY <1>0, <1>4, NothingTyped
    <2> QED
      BY ONLY <2>1, LoopExists
  <1>7. ASSUME NEW i \in 1 .. N PROVE i - 1 \in 0 .. N /\ f[i] = Body(f[i - 1], i)
    <2>1. i - 1 \in 0 .. N
      BY <1>0
    <2> QED
      BY <1>3, <1>4, <1>6, <2>1 DEF IsLoop
  <1>8. Loop(f)
    <2>1. f = [i \in 0 .. N |-> f[i]]
      BY <1>6 DEF IsLoop
    <2>2. \A i \in 0 .. N : i # 0 => i \in 1 .. N
      BY <1>0
    <2>3. \A i \in 0 .. N : f[i] = IF i = 0 THEN [kept |-> <<>>, total |-> 0] ELSE Body(f[i - 1], i)
      BY <1>6, <1>7, <2>2 DEF IsLoop, Nothing
    <2> QED
      BY <2>1, <2>3
  <1>9. Loop(taken)
    BY <1>8 DEF taken
  <1>10. taken[0] = Nothing /\ \A i \in 1 .. N : taken[i] = Step(taken[i - 1], i)
    BY <1>0, <1>3, <1>9 DEF Nothing
  <1> DEFINE Typed == {i \in 0 .. N : taken[i] \in Totals}
  <1>11. \A i \in 0 .. N : i \in Typed
    <2>1. 0 \in Typed
      BY <1>0, <1>10, NothingTyped
    <2>2. ASSUME NEW i \in 1 .. N, i - 1 \in Typed PROVE i \in Typed
      BY <1>0, <1>2, <1>10, <2>2
    <2> HIDE DEF Typed
    <2> QED
      BY <1>0, <2>1, <2>2, UpTo
  <1>12. taken \in [0 .. N -> Totals]
    BY <1>9, <1>11
  <1> QED
    BY <1>1, <1>10, <1>12 DEF N, Step

(* Taking the selected files one by one, as the export does, is taking     *)
(* them from the whole inventory, as a projection of a local tree does.    *)
LEMMA CandidatesProject ==
  ASSUME inventory \in Seq(Entries)
  PROVE  /\ Candidates(inventory) \in Seq(FileSizes)
         /\ Projected = TakenOf(Candidates(inventory))[Len(Candidates(inventory))].kept
  <1> DEFINE N == Len(inventory)
             Here(i) == Matches(inventory[i])
             Size(i) == inventory[i].size
  <1>0. N \in Nat /\ \A i \in 1 .. N : Size(i) \in FileSizes
    <2>1. \A i \in 1 .. N : inventory[i] \in Entries
      OBVIOUS
    <2> QED
      BY <2>1 DEF Entries, FileSizes
  <1>1. PICK c \in [0 .. N -> Seq(FileSizes)] :
          /\ c[0] = <<>>
          /\ \A i \in 1 .. N : c[i] = IF Here(i) THEN Append(c[i - 1], Size(i)) ELSE c[i - 1]
          /\ Candidates(inventory) = c[N]
    BY CandidatesAre
  <1>2. PICK t \in [0 .. N -> Totals] :
          /\ t[0] = Nothing
          /\ \A i \in 1 .. N : t[i] = IF Here(i) THEN TakeFile(t[i - 1], Size(i)) ELSE t[i - 1]
          /\ Projected = t[N].kept
    BY ProjectedIs
  <1> HIDE DEF N, Here, Size
  <1>3. \A i \in 0 .. N : c[i] \in Seq(FileSizes) /\ Len(c[i]) \in Nat
    BY <1>1
  <1>4. N \in 0 .. N /\ 0 \in 0 .. N /\ \A i \in 1 .. N : i \in 0 .. N /\ i - 1 \in 0 .. N
    BY <1>0
  <1>5. ASSUME NEW i \in 1 .. N, Here(i)
        PROVE  /\ Len(c[i]) = Len(c[i - 1]) + 1 /\ c[i][Len(c[i])] = Size(i)
               /\ \A k \in 1 .. Len(c[i - 1]) : c[i][k] = c[i - 1][k]
    <2>1. c[i] = Append(c[i - 1], Size(i)) /\ c[i - 1] \in Seq(FileSizes) /\ Size(i) \in FileSizes
      BY <1>0, <1>1, <1>3, <1>4, <1>5
    <2> QED
      BY ONLY <2>1
  <1>6. ASSUME NEW i \in 1 .. N, ~Here(i) PROVE c[i] = c[i - 1]
    BY <1>1, <1>6
  <1> DEFINE Within(j, m) == Len(c[j]) <= Len(c[m]) /\ \A k \in 1 .. Len(c[j]) : c[m][k] = c[j][k]
             Grown == {m \in 0 .. N : \A j \in 0 .. m : Within(j, m)}
  <1>7. \A m \in 0 .. N : m \in Grown
    <2>1. 0 \in Grown
      BY <1>3, <1>4
    <2>2. ASSUME NEW m \in 1 .. N, m - 1 \in Grown PROVE m \in Grown
      <3>1. Within(m - 1, m)
        <4>1. CASE Here(m)
          BY <1>3, <1>4, <1>5, <4>1
        <4>2. CASE ~Here(m)
          BY <1>3, <1>4, <1>6, <4>2
        <4> QED
          BY <4>1, <4>2
      <3>2. ASSUME NEW j \in 0 .. m PROVE Within(j, m)
        <4>1. CASE j = m
          BY <1>3, <1>4, <4>1
        <4>2. CASE j # m
          <5>1. j \in 0 .. (m - 1) /\ j \in 0 .. N
            BY <1>0, <4>2
          <5>2. Within(j, m - 1)
            BY <2>2, <5>1
          <5>3. \A k \in 1 .. Len(c[j]) : k \in 1 .. Len(c[m - 1])
            BY <1>3, <1>4, <5>1, <5>2
          <5> QED
            BY <1>3, <1>4, <3>1, <5>1, <5>2, <5>3
        <4> QED
          BY <4>1, <4>2
      <3> QED
        BY <1>4, <3>2
    <2> HIDE DEF Grown
    <2> QED
      BY <1>0, <2>1, <2>2, UpTo
  <1>8. ASSUME NEW j \in 0 .. N PROVE Within(j, N)
    BY <1>4, <1>7
  <1> DEFINE T == TakenOf(c[N])
             Same == {i \in 0 .. N : t[i] = T[Len(c[i])]}
  <1>9. T[0] = Nothing /\ \A k \in 1 .. Len(c[N]) : T[k] = TakeFile(T[k - 1], c[N][k])
    BY <1>3, <1>4, TakenIs
  <1> HIDE DEF T
  <1>10. \A i \in 0 .. N : i \in Same
    <2>1. 0 \in Same
      <3>1. Len(c[0]) = 0
        BY <1>1
      <3> QED
        BY <1>2, <1>4, <1>9, <3>1
    <2>2. ASSUME NEW i \in 1 .. N, i - 1 \in Same PROVE i \in Same
      <3>1. t[i - 1] = T[Len(c[i - 1])]
        BY <2>2
      <3>2. CASE Here(i)
        <4>1. Len(c[i]) \in 1 .. Len(c[N])
          BY <1>3, <1>4, <1>5, <1>8, <3>2
        <4>2. c[N][Len(c[i])] = Size(i)
          BY <1>3, <1>4, <1>5, <1>8, <3>2, <4>1
        <4>3. Len(c[i]) - 1 = Len(c[i - 1])
          BY <1>3, <1>4, <1>5, <3>2
        <4>4. T[Len(c[i])] = TakeFile(T[Len(c[i - 1])], Size(i))
          BY <1>9, <4>1, <4>2, <4>3
        <4>5. t[i] = TakeFile(t[i - 1], Size(i))
          BY <1>2, <3>2
        <4> QED
          BY <1>4, <3>1, <4>4, <4>5
      <3>3. CASE ~Here(i)
        BY <1>2, <1>4, <1>6, <3>1, <3>3
      <3> QED
        BY <3>2, <3>3
    <2> HIDE DEF Same
    <2> QED
      BY <1>0, <2>1, <2>2, UpTo
  <1>11. t[N] = T[Len(c[N])]
    BY <1>4, <1>10
  <1> QED
    BY <1>1, <1>2, <1>3, <1>4, <1>11 DEF T

KeptFiles == [index : Nat, got : Nat]

(* What has been kept, as the sizes of the files.                          *)
SizesOf(kept) == [i \in DOMAIN kept |-> exportFiles[kept[i].index]]

RunTypes ==
  /\ inventory \in Seq(Entries) /\ exportFiles \in Seq(FileSizes)
  /\ exportRun \in [at : {"select", "next", "poll", "publish", "done", "failed"},
                    index : Nat \ {0}, remaining : Nat, kept : Seq(KeptFiles), total : Nat]

PipeTypes ==
  pipeline \in [cap : Nat, copy : {"none", "running", "ok", "failed"}, sent : Nat, pipe1 : Nat,
                pump : {"none", "running", "ok", "limit", "io", "deadline"}, moved : Nat,
                pipe2 : Nat, tar : {"none", "running", "ok", "failed"}, got : Nat, eof : BOOLEAN]

(* What is kept is what the limits take of the files so far, each whole.   *)
KeptIsTaken ==
  /\ exportRun.at = "select" => exportRun.kept = <<>> /\ exportRun.total = 0 /\ exportRun.index = 1
  /\ exportRun.at \in {"next", "poll", "publish", "done"} =>
       /\ exportFiles = Candidates(inventory)
       /\ \A i \in DOMAIN exportRun.kept :
            /\ exportRun.kept[i].index \in 1 .. Len(exportFiles)
            /\ exportRun.kept[i].got = exportFiles[exportRun.kept[i].index] + 1
  /\ exportRun.at \in {"next", "poll"} =>
       /\ exportRun.index <= Len(exportFiles) + 1
       /\ TakenOf(exportFiles)[exportRun.index - 1] = [kept |-> SizesOf(exportRun.kept), total |-> exportRun.total]
  /\ exportRun.at = "poll" => exportRun.index <= Len(exportFiles)
  /\ exportRun.at \in {"publish", "done"} =>
       SizesOf(exportRun.kept) = TakenOf(exportFiles)[Len(exportFiles)].kept

(* Where the blocks of the current archive are.                            *)
PipeAddsUp ==
  /\ exportRun.at # "poll" => pipeline = IdlePipeline
  /\ exportRun.at = "poll" =>
       /\ pipeline.sent <= Archive /\ (pipeline.copy = "ok" => pipeline.sent = Archive)
       /\ pipeline.moved = pipeline.got + pipeline.pipe2
       /\ pipeline.pump = "running" => pipeline.sent = pipeline.moved + pipeline.pipe1 /\ ~pipeline.eof
       /\ pipeline.pump = "ok" => pipeline.sent = pipeline.moved /\ pipeline.copy # "running"
       /\ pipeline.pump = "limit" => pipeline.moved + 1 > pipeline.cap /\ pipeline.moved + 1 <= Archive
       /\ pipeline.tar = "ok" => pipeline.pipe2 = 0 /\ pipeline.eof
       /\ pipeline.moved <= pipeline.cap /\ pipeline.cap <= exportRun.remaining /\ pipeline.cap <= PolicyCap
       /\ "none" \notin {pipeline.copy, pipeline.pump, pipeline.tar}

ExportInv == RunTypes /\ PipeTypes /\ KeptIsTaken /\ PipeAddsUp

LEMMA ExportInvInit == ExportInit => ExportInv
  <1> SUFFICES ASSUME ExportInit PROVE ExportInv
    OBVIOUS
  <1>1. inventory \in Seq(Entries)
    <2>1. PICK n \in 0 .. MaxCandidates : inventory \in [1 .. n -> Entries]
      BY DEF ExportInit
    <2>2. n \in Nat
      BY ExportPolicy
    <2> QED
      BY <2>1, <2>2
  <1>2. <<>> \in Seq(FileSizes) /\ <<>> \in Seq(KeptFiles)
    OBVIOUS
  <1>3. RunTypes
    BY <1>1, <1>2, ExportPolicy DEF ExportInit, RunTypes
  <1>4. PipeTypes /\ PipeAddsUp
    BY DEF ExportInit, PipeTypes, PipeAddsUp, IdlePipeline
  <1>5. KeptIsTaken
    BY DEF ExportInit, KeptIsTaken
  <1> QED
    BY <1>3, <1>4, <1>5 DEF ExportInv

(* The processes, the pipes and the thread, which leave the loop alone.    *)
LEMMA PipelineKeeps ==
  ASSUME ExportInv, CopyWrites \/ CopyBreaks \/ PumpArchive \/ TarReads
  PROVE  ExportInv'
  <1>1. UNCHANGED <<inventory, exportFiles, exportRun>>
    BY DEF CopyWrites, CopyBreaks, PumpArchive, TarReads
  <1>2. RunTypes' /\ KeptIsTaken'
    BY <1>1 DEF ExportInv, RunTypes, KeptIsTaken, SizesOf
  <1>3. exportRun.at = "poll"
    BY DEF ExportInv, PipeAddsUp, IdlePipeline, CopyWrites, CopyBreaks, PumpArchive, TarReads
  <1>4. Archive \in Nat /\ Archive' = Archive
    <2>1. exportFiles[exportRun.index] \in Nat
      <3>1. exportRun.index \in 1 .. Len(exportFiles) /\ exportFiles \in Seq(FileSizes)
        BY <1>3 DEF ExportInv, RunTypes, KeptIsTaken
      <3>2. exportFiles[exportRun.index] \in FileSizes
        BY ONLY <3>1
      <3> QED
        BY <3>2 DEF FileSizes
    <2> QED
      BY <1>1, <2>1 DEF Archive
  <1>5. exportRun.remaining \in Nat /\ PolicyCap \in Nat
    BY ExportPolicy DEF ExportInv, RunTypes, PolicyCap
  <1> DEFINE Holds(p) ==
               /\ p.sent <= Archive /\ (p.copy = "ok" => p.sent = Archive)
               /\ p.moved = p.got + p.pipe2
               /\ p.pump = "running" => p.sent = p.moved + p.pipe1 /\ ~p.eof
               /\ p.pump = "ok" => p.sent = p.moved /\ p.copy # "running"
               /\ p.pump = "limit" => p.moved + 1 > p.cap /\ p.moved + 1 <= Archive
               /\ p.tar = "ok" => p.pipe2 = 0 /\ p.eof
               /\ p.moved <= p.cap /\ p.cap <= exportRun.remaining /\ p.cap <= PolicyCap
               /\ "none" \notin {p.copy, p.pump, p.tar}
             Others(fields) ==
               \A f \in {"cap", "copy", "sent", "pipe1", "pump", "moved", "pipe2", "tar", "got", "eof"} :
                 f \notin fields => pipeline'[f] = pipeline[f]
  <1>6. Holds(pipeline)
    BY <1>3 DEF ExportInv, PipeAddsUp
  <1>7. SUFFICES PipeTypes' /\ Holds(pipeline')
    BY <1>1, <1>2, <1>3, <1>4 DEF ExportInv, PipeAddsUp, PolicyCap
  <1>8. PipeTypes
    BY DEF ExportInv
  <1>9. CASE CopyWrites
    <2>1. CASE /\ pipeline.pump = "running" /\ pipeline.sent < Archive
               /\ pipeline' = [pipeline EXCEPT !.sent = @ + 1, !.pipe1 = @ + 1]
      <3>1. /\ pipeline'.sent = pipeline.sent + 1 /\ pipeline'.pipe1 = pipeline.pipe1 + 1
            /\ Others({"sent", "pipe1"})
        BY <1>8, <2>1 DEF PipeTypes
      <3>2. pipeline.sent + 1 \in Nat /\ pipeline.pipe1 + 1 \in Nat
        BY <1>8 DEF PipeTypes
      <3>3. PipeTypes'
        BY <1>8, <2>1, <3>2, Zenon DEF PipeTypes
      <3> QED
        BY <1>4, <1>6, <1>8, <1>9, <2>1, <3>1, <3>3 DEF PipeTypes, CopyWrites
    <2>2. CASE pipeline.pump # "running" /\ pipeline' = [pipeline EXCEPT !.copy = "failed"]
      BY <1>6, <1>8, <2>2 DEF PipeTypes
    <2>3. CASE pipeline.sent = Archive /\ pipeline' = [pipeline EXCEPT !.copy = "ok"]
      BY <1>4, <1>6, <1>8, <1>9, <2>3 DEF PipeTypes, CopyWrites
    <2> QED
      BY <1>9, <2>1, <2>2, <2>3 DEF CopyWrites
  <1>10. CASE CopyBreaks
    BY <1>4, <1>6, <1>8, <1>10 DEF PipeTypes, CopyBreaks
  <1>11. CASE PumpArchive
    <2> DEFINE stopped(status) == [pipeline EXCEPT !.pump = status, !.pipe1 = 0, !.eof = TRUE]
    <2>0. pipeline.pump = "running"
      BY <1>11 DEF PumpArchive
    <2>1. ASSUME NEW status \in {"deadline", "io", "limit"}, pipeline' = stopped(status)
          PROVE  /\ PipeTypes' /\ pipeline'.pump = status /\ pipeline'.pipe1 = 0 /\ pipeline'.eof = TRUE
                 /\ Others({"pump", "pipe1", "eof"})
      <3>1. status \in {"none", "running", "ok", "limit", "io", "deadline"} /\ 0 \in Nat /\ TRUE \in BOOLEAN
        OBVIOUS
      <3>2. PipeTypes'
        BY <1>8, <2>1, <3>1, Zenon DEF PipeTypes
      <3> QED
        BY <1>8, <2>1, <3>2 DEF PipeTypes
    <2>2. CASE pipeline' = stopped("deadline") \/ pipeline' = stopped("io")
      <3>1. PICK status \in {"deadline", "io"} : pipeline' = stopped(status)
        BY <2>2
      <3> HIDE DEF stopped
      <3> QED
        BY <1>6, <1>8, <2>0, <2>1, <3>1 DEF PipeTypes
    <2>3. CASE /\ pipeline.pipe1 > 0 /\ pipeline.moved + 1 > pipeline.cap
               /\ pipeline' = stopped("limit")
      <3> HIDE DEF stopped
      <3> QED
        BY <1>4, <1>6, <1>8, <2>0, <2>1, <2>3 DEF PipeTypes
    <2>4. CASE /\ pipeline.pipe1 > 0 /\ ~(pipeline.moved + 1 > pipeline.cap) /\ pipeline.tar = "running"
               /\ pipeline' = [pipeline EXCEPT !.pipe1 = @ - 1, !.moved = @ + 1, !.pipe2 = @ + 1]
      <3>1. /\ pipeline'.pipe1 = pipeline.pipe1 - 1 /\ pipeline'.moved = pipeline.moved + 1
            /\ pipeline'.pipe2 = pipeline.pipe2 + 1 /\ Others({"pipe1", "moved", "pipe2"})
        BY <1>8, <2>4 DEF PipeTypes
      <3>2. pipeline.pipe1 - 1 \in Nat /\ pipeline.moved + 1 \in Nat /\ pipeline.pipe2 + 1 \in Nat
        BY <1>8, <2>4 DEF PipeTypes
      <3>3. PipeTypes'
        BY <1>8, <2>4, <3>2, Zenon DEF PipeTypes
      <3> QED
        BY <1>4, <1>5, <1>6, <1>8, <2>0, <2>4, <3>1, <3>3 DEF PipeTypes
    <2>5. CASE /\ pipeline.pipe1 = 0 /\ pipeline.copy # "running"
               /\ pipeline' = [pipeline EXCEPT !.pump = "ok", !.eof = TRUE]
      <3>1. pipeline'.pump = "ok" /\ pipeline'.eof = TRUE /\ Others({"pump", "eof"})
        BY <1>8, <2>5 DEF PipeTypes
      <3>2. "ok" \in {"none", "running", "ok", "limit", "io", "deadline"} /\ TRUE \in BOOLEAN
        OBVIOUS
      <3>3. PipeTypes'
        BY <1>8, <2>5, <3>2, Zenon DEF PipeTypes
      <3> QED
        BY <1>4, <1>6, <1>8, <2>0, <2>5, <3>1, <3>3 DEF PipeTypes
    <2> HIDE DEF Holds
    <2> QED
      BY <1>11, <2>2, <2>3, <2>4, <2>5 DEF PumpArchive
  <1>12. CASE TarReads
    <2>0. pipeline.tar = "running"
      BY <1>12 DEF TarReads
    <2>1. CASE pipeline.pipe2 > 0 /\ pipeline' = [pipeline EXCEPT !.pipe2 = @ - 1, !.got = @ + 1]
      <3>1. /\ pipeline'.pipe2 = pipeline.pipe2 - 1 /\ pipeline'.got = pipeline.got + 1
            /\ Others({"pipe2", "got"})
        BY <1>8, <2>1 DEF PipeTypes
      <3>2. pipeline.pipe2 - 1 \in Nat /\ pipeline.got + 1 \in Nat
        BY <1>8, <2>1 DEF PipeTypes
      <3>3. PipeTypes'
        BY <1>8, <2>1, <3>2, Zenon DEF PipeTypes
      <3> QED
        BY <1>4, <1>6, <1>8, <2>0, <2>1, <3>1, <3>3 DEF PipeTypes
    <2>2. CASE /\ pipeline.pipe2 = 0 /\ pipeline.eof
               /\ \E status \in {"ok", "failed"} : pipeline' = [pipeline EXCEPT !.tar = status]
      BY <1>4, <1>6, <1>8, <2>0, <2>2 DEF PipeTypes
    <2> HIDE DEF Holds
    <2> QED
      BY <1>12, <2>1, <2>2 DEF TarReads
  <1> QED
    BY <1>9, <1>10, <1>11, <1>12

LEMMA SizesAre ==
  ASSUME NEW kept \in Seq(KeptFiles), exportFiles \in Seq(FileSizes),
         \A i \in DOMAIN kept : kept[i].index \in 1 .. Len(exportFiles)
  PROVE  /\ SizesOf(kept) \in Seq(FileSizes) /\ Len(SizesOf(kept)) = Len(kept)
         /\ \A k \in KeptFiles : k.index \in 1 .. Len(exportFiles) =>
              SizesOf(Append(kept, k)) = Append(SizesOf(kept), exportFiles[k.index])
  <1>1. Len(kept) \in Nat /\ DOMAIN kept = 1 .. Len(kept)
    OBVIOUS
  <1>2. \A j \in 1 .. Len(exportFiles) : exportFiles[j] \in FileSizes
    OBVIOUS
  <1>3. SizesOf(kept) \in [1 .. Len(kept) -> FileSizes]
    BY <1>1, <1>2 DEF SizesOf
  <1>4. SizesOf(kept) \in Seq(FileSizes) /\ Len(SizesOf(kept)) = Len(kept)
    BY ONLY <1>1, <1>3
  <1>5. ASSUME NEW k \in KeptFiles, k.index \in 1 .. Len(exportFiles)
        PROVE  SizesOf(Append(kept, k)) = Append(SizesOf(kept), exportFiles[k.index])
    <2> DEFINE more == Append(kept, k)
               sizes == SizesOf(kept)
               size == exportFiles[k.index]
    <2>1. /\ more \in Seq(KeptFiles) /\ DOMAIN more = 1 .. (Len(kept) + 1)
          /\ \A i \in 1 .. Len(kept) : more[i] = kept[i]
          /\ more[Len(kept) + 1] = k
      OBVIOUS
    <2>2. size \in FileSizes
      BY <1>2, <1>5
    <2>3. Append(sizes, size) = [i \in 1 .. (Len(kept) + 1) |-> IF i = Len(kept) + 1 THEN size ELSE sizes[i]]
      <3> DEFINE longer == Append(sizes, size)
      <3>0. sizes \in Seq(FileSizes) /\ Len(sizes) = Len(kept)
        BY <1>4
      <3> HIDE DEF sizes, size
      <3>1. /\ longer \in Seq(FileSizes) /\ Len(longer) = Len(sizes) + 1
            /\ \A i \in 1 .. Len(sizes) : longer[i] = sizes[i]
            /\ longer[Len(sizes) + 1] = size
        BY ONLY <2>2, <3>0
      <3> HIDE DEF longer
      <3>2. longer = [i \in 1 .. Len(longer) |-> longer[i]]
        BY ONLY <3>1
      <3>3. ASSUME NEW i \in 1 .. (Len(kept) + 1)
            PROVE  longer[i] = IF i = Len(kept) + 1 THEN size ELSE sizes[i]
        <4>1. CASE i = Len(kept) + 1
          BY ONLY <3>0, <3>1, <4>1
        <4>2. CASE i # Len(kept) + 1
          <5>1. i \in 1 .. Len(kept)
            BY ONLY <1>1, <4>2, i \in 1 .. (Len(kept) + 1)
          <5> QED
            BY ONLY <3>0, <3>1, <4>2, <5>1
        <4> QED
          BY ONLY <4>1, <4>2
      <3>4. longer = [i \in 1 .. (Len(kept) + 1) |-> IF i = Len(kept) + 1 THEN size ELSE sizes[i]]
        BY <3>0, <3>1, <3>2, <3>3
      <3> QED
        BY <3>4 DEF longer
    <2>4. SizesOf(more) = [i \in 1 .. (Len(kept) + 1) |-> exportFiles[more[i].index]]
      BY <2>1 DEF SizesOf
    <2>5. ASSUME NEW i \in 1 .. (Len(kept) + 1)
          PROVE  exportFiles[more[i].index] = IF i = Len(kept) + 1 THEN size ELSE sizes[i]
      <3>1. CASE i = Len(kept) + 1
        BY <2>1, <3>1
      <3>2. CASE i # Len(kept) + 1
        <4>1. i \in 1 .. Len(kept)
          BY <1>1, <3>2
        <4>2. sizes[i] = exportFiles[kept[i].index]
          BY <1>1, <4>1 DEF SizesOf
        <4> QED
          BY <2>1, <3>2, <4>1, <4>2
      <3> QED
        BY <3>1, <3>2
    <2> HIDE DEF more, sizes, size
    <2>6. SizesOf(more) = Append(sizes, size)
      BY <2>3, <2>4, <2>5
    <2> QED
      BY <2>6 DEF more, sizes, size
  <1> QED
    BY <1>4, <1>5

(* A failure ends the export, whatever it has kept.                        *)
LEMMA FailKeeps ==
  ASSUME ExportInv, exportRun' = [exportRun EXCEPT !.at = "failed"], pipeline' = IdlePipeline,
         UNCHANGED <<inventory, exportFiles>>
  PROVE  ExportInv'
  <1>1. /\ exportRun'.at = "failed" /\ exportRun'.index = exportRun.index
        /\ exportRun'.remaining = exportRun.remaining /\ exportRun'.kept = exportRun.kept
    BY DEF ExportInv, RunTypes
  <1>2. RunTypes'
    BY <1>1 DEF ExportInv, RunTypes
  <1>3. PipeTypes'
    BY DEF PipeTypes, IdlePipeline
  <1>4. KeptIsTaken'
    BY <1>1 DEF KeptIsTaken
  <1>5. PipeAddsUp'
    BY <1>1 DEF PipeAddsUp, IdlePipeline
  <1> QED
    BY <1>2, <1>3, <1>4, <1>5 DEF ExportInv

LEMMA SelectKeeps == ASSUME ExportInv, SelectFiles PROVE ExportInv'
  <1>1. exportRun.at = "select" /\ pipeline = IdlePipeline /\ pipeline' = IdlePipeline /\ inventory' = inventory
    BY DEF SelectFiles, ExportInv, PipeAddsUp
  <1>2. exportRun.kept = <<>> /\ exportRun.total = 0 /\ exportRun.index = 1
    BY <1>1 DEF ExportInv, KeptIsTaken
  <1>3. CASE exportRun' = [exportRun EXCEPT !.at = "failed"] /\ exportFiles' = exportFiles
    BY <1>1, <1>3, FailKeeps
  <1>4. CASE exportRun' = [exportRun EXCEPT !.at = "next"] /\ exportFiles' = Candidates(inventory)
    <2>1. /\ exportRun'.at = "next" /\ exportRun'.index = 1 /\ exportRun'.kept = <<>>
          /\ exportRun'.total = 0
      BY <1>2, <1>4 DEF ExportInv, RunTypes
    <2>2. exportFiles' \in Seq(FileSizes)
      BY <1>4, CandidatesProject DEF ExportInv, RunTypes
    <2>3. RunTypes'
      BY <1>1, <1>4, <2>2 DEF ExportInv, RunTypes
    <2>4. TakenOf(exportFiles')[0] = Nothing /\ Len(exportFiles') \in Nat
      BY <2>2, TakenIs
    <2>5. SizesOf(exportRun.kept)' = <<>>
      <3>1. DOMAIN exportRun'.kept = {}
        BY <2>1
      <3>2. DOMAIN <<>> = {} /\ <<>> = [i \in {} |-> exportFiles'[exportRun'.kept[i].index]]
        OBVIOUS
      <3> QED
        BY <3>1, <3>2 DEF SizesOf
    <2>6. KeptIsTaken'
      BY <1>1, <1>4, <2>1, <2>4, <2>5 DEF KeptIsTaken, Nothing
    <2>7. PipeAddsUp'
      BY <1>1, <2>1 DEF PipeAddsUp, IdlePipeline
    <2>8. PipeTypes'
      BY <1>1 DEF PipeTypes, IdlePipeline
    <2> QED
      BY <2>3, <2>6, <2>7, <2>8 DEF ExportInv
  <1> QED
    BY <1>3, <1>4 DEF SelectFiles, ExportGoes

LEMMA NextKeeps == ASSUME ExportInv, NextFile PROVE ExportInv'
  <1>1. exportRun.at = "next" /\ pipeline = IdlePipeline /\ UNCHANGED <<inventory, exportFiles>>
    BY DEF NextFile, ExportInv, PipeAddsUp
  <1>2. /\ exportFiles \in Seq(FileSizes) /\ Len(exportFiles) \in Nat
        /\ exportRun.index \in Nat \ {0} /\ exportRun.index <= Len(exportFiles) + 1
        /\ exportRun.kept \in Seq(KeptFiles) /\ exportRun.remaining \in Nat
    BY <1>1 DEF ExportInv, RunTypes, KeptIsTaken
  <1>3. /\ exportFiles = Candidates(inventory)
        /\ \A i \in DOMAIN exportRun.kept :
             /\ exportRun.kept[i].index \in 1 .. Len(exportFiles)
             /\ exportRun.kept[i].got = exportFiles[exportRun.kept[i].index] + 1
        /\ TakenOf(exportFiles)[exportRun.index - 1] = [kept |-> SizesOf(exportRun.kept), total |-> exportRun.total]
    BY <1>1 DEF ExportInv, KeptIsTaken
  <1>4. ASSUME NEW where \in {"publish", "poll"}, exportRun' = [exportRun EXCEPT !.at = where]
        PROVE  /\ RunTypes' /\ exportRun'.at = where /\ exportRun'.index = exportRun.index
               /\ exportRun'.kept = exportRun.kept /\ exportRun'.total = exportRun.total
               /\ exportRun'.remaining = exportRun.remaining /\ SizesOf(exportRun.kept)' = SizesOf(exportRun.kept)
    BY <1>1, <1>4 DEF ExportInv, RunTypes, SizesOf
  <1>5. CASE /\ exportRun.index > Len(exportFiles) \/ LimitsFull(exportRun.kept)
             /\ exportRun' = [exportRun EXCEPT !.at = "publish"] /\ pipeline' = pipeline
    <2>1. SizesOf(exportRun.kept) = TakenOf(exportFiles)[Len(exportFiles)].kept
      <3>1. CASE exportRun.index > Len(exportFiles)
        <4>1. exportRun.index - 1 = Len(exportFiles)
          BY <1>2, <3>1
        <4> QED
          BY <1>3, <4>1
      <3>2. CASE LimitsFull(exportRun.kept)
        <4>1. LimitsFull(SizesOf(exportRun.kept))
          BY <1>2, <1>3, <3>2, SizesAre DEF LimitsFull
        <4>2. exportRun.index - 1 \in 0 .. Len(exportFiles)
          BY <1>2
        <4>3. LimitsFull(TakenOf(exportFiles)[exportRun.index - 1].kept)
          BY <1>3, <4>1
        <4>4. TakenOf(exportFiles)[Len(exportFiles)] = TakenOf(exportFiles)[exportRun.index - 1]
          BY <1>2, <4>2, <4>3, FullStays
        <4> QED
          BY <1>3, <4>4
      <3> QED
        BY <1>5, <3>1, <3>2
    <2>2. KeptIsTaken'
      BY <1>1, <1>3, <1>4, <1>5, <2>1 DEF KeptIsTaken
    <2>3. PipeTypes' /\ PipeAddsUp'
      BY <1>1, <1>4, <1>5 DEF PipeTypes, PipeAddsUp, IdlePipeline
    <2> QED
      BY <1>4, <1>5, <2>2, <2>3 DEF ExportInv
  <1>6. CASE exportRun' = [exportRun EXCEPT !.at = "failed"] /\ pipeline' = pipeline
    BY <1>1, <1>6, FailKeeps
  <1>7. CASE /\ ~(exportRun.index > Len(exportFiles)) /\ exportRun' = [exportRun EXCEPT !.at = "poll"]
             /\ pipeline' = [IdlePipeline EXCEPT
                  !.cap = LowerOf(exportRun.remaining, PolicyFileBytes + TarOverhead),
                  !.copy = "running", !.pump = "running", !.tar = "running"]
    <2>1. PICK cap \in Nat : cap = LowerOf(exportRun.remaining, PolicyFileBytes + TarOverhead)
      BY <1>2, ExportPolicy DEF LowerOf
    <2>2. cap <= exportRun.remaining /\ cap <= PolicyCap
      <3>1. exportRun.remaining \in Int /\ PolicyFileBytes + TarOverhead \in Int
        BY <1>2, ExportPolicy
      <3> QED
        BY ONLY <2>1, <3>1 DEF LowerOf, PolicyCap
    <2>3. pipeline' = [cap |-> cap, copy |-> "running", sent |-> 0, pipe1 |-> 0, pump |-> "running", moved |-> 0,
                       pipe2 |-> 0, tar |-> "running", got |-> 0, eof |-> FALSE]
      BY <1>7, <2>1 DEF IdlePipeline
    <2>4. PipeTypes'
      BY <2>3 DEF PipeTypes
    <2>5. exportFiles[exportRun.index] \in Nat
      <3>1. exportRun.index \in 1 .. Len(exportFiles)
        BY <1>2, <1>7
      <3>2. exportFiles[exportRun.index] \in FileSizes
        BY ONLY <1>2, <3>1
      <3> QED
        BY <3>2 DEF FileSizes
    <2>6. PipeAddsUp'
      <3>1. Archive' \in Nat /\ PolicyCap' = PolicyCap
        BY <1>1, <1>4, <1>7, <2>5 DEF Archive, PolicyCap
      <3>2. /\ pipeline'.cap = cap /\ pipeline'.copy = "running" /\ pipeline'.sent = 0 /\ pipeline'.pipe1 = 0
            /\ pipeline'.pump = "running" /\ pipeline'.moved = 0 /\ pipeline'.pipe2 = 0
            /\ pipeline'.tar = "running" /\ pipeline'.got = 0 /\ pipeline'.eof = FALSE
        BY <2>3
      <3>3. exportRun'.at = "poll" /\ cap <= exportRun'.remaining /\ cap <= PolicyCap'
        BY <1>4, <1>7, <2>2, <3>1
      <3> QED
        BY <2>1, <3>1, <3>2, <3>3 DEF PipeAddsUp
    <2>7. KeptIsTaken'
      BY <1>1, <1>2, <1>3, <1>4, <1>7 DEF KeptIsTaken
    <2> QED
      BY <1>4, <1>7, <2>4, <2>6, <2>7 DEF ExportInv
  <1> QED
    BY <1>5, <1>6, <1>7 DEF NextFile, ExportGoes

(* The caller moves on from a file: what the limits would take of it is    *)
(* what the loop has taken.                                                *)
LEMMA MovingOn ==
  ASSUME ExportInv, exportRun.at = "poll", pipeline' = IdlePipeline, UNCHANGED <<inventory, exportFiles>>,
         RunTypes', exportRun'.at = "next", exportRun'.index = exportRun.index + 1,
         \A i \in DOMAIN exportRun'.kept :
           /\ exportRun'.kept[i].index \in 1 .. Len(exportFiles)
           /\ exportRun'.kept[i].got = exportFiles[exportRun'.kept[i].index] + 1,
         [kept |-> SizesOf(exportRun.kept)', total |-> exportRun'.total] =
           TakeFile([kept |-> SizesOf(exportRun.kept), total |-> exportRun.total], exportFiles[exportRun.index])
  PROVE  ExportInv'
  <1>1. /\ exportFiles \in Seq(FileSizes) /\ Len(exportFiles) \in Nat
        /\ exportRun.index \in 1 .. Len(exportFiles) /\ exportFiles = Candidates(inventory)
        /\ TakenOf(exportFiles)[exportRun.index - 1] = [kept |-> SizesOf(exportRun.kept), total |-> exportRun.total]
    BY DEF ExportInv, RunTypes, KeptIsTaken
  <1>2. TakenOf(exportFiles)[exportRun.index] =
          TakeFile(TakenOf(exportFiles)[exportRun.index - 1], exportFiles[exportRun.index])
    BY <1>1, TakenIs
  <1>3. TakenOf(exportFiles)[exportRun.index] = [kept |-> SizesOf(exportRun.kept)', total |-> exportRun'.total]
    BY <1>1, <1>2
  <1>4. exportRun'.index - 1 = exportRun.index /\ exportRun'.index <= Len(exportFiles) + 1
    BY <1>1
  <1>5. KeptIsTaken'
    BY <1>1, <1>3, <1>4 DEF KeptIsTaken
  <1>6. PipeTypes' /\ PipeAddsUp'
    BY DEF PipeTypes, PipeAddsUp, IdlePipeline
  <1> QED
    BY <1>5, <1>6 DEF ExportInv

(* A file that is cut off at the policy's cap is one the policy refuses.   *)
LEMMA SkipKeeps ==
  ASSUME ExportInv, exportRun.at = "poll", SkipFile, pipeline' = IdlePipeline,
         UNCHANGED <<inventory, exportFiles>>
  PROVE  ExportInv'
  <1>1. CASE exportRun' = [exportRun EXCEPT !.at = "failed"]
    BY <1>1, FailKeeps
  <1>2. CASE /\ ~(exportRun.remaining < pipeline.moved + 1)
             /\ exportRun' = [exportRun EXCEPT !.at = "next", !.index = @ + 1,
                                               !.remaining = @ - (pipeline.moved + 1)]
    <2>1. /\ exportRun.index \in Nat \ {0} /\ exportRun.remaining \in Nat /\ pipeline.moved \in Nat
          /\ exportRun.index \in 1 .. Len(exportFiles) /\ exportFiles \in Seq(FileSizes)
      BY DEF ExportInv, RunTypes, PipeTypes, KeptIsTaken
    <2>2. /\ exportRun'.at = "next" /\ exportRun'.index = exportRun.index + 1
          /\ exportRun'.kept = exportRun.kept /\ exportRun'.total = exportRun.total
          /\ exportRun'.remaining = exportRun.remaining - (pipeline.moved + 1)
      BY <1>2 DEF ExportInv, RunTypes
    <2>3. exportRun.index + 1 \in Nat \ {0} /\ exportRun.remaining - (pipeline.moved + 1) \in Nat
      BY <1>2, <2>1
    <2>4. RunTypes'
      <3>1. "next" \in {"select", "next", "poll", "publish", "done", "failed"}
        OBVIOUS
      <3> QED
        BY <1>2, <2>3, <3>1, Zenon DEF ExportInv, RunTypes
    <2>5. pipeline.moved + 1 > pipeline.cap /\ pipeline.moved + 1 <= Archive /\ pipeline.cap = PolicyCap
      <3>1. pipeline.pump = "limit" /\ pipeline.cap = PolicyCap
        BY DEF SkipFile, MonitorVerdict
      <3> QED
        BY <3>1 DEF ExportInv, PipeAddsUp
    <2>6. exportFiles[exportRun.index] \in Nat
      <3>1. exportFiles[exportRun.index] \in FileSizes
        BY ONLY <2>1
      <3> QED
        BY <3>1 DEF FileSizes
    <2>7. exportFiles[exportRun.index] > PolicyFileBytes
      <3>1. Archive = exportFiles[exportRun.index] + 1
        BY DEF Archive
      <3>2. PolicyCap = PolicyFileBytes + TarOverhead /\ PolicyFileBytes \in Nat /\ TarOverhead \in Nat \ {0}
        BY ExportPolicy DEF PolicyCap
      <3>3. PICK size \in Nat : size = exportFiles[exportRun.index]
        BY <2>6
      <3>4. pipeline.moved + 1 > PolicyFileBytes + TarOverhead /\ pipeline.moved + 1 <= size + 1
        BY <2>5, <3>1, <3>2, <3>3
      <3>5. size > PolicyFileBytes
        BY <2>1, <3>2, <3>3, <3>4
      <3> QED
        BY <3>3, <3>5
    <2>8. ~(exportFiles[exportRun.index] <= PolicyFileBytes)
      BY <2>6, <2>7, ExportPolicy
    <2>9. SizesOf(exportRun.kept)' = SizesOf(exportRun.kept)
      BY <2>2 DEF SizesOf
    <2>10. [kept |-> SizesOf(exportRun.kept)', total |-> exportRun'.total] =
             TakeFile([kept |-> SizesOf(exportRun.kept), total |-> exportRun.total], exportFiles[exportRun.index])
      BY <2>2, <2>8, <2>9 DEF TakeFile, Selectable
    <2>11. \A i \in DOMAIN exportRun'.kept :
             /\ exportRun'.kept[i].index \in 1 .. Len(exportFiles)
             /\ exportRun'.kept[i].got = exportFiles[exportRun'.kept[i].index] + 1
      BY <2>2 DEF ExportInv, KeptIsTaken
    <2> QED
      BY <2>2, <2>4, <2>10, <2>11, MovingOn
  <1> QED
    BY <1>1, <1>2 DEF SkipFile

(* A file whose pipeline ends well has come through whole.                 *)
LEMMA KeepKeeps ==
  ASSUME ExportInv, exportRun.at = "poll", KeepFile, pipeline' = IdlePipeline,
         UNCHANGED <<inventory, exportFiles>>
  PROVE  ExportInv'
  <1> DEFINE size == exportFiles[exportRun.index]
             file == [index |-> exportRun.index, got |-> pipeline.got]
             take == Selectable(exportRun.kept, exportRun.total, size)
             kept == IF take THEN Append(exportRun.kept, file) ELSE exportRun.kept
             total == IF take THEN exportRun.total + size ELSE exportRun.total
  <1>1. /\ exportRun.index \in Nat \ {0} /\ exportRun.remaining \in Nat
        /\ exportRun.total \in Nat /\ exportRun.kept \in Seq(KeptFiles)
        /\ pipeline.moved \in Nat /\ pipeline.got \in Nat /\ pipeline.pipe2 \in Nat
        /\ exportRun.index \in 1 .. Len(exportFiles) /\ exportFiles \in Seq(FileSizes)
    BY DEF ExportInv, RunTypes, PipeTypes, KeptIsTaken
  <1>2. size \in FileSizes /\ size \in Nat
    <2>1. size \in FileSizes
      BY ONLY <1>1
    <2> QED
      BY <2>1 DEF FileSizes
  <1>3. pipeline.got = size + 1 /\ pipeline.moved <= exportRun.remaining
    <2>1. pipeline.copy = "ok" /\ pipeline.pump = "ok" /\ pipeline.tar = "ok"
      BY DEF ExportInv, PipeAddsUp, PipeTypes, KeepFile, MonitorVerdict
    <2>2. /\ pipeline.sent = Archive /\ pipeline.sent = pipeline.moved /\ pipeline.pipe2 = 0
          /\ pipeline.moved = pipeline.got + pipeline.pipe2
          /\ pipeline.moved <= pipeline.cap /\ pipeline.cap <= exportRun.remaining
      BY <2>1 DEF ExportInv, PipeAddsUp
    <2>3. pipeline.cap \in Nat
      BY DEF ExportInv, PipeTypes
    <2> QED
      BY <1>1, <1>2, <2>2, <2>3 DEF Archive
  <1>4. exportRun' = [exportRun EXCEPT !.at = "next", !.index = exportRun.index + 1,
                        !.remaining = exportRun.remaining - pipeline.moved, !.kept = kept, !.total = total]
    BY DEF KeepFile
  <1>5. file \in KeptFiles /\ file.index = exportRun.index /\ file.got = size + 1
    BY <1>1, <1>3 DEF KeptFiles
  <1>6. /\ Append(exportRun.kept, file) \in Seq(KeptFiles)
        /\ \A i \in DOMAIN Append(exportRun.kept, file) :
             \/ Append(exportRun.kept, file)[i] = file
             \/ i \in DOMAIN exportRun.kept /\ Append(exportRun.kept, file)[i] = exportRun.kept[i]
    <2> HIDE DEF file
    <2> QED
      BY <1>1, <1>5
  <1>7. \A i \in DOMAIN exportRun.kept :
          /\ exportRun.kept[i].index \in 1 .. Len(exportFiles)
          /\ exportRun.kept[i].got = exportFiles[exportRun.kept[i].index] + 1
    BY DEF ExportInv, KeptIsTaken
  <1> HIDE DEF file, size
  <1>8. kept \in Seq(KeptFiles) /\ total \in Nat
    BY <1>1, <1>2, <1>6
  <1>9. /\ SizesOf(exportRun.kept) \in Seq(FileSizes) /\ Len(SizesOf(exportRun.kept)) = Len(exportRun.kept)
        /\ SizesOf(Append(exportRun.kept, file)) = Append(SizesOf(exportRun.kept), size)
    BY <1>1, <1>5, <1>7, SizesAre DEF size
  <1>10. [kept |-> SizesOf(kept), total |-> total] =
           TakeFile([kept |-> SizesOf(exportRun.kept), total |-> exportRun.total], size)
    BY <1>9 DEF TakeFile, Selectable, LimitsFull
  <1>11. \A i \in DOMAIN kept :
           kept[i].index \in 1 .. Len(exportFiles) /\ kept[i].got = exportFiles[kept[i].index] + 1
    <2>1. CASE take
      BY <1>1, <1>5, <1>6, <1>7, <2>1 DEF size
    <2>2. CASE ~take
      BY <1>7, <2>2
    <2> QED
      BY <2>1, <2>2
  <1> HIDE DEF kept, total, take
  <1>12. /\ exportRun'.at = "next" /\ exportRun'.index = exportRun.index + 1
         /\ exportRun'.kept = kept /\ exportRun'.total = total
    BY <1>4 DEF ExportInv, RunTypes
  <1>13. RunTypes'
    <2>1. /\ "next" \in {"select", "next", "poll", "publish", "done", "failed"}
          /\ exportRun.index + 1 \in Nat \ {0} /\ exportRun.remaining - pipeline.moved \in Nat
      BY <1>1, <1>3
    <2> QED
      BY <1>4, <1>8, <2>1, Zenon DEF ExportInv, RunTypes
  <1>14. SizesOf(exportRun.kept)' = SizesOf(kept)
    BY <1>12 DEF SizesOf
  <1>15. [kept |-> SizesOf(exportRun.kept)', total |-> exportRun'.total] =
           TakeFile([kept |-> SizesOf(exportRun.kept), total |-> exportRun.total], exportFiles[exportRun.index])
    BY <1>10, <1>12, <1>14 DEF size
  <1> QED
    BY <1>11, <1>12, <1>13, <1>15, MovingOn

LEMMA ExportInvNext == ExportInv /\ [ExportNext]_exportVars => ExportInv'
  <1> SUFFICES ASSUME ExportInv, [ExportNext]_exportVars PROVE ExportInv'
    OBVIOUS
  <1>1. CASE CopyWrites \/ CopyBreaks \/ PumpArchive \/ TarReads
    BY <1>1, PipelineKeeps
  <1>2. CASE SelectFiles \/ NextFile
    BY <1>2, SelectKeeps, NextKeeps
  <1>3. CASE MonitorPolls
    <2>1. exportRun.at = "poll" /\ pipeline' = IdlePipeline /\ UNCHANGED <<inventory, exportFiles>>
      BY <1>3 DEF MonitorPolls
    <2> QED
      BY <1>3, <2>1, SkipKeeps, KeepKeeps, FailKeeps DEF MonitorPolls, ExportGoes
  <1>4. CASE PublishExport
    <2>1. exportRun.at = "publish" /\ UNCHANGED <<inventory, exportFiles, pipeline>> /\ pipeline = IdlePipeline
      BY <1>4 DEF PublishExport, ExportInv, PipeAddsUp
    <2>2. CASE exportRun' = [exportRun EXCEPT !.at = "failed"]
      BY <2>1, <2>2, FailKeeps
    <2>3. CASE exportRun' = [exportRun EXCEPT !.at = "done"]
      <3>1. RunTypes' /\ exportRun'.at = "done" /\ exportRun'.kept = exportRun.kept
        BY <2>1, <2>3 DEF ExportInv, RunTypes
      <3>2. KeptIsTaken'
        BY <2>1, <3>1 DEF ExportInv, KeptIsTaken, SizesOf
      <3>3. PipeTypes' /\ PipeAddsUp'
        BY <2>1, <3>1 DEF PipeTypes, PipeAddsUp, IdlePipeline
      <3> QED
        BY <3>1, <3>2, <3>3 DEF ExportInv
    <2> QED
      BY <1>4, <2>2, <2>3 DEF PublishExport, ExportGoes
  <1>5. CASE DeadlinePasses \/ UNCHANGED exportVars
    <2>1. UNCHANGED <<inventory, exportFiles, exportRun, pipeline>>
      BY <1>5 DEF DeadlinePasses, exportVars
    <2>2. RunTypes' /\ PipeTypes'
      BY <2>1 DEF ExportInv, RunTypes, PipeTypes
    <2>3. KeptIsTaken'
      BY <2>1 DEF ExportInv, KeptIsTaken, SizesOf
    <2>4. PipeAddsUp'
      BY <2>1 DEF ExportInv, PipeAddsUp, Archive, PolicyCap
    <2> QED
      BY <2>2, <2>3, <2>4 DEF ExportInv
  <1> QED
    BY <1>1, <1>2, <1>3, <1>4, <1>5 DEF ExportNext, ExportStep

(* export_container_files: for any files, any policy and any capacity of   *)
(* the pipes, what the pipelines of docker cp, pump and tar leave behind   *)
(* is what a projection of a local tree would take, each file whole.       *)
THEOREM ExportsAreProjections == ExportSpec => []ExportIsProjection
  <1>1. ExportInv => ExportIsProjection
    <2> SUFFICES ASSUME ExportInv, exportRun.at = "done" PROVE ExportIsProjection
      BY DEF ExportIsProjection
    <2>1. /\ exportFiles = Candidates(inventory)
          /\ SizesOf(exportRun.kept) = TakenOf(exportFiles)[Len(exportFiles)].kept
          /\ \A i \in DOMAIN exportRun.kept : exportRun.kept[i].got = exportFiles[exportRun.kept[i].index] + 1
      BY DEF ExportInv, KeptIsTaken
    <2>2. Projected = TakenOf(exportFiles)[Len(exportFiles)].kept
      BY <2>1, CandidatesProject DEF ExportInv, RunTypes
    <2> QED
      BY <2>1, <2>2 DEF ExportIsProjection, SizesOf
  <1> QED
    BY <1>1, ExportInvInit, ExportInvNext, PTL DEF ExportSpec
=============================================================================
