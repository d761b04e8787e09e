--------------------------- MODULE UdpRelay_proofs --------------------------
(***************************************************************************)
(* Proofs about UdpRelay, for any number of destinations, sockets, table   *)
(* slots and resolutions: type correctness, the agreement of the session   *)
(* table with the sockets and reader goroutines, the destination of every  *)
(* answer, and what is left when the association is done.                  *)
(***************************************************************************)
EXTENDS UdpRelay, FiniteSetTheorems, TLAPS

LEMMA SocketFacts == NoSocket \notin Sockets /\ Sockets \subseteq Nat
BY SizesAssumption DEF NoSocket, Sockets

(* While a datagram is being forwarded its destination is known, and       *)
(* between the dial and the second critical section so is its socket.      *)
InHand == /\ pc \in {"lookup", "dial", "insert"} => dst \in Dests
          /\ pc \in {"dial", "insert"} => dst \notin Registered
          /\ pc = "insert" => /\ cur \in Sockets
                             /\ sock[cur] = "open" /\ peer[cur] = dst
                             /\ reader[cur] = "none"
TypeInv == TypeOK /\ InHand

LEMMA TypeInit == Init => TypeInv
BY DEF Init, TypeInv, TypeOK, InHand, Registered

LEMMA TypeNext == TypeInv /\ [Next]_vars => TypeOK'
<1>. SUFFICES ASSUME TypeInv, [Next]_vars PROVE TypeOK'
  OBVIOUS
<1>. USE DEF TypeInv, TypeOK, tableVars, socketVars, dataVars
<1>1. CASE ReadDatagram
  <2>1. PICK a \in Sources, kind \in Kinds, d \in Dests :
          IF AcceptFrom(a)
          THEN /\ clientAddr' = IF clientAddr = NoOne THEN a ELSE clientAddr
               /\ src' = (IF kind = "dns" THEN a ELSE NoOne)
               /\ dst' = (IF kind = "forward" THEN d ELSE NoOne)
               /\ pc' = CASE kind = "dns"     -> "acquire"
                          [] kind = "forward" -> "lookup"
                          [] OTHER            -> "read"
          ELSE UNCHANGED <<clientAddr, src, dst, pc>>
    BY <1>1 DEF ReadDatagram
  <2>2. /\ clientAddr' \in Sources \cup {NoOne} /\ src' \in Sources \cup {NoOne}
        /\ dst' \in Dests \cup {NoOne}
        /\ pc' \in {"read", "acquire", "lookup", "dial", "insert", "evict", "send",
                    "stopping", "closing", "wait", "done"}
    BY <2>1
  <2>. QED BY <1>1, <2>2 DEF ReadDatagram
<1>2. CASE ReadClosed \/ ReadTimesOut \/ DialFails \/ Terminated
  BY <1>2 DEF ReadClosed, ReadTimesOut, DialFails, Terminated, vars
<1>3. CASE AcquireDNS
  BY <1>3 DEF AcquireDNS
<1>4. CASE Lookup
  BY <1>4 DEF Lookup, Touch, Registered
<1>5. CASE Dial
  BY <1>5 DEF Dial
<1>6. CASE Insert
  <2>1. dst \in Dests /\ cur \in Sockets
    BY <1>6 DEF Insert, InHand
  <2>2. Touch(dst) \subseteq Dests \X Dests
    BY <2>1 DEF Touch, Registered
  <2>3. \A v \in Oldest : v \in Dests /\ sessions[v] \in Sockets
    BY DEF Oldest, Registered
  <2>4. sessions' \in [Dests -> Sockets \cup {NoSocket}]
    BY <1>6, <2>1 DEF Insert
  <2>5. older' \subseteq Dests \X Dests /\ toClose' \subseteq Sockets
    BY <1>6, <2>2, <2>3 DEF Insert
  <2>6. pc' \in {"send", "evict"}
    BY <1>6 DEF Insert
  <2>7. reader' \in [Sockets -> {"none", "reading", "dropping", "gone"}]
    BY <1>6, <2>1 DEF Insert
  <2>. QED BY <1>6, <2>4, <2>5, <2>6, <2>7 DEF Insert
<1>7. CASE CloseEvicted \/ Send \/ CloseSockets \/ Finish
  BY <1>7 DEF CloseEvicted, Send, CloseSockets, Finish
<1>8. CASE CloseTable
  BY <1>8 DEF CloseTable, Registered
<1>9. ASSUME NEW s \in Sockets, RelayReply(s) PROVE TypeOK'
  BY <1>9 DEF RelayReply
<1>10. ASSUME NEW s \in Sockets, ReaderEnd(s) PROVE TypeOK'
  BY <1>10 DEF ReaderEnd, ReaderClosed, ReaderExpires, DropSession, Forget
<1>11. ASSUME NEW i \in Slots, ResolveDNS(i) PROVE TypeOK'
  BY <1>11 DEF ResolveDNS
<1>12. CASE ControlCloses
  BY <1>12 DEF ControlCloses
<1>13. CASE UNCHANGED vars
  BY <1>13 DEF vars
<1>. QED BY <1>1, <1>2, <1>3, <1>4, <1>5, <1>6, <1>7, <1>8, <1>9, <1>10, <1>11,
            <1>12, <1>13 DEF Next, LoopStep

-----------------------------------------------------------------------------
(* The strengthening, in four parts.                                       *)

(* A socket that was never dialled has no reader, any other has a peer.    *)
SocketsInv ==
    \A s \in Sockets : /\ sock[s] = "unused" => reader[s] = "none"
                       /\ sock[s] # "unused" => peer[s] \in Dests

(* What is taken out of the table is not in it, and is closed before the   *)
(* loop goes on.                                                           *)
ToCloseInv ==
    /\ pc \notin {"evict", "closing"} => toClose = {}
    /\ \A d \in Registered : sessions[d] \notin toClose
    /\ \A s \in toClose : sock[s] # "unused"

(* Once the table is emptied nothing is registered or resolved any more.   *)
ClosingInv ==
    /\ pc \in {"closing", "wait", "done"} =>
          Registered = {} /\ \A i \in Slots : dns[i] = NoOne
    /\ pc = "done" => Running = {} /\ relay = "closed"

(* Whatever leads to an answer belongs to the pinned client.               *)
ClientInv ==
    /\ clientAddr \in PeerSources \cup {NoOne}
    /\ pc \in {"acquire", "lookup", "dial", "insert"} => clientAddr # NoOne
    /\ pc = "acquire" => src = clientAddr
    /\ \A i \in Slots : dns[i] \in {NoOne, clientAddr}
    /\ \A s \in Sockets : reader[s] # "none" => clientAddr # NoOne
    /\ \A a \in replied : a = clientAddr /\ a \in PeerSources

IInv == /\ TypeInv /\ SocketsInv /\ RegisteredIsServed /\ NoStrayReader
        /\ ToCloseInv /\ ClosingInv /\ ClientInv

LEMMA InitInv == Init => IInv
BY TypeInit DEF Init, IInv, SocketsInv, RegisteredIsServed, NoStrayReader, ToCloseInv,
   ClosingInv, ClientInv, Registered, Running

LEMMA Inductive == IInv /\ [Next]_vars => IInv'
<1>. SUFFICES ASSUME IInv, [Next]_vars PROVE IInv'
  OBVIOUS
<1>. USE SocketFacts DEF tableVars, socketVars, dataVars
<1>0. TypeOK /\ TypeOK' /\ InHand /\ SocketsInv /\ RegisteredIsServed /\ NoStrayReader
      /\ ToCloseInv /\ ClosingInv /\ ClientInv
  BY TypeNext DEF IInv, TypeInv
<1>. DEFINE Table == InHand' /\ SocketsInv' /\ RegisteredIsServed' /\ NoStrayReader'
                     /\ ToCloseInv'
<1>. SUFFICES Table /\ ClosingInv' /\ ClientInv'
  BY <1>0 DEF IInv, TypeInv
<1>1. CASE ReadDatagram
  <2>1. PICK a \in Sources, kind \in Kinds, d \in Dests :
          IF AcceptFrom(a)
          THEN /\ clientAddr' = IF clientAddr = NoOne THEN a ELSE clientAddr
               /\ src' = (IF kind = "dns" THEN a ELSE NoOne)
               /\ dst' = (IF kind = "forward" THEN d ELSE NoOne)
               /\ pc' = CASE kind = "dns"     -> "acquire"
                          [] kind = "forward" -> "lookup"
                          [] OTHER            -> "read"
          ELSE UNCHANGED <<clientAddr, src, dst, pc>>
    BY <1>1 DEF ReadDatagram
  <2>2. /\ pc' \in {"read", "acquire", "lookup"} /\ pc = "read"
        /\ pc' = "lookup" => dst' \in Dests
        /\ UNCHANGED <<relay, sessions, older, cur, toClose, sock, peer, reader, dns, replied>>
    BY <1>1, <2>1 DEF ReadDatagram
  <2>3. /\ clientAddr' \in PeerSources \cup {NoOne}
        /\ clientAddr # NoOne => clientAddr' = clientAddr
        /\ pc' # "read" => clientAddr' # NoOne
        /\ pc' = "acquire" => src' = clientAddr'
    BY <1>0, <1>1, <2>1, SourcesAssumption DEF AcceptFrom, ClientInv, ReadDatagram
  <2>4. Table /\ ClosingInv'
    BY <1>0, <2>2 DEF InHand, SocketsInv, RegisteredIsServed, NoStrayReader, ToCloseInv,
       ClosingInv, Registered, Running
  <2>5. ClientInv'
    BY <1>0, <2>2, <2>3, SourcesAssumption DEF ClientInv
  <2>. QED BY <2>4, <2>5
<1>2. CASE ReadClosed \/ ReadTimesOut \/ DialFails \/ Send \/ Terminated \/ UNCHANGED vars
  <2>1. /\ UNCHANGED <<relay, src, clientAddr, sessions, toClose, sock, peer, reader,
                       dns, replied>>
        /\ \/ pc' = pc /\ cur' = cur /\ dst' = dst
           \/ pc' \in {"read", "stopping"} /\ pc \in {"read", "dial", "send"}
    BY <1>2 DEF ReadClosed, ReadTimesOut, DialFails, Send, Terminated, vars
  <2>2. Table /\ ClosingInv'
    BY <1>0, <2>1 DEF InHand, SocketsInv, RegisteredIsServed, NoStrayReader, ToCloseInv,
       ClosingInv, Registered, Running
  <2>3. ClientInv'
    BY <1>0, <2>1 DEF ClientInv
  <2>. QED BY <2>2, <2>3
<1>3. CASE AcquireDNS
  <2>1. PICK i \in Slots : dns[i] = NoOne /\ dns' = [dns EXCEPT ![i] = src]
    BY <1>3 DEF AcquireDNS
  <2>2. /\ pc = "acquire" /\ pc' = "read"
        /\ UNCHANGED <<relay, dst, clientAddr, sessions, older, cur, toClose, sock, peer,
                       reader, replied>>
    BY <1>3 DEF AcquireDNS
  <2>3. Table /\ ClosingInv'
    BY <1>0, <2>2 DEF InHand, SocketsInv, RegisteredIsServed, NoStrayReader, ToCloseInv,
       ClosingInv, Registered, Running
  <2>4. ClientInv'
    BY <1>0, <2>1, <2>2 DEF ClientInv, TypeOK
  <2>. QED BY <2>3, <2>4
<1>4. CASE Lookup
  <2>1. /\ pc = "lookup" /\ pc' \in {"send", "dial"}
        /\ pc' = "dial" => dst \notin Registered
        /\ UNCHANGED <<relay, src, dst, clientAddr, sessions, toClose, sock, peer,
                       reader, dns, replied>>
    BY <1>4 DEF Lookup
  <2>2. Table /\ ClosingInv'
    BY <1>0, <2>1 DEF InHand, SocketsInv, RegisteredIsServed, NoStrayReader, ToCloseInv,
       ClosingInv, Registered, Running
  <2>3. ClientInv'
    BY <1>0, <2>1 DEF ClientInv
  <2>. QED BY <2>2, <2>3
<1>5. CASE Dial
  <2>1. PICK s \in Sockets : /\ sock[s] = "unused"
                             /\ sock' = [sock EXCEPT ![s] = "open"]
                             /\ peer' = [peer EXCEPT ![s] = dst]
                             /\ cur' = s
    BY <1>5 DEF Dial
  <2>2. /\ pc = "dial" /\ pc' = "insert"
        /\ UNCHANGED <<relay, src, dst, clientAddr, sessions, older, toClose, reader, dns, replied>>
    BY <1>5 DEF Dial
  <2>3. reader[s] = "none" /\ \A d \in Registered : sessions[d] # s
    BY <1>0, <2>1 DEF SocketsInv, RegisteredIsServed
  <2>4. InHand' /\ SocketsInv' /\ ToCloseInv' /\ ClosingInv'
    BY <1>0, <2>1, <2>2, <2>3 DEF InHand, SocketsInv, ToCloseInv, ClosingInv, Registered,
       Running, TypeOK
  <2>5. RegisteredIsServed' /\ NoStrayReader'
    BY <1>0, <2>1, <2>2, <2>3 DEF RegisteredIsServed, NoStrayReader, Registered, Running, TypeOK
  <2>6. ClientInv'
    BY <1>0, <2>2 DEF ClientInv
  <2>. QED BY <2>4, <2>5, <2>6
<1>6. CASE Insert
  <2>1. /\ pc = "insert" /\ pc' \in {"send", "evict"}
        /\ reader' = [reader EXCEPT ![cur] = "reading"]
        /\ UNCHANGED <<relay, src, dst, clientAddr, cur, sock, peer, dns, replied>>
    BY <1>6 DEF Insert
  <2>2. /\ dst \in Dests /\ dst \notin Registered /\ cur \in Sockets
        /\ sock[cur] = "open" /\ peer[cur] = dst /\ reader[cur] = "none"
    BY <1>0, <2>1 DEF InHand
  <2>3. \A d \in Registered : sessions[d] # cur
    BY <1>0, <2>2 DEF RegisteredIsServed, Running
  <2>4. CASE sessions' = [sessions EXCEPT ![dst] = cur] /\ UNCHANGED toClose /\ pc' = "send"
    <3>1. Registered' = Registered \cup {dst}
      BY <1>0, <2>2, <2>4 DEF Registered, TypeOK
    <3>2. sessions'[dst] = cur /\ \A d \in Registered : sessions'[d] = sessions[d]
      BY <1>0, <2>2, <2>4 DEF Registered, TypeOK
    <3>3. toClose' = {}
      BY <1>0, <2>1, <2>4 DEF ToCloseInv
    <3>4. InHand' /\ SocketsInv' /\ ToCloseInv'
      BY <1>0, <2>1, <2>2, <2>4, <3>3 DEF InHand, SocketsInv, ToCloseInv, TypeOK
    <3>5. RegisteredIsServed'
      BY <1>0, <2>1, <2>2, <3>1, <3>2 DEF RegisteredIsServed, Running, TypeOK, Registered
    <3>6. NoStrayReader'
      BY <1>0, <2>1, <2>2, <3>1, <3>2, <3>3 DEF NoStrayReader, TypeOK, ToCloseInv
    <3>. QED BY <3>4, <3>5, <3>6, <1>0, <2>1 DEF ClosingInv, ClientInv, TypeOK
  <2>5. ASSUME NEW v \in Oldest,
               sessions' = [sessions EXCEPT ![v] = NoSocket, ![dst] = cur],
               toClose' = {sessions[v]}, pc' = "evict"
        PROVE  Table /\ ClosingInv' /\ ClientInv'
    <3>0. v \in Registered /\ v # dst /\ v \in Dests
      BY <2>2 DEF Oldest, Registered
    <3>1. Registered' = (Registered \ {v}) \cup {dst}
      BY <1>0, <2>2, <2>5, <3>0 DEF Registered, TypeOK
    <3>2. /\ sessions'[dst] = cur
          /\ \A d \in Registered \ {v} : sessions'[d] = sessions[d]
      BY <1>0, <2>2, <2>5, <3>0 DEF Registered, TypeOK
    <3>3. \A d \in Registered \ {v} : sessions[d] # sessions[v]
      BY <1>0, <3>0 DEF RegisteredIsServed
    <3>4. InHand' /\ SocketsInv'
      BY <1>0, <2>1, <2>2, <2>5 DEF InHand, SocketsInv, TypeOK
    <3>5. ToCloseInv'
      <4>1. \A d \in Registered' : sessions'[d] # sessions[v]
        BY <2>3, <3>0, <3>1, <3>2, <3>3
      <4>2. sock'[sessions[v]] # "unused"
        BY <1>0, <2>1, <3>0 DEF RegisteredIsServed
      <4>3. pc' = "evict" /\ toClose' = {sessions[v]}
        BY <2>5
      <4>. QED BY <4>1, <4>2, <4>3 DEF ToCloseInv
    <3>6. RegisteredIsServed'
      BY <1>0, <2>1, <2>2, <3>1, <3>2 DEF RegisteredIsServed, Running, TypeOK, Registered
    <3>7. toClose = {}
      BY <1>0, <2>1 DEF ToCloseInv
    <3>8. NoStrayReader'
      <4>1. ASSUME NEW s \in Sockets, reader'[s] = "reading",
                   \A d \in Registered' : sessions'[d] # s
            PROVE  sock'[s] = "closed" \/ s \in toClose'
        <5>1. s # cur /\ reader[s] = "reading"
          BY <1>0, <2>1, <2>2, <3>1, <3>2, <4>1 DEF TypeOK
        <5>2. CASE \E d \in Registered : sessions[d] = s
          BY <2>5, <3>1, <3>2, <4>1, <5>2
        <5>3. CASE \A d \in Registered : sessions[d] # s
          BY <1>0, <2>1, <3>7, <5>1, <5>3 DEF NoStrayReader
        <5>. QED BY <5>2, <5>3
      <4>. QED BY <4>1 DEF NoStrayReader
    <3>. QED BY <3>4, <3>5, <3>6, <3>8, <1>0, <2>1 DEF ClosingInv, ClientInv, TypeOK
  <2>. QED BY <1>6, <2>4, <2>5 DEF Insert
<1>7. CASE CloseEvicted \/ CloseSockets
  <2>1. /\ \/ pc = "evict" /\ pc' = "send"
           \/ pc = "closing" /\ pc' = "wait"
        /\ sock' = [s \in Sockets |-> IF s \in toClose THEN "closed" ELSE sock[s]]
        /\ toClose' = {}
        /\ UNCHANGED <<relay, src, dst, clientAddr, sessions, older, cur, peer, reader, dns, replied>>
    BY <1>7 DEF CloseEvicted, CloseSockets
  <2>2. InHand' /\ ToCloseInv' /\ ClosingInv'
    BY <1>0, <2>1 DEF InHand, ToCloseInv, ClosingInv, Registered, Running
  <2>3. RegisteredIsServed'
    BY <1>0, <2>1 DEF RegisteredIsServed, ToCloseInv, Registered, Running, TypeOK
  <2>4. NoStrayReader'
    BY <1>0, <2>1 DEF NoStrayReader, Registered, TypeOK
  <2>5. ClientInv'
    BY <1>0, <2>1 DEF ClientInv
  <2>6. SocketsInv'
    BY <1>0, <2>1 DEF SocketsInv, ToCloseInv, TypeOK
  <2>. QED BY <2>2, <2>3, <2>4, <2>5, <2>6
<1>8. CASE CloseTable
  <2>1. /\ pc = "stopping" /\ pc' = "closing" /\ \A i \in Slots : dns[i] = NoOne
        /\ toClose' = {sessions[d] : d \in Registered}
        /\ sessions' = [d \in Dests |-> NoSocket]
        /\ UNCHANGED <<relay, src, dst, clientAddr, cur, sock, peer, reader, dns, replied>>
    BY <1>8 DEF CloseTable
  <2>2. Registered' = {}
    BY <2>1 DEF Registered
  <2>3. InHand' /\ SocketsInv' /\ RegisteredIsServed' /\ ClosingInv'
    BY <1>0, <2>1, <2>2 DEF InHand, SocketsInv, RegisteredIsServed, ClosingInv
  <2>4. ToCloseInv'
    BY <1>0, <2>1, <2>2 DEF ToCloseInv, RegisteredIsServed
  <2>5. NoStrayReader'
    BY <1>0, <2>1, <2>2 DEF NoStrayReader, ToCloseInv
  <2>6. ClientInv'
    BY <1>0, <2>1 DEF ClientInv
  <2>. QED BY <2>3, <2>4, <2>5, <2>6
<1>9. CASE Finish
  <2>1. /\ pc = "wait" /\ pc' = "done" /\ Running = {} /\ relay' = "closed"
        /\ UNCHANGED <<src, dst, clientAddr, sessions, cur, toClose, sock, peer, reader,
                       dns, replied>>
    BY <1>9 DEF Finish
  <2>2. Table /\ ClosingInv'
    BY <1>0, <2>1 DEF InHand, SocketsInv, RegisteredIsServed, NoStrayReader, ToCloseInv,
       ClosingInv, Registered, Running
  <2>3. ClientInv'
    BY <1>0, <2>1 DEF ClientInv
  <2>. QED BY <2>2, <2>3
<1>10. ASSUME NEW s \in Sockets, RelayReply(s) \/ ReaderClosed(s) \/ ReaderExpires(s)
       PROVE  Table /\ ClosingInv' /\ ClientInv'
  <2>1. /\ reader[s] = "reading"
        /\ reader' = reader \/ reader' = [reader EXCEPT ![s] = "dropping"]
        /\ replied' = replied \/ replied' = replied \cup {clientAddr}
        /\ UNCHANGED <<relay, pc, src, dst, clientAddr, sessions, cur, toClose, sock, peer, dns>>
    BY <1>10 DEF RelayReply, ReaderClosed, ReaderExpires
  <2>2. Registered' = Registered /\ Running' = Running
    BY <1>0, <2>1 DEF Registered, Running, TypeOK
  <2>3. s \in Running
    BY <2>1 DEF Running
  <2>4. InHand' /\ SocketsInv' /\ ToCloseInv'
    BY <1>0, <2>1, <2>2 DEF InHand, SocketsInv, ToCloseInv, TypeOK
  <2>5. RegisteredIsServed' /\ ClosingInv'
    BY <1>0, <2>1, <2>2 DEF RegisteredIsServed, ClosingInv
  <2>6. NoStrayReader'
    BY <1>0, <2>1, <2>2 DEF NoStrayReader, TypeOK
  <2>7. ClientInv'
    BY <1>0, <2>1 DEF ClientInv, TypeOK
  <2>. QED BY <2>4, <2>5, <2>6, <2>7
<1>11. ASSUME NEW s \in Sockets, DropSession(s)
       PROVE  Table /\ ClosingInv' /\ ClientInv'
  <2>1. /\ reader[s] = "dropping" /\ reader' = [reader EXCEPT ![s] = "gone"]
        /\ UNCHANGED <<relay, pc, src, dst, clientAddr, cur, toClose, sock, peer, dns, replied>>
    BY <1>11 DEF DropSession
  <2>2. peer[s] \in Dests
    BY <1>0, <2>1 DEF SocketsInv, TypeOK
  <2>3. /\ Registered' \subseteq Registered
        /\ \A d \in Registered' : sessions'[d] = sessions[d] /\ sessions[d] # s
        /\ \A d \in Registered : sessions[d] # s => d \in Registered'
    <3>1. CASE sessions[peer[s]] = s
      <4>1. sessions' = [sessions EXCEPT ![peer[s]] = NoSocket]
        BY <1>11, <3>1 DEF DropSession
      <4>2. \A d \in Registered : sessions[d] = s => d = peer[s]
        BY <1>0 DEF RegisteredIsServed
      <4>. QED BY <1>0, <2>2, <3>1, <4>1, <4>2 DEF Registered, TypeOK
    <3>2. CASE sessions[peer[s]] # s
      <4>1. UNCHANGED sessions
        BY <1>11, <3>2 DEF DropSession
      <4>2. \A d \in Registered : sessions[d] # s
        BY <1>0, <3>2 DEF RegisteredIsServed
      <4>. QED BY <4>1, <4>2 DEF Registered
    <3>. QED BY <3>1, <3>2
  <2>4. InHand' /\ SocketsInv' /\ ToCloseInv'
    BY <1>0, <2>1, <2>3 DEF InHand, SocketsInv, ToCloseInv, TypeOK
  <2>5. RegisteredIsServed'
    BY <1>0, <2>1, <2>3 DEF RegisteredIsServed, Running, TypeOK, Registered
  <2>6. NoStrayReader'
    <3>1. ASSUME NEW r \in Sockets, reader'[r] = "reading",
                 \A d \in Registered' : sessions'[d] # r
          PROVE  sock'[r] = "closed" \/ r \in toClose'
      <4>1. r # s /\ reader[r] = "reading"
        BY <1>0, <2>1, <3>1 DEF TypeOK
      <4>2. \A d \in Registered : sessions[d] # r
        BY <2>3, <3>1, <4>1
      <4>. QED BY <1>0, <2>1, <4>1, <4>2 DEF NoStrayReader
    <3>. QED BY <3>1 DEF NoStrayReader
  <2>7. ClosingInv'
    BY <1>0, <2>1, <2>3 DEF ClosingInv, Running, TypeOK
  <2>8. ClientInv'
    BY <1>0, <2>1 DEF ClientInv, TypeOK
  <2>. QED BY <2>4, <2>5, <2>6, <2>7, <2>8
<1>12. ASSUME NEW i \in Slots, ResolveDNS(i)
       PROVE  Table /\ ClosingInv' /\ ClientInv'
  <2>1. /\ dns[i] # NoOne /\ dns' = [dns EXCEPT ![i] = NoOne]
        /\ replied' = replied \/ replied' = replied \cup {dns[i]}
        /\ UNCHANGED <<relay, pc, src, dst, clientAddr, sessions, cur, toClose, sock, peer, reader>>
    BY <1>12 DEF ResolveDNS
  <2>2. Table /\ ClosingInv'
    BY <1>0, <2>1 DEF InHand, SocketsInv, RegisteredIsServed, NoStrayReader, ToCloseInv,
       ClosingInv, Registered, Running, TypeOK
  <2>3. ClientInv'
    BY <1>0, <2>1 DEF ClientInv, TypeOK
  <2>. QED BY <2>2, <2>3
<1>13. CASE ControlCloses
  <2>1. /\ pc # "done"
        /\ UNCHANGED <<pc, src, dst, clientAddr, sessions, cur, toClose, sock, peer, reader,
                       dns, replied>>
    BY <1>13 DEF ControlCloses
  <2>2. Table /\ ClosingInv'
    BY <1>0, <2>1 DEF InHand, SocketsInv, RegisteredIsServed, NoStrayReader, ToCloseInv,
       ClosingInv, Registered, Running
  <2>3. ClientInv'
    BY <1>0, <2>1 DEF ClientInv
  <2>. QED BY <2>2, <2>3
<1>. QED BY <1>1, <1>2, <1>3, <1>4, <1>5, <1>6, <1>7, <1>8, <1>9, <1>10, <1>11, <1>12, <1>13
         DEF Next, LoopStep, ReaderEnd

LEMMA InvCorrect == Spec => []IInv
BY InitInv, Inductive, PTL DEF Spec

(* Every variable keeps its type.                                          *)
THEOREM TypeCorrect == Spec => []TypeOK
<1>1. IInv => TypeOK
  BY DEF IInv, TypeInv
<1>. QED BY <1>1, InvCorrect, PTL

(* A registered socket is open, belongs to its destination and is served   *)
(* by its reader, for any number of destinations and evictions.            *)
THEOREM RegisteredIsServedAlways == Spec => []RegisteredIsServed
<1>1. IInv => RegisteredIsServed
  BY DEF IInv
<1>. QED BY <1>1, InvCorrect, PTL

(* No reader goroutine is left on a socket nobody will close.              *)
THEOREM NoStrayReaderAlways == Spec => []NoStrayReader
<1>1. IInv => NoStrayReader
  BY DEF IInv
<1>. QED BY <1>1, InvCorrect, PTL

(* Every answer goes to the one pinned address of the authenticated peer.  *)
THEOREM AnswersOnlyToClientAlways == Spec => []AnswersOnlyToClient
<1>1. IInv => AnswersOnlyToClient
  BY DEF IInv, ClientInv, AnswersOnlyToClient
<1>. QED BY <1>1, InvCorrect, PTL

(* No goroutine of the association outlives it.                            *)
THEOREM NothingRunsAfterDoneAlways == Spec => []NothingRunsAfterDone
<1>1. IInv => NothingRunsAfterDone
  BY DEF IInv, ClosingInv, NothingRunsAfterDone
<1>. QED BY <1>1, InvCorrect, PTL

-----------------------------------------------------------------------------
(* The cap on the table.                                                   *)
CapInv == IsFiniteSet(Registered) /\ TableCapped

LEMMA CapNext == IInv /\ CapInv /\ [Next]_vars => CapInv'
<1>. SUFFICES ASSUME IInv, CapInv, [Next]_vars PROVE CapInv'
  OBVIOUS
<1>. USE SocketFacts DEF tableVars, socketVars, dataVars
<1>0. TypeOK /\ InHand
  BY DEF IInv, TypeInv
<1>1. IsFiniteSet(Registered) /\ Cardinality(Registered) <= MaxSessions
  BY DEF CapInv, TableCapped
<1>2. Cardinality(Registered) \in Nat /\ MaxSessions \in Nat \ {0}
  BY <1>1, FS_CardinalityType, SizesAssumption
<1>3. ASSUME Registered' \subseteq Registered
      PROVE  CapInv'
  <2>1. IsFiniteSet(Registered') /\ Cardinality(Registered') <= Cardinality(Registered)
    BY <1>1, <1>3, FS_Subset
  <2>2. Cardinality(Registered') \in Nat
    BY <2>1, FS_CardinalityType
  <2>. QED BY <1>1, <1>2, <2>1, <2>2 DEF CapInv, TableCapped
<1>4. CASE Insert
  <2>1. dst \in Dests /\ dst \notin Registered /\ cur \in Sockets
    BY <1>0, <1>4 DEF Insert, InHand
  <2>2. CASE Cardinality(Registered) < MaxSessions
    <3>1. sessions' = [sessions EXCEPT ![dst] = cur]
      BY <1>4, <2>2 DEF Insert
    <3>2. Registered' = Registered \cup {dst}
      BY <1>0, <2>1, <3>1 DEF Registered, TypeOK
    <3>3. IsFiniteSet(Registered') /\ Cardinality(Registered') = Cardinality(Registered) + 1
      BY <1>1, <2>1, <3>2, FS_AddElement
    <3>. QED BY <1>2, <2>2, <3>3 DEF CapInv, TableCapped
  <2>3. CASE ~(Cardinality(Registered) < MaxSessions)
    <3>1. PICK v \in Oldest : sessions' = [sessions EXCEPT ![v] = NoSocket, ![dst] = cur]
      BY <1>4, <2>3 DEF Insert
    <3>2. v \in Registered /\ v \in Dests /\ v # dst
      BY <2>1 DEF Oldest, Registered
    <3>3. Registered' = (Registered \ {v}) \cup {dst}
      BY <1>0, <2>1, <3>1, <3>2 DEF Registered, TypeOK
    <3>4. /\ IsFiniteSet(Registered \ {v})
          /\ Cardinality(Registered \ {v}) = Cardinality(Registered) - 1
      BY <1>1, <3>2, FS_RemoveElement
    <3>5. /\ IsFiniteSet(Registered')
          /\ Cardinality(Registered') = Cardinality(Registered \ {v}) + 1
      BY <2>1, <3>3, <3>4, FS_AddElement
    <3>. QED BY <1>1, <1>2, <3>4, <3>5 DEF CapInv, TableCapped
  <2>. QED BY <2>2, <2>3
<1>5. CASE CloseTable
  BY <1>3, <1>5 DEF CloseTable, Registered
<1>6. ASSUME NEW s \in Sockets, DropSession(s) PROVE CapInv'
  BY <1>0, <1>3, <1>6 DEF DropSession, Registered, TypeOK
<1>7. CASE UNCHANGED sessions
  BY <1>3, <1>7 DEF Registered
<1>8. ASSUME NEW s \in Sockets, RelayReply(s) \/ ReaderClosed(s) \/ ReaderExpires(s)
      PROVE  UNCHANGED sessions
  BY <1>8 DEF RelayReply, ReaderClosed, ReaderExpires
<1>9. ASSUME NEW i \in Slots, ResolveDNS(i) PROVE UNCHANGED sessions
  BY <1>9 DEF ResolveDNS
<1>10. ASSUME \/ ReadDatagram \/ ReadClosed \/ ReadTimesOut \/ AcquireDNS \/ Lookup \/ Dial
              \/ DialFails \/ CloseEvicted \/ Send \/ CloseSockets \/ Finish
              \/ ControlCloses \/ Terminated \/ UNCHANGED vars
       PROVE  UNCHANGED sessions
  BY <1>10 DEF ReadDatagram, ReadClosed, ReadTimesOut, AcquireDNS, Lookup, Dial, DialFails,
     CloseEvicted, Send, CloseSockets, Finish, ControlCloses, Terminated, vars
<1>. QED BY <1>4, <1>5, <1>6, <1>7, <1>8, <1>9, <1>10 DEF Next, LoopStep, ReaderEnd

(* The session table never holds more than maxUDPSessions sockets.         *)
THEOREM TableCappedAlways == Spec => []TableCapped
<1>1. Init => CapInv
  <2>1. Init => Registered = {}
    BY DEF Init, Registered
  <2>. QED BY <2>1, FS_EmptySet, SizesAssumption DEF CapInv, TableCapped
<1>2. CapInv => TableCapped
  BY DEF CapInv
<1>. QED BY <1>1, <1>2, CapNext, InvCorrect, PTL DEF Spec

(* Table, sockets and readers belong together at every step, whatever is   *)
(* evicted, expires or ends meanwhile, for every cap and any destinations. *)
THEOREM TableSoundAlways == Spec => []TableSound
BY TableCappedAlways, RegisteredIsServedAlways, NoStrayReaderAlways,
   NothingRunsAfterDoneAlways, PTL DEF TableSound
=============================================================================
