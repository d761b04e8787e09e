------------------------------ MODULE UdpRelay ------------------------------
(***************************************************************************)
(* One SOCKS5 UDP association (internal/proxy/socks5_udp.go): the loop     *)
(* that reads the client's datagrams, the destination sockets it opens,    *)
(* one reader goroutine per socket, the goroutines that resolve DNS, and   *)
(* the teardown when the control connection closes or the relay is idle.   *)
(*                                                                         *)
(* The session table is read and written under a.mu; everything between    *)
(* two critical sections of the code is a step of its own here.  lastUsed  *)
(* times are kept as the order `older` they induce on the table.           *)
(***************************************************************************)
EXTENDS Naturals, FiniteSets

CONSTANTS
    Sources,        \* addresses datagrams arrive from
    PeerSources,    \* those whose host is the control connection's
    Dests,          \* destinations (host:port) that are forwarded to
    NoOne,          \* no address, no destination
    MaxSessions,    \* maxUDPSessions
    MaxDNS,         \* maxConcurrentDNS
    MaxSockets      \* bound: destination sockets ever dialled

ASSUME SourcesAssumption == PeerSources \subseteq Sources /\ NoOne \notin Sources \cup Dests
ASSUME SizesAssumption   == /\ MaxSessions \in Nat \ {0} /\ MaxDNS \in Nat \ {0}
                            /\ MaxSockets \in Nat

Sockets  == 1..MaxSockets
NoSocket == 0
Slots    == 1..MaxDNS
Kinds    == {"undecodable", "drop", "dns", "forward"}

VARIABLES
    control,        \* the TCP control connection
    relay,          \* the relay socket the client sends to
    pc,             \* step of the association's own goroutine
    src, dst,       \* source and destination of the datagram in hand
    clientAddr,     \* udpAssociation.clientAddr
    sessions,       \* udpAssociation.sessions: socket registered per destination
    older,          \* pairs <<d, e>>: d was last used before e
    cur,            \* the socket just dialled or about to be written to
    toClose,        \* sockets taken out of the table and not yet closed
    sock,           \* state of each socket
    peer,           \* destination each socket is connected to
    reader,         \* its reader goroutine (counted by a.wg until "gone")
    dns,            \* resolutions in flight: the address each will answer
    replied         \* history variable: the addresses answers were sent to

tableVars  == <<sessions, older>>
socketVars == <<sock, peer>>
dataVars   == <<src, dst>>
vars == <<control, relay, pc, dataVars, clientAddr, tableVars, cur, toClose,
          socketVars, reader, dns, replied>>

Registered  == {d \in Dests : sessions[d] # NoSocket}
Running     == {s \in Sockets : reader[s] \in {"reading", "dropping"}}
OpenSockets == {s \in Sockets : sock[s] = "open"}

Init ==
    /\ control = "open" /\ relay = "open" /\ pc = "read"
    /\ src = NoOne /\ dst = NoOne /\ clientAddr = NoOne
    /\ sessions = [d \in Dests |-> NoSocket] /\ older = {}
    /\ cur = NoSocket /\ toClose = {}
    /\ sock = [s \in Sockets |-> "unused"] /\ peer = [s \in Sockets |-> NoOne]
    /\ reader = [s \in Sockets |-> "none"]
    /\ dns = [i \in Slots |-> NoOne]
    /\ replied = {}

(* d becomes the most recently used entry of the table.                    *)
Touch(d) == {p \in older : p[1] # d /\ p[2] # d}
                \cup {<<e, d>> : e \in Registered \ {d}}
Forget(d) == {p \in older : p[1] # d /\ p[2] # d}
Oldest == {d \in Registered : \A e \in Registered \ {d} : <<d, e>> \in older}

-----------------------------------------------------------------------------
(* The association's goroutine: run, forward, session, close               *)

(* The first address heard from the peer's host is pinned.                 *)
BugAcceptAnyPeerPort(a) ==
    IF clientAddr = NoOne THEN a \in PeerSources ELSE a \in PeerSources
AcceptFrom(a) ==
    IF clientAddr = NoOne THEN a \in PeerSources ELSE a = clientAddr

(* One datagram; one that is refused or undecodable leaves no trace.  The  *)
(* address in hand is kept only while the loop needs it.                   *)
ReadDatagram ==
    /\ pc = "read" /\ relay = "open"
    /\ \E a \in Sources, kind \in Kinds, d \in Dests :
          IF AcceptFrom(a)
          THEN /\ clientAddr' = IF clientAddr = NoOne THEN a ELSE clientAddr
               /\ src' = (IF kind = "dns" THEN a ELSE NoOne)
               /\ dst' = (IF kind = "forward" THEN d ELSE NoOne)
               /\ pc' = CASE kind = "dns"     -> "acquire"
                          [] kind = "forward" -> "lookup"
                          [] OTHER            -> "read"
          ELSE UNCHANGED <<clientAddr, src, dst, pc>>
    /\ UNCHANGED <<control, relay, tableVars, cur, toClose, socketVars, reader,
                   dns, replied>>

(* Closed relay.                                                           *)
ReadClosed ==
    /\ pc = "read" /\ relay = "closed"
    /\ pc' = "stopping"
    /\ UNCHANGED <<control, relay, dataVars, clientAddr, tableVars, cur, toClose,
                   socketVars, reader, dns, replied>>

(* udpAssociateIdleTimeout without a datagram from the client.             *)
ReadTimesOut ==
    /\ pc = "read" /\ relay = "open"
    /\ pc' = "stopping"
    /\ UNCHANGED <<control, relay, dataVars, clientAddr, tableVars, cur, toClose,
                   socketVars, reader, dns, replied>>

(* sem <- struct{}{}: the loop blocks while MaxDNS resolutions run.        *)
AcquireDNS ==
    /\ pc = "acquire"
    /\ \E i \in Slots : dns[i] = NoOne /\ dns' = [dns EXCEPT ![i] = src]
    /\ pc' = "read" /\ src' = NoOne
    /\ UNCHANGED <<control, relay, dst, clientAddr, tableVars, cur, toClose,
                   socketVars, reader, replied>>

Lookup ==
    /\ pc = "lookup"
    /\ IF dst \in Registered
       THEN /\ cur' = sessions[dst] /\ older' = Touch(dst) /\ pc' = "send"
       ELSE /\ pc' = "dial" /\ UNCHANGED <<cur, older>>
    /\ UNCHANGED <<control, relay, dataVars, clientAddr, sessions, toClose,
                   socketVars, reader, dns, replied>>

(* DialUpstream outside the lock ...                                       *)
BugConnectedToClient ==
    /\ pc = "dial"
    /\ \E s \in Sockets :
          /\ sock[s] = "unused" /\ \A r \in Sockets : r < s => sock[r] # "unused"
          /\ sock' = [sock EXCEPT ![s] = "open"]
          /\ peer' = [peer EXCEPT ![s] = clientAddr]
          /\ cur' = s
    /\ pc' = "insert"
    /\ UNCHANGED <<control, relay, dataVars, clientAddr, tableVars, toClose,
                   reader, dns, replied>>
Dial ==
    /\ pc = "dial"
    /\ \E s \in Sockets :
          /\ sock[s] = "unused" /\ \A r \in Sockets : r < s => sock[r] # "unused"
          /\ sock' = [sock EXCEPT ![s] = "open"]
          /\ peer' = [peer EXCEPT ![s] = dst]
          /\ cur' = s
    /\ pc' = "insert"
    /\ UNCHANGED <<control, relay, dataVars, clientAddr, tableVars, toClose,
                   reader, dns, replied>>

(* ... or the destination is unreachable and the datagram is dropped.      *)
DialFails ==
    /\ pc = "dial" /\ pc' = "read" /\ dst' = NoOne
    /\ UNCHANGED <<control, relay, src, clientAddr, tableVars, cur, toClose,
                   socketVars, reader, dns, replied>>

(* Second critical section of session: the association cannot have been    *)
(* closed and the destination cannot have been registered meanwhile,       *)
(* because this goroutine does both.                                       *)
BugNoCap ==
    /\ pc = "insert"
    /\ sessions' = [sessions EXCEPT ![dst] = cur]
    /\ older' = Touch(dst)
    /\ pc' = "send"
    /\ reader' = [reader EXCEPT ![cur] = "reading"]
    /\ UNCHANGED <<control, relay, dataVars, clientAddr, cur, toClose, socketVars,
                   dns, replied>>
BugEvictedStaysRegistered ==
    /\ pc = "insert"
    /\ sessions' = [sessions EXCEPT ![dst] = cur]
    /\ older' = Touch(dst)
    /\ IF Cardinality(Registered) < MaxSessions
       THEN pc' = "send" /\ UNCHANGED toClose
       ELSE \E v \in Oldest : toClose' = {sessions[v]} /\ pc' = "evict"
    /\ reader' = [reader EXCEPT ![cur] = "reading"]
    /\ UNCHANGED <<control, relay, dataVars, clientAddr, cur, socketVars,
                   dns, replied>>
Insert ==
    /\ pc = "insert"
    /\ IF Cardinality(Registered) < MaxSessions
       THEN /\ sessions' = [sessions EXCEPT ![dst] = cur]
            /\ older' = Touch(dst)
            /\ pc' = "send" /\ UNCHANGED toClose
       ELSE \E v \in Oldest :
            /\ sessions' = [sessions EXCEPT ![v] = NoSocket, ![dst] = cur]
            /\ older' = {p \in Touch(dst) : p[1] # v /\ p[2] # v}
            /\ toClose' = {sessions[v]} /\ pc' = "evict"
    /\ reader' = [reader EXCEPT ![cur] = "reading"]
    /\ UNCHANGED <<control, relay, dataVars, clientAddr, cur, socketVars,
                   dns, replied>>

(* The evicted socket is closed outside the lock.                          *)
CloseEvicted ==
    /\ pc = "evict"
    /\ sock' = [s \in Sockets |-> IF s \in toClose THEN "closed" ELSE sock[s]]
    /\ toClose' = {} /\ pc' = "send"
    /\ UNCHANGED <<control, relay, dataVars, clientAddr, tableVars, cur, peer,
                   reader, dns, replied>>

Send ==
    /\ pc = "send" /\ pc' = "read" /\ cur' = NoSocket /\ dst' = NoOne
    /\ UNCHANGED <<control, relay, src, clientAddr, tableVars, toClose,
                   socketVars, reader, dns, replied>>

(* run's deferred dnsWG.Wait, then close: the table is emptied under the   *)
(* lock, the sockets are closed after it, the readers are awaited.         *)
BugCloseSkipsDNS ==
    /\ pc = "stopping"
    /\ toClose' = {sessions[d] : d \in Registered}
    /\ sessions' = [d \in Dests |-> NoSocket] /\ older' = {}
    /\ pc' = "closing"
    /\ UNCHANGED <<control, relay, dataVars, clientAddr, cur, socketVars, reader,
                   dns, replied>>
CloseTable ==
    /\ pc = "stopping" /\ \A i \in Slots : dns[i] = NoOne
    /\ toClose' = {sessions[d] : d \in Registered}
    /\ sessions' = [d \in Dests |-> NoSocket] /\ older' = {}
    /\ pc' = "closing"
    /\ UNCHANGED <<control, relay, dataVars, clientAddr, cur, socketVars, reader,
                   dns, replied>>

BugCloseKeepsSockets ==
    /\ pc = "closing" /\ toClose' = {} /\ pc' = "wait"
    /\ UNCHANGED <<control, relay, dataVars, clientAddr, tableVars, cur, socketVars,
                   reader, dns, replied>>
CloseSockets ==
    /\ pc = "closing"
    /\ sock' = [s \in Sockets |-> IF s \in toClose THEN "closed" ELSE sock[s]]
    /\ toClose' = {} /\ pc' = "wait"
    /\ UNCHANGED <<control, relay, dataVars, clientAddr, tableVars, cur, peer,
                   reader, dns, replied>>

Finish ==
    /\ pc = "wait" /\ Running = {}
    /\ relay' = "closed" /\ pc' = "done"
    /\ UNCHANGED <<control, dataVars, clientAddr, tableVars, cur, toClose,
                   socketVars, reader, dns, replied>>

-----------------------------------------------------------------------------
(* readSession, one goroutine per socket                                   *)

(* A reply is wrapped and sent to the pinned client; a closed relay ends   *)
(* the reader.                                                             *)
RelayReply(s) ==
    /\ reader[s] = "reading" /\ sock[s] = "open"
    /\ IF relay = "open"
       THEN /\ replied' = replied \cup {clientAddr}
            /\ UNCHANGED reader
       ELSE /\ reader' = [reader EXCEPT ![s] = "dropping"]
            /\ UNCHANGED replied
    /\ UNCHANGED <<control, relay, pc, dataVars, clientAddr, tableVars, cur,
                   toClose, socketVars, dns>>

(* The socket was closed ...                                               *)
ReaderClosed(s) ==
    /\ reader[s] = "reading" /\ sock[s] = "closed"
    /\ reader' = [reader EXCEPT ![s] = "dropping"]
    /\ UNCHANGED <<control, relay, pc, dataVars, clientAddr, tableVars, cur,
                   toClose, socketVars, dns, replied>>

(* ... or was idle for udpAssociateIdleTimeout, or the destination refused.*)
ReaderExpires(s) ==
    /\ reader[s] = "reading" /\ sock[s] = "open"
    /\ reader' = [reader EXCEPT ![s] = "dropping"]
    /\ UNCHANGED <<control, relay, pc, dataVars, clientAddr, tableVars, cur,
                   toClose, socketVars, dns, replied>>

(* dropSession: only the socket still registered is taken out.             *)
BugDropUnconditional(s) ==
    /\ reader[s] = "dropping"
    /\ sessions' = [sessions EXCEPT ![peer[s]] = NoSocket]
    /\ older' = Forget(peer[s])
    /\ reader' = [reader EXCEPT ![s] = "gone"]
    /\ UNCHANGED <<control, relay, pc, dataVars, clientAddr, cur, toClose,
                   socketVars, dns, replied>>
DropSession(s) ==
    /\ reader[s] = "dropping"
    /\ IF sessions[peer[s]] = s
       THEN /\ sessions' = [sessions EXCEPT ![peer[s]] = NoSocket]
            /\ older' = Forget(peer[s])
       ELSE UNCHANGED tableVars
    /\ reader' = [reader EXCEPT ![s] = "gone"]
    /\ UNCHANGED <<control, relay, pc, dataVars, clientAddr, cur, toClose,
                   socketVars, dns, replied>>

-----------------------------------------------------------------------------
(* A DNS goroutine ends, with an answer or without one (resolveDNS is nil). *)
ResolveDNS(i) ==
    /\ dns[i] # NoOne
    /\ \/ /\ relay = "open"
          /\ replied' = replied \cup {dns[i]}
       \/ UNCHANGED replied
    /\ dns' = [dns EXCEPT ![i] = NoOne]
    /\ UNCHANGED <<control, relay, pc, dataVars, clientAddr, tableVars, cur,
                   toClose, socketVars, reader>>

(* The client closes the control connection; the goroutine that drains it  *)
(* closes the relay.                                                       *)
ControlCloses ==
    /\ control = "open" /\ pc # "done"
    /\ control' = "closed" /\ relay' = "closed"
    /\ UNCHANGED <<pc, dataVars, clientAddr, tableVars, cur, toClose, socketVars,
                   reader, dns, replied>>

Terminated == pc = "done" /\ UNCHANGED vars

ReaderEnd(s) == ReaderClosed(s) \/ ReaderExpires(s) \/ DropSession(s)
LoopStep ==
    \/ ReadClosed \/ AcquireDNS \/ Lookup \/ Dial \/ DialFails \/ Insert
    \/ CloseEvicted \/ Send \/ CloseTable \/ CloseSockets \/ Finish

Next ==
    \/ LoopStep \/ ReadDatagram \/ ReadTimesOut
    \/ \E s \in Sockets : RelayReply(s) \/ ReaderEnd(s)
    \/ \E i \in Slots : ResolveDNS(i)
    \/ ControlCloses \/ Terminated

(* The loop's own steps and dials end (the dialer has a timeout), a        *)
(* resolution ends (dnsUpstreamTimeout), a reader whose socket was closed  *)
(* returns.  No datagram has to arrive and nothing has to go idle.         *)
Fairness ==
    /\ WF_vars(LoopStep)
    /\ \A s \in Sockets : WF_vars(ReaderClosed(s)) /\ WF_vars(DropSession(s))
    /\ \A i \in Slots : WF_vars(ResolveDNS(i))

Spec     == Init /\ [][Next]_vars
FairSpec == Spec /\ Fairness

-----------------------------------------------------------------------------
(* Properties                                                              *)

TypeOK ==
    /\ control \in {"open", "closed"} /\ relay \in {"open", "closed"}
    /\ pc \in {"read", "acquire", "lookup", "dial", "insert", "evict", "send",
               "stopping", "closing", "wait", "done"}
    /\ src \in Sources \cup {NoOne} /\ dst \in Dests \cup {NoOne}
    /\ clientAddr \in Sources \cup {NoOne}
    /\ sessions \in [Dests -> Sockets \cup {NoSocket}]
    /\ older \subseteq Dests \X Dests
    /\ cur \in Sockets \cup {NoSocket} /\ toClose \subseteq Sockets
    /\ sock \in [Sockets -> {"unused", "open", "closed"}]
    /\ peer \in [Sockets -> Dests \cup {NoOne}]
    /\ reader \in [Sockets -> {"none", "reading", "dropping", "gone"}]
    /\ dns \in [Slots -> Sources \cup {NoOne}]
    /\ replied \subseteq Sources \cup {NoOne}

(* maxUDPSessions bounds the table, however evictions, idle sockets and    *)
(* new destinations interleave.                                            *)
TableCapped == Cardinality(Registered) <= MaxSessions

(* What the table says can be written to: a registered socket is open, is  *)
(* connected to the destination it is registered for, and its reader has   *)
(* not yet taken it out.  (A late dropSession must not remove its          *)
(* successor, an evicted socket must not stay registered.)                 *)
RegisteredIsServed ==
    \A d \in Registered :
        /\ sock[sessions[d]] = "open" /\ peer[sessions[d]] = d
        /\ sessions[d] \in Running

(* A reader outside the table sits on a socket that is closed or about to  *)
(* be: no goroutine is left blocked on a socket nobody knows of.           *)
NoStrayReader ==
    \A s \in Sockets :
        (reader[s] = "reading" /\ s \notin {sessions[d] : d \in Registered})
            => (sock[s] = "closed" \/ s \in toClose)

(* "datagrams only from the client that opened the association": answers,  *)
(* DNS or forwarded, go to one address of the authenticated peer.          *)
AnswersOnlyToClient ==
    \A a \in replied : a = clientAddr /\ a \in PeerSources

(* "an association leaves nothing behind": no goroutine outlives it.       *)
NothingRunsAfterDone ==
    pc = "done" => /\ Running = {} /\ Registered = {} /\ relay = "closed"
                   /\ \A i \in Slots : dns[i] = NoOne

(* The table, the sockets and the readers belong together at every step:  *)
(* the four above at once.                                                 *)
TableSound == TableCapped /\ RegisteredIsServed /\ NoStrayReader /\ NothingRunsAfterDone

(* "when the client closes it, or the relay goes idle, the relay is torn   *)
(* down".                                                                  *)
TornDown == (control = "closed" \/ pc = "stopping") ~> (pc = "done")

(* "close tears down every destination socket ... so an association leaves *)
(* nothing behind".                                                        *)
NoSocketLeft == pc = "done" => OpenSockets = {}
=============================================================================
