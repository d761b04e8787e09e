------------------------------ MODULE Connection ------------------------------
(***************************************************************************)
(* The engine's connections: the handshake of each listener mode, the      *)
(* tunnel decision (refuse, splice or intercept) and the loop that answers *)
(* requests through the addon pipeline, while settings and policies are    *)
(* replaced under it by a reload.                                          *)
(*                                                                         *)
(* A step reads the runtime once: whatever the code reads separately (is a *)
(* password demanded, is this one right, is the host excluded, what does   *)
(* the policy say) a reload may come between.  All clients here have the   *)
(* same policy; hosts that other clients' policies exclude are `foreign`.  *)
(***************************************************************************)
EXTENDS Flow, Integers

CONSTANTS
    Conns,      \* connections (connIDs)
    Passwords,  \* credentials
    NoPassword, \* none stored, none presented
    Configs,    \* the settings,
    Policies,   \* the policies that a reload may bring
    ForeignLists,   \* and the hosts that other policies exclude
    Nothing,    \* no upstream contact
    MaxRequests,    \* bound: requests per connection
    MaxChanges      \* bound: reloads

ASSUME PasswordsAssumption == NoPassword \notin Passwords
ASSUME PoliciesAssumption  == Policies # {} /\ Policies \subseteq Policy
                              /\ ForeignLists # {} /\ ForeignLists \subseteq SUBSET Hosts
ASSUME BoundsAssumption    == MaxRequests \in Nat /\ MaxChanges \in Nat

Modes     == {"plain", "connect", "socks5", "socks4", "transparent"}
Gated     == {"connect", "socks5", "socks4"}    \* modes that release their connID
Creds     == Passwords \cup {NoPassword}
Settings  == [on : BOOLEAN, hash : Creds]       \* proxy_auth_enabled, its hash
ASSUME ConfigsAssumption == Configs # {} /\ Configs \subseteq Settings
Request   == RequestOf(Creds)
Contacts  == [kind : {"splice", "fetch", "websocket"}, req : Request]
ASSUME NothingAssumption == Nothing \notin Contacts

VARIABLES
    settings,   \* Runtime.Settings: the proxy authentication
    policy,     \* Runtime.GetPolicy for these clients
    foreign,    \* hosts that other loaded policies exclude
    bypass,     \* Runtime.mitmBypass
    changes,    \* reloads so far
    authed,     \* ProxyAuthGate.authedConns
    pc,         \* per connection: its next step
    mode,       \* listener mode; an HTTP listener serves "plain" and "connect"
    client,     \* what the handshake presents: password, host, dot (port 853)
    captured,   \* the policy a tunnel decision or a request runs under
    req, flow,  \* the request in hand and its FlowContext
    left,       \* requests the client may still send
    unlogged,   \* history variable: requests read minus request rows written
    upstream,   \* history variable: what the current request or tunnel contacted
    since       \* history variable: settings, policies and exclude lists in
                \* force at some time since the connection or request began

runtimeVars == <<settings, policy, foreign, bypass, changes>>
tunnelVars  == <<mode, client>>
requestVars == <<req, flow, left, unlogged>>
vars == <<runtimeVars, authed, pc, tunnelVars, captured, requestVars, upstream, since>>

Clients  == [password : Creds, host : Hosts, dot : BOOLEAN]
Demanded(s)   == s.on /\ s.hash # NoPassword
Accepts(s, p) == p # NoPassword /\ p = s.hash
Now == [settings |-> {settings}, policies |-> {policy}, lists |-> {bypass}]
NoRequest == [host |-> MgmtAddr, onPath |-> FALSE, uaMatch |-> FALSE,
              websocket |-> FALSE, creds |-> NoPassword]
NoClient  == [password |-> NoPassword, host |-> MgmtAddr, dot |-> FALSE]

Init ==
    /\ settings \in Configs /\ policy \in Policies
    /\ foreign \in ForeignLists /\ bypass = policy.exclude \cup foreign
    /\ changes = 0 /\ authed = {}
    /\ pc = [c \in Conns |-> "new"] /\ mode = [c \in Conns |-> "plain"]
    /\ client = [c \in Conns |-> NoClient]
    /\ captured = [c \in Conns |-> policy]
    /\ req = [c \in Conns |-> NoRequest] /\ flow = [c \in Conns |-> NewFlow]
    /\ left = [c \in Conns |-> MaxRequests] /\ unlogged = [c \in Conns |-> 0]
    /\ upstream = [c \in Conns |-> Nothing] /\ since = [c \in Conns |-> Now]

Goto(c, step) == pc' = [pc EXCEPT ![c] = step]

(* The connection's goroutine returns; tunnels release their connID.       *)
BugCloseKeepsID(c) == Goto(c, "closed") /\ UNCHANGED authed
Close(c) ==
    /\ Goto(c, "closed")
    /\ authed' = IF mode[c] \in Gated THEN authed \ {c} ELSE authed

-----------------------------------------------------------------------------
(* Handshakes                                                              *)

Accept(c) ==
    /\ pc[c] = "new"
    /\ \E m \in Modes, d \in Clients :
          /\ m \in {"plain", "transparent", "socks4"} => d.password = NoPassword
          /\ m = "plain" => d = NoClient
          /\ mode' = [mode EXCEPT ![c] = m] /\ client' = [client EXCEPT ![c] = d]
          /\ Goto(c, CASE m = "plain"       -> "request"
                       [] m = "transparent" -> "tunnel"
                       [] m = "connect"     -> "authorize"
                       [] OTHER             -> "greeting")
    /\ since' = [since EXCEPT ![c] = Now]
    /\ UNCHANGED <<runtimeVars, authed, captured, requestVars, upstream>>

(* AuthorizeConnect and AuthorizeSocks: one read of the settings.          *)
Authorized(p) == ~Demanded(settings) \/ Accepts(settings, p)
Handshake(c)  == UNCHANGED <<runtimeVars, tunnelVars, captured, requestVars, upstream, since>>

AuthorizeConnect(c) ==
    /\ pc[c] = "authorize"
    /\ IF Authorized(client[c].password)
       THEN authed' = authed \cup {c} /\ Goto(c, "tunnel")
       ELSE Goto(c, "closed") /\ UNCHANGED authed          \* write407
    /\ Handshake(c)

(* SOCKS5 method selection; the client may not offer the method chosen.    *)
SocksMethod(c) ==
    /\ pc[c] = "greeting" /\ mode[c] = "socks5"
    /\ \/ /\ Demanded(settings) /\ client[c].password # NoPassword
          /\ Goto(c, "password") /\ UNCHANGED authed
       \/ /\ ~Demanded(settings)
          /\ Goto(c, "noauth") /\ UNCHANGED authed
       \/ Close(c)
    /\ Handshake(c)

(* SOCKS4 cannot carry a password and is refused where one is demanded.    *)
Socks4Gate(c) ==
    /\ pc[c] = "greeting" /\ mode[c] = "socks4"
    /\ IF Demanded(settings) THEN Close(c) ELSE Goto(c, "noauth") /\ UNCHANGED authed
    /\ Handshake(c)

SocksPassword(c) ==
    /\ pc[c] = "password"
    /\ IF Authorized(client[c].password)
       THEN authed' = authed \cup {c} /\ Goto(c, "command")
       ELSE Close(c)
    /\ Handshake(c)

(* Without a password AuthorizeSocks is called for its bookkeeping; that   *)
(* it may refuse by now is not looked at.                                  *)
SocksNoAuth(c) ==
    /\ pc[c] = "noauth"
    /\ authed' = IF Authorized(NoPassword) THEN authed \cup {c} ELSE authed
    /\ Goto(c, "command")
    /\ Handshake(c)

(* CONNECT goes on to the tunnel.  UDP ASSOCIATE runs the relay (UdpRelay) *)
(* and any other command is answered; both end the connection.             *)
SocksCommand(c) ==
    /\ pc[c] = "command"
    /\ \/ Goto(c, "tunnel") /\ UNCHANGED authed
       \/ Close(c)
    /\ Handshake(c)

-----------------------------------------------------------------------------
(* handleTunnel                                                            *)

Capture(c) == captured' = [captured EXCEPT ![c] = policy]
InTunnel(c) == UNCHANGED <<runtimeVars, tunnelVars, requestVars, since>>

(* DNS over TLS is refused where the policy filters DNS, never intercepted.*)
DoTGate(c) ==
    /\ pc[c] = "tunnel" /\ client[c].dot
    /\ Capture(c)
    /\ IF "doh" \in policy.filters THEN Close(c)
       ELSE Goto(c, "hostgate") /\ UNCHANGED authed
    /\ UNCHANGED upstream
    /\ InTunnel(c)

(* Excluded hosts are spliced, all others intercepted.  The readiness      *)
(* reply may fail.                                                         *)
BugSpliceFailsOpen(c) ==
    /\ pc[c] = "tunnel" /\ ~client[c].dot
    /\ \/ Goto(c, "bypass") /\ UNCHANGED authed
       \/ client[c].host \notin bypass /\ Goto(c, "request") /\ UNCHANGED authed
       \/ client[c].host \notin bypass /\ Close(c)
    /\ UNCHANGED <<captured, upstream>>
    /\ InTunnel(c)
CheckBypass(c) ==
    /\ pc[c] = "tunnel" /\ ~client[c].dot
    /\ \/ client[c].host \in bypass /\ Goto(c, "bypass") /\ UNCHANGED authed
       \/ client[c].host \notin bypass /\ Goto(c, "request") /\ UNCHANGED authed
       \/ client[c].host \notin bypass /\ Close(c)
    /\ UNCHANGED <<captured, upstream>>
    /\ InTunnel(c)

SpliceContact(c) ==
    upstream' = [upstream EXCEPT ![c] =
        [kind |-> "splice", req |-> [NoRequest EXCEPT !.host = client[c].host]]]

(* The host gate under policy p: refuse, or dial and splice.               *)
HostGate(c, p) ==
    \/ /\ ~HostBlocked(p, client[c].host)
       /\ SpliceContact(c) /\ Goto(c, "spliced") /\ UNCHANGED authed
    \/ UNCHANGED upstream /\ Close(c)       \* refused, or the dial failed

SpliceExcluded(c) ==
    /\ pc[c] = "bypass" /\ HostGate(c, policy) /\ Capture(c) /\ InTunnel(c)
SpliceDoT(c) ==
    /\ pc[c] = "hostgate" /\ HostGate(c, captured[c])
    /\ UNCHANGED captured /\ InTunnel(c)

-----------------------------------------------------------------------------
(* serveRequestLoop and handleOneRequest                                   *)

(* A plain request that is not for an absolute URI gets a 400.             *)
BadRequest(c) ==
    /\ pc[c] = "request" /\ mode[c] = "plain" /\ left[c] > 0
    /\ left' = [left EXCEPT ![c] = @ - 1]
    /\ UNCHANGED <<runtimeVars, authed, pc, tunnelVars, captured, req, flow,
                   unlogged, upstream, since>>

(* The request names its host itself, inside a tunnel too.                 *)
ReadRequest(c) ==
    /\ pc[c] = "request" /\ left[c] > 0
    /\ left' = [left EXCEPT ![c] = @ - 1]
    /\ \E r \in Request :
          /\ req' = [req EXCEPT ![c] = r]
          /\ flow' = [flow EXCEPT ![c] = ManagementAccess(NewFlow, r)]
    /\ unlogged' = [unlogged EXCEPT ![c] = @ + 1]
    /\ upstream' = [upstream EXCEPT ![c] = Nothing]
    /\ since' = [since EXCEPT ![c] = Now]
    /\ Goto(c, "gate")
    /\ UNCHANGED <<runtimeVars, authed, tunnelVars, captured>>

InRequest(c) == UNCHANGED <<runtimeVars, tunnelVars, req, left, since>>

(* ProxyAuthGate.HandleRequest: enabled and authedConns, then the password *)
(* against the settings read again.                                        *)
BugGateSkipsTunnels(c) ==
    /\ pc[c] = "gate"
    /\ Goto(c, IF flow[c].allowed \/ ~Demanded(settings) \/ mode[c] # "plain"
               THEN "filter" ELSE "challenge")
    /\ UNCHANGED <<authed, captured, flow, unlogged, upstream>>
    /\ InRequest(c)
AuthGate(c) ==
    /\ pc[c] = "gate"
    /\ Goto(c, IF flow[c].allowed \/ ~Demanded(settings) \/ c \in authed
               THEN "filter" ELSE "challenge")
    /\ UNCHANGED <<authed, captured, flow, unlogged, upstream>>
    /\ InRequest(c)

BugChallengeRetries(c) ==
    /\ pc[c] = "challenge"
    /\ Goto(c, IF Accepts(settings, req[c].creds) THEN "filter" ELSE "gate")
    /\ UNCHANGED <<authed, captured, flow, unlogged, upstream>>
    /\ InRequest(c)
Challenge(c) ==
    /\ pc[c] = "challenge"
    /\ flow' = IF Accepts(settings, req[c].creds) THEN flow
               ELSE [flow EXCEPT ![c].response = "challenge"]
    /\ Goto(c, "filter")
    /\ UNCHANGED <<authed, captured, unlogged, upstream>>
    /\ InRequest(c)

(* PolicyRouter takes the policy, the request filters run under it.  A     *)
(* request they answered is not forwarded.                                 *)
Filter(c) ==
    /\ pc[c] = "filter"
    /\ Capture(c)
    /\ \E x \in RequestVerdicts :
          flow' = [flow EXCEPT ![c] = RequestFilters(@, policy, req[c], x)]
    /\ Goto(c, IF flow'[c].response = "none" THEN "forward" ELSE "respond")
    /\ UNCHANGED <<authed, unlogged, upstream>>
    /\ InRequest(c)

Contact(c, kind) ==
    upstream' = [upstream EXCEPT ![c] = [kind |-> kind, req |-> req[c]]]

(* A WebSocket upgrade hijacks the connection: dial, replay, and splice    *)
(* after a 101.                                                            *)
ForwardWebSocket(c) ==
    /\ pc[c] = "forward" /\ req[c].websocket
    /\ Contact(c, "websocket")
    /\ \/ Goto(c, "spliced") /\ UNCHANGED authed
       \/ Close(c)
    /\ UNCHANGED <<captured, flow, unlogged>>
    /\ InRequest(c)

LogRequest(c) == unlogged' = [unlogged EXCEPT ![c] = @ - 1]

(* RoundTrip; its failure runs the error addons and answers 502.           *)
BugErrorAlsoResponds(c) ==
    /\ pc[c] = "forward" /\ ~req[c].websocket
    /\ Contact(c, "fetch")
    /\ \/ flow' = [flow EXCEPT ![c].response = "origin"] /\ UNCHANGED unlogged
       \/ LogRequest(c) /\ UNCHANGED flow
    /\ Goto(c, "respond")
    /\ UNCHANGED <<authed, captured>>
    /\ InRequest(c)
Fetch(c) ==
    /\ pc[c] = "forward" /\ ~req[c].websocket
    /\ Contact(c, "fetch")
    /\ \/ /\ flow' = [flow EXCEPT ![c].response = "origin"]
          /\ Goto(c, "respond") /\ UNCHANGED unlogged
       \/ Goto(c, "request") /\ LogRequest(c) /\ UNCHANGED flow
    /\ UNCHANGED <<authed, captured>>
    /\ InRequest(c)

Respond(c) ==
    /\ pc[c] = "respond"
    /\ \E y \in ResponseVerdicts :
          flow' = [flow EXCEPT ![c] = ResponseFilters(@, captured[c], y)]
    /\ LogRequest(c)
    /\ Goto(c, "request")
    /\ UNCHANGED <<authed, captured, upstream>>
    /\ InRequest(c)

(* The client hangs up, or the request asked for it; a splice ends.        *)
Hangup(c) ==
    /\ pc[c] \in {"greeting", "password", "command", "request", "spliced"}
    /\ Close(c)
    /\ UNCHANGED <<runtimeVars, tunnelVars, captured, requestVars, upstream, since>>

-----------------------------------------------------------------------------
(* Reloads: settings, and policies before the exclude list                 *)

Reload ==
    /\ since' = [c \in Conns |->
          [settings |-> since[c].settings \cup {settings'},
           policies |-> since[c].policies \cup {policy'},
           lists    |-> since[c].lists \cup {bypass'}]]
    /\ UNCHANGED <<authed, pc, tunnelVars, captured, requestVars, upstream>>

ApplySettings ==
    /\ changes < MaxChanges /\ changes' = changes + 1
    /\ settings' \in Configs
    /\ UNCHANGED <<policy, foreign, bypass>>
    /\ Reload

StorePolicies ==
    /\ changes < MaxChanges /\ changes' = changes + 1
    /\ bypass = policy.exclude \cup foreign
    /\ policy' \in Policies /\ foreign' \in ForeignLists
    /\ UNCHANGED <<settings, bypass>>
    /\ Reload

StoreBypass ==
    /\ bypass # policy.exclude \cup foreign
    /\ bypass' = policy.exclude \cup foreign
    /\ UNCHANGED <<settings, policy, foreign, changes>>
    /\ Reload

(* Steps the engine takes by itself; the others wait for the client.       *)
ClientStep(c) ==
    \/ Accept(c) \/ SocksMethod(c) \/ Socks4Gate(c) \/ SocksPassword(c) \/ SocksCommand(c)
    \/ BadRequest(c) \/ ReadRequest(c) \/ Hangup(c)
Progress(c) ==
    \/ AuthorizeConnect(c) \/ SocksNoAuth(c)
    \/ DoTGate(c) \/ CheckBypass(c) \/ SpliceExcluded(c) \/ SpliceDoT(c)
    \/ AuthGate(c) \/ Challenge(c) \/ Filter(c)
    \/ ForwardWebSocket(c) \/ Fetch(c) \/ Respond(c)

Terminated == (\A c \in Conns : pc[c] = "closed") /\ UNCHANGED vars

Next ==
    \/ \E c \in Conns : ClientStep(c) \/ Progress(c)
    \/ ApplySettings \/ StorePolicies \/ StoreBypass
    \/ Terminated

(* Goroutines run, upstream timeouts end every dial and fetch, and a       *)
(* client reads what it is sent.  Nothing makes a client send.             *)
Fairness == \A c \in Conns : WF_vars(Progress(c))

Spec     == Init /\ [][Next]_vars
FairSpec == Spec /\ Fairness

-----------------------------------------------------------------------------
(* Properties                                                              *)

Steps == {"new", "authorize", "greeting", "password", "noauth", "command", "tunnel", "bypass",
          "hostgate", "spliced", "request", "gate", "challenge", "filter", "forward",
          "respond", "closed"}

TypeOK ==
    /\ settings \in Settings /\ policy \in Policy
    /\ foreign \subseteq Hosts /\ bypass \subseteq Hosts /\ changes \in Nat
    /\ authed \subseteq Conns
    /\ pc \in [Conns -> Steps]
    /\ mode \in [Conns -> Modes] /\ client \in [Conns -> Clients]
    /\ captured \in [Conns -> Policy]
    /\ req \in [Conns -> Request] /\ flow \in [Conns -> FlowType]
    /\ left \in [Conns -> Nat] /\ unlogged \in [Conns -> 0..1]
    /\ upstream \in [Conns -> Contacts \cup {Nothing}]
    /\ since \in [Conns -> [settings : SUBSET Settings, policies : SUBSET Policy,
                            lists : SUBSET SUBSET Hosts]]

Contacted(c) == upstream'[c] # upstream[c] /\ upstream'[c] # Nothing

(* A connection is remembered as authenticated only if, since it began,    *)
(* there was a time when no password was demanded or the one its handshake *)
(* presented was right.                                                    *)
AuthedOnGrounds ==
    [][\A c \in Conns : c \in authed' \ authed =>
          \E s \in since[c].settings : ~Demanded(s) \/ Accepts(s, client[c].password)]_vars

(* Nothing is sent upstream for a client that had to authenticate and did  *)
(* not: whatever its protocol, the connection is authenticated, or this    *)
(* request carries the right password, or none was demanded at some time   *)
(* since the request (the splice: the connection) began.  Exempt are the   *)
(* management port and the splices of transparent mode.                    *)
UpstreamAuthenticated ==
    [][\A c \in Conns : Contacted(c) =>
          LET u == upstream'[c] IN
          \/ c \in authed
          \/ \E s \in since[c].settings : ~Demanded(s) \/ Accepts(s, u.req.creds)
          \/ u.kind = "splice" /\ mode[c] = "transparent"
          \/ u.kind # "splice" /\ u.req.host = MgmtAddr]_vars

(* What a policy lets out: of a splice only the host is known.             *)
Permits(p, u, dot) ==
    IF u.kind = "splice"
    THEN /\ NotIncluded(p, u.req.host) \/ p.url[u.req.host] # "block"
         /\ ~(dot /\ "doh" \in p.filters)
    ELSE \/ u.req.host = MgmtAddr \/ NotIncluded(p, u.req.host)
         \/ p.uaRule /\ u.req.uaMatch
         \/ UrlVerdict(p, u.req) # "block"

(* What is blocked is not reached, on any way out (splice, fetch, Web-     *)
(* Socket), whatever is reloaded meanwhile: a policy in force since the    *)
(* request or connection began lets the contact pass, and a request that   *)
(* any filter has refused is not forwarded.                                *)
BlockedNeverReached ==
    [][\A c \in Conns : Contacted(c) =>
          /\ \E p \in since[c].policies : Permits(p, upstream'[c], client[c].dot)
          /\ upstream'[c].kind # "splice" => flow[c].blocks = 0]_vars

(* No host is spliced past the filters unless an exclude list in force     *)
(* since the connection began has it, or it is DNS over TLS.               *)
SplicedOnlyIfExcluded ==
    [][\A c \in Conns : (Contacted(c) /\ upstream'[c].kind = "splice") =>
          \/ client[c].dot
          \/ \E l \in since[c].lists : upstream'[c].req.host \in l]_vars

(* A flow that a rule exempts is neither blocked nor changed by any filter.*)
ExemptUntouched ==
    \A c \in Conns : Exempt(flow[c]) =>
        /\ flow[c].blocks = 0 /\ ~flow[c].edited /\ ~flow[c].trimmed /\ flow[c].action = ""
        /\ flow[c].response \notin {"block", "empty"}

(* What the request log shows as "ok" was neither blocked nor rewritten by *)
(* SafeSearch, a classifier or the YouTube filter's blocking.              *)
OkMeansUnedited ==
    \A c \in Conns : flow[c].action = "" => flow[c].blocks = 0 /\ ~flow[c].edited

(* Nobody is remembered as authenticated, or served, without grounds.      *)
OnlyAuthenticated == AuthedOnGrounds /\ UpstreamAuthenticated

(* Verdicts and what is done agree, in both directions.                    *)
VerdictsKept == ExemptUntouched /\ OkMeansUnedited

(* Every answered request has its one row by the time the next is read,    *)
(* whether a filter, the origin or an error answered it.                   *)
OneRowPerRequest ==
    \A c \in Conns :
        /\ pc[c] = "request" => unlogged[c] = 0
        /\ pc[c] \in {"gate", "challenge", "filter", "forward", "respond"} => unlogged[c] = 1

(* A connection that has ended leaves nothing in authedConns.              *)
AuthReleased ==
    \A c \in Conns : c \in authed => pc[c] # "closed" /\ mode[c] \in Gated

(* The engine never keeps a client waiting: whatever a client has sent     *)
(* comes to an answer, a splice or the end of the connection.              *)
Waiting == {"new", "greeting", "password", "command", "spliced", "request", "closed"}
AnswersEventually == \A c \in Conns : pc[c] \notin Waiting ~> pc[c] \in Waiting

(* "the final decision RequestLogger records": a request with a block row  *)
(* is logged as blocked.                                                   *)
BlockedRowSaysBlocked ==
    \A c \in Conns : (pc[c] = "request" /\ flow[c].blocks > 0) => flow[c].action = "blocked"

(* "RequestLogger logs every request".                                     *)
EveryRequestLogged == \A c \in Conns : pc[c] = "closed" => unlogged[c] = 0

(* handleTunnel is "entered once the target host is resolved and the       *)
(* client has been authenticated".                                         *)
TunnelAuthenticated ==
    \A c \in Conns : (pc[c] = "tunnel" /\ \A s \in since[c].settings : Demanded(s))
        => c \in authed
===============================================================================
