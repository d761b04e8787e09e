-------------------------- MODULE Connection_proofs --------------------------
(***************************************************************************)
(* Proofs about Connection for any connections, hosts, passwords and       *)
(* policies and any number of requests and reloads: who is remembered as   *)
(* authenticated, what may be sent upstream for whom, and what the filters *)
(* and the request log guarantee.                                          *)
(*                                                                         *)
(* The invariant speaks of one connection at a time (ConnInv); a step of   *)
(* another connection leaves it alone, a reload only adds to `since`.      *)
(***************************************************************************)
EXTENDS Connection, TLAPS

-----------------------------------------------------------------------------
(* The pipeline: what the addons do to any flow, under any policy and      *)
(* whatever the lists, resolvers and classifiers answer.                   *)

(* No filter has touched the flow yet.                                     *)
Fresh(f) == /\ f.blocks = 0 /\ ~f.edited /\ ~f.trimmed /\ f.action = ""
            /\ f.response \notin {"block", "empty"}

(* What stays true of a flow from filter to filter: an exempt one is       *)
(* untouched, "ok" means untouched, and one that is to be forwarded has no *)
(* block row.                                                              *)
Sound(f) == /\ f \in FlowType
            /\ Exempt(f) => Fresh(f)
            /\ f.action = "" => f.blocks = 0 /\ ~f.edited
            /\ f.response = "none" => f.blocks = 0

(* One filter leads from f to g: g is sound and no answer was taken back.  *)
FilterStep(f, g) == Sound(g) /\ (g.response = "none" => f.response = "none")

LEMMA BlocksCount == ASSUME NEW f \in FlowType PROVE f.blocks + 1 \in Nat
<1>1. f.blocks \in Nat
  BY DEF FlowType
<1>. QED
  BY <1>1

LEMMA ActionFacts ==
    ASSUME NEW f \in FlowType, Sound(f), ~Exempt(f)
    PROVE  /\ FilterStep(f, Block(f)) /\ Block(f).response = "block"
           /\ FilterStep(f, BlockEmpty(f)) /\ FilterStep(f, Modify(f))
           /\ FilterStep(f, Trim(f))
           /\ f.response # "none" => FilterStep(f, [LogBlock(f) EXCEPT !.edited = TRUE])
<1>1. f.blocks + 1 \in Nat
  BY BlocksCount
<1>. USE DEF FlowType, Sound, Exempt, FilterStep, LogBlock
<1>2. FilterStep(f, Block(f)) /\ Block(f).response = "block"
  BY <1>1 DEF Block
<1>3. FilterStep(f, BlockEmpty(f))
  BY <1>1 DEF BlockEmpty
<1>4. FilterStep(f, Modify(f))
  BY DEF Modify
<1>5. f.response # "none" => FilterStep(f, [LogBlock(f) EXCEPT !.edited = TRUE])
  BY <1>1
<1>6. FilterStep(f, Trim(f))
  BY DEF Trim
<1>. QED
  BY <1>2, <1>3, <1>4, <1>5, <1>6

LEMMA SoundStays == ASSUME NEW f, Sound(f) PROVE FilterStep(f, f)
BY DEF FilterStep

-----------------------------------------------------------------------------
(* Request phase                                                           *)

LEMMA ManagementSound ==
    ASSUME NEW r PROVE /\ ManagementAccess(NewFlow, r) \in FlowType
                       /\ Fresh(ManagementAccess(NewFlow, r))
                       /\ Sound(ManagementAccess(NewFlow, r))
                       /\ ManagementAccess(NewFlow, r).allowed =>
                             ManagementAccess(NewFlow, r).passthrough
BY DEF ManagementAccess, NewFlow, FlowType, Fresh, Sound, Exempt

LEMMA MitmControlSound ==
    ASSUME NEW f \in FlowType, Fresh(f), NEW p \in Policy, NEW C, NEW r \in RequestOf(C)
    PROVE  /\ FilterStep(f, MitmControl(f, p, r))
           /\ MitmControl(f, p, r).passthrough =>
                 f.passthrough \/ NotIncluded(p, r.host) \/ (p.uaRule /\ r.uaMatch)
<1>1. NotIncluded(p, r.host) \in BOOLEAN /\ (p.uaRule /\ r.uaMatch) \in BOOLEAN
  BY DEF NotIncluded, Policy, RequestOf
<1>. QED
  BY <1>1 DEF FlowType, Fresh, Sound, Exempt, FilterStep, MitmControl

LEMMA UrlFilterSound ==
    ASSUME NEW f \in FlowType, Sound(f), Fresh(f), f.allowed => f.passthrough, NEW p, NEW r
    PROVE  /\ FilterStep(f, UrlFilter(f, p, r))
           /\ UrlFilter(f, p, r).response = "none" =>
                 f.passthrough \/ UrlVerdict(p, r) # "block"
<1>1. CASE f.passthrough
  <2>1. UrlFilter(f, p, r) = f
    BY <1>1 DEF UrlFilter
  <2>. QED
    BY <1>1, <2>1, SoundStays
<1>2. CASE ~f.passthrough /\ UrlVerdict(p, r) = "allow"
  BY <1>2 DEF UrlFilter, FlowType, Fresh, Sound, Exempt, FilterStep
<1>3. CASE ~f.passthrough /\ UrlVerdict(p, r) = "block"
  <2>1. UrlFilter(f, p, r) = Block(f)
    BY <1>3 DEF UrlFilter
  <2>2. Sound(Block(f)) /\ Block(f).response = "block"
    BY <1>3, BlocksCount DEF Block, LogBlock, FlowType, Fresh, Sound, Exempt
  <2>. QED
    BY <2>1, <2>2 DEF FilterStep
<1>4. CASE ~f.passthrough /\ UrlVerdict(p, r) \notin {"allow", "block"}
  BY <1>4, SoundStays DEF UrlFilter
<1>. QED
  BY <1>1, <1>2, <1>3, <1>4

LEMMA AdblockSound ==
    ASSUME NEW f \in FlowType, Sound(f), NEW p, NEW v
    PROVE  FilterStep(f, Adblock(f, p, v))
<1>1. \/ Adblock(f, p, v) = f
      \/ ~Exempt(f) /\ Adblock(f, p, v) = Block(f)
      \/ ~Exempt(f) /\ Adblock(f, p, v) = BlockEmpty(f)
  BY DEF Adblock
<1>. QED
  BY <1>1, ActionFacts, SoundStays

LEMMA DohFilterSound ==
    ASSUME NEW f \in FlowType, Sound(f), NEW p, NEW v
    PROVE  FilterStep(f, DohFilter(f, p, v))
BY ActionFacts, SoundStays DEF DohFilter

LEMMA SafeSearchSound ==
    ASSUME NEW f \in FlowType, Sound(f), NEW p, NEW v
    PROVE  FilterStep(f, SafeSearch(f, p, v))
<1>1. \/ SafeSearch(f, p, v) = f
      \/ ~Exempt(f) /\ SafeSearch(f, p, v) = Block(f)
      \/ ~Exempt(f) /\ SafeSearch(f, p, v) = Modify(f)
  BY DEF SafeSearch
<1>. QED
  BY <1>1, ActionFacts, SoundStays

(* The request filters keep a flow sound, take back no answer, and let     *)
(* only that through which the policy's URL rules permit or do not apply   *)
(* to.                                                                     *)
LEMMA RequestFiltersSound ==
    ASSUME NEW f \in FlowType, Fresh(f), f.allowed => f.passthrough, NEW p \in Policy,
           NEW C, NEW r \in RequestOf(C), NEW x
    PROVE  LET g == RequestFilters(f, p, r, x) IN
           /\ FilterStep(f, g)
           /\ g.response = "none" =>
                 \/ f.passthrough \/ NotIncluded(p, r.host) \/ (p.uaRule /\ r.uaMatch)
                 \/ UrlVerdict(p, r) # "block"
<1>. DEFINE f0 == MitmControl(f, p, r)
            f1 == UrlFilter(f0, p, r)
            f2 == Adblock(f1, p, x.adblock)
            f3 == DohFilter(f2, p, x.doh)
            g  == SafeSearch(f3, p, x.safe)
<1>1. FilterStep(f, f0)
  BY MitmControlSound
<1>2. f0 \in FlowType /\ Sound(f0) /\ Fresh(f0) /\ (f0.allowed => f0.passthrough)
  BY <1>1 DEF FilterStep, Sound, Fresh, MitmControl, FlowType
<1>3. FilterStep(f0, f1)
  BY <1>2, UrlFilterSound
<1>4. f1 \in FlowType /\ Sound(f1)
  BY <1>3 DEF FilterStep, Sound
<1>5. FilterStep(f1, f2)
  BY <1>4, AdblockSound
<1>6. f2 \in FlowType /\ Sound(f2)
  BY <1>5 DEF FilterStep, Sound
<1>7. FilterStep(f2, f3)
  BY <1>6, DohFilterSound
<1>8. f3 \in FlowType /\ Sound(f3)
  BY <1>7 DEF FilterStep, Sound
<1>9. FilterStep(f3, g)
  BY <1>8, SafeSearchSound
<1>10. g.response = "none" => f1.response = "none"
  BY <1>5, <1>7, <1>9 DEF FilterStep
<1>11. FilterStep(f, g)
  BY <1>1, <1>3, <1>9, <1>10 DEF FilterStep
<1>12. f1.response = "none" => f0.passthrough \/ UrlVerdict(p, r) # "block"
  BY <1>2, UrlFilterSound
<1>13. f0.passthrough => f.passthrough \/ NotIncluded(p, r.host) \/ (p.uaRule /\ r.uaMatch)
  BY MitmControlSound
<1>14. g = RequestFilters(f, p, r, x)
  BY DEF RequestFilters
<1>. HIDE DEF g, f0, f1, f2, f3
<1>. QED
  BY <1>10, <1>11, <1>12, <1>13, <1>14

-----------------------------------------------------------------------------
(* Response phase                                                          *)

LEMMA TrimmersSound ==
    ASSUME NEW f \in FlowType, Sound(f), NEW p, NEW v
    PROVE  FilterStep(f, AdblockCosmetic(f, p, v)) /\ FilterStep(f, QuicBlocker(f, p, v))
BY ActionFacts, SoundStays DEF AdblockCosmetic, QuicBlocker

LEMMA YouTubeFilterSound ==
    ASSUME NEW f \in FlowType, Sound(f), NEW p, NEW v
    PROVE  FilterStep(f, YouTubeFilter(f, p, v))
<1>1. \/ YouTubeFilter(f, p, v) = f
      \/ ~Exempt(f) /\ YouTubeFilter(f, p, v) = Block(f)
      \/ ~Exempt(f) /\ YouTubeFilter(f, p, v) = Trim(f)
      \/ /\ ~Exempt(f) /\ f.response # "none"
         /\ YouTubeFilter(f, p, v) = [LogBlock(f) EXCEPT !.edited = TRUE]
  BY DEF YouTubeFilter
<1>. QED
  BY <1>1, ActionFacts, SoundStays

LEMMA TextClassifierSound ==
    ASSUME NEW f \in FlowType, Sound(f), NEW p, NEW v
    PROVE  FilterStep(f, TextClassifier(f, p, v))
<1>1. \/ TextClassifier(f, p, v) = f
      \/ ~Exempt(f) /\ TextClassifier(f, p, v) = Block(f)
      \/ ~Exempt(f) /\ TextClassifier(f, p, v) = Modify(f)
  BY DEF TextClassifier
<1>. QED
  BY <1>1, ActionFacts, SoundStays

LEMMA ImageClassifierSound ==
    ASSUME NEW f \in FlowType, Sound(f), NEW p, NEW v
    PROVE  FilterStep(f, ImageClassifier(f, p, v))
BY ActionFacts, SoundStays DEF ImageClassifier

LEMMA ResponseFiltersSound ==
    ASSUME NEW f \in FlowType, Sound(f), NEW p, NEW y
    PROVE  Sound(ResponseFilters(f, p, y))
<1>. DEFINE f0 == AdblockCosmetic(f, p, y.cosmetic)
            f1 == QuicBlocker(f0, p, y.altSvc)
            f2 == YouTubeFilter(f1, p, y.youtube)
            f3 == TextClassifier(f2, p, y.text)
            f4 == ImageClassifier(f3, p, y.image)
<1>1. f0 \in FlowType /\ Sound(f0)
  BY TrimmersSound DEF FilterStep, Sound
<1>2. f1 \in FlowType /\ Sound(f1)
  BY <1>1, TrimmersSound DEF FilterStep, Sound
<1>3. f2 \in FlowType /\ Sound(f2)
  BY <1>2, YouTubeFilterSound DEF FilterStep, Sound
<1>4. f3 \in FlowType /\ Sound(f3)
  BY <1>3, TextClassifierSound DEF FilterStep, Sound
<1>5. Sound(f4)
  BY <1>4, ImageClassifierSound DEF FilterStep
<1>6. f4 = ResponseFilters(f, p, y)
  BY DEF ResponseFilters
<1>. HIDE DEF f4
<1>. QED
  BY <1>5, <1>6

-----------------------------------------------------------------------------
(* The connections                                                         *)

LEMMA ConstantFacts ==
    /\ NoRequest \in Request /\ NoClient \in Clients /\ NoPassword \in Creds
    /\ NewFlow \in FlowType /\ Policies \subseteq Policy
    /\ Configs \subseteq Settings /\ ForeignLists \subseteq SUBSET Hosts
    /\ MgmtAddr \in Hosts /\ MgmtAddr # MgmtName
BY HostsAssumption, PoliciesAssumption, ConfigsAssumption
   DEF NoRequest, Request, RequestOf, NoClient, Clients, Creds, NewFlow, FlowType

-----------------------------------------------------------------------------
(* The invariant                                                           *)

InPipeline == {"gate", "challenge", "filter", "forward", "respond"}

(* What is in force now is among what was in force since.                  *)
CurrentIsSince(c) ==
    /\ settings \in since[c].settings /\ policy \in since[c].policies
    /\ bypass \in since[c].lists

(* authedConns holds running tunnels only.                                 *)
AuthedPart(c) ==
    /\ pc[c] \in {"authorize", "greeting", "password", "noauth", "command"} => mode[c] \in Gated
    /\ c \in authed => pc[c] \notin {"new", "authorize", "closed"} /\ mode[c] \in Gated

(* Why a tunnel was let in, and what its decision rests on.                *)
TunnelPart(c) ==
    /\ pc[c] \in {"noauth", "command", "tunnel", "bypass", "hostgate"} =>
          \/ mode[c] = "transparent" \/ c \in authed
          \/ \E s \in since[c].settings : ~Demanded(s)
    /\ pc[c] = "bypass" => ~client[c].dot /\ \E l \in since[c].lists : client[c].host \in l
    /\ pc[c] = "hostgate" => /\ client[c].dot /\ captured[c] \in since[c].policies
                             /\ "doh" \notin captured[c].filters

(* Why a request that nothing has answered yet may be forwarded.           *)
Grounds(c) ==
    \/ c \in authed \/ req[c].host = MgmtAddr
    \/ \E s \in since[c].settings : ~Demanded(s) \/ Accepts(s, req[c].creds)

Unblocked(p, r) ==
    \/ r.host = MgmtAddr \/ NotIncluded(p, r.host) \/ (p.uaRule /\ r.uaMatch)
    \/ UrlVerdict(p, r) # "block"

RequestPart(c) ==
    /\ Sound(flow[c])
    /\ pc[c] \notin InPipeline \cup {"spliced", "closed"} => unlogged[c] = 0
    /\ pc[c] \in InPipeline => unlogged[c] = 1
    /\ pc[c] \in {"gate", "challenge", "filter"} =>
          /\ Fresh(flow[c]) /\ flow[c].allowed = flow[c].passthrough
          /\ flow[c].allowed => req[c].host \in {MgmtName, MgmtAddr}
          /\ flow[c].response = "none" => req[c].host # MgmtName
    /\ (pc[c] = "filter" /\ flow[c].response = "none") => Grounds(c)
    /\ pc[c] = "challenge" => ~flow[c].allowed
    /\ pc[c] = "forward" =>
          /\ flow[c].response = "none" /\ Grounds(c)
          /\ captured[c] \in since[c].policies /\ Unblocked(captured[c], req[c])

ConnInv(c) == CurrentIsSince(c) /\ AuthedPart(c) /\ TunnelPart(c) /\ RequestPart(c)
IInv == TypeOK /\ \A c \in Conns : ConnInv(c)

USE DEF runtimeVars, tunnelVars, requestVars

LEMMA InitInv == Init => IInv
<1>. SUFFICES ASSUME Init PROVE IInv
  OBVIOUS
<1>1. TypeOK
  <2>1. settings \in Settings /\ policy \in Policy /\ foreign \subseteq Hosts
    BY ConstantFacts DEF Init
  <2>2. bypass \subseteq Hosts
    BY <2>1 DEF Init, Policy
  <2>3. since \in [Conns -> [settings : SUBSET Settings, policies : SUBSET Policy,
                           lists : SUBSET SUBSET Hosts]]
    BY <2>1, <2>2 DEF Init, Now
  <2>4. captured \in [Conns -> Policy] /\ mode \in [Conns -> Modes]
    BY <2>1 DEF Init, Modes
  <2>. QED
    BY <2>1, <2>2, <2>3, <2>4, ConstantFacts, BoundsAssumption DEF Init, TypeOK, Steps
<1>2. Sound(NewFlow)
  BY DEF Sound, NewFlow, FlowType, Exempt
<1>3. ASSUME NEW c \in Conns PROVE ConnInv(c)
  BY <1>2 DEF Init, ConnInv, CurrentIsSince, AuthedPart, TunnelPart, RequestPart, Now, InPipeline
<1>. QED
  BY <1>1, <1>3 DEF IInv

(* A step of one connection leaves the others' part of the invariant.      *)
Untouched(d) ==
    /\ pc'[d] = pc[d] /\ mode'[d] = mode[d] /\ client'[d] = client[d]
    /\ captured'[d] = captured[d] /\ req'[d] = req[d] /\ flow'[d] = flow[d]
    /\ unlogged'[d] = unlogged[d] /\ since'[d] = since[d]
    /\ (d \in authed') = (d \in authed)

LEMMA OthersKeep ==
    ASSUME NEW d, ConnInv(d), Untouched(d), UNCHANGED <<settings, policy, bypass>>
    PROVE  ConnInv(d)'
<1>1. CurrentIsSince(d)' /\ AuthedPart(d)'
  BY DEF ConnInv, Untouched, CurrentIsSince, AuthedPart
<1>2. TunnelPart(d)'
  BY DEF ConnInv, Untouched, TunnelPart
<1>3. Grounds(d)' = Grounds(d)
  BY DEF Untouched, Grounds
<1>4. RequestPart(d)'
  BY <1>3 DEF ConnInv, Untouched, RequestPart
<1>. QED
  BY <1>1, <1>2, <1>4 DEF ConnInv

(* A reload adds what it brings to every connection's `since`.             *)
LEMMA ReloadKeeps ==
    ASSUME IInv, Reload, NEW d \in Conns,
           settings' \in Settings, policy' \in Policy, bypass' \subseteq Hosts
    PROVE  ConnInv(d)'
<1>. USE DEF IInv, ConnInv, Reload, TypeOK
<1>1. /\ since'[d].settings = since[d].settings \cup {settings'}
      /\ since'[d].policies = since[d].policies \cup {policy'}
      /\ since'[d].lists = since[d].lists \cup {bypass'}
  OBVIOUS
<1>2. CurrentIsSince(d)'
  BY <1>1 DEF CurrentIsSince
<1>3. AuthedPart(d)'
  BY DEF AuthedPart
<1>4. TunnelPart(d)'
  BY <1>1 DEF TunnelPart
<1>5. Grounds(d) => Grounds(d)'
  BY <1>1 DEF Grounds
<1>6. RequestPart(d)'
  BY <1>1, <1>5 DEF RequestPart
<1>. QED
  BY <1>2, <1>3, <1>4, <1>6

-----------------------------------------------------------------------------
(* Type correctness, with OneRowPerRequest for the type of `unlogged`      *)

LEMMA CloseTypes ==
    ASSUME TypeOK, NEW c \in Conns, Close(c)
    PROVE  authed' \subseteq Conns /\ pc' = [pc EXCEPT ![c] = "closed"]
BY DEF Close, Goto, TypeOK

LEMMA GotoTypes ==
    ASSUME TypeOK, NEW c \in Conns, NEW s \in Steps, Goto(c, s) PROVE pc' \in [Conns -> Steps]
BY DEF TypeOK, Goto

LEMMA AnswerTypes ==
    ASSUME NEW f \in FlowType, NEW a \in {"challenge", "origin"}
    PROVE  [f EXCEPT !.response = a] \in FlowType
BY DEF FlowType

LEMMA ClientTypes ==
    ASSUME IInv, NEW c \in Conns, ClientStep(c) PROVE TypeOK'
<1>. USE DEF IInv, TypeOK, Goto, Steps
<1>1. CASE Accept(c)
  <2>1. since' \in [Conns -> [settings : SUBSET Settings, policies : SUBSET Policy,
                            lists : SUBSET SUBSET Hosts]]
    BY <1>1 DEF Accept, Now
  <2>. QED
    BY <1>1, <2>1 DEF Accept
<1>2. CASE SocksMethod(c) \/ Socks4Gate(c) \/ SocksPassword(c) \/ SocksCommand(c)
  BY <1>2, CloseTypes DEF SocksMethod, Socks4Gate, SocksPassword, SocksCommand, Handshake
<1>3. CASE BadRequest(c)
  BY <1>3 DEF BadRequest
<1>4. CASE ReadRequest(c)
  <2>1. flow' \in [Conns -> FlowType] /\ req' \in [Conns -> Request]
    BY <1>4, ManagementSound DEF ReadRequest
  <2>2. since' \in [Conns -> [settings : SUBSET Settings, policies : SUBSET Policy,
                            lists : SUBSET SUBSET Hosts]]
    BY <1>4 DEF ReadRequest, Now
  <2>3. left' \in [Conns -> Nat]
    BY <1>4 DEF ReadRequest
  <2>4. unlogged[c] = 0
    BY <1>4 DEF ReadRequest, ConnInv, RequestPart, InPipeline
  <2>. QED
    BY <1>4, <2>1, <2>2, <2>3, <2>4 DEF ReadRequest
<1>5. CASE Hangup(c)
  BY <1>5, CloseTypes DEF Hangup
<1>. QED
  BY <1>1, <1>2, <1>3, <1>4, <1>5 DEF ClientStep

LEMMA ProgressTypes ==
    ASSUME IInv, NEW c \in Conns, Progress(c) PROVE TypeOK'
<1>. USE DEF IInv, TypeOK, Goto, Steps
<1>1. CASE AuthorizeConnect(c) \/ SocksNoAuth(c)
  BY <1>1 DEF AuthorizeConnect, SocksNoAuth, Handshake
<1>2. CASE DoTGate(c) \/ CheckBypass(c)
  <2>1. CASE DoTGate(c)
    <3>1. authed' \subseteq Conns /\ pc' \in [Conns -> Steps]
      BY <2>1, CloseTypes, GotoTypes DEF DoTGate, Steps, Close
    <3>2. captured' \in [Conns -> Policy] /\ InTunnel(c) /\ upstream' = upstream
      BY <2>1 DEF DoTGate, Capture
    <3>. QED
      BY <3>1, <3>2 DEF InTunnel
  <2>2. CASE CheckBypass(c)
    <3>1. authed' \subseteq Conns /\ pc' \in [Conns -> Steps]
      BY <2>2, CloseTypes, GotoTypes DEF CheckBypass, Steps, Close
    <3>2. captured' = captured /\ InTunnel(c) /\ upstream' = upstream
      BY <2>2 DEF CheckBypass
    <3>. QED
      BY <3>1, <3>2 DEF InTunnel
  <2>. QED
    BY <1>2, <2>1, <2>2
<1>3. CASE SpliceExcluded(c) \/ SpliceDoT(c)
  <2>1. [kind |-> "splice", req |-> [NoRequest EXCEPT !.host = client[c].host]] \in Contacts
    BY ConstantFacts DEF Contacts, Request, RequestOf, Clients
  <2>2. SpliceContact(c) => upstream' \in [Conns -> Contacts \cup {Nothing}]
    BY <2>1 DEF SpliceContact
  <2>3. ASSUME NEW p, HostGate(c, p)
        PROVE  /\ authed' \subseteq Conns /\ upstream' \in [Conns -> Contacts \cup {Nothing}]
               /\ \/ pc' = [pc EXCEPT ![c] = "closed"]
                  \/ pc' = [pc EXCEPT ![c] = "spliced"]
    BY <2>2, <2>3, CloseTypes DEF HostGate
  <2>4. captured' \in [Conns -> Policy]
    BY <1>3 DEF SpliceExcluded, SpliceDoT, Capture
  <2>. QED
    BY <1>3, <2>3, <2>4 DEF SpliceExcluded, SpliceDoT, InTunnel
<1>4. CASE AuthGate(c)
  BY <1>4 DEF AuthGate, InRequest
<1>5. CASE Challenge(c)
  <2>1. [flow[c] EXCEPT !.response = "challenge"] \in FlowType
    BY AnswerTypes
  <2>2. flow' \in [Conns -> FlowType]
    BY <1>5, <2>1 DEF Challenge
  <2>. QED
    BY <1>5, <2>2 DEF Challenge, InRequest
<1>6. CASE Filter(c)
  <2>1. PICK x \in RequestVerdicts :
          flow' = [flow EXCEPT ![c] = RequestFilters(@, policy, req[c], x)]
    BY <1>6 DEF Filter
  <2>2. Fresh(flow[c]) /\ (flow[c].allowed => flow[c].passthrough)
    BY <1>6 DEF Filter, ConnInv, RequestPart
  <2>3. RequestFilters(flow[c], policy, req[c], x) \in FlowType
    BY <2>2, RequestFiltersSound DEF FilterStep, Sound, Request
  <2>. QED
    BY <1>6, <2>1, <2>3 DEF Filter, InRequest, Capture
<1>7. CASE ForwardWebSocket(c)
  <2>1. [kind |-> "websocket", req |-> req[c]] \in Contacts
    BY DEF Contacts
  <2>. QED
    BY <1>7, <2>1, CloseTypes DEF ForwardWebSocket, Contact, InRequest
<1>8. CASE Fetch(c)
  <2>1. [kind |-> "fetch", req |-> req[c]] \in Contacts
    BY DEF Contacts
  <2>2. [flow[c] EXCEPT !.response = "origin"] \in FlowType
    BY AnswerTypes
  <2>3. unlogged[c] = 1
    BY <1>8 DEF Fetch, ConnInv, RequestPart, InPipeline
  <2>4. flow' \in [Conns -> FlowType]
    BY <1>8, <2>2 DEF Fetch
  <2>5. unlogged' \in [Conns -> 0..1]
    BY <1>8, <2>3 DEF Fetch, LogRequest
  <2>6. upstream' \in [Conns -> Contacts \cup {Nothing}]
    BY <1>8, <2>1 DEF Fetch, Contact
  <2>7. \/ pc' = [pc EXCEPT ![c] = "respond"]
        \/ pc' = [pc EXCEPT ![c] = "request"]
    BY <1>8 DEF Fetch
  <2>. QED
    BY <1>8, <2>4, <2>5, <2>6, <2>7 DEF Fetch, InRequest
<1>9. CASE Respond(c)
  <2>1. PICK y \in ResponseVerdicts :
          flow' = [flow EXCEPT ![c] = ResponseFilters(@, captured[c], y)]
    BY <1>9 DEF Respond
  <2>2. ResponseFilters(flow[c], captured[c], y) \in FlowType
    BY ResponseFiltersSound DEF ConnInv, RequestPart, Sound
  <2>3. unlogged[c] = 1
    BY <1>9 DEF Respond, ConnInv, RequestPart, InPipeline
  <2>. QED
    BY <1>9, <2>1, <2>2, <2>3 DEF Respond, LogRequest, InRequest
<1>. QED
  BY <1>1, <1>2, <1>3, <1>4, <1>5, <1>6, <1>7, <1>8, <1>9 DEF Progress

LEMMA ReloadTypes ==
    ASSUME IInv, ApplySettings \/ StorePolicies \/ StoreBypass
    PROVE  /\ TypeOK' /\ Reload /\ settings' \in Settings
           /\ policy' \in Policy /\ bypass' \subseteq Hosts
<1>. USE DEF IInv, TypeOK
<1>1. /\ Reload /\ settings' \in Settings /\ policy' \in Policy
      /\ foreign' \subseteq Hosts /\ bypass' \subseteq Hosts /\ changes' \in Nat
  BY ConstantFacts DEF ApplySettings, StorePolicies, StoreBypass, Policy
<1>2. since' \in [Conns -> [settings : SUBSET Settings, policies : SUBSET Policy,
                          lists : SUBSET SUBSET Hosts]]
  BY <1>1 DEF Reload
<1>. QED
  BY <1>1, <1>2 DEF Reload

-----------------------------------------------------------------------------
(* A step of connection c                                                  *)

LEMMA StepUntouched ==
    ASSUME IInv, NEW c \in Conns, NEW d \in Conns, d # c, ClientStep(c) \/ Progress(c)
    PROVE  Untouched(d) /\ UNCHANGED <<settings, policy, bypass>>
<1>. USE DEF IInv, TypeOK, Goto, Untouched, Close
<1>1. CASE ClientStep(c)
  BY <1>1 DEF ClientStep, Accept, SocksMethod, Socks4Gate, SocksPassword, SocksCommand,
              BadRequest, ReadRequest, Hangup, Handshake
<1>2. CASE AuthorizeConnect(c) \/ SocksNoAuth(c) \/ DoTGate(c) \/ CheckBypass(c)
  BY <1>2 DEF AuthorizeConnect, SocksNoAuth, Handshake, DoTGate, CheckBypass, Capture, InTunnel
<1>3. CASE SpliceExcluded(c) \/ SpliceDoT(c)
  BY <1>3 DEF SpliceExcluded, SpliceDoT, HostGate, SpliceContact, Capture, InTunnel
<1>4. CASE AuthGate(c) \/ Challenge(c) \/ Filter(c)
  BY <1>4 DEF AuthGate, Challenge, Filter, Capture, InRequest
<1>5. CASE ForwardWebSocket(c) \/ Fetch(c) \/ Respond(c)
  BY <1>5 DEF ForwardWebSocket, Fetch, Respond, Contact, LogRequest, InRequest
<1>. QED
  BY <1>1, <1>2, <1>3, <1>4, <1>5 DEF Progress

(* The connection ends: nothing is left of it in authedConns.              *)
LEMMA ClosedInv ==
    ASSUME IInv, NEW c \in Conns, Goto(c, "closed"), c \notin authed',
           UNCHANGED <<settings, policy, bypass, mode, client, flow, since>>
    PROVE  ConnInv(c)'
<1>1. pc'[c] = "closed"
  BY DEF Goto, IInv, TypeOK
<1>2. Sound(flow[c])
  BY DEF IInv, ConnInv, RequestPart
<1>3. CurrentIsSince(c)'
  BY DEF IInv, ConnInv, CurrentIsSince
<1>. QED
  BY <1>1, <1>2, <1>3 DEF ConnInv, AuthedPart, TunnelPart, RequestPart, InPipeline

LEMMA CloseInv ==
    ASSUME IInv, NEW c \in Conns, Close(c),
           UNCHANGED <<settings, policy, bypass, mode, client, flow, since>>
    PROVE  ConnInv(c)'
<1>1. c \notin authed'
  BY DEF Close, IInv, ConnInv, AuthedPart
<1>2. Goto(c, "closed")
  BY DEF Close
<1>. QED
  BY <1>1, <1>2, ClosedInv

(* A handshake or tunnel step leaves the request parts as they are.        *)
LEMMA OutsideInv ==
    ASSUME IInv, NEW c \in Conns, AuthedPart(c)', TunnelPart(c)',
           pc[c] \notin InPipeline \cup {"spliced", "closed"}, pc'[c] \notin InPipeline,
           UNCHANGED <<settings, policy, bypass, flow, unlogged, since>>
    PROVE  ConnInv(c)'
<1>1. CurrentIsSince(c)'
  BY DEF IInv, ConnInv, CurrentIsSince
<1>2. RequestPart(c)'
  BY DEF IInv, ConnInv, RequestPart, InPipeline
<1>. QED
  BY <1>1, <1>2 DEF ConnInv

LEMMA GotoValue ==
    ASSUME TypeOK, NEW c \in Conns, NEW s, Goto(c, s) PROVE pc'[c] = s
BY DEF TypeOK, Goto

LEMMA HandshakeInv ==
    ASSUME IInv, NEW c \in Conns,
           \/ AuthorizeConnect(c) \/ SocksMethod(c) \/ Socks4Gate(c) \/ SocksPassword(c)
           \/ SocksNoAuth(c) \/ SocksCommand(c)
    PROVE  ConnInv(c)'
<1>. USE DEF Handshake
<1>1. UNCHANGED <<settings, policy, bypass, mode, client, flow, unlogged, since>>
  BY DEF AuthorizeConnect, SocksMethod, Socks4Gate, SocksPassword, SocksNoAuth, SocksCommand
<1>2. CASE Close(c)
  BY <1>1, <1>2, CloseInv
<1>3. /\ settings \in since[c].settings
      /\ pc[c] \in {"authorize", "greeting", "password", "noauth", "command"} => mode[c] \in Gated
      /\ c \in authed => pc[c] \notin {"new", "authorize", "closed"} /\ mode[c] \in Gated
      /\ pc[c] \in {"noauth", "command"} => \/ mode[c] = "transparent" \/ c \in authed
                                            \/ \E s \in since[c].settings : ~Demanded(s)
      /\ TypeOK
  BY DEF IInv, ConnInv, CurrentIsSince, AuthedPart, TunnelPart
<1>. DEFINE Onward(s) ==
       /\ Goto(c, s) /\ s \in {"tunnel", "password", "noauth", "command"}
       /\ pc[c] \in {"authorize", "greeting", "password", "noauth", "command"}
       /\ c \in authed => c \in authed'
       /\ s # "password" => \/ mode[c] = "transparent" \/ c \in authed'
                            \/ \E t \in since[c].settings : ~Demanded(t)
<1>4. ASSUME NEW s, Onward(s) PROVE ConnInv(c)'
  <2>1. pc'[c] = s
    BY <1>3, <1>4, GotoValue
  <2>2. AuthedPart(c)'
    BY <1>1, <1>3, <1>4, <2>1 DEF AuthedPart
  <2>3. TunnelPart(c)'
    BY <1>1, <1>3, <1>4, <2>1 DEF TunnelPart
  <2>4. pc[c] \notin InPipeline \cup {"spliced", "closed"} /\ pc'[c] \notin InPipeline
    BY <1>4, <2>1 DEF InPipeline
  <2>. QED
    BY <1>1, <2>2, <2>3, <2>4, OutsideInv
<1>5. CASE AuthorizeConnect(c)
  <2>1. CASE Authorized(client[c].password)
    BY <1>4, <1>5, <2>1 DEF AuthorizeConnect
  <2>2. CASE ~Authorized(client[c].password)
    BY <1>1, <1>3, <1>5, <2>2, ClosedInv DEF AuthorizeConnect
  <2>. QED
    BY <2>1, <2>2
<1>6. CASE SocksMethod(c)
  BY <1>2, <1>3, <1>4, <1>6 DEF SocksMethod
<1>7. CASE Socks4Gate(c)
  BY <1>2, <1>3, <1>4, <1>7 DEF Socks4Gate
<1>8. CASE SocksPassword(c)
  BY <1>2, <1>4, <1>8 DEF SocksPassword
<1>9. CASE SocksNoAuth(c)
  BY <1>3, <1>4, <1>9 DEF SocksNoAuth
<1>10. CASE SocksCommand(c)
  BY <1>2, <1>3, <1>4, <1>10 DEF SocksCommand
<1>. QED
  BY <1>5, <1>6, <1>7, <1>8, <1>9, <1>10

LEMMA AcceptInv ==
    ASSUME IInv, NEW c \in Conns, Accept(c) PROVE ConnInv(c)'
<1>1. PICK m \in Modes, d \in Clients :
         /\ mode' = [mode EXCEPT ![c] = m]
         /\ Goto(c, CASE m = "plain"       -> "request"
                      [] m = "transparent" -> "tunnel"
                      [] m = "connect"     -> "authorize"
                      [] OTHER             -> "greeting")
  BY DEF Accept
<1>2. TypeOK
  BY DEF IInv
<1>3. mode'[c] = m /\ \/ m = "plain" /\ pc'[c] = "request"
                      \/ m = "transparent" /\ pc'[c] = "tunnel"
                      \/ m \in Gated /\ pc'[c] \in {"authorize", "greeting"}
  <2>1. mode'[c] = m
    BY <1>1, <1>2 DEF TypeOK
  <2>2. CASE m = "plain"
    BY <1>1, <1>2, <2>1, <2>2, GotoValue
  <2>3. CASE m = "transparent"
    BY <1>1, <1>2, <2>1, <2>3, GotoValue
  <2>4. CASE m = "connect"
    BY <1>1, <1>2, <2>1, <2>4, GotoValue DEF Gated
  <2>5. CASE m = "socks5"
    BY <1>1, <1>2, <2>1, <2>5, GotoValue DEF Gated
  <2>6. CASE m = "socks4"
    BY <1>1, <1>2, <2>1, <2>6, GotoValue DEF Gated
  <2>. QED
    BY <2>2, <2>3, <2>4, <2>5, <2>6 DEF Modes
<1>4. since'[c] = Now /\ UNCHANGED <<settings, policy, bypass, authed, flow, unlogged>>
  BY <1>2 DEF Accept, TypeOK
<1>5. c \notin authed /\ Sound(flow[c]) /\ unlogged[c] = 0
  BY DEF Accept, IInv, ConnInv, AuthedPart, RequestPart, InPipeline
<1>6. CurrentIsSince(c)'
  BY <1>4 DEF CurrentIsSince, Now
<1>7. AuthedPart(c)'
  BY <1>3, <1>4, <1>5 DEF AuthedPart
<1>8. TunnelPart(c)'
  BY <1>3, <1>4, <1>5 DEF TunnelPart
<1>9. RequestPart(c)'
  BY <1>3, <1>4, <1>5 DEF RequestPart, InPipeline
<1>. QED
  BY <1>6, <1>7, <1>8, <1>9 DEF ConnInv

LEMMA TunnelInv ==
    ASSUME IInv, NEW c \in Conns,
           DoTGate(c) \/ CheckBypass(c) \/ SpliceExcluded(c) \/ SpliceDoT(c)
    PROVE  ConnInv(c)'
<1>. USE DEF InTunnel
<1>1. /\ UNCHANGED <<settings, policy, bypass, mode, client, flow, unlogged, since>>
      /\ pc[c] \in {"tunnel", "bypass", "hostgate"}
  BY DEF DoTGate, CheckBypass, SpliceExcluded, SpliceDoT
<1>2. CASE Close(c)
  BY <1>1, <1>2, CloseInv
<1>3. /\ TypeOK /\ policy \in since[c].policies /\ bypass \in since[c].lists
      /\ c \in authed => mode[c] \in Gated
      /\ \/ mode[c] = "transparent" \/ c \in authed
         \/ \E s \in since[c].settings : ~Demanded(s)
  BY <1>1 DEF IInv, ConnInv, CurrentIsSince, AuthedPart, TunnelPart
<1>. DEFINE Onward(s) ==
       /\ Goto(c, s) /\ s \in {"bypass", "hostgate", "request", "spliced"} /\ UNCHANGED authed
       /\ s = "bypass" => ~client[c].dot /\ client[c].host \in bypass
       /\ s = "hostgate" => /\ client[c].dot /\ "doh" \notin policy.filters
                            /\ captured' = [captured EXCEPT ![c] = policy]
<1>4. ASSUME NEW s, Onward(s) PROVE ConnInv(c)'
  <2>1. pc'[c] = s
    BY <1>3, <1>4, GotoValue
  <2>2. AuthedPart(c)'
    BY <1>1, <1>3, <1>4, <2>1 DEF AuthedPart
  <2>3. s = "hostgate" => captured'[c] = policy
    BY <1>3, <1>4 DEF TypeOK
  <2>4. TunnelPart(c)'
    BY <1>1, <1>3, <1>4, <2>1, <2>3 DEF TunnelPart
  <2>5. pc[c] \notin InPipeline \cup {"spliced", "closed"} /\ pc'[c] \notin InPipeline
    BY <1>1, <1>4, <2>1 DEF InPipeline
  <2>. QED
    BY <1>1, <2>2, <2>4, <2>5, OutsideInv
<1>5. CASE DoTGate(c)
  BY <1>2, <1>4, <1>5 DEF DoTGate, Capture
<1>6. CASE CheckBypass(c)
  BY <1>2, <1>4, <1>6 DEF CheckBypass
<1>7. CASE SpliceExcluded(c) \/ SpliceDoT(c)
  BY <1>2, <1>4, <1>7 DEF SpliceExcluded, SpliceDoT, HostGate
<1>. QED
  BY <1>5, <1>6, <1>7

LEMMA ReadRequestInv ==
    ASSUME IInv, NEW c \in Conns, ReadRequest(c) PROVE ConnInv(c)'
<1>1. PICK r \in Request :
         /\ req' = [req EXCEPT ![c] = r]
         /\ flow' = [flow EXCEPT ![c] = ManagementAccess(NewFlow, r)]
  BY DEF ReadRequest
<1>. DEFINE f == ManagementAccess(NewFlow, r)
<1>2. TypeOK /\ pc[c] = "request" /\ unlogged[c] = 0 /\ (c \in authed => mode[c] \in Gated)
  BY DEF IInv, ConnInv, AuthedPart, RequestPart, InPipeline, ReadRequest
<1>3. pc'[c] = "gate"
  BY <1>2, GotoValue DEF ReadRequest
<1>4. req'[c] = r /\ flow'[c] = f
  BY <1>1, <1>2 DEF TypeOK
<1>5. unlogged'[c] = 1 /\ since'[c] = Now /\ UNCHANGED <<settings, policy, bypass, authed, mode>>
  BY <1>2 DEF ReadRequest, TypeOK
<1>6. /\ Sound(f) /\ Fresh(f) /\ f.allowed = f.passthrough
      /\ f.allowed => r.host \in {MgmtName, MgmtAddr}
      /\ f.response = "none" => r.host # MgmtName
  <2>1. Sound(f) /\ Fresh(f)
    BY ManagementSound
  <2>2. /\ f.allowed = f.passthrough /\ (f.allowed => r.host \in {MgmtName, MgmtAddr})
        /\ f.response = "none" => r.host # MgmtName
    BY DEF ManagementAccess, NewFlow
  <2>. QED
    BY <2>1, <2>2
<1>. HIDE DEF f
<1>7. CurrentIsSince(c)'
  BY <1>5 DEF CurrentIsSince, Now
<1>8. AuthedPart(c)' /\ TunnelPart(c)'
  BY <1>2, <1>3, <1>5 DEF AuthedPart, TunnelPart
<1>9. RequestPart(c)'
  BY <1>3, <1>4, <1>5, <1>6 DEF RequestPart, InPipeline
<1>. QED
  BY <1>7, <1>8, <1>9 DEF ConnInv

(* A step of the pipeline only moves on within a running connection.       *)
LEMMA PipelineInv ==
    ASSUME IInv, NEW c \in Conns, RequestPart(c)', pc[c] \in InPipeline,
           pc'[c] \in InPipeline \cup {"spliced", "request"},
           UNCHANGED <<settings, policy, bypass, authed, mode, since>>
    PROVE  ConnInv(c)'
<1>1. CurrentIsSince(c)'
  BY DEF IInv, ConnInv, CurrentIsSince
<1>2. AuthedPart(c)' /\ TunnelPart(c)'
  BY DEF IInv, ConnInv, AuthedPart, TunnelPart, InPipeline
<1>. QED
  BY <1>1, <1>2 DEF ConnInv

LEMMA AnswerSound ==
    ASSUME NEW f, Sound(f), NEW a \in {"challenge", "origin"}
    PROVE  /\ Sound([f EXCEPT !.response = a]) /\ [f EXCEPT !.response = a].response # "none"
           /\ [f EXCEPT !.response = a].allowed = f.allowed
           /\ [f EXCEPT !.response = a].passthrough = f.passthrough
           /\ Fresh(f) => Fresh([f EXCEPT !.response = a])
BY DEF Sound, Fresh, Exempt, FlowType

LEMMA GateInv ==
    ASSUME IInv, NEW c \in Conns, AuthGate(c) \/ Challenge(c) PROVE ConnInv(c)'
<1>1. /\ UNCHANGED <<settings, policy, bypass, authed, mode, since, req, unlogged>>
      /\ pc[c] \in {"gate", "challenge"}
  BY DEF AuthGate, Challenge, InRequest
<1>2. /\ TypeOK /\ Sound(flow[c]) /\ Fresh(flow[c]) /\ flow[c].allowed = flow[c].passthrough
      /\ flow[c].allowed => req[c].host \in {MgmtName, MgmtAddr}
      /\ flow[c].response = "none" => req[c].host # MgmtName
      /\ pc[c] = "challenge" => ~flow[c].allowed
      /\ unlogged[c] = 1 /\ settings \in since[c].settings
  BY <1>1 DEF IInv, ConnInv, RequestPart, InPipeline, CurrentIsSince
<1>3. CASE AuthGate(c)
  <2>1. flow' = flow /\ \/ pc'[c] = "challenge" /\ ~flow[c].allowed
                        \/ /\ pc'[c] = "filter"
                           /\ flow[c].allowed \/ ~Demanded(settings) \/ c \in authed
    BY <1>2, <1>3, GotoValue DEF AuthGate
  <2>2. (pc'[c] = "filter" /\ flow[c].response = "none") => Grounds(c)'
    BY <1>1, <1>2, <2>1 DEF Grounds
  <2>3. RequestPart(c)'
    BY <1>1, <1>2, <2>1, <2>2 DEF RequestPart, InPipeline
  <2>. QED
    BY <1>1, <2>1, <2>3, PipelineInv DEF InPipeline
<1>4. CASE Challenge(c)
  <2>. DEFINE g == [flow[c] EXCEPT !.response = "challenge"]
  <2>1. pc'[c] = "filter"
    BY <1>2, <1>4, GotoValue DEF Challenge
  <2>2. /\ Sound(g) /\ Fresh(g) /\ g.response # "none"
        /\ g.allowed = flow[c].allowed /\ g.passthrough = flow[c].passthrough
    BY <1>2, AnswerSound
  <2>3. \/ flow'[c] = flow[c] /\ Accepts(settings, req[c].creds)
        \/ flow'[c] = g
    BY <1>2, <1>4 DEF Challenge, TypeOK
  <2>. HIDE DEF g
  <2>4. flow'[c].response = "none" => Grounds(c)'
    BY <1>1, <1>2, <2>2, <2>3 DEF Grounds
  <2>5. RequestPart(c)'
    BY <1>1, <1>2, <2>1, <2>2, <2>3, <2>4 DEF RequestPart, InPipeline
  <2>. QED
    BY <1>1, <2>1, <2>5, PipelineInv DEF InPipeline
<1>. QED
  BY <1>3, <1>4

LEMMA FilterInv ==
    ASSUME IInv, NEW c \in Conns, Filter(c) PROVE ConnInv(c)'
<1>1. PICK x \in RequestVerdicts :
         flow' = [flow EXCEPT ![c] = RequestFilters(@, policy, req[c], x)]
  BY DEF Filter
<1>. DEFINE f == flow[c]
            g == RequestFilters(f, policy, req[c], x)
<1>2. /\ TypeOK /\ pc[c] = "filter" /\ Fresh(f) /\ f.allowed = f.passthrough
      /\ f.allowed => req[c].host \in {MgmtName, MgmtAddr}
      /\ f.response = "none" => req[c].host # MgmtName /\ Grounds(c)
      /\ unlogged[c] = 1 /\ policy \in since[c].policies
  BY DEF Filter, IInv, ConnInv, RequestPart, InPipeline, CurrentIsSince
<1>3. f \in FlowType /\ policy \in Policy /\ req[c] \in Request
  BY <1>2 DEF TypeOK
<1>4. FilterStep(f, g) /\ (g.response = "none" =>
         \/ f.passthrough \/ NotIncluded(policy, req[c].host)
         \/ policy.uaRule /\ req[c].uaMatch
         \/ UrlVerdict(policy, req[c]) # "block")
  BY <1>2, <1>3, RequestFiltersSound DEF Request
<1>5. g.response = "none" => Grounds(c) /\ Unblocked(policy, req[c])
  BY <1>2, <1>4 DEF FilterStep, Unblocked
<1>6. flow'[c] = g /\ captured'[c] = policy
  BY <1>1, <1>2 DEF TypeOK, Filter, Capture
<1>7. pc'[c] = IF g.response = "none" THEN "forward" ELSE "respond"
  BY <1>2, <1>6, GotoValue DEF Filter
<1>8. UNCHANGED <<settings, policy, bypass, authed, mode, since, req, unlogged>>
  BY DEF Filter, InRequest
<1>9. Grounds(c)' = Grounds(c)
  BY <1>8 DEF Grounds
<1>10. Sound(g)
  BY <1>4 DEF FilterStep
<1>. HIDE DEF f, g
<1>11. RequestPart(c)'
  BY <1>2, <1>5, <1>6, <1>7, <1>8, <1>9, <1>10 DEF RequestPart, InPipeline
<1>. QED
  BY <1>2, <1>7, <1>8, <1>11, PipelineInv DEF InPipeline

LEMMA AnswerInv ==
    ASSUME IInv, NEW c \in Conns, ForwardWebSocket(c) \/ Fetch(c) \/ Respond(c)
    PROVE  ConnInv(c)'
<1>1. UNCHANGED <<settings, policy, bypass, mode, client, since>> /\ pc[c] \in InPipeline
  BY DEF ForwardWebSocket, Fetch, Respond, InRequest, InPipeline
<1>2. TypeOK /\ Sound(flow[c]) /\ unlogged[c] = 1
  BY <1>1 DEF IInv, ConnInv, RequestPart
<1>3. CASE ForwardWebSocket(c)
  <2>1. CASE Close(c)
    BY <1>1, <1>3, <2>1, CloseInv DEF ForwardWebSocket
  <2>2. CASE Goto(c, "spliced") /\ UNCHANGED authed
    <3>1. pc'[c] = "spliced" /\ UNCHANGED <<authed, flow, unlogged>>
      BY <1>2, <1>3, <2>2, GotoValue DEF ForwardWebSocket
    <3>2. RequestPart(c)'
      BY <1>2, <3>1 DEF RequestPart, InPipeline
    <3>. QED
      BY <1>1, <3>1, <3>2, PipelineInv
  <2>. QED
    BY <1>3, <2>1, <2>2 DEF ForwardWebSocket
<1>4. CASE Fetch(c)
  <2>. DEFINE g == [flow[c] EXCEPT !.response = "origin"]
  <2>1. Sound(g)
    BY <1>2, AnswerSound
  <2>2. \/ pc'[c] = "respond" /\ flow'[c] = g /\ unlogged'[c] = 1
        \/ pc'[c] = "request" /\ flow'[c] = flow[c] /\ unlogged'[c] = 0
    BY <1>2, <1>4, GotoValue DEF Fetch, LogRequest, TypeOK
  <2>. HIDE DEF g
  <2>3. RequestPart(c)'
    BY <1>2, <2>1, <2>2 DEF RequestPart, InPipeline
  <2>. QED
    BY <1>1, <1>4, <2>2, <2>3, PipelineInv DEF Fetch, InPipeline
<1>5. CASE Respond(c)
  <2>1. PICK y \in ResponseVerdicts :
          flow' = [flow EXCEPT ![c] = ResponseFilters(@, captured[c], y)]
    BY <1>5 DEF Respond
  <2>2. Sound(ResponseFilters(flow[c], captured[c], y))
    BY <1>2, ResponseFiltersSound DEF TypeOK
  <2>3. Sound(flow'[c])
    BY <1>2, <2>1, <2>2 DEF TypeOK
  <2>4. pc'[c] = "request" /\ unlogged'[c] = 0
    BY <1>2, <1>5, GotoValue DEF Respond, LogRequest, TypeOK
  <2>5. RequestPart(c)'
    BY <2>3, <2>4 DEF RequestPart, InPipeline
  <2>. QED
    BY <1>1, <1>5, <2>4, <2>5, PipelineInv DEF Respond
<1>. QED
  BY <1>3, <1>4, <1>5

-----------------------------------------------------------------------------
(* Every step                                                              *)

LEMMA ConnStepInv ==
    ASSUME IInv, NEW c \in Conns, ClientStep(c) \/ Progress(c) PROVE IInv'
<1>1. TypeOK'
  BY ClientTypes, ProgressTypes
<1>2. ConnInv(c)'
  <2>1. CASE Accept(c)
    BY <2>1, AcceptInv
  <2>2. CASE BadRequest(c)
    <3>1. Untouched(c) /\ UNCHANGED <<settings, policy, bypass>>
      BY <2>2 DEF BadRequest, Untouched
    <3>. QED
      BY <3>1, OthersKeep DEF IInv
  <2>3. CASE ReadRequest(c)
    BY <2>3, ReadRequestInv
  <2>4. CASE Hangup(c)
    BY <2>4, CloseInv DEF Hangup
  <2>5. CASE AuthGate(c) \/ Challenge(c)
    BY <2>5, GateInv
  <2>6. CASE Filter(c)
    BY <2>6, FilterInv
  <2>7. CASE ForwardWebSocket(c) \/ Fetch(c) \/ Respond(c)
    BY <2>7, AnswerInv
  <2>. QED
    BY <2>1, <2>2, <2>3, <2>4, <2>5, <2>6, <2>7, HandshakeInv, TunnelInv
    DEF ClientStep, Progress
<1>3. ASSUME NEW d \in Conns, d # c PROVE ConnInv(d)'
  BY <1>3, StepUntouched, OthersKeep DEF IInv
<1>. QED
  BY <1>1, <1>2, <1>3 DEF IInv

LEMMA StepInv == IInv /\ [Next]_vars => IInv'
<1>. SUFFICES ASSUME IInv, [Next]_vars PROVE IInv'
  OBVIOUS
<1>1. ASSUME NEW c \in Conns, ClientStep(c) \/ Progress(c) PROVE IInv'
  BY <1>1, ConnStepInv
<1>2. CASE ApplySettings \/ StorePolicies \/ StoreBypass
  BY <1>2, ReloadTypes, ReloadKeeps DEF IInv
<1>3. CASE UNCHANGED vars
  <2>1. ASSUME NEW d \in Conns PROVE ConnInv(d)'
    <3>1. Untouched(d) /\ UNCHANGED <<settings, policy, bypass>>
      BY <1>3 DEF vars, Untouched
    <3>. QED
      BY <3>1, OthersKeep DEF IInv
  <2>2. TypeOK'
    BY <1>3 DEF IInv, TypeOK, vars
  <2>. QED
    BY <2>1, <2>2 DEF IInv
<1>. QED
  BY <1>1, <1>2, <1>3 DEF Next, Terminated

LEMMA InvAlways == Spec => []IInv
BY InitInv, StepInv, PTL DEF Spec

-----------------------------------------------------------------------------
(* Theorems                                                                *)

(* Every variable keeps its type; no request is ever logged twice.         *)
THEOREM TypeCorrect == Spec => []TypeOK
<1>1. IInv => TypeOK
  BY DEF IInv
<1>. QED
  BY <1>1, InvAlways, PTL

(* A flow that a rule exempts is neither blocked nor changed, by any mix   *)
(* of policies the two phases of a request run under.                      *)
THEOREM ExemptUntouchedAlways == Spec => []ExemptUntouched
<1>1. IInv => ExemptUntouched
  BY DEF IInv, ConnInv, RequestPart, Sound, Fresh, ExemptUntouched
<1>. QED
  BY <1>1, InvAlways, PTL

(* A request logged "ok" was neither blocked nor changed.                  *)
THEOREM OkMeansUneditedAlways == Spec => []OkMeansUnedited
<1>1. IInv => OkMeansUnedited
  BY DEF IInv, ConnInv, RequestPart, Sound, OkMeansUnedited
<1>. QED
  BY <1>1, InvAlways, PTL

(* Each answered request has one row in the request log.                   *)
THEOREM OneRowPerRequestAlways == Spec => []OneRowPerRequest
<1>1. IInv => OneRowPerRequest
  BY DEF IInv, ConnInv, RequestPart, InPipeline, OneRowPerRequest
<1>. QED
  BY <1>1, InvAlways, PTL

(* An ended connection is forgotten: its connID authenticates nobody.      *)
THEOREM AuthReleasedAlways == Spec => []AuthReleased
<1>1. IInv => AuthReleased
  BY DEF IInv, ConnInv, AuthedPart, AuthReleased
<1>. QED
  BY <1>1, InvAlways, PTL

(* Only a right password, or none being demanded, gets a connection        *)
(* remembered as authenticated.                                            *)
THEOREM AuthedOnGroundsAlways == Spec => AuthedOnGrounds
<1>1. ASSUME IInv, [Next]_vars, NEW c \in Conns, c \in authed' \ authed
      PROVE  \E s \in since[c].settings : ~Demanded(s) \/ Accepts(s, client[c].password)
  <2>1. settings \in since[c].settings
    BY <1>1 DEF IInv, ConnInv, CurrentIsSince
  <2>2. NoPassword \notin Passwords
    BY PasswordsAssumption
  <2>3. \/ AuthorizeConnect(c) \/ SocksPassword(c) \/ SocksNoAuth(c)
    BY <1>1 DEF Next, vars, Terminated, ClientStep, Progress, Accept, AuthorizeConnect,
         SocksMethod, Socks4Gate, SocksPassword, SocksNoAuth, SocksCommand, Handshake, Close,
         DoTGate, CheckBypass, SpliceExcluded, SpliceDoT, HostGate, BadRequest, ReadRequest,
         AuthGate, Challenge, Filter, ForwardWebSocket, Fetch, Respond, Hangup,
         ApplySettings, StorePolicies, StoreBypass, Reload
  <2>4. Authorized(client[c].password) \/ ~Demanded(settings)
    BY <1>1, <2>3 DEF AuthorizeConnect, SocksPassword, SocksNoAuth, Close, Authorized, Accepts
  <2>. QED
    BY <2>1, <2>4 DEF Authorized
<1>2. IInv /\ [Next]_vars =>
        [\A c \in Conns : c \in authed' \ authed =>
           \E s \in since[c].settings : ~Demanded(s) \/ Accepts(s, client[c].password)]_vars
  BY <1>1
<1>. QED
  BY <1>2, InvAlways, PTL DEF Spec, AuthedOnGrounds

(* The only ways out: a splice that the host gate let pass, and a request  *)
(* that the pipeline has not answered.                                     *)
SpliceOf(c) == [kind |-> "splice", req |-> [NoRequest EXCEPT !.host = client[c].host]]

LEMMA ContactFacts ==
    ASSUME IInv, [Next]_vars, NEW c \in Conns, Contacted(c)
    PROVE  \/ /\ upstream'[c] = SpliceOf(c)
              /\ \/ pc[c] = "bypass" /\ ~HostBlocked(policy, client[c].host)
                 \/ pc[c] = "hostgate" /\ ~HostBlocked(captured[c], client[c].host)
           \/ /\ pc[c] = "forward" /\ upstream'[c].req = req[c]
              /\ upstream'[c].kind \in {"fetch", "websocket"}
<1>. USE DEF Contacted
<1>1. upstream'[c] # upstream[c] /\ upstream'[c] # Nothing /\ TypeOK
  BY DEF IInv
<1>2. ASSUME NEW d \in Conns, d # c, ClientStep(d) \/ Progress(d)
      PROVE  upstream'[c] = upstream[c]
  BY <1>1, <1>2
  DEF TypeOK, ClientStep, Progress, Accept, AuthorizeConnect, SocksMethod, Socks4Gate,
      SocksPassword, SocksNoAuth, SocksCommand, Handshake, DoTGate, CheckBypass,
      SpliceExcluded, SpliceDoT, HostGate, SpliceContact, BadRequest, ReadRequest, AuthGate,
      Challenge, Filter, ForwardWebSocket, Fetch, Respond, Contact, Hangup
<1>3. CASE ClientStep(c) \/ Progress(c)
  <2>1. SpliceExcluded(c) \/ SpliceDoT(c) \/ ForwardWebSocket(c) \/ Fetch(c)
    BY <1>1, <1>3
    DEF TypeOK, ClientStep, Progress, Accept, AuthorizeConnect, SocksMethod, Socks4Gate,
        SocksPassword, SocksNoAuth, SocksCommand, Handshake, DoTGate, CheckBypass,
        BadRequest, ReadRequest, AuthGate, Challenge, Filter, Respond, Hangup
  <2>2. CASE SpliceExcluded(c) \/ SpliceDoT(c)
    BY <1>1, <2>2 DEF TypeOK, SpliceExcluded, SpliceDoT, HostGate, SpliceContact, SpliceOf
  <2>3. CASE ForwardWebSocket(c) \/ Fetch(c)
    BY <1>1, <2>3 DEF TypeOK, ForwardWebSocket, Fetch, Contact
  <2>. QED
    BY <2>1, <2>2, <2>3
<1>4. CASE ApplySettings \/ StorePolicies \/ StoreBypass \/ Terminated \/ UNCHANGED vars
  BY <1>1, <1>4 DEF ApplySettings, StorePolicies, StoreBypass, Reload, Terminated, vars
<1>. QED
  BY <1>2, <1>3, <1>4 DEF Next

(* Nothing is sent upstream for a client that had to authenticate and did  *)
(* not, on any of the four protocols and however settings change.          *)
THEOREM UpstreamAuthenticatedAlways == Spec => UpstreamAuthenticated
<1>. DEFINE Due(c) == LET u == upstream'[c] IN
          \/ c \in authed
          \/ \E s \in since[c].settings : ~Demanded(s) \/ Accepts(s, u.req.creds)
          \/ u.kind = "splice" /\ mode[c] = "transparent"
          \/ u.kind # "splice" /\ u.req.host = MgmtAddr
<1>1. ASSUME IInv, [Next]_vars, NEW c \in Conns, Contacted(c) PROVE Due(c)
  <2>1. CASE upstream'[c] = SpliceOf(c) /\ pc[c] \in {"bypass", "hostgate"}
    <3>1. \/ mode[c] = "transparent" \/ c \in authed
          \/ \E s \in since[c].settings : ~Demanded(s)
      BY <1>1, <2>1 DEF IInv, ConnInv, TunnelPart
    <3>. QED
      BY <2>1, <3>1 DEF SpliceOf
  <2>2. CASE /\ pc[c] = "forward" /\ upstream'[c].req = req[c]
             /\ upstream'[c].kind \in {"fetch", "websocket"}
    <3>1. Grounds(c)
      BY <1>1, <2>2 DEF IInv, ConnInv, RequestPart
    <3>. QED
      BY <2>2, <3>1 DEF Grounds
  <2>. QED
    BY <1>1, <2>1, <2>2, ContactFacts
<1>2. IInv /\ [Next]_vars => [\A c \in Conns : Contacted(c) => Due(c)]_vars
  BY <1>1
<1>. QED
  BY <1>2, InvAlways, PTL DEF Spec, UpstreamAuthenticated

(* What a policy blocks is not reached, on any way out.                    *)
THEOREM BlockedNeverReachedAlways == Spec => BlockedNeverReached
<1>. DEFINE Let(c) ==
          /\ \E p \in since[c].policies : Permits(p, upstream'[c], client[c].dot)
          /\ upstream'[c].kind # "splice" => flow[c].blocks = 0
<1>1. ASSUME IInv, [Next]_vars, NEW c \in Conns, Contacted(c) PROVE Let(c)
  <2>1. TypeOK /\ policy \in since[c].policies
    BY <1>1 DEF IInv, ConnInv, CurrentIsSince
  <2>2. CASE upstream'[c] = SpliceOf(c)
    <3>1. upstream'[c].kind = "splice" /\ upstream'[c].req.host = client[c].host
      BY <2>2 DEF SpliceOf, NoRequest
    <3>2. PICK p \in since[c].policies :
             ~HostBlocked(p, client[c].host) /\ ~(client[c].dot /\ "doh" \in p.filters)
      <4>1. CASE pc[c] = "bypass" /\ ~HostBlocked(policy, client[c].host)
        BY <1>1, <2>1, <4>1 DEF IInv, ConnInv, TunnelPart
      <4>2. CASE pc[c] = "hostgate" /\ ~HostBlocked(captured[c], client[c].host)
        BY <1>1, <4>2 DEF IInv, ConnInv, TunnelPart
      <4>3. upstream'[c].kind \notin {"fetch", "websocket"}
        BY <3>1
      <4>. QED
        BY <1>1, <4>1, <4>2, <4>3, ContactFacts
    <3>3. Permits(p, upstream'[c], client[c].dot)
      BY <3>1, <3>2 DEF Permits, HostBlocked
    <3>. QED
      BY <3>1, <3>3
  <2>3. CASE /\ pc[c] = "forward" /\ upstream'[c].req = req[c]
             /\ upstream'[c].kind \in {"fetch", "websocket"}
    <3>1. /\ captured[c] \in since[c].policies /\ Unblocked(captured[c], req[c])
          /\ Sound(flow[c]) /\ flow[c].response = "none"
      BY <1>1, <2>3 DEF IInv, ConnInv, RequestPart
    <3>2. Permits(captured[c], upstream'[c], client[c].dot)
      BY <2>3, <3>1 DEF Permits, Unblocked
    <3>3. flow[c].blocks = 0
      BY <3>1 DEF Sound
    <3>. QED
      BY <3>1, <3>2, <3>3
  <2>. QED
    BY <1>1, <2>2, <2>3, ContactFacts
<1>2. IInv /\ [Next]_vars => [\A c \in Conns : Contacted(c) => Let(c)]_vars
  BY <1>1
<1>. QED
  BY <1>2, InvAlways, PTL DEF Spec, BlockedNeverReached

(* Only a host on an exclude list, or DNS over TLS, is spliced past the    *)
(* filters.                                                                *)
THEOREM SplicedOnlyIfExcludedAlways == Spec => SplicedOnlyIfExcluded
<1>1. ASSUME IInv, [Next]_vars, NEW c \in Conns, Contacted(c), upstream'[c].kind = "splice"
      PROVE  client[c].dot \/ \E l \in since[c].lists : upstream'[c].req.host \in l
  <2>1. upstream'[c] = SpliceOf(c) /\ pc[c] \in {"bypass", "hostgate"}
    BY <1>1, ContactFacts
  <2>2. upstream'[c].req.host = client[c].host
    BY <2>1 DEF SpliceOf, NoRequest
  <2>. QED
    BY <1>1, <2>1, <2>2 DEF IInv, ConnInv, TunnelPart
<1>2. IInv /\ [Next]_vars =>
        [\A c \in Conns : (Contacted(c) /\ upstream'[c].kind = "splice") =>
           \/ client[c].dot
           \/ \E l \in since[c].lists : upstream'[c].req.host \in l]_vars
  BY <1>1
<1>. QED
  BY <1>2, InvAlways, PTL DEF Spec, SplicedOnlyIfExcluded

(* What a rule exempts is untouched, and what is logged as ok was neither  *)
(* blocked nor edited.                                                     *)
THEOREM VerdictsKeptAlways == Spec => []VerdictsKept
BY ExemptUntouchedAlways, OkMeansUneditedAlways, PTL DEF VerdictsKept

(* Passwords and switches that change meanwhile included, a connection is  *)
(* remembered, and something is sent upstream for it, only with grounds.   *)
THEOREM OnlyAuthenticatedAlways == Spec => OnlyAuthenticated
BY AuthedOnGroundsAlways, UpstreamAuthenticatedAlways DEF OnlyAuthenticated
===============================================================================
