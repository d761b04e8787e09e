------------------------------- MODULE Certs -------------------------------
(***************************************************************************)
(* The root CA that clients install, its two files, and who signs with it: *)
(* the proxy's LeafIssuer, and the issuer inside the TLS configuration of  *)
(* the management server.  Both parts load the CA as they start, in one    *)
(* process (`webfilter run`) or in one each; POST /api/certs/import        *)
(* replaces it while they run, and nothing keeps two of them apart.        *)
(*                                                                         *)
(* A certificate is [ca, ends]: the key pair it belongs to, and whether it *)
(* has expired.                                                            *)
(***************************************************************************)
EXTENDS Naturals

CONSTANTS
    Bundles,    \* what an administrator uploads: [crt, key, isCA]
    Importers,  \* requests being handled at a time, that import one
    Hosts,      \* sites that are intercepted
    None,
    MaxMade     \* bound: CAs generated

Parts  == {"proxy", "mgmt"}
Actors == Parts \cup Importers

VARIABLES
    together,   \* one process
    crt, key,   \* ca.crt and ca.key
    made,       \* CAs generated
    at,         \* per part: where its start is
    mem,        \* per part: the CA it has loaded (proxy: LeafIssuer.ca; mgmt: s.CA)
    leaf,       \* LeafIssuer.cache of the proxy: by whom each leaf is signed
    hand,       \* the leaf a handshake with the proxy has issued
    issuer,     \* Server.leafIssuer
    tls,        \* the CA of the issuer that the management TLS config holds
    imp,        \* per import: where it is, and its bundle
    outdated,   \* history: who had a file replaced by somebody else that it has read or written
    mixed,      \* history: imports overlapped since the management server started
    imported,   \* history: an import wrote since the proxy started
    rooted,     \* history: generated CAs that came to be on disk
    spoilt      \* history: the pair was left half-written, replaced under a reader, or has expired

files   == <<crt, key, made, rooted>>
proxy   == <<leaf, hand>>
mgmt    == <<issuer, tls>>
history == <<outdated, mixed, imported, spoilt>>
vars    == <<together, files, at, mem, proxy, mgmt, imp, history>>

NoImport == [pc |-> "idle", bundle |-> None]
NoLeaves == [h \in Hosts |-> None]
Made(n)  == [ca |-> n, ends |-> FALSE]

Init ==
    /\ together \in BOOLEAN
    /\ crt = None /\ key = None /\ made = 0 /\ rooted = 0
    /\ at = [p \in Parts |-> "down"] /\ mem = [p \in Parts |-> None]
    /\ leaf = NoLeaves /\ hand = [host |-> None, by |-> None]
    /\ issuer = None /\ tls = None
    /\ imp = [i \in Importers |-> NoImport]
    /\ outdated = {} /\ mixed = FALSE /\ imported = FALSE /\ spoilt = FALSE

-----------------------------------------------------------------------------
(* The two files.  Who is about to write both, or one of the two; who has  *)
(* read one of the two; and who relies on them as it read or wrote them.   *)

Place(a)   == IF a \in Parts THEN at[a] ELSE imp[a].pc
Half(a)    == IF a \in Parts THEN at[a] \in {"write crt", "write key"} ELSE imp[a].pc = "key"
Reading(a) == a \in Parts /\ at[a] = "key"

PutCert(a, c) ==
    LET others == Actors \ {a}
    IN  /\ crt' = c
        /\ spoilt' = (spoilt \/ \E o \in others : Half(o) \/ Reading(o))
        /\ outdated' = (outdated \ {a}) \cup {o \in others : Place(o) \in {"key", "write key", "up", "swap"}}
PutKey(a, k) ==
    LET others == Actors \ {a}
    IN  /\ key' = k
        /\ spoilt' = (spoilt \/ (\E o \in others : Half(o)) \/ crt.ends)
        /\ outdated' = outdated \cup {o \in others : Place(o) \in {"up", "swap"}}

-----------------------------------------------------------------------------
(* LoadOrCreateCA: whatever is wrong with the pair, a new one replaces it. *)

Usable(c, k) == c # None /\ k # None /\ c.ca = k /\ ~c.ends

Start(p) ==
    /\ at[p] = "down" /\ (together /\ p = "proxy" => at["mgmt"] = "up")
    /\ at' = [at EXCEPT ![p] = "crt"]
    /\ UNCHANGED <<together, files, mem, proxy, mgmt, imp, history>>
ReadCert(p) ==
    /\ at[p] = "crt" /\ at' = [at EXCEPT ![p] = "key"]
    /\ mem' = [mem EXCEPT ![p] = crt] /\ outdated' = outdated \ {p}
    /\ UNCHANGED <<together, files, proxy, mgmt, imp, mixed, imported, spoilt>>

(* The leaf cache is empty; the management TLS config is built once, with  *)
(* the issuer of the CA just loaded.                                       *)
Up(p) ==
    /\ at' = [at EXCEPT ![p] = "up"]
    /\ issuer' = (IF p = "mgmt" THEN mem[p].ca ELSE issuer)
    /\ tls' = (IF p = "mgmt" THEN mem[p].ca ELSE tls)
ReadKey(p) ==
    /\ at[p] = "key"
    /\ \/ Usable(mem[p], key) /\ Up(p) /\ UNCHANGED <<mem, made>>
       \/ /\ ~Usable(mem[p], key) /\ made < MaxMade
          /\ made' = made + 1 /\ mem' = [mem EXCEPT ![p] = Made(made')]
          /\ at' = [at EXCEPT ![p] = "write crt"] /\ UNCHANGED mgmt
    /\ UNCHANGED <<together, crt, key, rooted, proxy, imp, history>>

(* A write that fails ends the start, as Kill does.                        *)
WriteCert(p) ==
    /\ at[p] = "write crt" /\ at' = [at EXCEPT ![p] = "write key"]
    /\ PutCert(p, mem[p])
    /\ UNCHANGED <<together, key, made, rooted, mem, proxy, mgmt, imp, mixed, imported>>
WriteKey(p) ==
    /\ at[p] = "write key" /\ PutKey(p, mem[p].ca) /\ rooted' = rooted + 1
    /\ Up(p)
    /\ UNCHANGED <<together, crt, made, mem, proxy, imp, mixed, imported>>

(* A kill takes both parts of one process, and the imports of the          *)
(* management server's.                                                    *)
Kill(p) ==
    LET gone == IF together THEN Parts ELSE {p}
        lost == gone \cup IF "mgmt" \in gone THEN Importers ELSE {}
        cut  == \E a \in lost : Place(a) = "write key" \/ (a \in Importers /\ Half(a))
    IN  /\ at[p] # "down"
        /\ at' = [q \in Parts |-> IF q \in gone THEN "down" ELSE at[q]]
        /\ mem' = [q \in Parts |-> IF q \in gone THEN None ELSE mem[q]]
        /\ leaf' = (IF "proxy" \in gone THEN NoLeaves ELSE leaf)
        /\ hand' = (IF "proxy" \in gone THEN [host |-> None, by |-> None] ELSE hand)
        /\ issuer' = (IF "mgmt" \in gone THEN None ELSE issuer)
        /\ tls' = (IF "mgmt" \in gone THEN None ELSE tls)
        /\ imp' = [i \in Importers |-> IF i \in lost THEN NoImport ELSE imp[i]]
        /\ outdated' = outdated \ lost /\ spoilt' = (spoilt \/ cut)
        /\ mixed' = (mixed /\ "mgmt" \notin gone) /\ imported' = (imported /\ "proxy" \notin gone)
        /\ UNCHANGED <<together, files>>

-----------------------------------------------------------------------------
(* handleCertsImport and ImportBundle, of any number of requests at once.  *)
(* One process serves nobody before both parts are up.                     *)

BugAnyKey(b) == b.isCA
Valid(b) == b.isCA /\ b.crt.ca = b.key

Upload(i, b) ==
    /\ imp[i] = NoImport /\ at["mgmt"] = "up" /\ (together => at["proxy"] = "up") /\ Valid(b)
    /\ imp' = [imp EXCEPT ![i] = [pc |-> "crt", bundle |-> b]]
    /\ UNCHANGED <<together, files, at, mem, proxy, mgmt, history>>

(* Another import stands between its files and the server's CA.            *)
Meets(i) == \E j \in Importers \ {i} : imp[j].pc \in {"key", "swap"}
ImportCert(i) ==
    /\ imp[i].pc = "crt" /\ imp' = [imp EXCEPT ![i].pc = "key"]
    /\ PutCert(i, imp[i].bundle.crt)
    /\ mixed' = (mixed \/ Meets(i)) /\ imported' = (at["proxy"] # "down")
    /\ UNCHANGED <<together, key, made, rooted, at, mem, proxy, mgmt>>
ImportKey(i) ==
    /\ imp[i].pc = "key" /\ imp' = [imp EXCEPT ![i].pc = "swap"]
    /\ PutKey(i, imp[i].bundle.key)
    /\ mixed' = (mixed \/ Meets(i)) /\ imported' = (at["proxy"] # "down")
    /\ UNCHANGED <<together, crt, made, rooted, at, mem, proxy, mgmt>>

(* A write fails: the second one leaves the new certificate with the old   *)
(* key, and s.CA as it was.                                                *)
ImportFails(i) ==
    /\ imp[i].pc \in {"crt", "key"} /\ imp' = [imp EXCEPT ![i] = NoImport]
    /\ spoilt' = (spoilt \/ Half(i)) /\ outdated' = outdated \ {i}
    /\ UNCHANGED <<together, files, at, mem, proxy, mgmt, mixed, imported>>

(* s.CA = newCA, then ResetTLSLeafIssuer, then OnCARotated.                *)
SwapCA(i) ==
    /\ imp[i].pc = "swap" /\ imp' = [imp EXCEPT ![i].pc = "reset"]
    /\ mem' = [mem EXCEPT !["mgmt"] = imp[i].bundle.crt]
    /\ outdated' = (outdated \ {i, "mgmt"}) \cup IF i \in outdated THEN {"mgmt"} ELSE {}
    /\ UNCHANGED <<together, files, at, proxy, mgmt, mixed, imported, spoilt>>
ResetTLSLeafIssuer(i) ==
    /\ imp[i].pc = "reset" /\ imp' = [imp EXCEPT ![i].pc = "clear"]
    /\ issuer' = None
    /\ UNCHANGED <<together, files, at, mem, proxy, tls, history>>
Clear(i) ==
    /\ imp[i].pc = "clear" /\ imp' = [imp EXCEPT ![i] = NoImport]
    /\ leaf' = (IF together THEN NoLeaves ELSE leaf)
    /\ UNCHANGED <<together, files, at, mem, hand, mgmt, history>>

-----------------------------------------------------------------------------
(* CertificateFor of the proxy's issuer: issued without the lock.          *)

Issue(h) ==
    /\ at["proxy"] = "up" /\ hand.host = None /\ leaf[h] = None
    /\ hand' = [host |-> h, by |-> mem["proxy"].ca]
    /\ UNCHANGED <<together, files, at, mem, leaf, mgmt, imp, history>>
Cache ==
    /\ hand.host # None /\ leaf' = [leaf EXCEPT ![hand.host] = hand.by]
    /\ hand' = [host |-> None, by |-> None]
    /\ UNCHANGED <<together, files, at, mem, mgmt, imp, history>>
Expire(h) ==
    /\ leaf[h] # None /\ leaf' = [leaf EXCEPT ![h] = None]
    /\ UNCHANGED <<together, files, at, mem, hand, mgmt, imp, history>>

Import(i) ==
    \/ \E b \in Bundles : Upload(i, b)
    \/ ImportCert(i) \/ ImportKey(i) \/ ImportFails(i) \/ SwapCA(i) \/ ResetTLSLeafIssuer(i) \/ Clear(i)
Next ==
    \/ \E p \in Parts : Start(p) \/ ReadCert(p) \/ ReadKey(p) \/ WriteCert(p) \/ WriteKey(p) \/ Kill(p)
    \/ \E i \in Importers : Import(i)
    \/ (\E h \in Hosts : Issue(h) \/ Expire(h)) \/ Cache
Spec == Init /\ [][Next]_vars

-----------------------------------------------------------------------------
(* Properties                                                              *)

(* The root that clients have installed stays: no restart makes another,   *)
(* unless the pair was cut in two by a kill, a failed write or a second    *)
(* writer, was replaced under the reader, or has expired.                  *)
RootKept == ~spoilt => rooted <= 1

(* Whoever is up signs with the whole pair on disk and offers it for       *)
(* download, whatever its start met there, but for who had a file replaced *)
(* by somebody else since.                                                 *)
OneRoot == \A p \in Parts : at[p] = "up" /\ p \notin outdated => mem[p] = crt /\ key = crt.ca

(* That is, of a pair that was not spoilt: the proxy after an import, until*)
(* it is restarted; and the management server while an import is under way *)
(* or after two that overlapped, until it is.                              *)
WhoLags ==
    ~spoilt =>
        /\ at["proxy"] = "up" /\ "proxy" \in outdated => imported
        /\ at["mgmt"] = "up" /\ "mgmt" \in outdated =>
              mixed \/ \E i \in Importers : imp[i].pc \in {"key", "swap"}

(* No leaf outlives its issuer, whenever the cache was cleared.            *)
LeavesChain == \A h \in Hosts : leaf[h] # None => at["proxy"] = "up" /\ leaf[h] = mem["proxy"].ca

RootSound == RootKept /\ OneRoot /\ WhoLags /\ LeavesChain

(* "The management server's own TLS leaves (mgmt_tls) are minted from      *)
(* s.CA": after an import, HTTPS does not keep presenting leaves of the CA *)
(* that was replaced.                                                      *)
ManagementFollows ==
    at["mgmt"] = "up" /\ (\A i \in Importers : imp[i] = NoImport) => tls = mem["mgmt"].ca
=============================================================================
