------------------------------ MODULE Sessions ------------------------------
(***************************************************************************)
(* The management API's door: mgmtapi's webUIGate, authMiddleware and      *)
(* requireUnlocked in front of every route, login and logout, and the PUT  *)
(* that changes the password they ask for.                                 *)
(*                                                                         *)
(* Each reads the settings, the switch and the lock again, so a request    *)
(* can be judged by several of them.  A hash is [pw, salt], the salt being *)
(* the number of the password; a token is what it was made from.  The file *)
(* behind the settings is in SettingsReload.                               *)
(***************************************************************************)
EXTENDS Integers

CONSTANTS
    Browsers, Passwords, Bearers,
    NoHash, NoKey,      \* nothing configured
    Blank,              \* no cookie, no header, no password
    Idle,
    MaxPasswords,       \* bounds the passwords set
    MaxFlips            \* and the flips of the switch and the lock

VARIABLES
    cfg,        \* Server.settings: [auth, hash, key, metrics]
    off,        \* WebUIDisabled()
    locked,     \* managed.json's settings_locked
    cookie,     \* a browser's wf_session
    req,        \* a browser's request in the handlers, or Idle
    set,        \* passwords set so far
    newest,     \* the last of them that was saved
    overlapped, \* whether a save has undone another one
    flips       \* switches and locks so far

ghosts == <<newest, overlapped>>
vars   == <<cfg, off, locked, cookie, req, set, flips, ghosts>>

PublicPaths   == {"login", "logout", "pac", "asset"}
WebUIOffPaths == {"pac"}
Paths         == PublicPaths \cup {"page", "metrics", "settings"}

Open(c)  == ~c.auth \/ c.hash = NoHash
Token(c) == <<c.key, c.hash>>
Verify(password, h) == h # NoHash /\ h.pw = password
BugEmptyTokenMatches(c, r) == r.bearer = c.metrics
MetricsTokenValid(c, r) == c.metrics # Blank /\ r.bearer = c.metrics

(* What a request may be judged by: what has been so since it came.        *)
Welcome(c, r) ==
    \/ ~c.auth \/ c.hash = NoHash
    \/ r.path \in PublicPaths
    \/ r.cookie # Blank /\ c.hash # NoHash /\ r.cookie.made = c.hash.salt
Grounds(c, r) == Welcome(c, r) \/ (r.path = "metrics" /\ r.bearer \in Bearers /\ r.bearer = c.metrics)
Witness(r, c, o, l) ==
    IF r = Idle THEN r
    ELSE [r EXCEPT !.let = @ \/ Grounds(c, r), !.barred = @ \/ ~Welcome(c, r),
                   !.shown = @ \/ ~o, !.free = @ \/ ~l]
Goto(b, l)   == req' = [req EXCEPT ![b].at = l]
Reply(b)     == req' = [req EXCEPT ![b] = Idle]

Arrive(b) ==
    \E p \in Paths, h \in Bearers \cup {Blank} :
        /\ req[b] = Idle
        /\ p # "metrics" => h = Blank
        /\ req' = [req EXCEPT ![b] = Witness([path |-> p, bearer |-> h, cookie |-> cookie[b], at |-> "gate", merged |-> Blank, behind |-> FALSE, fresh |-> FALSE,
                        let |-> FALSE, barred |-> FALSE, shown |-> FALSE, free |-> FALSE], cfg, off, locked)]
        /\ UNCHANGED <<cfg, off, locked, cookie, set, flips, ghosts>>

WebUIGate(b) ==
    /\ req[b].at = "gate"
    /\ \/ off /\ req[b].path \notin WebUIOffPaths /\ Reply(b)
       \/ (~off \/ req[b].path \in WebUIOffPaths) /\ Goto(b, "auth")
    /\ UNCHANGED <<cfg, off, locked, cookie, set, flips, ghosts>>

AuthMiddleware(b) ==
    /\ req[b].at = "auth"
    /\ Goto(b, IF \/ Open(cfg) \/ req[b].path \in PublicPaths
                  \/ req[b].path = "metrics" /\ MetricsTokenValid(cfg, req[b])
               THEN "serve" ELSE "token")
    /\ UNCHANGED <<cfg, off, locked, cookie, set, flips, ghosts>>
AuthTokenValid(b) ==
    /\ req[b].at = "token"
    /\ Goto(b, IF Open(cfg) \/ (req[b].cookie # Blank /\ req[b].cookie.token = Token(cfg)) THEN "serve" ELSE "denied")
    /\ UNCHANGED <<cfg, off, locked, cookie, set, flips, ghosts>>
Deny(b) ==
    /\ req[b].at = "denied" /\ Reply(b)
    /\ UNCHANGED <<cfg, off, locked, cookie, set, flips, ghosts>>

-----------------------------------------------------------------------------
(* The routes                                                              *)

Login(b) ==
    /\ req[b].at = "serve" /\ req[b].path = "login"
    /\ Reply(b)
    /\ \/ UNCHANGED cookie     \* nothing to log in to, or another password
       \/ /\ ~Open(cfg) /\ \E w \in Passwords : Verify(w, cfg.hash)
          /\ cookie' = [cookie EXCEPT ![b] = [token |-> Token(cfg), made |-> cfg.hash.salt]]
    /\ UNCHANGED <<cfg, off, locked, set, flips, ghosts>>
Logout(b) ==
    /\ req[b].at = "serve" /\ req[b].path = "logout" /\ Reply(b)
    /\ cookie' = [cookie EXCEPT ![b] = Blank]
    /\ UNCHANGED <<cfg, off, locked, set, flips, ghosts>>
ServeRead(b) ==
    /\ req[b].at = "serve" /\ req[b].path \notin {"login", "logout", "settings"} /\ Reply(b)
    /\ UNCHANGED <<cfg, off, locked, cookie, set, flips, ghosts>>

RequireUnlocked(b) ==
    /\ req[b].at = "serve" /\ req[b].path = "settings"
    /\ IF locked THEN Reply(b) ELSE Goto(b, "merge")
    /\ UNCHANGED <<cfg, off, locked, cookie, set, flips, ghosts>>

(* MergeSettings over the settings read now: the hash and the key are only *)
(* ever written by a new password.                                         *)
Merged(c, body) ==
    [auth |-> body.enable, metrics |-> body.metrics,
     hash |-> IF body.password = Blank THEN c.hash ELSE [pw |-> body.password, salt |-> set + 1],
     key  |-> IF body.password # Blank /\ c.key = NoKey THEN set + 1 ELSE c.key]
MergeSettings(b) ==
    \E e \in BOOLEAN, w \in Passwords \cup {Blank}, t \in Bearers \cup {Blank} :
        LET m == Merged(cfg, [enable |-> e, password |-> w, metrics |-> t]) IN
        /\ req[b].at = "merge"
        /\ w # Blank => set < MaxPasswords
        /\ set' = IF w = Blank THEN set ELSE set + 1
        /\ IF m.auth /\ m.hash = NoHash THEN Reply(b)
           ELSE req' = [req EXCEPT ![b].at = "save", ![b].merged = m, ![b].fresh = w # Blank]
        /\ UNCHANGED <<cfg, off, locked, cookie, flips, ghosts>>

(* SaveSettings: the document as a whole.  A merge over settings that have *)
(* been replaced since brings them back.                                   *)
Watched(c, o, l) == [b \in Browsers |-> Witness(req[b], c, o, l)]
SaveSettings(b) ==
    LET m == req[b].merged IN
    /\ req[b].at = "save"
    /\ \/ Reply(b) /\ UNCHANGED <<cfg, ghosts>>    \* the file could not be written
       \/ /\ cfg' = m
          /\ newest' = IF req[b].fresh THEN m.hash.salt ELSE newest
          /\ overlapped' = (overlapped \/ req[b].behind)
          /\ req' = [c \in Browsers |-> IF c = b \/ req[c] = Idle THEN Idle
                      ELSE [Watched(m, off, locked)[c] EXCEPT !.behind = @ \/ req[c].at = "save"]]
    /\ UNCHANGED <<off, locked, cookie, set, flips>>

-----------------------------------------------------------------------------
(* Outside: the app's switch, the manager's lock, a cookie's seven days.   *)

SetWebUiEnabled ==
    /\ flips < MaxFlips /\ flips' = flips + 1
    /\ off' = ~off /\ req' = Watched(cfg, ~off, locked)
    /\ UNCHANGED <<cfg, locked, cookie, set, ghosts>>
SetLock ==
    /\ flips < MaxFlips /\ flips' = flips + 1
    /\ locked' = ~locked /\ req' = Watched(cfg, off, ~locked)
    /\ UNCHANGED <<cfg, off, cookie, set, ghosts>>
Expire(b) ==
    /\ req[b] = Idle /\ cookie[b] # Blank
    /\ cookie' = [cookie EXCEPT ![b] = Blank]
    /\ UNCHANGED <<cfg, off, locked, req, set, flips, ghosts>>

(* Settings as earlier processes have left them.                           *)
Stored ==
    {[auth |-> FALSE, hash |-> NoHash, key |-> NoKey, metrics |-> Blank],
     [auth |-> TRUE, hash |-> NoHash, key |-> NoKey, metrics |-> Blank]}
    \cup [auth : {TRUE}, hash : [pw : Passwords, salt : {0}], key : {0}, metrics : Bearers \cup {Blank}]
Init ==
    /\ cfg \in Stored /\ off \in BOOLEAN /\ locked = FALSE
    /\ cookie \in [Browsers -> {Blank} \cup {[token |-> Token(c), made |-> 0] : c \in {d \in {cfg} : d.hash # NoHash}}]
    /\ req = [b \in Browsers |-> Idle]
    /\ set = 0 /\ newest = 0 /\ overlapped = FALSE /\ flips = 0
Handle(b) ==
    \/ WebUIGate(b) \/ AuthMiddleware(b) \/ AuthTokenValid(b) \/ Deny(b)
    \/ Login(b) \/ Logout(b) \/ ServeRead(b)
    \/ RequireUnlocked(b) \/ MergeSettings(b) \/ SaveSettings(b)
Next ==
    \/ \E b \in Browsers : Arrive(b) \/ (req[b] # Idle /\ Handle(b)) \/ Expire(b)
    \/ SetWebUiEnabled \/ SetLock
Spec == Init /\ [][Next]_vars

-----------------------------------------------------------------------------
(* Properties                                                              *)

(* However settings, switch and lock move under a request, it is served    *)
(* only if it had the grounds at some moment since it came, and turned away*)
(* only if at some moment it was not welcome.                              *)
JudgedOnGrounds ==
    \A b \in Browsers : req[b] # Idle =>
        /\ req[b].at \in {"serve", "merge", "save"} => req[b].let /\ (req[b].path \in WebUIOffPaths \/ req[b].shown)
        /\ req[b].at = "save" => req[b].free
        /\ req[b].at = "denied" => req[b].barred

(* A password that was replaced does not come back, and its sessions with  *)
(* it, unless a PUT that had read the settings before is saved after; and  *)
(* there is no password without a key to sign its sessions.                *)
PasswordReplaced ==
    cfg.hash # NoHash => /\ cfg.key # NoKey
                         /\ ~overlapped => cfg.hash.salt = newest

SessionSound == JudgedOnGrounds /\ PasswordReplaced
=============================================================================
