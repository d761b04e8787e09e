----------------------------- MODULE MCConnection -----------------------------
(* Instances of Connection: a host that is blocked, one blocked on some     *)
(* paths and the management addresses, under policies that differ in every  *)
(* way a tunnel or a request is decided by.                                 *)
EXTENDS Connection

CONSTANTS bad, mixed,     \* hosts
          right           \* the password that is configured, if any

AllHosts == {bad, mixed, MgmtName, MgmtAddr}
UrlRules == [h \in AllHosts |-> CASE h = bad -> "block" [] h = mixed -> "paths" [] OTHER -> "none"]
NoRules  == [h \in AllHosts |-> "none"]

(* Nothing and everything filtered; the blocked host excluded from    *)
(* interception; include mode for one site; the mixed host allowed.         *)
Open     == [url |-> NoRules, exclude |-> {}, include |-> {}, uaRule |-> FALSE, filters |-> {}]
Strict   == [url |-> UrlRules, exclude |-> {}, include |-> {}, uaRule |-> TRUE, filters |-> Filters]
Excluded == [Open EXCEPT !.url = UrlRules, !.exclude = {bad, mixed}]
Included == [Open EXCEPT !.url = UrlRules, !.include = {bad}, !.filters = {"doh", "safesearch"}]
Allowing == [Strict EXCEPT !.url[mixed] = "allow", !.url[MgmtAddr] = "block", !.uaRule = FALSE]

AllPolicies  == {Strict, Excluded, Included, Allowing}

(* Authentication matters for splices and requests alike.                   *)
OnePolicy    == {[Strict EXCEPT !.exclude = {mixed}, !.filters = {"safesearch"}]}

NoAuth  == [on |-> FALSE, hash |-> NoPassword]
AuthOff == {NoAuth}
AnyAuth == {NoAuth} \cup {[on |-> o, hash |-> right] : o \in BOOLEAN}

OtherLists   == {{mixed}}
NoOtherLists == {{}}
===============================================================================
