----------------------------- MODULE MCUdpRelay -----------------------------
(* Instances of UdpRelay: a client with two ports, a stranger, and more    *)
(* destinations than the table holds.  The ports differ in nothing but     *)
(* which is heard first: one of them is.                                   *)
EXTENDS UdpRelay

CONSTANT Second     \* the client's ports that are not heard first

MCSpec == Init /\ [][Next /\ clientAddr' \notin Second]_vars /\ Fairness
=============================================================================
