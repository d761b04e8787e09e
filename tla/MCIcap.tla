------------------------------- MODULE MCIcap -------------------------------
(* One upload of a browser through a client proxy, under and over the      *)
(* limit of the server; see MCRules for the instance of all messages.      *)
EXTENDS Icap

Upload(n, p) ==
    [method |-> "REQMOD", service |-> {}, bytes |-> n, preview |-> p, allow204 |-> TRUE, close |-> FALSE,
     encapsulated |-> <<[name |-> "req-hdr", offset |-> 0], [name |-> "req-body", offset |-> 1]>>,
     clientIP |-> "u1", connect |-> FALSE, acceptEncoding |-> TRUE, encoding |-> "identity", declared |-> TRUE]
Uploads == {Upload(n, p) : n \in 2..5, p \in {-1, 1}}
=============================================================================
