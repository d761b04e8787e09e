------------------------------ MODULE MCCerts ------------------------------
(* The management server's certificate after an import.                    *)
EXTENDS Certs
Bundle(ca) == [crt |-> [ca |-> ca, ends |-> FALSE], key |-> ca, isCA |-> TRUE]
OwnCA == {Bundle(10)}
=============================================================================
