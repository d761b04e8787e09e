---------------------------- MODULE MCHostSetup -----------------------------
(* Instances of HostSetup: a host of either platform, one sysctl that is   *)
(* as gateway mode wants it or not, and one restart.                       *)
EXTENDS HostSetup
=============================================================================
