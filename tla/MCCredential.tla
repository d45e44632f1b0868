---------------------------- MODULE MCCredential ----------------------------
(***************************************************************************)
(* Instances of Credential for TLC: the WiFi key, and the DDNS password.   *)
(***************************************************************************)
EXTENDS Credential
=============================================================================
