-------------------------- MODULE MCPermissionBroker --------------------------
(* PermissionBroker for TLC.  All threads share one session: two runs, which  *)
(* the session lock puts one after the other, and a REST call beside them.    *)
(* Two requests let any two of them meet in the broker, and let an old        *)
(* request id meet a later slot.  Every operation of the broker touches one   *)
(* session's entry only; PermissionBroker_proofs covers any number of them.   *)
EXTENDS PermissionBroker
===============================================================================
