------------------------------ MODULE RpcContract ------------------------------
(***************************************************************************)
(* What a synchronous request over an unreliable server promises: each     *)
(* request is asked once and told one outcome; it is told a reply only     *)
(* when the server has answered that very request, whatever arrives late,  *)
(* out of order or not at all.                                             *)
(***************************************************************************)
CONSTANT Requests

VARIABLES asked, served, told

rpcVars == <<asked, served, told>>

Outcome == {"none", "reply", "failed"}

RInit ==
    /\ asked = {} /\ served = {}
    /\ told = [q \in Requests |-> "none"]

Ask(q) ==
    /\ q \notin asked
    /\ asked' = asked \cup {q}
    /\ UNCHANGED <<served, told>>

Serve(q) ==
    /\ q \in asked \ served
    /\ served' = served \cup {q}
    /\ UNCHANGED <<asked, told>>

Tell(q, outcome) ==
    /\ q \in asked /\ told[q] = "none"
    /\ outcome = "reply" => q \in served
    /\ told' = [told EXCEPT ![q] = outcome]
    /\ UNCHANGED <<asked, served>>

RNext == \E q \in Requests :
    Ask(q) \/ Serve(q) \/ Tell(q, "reply") \/ Tell(q, "failed")

RSpec == RInit /\ [][RNext]_rpcVars
===============================================================================
