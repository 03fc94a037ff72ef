-------------------------- MODULE PermissionContract --------------------------
(***************************************************************************)
(* What an authorisation dialogue promises, whoever implements it: a       *)
(* request is settled at most once; the verdict is one the user gave for   *)
(* that very request, or says that no verdict was reached; the guarded     *)
(* tool runs at most once, and only on the verdict "allow".                *)
(*                                                                         *)
(* PermissionBroker implements this module (ImplementsContract).           *)
(***************************************************************************)
CONSTANT RequestId          \* permission requests (uuid4 in the code)

VARIABLES
    acks,       \* [RequestId -> SUBSET Decision] answers acknowledged to users
    verdict,    \* [RequestId -> Verdict] what the asking thread was told
    ran         \* requests whose tool was executed

contractVars == <<acks, verdict, ran>>

Decision == {"allow", "deny"}
NoVerdict == {"timeout", "cancelled", "refused"}    \* settled without an answer
Verdict == Decision \cup NoVerdict \cup {"open"}

CInit ==
    /\ acks = [r \in RequestId |-> {}]
    /\ verdict = [r \in RequestId |-> "open"]
    /\ ran = {}

\* A user's answer to r is acknowledged.  It may come too late to matter.
Answer(r, d) ==
    /\ acks' = [acks EXCEPT ![r] = @ \cup {d}]
    /\ UNCHANGED <<verdict, ran>>

\* The dialogue about r is over, with an acknowledged answer or with none.
Settle(r, v) ==
    /\ verdict[r] = "open"
    /\ v \in acks[r] \cup NoVerdict
    /\ verdict' = [verdict EXCEPT ![r] = v]
    /\ UNCHANGED <<acks, ran>>

\* The tool the request guards is executed.
Execute(r) ==
    /\ verdict[r] = "allow"
    /\ r \notin ran
    /\ ran' = ran \cup {r}
    /\ UNCHANGED <<acks, verdict>>

CNext ==
    \E r \in RequestId :
        \/ \E d \in Decision : Answer(r, d)
        \/ \E v \in Verdict : Settle(r, v)
        \/ Execute(r)

CSpec == CInit /\ [][CNext]_contractVars
===============================================================================
