-------------------------- MODULE McpTransport_proofs --------------------------
(***************************************************************************)
(* The transport implements the contract of a request, for any number of   *)
(* threads and requests and any size of the pipes.                         *)
(***************************************************************************)
EXTENDS McpTransport, TLAPS

\* A thread has the id of a request while it is in request(), and nobody else
\* has that id; the request has been told nothing yet.
IdsHeld ==
    /\ \A p \in Threads : /\ th[p].pc = "idle" => th[p].id = 0
                          /\ th[p].pc = "waiting" => th[p].id # 0
                          /\ th[p].id # 0 => told[th[p].id] = "none"
    /\ \A p, q \in Threads : th[p].id # 0 /\ th[p].id = th[q].id => p = q

\* An id that was not given out has no outcome.
NewIsUntold ==
    /\ told \in [Ids -> C!Outcome]
    /\ \A i \in Ids : i > ids => told[i] = "none"

\* What is on its way to a thread as a reply was answered by the server.
RepliesServed ==
    /\ stdout \subseteq served
    /\ popped # 0 => popped \in served
    /\ \A i \in Ids : slot[i] = "reply" => i \in served

IInv == TypeOK /\ IdsHeld /\ NewIsUntold /\ RepliesServed

-----------------------------------------------------------------------------
\* Nothing was asked at the start.
LEMMA InvInit == Init => IInv
<1> SUFFICES ASSUME Init PROVE IInv  OBVIOUS
<1> USE TransportAssumption DEF Init, Idle, Ids
<1>1. stdin \in Seq(0..ids) /\ th \in [Threads -> [pc : {"idle", "writing", "blocked", "waiting"}, id : 0..ids]]
  OBVIOUS
<1>2. \A p \in Threads : holder = p <=> th[p].pc \in {"writing", "blocked"}  OBVIOUS
<1>3. ids \in 0..MaxIds /\ popped \in 0..ids /\ slot \in [Ids -> {"none", "reply", "failed"}]
  OBVIOUS
<1>4. TypeOK  BY <1>1, <1>2, <1>3 DEF TypeOK
<1>5. IdsHeld /\ NewIsUntold /\ RepliesServed
  BY DEF IdsHeld, NewIsUntold, RepliesServed, C!Outcome
<1> QED BY <1>4, <1>5 DEF IInv

\* A sequence of ids stays one when there are more ids.
LEMMA MoreIds ==
    ASSUME NEW m \in Nat, NEW s \in Seq(0..m)
    PROVE  s \in Seq(0..(m + 1))
<1>1. s \in [1..Len(s) -> 0..m] /\ Len(s) \in Nat  OBVIOUS
<1>2. s \in [1..Len(s) -> 0..(m + 1)]  BY <1>1
<1> QED BY <1>1, <1>2

\* Every step keeps the invariant.
LEMMA InvStep == ASSUME IInv, [Next]_vars PROVE IInv'
<1> USE TransportAssumption
    DEF IInv, TypeOK, IdsHeld, NewIsUntold, RepliesServed, C!Outcome, Ids, Idle,
        processVars, readerVars, closed, Alive, LockFree
<1>1. CASE Start  BY <1>1 DEF Start
<1>2. CASE CloseBegins \/ CloseStdin
  <2>1. UNCHANGED <<proc, reader, popped, holder, ids, pending, slot, stdin, stdout, th, served, told>>
    BY <1>2 DEF CloseBegins, CloseStdin
  <2>2. closing' \in {"stdin", "process"}  BY <1>2 DEF CloseBegins, CloseStdin
  <2>3. TypeOK'  BY <2>1, <2>2
  <2> QED BY <2>1, <2>3
<1>3. CASE Terminate
  <2>1. stdin' \in Seq(0..ids)  BY <1>3 DEF Terminate
  <2>2. TypeOK'  BY <1>3, <2>1 DEF Terminate
  <2> QED BY <1>3, <2>2 DEF Terminate
<1>4. ASSUME NEW p \in Threads, Request(p) PROVE IInv'
  <2>1. stdin' \in Seq(0..ids')  BY <1>4, MoreIds DEF Request
  <2>2. th' = [th EXCEPT ![p] = [pc |-> "writing", id |-> ids + 1]]  BY <1>4 DEF Request
  <2>3. ids' = ids + 1 /\ ids' \in 0..MaxIds  BY <1>4 DEF Request
  <2>4. TypeOK'  BY <1>4, <2>1, <2>2, <2>3 DEF Request
  <2>5. IdsHeld'  BY <1>4, <2>2, <2>3 DEF Request
  <2>6. NewIsUntold'  BY <1>4, <2>3 DEF Request
  <2>7. RepliesServed'  BY <1>4 DEF Request
  <2> QED BY <2>4, <2>5, <2>6, <2>7
<1>5. ASSUME NEW p \in Threads, Notify(p) PROVE IInv'
  <2>1. th' = [th EXCEPT ![p] = [pc |-> "writing", id |-> 0]]  BY <1>5 DEF Notify
  <2>2. TypeOK'  BY <1>5, <2>1 DEF Notify
  <2> QED BY <1>5, <2>1, <2>2 DEF Notify
<1>6. ASSUME NEW p \in Threads, Write(p) PROVE IInv'
  <2>1. stdin' \in Seq(0..ids)  BY <1>6 DEF Write
  <2>2. TypeOK'  BY <1>6, <2>1 DEF Write
  <2>3. IdsHeld'  BY <1>6 DEF Write
  <2> QED BY <1>6, <2>2, <2>3 DEF Write
<1>7. ASSUME NEW p \in Threads, WriteFails(p) PROVE IInv'
  <2>1. TypeOK'  BY <1>7 DEF WriteFails
  <2>2. IdsHeld'  BY <1>7 DEF WriteFails, Raise
  <2>3. NewIsUntold'  BY <1>7 DEF WriteFails, Raise
  <2> QED BY <1>7, <2>1, <2>2, <2>3 DEF WriteFails
<1>8. ASSUME NEW p \in Threads, Block(p) PROVE IInv'
  <2>1. /\ th' = [th EXCEPT ![p].pc = "blocked"]
        /\ UNCHANGED <<proc, closing, reader, popped, holder, ids, pending, slot, stdin, stdout, served, told>>
    BY <1>8 DEF Block
  <2>2. /\ th' \in [Threads -> [pc : {"idle", "writing", "blocked", "waiting"}, id : 0..ids]]
        /\ \A q \in Threads : th'[q].id = th[q].id
        /\ \A q \in Threads : th'[q].pc = IF q = p THEN "blocked" ELSE th[q].pc
    BY <2>1
  <2>3. th[p].pc = "writing"  BY <1>8 DEF Block
  <2>4. TypeOK'  BY <2>1, <2>2, <2>3
  <2>5. IdsHeld'  BY <2>1, <2>2, <2>3
  <2> QED BY <2>1, <2>4, <2>5
<1>9. ASSUME NEW p \in Threads, Wake(p) PROVE IInv'
  <2>1. th[p].id \in Ids /\ th[p].id <= ids  BY <1>9 DEF Wake
  <2>2. TypeOK'  BY <1>9 DEF Wake
  <2>3. IdsHeld'  BY <1>9, <2>1 DEF Wake
  <2>4. NewIsUntold'  BY <1>9, <2>1 DEF Wake
  <2> QED BY <1>9, <2>2, <2>3, <2>4 DEF Wake
<1>10. ASSUME NEW p \in Threads, TimeOut(p) PROVE IInv'
  <2>1. /\ th' \in [Threads -> [pc : {"idle", "writing", "blocked", "waiting"}, id : 0..ids]]
        /\ \A q \in Threads : holder = q <=> th'[q].pc \in {"writing", "blocked"}
    BY <1>10 DEF TimeOut
  <2>2. pending' \subseteq 1..ids /\ popped \notin pending'  BY <1>10 DEF TimeOut
  <2>3. TypeOK'  BY <1>10, <2>1, <2>2 DEF TimeOut
  <2>4. IdsHeld'  BY <1>10 DEF TimeOut, Raise
  <2>5. NewIsUntold'  BY <1>10 DEF TimeOut, Raise
  <2> QED BY <1>10, <2>3, <2>4, <2>5 DEF TimeOut
<1>11. CASE ReadReply
  <2>1. PICK i \in stdout : /\ stdout' = stdout \ {i}
                            /\ popped' = SlotOf(i)
                            /\ pending' = PopSlot(SlotOf(i))
    BY <1>11 DEF ReadReply
  <2>2. popped' \in {0, i} /\ pending' = pending \ {popped'}  BY <2>1 DEF SlotOf, PopSlot
  <2>3. popped' \in 0..ids /\ popped' \notin pending' /\ pending' \subseteq 1..ids
    <3>1. ids \in Nat /\ i \in 1..ids /\ pending \subseteq 1..ids  OBVIOUS
    <3> QED BY ONLY <2>2, <3>1
  <2>4. stdout' \subseteq stdout  BY <2>1
  <2>5. TypeOK'  BY <1>11, <2>3, <2>4 DEF ReadReply
  <2> QED BY <1>11, <2>1, <2>2, <2>5 DEF ReadReply
<1>12. CASE FillSlot  BY <1>12 DEF FillSlot
<1>13. CASE EndReader  BY <1>13 DEF EndReader
<1>14. CASE ServerReads
  <2>1. stdin # <<>> /\ stdin' = Tail(stdin)  BY <1>14 DEF ServerReads
  <2>2. stdin' \in Seq(0..ids) /\ Head(stdin) \in 0..ids  BY <2>1
  <2>3. CASE UNCHANGED <<stdout, served>>  BY <1>14, <2>2, <2>3 DEF ServerReads
  <2>4. CASE /\ Head(stdin) # 0
             /\ stdout' = stdout \cup {Head(stdin)}
             /\ served' = served \cup {Head(stdin)}
    <3>1. stdout' \subseteq 1..ids /\ stdout' \subseteq served'
      <4>1. Head(stdin) \in 1..ids  BY <2>2, <2>4
      <4>2. stdout \subseteq 1..ids /\ stdout \subseteq served  OBVIOUS
      <4> QED BY ONLY <2>4, <4>1, <4>2
    <3>2. TypeOK'  BY <1>14, <2>2, <3>1 DEF ServerReads
    <3>3. served \subseteq served'  BY <2>4
    <3>4. RepliesServed'  BY <1>14, <3>1, <3>3 DEF ServerReads
    <3> QED BY <1>14, <3>2, <3>4 DEF ServerReads
  <2> QED BY <1>14, <2>3, <2>4 DEF ServerReads
<1>15. CASE ServerExits
  <2>1. stdin' \in Seq(0..ids)  BY <1>15 DEF ServerExits
  <2> QED BY <1>15, <2>1 DEF ServerExits
<1>16. CASE UNCHANGED vars  BY <1>16 DEF vars
<1> QED
  BY <1>1, <1>2, <1>3, <1>4, <1>5, <1>6, <1>7, <1>8, <1>9, <1>10, <1>11, <1>12, <1>13, <1>14, <1>15, <1>16
     DEF Next, ThreadRuns, CloseRuns

\* The inductive invariant holds in every reachable state.
THEOREM Invariance == Spec => []IInv
BY InvInit, InvStep, PTL DEF Spec

\* A thread holds the lock exactly while it writes, and only requests made
\* have slots, replies or outcomes.
THEOREM TypeCorrect == Spec => []TypeOK
BY Invariance, PTL DEF IInv

-----------------------------------------------------------------------------
\* Nothing was asked, answered or told.
LEMMA RefinesInit == Init => C!RInit
BY TransportAssumption DEF Init, C!RInit, Ids

\* A step that tells a request something tells it once, and a reply only when
\* the server has answered.
LEMMA TellsOnce ==
    ASSUME IInv, NEW p \in Threads, th[p].id # 0,
           NEW outcome \in {"reply", "failed"},
           outcome = "reply" => slot[th[p].id] = "reply",
           told' = [told EXCEPT ![th[p].id] = outcome],
           UNCHANGED <<ids, served>>
    PROVE  C!RNext
<1>1. th[p].id \in Ids /\ th[p].id \in 1..ids
  BY TransportAssumption DEF IInv, TypeOK, Ids
<1>2. C!Tell(th[p].id, outcome)
  BY <1>1 DEF IInv, IdsHeld, RepliesServed, C!Tell
<1> QED BY <1>1, <1>2 DEF C!RNext

\* Every step is one of the contract for one request, or none.
LEMMA RefinesStep == ASSUME IInv, [Next]_vars PROVE [C!RNext]_(C!rpcVars)
<1> DEFINE Goal == [C!RNext]_(C!rpcVars)
<1> SUFFICES Goal  OBVIOUS
<1> USE TransportAssumption DEF processVars, readerVars
<1>0. ASSUME UNCHANGED <<ids, served, told>> PROVE Goal  BY <1>0 DEF C!rpcVars
<1>1. ASSUME NEW p \in Threads, Request(p) PROVE Goal
  <2>1. ids \in 0..MaxIds /\ ids + 1 \in Ids /\ ids' = ids + 1
    BY <1>1 DEF Request, IInv, TypeOK, Ids
  <2>2. 1..ids' = (1..ids) \cup {ids + 1} /\ ids + 1 \notin 1..ids  BY <2>1
  <2>3. C!Ask(ids + 1)  BY <1>1, <2>2 DEF Request, C!Ask
  <2> QED BY <2>1, <2>3 DEF C!RNext
<1>2. ASSUME NEW p \in Threads, Raise(p), UNCHANGED <<ids, served>> PROVE Goal
  <2>1. told \in [Ids -> C!Outcome]  BY DEF IInv, NewIsUntold
  <2>2. CASE th[p].id = 0
    <3>1. told' = told  BY <1>2, <2>1, <2>2 DEF Raise, Ids
    <3> QED BY <1>0, <1>2, <3>1
  <2>3. CASE th[p].id # 0
    <3>1. told' = [told EXCEPT ![th[p].id] = "failed"]  BY <1>2, <2>1 DEF Raise
    <3> QED BY <1>2, <2>3, <3>1, TellsOnce
  <2> QED BY <2>2, <2>3
<1>3. ASSUME NEW p \in Threads, WriteFails(p) PROVE Goal
  BY <1>2, <1>3 DEF WriteFails
<1>4. ASSUME NEW p \in Threads, TimeOut(p) PROVE Goal
  BY <1>2, <1>4 DEF TimeOut
<1>5. ASSUME NEW p \in Threads, Wake(p) PROVE Goal
  <2>1. th[p].id # 0 /\ th[p].id \in Ids
    BY <1>5 DEF Wake, IInv, TypeOK, IdsHeld, Ids
  <2>2. slot[th[p].id] \in {"reply", "failed"}
    BY <1>5, <2>1 DEF Wake, IInv, TypeOK
  <2> QED BY <1>5, <2>1, <2>2, TellsOnce DEF Wake
<1>6. CASE ServerReads
  <2>1. CASE UNCHANGED <<stdout, served>>  BY <1>0, <1>6, <2>1 DEF ServerReads
  <2>2. CASE Head(stdin) # 0 /\ served' = served \cup {Head(stdin)}
    <3>1. Head(stdin) \in 1..ids /\ Head(stdin) \in Ids
      BY <1>6, <2>2 DEF ServerReads, IInv, TypeOK, Ids
    <3>2. CASE Head(stdin) \in served
      <4>1. served' = served  BY <2>2, <3>2
      <4> QED BY <1>0, <1>6, <4>1 DEF ServerReads
    <3>3. CASE Head(stdin) \notin served
      <4>1. C!Serve(Head(stdin))  BY <1>6, <2>2, <3>1, <3>3 DEF ServerReads, C!Serve
      <4> QED BY <3>1, <4>1 DEF C!RNext
    <3> QED BY <3>2, <3>3
  <2> QED BY <1>6, <2>1, <2>2 DEF ServerReads
<1>7. ASSUME NEW p \in Threads, Notify(p) \/ Write(p) \/ Block(p) PROVE Goal
  BY <1>0, <1>7 DEF Notify, Write, Block
<1>8. CASE \/ Start \/ CloseBegins \/ CloseStdin \/ Terminate
           \/ ReadReply \/ FillSlot \/ EndReader \/ ServerExits
  BY <1>0, <1>8 DEF Start, CloseBegins, CloseStdin, Terminate, ReadReply, FillSlot, EndReader, ServerExits
<1>9. CASE UNCHANGED vars  BY <1>0, <1>9 DEF vars
<1> QED
  BY <1>1, <1>3, <1>4, <1>5, <1>6, <1>7, <1>8, <1>9 DEF Next, ThreadRuns, CloseRuns

\* Every request is told one outcome, and a reply only when the server has
\* answered that very request, whatever is late, reordered or missing.
THEOREM RpcHolds == Spec => ImplementsRpc
<1>1. IInv /\ [Next]_vars => [C!RNext]_(C!rpcVars)  BY RefinesStep
<1> QED BY <1>1, RefinesInit, Invariance, PTL DEF Spec, ImplementsRpc, C!RSpec
===============================================================================
