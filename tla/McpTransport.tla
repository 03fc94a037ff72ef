------------------------------ MODULE McpTransport ------------------------------
(***************************************************************************)
(* StdioJSONRPCTransport: JSON-RPC requests and notifications of several   *)
(* threads over the pipes of one child process.  A request registers its   *)
(* slot and writes under the lock, and waits without it; the reader thread *)
(* pops the slot of a reply under the lock and fills it without.           *)
(*                                                                         *)
(* The server is not trusted to do anything: it may answer late, in any    *)
(* order or never, stop reading its pipe, write what is no message, exit.  *)
(* A write into a full pipe keeps _lock and the lock of the stdin object,  *)
(* which close() has to wait for before it can end the process.            *)
(***************************************************************************)
EXTENDS Naturals, Sequences, FiniteSets

CONSTANTS Threads, NoThread,
          MaxIds,       \* bound on the requests
          PipeSize      \* messages a pipe holds before a write blocks

ASSUME TransportAssumption ==
    NoThread \notin Threads /\ MaxIds \in Nat /\ PipeSize \in Nat \ {0}

VARIABLES
    proc,       \* the child process
    closing,    \* "no" before close(), then what close() has to do next: close
                \* "stdin", end the "process"; "done"
    reader,     \* the reader thread is in its loop
    holder,     \* the thread that has _lock
    ids,        \* _id
    pending,    \* _pending
    slot,       \* per request: what the reader has put into its slot
    popped,     \* the slot the reader is about to fill, 0 for none
    stdin, stdout,
    th,         \* per thread: [pc, id], id 0 for a notification
    served,     \* history: the requests the server answered
    told        \* history: what request() returned or raised

processVars == <<proc, closing>>
readerVars  == <<reader, popped>>
vars == <<processVars, readerVars, holder, ids, pending, slot, stdin, stdout, th, served, told>>

Ids  == 1..MaxIds
Idle == [pc |-> "idle", id |-> 0]

Init ==
    /\ proc = "none" /\ closing = "no"
    /\ reader = FALSE /\ popped = 0
    /\ holder = NoThread
    /\ ids = 0 /\ pending = {}
    /\ slot = [i \in Ids |-> "none"]
    /\ stdin = <<>> /\ stdout = {}
    /\ th = [p \in Threads |-> Idle]
    /\ served = {} /\ told = [i \in Ids |-> "none"]

\* _closed is set and _proc is None
closed   == closing # "no"
Alive    == proc = "up" /\ ~closed
LockFree == holder = NoThread
PipeFull == Len(stdin) = PipeSize

\* The child still has the other end, and stdin.close() was not done.
PipeOpen == proc = "up" /\ closing \in {"no", "stdin"}

-----------------------------------------------------------------------------
\* start and close; neither takes the lock.

Start ==
    /\ proc = "none" /\ ~closed
    /\ proc' = "up" /\ reader' = TRUE
    /\ UNCHANGED <<closing, popped, holder, ids, pending, slot, stdin, stdout, th, served, told>>

\* _closed is set, and _proc is taken away from the requests that come.
CloseBegins ==
    /\ proc # "none" /\ ~closed
    /\ closing' = "stdin"
    /\ UNCHANGED <<proc, readerVars, holder, ids, pending, slot, stdin, stdout, th, served, told>>

\* stdin.close() waits for a thread that is inside write or flush.
CloseStdin ==
    /\ closing = "stdin"
    /\ \A p \in Threads : th[p].pc # "blocked"
    /\ closing' = "process"
    /\ UNCHANGED <<proc, readerVars, holder, ids, pending, slot, stdin, stdout, th, served, told>>

\* Mutant: a server that ignores the signal is left alone.
OnlyTerminate ==
    /\ closing = "process"
    /\ closing' = "done"
    /\ proc' \in {proc, "exited"} /\ stdin' = IF proc' = "exited" THEN <<>> ELSE stdin
    /\ UNCHANGED <<readerVars, holder, ids, pending, slot, stdout, th, served, told>>

\* terminate, and kill when the process does not end.
Terminate ==
    /\ closing = "process"
    /\ closing' = "done"
    /\ proc' = "exited" /\ stdin' = <<>>
    /\ UNCHANGED <<readerVars, holder, ids, pending, slot, stdout, th, served, told>>

-----------------------------------------------------------------------------
\* request and notify

\* The lock, the next id and its slot.
Request(p) ==
    /\ th[p].pc = "idle" /\ LockFree /\ Alive /\ ids < MaxIds
    /\ holder' = p
    /\ ids' = ids + 1
    /\ pending' = pending \cup {ids + 1}
    /\ th' = [th EXCEPT ![p] = [pc |-> "writing", id |-> ids + 1]]
    /\ UNCHANGED <<processVars, readerVars, slot, stdin, stdout, served, told>>

Notify(p) ==
    /\ th[p].pc = "idle" /\ LockFree /\ Alive
    /\ holder' = p
    /\ th' = [th EXCEPT ![p] = [pc |-> "writing", id |-> 0]]
    /\ UNCHANGED <<processVars, readerVars, ids, pending, slot, stdin, stdout, served, told>>

\* stdin.write and flush: a thread that had taken stdin from _proc can do it
\* until close() comes to stdin.
Write(p) ==
    /\ th[p].pc \in {"writing", "blocked"} /\ PipeOpen /\ ~PipeFull
    /\ stdin' = Append(stdin, th[p].id)
    /\ holder' = NoThread
    /\ th' = [th EXCEPT ![p] = IF th[p].id = 0 THEN Idle ELSE [pc |-> "waiting", id |-> th[p].id]]
    /\ UNCHANGED <<processVars, readerVars, ids, pending, slot, stdout, served, told>>

\* The pipe is full: the thread stays in flush, with the lock and with stdin's.
Block(p) ==
    /\ th[p].pc = "writing" /\ PipeOpen /\ PipeFull
    /\ th' = [th EXCEPT ![p].pc = "blocked"]
    /\ UNCHANGED <<processVars, readerVars, holder, ids, pending, slot, stdin, stdout, served, told>>

Raise(p) == told' = [i \in Ids |-> IF i = th[p].id THEN "failed" ELSE told[i]]

\* _proc is None by now, stdin is closed or the pipe is broken, which alone reaches
\* a thread that is in flush; the slot stays registered.
WriteFails(p) ==
    /\ \/ th[p].pc = "writing" /\ ~Alive
       \/ th[p].pc = "blocked" /\ proc = "exited"
    /\ holder' = NoThread
    /\ Raise(p)
    /\ th' = [th EXCEPT ![p] = Idle]
    /\ UNCHANGED <<processVars, readerVars, ids, pending, slot, stdin, stdout, served>>

\* The event is set: the slot's result, or its error.
Wake(p) ==
    /\ th[p].pc = "waiting" /\ slot[th[p].id] # "none"
    /\ told' = [told EXCEPT ![th[p].id] = slot[th[p].id]]
    /\ th' = [th EXCEPT ![p] = Idle]
    /\ UNCHANGED <<processVars, readerVars, holder, ids, pending, slot, stdin, stdout, served>>

\* Mutant: event.wait() without a timeout.
NeverTimeOut(p) == FALSE /\ UNCHANGED vars

\* event.wait gave up; the slot is taken out under the lock.  The reader may have
\* set the event in the meantime: the request fails all the same.
TimeOut(p) ==
    /\ th[p].pc = "waiting" /\ LockFree
    /\ pending' = pending \ {th[p].id}
    /\ Raise(p)
    /\ th' = [th EXCEPT ![p] = Idle]
    /\ UNCHANGED <<processVars, readerVars, holder, ids, slot, stdin, stdout, served>>

-----------------------------------------------------------------------------
\* The reader thread

\* Mutant: replies are taken in the order of the requests, not by their ids.
OldestSlot(i) ==
    IF pending = {} THEN 0 ELSE CHOOSE j \in pending : \A k \in pending : j <= k

\* _pending.pop(msg["id"], None)
SlotOf(i) == IF i \in pending THEN i ELSE 0

\* Mutant: the slot is looked up and left in the table.
LeaveSlot(j) == pending

PopSlot(j) == pending \ {j}

\* A reply nobody waits for is dropped.
ReadReply ==
    /\ reader /\ popped = 0 /\ LockFree
    /\ \E i \in stdout :
          /\ stdout' = stdout \ {i}
          /\ popped' = SlotOf(i)
          /\ pending' = PopSlot(SlotOf(i))
    /\ UNCHANGED <<processVars, reader, holder, ids, slot, stdin, th, served, told>>

\* slot["result"] and event.set(), without the lock.
FillSlot ==
    /\ popped # 0
    /\ slot' = [slot EXCEPT ![popped] = "reply"]
    /\ popped' = 0
    /\ UNCHANGED <<processVars, reader, holder, ids, pending, stdin, stdout, th, served, told>>

\* The finally of the loop: the process has ended, the transport is closed, or a
\* message had no Content-Length or no valid JSON and the process goes on.
EndReader ==
    /\ reader /\ popped = 0 /\ LockFree
    /\ reader' = FALSE
    /\ slot' = [i \in Ids |-> IF i \in pending THEN "failed" ELSE slot[i]]
    /\ pending' = {}
    /\ UNCHANGED <<processVars, popped, holder, ids, stdin, stdout, th, served, told>>

-----------------------------------------------------------------------------
\* The server

ServerReads ==
    /\ proc = "up" /\ stdin # <<>>
    /\ stdin' = Tail(stdin)
    /\ LET i == Head(stdin) IN
       \/ /\ i # 0 /\ Cardinality(stdout) < PipeSize
          /\ stdout' = stdout \cup {i}
          /\ served' = served \cup {i}
       \/ UNCHANGED <<stdout, served>>
    /\ UNCHANGED <<processVars, readerVars, holder, ids, pending, slot, th, told>>

ServerExits ==
    /\ proc = "up"
    /\ proc' = "exited" /\ stdin' = <<>>
    /\ UNCHANGED <<closing, readerVars, holder, ids, pending, slot, stdout, th, served, told>>

-----------------------------------------------------------------------------
ThreadRuns(p) == Write(p) \/ Block(p) \/ WriteFails(p) \/ Wake(p) \/ TimeOut(p)
CloseRuns     == CloseStdin \/ Terminate

Next ==
    \/ Start \/ CloseBegins \/ CloseRuns
    \/ \E p \in Threads : Request(p) \/ Notify(p) \/ ThreadRuns(p)
    \/ ReadReply \/ FillSlot \/ EndReader
    \/ ServerReads \/ ServerExits

\* A thread runs, and its wait times out when it can have the lock; the thread
\* that closes runs, and has stdin when it can.  Neither the server nor the
\* reader owes anything.
Fairness == SF_vars(CloseRuns) /\ \A p \in Threads : SF_vars(ThreadRuns(p))

Spec == Init /\ [][Next]_vars /\ Fairness

-----------------------------------------------------------------------------
\* The state the code keeps: a thread holds the lock exactly while it writes, and
\* only requests made have slots, replies or outcomes.
TypeOK ==
    /\ proc \in {"none", "up", "exited"}
    /\ closing \in {"no", "stdin", "process", "done"} /\ reader \in BOOLEAN
    /\ closing = "done" => proc = "exited"
    /\ ids \in 0..MaxIds
    /\ pending \subseteq 1..ids
    /\ slot \in [Ids -> {"none", "reply", "failed"}]
    /\ popped \in 0..ids /\ popped \notin pending
    /\ stdin \in Seq(0..ids)
    /\ stdout \subseteq 1..ids
    /\ th \in [Threads -> [pc : {"idle", "writing", "blocked", "waiting"}, id : 0..ids]]
    /\ \A p \in Threads : holder = p <=> th[p].pc \in {"writing", "blocked"}
    /\ holder \in Threads \cup {NoThread}

\* Every request is told one outcome, and told a reply only when the server has
\* answered that request: late, reordered and missing replies, timeouts and the
\* reader's end never give a thread the reply of another.
C == INSTANCE RpcContract WITH
        Requests <- Ids, asked <- 1..ids, served <- served, told <- told
ImplementsRpc == C!RSpec

\* A thread is in flush, and the server lives and does not read.
Stuck == \E p \in Threads : th[p].pc = "blocked" /\ proc = "up" /\ PipeFull

\* A request or notification ends, with a reply, an error or a timeout, though the
\* server never answers, breaks the protocol or dies, and though close() comes at
\* any moment.  The exception is a server that stops reading for ever and lives:
\* the write into its full pipe keeps the lock that the reader, the timeouts and
\* every other request need, and no close() ends it.
RequestsEnd == \A p \in Threads : []<>(th[p].pc = "idle") \/ <>[]Stuck

\* close() ends the process, also one that ignores terminate, with the same
\* exception: it waits for the stdin object that the blocked thread has, before it
\* comes to terminate.
CloseEnds == (closed ~> proc = "exited") \/ <>[]Stuck
===============================================================================
