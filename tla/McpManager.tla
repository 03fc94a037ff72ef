------------------------------- MODULE McpManager -------------------------------
(***************************************************************************)
(* MCPManager and StdioMCPClient for one configured server: connect,       *)
(* disconnect, reload and tool calls by several threads (runs and REST     *)
(* requests), none of which takes a lock.                                  *)
(*                                                                         *)
(* A client is an object that connects over one transport at a time; the   *)
(* manager forgets it when it disconnects, but the adapters that a run has *)
(* registered keep it.  connect asks for the list of tools twice.  Of a    *)
(* transport this module keeps the process, of a message that it is sent   *)
(* and ends, and of a close that it ends the process.  McpTransport shows  *)
(* when they do: unless the server lives, has stopped reading for ever and *)
(* a thread is blocked in its full pipe, where everybody here would stop.  *)
(***************************************************************************)
EXTENDS Naturals

CONSTANTS
    Threads,
    Transports,     \* transports, each with its process
    Clients,        \* client objects
    None,
    MaxOps,         \* bound on the operations of the manager and the calls
    MaxToggles      \* bound on the edits of the configuration

ASSUME ManagerAssumption ==
    /\ None \notin Clients \cup Transports
    /\ MaxOps \in Nat /\ MaxToggles \in Nat

VARIABLES
    enabled,        \* the configuration file
    config,         \* _configs: what was read of it
    status,         \* MCPServerRuntime.status
    clients,        \* _clients[server]
    client,         \* per client object: [transport, initialized, made]
    held,           \* the client of the adapters in a run's registry
    proc,           \* per transport: its process
    th,             \* per thread: [pc, for, c, own, t]
    initialized,    \* history: transports whose initialize was answered
    early,          \* history: something else was sent before that
    overlapped,     \* history: two threads were in connect, disconnect or reload
    ops, toggles

managerVars == <<config, status, clients, client, held>>
historyVars == <<initialized, early, overlapped>>
vars == <<enabled, managerVars, proc, th, historyVars, ops, toggles>>

Idle == [pc |-> "idle", for |-> "none", c |-> None, own |-> None, t |-> None]

Init ==
    /\ proc = [t \in Transports |-> "none"]
    /\ enabled = TRUE /\ config = TRUE /\ status = "configured"
    /\ clients = None /\ held = None
    /\ client = [c \in Clients |-> [transport |-> None, initialized |-> FALSE, made |-> FALSE]]
    /\ th = [p \in Threads |-> Idle]
    /\ initialized = {} /\ early = FALSE /\ overlapped = FALSE
    /\ ops = 0 /\ toggles = 0

Alive(t)     == proc[t] = "up"
Usable(c)    == client[c].transport # None /\ client[c].initialized
Connected(c) == Usable(c) /\ Alive(client[c].transport)

Managing(p) == th[p].pc # "idle" /\ th[p].for \notin {"call", "refresh"}

Goto(p, label) == th' = [th EXCEPT ![p].pc = label]
Return(p)      == th' = [th EXCEPT ![p] = Idle]

\* The thread goes on to send a message for some purpose over a transport.
Sends(p, purpose, t) == [th EXCEPT ![p].pc = "send", ![p].for = purpose, ![p].t = t]

\* A thread enters an operation of the manager.
Enter(p) ==
    /\ th[p].pc = "idle" /\ ops < MaxOps
    /\ ops' = ops + 1
    /\ overlapped' = (overlapped \/ \E q \in Threads : Managing(q))
    /\ UNCHANGED <<enabled, initialized, early, toggles>>

-----------------------------------------------------------------------------
\* connect

\* Is there a client for the server?
Connect(p) ==
    /\ Enter(p)
    /\ IF config
       THEN /\ status' = "connecting"
            /\ th' = [th EXCEPT ![p] = [Idle EXCEPT
                        !.pc = IF clients = None THEN "creating" ELSE "starting",
                        !.for = "connect", !.c = clients]]
       ELSE status' = "disabled" /\ UNCHANGED th
    /\ UNCHANGED <<proc, config, clients, client, held>>

CreateClient(p) ==
    /\ th[p].pc = "creating"
    /\ \E c \in Clients :
          /\ ~client[c].made
          /\ client' = [client EXCEPT ![c].made = TRUE]
          /\ clients' = c
          /\ th' = [th EXCEPT ![p].c = c, ![p].pc = "starting"]
    /\ UNCHANGED <<proc, enabled, config, status, held, historyVars, ops, toggles>>

\* Mutant: the client has its transport before the server is initialized.
AssignTransport(c, t) == [client EXCEPT ![c].transport = t, ![c].initialized = TRUE]

KeepTransport(c, t) == client

\* StdioMCPClient.connect: another process, unless this client is connected.
StartClient(p) ==
    /\ th[p].pc = "starting"
    /\ IF Connected(th[p].c)
       THEN Goto(p, "listing") /\ UNCHANGED <<proc, client>>
       ELSE \E t \in Transports :
            /\ proc[t] = "none"
            /\ proc' = [proc EXCEPT ![t] = "up"]
            /\ client' = KeepTransport(th[p].c, t)
            /\ th' = [Sends(p, "initialize", t) EXCEPT ![p].own = t]
    /\ UNCHANGED <<enabled, config, status, clients, held, historyVars, ops, toggles>>

\* initialize was answered: the notification that says so.
Initialized(p) ==
    /\ th[p].pc = "replied" /\ th[p].for = "initialize"
    /\ initialized' = initialized \cup {th[p].t}
    /\ th' = Sends(p, "initialized", th[p].t)
    /\ UNCHANGED <<proc, enabled, managerVars, early, overlapped, ops, toggles>>

\* The client has its transport, and asks for the tools.
ClientReady(p) ==
    /\ th[p].pc = "replied" /\ th[p].for = "initialized"
    /\ client' = [client EXCEPT ![th[p].c].transport = th[p].t, ![th[p].c].initialized = TRUE]
    /\ th' = [th EXCEPT ![p].pc = "listing", ![p].for = "tools"]
    /\ UNCHANGED <<proc, enabled, config, status, clients, held, historyVars, ops, toggles>>

\* list_tools, over whatever transport the client has by now.
ListTools(p) ==
    /\ th[p].pc = "listing"
    /\ th' = IF Usable(th[p].c) THEN Sends(p, th[p].for, client[th[p].c].transport)
             ELSE [th EXCEPT ![p].pc = "failed"]
    /\ UNCHANGED <<proc, enabled, managerVars, historyVars, ops, toggles>>

\* The client has its list; the manager asks the client for another.
ListAgain(p) ==
    /\ th[p].pc = "replied" /\ th[p].for = "tools"
    /\ th' = [th EXCEPT ![p].pc = "listing", ![p].for = "connect"]
    /\ UNCHANGED <<proc, enabled, managerVars, historyVars, ops, toggles>>

ConnectDone(p) ==
    /\ th[p].pc = "replied" /\ th[p].for = "connect"
    /\ status' = "connected"
    /\ Return(p)
    /\ UNCHANGED <<proc, enabled, config, clients, client, held, historyVars, ops, toggles>>

\* Mutant: a closed transport counts as not started.
ForgetProcess(t) == proc' = [proc EXCEPT ![t] = "none"]

\* Transport.close: terminate and forget the process.
CloseProcess(t) == proc' = [proc EXCEPT ![t] = "closed"]

\* Mutant: no transport.close() when initialize fails.
LeaveProcess(t) == UNCHANGED proc

CleanUp(t) == CloseProcess(t)

\* client.connect closes the transport it has started, whichever message failed,
\* and forgets the one the client has.
ConnectFails(p) ==
    /\ th[p].pc = "failed" /\ th[p].for \in {"initialize", "initialized", "tools"}
    /\ CleanUp(th[p].own)
    /\ client' = [client EXCEPT ![th[p].c].transport = None, ![th[p].c].initialized = FALSE]
    /\ status' = "error"
    /\ Return(p)
    /\ UNCHANGED <<enabled, config, clients, held, historyVars, ops, toggles>>

\* The manager's own list_tools failed: the client stays.
ListFails(p) ==
    /\ th[p].pc = "failed" /\ th[p].for = "connect"
    /\ status' = "error"
    /\ Return(p)
    /\ UNCHANGED <<proc, enabled, config, clients, client, held, historyVars, ops, toggles>>

-----------------------------------------------------------------------------
\* disconnect and reload

\* The client is taken out of the table.
PopClient(p) ==
    /\ clients' = None
    /\ th' = [th EXCEPT ![p] = [Idle EXCEPT !.pc = "closing", !.for = "cancelled", !.c = clients]]

Disconnect(p) ==
    /\ Enter(p)
    /\ PopClient(p)
    /\ UNCHANGED <<proc, config, status, client, held>>

\* reload_config disconnects a server that is connected and no longer enabled.
Reload(p) ==
    /\ Enter(p)
    /\ config' = enabled
    /\ IF ~enabled /\ status = "connected"
       THEN PopClient(p) /\ UNCHANGED status
       ELSE /\ status' = CASE ~enabled -> "disabled"
                           [] enabled /\ status = "connected" -> status
                           [] OTHER -> "configured"
            /\ UNCHANGED <<clients, th>>
    /\ UNCHANGED <<proc, client, held>>

Disconnected == IF config THEN "disconnected" ELSE "disabled"

\* StdioMCPClient.disconnect: a last notification, when there is a transport.
CancelClient(p) ==
    /\ th[p].pc = "closing"
    /\ IF th[p].c # None /\ client[th[p].c].transport # None
       THEN /\ client' = [client EXCEPT ![th[p].c].initialized = FALSE]
            /\ th' = Sends(p, "cancelled", client[th[p].c].transport)
            /\ UNCHANGED status
       ELSE /\ client' = IF th[p].c = None THEN client
                         ELSE [client EXCEPT ![th[p].c].initialized = FALSE]
            /\ status' = Disconnected
            /\ Return(p)
    /\ UNCHANGED <<proc, enabled, config, clients, held, historyVars, ops, toggles>>

\* The transport the client has now is closed; another thread may have taken it.
CloseClient(p) ==
    /\ th[p].pc \in {"replied", "failed"} /\ th[p].for = "cancelled"
    /\ LET t == client[th[p].c].transport IN
       IF t = None THEN UNCHANGED proc ELSE CloseProcess(t)
    /\ client' = [client EXCEPT ![th[p].c].transport = None]
    /\ status' = Disconnected
    /\ Return(p)
    /\ UNCHANGED <<enabled, config, clients, held, historyVars, ops, toggles>>

\* The user edits mcp.json.
Toggle ==
    /\ toggles < MaxToggles
    /\ toggles' = toggles + 1
    /\ enabled' = ~enabled
    /\ UNCHANGED <<proc, managerVars, th, historyVars, ops>>

-----------------------------------------------------------------------------
\* Tools

\* sync_mcp_tools_to_registry: the run's adapters take the client.
SyncTools ==
    /\ status = "connected" /\ clients # None /\ Connected(clients)
    /\ held # clients
    /\ held' = clients
    /\ UNCHANGED <<proc, enabled, config, status, clients, client, th, historyVars, ops, toggles>>

\* An adapter's execute or the service's call_tool, after the permission; a tool
\* the client does not know of makes it ask for the list first.
CallTool(p) ==
    /\ th[p].pc = "idle" /\ ops < MaxOps
    /\ ops' = ops + 1
    /\ \E c \in {held, clients} \ {None}, purpose \in {"call", "refresh"} :
          /\ Connected(c)
          /\ th' = [Sends(p, purpose, client[c].transport) EXCEPT ![p].c = c]
    /\ UNCHANGED <<proc, enabled, managerVars, historyVars, toggles>>

\* With the new list, or the old one: the call, over the transport of the moment.
CallRefreshed(p) ==
    /\ th[p].pc \in {"replied", "failed"} /\ th[p].for = "refresh"
    /\ th' = IF client[th[p].c].transport # None
             THEN Sends(p, "call", client[th[p].c].transport)
             ELSE [th EXCEPT ![p].pc = "failed", ![p].for = "call"]
    /\ UNCHANGED <<proc, enabled, managerVars, historyVars, ops, toggles>>

CallEnds(p) ==
    /\ th[p].pc \in {"replied", "failed"} /\ th[p].for = "call"
    /\ Return(p)
    /\ UNCHANGED <<proc, enabled, managerVars, historyVars, ops, toggles>>

-----------------------------------------------------------------------------
\* A message of a thread, and its end: the reply, an error, a timeout.

Send(p) ==
    /\ th[p].pc = "send"
    /\ IF Alive(th[p].t)
       THEN /\ Goto(p, "waiting")
            /\ early' = (early \/ (th[p].for # "initialize" /\ th[p].t \notin initialized))
       ELSE Goto(p, "failed") /\ UNCHANGED early
    /\ UNCHANGED <<enabled, managerVars, proc, initialized, overlapped, ops, toggles>>

Await(p) ==
    /\ th[p].pc = "waiting"
    /\ \E outcome \in {"replied", "failed"} : Goto(p, outcome)
    /\ UNCHANGED <<enabled, managerVars, proc, historyVars, ops, toggles>>

ServerExits ==
    /\ \E t \in Transports : Alive(t) /\ proc' = [proc EXCEPT ![t] = "exited"]
    /\ UNCHANGED <<enabled, managerVars, th, historyVars, ops, toggles>>

ThreadRuns(p) ==
    \/ CreateClient(p) \/ StartClient(p) \/ Initialized(p) \/ ClientReady(p)
    \/ ListTools(p) \/ ListAgain(p) \/ ConnectDone(p) \/ ConnectFails(p) \/ ListFails(p)
    \/ CancelClient(p) \/ CloseClient(p) \/ CallRefreshed(p) \/ CallEnds(p)
    \/ Send(p) \/ Await(p)

Next ==
    \/ \E p \in Threads : Connect(p) \/ Disconnect(p) \/ Reload(p) \/ CallTool(p) \/ ThreadRuns(p)
    \/ SyncTools \/ Toggle \/ ServerExits

Spec == Init /\ [][Next]_vars

-----------------------------------------------------------------------------
\* What the code promises.

Labels == {"idle", "creating", "starting", "listing", "send", "waiting",
           "replied", "failed", "closing"}

\* A thread that sends has a transport whose process was started, and a client
\* that has a transport has a process started with it.
TypeOK ==
    /\ status \in {"configured", "connecting", "connected", "error", "disconnected", "disabled"}
    /\ clients \in Clients \cup {None} /\ held \in Clients \cup {None}
    /\ proc \in [Transports -> {"none", "up", "exited", "closed"}]
    /\ \A p \in Threads :
          /\ th[p].pc \in Labels
          /\ th[p].pc \in {"send", "waiting", "replied"} => proc[th[p].t] # "none"
    /\ \A c \in Clients : client[c].transport # None => proc[client[c].transport] # "none"

\* No tools/list and no tools/call is sent to a server that has not answered its
\* initialize, whichever threads connect, disconnect and call at once.
InitializedFirst == ~early

\* A connect that fails, a disconnect and a reload leave no process that nobody
\* can close: as long as no two of them have overlapped, a process that runs
\* belongs to the client in the table, or to a thread in the middle of one.
NothingLeftRunning ==
    ~overlapped => \A t \in Transports : Alive(t) =>
        \/ clients # None /\ client[clients].transport = t
        \/ \E p \in Threads : Managing(p) /\
              (th[p].own = t \/ (th[p].c # None /\ client[th[p].c].transport = t))
===============================================================================
