-------------------------- MODULE McpManager_proofs ---------------------------
(***************************************************************************)
(* The manager's promises, proved for any number of threads, clients,      *)
(* server processes and operations.                                        *)
(***************************************************************************)
EXTENDS McpManager, TLAPS

Purposes == {"none", "connect", "initialize", "initialized", "tools", "cancelled", "call", "refresh"}

Thread == [pc : Labels, for : Purposes, c : Clients \cup {None},
           own : Transports \cup {None}, t : Transports \cup {None}]

Client == [transport : Transports \cup {None}, initialized : BOOLEAN, made : BOOLEAN]

Types ==
    /\ TypeOK
    /\ th \in [Threads -> Thread] /\ client \in [Clients -> Client]
    /\ initialized \subseteq Transports /\ overlapped \in BOOLEAN

InMessage == {"send", "waiting", "replied"}
Starting  == {"initialize", "initialized"}

\* Where a thread is tells what it does and what it holds.
ShapeOf(l, u, c, o, t) ==
    /\ l = "creating" => u = "connect" /\ c = None /\ o = None
    /\ l = "starting" => u = "connect" /\ o = None
    /\ l = "listing" => u \in {"connect", "tools"}
    /\ l = "closing" => u = "cancelled"
    /\ u = "cancelled" => o = None
    /\ l \in InMessage \cup {"failed", "starting", "listing"} => c # None
    /\ l \in InMessage => t # None
    /\ l \in InMessage /\ u \in Starting => t = o
    /\ l # "idle" /\ u \in Starting => l \in InMessage \cup {"failed"} /\ o # None
    /\ l # "idle" /\ u = "tools" => o # None
    /\ l # "idle" => u # "none"

Shape(p) == ShapeOf(th[p].pc, th[p].for, th[p].c, th[p].own, th[p].t)

Shapes == \A p \in Threads : Shape(p)

\* A client has a transport, and a thread another message than initialize, only
\* once that was answered.
ReadyFirst ==
    /\ ~early
    /\ \A c \in Clients : client[c].transport # None => client[c].transport \in initialized
    /\ \A p \in Threads : th[p].pc \in InMessage /\ th[p].for # "initialize" =>
          th[p].t \in initialized

\* As long as nobody overlaps: one thread manages, it works on the client in the
\* table, and no process is started beside one that the client already has.
Connects(p) == Managing(p) /\ th[p].for # "cancelled"
Lives(c)    == client[c].transport # None /\ Alive(client[c].transport)

OneManager == \A p, q \in Threads : Managing(p) /\ Managing(q) => p = q

WorksOnTable ==
    \A p \in Threads : Connects(p) =>
        clients = IF th[p].pc = "creating" THEN None ELSE th[p].c

LivesInitialized ==
    \A c \in Clients : Lives(c) =>
        \/ client[c].initialized
        \/ \E p \in Threads : Managing(p) /\ th[p].for = "cancelled" /\ th[p].c = c

OwnOnly ==
    \A p \in Threads : Managing(p) =>
        /\ th[p].for \in Starting => ~Lives(th[p].c)
        /\ th[p].for \in {"connect", "tools"} /\ th[p].pc \notin {"creating", "starting"} =>
              th[p].own \in {None, client[th[p].c].transport}

Alone == ~overlapped => OneManager /\ WorksOnTable /\ LivesInitialized /\ OwnOnly

IInv == Types /\ Shapes /\ ReadyFirst /\ Alone /\ NothingLeftRunning

-------------------------------------------------------------------------------
(* The threads.                                                            *)

\* In g the thread p has these fields, the others are where they were.
Becomes(p, g, l, u, c, o, t) ==
    /\ g \in [Threads -> Thread]
    /\ \A q \in Threads : q # p => g[q] = th[q]
    /\ g[p].pc = l /\ g[p].for = u /\ g[p].c = c /\ g[p].own = o /\ g[p].t = t

\* A thread that goes to a label moves there and keeps the rest.
LEMMA GotoMoves ==
    ASSUME th \in [Threads -> Thread], NEW p \in Threads, NEW l \in Labels
    PROVE  Becomes(p, [th EXCEPT ![p].pc = l], l, th[p].for, th[p].c, th[p].own, th[p].t)
BY DEF Becomes, Thread

\* A thread that returns is idle and holds nothing.
LEMMA ReturnMoves ==
    ASSUME th \in [Threads -> Thread], NEW p \in Threads
    PROVE  Becomes(p, [th EXCEPT ![p] = Idle], "idle", "none", None, None, None)
BY DEF Becomes, Thread, Idle, Purposes, Labels

\* A thread that enters an operation starts from nothing but its client.
LEMMA EnterMoves ==
    ASSUME th \in [Threads -> Thread], NEW p \in Threads, NEW l \in Labels, NEW u \in Purposes,
           NEW c \in Clients \cup {None}
    PROVE  Becomes(p, [th EXCEPT ![p] = [Idle EXCEPT !.pc = l, !.for = u, !.c = c]],
                   l, u, c, None, None)
<1> DEFINE r == [Idle EXCEPT !.pc = l, !.for = u, !.c = c]
<1>1. /\ r \in Thread
      /\ r.pc = l /\ r.for = u /\ r.c = c /\ r.own = None /\ r.t = None
  BY DEF Thread, Idle
<1> HIDE DEF r
<1>2. Becomes(p, [th EXCEPT ![p] = r], l, u, c, None, None)  BY <1>1 DEF Becomes
<1> QED BY <1>2 DEF r

\* A thread that sends has a purpose and a transport, and maybe a new client or process.
LEMMA SendsMoves ==
    ASSUME th \in [Threads -> Thread], NEW p \in Threads, NEW u \in Purposes,
           NEW t \in Transports
    PROVE  /\ Becomes(p, Sends(p, u, t), "send", u, th[p].c, th[p].own, t)
           /\ \A c \in Clients :
                 Becomes(p, [Sends(p, u, t) EXCEPT ![p].c = c], "send", u, c, th[p].own, t)
           /\ Becomes(p, [Sends(p, u, t) EXCEPT ![p].own = t], "send", u, th[p].c, t, t)
<1>1. Becomes(p, Sends(p, u, t), "send", u, th[p].c, th[p].own, t)
  BY DEF Becomes, Sends, Thread, Labels
<1> DEFINE g == Sends(p, u, t)
<1> HIDE DEF g
<1>2. g \in [Threads -> Thread]  BY <1>1 DEF Becomes, g
<1>3. ASSUME NEW c \in Clients
      PROVE  Becomes(p, [g EXCEPT ![p].c = c], g[p].pc, g[p].for, c, g[p].own, g[p].t)
  BY <1>1, <1>2 DEF Becomes, Thread, g
<1>4. Becomes(p, [g EXCEPT ![p].own = t], g[p].pc, g[p].for, g[p].c, t, g[p].t)
  BY <1>1, <1>2 DEF Becomes, Thread, g
<1> QED BY <1>1, <1>3, <1>4 DEF Becomes, g

\* The other ways a thread moves.
LEMMA OtherMoves ==
    ASSUME th \in [Threads -> Thread], NEW p \in Threads, NEW l \in Labels, NEW u \in Purposes,
           NEW c \in Clients
    PROVE  /\ Becomes(p, [th EXCEPT ![p].pc = l, ![p].for = u], l, u, th[p].c, th[p].own, th[p].t)
           /\ Becomes(p, [th EXCEPT ![p].c = c, ![p].pc = l], l, th[p].for, c, th[p].own, th[p].t)
BY DEF Becomes, Thread

\* In f the client c has these fields, the others theirs.
ClientBecomes(f, c, x, b) ==
    /\ f \in [Clients -> Client]
    /\ \A d \in Clients : d # c => f[d].transport = client[d].transport
                                  /\ f[d].initialized = client[d].initialized
    /\ f[c].transport = x /\ f[c].initialized = b

\* The ways a client changes.
LEMMA ClientMoves ==
    ASSUME client \in [Clients -> Client], NEW c \in Clients, NEW x \in Transports \cup {None},
           NEW b \in BOOLEAN
    PROVE  /\ ClientBecomes([client EXCEPT ![c].transport = x, ![c].initialized = b], c, x, b)
           /\ ClientBecomes([client EXCEPT ![c].transport = x], c, x, client[c].initialized)
           /\ ClientBecomes([client EXCEPT ![c].initialized = b], c, client[c].transport, b)
           /\ ClientBecomes([client EXCEPT ![c].made = TRUE], c, client[c].transport,
                            client[c].initialized)
BY DEF ClientBecomes, Client

\* What Types and Shapes say, for the steps that use it.
LEMMA TypeFacts ==
    ASSUME Types, Shapes
    PROVE  /\ th \in [Threads -> Thread] /\ client \in [Clients -> Client]
           /\ proc \in [Transports -> {"none", "up", "exited", "closed"}]
           /\ clients \in Clients \cup {None} /\ held \in Clients \cup {None}
           /\ initialized \subseteq Transports /\ overlapped \in BOOLEAN
           /\ \A p \in Threads :
                 /\ th[p].pc \in Labels /\ th[p].for \in Purposes
                 /\ th[p].c \in Clients \cup {None} /\ th[p].own \in Transports \cup {None}
                 /\ th[p].pc \in InMessage \cup {"failed", "starting", "listing"} =>
                        th[p].c \in Clients
                 /\ th[p].pc \in InMessage => th[p].t \in Transports /\ proc[th[p].t] # "none"
           /\ \A c \in Clients :
                 /\ client[c].initialized \in BOOLEAN
                 /\ client[c].transport # None =>
                       client[c].transport \in Transports /\ proc[client[c].transport] # "none"
<1>1. /\ th \in [Threads -> Thread] /\ client \in [Clients -> Client]
      /\ proc \in [Transports -> {"none", "up", "exited", "closed"}]
      /\ clients \in Clients \cup {None} /\ held \in Clients \cup {None}
      /\ initialized \subseteq Transports /\ overlapped \in BOOLEAN
  BY DEF Types, TypeOK
<1>2. \A p \in Threads :
        /\ th[p].pc \in Labels /\ th[p].for \in Purposes
        /\ th[p].c \in Clients \cup {None} /\ th[p].own \in Transports \cup {None}
        /\ th[p].t \in Transports \cup {None}
  BY <1>1 DEF Thread
<1>3. \A c \in Clients : /\ client[c].initialized \in BOOLEAN
                         /\ client[c].transport \in Transports \cup {None}
  BY <1>1 DEF Client
<1>4. \A c \in Clients : client[c].transport # None => proc[client[c].transport] # "none"
  BY DEF Types, TypeOK
<1>5. \A p \in Threads : /\ th[p].pc \in InMessage => th[p].t # None /\ proc[th[p].t] # "none"
                         /\ th[p].pc \in InMessage \cup {"failed", "starting", "listing"} => th[p].c # None
  BY DEF Types, TypeOK, InMessage, Shapes, Shape, ShapeOf
<1>6. ASSUME NEW p \in Threads
      PROVE  /\ th[p].pc \in InMessage \cup {"failed", "starting", "listing"} => th[p].c \in Clients
             /\ th[p].pc \in InMessage => th[p].t \in Transports /\ proc[th[p].t] # "none"
  BY <1>2, <1>5
<1>7. ASSUME NEW c \in Clients, client[c].transport # None
      PROVE  client[c].transport \in Transports /\ proc[client[c].transport] # "none"
  BY <1>3, <1>4, <1>7
<1> QED BY ONLY <1>1, <1>2, <1>3, <1>6, <1>7

-------------------------------------------------------------------------------
(* What each step does to its thread and its client.                       *)

\* connect moves the thread to the creation or the start of a client, or nothing.
LEMMA ConnectMoves ==
    ASSUME Types, Shapes, NEW p \in Threads, Connect(p)
    PROVE  /\ \/ UNCHANGED th
              \/ Becomes(p, th', IF clients = None THEN "creating" ELSE "starting", "connect",
                         clients, None, None)
           /\ status' \in {"connecting", "disabled"}
           /\ UNCHANGED <<proc, clients, client, held, initialized, early>>
<1>1. (IF clients = None THEN "creating" ELSE "starting") \in Labels /\ "connect" \in Purposes
  BY DEF Labels, Purposes
<1> DEFINE l == IF clients = None THEN "creating" ELSE "starting"
<1>2. \/ UNCHANGED th
      \/ th' = [th EXCEPT ![p] = [Idle EXCEPT !.pc = l, !.for = "connect", !.c = clients]]
  BY DEF Connect
<1> HIDE DEF l
<1>3. l \in Labels /\ clients \in Clients \cup {None} /\ th \in [Threads -> Thread]
  BY <1>1, TypeFacts DEF l
<1>4. Becomes(p, [th EXCEPT ![p] = [Idle EXCEPT !.pc = l, !.for = "connect", !.c = clients]],
              l, "connect", clients, None, None)
  BY <1>1, <1>3, EnterMoves
<1>5. UNCHANGED th \/ Becomes(p, th', l, "connect", clients, None, None)
  BY <1>2, <1>4, Zenon
<1> QED BY <1>5 DEF Connect, Enter, l

\* disconnect and reload take the client out of the table, or leave it.
LEMMA PopMoves ==
    ASSUME Types, Shapes, NEW p \in Threads, Disconnect(p) \/ Reload(p)
    PROVE  /\ \/ UNCHANGED <<th, clients>>
              \/ clients' = None /\ Becomes(p, th', "closing", "cancelled", clients, None, None)
           /\ status' \in {status, "disabled", "configured"}
           /\ UNCHANGED <<proc, client, held, initialized, early>>
<1>1. "closing" \in Labels /\ "cancelled" \in Purposes
  BY DEF Labels, Purposes
<1>2. \/ UNCHANGED <<th, clients>>
      \/ /\ clients' = None
         /\ th' = [th EXCEPT ![p] = [Idle EXCEPT !.pc = "closing", !.for = "cancelled", !.c = clients]]
  BY DEF Disconnect, Reload, PopClient
<1>3. \/ UNCHANGED <<th, clients>>
      \/ clients' = None /\ Becomes(p, th', "closing", "cancelled", clients, None, None)
  <2>1. Becomes(p, [th EXCEPT ![p] = [Idle EXCEPT !.pc = "closing", !.for = "cancelled", !.c = clients]],
                "closing", "cancelled", clients, None, None)
    BY <1>1, EnterMoves, TypeFacts
  <2> QED BY <1>2, <2>1, Zenon
<1> QED BY <1>3 DEF Disconnect, Reload, Enter

\* A call is sent over the transport of its client.
LEMMA CallMoves ==
    ASSUME Types, Shapes, NEW p \in Threads, CallTool(p)
    PROVE  \E c \in Clients, u \in {"call", "refresh"} :
              /\ client[c].transport \in Transports /\ proc[client[c].transport] # "none"
              /\ Becomes(p, th', "send", u, c, th[p].own, client[c].transport)
<1>1. PICK c \in {held, clients} \ {None}, u \in {"call", "refresh"} :
         /\ Connected(c)
         /\ th' = [Sends(p, u, client[c].transport) EXCEPT ![p].c = c]
  BY DEF CallTool
<1>2. c \in Clients /\ client[c].transport \in Transports /\ proc[client[c].transport] # "none"
  BY <1>1, TypeFacts DEF Connected, Usable
<1>3. u \in Purposes  BY DEF Purposes
<1> QED BY <1>1, <1>2, <1>3, SendsMoves, TypeFacts

\* A new client is in the table and with the thread that made it.
LEMMA CreateMoves ==
    ASSUME Types, Shapes, NEW p \in Threads, CreateClient(p)
    PROVE  \E c \in Clients :
              /\ clients' = c
              /\ ClientBecomes(client', c, client[c].transport, client[c].initialized)
              /\ Becomes(p, th', "starting", th[p].for, c, th[p].own, th[p].t)
<1>1. "starting" \in Labels  BY DEF Labels
<1>2. PICK c \in Clients : /\ client' = [client EXCEPT ![c].made = TRUE]
                           /\ clients' = c
                           /\ th' = [th EXCEPT ![p].c = c, ![p].pc = "starting"]
  BY DEF CreateClient
<1>3. client[c].transport \in Transports \cup {None} /\ client[c].initialized \in BOOLEAN
  BY TypeFacts
<1>4. ClientBecomes(client', c, client[c].transport, client[c].initialized)
  BY <1>2, <1>3, ClientMoves, TypeFacts
<1>5. Becomes(p, th', "starting", th[p].for, c, th[p].own, th[p].t)
  BY <1>1, <1>2, OtherMoves, TypeFacts
<1> QED BY <1>2, <1>4, <1>5

\* The thread lists the tools of a connected client, or starts a process.
LEMMA StartMoves ==
    ASSUME Types, Shapes, NEW p \in Threads, StartClient(p)
    PROVE  /\ \/ /\ Connected(th[p].c) /\ UNCHANGED proc
                 /\ Becomes(p, th', "listing", th[p].for, th[p].c, th[p].own, th[p].t)
              \/ /\ ~Connected(th[p].c)
                 /\ \E t \in Transports :
                       /\ proc[t] = "none" /\ proc' = [proc EXCEPT ![t] = "up"]
                       /\ Becomes(p, th', "send", "initialize", th[p].c, t, t)
           /\ UNCHANGED client
<1>1. "listing" \in Labels /\ "initialize" \in Purposes  BY DEF Labels, Purposes
<1>2. CASE Connected(th[p].c)
  BY <1>1, <1>2, GotoMoves, TypeFacts DEF StartClient, Goto
<1>3. CASE ~Connected(th[p].c)
  <2>1. PICK t \in Transports :
           /\ proc[t] = "none" /\ proc' = [proc EXCEPT ![t] = "up"] /\ client' = client
           /\ th' = [Sends(p, "initialize", t) EXCEPT ![p].own = t]
    BY <1>3 DEF StartClient, KeepTransport
  <2>2. Becomes(p, [Sends(p, "initialize", t) EXCEPT ![p].own = t],
                "send", "initialize", th[p].c, t, t)
    BY <1>1, SendsMoves, TypeFacts
  <2> QED BY <1>3, <2>1, <2>2, Zenon
<1> QED BY <1>2, <1>3

\* After the answer to initialize, the thread sends the notification.
LEMMA InitializedMoves ==
    ASSUME Types, Shapes, NEW p \in Threads, Initialized(p)
    PROVE  Becomes(p, th', "send", "initialized", th[p].c, th[p].own, th[p].t)
<1>1. "initialized" \in Purposes /\ th[p].t \in Transports
  BY TypeFacts DEF Purposes, Initialized, InMessage
<1> QED BY <1>1, SendsMoves, TypeFacts DEF Initialized

\* The client gets the transport of its thread.
LEMMA ReadyMoves ==
    ASSUME Types, Shapes, NEW p \in Threads, ClientReady(p)
    PROVE  /\ th[p].c \in Clients /\ th[p].t \in Transports
           /\ ClientBecomes(client', th[p].c, th[p].t, TRUE)
           /\ Becomes(p, th', "listing", "tools", th[p].c, th[p].own, th[p].t)
<1>1. "listing" \in Labels /\ "tools" \in Purposes /\ TRUE \in BOOLEAN  BY DEF Labels, Purposes
<1>2. th[p].c \in Clients /\ th[p].t \in Transports
  BY TypeFacts DEF ClientReady, InMessage
<1>3. ClientBecomes(client', th[p].c, th[p].t, TRUE)
  BY <1>1, <1>2, ClientMoves, TypeFacts DEF ClientReady
<1> QED BY <1>1, <1>2, <1>3, OtherMoves, TypeFacts DEF ClientReady

\* The tools are asked for over the transport of the client, if there is one.
LEMMA ListMoves ==
    ASSUME Types, Shapes, NEW p \in Threads, ListTools(p)
    PROVE  \/ LET t == client[th[p].c].transport
              IN  /\ th[p].c \in Clients /\ t \in Transports
                  /\ Becomes(p, th', "send", th[p].for, th[p].c, th[p].own, t)
           \/ Becomes(p, th', "failed", th[p].for, th[p].c, th[p].own, th[p].t)
<1>1. "failed" \in Labels /\ th[p].c \in Clients /\ th[p].for \in Purposes
  BY TypeFacts DEF Labels, ListTools
<1>2. CASE Usable(th[p].c)
  BY <1>1, <1>2, SendsMoves, TypeFacts DEF ListTools, Usable
<1>3. CASE ~Usable(th[p].c)
  BY <1>1, <1>3, GotoMoves, TypeFacts DEF ListTools
<1> QED BY <1>2, <1>3

\* The manager asks again.
LEMMA ListAgainMoves ==
    ASSUME Types, Shapes, NEW p \in Threads, ListAgain(p)
    PROVE  Becomes(p, th', "listing", "connect", th[p].c, th[p].own, th[p].t)
<1>1. "listing" \in Labels /\ "connect" \in Purposes /\ th[p].c \in Clients
  BY TypeFacts DEF Labels, Purposes, ListAgain, InMessage
<1> QED BY <1>1, OtherMoves, TypeFacts DEF ListAgain

\* What ends an operation leaves its thread idle.
LEMMA ReturnsMove ==
    ASSUME Types, Shapes, NEW p \in Threads,
           ConnectDone(p) \/ ListFails(p) \/ CallEnds(p) \/ ConnectFails(p) \/ CloseClient(p)
    PROVE  Becomes(p, th', "idle", "none", None, None, None)
BY ReturnMoves, TypeFacts DEF ConnectDone, ListFails, CallEnds, ConnectFails, CloseClient, Return

\* A failed connect takes the transport from its client.
LEMMA FailMoves ==
    ASSUME Types, Shapes, NEW p \in Threads, ConnectFails(p)
    PROVE  th[p].c \in Clients /\ ClientBecomes(client', th[p].c, None, FALSE)
<1>1. th[p].c \in Clients /\ FALSE \in BOOLEAN  BY TypeFacts DEF ConnectFails
<1> QED BY <1>1, ClientMoves, TypeFacts DEF ConnectFails

\* disconnect sends a last notification, or has none to send it to.
LEMMA CancelMoves ==
    ASSUME Types, Shapes, NEW p \in Threads, CancelClient(p)
    PROVE  \/ LET t == client[th[p].c].transport
              IN  /\ th[p].c \in Clients /\ t \in Transports /\ UNCHANGED status
                  /\ ClientBecomes(client', th[p].c, t, FALSE)
                  /\ Becomes(p, th', "send", "cancelled", th[p].c, th[p].own, t)
           \/ /\ th[p].c = None /\ client' = client /\ status' = Disconnected
              /\ Becomes(p, th', "idle", "none", None, None, None)
           \/ /\ th[p].c \in Clients /\ client[th[p].c].transport = None
              /\ ClientBecomes(client', th[p].c, None, FALSE) /\ status' = Disconnected
              /\ Becomes(p, th', "idle", "none", None, None, None)
<1>1. FALSE \in BOOLEAN /\ "cancelled" \in Purposes /\ th[p].c \in Clients \cup {None}
  BY TypeFacts DEF Purposes
<1>2. CASE th[p].c # None /\ client[th[p].c].transport # None
  <2>1. th[p].c \in Clients /\ client[th[p].c].transport \in Transports
    BY <1>1, <1>2, TypeFacts
  <2>2. ClientBecomes(client', th[p].c, client[th[p].c].transport, FALSE)
    BY <1>1, <1>2, <2>1, ClientMoves, TypeFacts DEF CancelClient
  <2>3. Becomes(p, th', "send", "cancelled", th[p].c, th[p].own, client[th[p].c].transport)
    <3>1. th' = Sends(p, "cancelled", client[th[p].c].transport)  BY <1>2 DEF CancelClient
    <3> QED BY <1>1, <2>1, <3>1, SendsMoves, TypeFacts
  <2> QED BY <1>2, <2>1, <2>2, <2>3 DEF CancelClient
<1>3. CASE ~(th[p].c # None /\ client[th[p].c].transport # None)
  <2>1. Becomes(p, th', "idle", "none", None, None, None)
    BY <1>3, ReturnMoves, TypeFacts DEF CancelClient, Return
  <2>2. CASE th[p].c = None  BY <1>3, <2>1, <2>2 DEF CancelClient
  <2>3. CASE th[p].c # None
    <3>1. ClientBecomes(client', th[p].c, client[th[p].c].transport, FALSE)
      BY <1>1, <1>3, <2>3, ClientMoves, TypeFacts DEF CancelClient
    <3> QED BY <1>1, <1>3, <2>1, <2>3, <3>1 DEF CancelClient
  <2> QED BY <2>2, <2>3
<1> QED BY <1>2, <1>3

\* disconnect takes the transport from its client.
LEMMA CloseMoves ==
    ASSUME Types, Shapes, NEW p \in Threads, CloseClient(p)
    PROVE  th[p].c \in Clients /\ ClientBecomes(client', th[p].c, None, client[th[p].c].initialized)
<1>1. th[p].c \in Clients  BY TypeFacts DEF CloseClient, InMessage
<1>2. client[th[p].c].initialized \in BOOLEAN  BY <1>1, TypeFacts
<1> QED BY <1>1, <1>2, ClientMoves, TypeFacts DEF CloseClient

\* The call follows the refresh.
LEMMA RefreshedMoves ==
    ASSUME Types, Shapes, NEW p \in Threads, CallRefreshed(p)
    PROVE  \/ LET t == client[th[p].c].transport
              IN  /\ th[p].c \in Clients /\ t \in Transports
                  /\ Becomes(p, th', "send", "call", th[p].c, th[p].own, t)
           \/ Becomes(p, th', "failed", "call", th[p].c, th[p].own, th[p].t)
<1>1. /\ "failed" \in Labels /\ "call" \in Purposes /\ th[p].c \in Clients
  BY TypeFacts DEF Labels, Purposes, CallRefreshed, InMessage
<1>2. CASE client[th[p].c].transport # None
  BY <1>1, <1>2, SendsMoves, TypeFacts DEF CallRefreshed
<1>3. CASE client[th[p].c].transport = None
  BY <1>1, <1>3, OtherMoves, TypeFacts DEF CallRefreshed
<1> QED BY <1>2, <1>3

\* A message goes on or ends, for the same purpose.
LEMMA MessageMoves ==
    ASSUME Types, Shapes, NEW p \in Threads, Send(p) \/ Await(p)
    PROVE  /\ th[p].pc \in InMessage
           /\ \E l \in {"waiting", "replied", "failed"} :
                 Becomes(p, th', l, th[p].for, th[p].c, th[p].own, th[p].t)
<1>1. {"waiting", "replied", "failed"} \subseteq Labels  BY DEF Labels
<1>2. \E l \in {"waiting", "replied", "failed"} : th' = [th EXCEPT ![p].pc = l]
  BY DEF Send, Await, Goto
<1> QED BY <1>1, <1>2, GotoMoves, TypeFacts DEF Send, Await, InMessage

-------------------------------------------------------------------------------
(* The inductive invariant, a part at a time.                              *)

\* No process is unstarted.
Started == \A t \in Transports : proc[t] # "none" => proc'[t] # "none"

ThreadTypes ==
    /\ th \in [Threads -> Thread]
    /\ \A p \in Threads : th[p].pc \in InMessage => proc[th[p].t] # "none"

ClientTypes ==
    /\ client \in [Clients -> Client]
    /\ \A c \in Clients : client[c].transport # None => proc[client[c].transport] # "none"

OtherTypes ==
    /\ status \in {"configured", "connecting", "connected", "error", "disconnected", "disabled"}
    /\ clients \in Clients \cup {None} /\ held \in Clients \cup {None}
    /\ proc \in [Transports -> {"none", "up", "exited", "closed"}]
    /\ initialized \subseteq Transports /\ overlapped \in BOOLEAN

\* Types in three parts: the threads, the clients, the rest.
LEMMA TypesParts == Types <=> ThreadTypes /\ ClientTypes /\ OtherTypes
<1>1. ThreadTypes => \A p \in Threads : th[p].pc \in Labels
  BY DEF ThreadTypes, Thread
<1> QED BY <1>1 DEF Types, TypeOK, ThreadTypes, ClientTypes, OtherTypes, InMessage

\* A thread that moves keeps the types of the threads, if it sends over a started process.
LEMMA ThreadTypesKept ==
    ASSUME Types, Shapes, Started, NEW p \in Threads, NEW l, NEW u, NEW c, NEW o, NEW t,
           Becomes(p, th', l, u, c, o, t), l \in InMessage => proc'[t] # "none"
    PROVE  ThreadTypes'
<1>1. th' \in [Threads -> Thread]  BY DEF Becomes
<1>2. ASSUME NEW q \in Threads, th'[q].pc \in InMessage PROVE proc'[th'[q].t] # "none"
  <2>1. CASE q = p  BY <1>2, <2>1 DEF Becomes
  <2>2. CASE q # p
    <3>1. th'[q] = th[q]  BY <2>2 DEF Becomes
    <3>2. th[q].t \in Transports /\ proc[th[q].t] # "none"  BY <1>2, <3>1, TypeFacts
    <3> QED BY <3>1, <3>2 DEF Started
  <2> QED BY <2>1, <2>2
<1> QED BY <1>1, <1>2 DEF ThreadTypes

\* A client that changes keeps the types of the clients, if its process was started.
LEMMA ClientTypesKept ==
    ASSUME Types, Shapes, Started
    PROVE  /\ UNCHANGED client => ClientTypes'
           /\ \A c, x, b : ClientBecomes(client', c, x, b) /\ (x # None => proc'[x] # "none")
                 => ClientTypes'
<1>1. ASSUME NEW c \in Clients, client[c].transport # None
      PROVE  client[c].transport \in Transports /\ proc[client[c].transport] # "none"
  BY <1>1, TypeFacts
<1>2. CASE UNCHANGED client
  BY <1>1, <1>2, TypeFacts DEF ClientTypes, Started
<1>3. ASSUME NEW c, NEW x, NEW b, ClientBecomes(client', c, x, b), x # None => proc'[x] # "none"
      PROVE  ClientTypes'
  <2>1. client' \in [Clients -> Client]  BY <1>3 DEF ClientBecomes
  <2>2. ASSUME NEW d \in Clients, client'[d].transport # None
        PROVE  proc'[client'[d].transport] # "none"
    <3>1. CASE d = c  BY <1>3, <2>2, <3>1 DEF ClientBecomes
    <3>2. CASE d # c  BY <1>1, <1>3, <2>2, <3>2 DEF ClientBecomes, Started
    <3> QED BY <3>1, <3>2
  <2> QED BY <2>1, <2>2 DEF ClientTypes
<1> QED BY <1>2, <1>3

\* Every step keeps the types.
LEMMA TypesStep ==
    ASSUME Types, Shapes, [Next]_vars
    PROVE  Types'
<1> USE DEF managerVars, historyVars, OtherTypes
<1>0. OtherTypes  BY TypesParts
<1>t. ThreadTypes' /\ ClientTypes' /\ OtherTypes' => Types'
  <2>1. ThreadTypes' => \A p \in Threads : th'[p].pc \in Labels
    BY DEF ThreadTypes, Thread
  <2> QED BY <2>1 DEF Types, TypeOK, ThreadTypes, ClientTypes, InMessage
<1>1. UNCHANGED proc => Started  BY DEF Started
<1>2. ASSUME NEW p \in Threads, Connect(p) PROVE Types'
  <2>1. UNCHANGED th => ThreadTypes'
    BY <1>2, ConnectMoves, TypesParts DEF ThreadTypes
  <2>2. ThreadTypes' /\ ClientTypes'
    BY <1>1, <1>2, <2>1, ConnectMoves, ThreadTypesKept, ClientTypesKept DEF InMessage
  <2> QED BY <1>0, <1>t, <1>2, <2>2, ConnectMoves DEF Connect, Enter
<1>3. ASSUME NEW p \in Threads, Disconnect(p) \/ Reload(p) PROVE Types'
  <2>1. UNCHANGED th => ThreadTypes'
    BY <1>3, PopMoves, TypesParts DEF ThreadTypes
  <2>2. ThreadTypes' /\ ClientTypes'
    BY <1>1, <1>3, <2>1, PopMoves, ThreadTypesKept, ClientTypesKept DEF InMessage
  <2> QED BY <1>0, <1>t, <1>3, <2>2, PopMoves DEF Disconnect, Reload, Enter
<1>4. ASSUME NEW p \in Threads, CallTool(p) PROVE Types'
  <2>1. ThreadTypes' /\ ClientTypes'
    BY <1>1, <1>4, CallMoves, ThreadTypesKept, ClientTypesKept DEF CallTool
  <2> QED BY <1>0, <1>t, <1>4, <2>1 DEF CallTool
<1>5. ASSUME NEW p \in Threads, CreateClient(p) PROVE Types'
  <2>1. Started /\ UNCHANGED proc  BY <1>1, <1>5 DEF CreateClient
  <2>2. PICK c \in Clients :
           /\ clients' = c
           /\ ClientBecomes(client', c, client[c].transport, client[c].initialized)
           /\ Becomes(p, th', "starting", th[p].for, c, th[p].own, th[p].t)
    BY <1>5, CreateMoves
  <2>3. ThreadTypes'  BY <2>1, <2>2, ThreadTypesKept DEF InMessage
  <2>4. ClientTypes'  BY <2>1, <2>2, ClientTypesKept, TypeFacts
  <2> QED BY <1>0, <1>t, <1>5, <2>2, <2>3, <2>4 DEF CreateClient
<1>6. ASSUME NEW p \in Threads, StartClient(p) PROVE Types'
  <2>1. CASE UNCHANGED proc /\ Becomes(p, th', "listing", th[p].for, th[p].c, th[p].own, th[p].t)
    <3>1. ThreadTypes' /\ ClientTypes'
      BY <1>1, <1>6, <2>1, StartMoves, ThreadTypesKept, ClientTypesKept DEF InMessage
    <3> QED BY <1>0, <1>t, <1>6, <2>1, <3>1 DEF StartClient
  <2>2. ASSUME NEW t \in Transports, proc[t] = "none", proc' = [proc EXCEPT ![t] = "up"],
               Becomes(p, th', "send", "initialize", th[p].c, t, t)
        PROVE  Types'
    <3>1. Started /\ proc'[t] # "none" /\ proc' \in [Transports -> {"none", "up", "exited", "closed"}]
      BY <1>0, <2>2 DEF Started
    <3>2. ThreadTypes' /\ ClientTypes'
      BY <1>6, <2>2, <3>1, StartMoves, ThreadTypesKept, ClientTypesKept
    <3> QED BY <1>0, <1>t, <1>6, <3>1, <3>2 DEF StartClient
  <2> QED BY <1>6, <2>1, <2>2, StartMoves
<1>7. ASSUME NEW p \in Threads, Initialized(p) PROVE Types'
  <2>1. th[p].t \in Transports /\ proc[th[p].t] # "none" /\ UNCHANGED <<proc, client>>
    BY <1>7, TypeFacts DEF Initialized, InMessage
  <2>2. ThreadTypes' /\ ClientTypes'
    BY <1>1, <1>7, <2>1, InitializedMoves, ThreadTypesKept, ClientTypesKept
  <2> QED BY <1>0, <1>t, <1>7, <2>1, <2>2 DEF Initialized
<1>8. ASSUME NEW p \in Threads, ClientReady(p) PROVE Types'
  <2>1. proc[th[p].t] # "none" /\ UNCHANGED proc
    BY <1>8, TypeFacts DEF ClientReady, InMessage
  <2>2. ThreadTypes'  BY <1>1, <1>8, <2>1, ReadyMoves, ThreadTypesKept DEF InMessage
  <2>3. ClientTypes'  BY <1>1, <1>8, <2>1, ReadyMoves, ClientTypesKept
  <2> QED BY <1>0, <1>t, <1>8, <2>2, <2>3 DEF ClientReady
<1>9. ASSUME NEW p \in Threads, ListTools(p) \/ CallRefreshed(p) PROVE Types'
  <2>1. UNCHANGED <<proc, client>>  BY <1>9 DEF ListTools, CallRefreshed
  <2>2. CASE /\ th[p].c \in Clients /\ client[th[p].c].transport \in Transports
             /\ \E u : Becomes(p, th', "send", u, th[p].c, th[p].own, client[th[p].c].transport)
    <3>1. proc[client[th[p].c].transport] # "none"
      BY <2>2, TypeFacts, ManagerAssumption
    <3> QED BY <1>0, <1>t, <1>1, <1>9, <2>1, <2>2, <3>1, ThreadTypesKept, ClientTypesKept
            DEF ListTools, CallRefreshed
  <2>3. CASE \E u : Becomes(p, th', "failed", u, th[p].c, th[p].own, th[p].t)
    <3>1. ThreadTypes' /\ ClientTypes'
      BY <1>1, <2>1, <2>3, ThreadTypesKept, ClientTypesKept DEF InMessage
    <3> QED BY <1>0, <1>t, <1>9, <3>1 DEF ListTools, CallRefreshed
  <2> QED BY <1>9, <2>2, <2>3, ListMoves, RefreshedMoves
<1>10. ASSUME NEW p \in Threads, ListAgain(p) PROVE Types'
  <2>1. ThreadTypes' /\ ClientTypes'
    BY <1>1, <1>10, ListAgainMoves, ThreadTypesKept, ClientTypesKept DEF ListAgain, InMessage
  <2> QED BY <1>0, <1>t, <1>10, <2>1 DEF ListAgain
<1>11. ASSUME NEW p \in Threads, ConnectDone(p) \/ ListFails(p) \/ CallEnds(p) PROVE Types'
  <2>1. UNCHANGED <<proc, client>>  BY <1>11 DEF ConnectDone, ListFails, CallEnds
  <2>2. ThreadTypes' /\ ClientTypes'
    BY <1>1, <1>11, <2>1, ReturnsMove, ThreadTypesKept, ClientTypesKept DEF InMessage
  <2> QED BY <1>0, <1>t, <1>11, <2>2 DEF ConnectDone, ListFails, CallEnds
<1>12. ASSUME NEW p \in Threads, ConnectFails(p) PROVE Types'
  <2>1. proc' \in [Transports -> {"none", "up", "exited", "closed"}] /\ Started
    BY <1>0, <1>12 DEF ConnectFails, CleanUp, CloseProcess, Started
  <2>2. ThreadTypes' /\ ClientTypes'
    BY <1>12, <2>1, ReturnsMove, FailMoves, ThreadTypesKept, ClientTypesKept DEF InMessage
  <2> QED BY <1>0, <1>t, <1>12, <2>1, <2>2 DEF ConnectFails
<1>13. ASSUME NEW p \in Threads, CancelClient(p) PROVE Types'
  <2>1. Started /\ UNCHANGED proc  BY <1>1, <1>13 DEF CancelClient
  <2>2. status' \in {status, "disconnected", "disabled"}
    BY <1>13, CancelMoves DEF Disconnected
  <2>3. CASE LET t == client[th[p].c].transport
             IN  /\ th[p].c \in Clients /\ t \in Transports
                 /\ ClientBecomes(client', th[p].c, t, FALSE)
                 /\ Becomes(p, th', "send", "cancelled", th[p].c, th[p].own, t)
    <3>1. proc[client[th[p].c].transport] # "none"
      BY <2>3, TypeFacts, ManagerAssumption
    <3>2. ThreadTypes' /\ ClientTypes'
      BY <2>1, <2>3, <3>1, ThreadTypesKept, ClientTypesKept
    <3> QED BY <1>0, <1>t, <1>13, <2>1, <2>2, <3>2 DEF CancelClient
  <2>4. CASE /\ client' = client \/ ClientBecomes(client', th[p].c, None, FALSE)
             /\ Becomes(p, th', "idle", "none", None, None, None)
    <3>1. ThreadTypes' /\ ClientTypes'
      BY <2>1, <2>4, ThreadTypesKept, ClientTypesKept DEF InMessage
    <3> QED BY <1>0, <1>t, <1>13, <2>1, <2>2, <3>1 DEF CancelClient
  <2> QED BY <1>13, <2>3, <2>4, CancelMoves
<1>14. ASSUME NEW p \in Threads, CloseClient(p) PROVE Types'
  <2>1. proc' \in [Transports -> {"none", "up", "exited", "closed"}] /\ Started
    BY <1>0, <1>14 DEF CloseClient, CloseProcess, Started
  <2>2. ThreadTypes' /\ ClientTypes'
    BY <1>14, <2>1, ReturnsMove, CloseMoves, ThreadTypesKept, ClientTypesKept DEF InMessage
  <2>3. status' \in {"disconnected", "disabled"}  BY <1>14 DEF CloseClient, Disconnected
  <2> QED BY <1>0, <1>t, <1>14, <2>1, <2>2, <2>3 DEF CloseClient
<1>15. ASSUME NEW p \in Threads, Send(p) \/ Await(p) PROVE Types'
  <2>1. UNCHANGED <<proc, client>>  BY <1>15 DEF Send, Await
  <2>2. proc[th[p].t] # "none"  BY <1>15, MessageMoves, TypeFacts
  <2>3. ThreadTypes' /\ ClientTypes'
    BY <1>1, <1>15, <2>1, <2>2, MessageMoves, ThreadTypesKept, ClientTypesKept
  <2> QED BY <1>0, <1>t, <1>15, <2>3 DEF Send, Await
<1>16. CASE SyncTools \/ Toggle \/ UNCHANGED vars
  BY <1>0, <1>t, <1>16, TypesParts DEF SyncTools, Toggle, vars, ThreadTypes, ClientTypes
<1>17. CASE ServerExits
  <2>1. proc' \in [Transports -> {"none", "up", "exited", "closed"}] /\ Started
    BY <1>0, <1>17 DEF ServerExits, Started
  <2>2. UNCHANGED <<th, client>>  BY <1>17 DEF ServerExits
  <2>3. ThreadTypes'
    BY <2>1, <2>2, TypesParts, TypeFacts DEF ThreadTypes, Started
  <2> QED BY <1>0, <1>t, <1>17, <2>1, <2>2, <2>3, ClientTypesKept DEF ServerExits
<1> QED
  BY <1>2, <1>3, <1>4, <1>5, <1>6, <1>7, <1>8, <1>9, <1>10, <1>11, <1>12, <1>13, <1>14,
     <1>15, <1>16, <1>17
     DEF Next, ThreadRuns
-------------------------------------------------------------------------------
\* A thread that moves to a possible place keeps the others possible.
LEMMA ShapesKept ==
    ASSUME Shapes, NEW p \in Threads, NEW l, NEW u, NEW c, NEW o, NEW t,
           Becomes(p, th', l, u, c, o, t), ShapeOf(l, u, c, o, t)
    PROVE  Shapes'
<1>1. ASSUME NEW q \in Threads
      PROVE  ShapeOf(th'[q].pc, th'[q].for, th'[q].c, th'[q].own, th'[q].t)
  <2>1. CASE q = p
    <3>1. th'[q].pc = l /\ th'[q].for = u /\ th'[q].c = c /\ th'[q].own = o /\ th'[q].t = t
      BY <2>1 DEF Becomes
    <3> QED BY <3>1
  <2>2. CASE q # p  BY <2>2 DEF Becomes, Shapes, Shape
  <2> QED BY <2>1, <2>2
<1> QED BY <1>1 DEF Shapes, Shape

\* Every step leaves each thread in a possible place.
LEMMA ShapesStep ==
    ASSUME Types, Shapes, [Next]_vars
    PROVE  Shapes'
<1> USE DEF managerVars, historyVars
<1>1. UNCHANGED th => Shapes'  BY DEF Shapes, Shape
<1>2. ASSUME NEW p \in Threads
      PROVE  ShapeOf(th[p].pc, th[p].for, th[p].c, th[p].own, th[p].t)
  BY DEF Shapes, Shape
<1>3. ASSUME NEW c \in Clients \cup Transports PROVE c # None
  BY ManagerAssumption
<1>4. ASSUME NEW p \in Threads, Connect(p) PROVE Shapes'
  <2>1. ShapeOf(IF clients = None THEN "creating" ELSE "starting", "connect", clients, None, None)
    BY DEF ShapeOf, InMessage, Starting
  <2> QED BY <1>1, <1>4, <2>1, ConnectMoves, ShapesKept
<1>5. ASSUME NEW p \in Threads, Disconnect(p) \/ Reload(p) PROVE Shapes'
  <2>1. ShapeOf("closing", "cancelled", clients, None, None)
    BY DEF ShapeOf, InMessage, Starting
  <2> QED BY <1>1, <1>5, <2>1, PopMoves, ShapesKept
<1>6. ASSUME NEW p \in Threads, CallTool(p) PROVE Shapes'
  <2>1. PICK c \in Clients, u \in {"call", "refresh"} :
           /\ client[c].transport \in Transports
           /\ Becomes(p, th', "send", u, c, th[p].own, client[c].transport)
    BY <1>6, CallMoves
  <2>2. ShapeOf("send", u, c, th[p].own, client[c].transport)
    BY <1>3, <2>1 DEF ShapeOf, InMessage, Starting
  <2> QED BY <2>1, <2>2, ShapesKept
<1>7. ASSUME NEW p \in Threads, CreateClient(p) PROVE Shapes'
  <2>1. PICK c \in Clients : Becomes(p, th', "starting", th[p].for, c, th[p].own, th[p].t)
    BY <1>7, CreateMoves
  <2>2. ShapeOf("starting", th[p].for, c, th[p].own, th[p].t)
    BY <1>2, <1>3, <1>7 DEF CreateClient, ShapeOf, InMessage, Starting
  <2> QED BY <2>1, <2>2, ShapesKept
<1>8. ASSUME NEW p \in Threads, StartClient(p) PROVE Shapes'
  <2>1. ShapeOf("listing", th[p].for, th[p].c, th[p].own, th[p].t)
    BY <1>2, <1>8 DEF StartClient, ShapeOf, InMessage, Starting
  <2>2. \A t \in Transports : ShapeOf("send", "initialize", th[p].c, t, t)
    BY <1>2, <1>3, <1>8 DEF StartClient, ShapeOf, InMessage, Starting
  <2> QED BY <1>8, <2>1, <2>2, StartMoves, ShapesKept
<1>9. ASSUME NEW p \in Threads, Initialized(p) PROVE Shapes'
  <2>1. ShapeOf("send", "initialized", th[p].c, th[p].own, th[p].t)
    BY <1>2, <1>9 DEF Initialized, ShapeOf, InMessage, Starting
  <2> QED BY <1>9, <2>1, InitializedMoves, ShapesKept
<1>10. ASSUME NEW p \in Threads, ClientReady(p) PROVE Shapes'
  <2>1. ShapeOf("listing", "tools", th[p].c, th[p].own, th[p].t)
    BY <1>2, <1>10 DEF ClientReady, ShapeOf, InMessage, Starting
  <2> QED BY <1>10, <2>1, ReadyMoves, ShapesKept
<1>11. ASSUME NEW p \in Threads, ListTools(p) PROVE Shapes'
  <2>1. ASSUME NEW t \in Transports PROVE ShapeOf("send", th[p].for, th[p].c, th[p].own, t)
    BY <1>2, <1>3, <1>11 DEF ListTools, ShapeOf, InMessage, Starting
  <2>2. ShapeOf("failed", th[p].for, th[p].c, th[p].own, th[p].t)
    BY <1>2, <1>11 DEF ListTools, ShapeOf, InMessage, Starting
  <2> QED BY <1>11, <2>1, <2>2, ListMoves, ShapesKept
<1>12. ASSUME NEW p \in Threads, ListAgain(p) PROVE Shapes'
  <2>1. ShapeOf("listing", "connect", th[p].c, th[p].own, th[p].t)
    BY <1>2, <1>12 DEF ListAgain, ShapeOf, InMessage, Starting
  <2> QED BY <1>12, <2>1, ListAgainMoves, ShapesKept
<1>13. ASSUME NEW p \in Threads,
              ConnectDone(p) \/ ListFails(p) \/ CallEnds(p) \/ ConnectFails(p) \/ CloseClient(p)
       PROVE  Shapes'
  <2>1. ShapeOf("idle", "none", None, None, None)  BY DEF ShapeOf, InMessage, Starting
  <2> QED BY <1>13, <2>1, ReturnsMove, ShapesKept
<1>14. ASSUME NEW p \in Threads, CancelClient(p) PROVE Shapes'
  <2>1. ShapeOf("idle", "none", None, None, None)  BY DEF ShapeOf, InMessage, Starting
  <2>2. ASSUME NEW t \in Transports, th[p].c \in Clients
        PROVE  ShapeOf("send", "cancelled", th[p].c, th[p].own, t)
    BY <1>2, <1>3, <1>14, <2>2 DEF CancelClient, ShapeOf, InMessage, Starting
  <2> QED BY <1>14, <2>1, <2>2, CancelMoves, ShapesKept
<1>15. ASSUME NEW p \in Threads, CallRefreshed(p) PROVE Shapes'
  <2>1. ASSUME NEW t \in Transports PROVE ShapeOf("send", "call", th[p].c, th[p].own, t)
    BY <1>2, <1>3, <1>15 DEF CallRefreshed, ShapeOf, InMessage, Starting
  <2>2. ShapeOf("failed", "call", th[p].c, th[p].own, th[p].t)
    BY <1>2, <1>15 DEF CallRefreshed, ShapeOf, InMessage, Starting
  <2> QED BY <1>15, <2>1, <2>2, RefreshedMoves, ShapesKept
<1>16. ASSUME NEW p \in Threads, Send(p) \/ Await(p) PROVE Shapes'
  <2>1. PICK l \in {"waiting", "replied", "failed"} :
           Becomes(p, th', l, th[p].for, th[p].c, th[p].own, th[p].t)
    BY <1>16, MessageMoves
  <2>2. ShapeOf(l, th[p].for, th[p].c, th[p].own, th[p].t)
    BY <1>2, <1>16, MessageMoves DEF ShapeOf, InMessage, Starting
  <2> QED BY <2>1, <2>2, ShapesKept
<1>17. CASE SyncTools \/ Toggle \/ ServerExits \/ UNCHANGED vars
  BY <1>1, <1>17 DEF SyncTools, Toggle, ServerExits, vars
<1> QED
  BY <1>4, <1>5, <1>6, <1>7, <1>8, <1>9, <1>10, <1>11, <1>12, <1>13, <1>14, <1>15, <1>16, <1>17
     DEF Next, ThreadRuns

-------------------------------------------------------------------------------
\* A server is told of tools only when its initialize was answered.
LEMMA ReadyStep ==
    ASSUME Types, Shapes, ReadyFirst, [Next]_vars
    PROVE  ReadyFirst'
<1> USE DEF managerVars, historyVars
<1> DEFINE ThreadReady(q) == th[q].pc \in InMessage /\ th[q].for # "initialize" =>
                                th[q].t \in initialized
<1> DEFINE Assigned(c) == client[c].transport # None => client[c].transport \in initialized
<1>1. ~early /\ (\A c \in Clients : Assigned(c)) /\ \A q \in Threads : ThreadReady(q)
  BY DEF ReadyFirst
<1>2. ASSUME initialized \subseteq initialized', early' => early, UNCHANGED client,
             \/ UNCHANGED th
             \/ \E p \in Threads : \E l, u, c, o, t :
                   /\ Becomes(p, th', l, u, c, o, t)
                   /\ l \in InMessage /\ u # "initialize" => t \in initialized'
      PROVE  ReadyFirst'
  <2>1. \A c \in Clients : client'[c].transport # None => client'[c].transport \in initialized'
    BY <1>1, <1>2
  <2>2. ASSUME NEW q \in Threads, th'[q].pc \in InMessage, th'[q].for # "initialize"
        PROVE  th'[q].t \in initialized'
    BY <1>1, <1>2, <2>2 DEF Becomes
  <2> QED BY <1>1, <1>2, <2>1, <2>2 DEF ReadyFirst
<1>3. ASSUME UNCHANGED <<initialized, early>>,
             NEW e \in Clients, NEW x, NEW b, ClientBecomes(client', e, x, b),
             x # None => x \in initialized,
             NEW p \in Threads, NEW l, NEW u, NEW c, NEW o, NEW t, Becomes(p, th', l, u, c, o, t),
             l \in InMessage /\ u # "initialize" => t \in initialized
      PROVE  ReadyFirst'
  <2>1. ASSUME NEW d \in Clients, client'[d].transport # None
        PROVE  client'[d].transport \in initialized
    BY <1>1, <1>3, <2>1 DEF ClientBecomes
  <2>2. ASSUME NEW q \in Threads, th'[q].pc \in InMessage, th'[q].for # "initialize"
        PROVE  th'[q].t \in initialized
    BY <1>1, <1>3, <2>2 DEF Becomes
  <2> QED BY <1>1, <1>3, <2>1, <2>2 DEF ReadyFirst
<1>4. ASSUME NEW t \in Transports PROVE t # None
  BY ManagerAssumption
<1>5. ASSUME NEW p \in Threads, Connect(p) PROVE ReadyFirst'
  BY <1>2, <1>5, ConnectMoves DEF InMessage
<1>6. ASSUME NEW p \in Threads, Disconnect(p) \/ Reload(p) PROVE ReadyFirst'
  BY <1>2, <1>6, PopMoves DEF InMessage
<1>7. ASSUME NEW p \in Threads, CallTool(p) PROVE ReadyFirst'
  <2>1. PICK c \in Clients, u \in {"call", "refresh"} :
           /\ client[c].transport \in Transports
           /\ Becomes(p, th', "send", u, c, th[p].own, client[c].transport)
    BY <1>7, CallMoves
  <2>2. client[c].transport \in initialized  BY <1>1, <1>4, <2>1
  <2> QED BY <1>2, <1>7, <2>1, <2>2 DEF CallTool
<1>8. ASSUME NEW p \in Threads, CreateClient(p) PROVE ReadyFirst'
  <2>1. PICK c \in Clients :
           /\ ClientBecomes(client', c, client[c].transport, client[c].initialized)
           /\ Becomes(p, th', "starting", th[p].for, c, th[p].own, th[p].t)
    BY <1>8, CreateMoves
  <2>2. UNCHANGED <<initialized, early>>  BY <1>8 DEF CreateClient
  <2>3. client[c].transport # None => client[c].transport \in initialized  BY <1>1
  <2> QED BY <1>3, <2>1, <2>2, <2>3 DEF InMessage
<1>9. ASSUME NEW p \in Threads, StartClient(p) PROVE ReadyFirst'
  <2>1. UNCHANGED <<initialized, early, client>>  BY <1>9, StartMoves DEF StartClient
  <2> QED BY <1>2, <1>9, <2>1, StartMoves DEF InMessage
<1>10. ASSUME NEW p \in Threads, Initialized(p) PROVE ReadyFirst'
  <2>1. /\ initialized' = initialized \cup {th[p].t} /\ UNCHANGED <<early, client>>
    BY <1>10 DEF Initialized
  <2> QED BY <1>2, <1>10, <2>1, InitializedMoves
<1>11. ASSUME NEW p \in Threads, ClientReady(p) PROVE ReadyFirst'
  <2>1. UNCHANGED <<initialized, early>> /\ th[p].t \in initialized
    BY <1>1, <1>11 DEF ClientReady, InMessage
  <2>2. /\ th[p].c \in Clients /\ ClientBecomes(client', th[p].c, th[p].t, TRUE)
        /\ Becomes(p, th', "listing", "tools", th[p].c, th[p].own, th[p].t)
    BY <1>11, ReadyMoves
  <2> QED BY <1>3, <2>1, <2>2 DEF InMessage
<1>12. ASSUME NEW p \in Threads, ListTools(p) \/ CallRefreshed(p) PROVE ReadyFirst'
  <2>1. UNCHANGED <<initialized, early, client>>  BY <1>12 DEF ListTools, CallRefreshed
  <2>2. CASE /\ th[p].c \in Clients /\ client[th[p].c].transport \in Transports
             /\ \E u : Becomes(p, th', "send", u, th[p].c, th[p].own, client[th[p].c].transport)
    <3>1. client[th[p].c].transport \in initialized  BY <1>1, <1>4, <2>2
    <3> QED BY <1>2, <2>1, <2>2, <3>1
  <2>3. CASE \E u : Becomes(p, th', "failed", u, th[p].c, th[p].own, th[p].t)
    BY <1>2, <2>1, <2>3 DEF InMessage
  <2> QED BY <1>12, <2>2, <2>3, ListMoves, RefreshedMoves
<1>13. ASSUME NEW p \in Threads, ListAgain(p) PROVE ReadyFirst'
  <2>1. UNCHANGED <<initialized, early, client>>  BY <1>13 DEF ListAgain
  <2> QED BY <1>2, <1>13, <2>1, ListAgainMoves DEF InMessage
<1>14. ASSUME NEW p \in Threads, ConnectDone(p) \/ ListFails(p) \/ CallEnds(p) PROVE ReadyFirst'
  <2>1. UNCHANGED <<initialized, early, client>>  BY <1>14 DEF ConnectDone, ListFails, CallEnds
  <2> QED BY <1>2, <1>14, <2>1, ReturnsMove DEF InMessage
<1>15. ASSUME NEW p \in Threads, ConnectFails(p) \/ CloseClient(p) PROVE ReadyFirst'
  <2>1. UNCHANGED <<initialized, early>>  BY <1>15 DEF ConnectFails, CloseClient
  <2>2. th[p].c \in Clients /\ \E b : ClientBecomes(client', th[p].c, None, b)
    BY <1>15, FailMoves, CloseMoves
  <2>3. Becomes(p, th', "idle", "none", None, None, None)  BY <1>15, ReturnsMove
  <2> QED BY <1>3, <2>1, <2>2, <2>3 DEF InMessage
<1>16. ASSUME NEW p \in Threads, CancelClient(p) PROVE ReadyFirst'
  <2>1. UNCHANGED <<initialized, early>>  BY <1>16 DEF CancelClient
  <2>2. CASE LET t == client[th[p].c].transport
             IN  /\ th[p].c \in Clients /\ t \in Transports
                 /\ ClientBecomes(client', th[p].c, t, FALSE)
                 /\ Becomes(p, th', "send", "cancelled", th[p].c, th[p].own, t)
    <3>1. client[th[p].c].transport \in initialized  BY <1>1, <1>4, <2>2
    <3> QED BY <1>3, <2>1, <2>2, <3>1
  <2>3. CASE client' = client /\ Becomes(p, th', "idle", "none", None, None, None)
    BY <1>2, <2>1, <2>3 DEF InMessage
  <2>4. CASE /\ th[p].c \in Clients /\ ClientBecomes(client', th[p].c, None, FALSE)
             /\ Becomes(p, th', "idle", "none", None, None, None)
    BY <1>3, <2>1, <2>4 DEF InMessage
  <2> QED BY <1>16, <2>2, <2>3, <2>4, CancelMoves
<1>17. ASSUME NEW p \in Threads, Send(p) \/ Await(p) PROVE ReadyFirst'
  <2>1. th[p].pc \in InMessage
    BY <1>17, MessageMoves
  <2>2. th[p].for # "initialize" => th[p].t \in initialized  BY <1>1, <2>1
  <2>3. UNCHANGED <<initialized, client>>
    BY <1>17 DEF Send, Await
  <2>4. early' => early
    <3>1. \/ early' = (early \/ (th[p].for # "initialize" /\ th[p].t \notin initialized))
          \/ UNCHANGED early
      BY <1>17 DEF Send, Await
    <3> QED BY <2>2, <3>1, Zenon
  <2>5. \E l \in {"waiting", "replied", "failed"} :
           Becomes(p, th', l, th[p].for, th[p].c, th[p].own, th[p].t)
    BY <1>17, MessageMoves
  <2> QED BY <1>2, <2>2, <2>3, <2>4, <2>5
<1>18. CASE SyncTools \/ Toggle \/ ServerExits \/ UNCHANGED vars
  BY <1>2, <1>18 DEF SyncTools, Toggle, ServerExits, vars
<1> QED
  BY <1>5, <1>6, <1>7, <1>8, <1>9, <1>10, <1>11, <1>12, <1>13, <1>14, <1>15, <1>16, <1>17, <1>18
     DEF Next, ThreadRuns

-------------------------------------------------------------------------------
(* Nothing is left running.  Who manages alone is the one thread that the  *)
(* invariant speaks of; the two lemmas read it, the next three restore it. *)

\* What the invariant says when one thread manages.
LEMMA Sole ==
    ASSUME Types, Shapes, Alone, NothingLeftRunning, ~overlapped, NEW p \in Threads, Managing(p)
    PROVE  /\ \A q \in Threads : q # p => ~Managing(q)
           /\ th[p].for # "cancelled" => clients = IF th[p].pc = "creating" THEN None ELSE th[p].c
           /\ \A d \in Clients : Lives(d) =>
                 client[d].initialized \/ (th[p].for = "cancelled" /\ th[p].c = d)
           /\ th[p].for \in Starting => ~Lives(th[p].c)
           /\ th[p].for \in {"connect", "tools"} /\ th[p].pc \notin {"creating", "starting"} =>
                 th[p].own \in {None, client[th[p].c].transport}
           /\ \A s \in Transports : Alive(s) =>
                 \/ clients # None /\ client[clients].transport = s
                 \/ th[p].own = s
                 \/ th[p].c # None /\ client[th[p].c].transport = s
<1>1. OneManager /\ WorksOnTable /\ LivesInitialized /\ OwnOnly
  BY DEF Alone
<1>2. \A q \in Threads : q # p => ~Managing(q)
  BY <1>1 DEF OneManager
<1>3. th[p].for # "cancelled" => clients = IF th[p].pc = "creating" THEN None ELSE th[p].c
  BY <1>1 DEF WorksOnTable, Connects
<1>4. \A d \in Clients : Lives(d) =>
         client[d].initialized \/ (th[p].for = "cancelled" /\ th[p].c = d)
  BY <1>1, <1>2 DEF LivesInitialized
<1>5. /\ th[p].for \in Starting => ~Lives(th[p].c)
      /\ th[p].for \in {"connect", "tools"} /\ th[p].pc \notin {"creating", "starting"} =>
            th[p].own \in {None, client[th[p].c].transport}
  BY <1>1 DEF OwnOnly
<1>6. \A s \in Transports : Alive(s) =>
         \/ clients # None /\ client[clients].transport = s
         \/ th[p].own = s
         \/ th[p].c # None /\ client[th[p].c].transport = s
  BY <1>2 DEF NothingLeftRunning
<1> QED BY <1>2, <1>3, <1>4, <1>5, <1>6

\* What it says when none does.
LEMMA Nobody ==
    ASSUME Alone, NothingLeftRunning, ~overlapped, \A q \in Threads : ~Managing(q)
    PROVE  /\ \A d \in Clients : Lives(d) => client[d].initialized
           /\ \A s \in Transports : Alive(s) => clients # None /\ client[clients].transport = s
BY DEF Alone, LivesInitialized, NothingLeftRunning

\* What managing threads do not see does not disturb them.
LEMMA Bystander ==
    ASSUME Types, Shapes, Alone, NothingLeftRunning, overlapped => overlapped',
           UNCHANGED <<clients, client>>,
           \A s \in Transports : Alive(s)' => Alive(s),
           \A q \in Threads : /\ Managing(q)' <=> Managing(q)
                              /\ Managing(q) => th'[q] = th[q]
    PROVE  Alone' /\ NothingLeftRunning'
<1> SUFFICES ASSUME ~overlapped'
             PROVE  /\ (OneManager /\ WorksOnTable /\ LivesInitialized /\ OwnOnly)'
                    /\ NothingLeftRunning'
  BY DEF Alone, NothingLeftRunning
<1>1. OneManager /\ WorksOnTable /\ LivesInitialized /\ OwnOnly /\ ~overlapped
  BY DEF Alone
<1>2. \A d \in Clients : Lives(d)' => Lives(d)
  BY TypeFacts DEF Lives
<1>3. OneManager'  BY <1>1 DEF OneManager
<1>4. WorksOnTable'
  <2>1. \A q \in Threads : Connects(q)' => Connects(q) /\ th'[q] = th[q]  BY DEF Connects
  <2> QED BY <1>1, <2>1 DEF WorksOnTable
<1>5. LivesInitialized'
  BY <1>1, <1>2 DEF LivesInitialized
<1>6. OwnOnly'
  <2>1. ASSUME NEW q \in Threads, Managing(q)'
        PROVE  /\ th'[q].for \in Starting => ~Lives(th[q].c)'
               /\ th'[q].for \in {"connect", "tools"} /\ th'[q].pc \notin {"creating", "starting"} =>
                     th'[q].own \in {None, client'[th'[q].c].transport}
    <3>1. Managing(q) /\ th'[q] = th[q]  BY <2>1
    <3>2. th[q].for \in Starting => ~Lives(th[q].c)  BY <1>1, <3>1 DEF OwnOnly
    <3>3. th[q].for \in {"connect", "tools"} /\ th[q].pc \notin {"creating", "starting"} =>
             th[q].own \in {None, client[th[q].c].transport}
      BY <1>1, <3>1 DEF OwnOnly
    <3>4. th[q].for \in Starting => th[q].c \in Clients
      BY <3>1, TypeFacts DEF Managing, Shapes, Shape, ShapeOf
    <3>5. th[q].for \in Starting => ~Lives(th[q].c)'
      <4>1. \A d \in Clients : Lives(d)' <=> client[d].transport # None /\ Alive(client[d].transport)'
        BY DEF Lives
      <4> QED BY <1>2, <3>1, <3>2, <3>4, <4>1 DEF Lives
    <3> QED BY <3>1, <3>3, <3>5
  <2> QED BY <2>1 DEF OwnOnly
<1>7. NothingLeftRunning'
  BY <1>1 DEF NothingLeftRunning
<1> QED BY <1>3, <1>4, <1>5, <1>6, <1>7

\* What a step must show when afterwards one thread manages.
LEMMA SoleAfter ==
    ASSUME NEW p \in Threads, NEW l, NEW u, NEW c, NEW o, NEW t, Becomes(p, th', l, u, c, o, t),
           \A q \in Threads : q # p => ~Managing(q), u # "none",
           u # "cancelled" => clients' = IF l = "creating" THEN None ELSE c,
           \A d \in Clients : Lives(d)' => client'[d].initialized \/ (u = "cancelled" /\ c = d),
           u \in Starting => ~Lives(c)',
           u \in {"connect", "tools"} /\ l \notin {"creating", "starting"} =>
               o \in {None, client'[c].transport},
           \A s \in Transports : Alive(s)' =>
               \/ clients' # None /\ client'[clients'].transport = s
               \/ o = s
               \/ c # None /\ client'[c].transport = s,
           l # "idle", u \notin {"call", "refresh"}
    PROVE  Alone' /\ NothingLeftRunning'
<1>1. /\ th'[p].pc = l /\ th'[p].for = u /\ th'[p].c = c /\ th'[p].own = o
      /\ \A q \in Threads : q # p => th'[q] = th[q]
  BY DEF Becomes
<1>2. Managing(p)' /\ \A q \in Threads : Managing(q)' => q = p
  BY <1>1 DEF Managing
<1>3. OneManager'  BY <1>2 DEF OneManager
<1>4. WorksOnTable'  BY <1>1, <1>2 DEF WorksOnTable, Connects
<1>5. LivesInitialized'  BY <1>1, <1>2 DEF LivesInitialized
<1>6. OwnOnly'
  <2>1. th'[p].for \in Starting => ~Lives(th[p].c)'  BY <1>1 DEF Lives
  <2>2. th'[p].for \in {"connect", "tools"} /\ th'[p].pc \notin {"creating", "starting"} =>
           th'[p].own \in {None, client'[th'[p].c].transport}
    BY <1>1
  <2> QED BY <1>2, <2>1, <2>2 DEF OwnOnly
<1>7. NothingLeftRunning'  BY <1>1, <1>2 DEF NothingLeftRunning
<1> QED BY <1>3, <1>4, <1>5, <1>6, <1>7 DEF Alone

\* What it must show when afterwards none does.
LEMMA NobodyAfter ==
    ASSUME NEW p \in Threads, Becomes(p, th', "idle", "none", None, None, None),
           \A q \in Threads : q # p => ~Managing(q),
           \A d \in Clients : Lives(d)' => client'[d].initialized,
           \A s \in Transports : Alive(s)' =>
               clients' # None /\ client'[clients'].transport = s
    PROVE  Alone' /\ NothingLeftRunning'
<1>1. \A q \in Threads : ~Managing(q)'
  BY DEF Becomes, Managing
<1>2. OneManager' /\ WorksOnTable' /\ LivesInitialized' /\ OwnOnly'
  BY <1>1 DEF OneManager, WorksOnTable, Connects, LivesInitialized, OwnOnly
<1> QED BY <1>2 DEF Alone, NothingLeftRunning

\* A step that starts no process and moves no client, thread or table.
LEMMA StaysSound ==
    ASSUME Types, Shapes, Alone, NothingLeftRunning, overlapped => overlapped',
           UNCHANGED <<clients, client, th>>, \A s \in Transports : Alive(s)' => Alive(s)
    PROVE  Alone' /\ NothingLeftRunning'
<1>1. \A q \in Threads : (Managing(q)' <=> Managing(q)) /\ th'[q] = th[q]
  BY DEF Managing
<1> QED BY <1>1, Bystander

\* A step of a call: it is no business of the manager's.
LEMMA CallerSound ==
    ASSUME Types, Shapes, Alone, NothingLeftRunning,
           UNCHANGED <<overlapped, clients, client, proc>>,
           NEW p \in Threads, ~Managing(p), NEW l, NEW u, NEW c, NEW o, NEW t,
           Becomes(p, th', l, u, c, o, t), l = "idle" \/ u \in {"call", "refresh"}
    PROVE  Alone' /\ NothingLeftRunning'
<1>1. ASSUME NEW q \in Threads
      PROVE  (Managing(q)' <=> Managing(q)) /\ (Managing(q) => th'[q] = th[q])
  BY DEF Becomes, Managing
<1>2. \A s \in Transports : Alive(s)' => Alive(s)  BY DEF Alive
<1> QED BY <1>1, <1>2, Bystander

\* The manager's thread goes on, with the client and the process it has.
LEMMA GoesOnSound ==
    ASSUME Types, Shapes, Alone, NothingLeftRunning, ~overlapped,
           UNCHANGED <<clients, client, proc>>,
           NEW p \in Threads, Managing(p), NEW l, NEW u, NEW t,
           Becomes(p, th', l, u, th[p].c, th[p].own, t),
           l \notin {"idle", "creating"}, th[p].pc # "creating",
           u \notin {"none", "call", "refresh"},
           u = "cancelled" <=> th[p].for = "cancelled",
           u \in Starting => th[p].for \in Starting,
           u \in {"connect", "tools"} =>
               th[p].own = None \/ (th[p].pc # "starting" /\ th[p].for \in {"connect", "tools"})
    PROVE  Alone' /\ NothingLeftRunning'
<1> DEFINE c == th[p].c
           o == th[p].own
<1>1. u # "cancelled" => clients' = IF l = "creating" THEN None ELSE c
  BY Sole
<1>2. \A d \in Clients : Lives(d)' => client'[d].initialized \/ (u = "cancelled" /\ c = d)
  BY Sole DEF Lives, Alive
<1>3. u \in Starting =>
          ~(client'[c].transport # None /\ proc'[client'[c].transport] = "up")
  BY Sole DEF Lives, Alive
<1>4. u \in {"connect", "tools"} /\ l \notin {"creating", "starting"} =>
          o \in {None, client'[c].transport}
  BY Sole
<1>5. \A s \in Transports : Alive(s)' =>
         \/ clients' # None /\ client'[clients'].transport = s
         \/ o = s
         \/ c # None /\ client'[c].transport = s
  BY Sole DEF Alive
<1>6. \A q \in Threads : q # p => ~Managing(q)  BY Sole
<1> HIDE DEF c, o
<1>7. Becomes(p, th', l, u, c, o, t)  BY DEF c, o
<1> QED BY <1>1, <1>2, <1>3, <1>4, <1>5, <1>6, <1>7, SoleAfter DEF Lives, Alive

\* Every step leaves every process within reach of the table or of a thread.
LEMMA SoundStep ==
    ASSUME Types, Shapes, Alone, NothingLeftRunning, [Next]_vars
    PROVE  Alone' /\ NothingLeftRunning'
<1> USE DEF managerVars, historyVars
<1>1. overlapped => overlapped'
  BY DEF Next, ThreadRuns, vars, Connect, Disconnect, Reload, Enter, CallTool, CreateClient,
         StartClient, Initialized, ClientReady, ListTools, ListAgain, ConnectDone, ConnectFails,
         ListFails, CancelClient, CloseClient, CallRefreshed, CallEnds, Send, Await, SyncTools,
         Toggle, ServerExits
<1>2. CASE overlapped'
  BY <1>2 DEF Alone, NothingLeftRunning
<1>3. CASE ~overlapped'
  <2>1. ~overlapped  BY <1>1, <1>3
  <2>2. ASSUME NEW p \in Threads, Enter(p) PROVE \A q \in Threads : ~Managing(q)
    <3>1. overlapped' = (overlapped \/ \E q \in Threads : Managing(q))  BY <2>2 DEF Enter
    <3> QED BY <1>3, <3>1, Zenon
  <2>3. ASSUME NEW p \in Threads, th[p].pc # "idle", th[p].for \notin {"call", "refresh"}
        PROVE  Managing(p)
    BY <2>3 DEF Managing
  <2>4. ASSUME NEW t \in Transports PROVE t # None
    BY ManagerAssumption
  <2>5. ASSUME NEW p \in Threads, Connect(p) PROVE Alone' /\ NothingLeftRunning'
    <3>1. (\A q \in Threads : ~Managing(q)) /\ UNCHANGED <<proc, clients, client>>
      BY <2>2, <2>5, ConnectMoves DEF Connect
    <3>2. CASE UNCHANGED th
      BY <1>1, <3>1, <3>2, StaysSound DEF Alive
    <3>3. CASE Becomes(p, th', IF clients = None THEN "creating" ELSE "starting", "connect",
                       clients, None, None)
      <4> DEFINE l == IF clients = None THEN "creating" ELSE "starting"
      <4>1. clients' = IF l = "creating" THEN None ELSE clients
        BY <3>1
      <4>2. l \in {"creating", "starting"} /\ "connect" \notin Starting  BY DEF Starting
      <4>3. /\ \A d \in Clients : Lives(d)' => client'[d].initialized
            /\ \A s \in Transports : Alive(s)' => clients' # None /\ client'[clients'].transport = s
        BY <2>1, <3>1, Nobody DEF Lives, Alive
      <4>4. Becomes(p, th', l, "connect", clients, None, None)  BY <3>3
      <4> HIDE DEF l
      <4> QED BY <3>1, <4>1, <4>2, <4>3, <4>4, SoleAfter
    <3> QED BY <2>5, <3>2, <3>3, ConnectMoves
  <2>6. ASSUME NEW p \in Threads, Disconnect(p) \/ Reload(p) PROVE Alone' /\ NothingLeftRunning'
    <3>1. (\A q \in Threads : ~Managing(q)) /\ UNCHANGED <<proc, client>>
      BY <2>2, <2>6, PopMoves DEF Disconnect, Reload
    <3>2. CASE UNCHANGED <<th, clients>>
      BY <1>1, <3>1, <3>2, StaysSound DEF Alive
    <3>3. CASE clients' = None /\ Becomes(p, th', "closing", "cancelled", clients, None, None)
      <4>1. /\ \A d \in Clients : Lives(d)' => client'[d].initialized
            /\ \A s \in Transports : Alive(s)' => clients # None /\ client'[clients].transport = s
        BY <2>1, <3>1, Nobody DEF Lives, Alive
      <4>2. "cancelled" \notin Starting  BY DEF Starting
      <4> QED BY <3>1, <3>3, <4>1, <4>2, SoleAfter
    <3> QED BY <2>6, <3>2, <3>3, PopMoves
  <2>7. ASSUME NEW p \in Threads, CallTool(p) PROVE Alone' /\ NothingLeftRunning'
    <3>1. ~Managing(p)  BY <2>7 DEF CallTool, Managing
    <3>2. UNCHANGED <<overlapped, clients, client, proc>>  BY <2>7 DEF CallTool
    <3> QED BY <2>7, <3>1, <3>2, CallMoves, CallerSound
  <2>8. ASSUME NEW p \in Threads, CallEnds(p) PROVE Alone' /\ NothingLeftRunning'
    <3>1. ~Managing(p)  BY <2>8 DEF CallEnds, Managing
    <3>2. UNCHANGED <<overlapped, clients, client, proc>>  BY <2>8 DEF CallEnds
    <3> QED BY <2>8, <3>1, <3>2, ReturnsMove, CallerSound
  <2>9. ASSUME NEW p \in Threads, CallRefreshed(p) PROVE Alone' /\ NothingLeftRunning'
    <3>1. ~Managing(p)  BY <2>9 DEF CallRefreshed, Managing
    <3>2. UNCHANGED <<overlapped, clients, client, proc>>  BY <2>9 DEF CallRefreshed
    <3> QED BY <2>9, <3>1, <3>2, RefreshedMoves, CallerSound
  <2>10. ASSUME NEW p \in Threads, Send(p) \/ Await(p) PROVE Alone' /\ NothingLeftRunning'
    <3>1. UNCHANGED <<overlapped, clients, client, proc>>  BY <2>10 DEF Send, Await
    <3>2. th[p].pc \in InMessage  BY <2>10, MessageMoves
    <3>3. PICK l \in {"waiting", "replied", "failed"} :
             Becomes(p, th', l, th[p].for, th[p].c, th[p].own, th[p].t)
      BY <2>10, MessageMoves
    <3>4. CASE th[p].for \in {"call", "refresh"}
      BY <3>1, <3>3, <3>4, CallerSound DEF Managing
    <3>5. CASE th[p].for \notin {"call", "refresh"}
      <4>1. Managing(p) /\ th[p].pc \notin {"creating", "starting"}
        BY <2>3, <3>2, <3>5 DEF InMessage
      <4>2. th[p].for # "none"  BY <3>2 DEF Shapes, Shape, ShapeOf, InMessage
      <4> QED BY <2>1, <3>1, <3>3, <3>5, <4>1, <4>2, GoesOnSound, SMTT(60)
    <3> QED BY <3>4, <3>5
  <2>11. ASSUME NEW p \in Threads, CreateClient(p) PROVE Alone' /\ NothingLeftRunning'
    <3>1. th[p].pc = "creating" /\ UNCHANGED proc
      BY <2>11 DEF CreateClient
    <3>2. th[p].for = "connect" /\ th[p].c = None /\ th[p].own = None
      BY <3>1 DEF Shapes, Shape, ShapeOf
    <3>3. Managing(p)  BY <2>3, <3>1, <3>2
    <3>4. PICK c \in Clients :
             /\ clients' = c
             /\ ClientBecomes(client', c, client[c].transport, client[c].initialized)
             /\ Becomes(p, th', "starting", th[p].for, c, th[p].own, th[p].t)
      BY <2>11, CreateMoves
    <3>5. /\ \A q \in Threads : q # p => ~Managing(q)
          /\ \A d \in Clients : Lives(d) => client[d].initialized
          /\ \A s \in Transports : ~Alive(s)
      BY <2>1, <2>4, <3>1, <3>2, <3>3, Sole
    <3>6. \A d \in Clients : Lives(d)' => client'[d].initialized
      BY <3>1, <3>4, <3>5 DEF Lives, Alive, ClientBecomes
    <3>7. \A s \in Transports : ~Alive(s)'  BY <3>1, <3>5 DEF Alive
    <3>8. "connect" \notin Starting  BY DEF Starting
    <3> QED BY <3>2, <3>4, <3>5, <3>6, <3>7, <3>8, SoleAfter
  <2>12. ASSUME NEW p \in Threads, StartClient(p) PROVE Alone' /\ NothingLeftRunning'
    <3>1. th[p].pc = "starting" /\ UNCHANGED <<client, clients>>
      BY <2>12 DEF StartClient, KeepTransport
    <3>2. th[p].for = "connect" /\ th[p].c \in Clients /\ th[p].own = None
      BY <3>1, TypeFacts DEF Shapes, Shape, ShapeOf
    <3>3. Managing(p)  BY <2>3, <3>1, <3>2
    <3>4. CASE UNCHANGED proc /\ Becomes(p, th', "listing", th[p].for, th[p].c, th[p].own, th[p].t)
      <4>1. "connect" \notin Starting  BY DEF Starting
      <4>2. /\ UNCHANGED <<clients, client, proc>>
            /\ Becomes(p, th', "listing", "connect", th[p].c, th[p].own, th[p].t)
        BY <3>1, <3>2, <3>4
      <4>3. th[p].pc # "creating" /\ th[p].for # "cancelled" /\ th[p].own = None
        BY <3>1, <3>2
      <4> QED BY <2>1, <3>3, <4>1, <4>2, <4>3, GoesOnSound, SMTT(60)
    <3>5. ASSUME ~Connected(th[p].c), NEW t \in Transports, proc[t] = "none",
                 proc' = [proc EXCEPT ![t] = "up"],
                 Becomes(p, th', "send", "initialize", th[p].c, t, t)
          PROVE  Alone' /\ NothingLeftRunning'
      <4> DEFINE c == th[p].c
      <4>1. /\ \A q \in Threads : q # p => ~Managing(q)
            /\ clients = c
            /\ \A d \in Clients : Lives(d) => client[d].initialized
            /\ \A s \in Transports : Alive(s) => client[c].transport = s
        BY <2>1, <2>4, <3>1, <3>2, <3>3, Sole
      <4>2. \A s \in Transports : Alive(s)' => s = t \/ Alive(s)
        BY <3>5, TypeFacts DEF Alive
      <4>3. ASSUME NEW d \in Clients, Lives(d)' PROVE Lives(d)
        <5>1. client[d].transport # None /\ proc'[client[d].transport] = "up"
          BY <3>1, <4>3 DEF Lives, Alive
        <5>2. client[d].transport \in Transports /\ client[d].transport # t
          BY <3>5, <5>1, TypeFacts
        <5> QED BY <4>2, <5>1, <5>2 DEF Lives, Alive
      <4>4. ~Lives(c)
        BY <3>2, <3>5, <4>1 DEF Lives, Connected, Usable
      <4>5. c \in Clients /\ c # None  BY <3>2, ManagerAssumption
      <4>6. Becomes(p, th', "send", "initialize", c, t, t)  BY <3>5
      <4>7. \A d \in Clients : Lives(d)' => client'[d].initialized
        BY <3>1, <4>1, <4>3
      <4>8. \A s \in Transports : Alive(s)' => t = s \/ client'[c].transport = s
        BY <3>1, <4>1, <4>2
      <4>9. ~(client'[c].transport # None /\ proc'[client'[c].transport] = "up")
        BY <4>3, <4>4, <4>5, <3>1 DEF Lives, Alive
      <4>10. clients' = c  BY <3>1, <4>1
      <4> HIDE DEF c
      <4> QED BY <4>1, <4>5, <4>6, <4>7, <4>8, <4>9, <4>10, SoleAfter DEF Lives, Alive
    <3> QED BY <2>12, <3>4, <3>5, StartMoves
  <2>13. ASSUME NEW p \in Threads, Initialized(p) PROVE Alone' /\ NothingLeftRunning'
    <3>1. UNCHANGED <<overlapped, clients, client, proc>> /\ th[p].pc = "replied"
          /\ th[p].for = "initialize"
      BY <2>13 DEF Initialized
    <3>2. Managing(p)  BY <2>3, <3>1
    <3>3. Becomes(p, th', "send", "initialized", th[p].c, th[p].own, th[p].t)
      BY <2>13, InitializedMoves
    <3>4. th[p].for \in Starting  BY <3>1 DEF Starting
    <3> QED BY <2>1, <3>1, <3>2, <3>3, <3>4, GoesOnSound, SMTT(60)
  <2>14. ASSUME NEW p \in Threads, ClientReady(p) PROVE Alone' /\ NothingLeftRunning'
    <3>1. th[p].pc = "replied" /\ th[p].for = "initialized" /\ UNCHANGED <<proc, clients>>
      BY <2>14 DEF ClientReady
    <3>2. Managing(p)  BY <2>3, <3>1
    <3> DEFINE c == th[p].c
               t == th[p].t
    <3>3. /\ c \in Clients /\ t \in Transports /\ ClientBecomes(client', c, t, TRUE)
          /\ Becomes(p, th', "listing", "tools", c, th[p].own, t)
      BY <2>14, ReadyMoves
    <3>4. th[p].own = t
      BY <3>1 DEF Shapes, Shape, ShapeOf, InMessage, Starting
    <3>5. th[p].for \in Starting /\ "tools" \notin Starting  BY <3>1 DEF Starting
    <3>6. /\ \A q \in Threads : q # p => ~Managing(q)
          /\ clients = c /\ ~Lives(c)
          /\ \A d \in Clients : Lives(d) => client[d].initialized
          /\ \A s \in Transports : Alive(s) => t = s \/ client[c].transport = s
      BY <2>1, <3>1, <3>2, <3>4, <3>5, Sole
    <3>7. \A s \in Transports : Alive(s) => t = s
      BY <2>4, <3>6 DEF Lives
    <3> HIDE DEF c, t
    <3>8. \A s \in Transports : Alive(s)' => t = s  BY <3>1, <3>7 DEF Alive
    <3>9. \A d \in Clients : Lives(d)' => client'[d].initialized
      BY <3>1, <3>3, <3>6 DEF Lives, Alive, ClientBecomes
    <3>10. clients' = c /\ client'[c].transport = t
      BY <3>1, <3>3, <3>6 DEF ClientBecomes
    <3>11. Becomes(p, th', "listing", "tools", c, t, t)  BY <3>3, <3>4
    <3> QED BY <3>5, <3>6, <3>8, <3>9, <3>10, <3>11, SoleAfter
  <2>15. ASSUME NEW p \in Threads, ListTools(p) PROVE Alone' /\ NothingLeftRunning'
    <3>1. UNCHANGED <<overlapped, clients, client, proc>> /\ th[p].pc = "listing"
      BY <2>15 DEF ListTools
    <3>2. th[p].for \in {"connect", "tools"}  BY <3>1 DEF Shapes, Shape, ShapeOf
    <3>3. Managing(p)  BY <2>3, <3>1, <3>2
    <3>4. PICK l, t : /\ l \in {"send", "failed"}
                      /\ Becomes(p, th', l, th[p].for, th[p].c, th[p].own, t)
      BY <2>15, ListMoves
    <3> QED BY <2>1, <3>1, <3>2, <3>3, <3>4, GoesOnSound, SMTT(60)
  <2>16. ASSUME NEW p \in Threads, ListAgain(p) PROVE Alone' /\ NothingLeftRunning'
    <3>1. UNCHANGED <<overlapped, clients, client, proc>> /\ th[p].pc = "replied"
          /\ th[p].for = "tools"
      BY <2>16 DEF ListAgain
    <3>2. Managing(p)  BY <2>3, <3>1
    <3>3. "connect" \notin Starting  BY DEF Starting
    <3> QED BY <2>1, <2>16, <3>1, <3>2, <3>3, ListAgainMoves, GoesOnSound, SMTT(60)
  <2>17. ASSUME NEW p \in Threads, ConnectDone(p) \/ ListFails(p)
         PROVE  Alone' /\ NothingLeftRunning'
    <3>1. /\ th[p].pc \in {"replied", "failed"} /\ th[p].for = "connect"
          /\ UNCHANGED <<proc, clients, client>>
      BY <2>17 DEF ConnectDone, ListFails
    <3>2. Managing(p)  BY <2>3, <3>1
    <3>3. th[p].c \in Clients /\ th[p].c # None
      BY <3>1, TypeFacts, ManagerAssumption DEF InMessage
    <3>4. /\ \A q \in Threads : q # p => ~Managing(q)
          /\ \A d \in Clients : Lives(d) => client[d].initialized
          /\ clients = th[p].c /\ th[p].own \in {None, client[th[p].c].transport}
          /\ \A s \in Transports : Alive(s) => clients # None /\ client[clients].transport = s
      BY <2>1, <2>4, <3>1, <3>2, <3>3, Sole
    <3>5. /\ \A d \in Clients : Lives(d)' => client'[d].initialized
          /\ \A s \in Transports : Alive(s)' => clients' # None /\ client'[clients'].transport = s
      BY <3>1, <3>4 DEF Lives, Alive
    <3> QED BY <2>17, <3>4, <3>5, ReturnsMove, NobodyAfter
  <2>18. ASSUME NEW p \in Threads, ConnectFails(p) PROVE Alone' /\ NothingLeftRunning'
    <3>1. /\ th[p].pc = "failed" /\ th[p].for \in {"initialize", "initialized", "tools"}
          /\ proc' = [proc EXCEPT ![th[p].own] = "closed"] /\ UNCHANGED clients
      BY <2>18 DEF ConnectFails, CleanUp, CloseProcess
    <3>2. Managing(p)  BY <2>3, <3>1
    <3>3. /\ th[p].c \in Clients /\ th[p].c # None
          /\ ClientBecomes(client', th[p].c, None, FALSE)
      BY <2>18, FailMoves, ManagerAssumption
    <3>4. /\ th[p].for \in Starting \/ th[p].for = "tools"
          /\ th[p].own # None
      BY <3>1 DEF Starting, Shapes, Shape, ShapeOf
    <3>5. /\ \A q \in Threads : q # p => ~Managing(q)
          /\ \A d \in Clients : Lives(d) => client[d].initialized
          /\ clients = th[p].c
          /\ Lives(th[p].c) => client[th[p].c].transport = th[p].own
          /\ \A s \in Transports : Alive(s) => th[p].own = s \/ client[th[p].c].transport = s
      BY <2>1, <3>1, <3>2, <3>3, <3>4, Sole
    <3>6. \A s \in Transports : Alive(s) => s = th[p].own
      BY <2>4, <3>5 DEF Lives
    <3>7. \A s \in Transports : ~Alive(s)'
      BY <3>1, <3>6, TypeFacts DEF Alive
    <3>8. \A d \in Clients : Lives(d)' => client'[d].initialized
      <4>1. \A d \in Clients : client'[d].transport \in Transports \cup {None}
        BY <3>3 DEF ClientBecomes, Client
      <4> QED BY <3>7, <4>1 DEF Lives
    <3> QED BY <2>18, <3>5, <3>7, <3>8, ReturnsMove, NobodyAfter
  <2>19. ASSUME NEW p \in Threads, CancelClient(p) PROVE Alone' /\ NothingLeftRunning'
    <3>1. th[p].pc = "closing" /\ UNCHANGED <<proc, clients>>
      BY <2>19 DEF CancelClient
    <3>2. th[p].for = "cancelled" /\ th[p].own = None
      BY <3>1 DEF Shapes, Shape, ShapeOf
    <3>3. Managing(p)  BY <2>3, <3>1, <3>2
    <3>4. /\ \A q \in Threads : q # p => ~Managing(q)
          /\ \A d \in Clients : Lives(d) => client[d].initialized \/ th[p].c = d
          /\ \A s \in Transports : Alive(s) =>
                \/ clients # None /\ client[clients].transport = s
                \/ th[p].c # None /\ client[th[p].c].transport = s
      BY <2>1, <2>4, <3>2, <3>3, Sole
    <3>5. CASE LET t == client[th[p].c].transport
               IN  /\ th[p].c \in Clients /\ t \in Transports
                   /\ ClientBecomes(client', th[p].c, t, FALSE)
                   /\ Becomes(p, th', "send", "cancelled", th[p].c, th[p].own, t)
      <4> DEFINE c == th[p].c
      <4>1. \A d \in Clients : client'[d].transport = client[d].transport
        BY <3>5 DEF ClientBecomes
      <4>2. c \in Clients /\ c # None /\ "cancelled" \notin Starting
        BY <3>5, ManagerAssumption DEF Starting
      <4>3. \A d \in Clients : Lives(d)' => client'[d].initialized \/ c = d
        BY <3>1, <3>4, <3>5, <4>1 DEF Lives, Alive, ClientBecomes
      <4>4. \A s \in Transports : Alive(s)' =>
               \/ clients' # None /\ client'[clients'].transport = s
               \/ client'[c].transport = s
        BY <3>1, <3>4, <4>1, <4>2, TypeFacts DEF Alive
      <4>5. Becomes(p, th', "send", "cancelled", c, th[p].own, client[c].transport)
        BY <3>5
      <4> HIDE DEF c
      <4> QED BY <3>4, <4>2, <4>3, <4>4, <4>5, SoleAfter
    <3>6. CASE /\ \/ th[p].c = None /\ client' = client
                  \/ /\ th[p].c \in Clients /\ client[th[p].c].transport = None
                     /\ ClientBecomes(client', th[p].c, None, FALSE)
               /\ Becomes(p, th', "idle", "none", None, None, None)
      <4>1. \A d \in Clients : client'[d].transport = client[d].transport
        BY <3>6 DEF ClientBecomes
      <4>2. \A d \in Clients : Lives(d)' => Lives(d) /\ client'[d].initialized
        BY <3>1, <3>4, <3>6, <4>1, ManagerAssumption DEF Lives, Alive, ClientBecomes
      <4>3. \A s \in Transports : Alive(s)' =>
               clients' # None /\ client'[clients'].transport = s
        BY <2>4, <3>1, <3>4, <3>6, <4>1, TypeFacts DEF Alive
      <4> QED BY <3>4, <3>6, <4>2, <4>3, NobodyAfter
    <3> QED BY <2>19, <3>5, <3>6, CancelMoves
  <2>20. ASSUME NEW p \in Threads, CloseClient(p) PROVE Alone' /\ NothingLeftRunning'
    <3> DEFINE c == th[p].c
               t == client[c].transport
    <3>1. /\ th[p].pc \in {"replied", "failed"} /\ th[p].for = "cancelled" /\ UNCHANGED clients
          /\ IF t = None THEN UNCHANGED proc ELSE proc' = [proc EXCEPT ![t] = "closed"]
      BY <2>20 DEF CloseClient, CloseProcess
    <3>2. th[p].own = None  BY <3>1 DEF Shapes, Shape, ShapeOf
    <3>3. Managing(p)  BY <2>3, <3>1
    <3>4. c \in Clients /\ ClientBecomes(client', c, None, client[c].initialized)
      BY <2>20, CloseMoves
    <3>5. /\ \A q \in Threads : q # p => ~Managing(q)
          /\ \A d \in Clients : Lives(d) => client[d].initialized \/ c = d
          /\ \A s \in Transports : Alive(s) =>
                (clients # None /\ client[clients].transport = s) \/ t = s
      BY <2>1, <2>4, <3>1, <3>2, <3>3, Sole
    <3>6. t \in Transports \cup {None}  BY <3>4, TypeFacts
    <3> HIDE DEF c, t
    <3>7. \A s \in Transports : Alive(s)' => Alive(s) /\ s # t
      BY <2>4, <3>1, TypeFacts DEF Alive
    <3>8. ASSUME NEW d \in Clients, Lives(d)' PROVE client'[d].initialized
      <4>1. d # c /\ client'[d].transport = client[d].transport
            /\ client'[d].initialized = client[d].initialized
        BY <3>4, <3>8 DEF Lives, ClientBecomes
      <4>2. Lives(d)  BY <3>7, <3>8, <4>1, TypeFacts DEF Lives
      <4> QED BY <3>5, <4>1, <4>2
    <3>9. ASSUME NEW s \in Transports, Alive(s)'
          PROVE  clients' # None /\ client'[clients'].transport = s
      <4>1. clients # None /\ client[clients].transport = s /\ s # t
        BY <3>5, <3>7, <3>9
      <4>2. clients \in Clients /\ clients # c  BY <4>1, TypeFacts DEF t
      <4> QED BY <3>1, <3>4, <4>1, <4>2 DEF ClientBecomes
    <3> QED BY <2>20, <3>5, <3>8, <3>9, ReturnsMove, NobodyAfter
  <2>21. CASE SyncTools \/ Toggle \/ ServerExits \/ UNCHANGED vars
    <3>1. /\ UNCHANGED <<overlapped, clients, client, th>>
          /\ UNCHANGED proc \/ \E t \in Transports : proc' = [proc EXCEPT ![t] = "exited"]
      BY <2>21 DEF SyncTools, Toggle, ServerExits, vars
    <3>2. \A s \in Transports : Alive(s)' => Alive(s)  BY <3>1, TypeFacts DEF Alive
    <3> QED BY <3>1, <3>2, StaysSound
  <2> QED
    BY <2>5, <2>6, <2>7, <2>8, <2>9, <2>10, <2>11, <2>12, <2>13, <2>14, <2>15, <2>16, <2>17,
       <2>18, <2>19, <2>20, <2>21
       DEF Next, ThreadRuns
<1> QED BY <1>2, <1>3

-------------------------------------------------------------------------------
\* The invariant holds at the start.
LEMMA Begins == Init => IInv
<1> SUFFICES ASSUME Init PROVE IInv
  OBVIOUS
<1>1. Types
  BY DEF Init, Types, TypeOK, Thread, Client, Idle, Labels, Purposes
<1>2. Shapes
  BY DEF Init, Shapes, Shape, ShapeOf, Idle, InMessage, Starting
<1>3. ReadyFirst
  BY DEF Init, ReadyFirst, Idle, InMessage
<1>4. \A p \in Threads : ~Managing(p)
  BY DEF Init, Managing, Idle
<1>5. Alone
  BY <1>4 DEF Init, Alone, OneManager, WorksOnTable, Connects, LivesInitialized, Lives, OwnOnly
<1>6. NothingLeftRunning
  BY DEF Init, NothingLeftRunning, Alive
<1> QED BY <1>1, <1>2, <1>3, <1>5, <1>6 DEF IInv

\* The inductive invariant holds in every reachable state.
THEOREM Invariance == Spec => []IInv
<1>1. Init => IInv
  BY Begins
<1>2. IInv /\ [Next]_vars => IInv'
  BY TypesStep, ShapesStep, ReadyStep, SoundStep DEF IInv
<1> QED BY <1>1, <1>2, PTL DEF Spec

\* A thread in a message has a transport whose process was started, and so has
\* every client with a transport, in whatever order threads connect, disconnect
\* and call.
THEOREM TypeCorrect == Spec => []TypeOK
<1>1. IInv => TypeOK
  BY DEF IInv, Types
<1> QED BY <1>1, Invariance, PTL

\* No message but initialize reaches a server that has not answered it: connect
\* gives its client the transport only after the answer, and the other threads
\* take their transport from the client.
THEOREM InitializedFirstHolds == Spec => []InitializedFirst
<1>1. IInv => InitializedFirst
  BY DEF IInv, ReadyFirst, InitializedFirst
<1> QED BY <1>1, Invariance, PTL

\* Without overlap, no process is left that neither the table nor a thread in
\* connect or disconnect can close, however many times a server is connected,
\* fails, is disconnected and comes back.
THEOREM NothingLeftRunningHolds == Spec => []NothingLeftRunning
<1>1. IInv => NothingLeftRunning
  BY DEF IInv
<1> QED BY <1>1, Invariance, PTL

===============================================================================
