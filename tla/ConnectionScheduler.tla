------------------------- MODULE ConnectionScheduler -------------------------
(***************************************************************************)
(* ConnectionScheduler.cpp and the calls the event loop makes of it: the   *)
(* listening socket, accept, the connection to an origin, and the          *)
(* descriptors all of them take from the process's table.                  *)
(*                                                                         *)
(* PollScheduler treats these calls as single steps that succeed or fail.  *)
(* Here the calls that wait for somebody else, getaddrinfo, connect and    *)
(* the write to a client, are begun by the thread and ended by the         *)
(* network, and the thread does nothing in between.  In return a client    *)
(* asks for a page nobody else asks for, and stays until it is closed.     *)
(* The alarms of main.cpp are left out: one ends a call that waits, after  *)
(* 30 seconds at most, and the next call may wait again.                   *)
(***************************************************************************)
EXTENDS Integers, FiniteSets

CONSTANTS
    MaxClients,     \* connections in a behaviour (a bound)
    MaxFds,         \* size of the descriptor table, for sockets
    MaxAddrs,       \* addresses getaddrinfo returns at most (a bound)
    None

Clients == 1..MaxClients
Fds == 1..MaxFds

ASSUME TableAssumption ==
    /\ MaxClients \in Nat
    /\ MaxFds \in Nat \ {0}
    /\ MaxAddrs \in Nat \ {0}
    /\ None \notin Fds /\ None \notin Clients

VARIABLES
    pc,         \* where the thread is; a call that waits is a place of its own
    pass,       \* ready clients this pass of executor() has still to visit
    caller,     \* the client the call that waits is made for
    fd,         \* connect_to_server: its socket
    res,        \* connect_to_server: addresses left in the list
    open,       \* the open descriptors of the process
    fd_connect, \* the listening socket
    client_fd,  \* Client::fd
    server_fd,  \* Server::fd
    conn,       \* how far each client is
    failures    \* failed connects so far that had a socket

call == <<caller, fd, res>>
sockets == <<open, fd_connect, client_fd, server_fd>>
vars == <<pc, pass, call, sockets, conn, failures>>

Waiting == {"getaddrinfo", "connect", "write"}
Stages == {"start", "builder", "poll", "executor"} \cup Waiting
Stopped == {"crash", "exit"}

\* The client's side and the origin's are in one value: pending in the backlog,
\* accepted, its request there, its server connected, the response there, received
\* (or an error page given), sent, closed.
Progress == {"absent", "pending", "accepted", "asked", "fetching", "arrived",
             "answered", "stopped", "closed"}

TypeOK ==
    /\ pc \in Stages \cup Stopped
    /\ pass \subseteq Clients
    /\ caller \in Clients \cup {None}
    /\ fd \in Fds \cup {None}
    /\ res \in 0..MaxAddrs
    /\ open \subseteq Fds
    /\ fd_connect \in Fds \cup {None}
    /\ client_fd \in [Clients -> Fds \cup {None}]
    /\ server_fd \in [Clients -> Fds \cup {None}]
    /\ conn \in [Clients -> Progress]
    /\ failures \in Nat

Init ==
    /\ pc = "start"
    /\ pass = {} /\ caller = None /\ fd = None /\ res = 0
    /\ open = {} /\ fd_connect = None
    /\ client_fd = [c \in Clients |-> None]
    /\ server_fd = [c \in Clients |-> None]
    /\ conn = [c \in Clients |-> "absent"]
    /\ failures = 0

Owned == ({fd_connect, fd} \cup {client_fd[c] : c \in Clients}
            \cup {server_fd[c] : c \in Clients}) \ {None}

TableFull == Fds \subseteq open

\* The descriptor the kernel gives out next: the lowest one that is free.
Free == CHOOSE f \in Fds \ open : \A g \in Fds \ open : f <= g

Moved(c, to) == conn' = [conn EXCEPT ![c] = to]

-----------------------------------------------------------------------------
(***************************************************************************)
(* listen_socket, before the loop.  When it fails open_connect has not     *)
(* made its pollfds, and the builder() that main() still calls copies from *)
(* a null pointer.                                                         *)
(***************************************************************************)
Listen ==
    /\ pc = "start" /\ ~TableFull
    /\ open' = open \cup {Free}
    /\ fd_connect' = Free
    /\ pc' = "builder"
    /\ UNCHANGED <<pass, call, client_fd, server_fd, conn, failures>>

ListenFails ==
    /\ pc = "start"
    /\ pc' = "crash"
    /\ UNCHANGED <<pass, call, sockets, conn, failures>>

(***************************************************************************)
(* builder(): close() for every client and server that stopped.            *)
(***************************************************************************)
StoppedClients == {c \in Clients : conn[c] = "stopped"}

\* A server has stopped when all of its response is there.
StoppedServers ==
    {c \in Clients : server_fd[c] # None /\ conn[c] \in {"answered", "stopped"}}

\* Two mutants of Closed: close() is only called for clients, or only for servers.
ClosedClients(C, S) == {client_fd[c] : c \in C}
ClosedServers(C, S) == {server_fd[s] : s \in S}

Closed(C, S) == {client_fd[c] : c \in C} \cup {server_fd[s] : s \in S}

\* mutant of Release: a server that was closed stays in the vector
ReleaseKeepingServers(C, S) ==
    /\ open' = open \ Closed(C, S)
    /\ client_fd' = [c \in Clients |-> IF c \in C THEN None ELSE client_fd[c]]
    /\ UNCHANGED server_fd

Release(C, S) ==
    /\ open' = open \ Closed(C, S)
    /\ client_fd' = [c \in Clients |-> IF c \in C THEN None ELSE client_fd[c]]
    /\ server_fd' = [s \in Clients |-> IF s \in S THEN None ELSE server_fd[s]]

Builder ==
    /\ pc = "builder"
    /\ Release(StoppedClients, StoppedServers)
    /\ conn' = [c \in Clients |-> IF c \in StoppedClients THEN "closed" ELSE conn[c]]
    /\ pc' = "poll"
    /\ UNCHANGED <<pass, call, fd_connect, failures>>

(***************************************************************************)
(* executor(): poll reports everybody who is ready, and each is visited.   *)
(***************************************************************************)
Ready(c) == conn[c] \in {"pending", "asked", "arrived", "answered"}

Poll ==
    /\ pc = "poll"
    /\ \E c \in Clients : Ready(c)
    /\ pass' = {c \in Clients : Ready(c)}
    /\ pc' = "executor"
    /\ UNCHANGED <<call, sockets, conn, failures>>

Return ==
    /\ pc = "executor" /\ pass = {}
    /\ pc' = "builder"
    /\ UNCHANGED <<pass, call, sockets, conn, failures>>

Visits(c) == pc = "executor" /\ c \in pass /\ pass' = pass \ {c}

\* The listening socket comes first and takes one connection of the backlog.
Accepting(c) ==
    /\ pc = "executor"
    /\ c \in pass /\ conn[c] = "pending"
    /\ \A d \in Clients : conn[d] = "pending" => c <= d
    /\ pass' = {d \in pass : conn[d] # "pending"}

Accept(c) ==
    /\ Accepting(c) /\ ~TableFull
    /\ open' = open \cup {Free}
    /\ client_fd' = [client_fd EXCEPT ![c] = Free]
    /\ Moved(c, "accepted")
    /\ UNCHANGED <<pc, call, fd_connect, server_fd, failures>>

\* accept() has no descriptor to give: the connection stays in the backlog.
AcceptFails(c) ==
    /\ Accepting(c) /\ TableFull
    /\ UNCHANGED <<pc, call, sockets, conn, failures>>

(***************************************************************************)
(* connect_to_server, as far as getaddrinfo.                               *)
(***************************************************************************)
ServersFirst(c) ==
    /\ Visits(c)
    /\ \A d \in pass : conn[d] # "pending"
    /\ conn[c] # "arrived" => \A d \in pass : conn[d] # "arrived" /\ c <= d

Resolve(c) ==
    /\ ServersFirst(c) /\ conn[c] = "asked"
    /\ caller' = c
    /\ pc' = "getaddrinfo"
    /\ UNCHANGED <<fd, res, sockets, conn, failures>>

\* mutant of GiveUp: the call returns without a page, the client stays readable
GiveUpSilently ==
    /\ Moved(caller, "accepted")
    /\ caller' = None
    /\ pc' = "executor"

\* The error page is given to the client and the call returns.
GiveUp ==
    /\ Moved(caller, "answered")
    /\ caller' = None
    /\ pc' = "executor"

\* No such host, or its address is the one of the proxy itself.
ResolveFails ==
    /\ pc = "getaddrinfo"
    /\ GiveUp
    /\ UNCHANGED <<pass, fd, res, sockets, failures>>

\* One socket for the whole list of addresses.
Resolved ==
    /\ pc = "getaddrinfo"
    /\ res' \in 1..MaxAddrs
    /\ fd' = IF TableFull THEN None ELSE Free
    /\ open' = IF TableFull THEN open ELSE open \cup {Free}
    /\ pc' = "connect"
    /\ UNCHANGED <<pass, caller, fd_connect, client_fd, server_fd, conn, failures>>

\* Only the first address of the list is ever tried, once for each of its elements.
ConnectSucceeds ==
    /\ pc = "connect" /\ fd # None
    /\ server_fd' = [server_fd EXCEPT ![caller] = fd]
    /\ fd' = None /\ res' = 0
    /\ Moved(caller, "fetching")
    /\ caller' = None
    /\ pc' = "executor"
    /\ UNCHANGED <<pass, open, fd_connect, client_fd, failures>>

ConnectAgain ==
    /\ pc = "connect" /\ res > 1
    /\ res' = res - 1
    /\ UNCHANGED <<pc, pass, caller, fd, sockets, conn, failures>>

\* The list is at its end: the function returns and its socket stays open.
ConnectFails ==
    /\ pc = "connect" /\ res = 1
    /\ GiveUp
    /\ fd' = None /\ res' = 0
    /\ failures' = failures + (IF fd = None THEN 0 ELSE 1)
    /\ UNCHANGED <<pass, sockets>>

(***************************************************************************)
(* The handlers of the other events.                                       *)
(***************************************************************************)
ReceiveResponse(c) ==
    /\ ServersFirst(c) /\ conn[c] = "arrived"
    /\ Moved(c, "answered")
    /\ UNCHANGED <<pc, call, sockets, failures>>

\* The sockets of the clients are blocking: write() waits until the client takes it.
Write(c) ==
    /\ ServersFirst(c) /\ conn[c] = "answered"
    /\ caller' = c
    /\ pc' = "write"
    /\ UNCHANGED <<fd, res, sockets, conn, failures>>

Written ==
    /\ pc = "write"
    /\ Moved(caller, "stopped")
    /\ caller' = None
    /\ pc' = "executor"
    /\ UNCHANGED <<pass, fd, res, sockets, failures>>

(***************************************************************************)
(* The peers: a client connects and asks, an origin answers.               *)
(***************************************************************************)
Connects(c) ==
    /\ conn[c] = "absent" /\ pc \notin {"start"} \cup Stopped
    /\ \A d \in Clients : d < c => conn[d] # "absent"
    /\ Moved(c, "pending")
    /\ UNCHANGED <<pc, pass, call, sockets, failures>>

Asks(c) ==
    /\ conn[c] = "accepted" /\ pc \notin Stopped
    /\ Moved(c, "asked")
    /\ UNCHANGED <<pc, pass, call, sockets, failures>>

OriginAnswers(c) ==
    /\ conn[c] = "fetching" /\ pc \notin Stopped
    /\ Moved(c, "arrived")
    /\ UNCHANGED <<pc, pass, call, sockets, failures>>

(***************************************************************************)
(* SIGTERM, between two handlers or in a connect or write that waits:      *)
(* every connection is closed by builder(), the listening socket by        *)
(* disconnect().                                                           *)
(***************************************************************************)
Live == {c \in Clients : client_fd[c] # None}
Serving == {c \in Clients : server_fd[c] # None}

Disconnect ==
    /\ pc \in {"builder", "poll", "executor", "connect", "write"}
    /\ open' = (open \ Closed(Live, Serving)) \ {fd_connect}
    /\ client_fd' = [c \in Clients |-> None]
    /\ server_fd' = [c \in Clients |-> None]
    /\ fd_connect' = None
    /\ pass' = {}
    /\ pc' = "exit"
    /\ UNCHANGED <<call, conn, failures>>

-----------------------------------------------------------------------------
\* What the thread does by itself, and what ends the calls that wait.
Thread ==
    \/ Listen \/ ListenFails
    \/ Builder \/ Poll \/ Return
    \/ \E c \in Clients : \/ Accept(c) \/ AcceptFails(c) \/ Resolve(c)
                          \/ ReceiveResponse(c) \/ Write(c)

Network ==
    \/ ResolveFails \/ Resolved
    \/ ConnectSucceeds \/ ConnectAgain \/ ConnectFails
    \/ Written

Peers == \E c \in Clients : Connects(c) \/ Asks(c) \/ OriginAnswers(c)

Next == Thread \/ Network \/ Peers \/ Disconnect

Spec == Init /\ [][Next]_vars

\* The thread goes on whenever it does not wait; nothing is assumed of the others.
ThreadSpec == Spec /\ WF_vars(Thread)

\* The calls that wait return, for they time out at the latest; clients that were
\* accepted ask and origins that were reached answer.
PatientSpec ==
    /\ ThreadSpec
    /\ WF_vars(Network)
    /\ \A c \in Clients : WF_vars(Asks(c) \/ OriginAnswers(c))

-----------------------------------------------------------------------------
\* Nobody uses a descriptor that is closed, and no two sockets that are in use have
\* the same: although numbers are given out again at once, a close() in builder() or
\* a socket given up never hits the connection of somebody else.
DescriptorsAreOwned ==
    /\ Owned \subseteq open
    /\ fd_connect \notin {client_fd[c] : c \in Live} \cup {server_fd[c] : c \in Serving}
    /\ fd # None => fd # fd_connect /\ \A c \in Clients : fd \notin {client_fd[c], server_fd[c]}
    /\ \A c, d \in Clients :
          /\ client_fd[c] # None => client_fd[c] # server_fd[d]
          /\ client_fd[c] # None /\ c # d => client_fd[c] # client_fd[d]
          /\ server_fd[c] # None /\ c # d => server_fd[c] # server_fd[d]

\* The process loses exactly one descriptor with every connect that fails, whatever
\* happens between and even if it ends: all others are given back.
OneLeakPerFailure == Cardinality(open \ Owned) = failures

\* A client in the backlog is accepted sooner or later, even if accept() failed for a
\* while and however many connects lost their socket: those never take the last
\* descriptor beside the listening socket, for a connect is made for a client that
\* holds one.
PendingIsAccepted ==
    \A c \in Clients : conn[c] = "pending" ~> (conn[c] # "pending" \/ pc \in Stopped)

\* A client that asked is answered and closed, even when no descriptor is left for its
\* origin and however many others ask.
AskedIsClosed ==
    \A c \in Clients : conn[c] = "asked" ~> (conn[c] = "closed" \/ pc \in Stopped)

\* "One client must not wait for the end of another client's request or of a stage of
\* its processing", says the assignment in README.md: a client that is ready is
\* visited, whatever the peers of the others do.  (The alarms, which make each wait
\* finite, are not asked for: it is the waiting itself that is ruled out.)
NobodyWaitsForAnother ==
    \A c \in Clients :
        conn[c] = "asked" ~> (conn[c] # "asked" \/ pc \in Stopped \/ caller = c)

\* What the next descriptor may overwrite is empty: a client has none before accept(),
\* and no server before its connect; the socket of connect_to_server is in hand only in
\* that call, which is made for a client that asked.
NothingOverwritten ==
    /\ pc = "start" => fd_connect = None
    /\ fd # None => pc \in {"connect", "exit"}
    /\ pc \in {"getaddrinfo", "connect"} => caller \in Clients /\ conn[caller] = "asked"
    /\ pc = "write" => caller \in Clients
    /\ \A c \in Clients :
          /\ conn[c] \in {"absent", "pending"} => client_fd[c] = None
          /\ conn[c] \in {"absent", "pending", "accepted", "asked"} => server_fd[c] = None

\* The inductive invariant.
Inv == TypeOK /\ DescriptorsAreOwned /\ NothingOverwritten
=============================================================================
