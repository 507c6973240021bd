---------------------- MODULE ConnectionSchedulerProofs ----------------------
(***************************************************************************)
(* Proofs about ConnectionScheduler, for any number of clients, addresses  *)
(* and descriptors.                                                        *)
(***************************************************************************)
EXTENDS ConnectionScheduler, FiniteSetTheorems, WellFoundedInduction, TLAPS

\* A set of naturals that is not empty has a least element.
LEMMA LeastExists ==
    ASSUME NEW S \in SUBSET Nat, S # {}
    PROVE  \E f \in S : \A g \in S : f <= g
<1> DEFINE R == OpToRel(<, Nat)
<1>1. IsWellFoundedOn(R, Nat)
  BY NatLessThanWellFounded
<1>2. \E x \in S : \A y \in S : ~(<<y, x>> \in R)
  <2> HIDE DEF R
  <2> QED  BY <1>1, WFMin
<1>3. PICK x \in S : \A y \in S : ~(<<y, x>> \in R)
  BY <1>2
<1>4. ASSUME NEW y \in S PROVE x <= y
  <2>1. x \in Nat /\ y \in Nat
    OBVIOUS
  <2>2. <<y, x>> \in Nat \X Nat /\ <<y, x>>[1] = y /\ <<y, x>>[2] = x
    BY <2>1
  <2>3. ~(y < x)
    BY <1>3, <2>2 DEF OpToRel
  <2> QED  BY <2>1, <2>3
<1> QED  BY <1>4

\* The kernel gives out a descriptor that is not open.
LEMMA FreeIsFree == ~TableFull => Free \in Fds /\ Free \notin open
<1> SUFFICES ASSUME ~TableFull PROVE Free \in Fds \ open
  OBVIOUS
<1>1. Fds \ open \in SUBSET Nat /\ Fds \ open # {}
  BY TableAssumption DEF TableFull, Fds
<1>2. \E f \in Fds \ open : \A g \in Fds \ open : f <= g
  BY <1>1, LeastExists
<1> QED  BY <1>2 DEF Free

LEMMA InitEstablishesInv == Init => Inv
<1> SUFFICES ASSUME Init PROVE Inv
  OBVIOUS
<1>1. TypeOK
  BY TableAssumption DEF Init, TypeOK, Stages, Progress
<1>2. DescriptorsAreOwned
  BY DEF Init, DescriptorsAreOwned, Owned, Live, Serving
<1>3. NothingOverwritten
  BY DEF Init, NothingOverwritten
<1> QED  BY <1>1, <1>2, <1>3 DEF Inv

-----------------------------------------------------------------------------
\* One client moves on, the thread may take it in hand or let it go.
LEMMA MovedTypes ==
    ASSUME Inv, NEW c, NEW to \in Progress, Moved(c, to)
    PROVE  /\ conn' \in [Clients -> Progress]
           /\ \A d \in Clients : conn'[d] = IF d = c THEN to ELSE conn[d]
  BY DEF Inv, TypeOK, Moved

\* Actions that touch no descriptor.
LEMMA QuietStep ==
    ASSUME Inv, UNCHANGED sockets, UNCHANGED fd, TypeOK', NothingOverwritten'
    PROVE  Inv'
  BY DEF Inv, sockets, DescriptorsAreOwned, Owned, Live, Serving

LEMMA ListenPreservesInv == Inv /\ Listen => Inv'
<1> SUFFICES ASSUME Inv, Listen PROVE Inv'
  OBVIOUS
<1> DEFINE f == Free
<1>1. f \in Fds /\ f \notin open /\ f # None
  BY FreeIsFree, TableAssumption DEF Listen
<1>2. /\ open' = open \cup {f} /\ fd_connect' = f /\ pc' = "builder"
      /\ UNCHANGED <<pass, caller, fd, res, client_fd, server_fd, conn, failures>>
  BY DEF Listen, call
<1> HIDE DEF f
<1>3. TypeOK'
  BY <1>1, <1>2 DEF Inv, TypeOK, Stages
<1>4. DescriptorsAreOwned'
  BY <1>1, <1>2 DEF Inv, DescriptorsAreOwned, Owned, Live, Serving
<1>5. NothingOverwritten'
  BY <1>2 DEF Inv, NothingOverwritten, Listen
<1> QED  BY <1>3, <1>4, <1>5 DEF Inv

\* close() for clients C and servers S, which are given up by the same step.
LEMMA ReleasePreservesOwnership ==
    ASSUME Inv, NEW C \in SUBSET Clients, NEW S \in SUBSET Clients, Release(C, S),
           UNCHANGED <<fd, fd_connect>>
    PROVE  /\ DescriptorsAreOwned'
           /\ open' \subseteq Fds
           /\ client_fd' \in [Clients -> Fds \cup {None}]
           /\ server_fd' \in [Clients -> Fds \cup {None}]
<1>1. /\ open' = open \ Closed(C, S)
      /\ client_fd' = [c \in Clients |-> IF c \in C THEN None ELSE client_fd[c]]
      /\ server_fd' = [s \in Clients |-> IF s \in S THEN None ELSE server_fd[s]]
  BY DEF Release
<1>2. /\ client_fd' \in [Clients -> Fds \cup {None}]
      /\ server_fd' \in [Clients -> Fds \cup {None}]
      /\ open' \subseteq Fds
  BY <1>1 DEF Inv, TypeOK
<1>3. Owned' \subseteq open'
  <2> SUFFICES ASSUME NEW f \in Owned' PROVE f \in open \ Closed(C, S)
    BY <1>1
  <2>1. f \in Owned
    BY <1>1 DEF Owned
  <2>2. f \notin Closed(C, S)
    BY <1>1 DEF Owned, Closed, Inv, DescriptorsAreOwned, Live, Serving
  <2> QED  BY <2>1, <2>2 DEF Inv, DescriptorsAreOwned
<1>4. QED
  BY <1>1, <1>2, <1>3 DEF Inv, DescriptorsAreOwned, Live, Serving

LEMMA BuilderPreservesInv == Inv /\ Builder => Inv'
<1> SUFFICES ASSUME Inv, Builder PROVE Inv'
  OBVIOUS
<1>1. /\ StoppedClients \in SUBSET Clients /\ StoppedServers \in SUBSET Clients
      /\ Release(StoppedClients, StoppedServers)
      /\ UNCHANGED <<fd, fd_connect>>
  BY DEF Builder, StoppedClients, StoppedServers, call
<1>2. /\ DescriptorsAreOwned'
      /\ open' \subseteq Fds
      /\ client_fd' \in [Clients -> Fds \cup {None}]
      /\ server_fd' \in [Clients -> Fds \cup {None}]
  BY <1>1, ReleasePreservesOwnership
<1>3. TypeOK'
  BY <1>2 DEF Inv, TypeOK, Builder, call, Stages, Progress
<1>4. NothingOverwritten'
  BY DEF Inv, NothingOverwritten, Builder, Release, call, TypeOK
<1> QED  BY <1>2, <1>3, <1>4 DEF Inv

LEMMA AcceptPreservesInv ==
    ASSUME Inv, NEW c \in Clients, Accept(c)
    PROVE  Inv'
<1> DEFINE f == Free
<1>1. f \in Fds /\ f \notin open /\ f # None
  BY FreeIsFree, TableAssumption DEF Accept
<1>2. /\ open' = open \cup {f}
      /\ client_fd' = [client_fd EXCEPT ![c] = f]
      /\ conn' = [conn EXCEPT ![c] = "accepted"]
      /\ pass' \subseteq pass
      /\ conn[c] = "pending" /\ pc = "executor"
      /\ UNCHANGED <<pc, caller, fd, res, fd_connect, server_fd, failures>>
  BY DEF Accept, Accepting, Moved, call
<1> HIDE DEF f
<1>3. TypeOK'
  BY <1>1, <1>2 DEF Inv, TypeOK, Progress
<1>4. client_fd' = [d \in Clients |-> IF d = c THEN f ELSE client_fd[d]]
  BY <1>2 DEF Inv, TypeOK
<1>5. Owned' \subseteq open'
  BY <1>2, <1>4 DEF Owned, Inv, DescriptorsAreOwned
<1>6. \A d \in Clients : client_fd[d] # f /\ server_fd[d] # f
  BY <1>1 DEF Owned, Inv, DescriptorsAreOwned
<1>7. fd # f /\ fd_connect # f
  BY <1>1 DEF Owned, Inv, DescriptorsAreOwned
<1>8. DescriptorsAreOwned'
  BY <1>2, <1>4, <1>5, <1>6, <1>7 DEF Inv, DescriptorsAreOwned, Live, Serving
<1>9. NothingOverwritten'
  BY <1>2, <1>4 DEF Inv, TypeOK, NothingOverwritten
<1> QED  BY <1>3, <1>8, <1>9 DEF Inv

LEMMA ResolvedPreservesInv == Inv /\ Resolved => Inv'
<1> SUFFICES ASSUME Inv, Resolved PROVE Inv'
  OBVIOUS
<1>1. /\ res' \in 1..MaxAddrs /\ pc' = "connect" /\ pc = "getaddrinfo"
      /\ UNCHANGED <<pass, caller, fd_connect, client_fd, server_fd, conn, failures>>
  BY DEF Resolved
<1>2. NothingOverwritten'
  BY <1>1 DEF Inv, NothingOverwritten
<1>3. CASE TableFull
  <2>1. fd' = None /\ open' = open
    BY <1>3 DEF Resolved
  <2>2. TypeOK'
    BY <1>1, <2>1, TableAssumption DEF Inv, TypeOK, Stages, Waiting
  <2>3. DescriptorsAreOwned'
    BY <1>1, <2>1 DEF Inv, DescriptorsAreOwned, Owned, Live, Serving
  <2> QED  BY <1>2, <2>2, <2>3 DEF Inv
<1>4. CASE ~TableFull
  <2> DEFINE f == Free
  <2>1. f \in Fds /\ f \notin open /\ f # None
    BY <1>4, FreeIsFree, TableAssumption
  <2>2. fd' = f /\ open' = open \cup {f}
    BY <1>4 DEF Resolved
  <2> HIDE DEF f
  <2>3. TypeOK'
    BY <1>1, <2>1, <2>2, TableAssumption DEF Inv, TypeOK, Stages, Waiting
  <2>4. /\ fd_connect # f
        /\ \A d \in Clients : client_fd[d] # f /\ server_fd[d] # f
    BY <2>1 DEF Owned, Inv, DescriptorsAreOwned
  <2>5. DescriptorsAreOwned'
    BY <1>1, <2>2, <2>4 DEF Inv, DescriptorsAreOwned, Owned, Live, Serving
  <2> QED  BY <1>2, <2>3, <2>5 DEF Inv
<1> QED  BY <1>3, <1>4

LEMMA ConnectSucceedsPreservesInv == Inv /\ ConnectSucceeds => Inv'
<1> SUFFICES ASSUME Inv, ConnectSucceeds PROVE Inv'
  OBVIOUS
<1>1. /\ pc = "connect" /\ fd # None
      /\ server_fd' = [server_fd EXCEPT ![caller] = fd]
      /\ conn' = [conn EXCEPT ![caller] = "fetching"]
      /\ fd' = None /\ res' = 0 /\ caller' = None /\ pc' = "executor"
      /\ UNCHANGED <<pass, open, fd_connect, client_fd, failures>>
  BY DEF ConnectSucceeds, Moved
<1>2. caller \in Clients /\ conn[caller] = "asked" /\ server_fd[caller] = None
  BY <1>1 DEF Inv, NothingOverwritten
<1>3. /\ server_fd' = [d \in Clients |-> IF d = caller THEN fd ELSE server_fd[d]]
      /\ conn' = [d \in Clients |-> IF d = caller THEN "fetching" ELSE conn[d]]
  BY <1>1 DEF Inv, TypeOK
<1>4. TypeOK'
  BY <1>1, <1>2, <1>3, TableAssumption DEF Inv, TypeOK, Stages, Progress
<1>5. Owned' \subseteq open'
  BY <1>1, <1>3 DEF Owned, Inv, DescriptorsAreOwned
<1>6. fd # fd_connect /\ \A d \in Clients : client_fd[d] # fd /\ server_fd[d] # fd
  BY <1>1 DEF Inv, DescriptorsAreOwned
<1>7. DescriptorsAreOwned'
  BY <1>1, <1>2, <1>3, <1>5, <1>6 DEF Inv, DescriptorsAreOwned, Live, Serving
<1>8. NothingOverwritten'
  BY <1>1, <1>3 DEF Inv, TypeOK, NothingOverwritten
<1> QED  BY <1>4, <1>7, <1>8 DEF Inv

LEMMA ConnectFailsPreservesInv == Inv /\ ConnectFails => Inv'
<1> SUFFICES ASSUME Inv, ConnectFails PROVE Inv'
  OBVIOUS
<1>1. /\ Moved(caller, "answered")
      /\ fd' = None /\ res' = 0 /\ caller' = None /\ pc' = "executor"
      /\ failures' = failures + (IF fd = None THEN 0 ELSE 1)
      /\ UNCHANGED <<pass, open, fd_connect, client_fd, server_fd>>
  BY DEF ConnectFails, GiveUp, sockets
<1>2. /\ conn' \in [Clients -> Progress]
      /\ \A d \in Clients : conn'[d] = IF d = caller THEN "answered" ELSE conn[d]
  BY <1>1, MovedTypes DEF Progress
<1>3. failures' \in Nat
  BY <1>1 DEF Inv, TypeOK
<1>4. TypeOK'
  BY <1>1, <1>2, <1>3, TableAssumption DEF Inv, TypeOK, Stages
<1>5. DescriptorsAreOwned'
  BY <1>1 DEF Inv, DescriptorsAreOwned, Owned, Live, Serving
<1>6. NothingOverwritten'
  BY <1>1, <1>2 DEF Inv, NothingOverwritten
<1> QED  BY <1>4, <1>5, <1>6 DEF Inv

LEMMA DisconnectPreservesInv == Inv /\ Disconnect => Inv'
<1> SUFFICES ASSUME Inv, Disconnect PROVE Inv'
  OBVIOUS
<1>1. /\ open' = (open \ Closed(Live, Serving)) \ {fd_connect}
      /\ client_fd' = [c \in Clients |-> None]
      /\ server_fd' = [c \in Clients |-> None]
      /\ fd_connect' = None /\ pass' = {} /\ pc' = "exit"
      /\ UNCHANGED <<caller, fd, res, conn, failures>>
  BY DEF Disconnect, call
<1>2. TypeOK'
  BY <1>1 DEF Inv, TypeOK, Stopped
\* The socket of connect_to_server is nobody else's, so it is not closed.
<1>3. Owned' \subseteq open'
  <2> SUFFICES ASSUME NEW f \in Owned'
               PROVE  f \in (open \ Closed(Live, Serving)) \ {fd_connect}
    BY <1>1
  <2>1. f = fd /\ fd # None
    BY <1>1 DEF Owned
  <2>2. f \in open /\ f # fd_connect
    BY <2>1 DEF Owned, Inv, DescriptorsAreOwned
  <2>3. f \notin Closed(Live, Serving)
    BY <2>1 DEF Closed, Live, Serving, Inv, DescriptorsAreOwned
  <2> QED  BY <2>2, <2>3
<1>4. DescriptorsAreOwned'
  BY <1>1, <1>3 DEF DescriptorsAreOwned, Live, Serving
<1>5. NothingOverwritten'
  BY <1>1 DEF NothingOverwritten
<1> QED  BY <1>2, <1>4, <1>5 DEF Inv

-----------------------------------------------------------------------------
LEMMA ThreadPreservesInv == Inv /\ Thread => Inv'
<1> SUFFICES ASSUME Inv, Thread PROVE Inv'
  OBVIOUS
<1> USE DEF call, sockets
<1>1. CASE Listen
  BY <1>1, ListenPreservesInv
<1>2. CASE ListenFails
  <2>1. TypeOK' /\ NothingOverwritten'
    BY <1>2 DEF ListenFails, Inv, TypeOK, Stopped, NothingOverwritten
  <2> QED  BY <1>2, <2>1, QuietStep DEF ListenFails
<1>3. CASE Builder
  BY <1>3, BuilderPreservesInv
<1>4. CASE Poll
  <2>1. TypeOK' /\ NothingOverwritten'
    BY <1>4 DEF Poll, Inv, TypeOK, Stages, NothingOverwritten
  <2> QED  BY <1>4, <2>1, QuietStep DEF Poll
<1>5. CASE Return
  <2>1. TypeOK' /\ NothingOverwritten'
    BY <1>5 DEF Return, Inv, TypeOK, Stages, NothingOverwritten
  <2> QED  BY <1>5, <2>1, QuietStep DEF Return
<1>6. ASSUME NEW c \in Clients, Accept(c) PROVE Inv'
  BY <1>6, AcceptPreservesInv
<1>7. ASSUME NEW c \in Clients, AcceptFails(c) PROVE Inv'
  <2>1. TypeOK' /\ NothingOverwritten'
    BY <1>7 DEF AcceptFails, Accepting, Inv, TypeOK, NothingOverwritten
  <2> QED  BY <1>7, <2>1, QuietStep DEF AcceptFails
<1>8. ASSUME NEW c \in Clients, Resolve(c) PROVE Inv'
  <2>1. TypeOK' /\ NothingOverwritten'
    BY <1>8 DEF Resolve, ServersFirst, Visits, Inv, TypeOK, Stages, Waiting,
                NothingOverwritten
  <2> QED  BY <1>8, <2>1, QuietStep DEF Resolve
<1>9. ASSUME NEW c \in Clients, ReceiveResponse(c) PROVE Inv'
  <2>1. /\ conn' \in [Clients -> Progress]
        /\ \A d \in Clients : conn'[d] = IF d = c THEN "answered" ELSE conn[d]
    BY <1>9, MovedTypes DEF ReceiveResponse, Progress
  <2>2. TypeOK'
    BY <1>9, <2>1 DEF ReceiveResponse, ServersFirst, Visits, Inv, TypeOK
  <2>3. NothingOverwritten'
    BY <1>9, <2>1 DEF ReceiveResponse, ServersFirst, Visits, Inv, NothingOverwritten
  <2> QED  BY <1>9, <2>2, <2>3, QuietStep DEF ReceiveResponse
<1>10. ASSUME NEW c \in Clients, Write(c) PROVE Inv'
  <2>1. TypeOK' /\ NothingOverwritten'
    BY <1>10 DEF Write, ServersFirst, Visits, Inv, TypeOK, Stages, Waiting,
                 NothingOverwritten
  <2> QED  BY <1>10, <2>1, QuietStep DEF Write
<1> QED  BY <1>1, <1>2, <1>3, <1>4, <1>5, <1>6, <1>7, <1>8, <1>9, <1>10 DEF Thread

LEMMA NetworkPreservesInv == Inv /\ Network => Inv'
<1> SUFFICES ASSUME Inv, Network PROVE Inv'
  OBVIOUS
<1> USE DEF sockets
<1>1. CASE ResolveFails
  <2>1. /\ conn' \in [Clients -> Progress]
        /\ \A d \in Clients : conn'[d] = IF d = caller THEN "answered" ELSE conn[d]
    BY <1>1, MovedTypes DEF ResolveFails, GiveUp, Progress
  <2>2. TypeOK' /\ NothingOverwritten'
    BY <1>1, <2>1 DEF ResolveFails, GiveUp, Inv, TypeOK, Stages, NothingOverwritten
  <2> QED  BY <1>1, <2>2, QuietStep DEF ResolveFails
<1>2. CASE Resolved
  BY <1>2, ResolvedPreservesInv
<1>3. CASE ConnectSucceeds
  BY <1>3, ConnectSucceedsPreservesInv
<1>4. CASE ConnectAgain
  <2>1. TypeOK' /\ NothingOverwritten'
    BY <1>4, TableAssumption DEF ConnectAgain, Inv, TypeOK, NothingOverwritten
  <2> QED  BY <1>4, <2>1, QuietStep DEF ConnectAgain
<1>5. CASE ConnectFails
  BY <1>5, ConnectFailsPreservesInv
<1>6. CASE Written
  <2>1. /\ conn' \in [Clients -> Progress]
        /\ \A d \in Clients : conn'[d] = IF d = caller THEN "stopped" ELSE conn[d]
    BY <1>6, MovedTypes DEF Written, Progress
  <2>2. TypeOK' /\ NothingOverwritten'
    BY <1>6, <2>1 DEF Written, Inv, TypeOK, Stages, NothingOverwritten
  <2> QED  BY <1>6, <2>2, QuietStep DEF Written
<1> QED  BY <1>1, <1>2, <1>3, <1>4, <1>5, <1>6 DEF Network

LEMMA PeersPreserveInv == Inv /\ Peers => Inv'
<1> SUFFICES ASSUME Inv, NEW c \in Clients, Connects(c) \/ Asks(c) \/ OriginAnswers(c)
             PROVE  Inv'
  BY DEF Peers
<1> USE DEF call, sockets
<1>1. CASE Connects(c)
  <2>1. /\ conn' \in [Clients -> Progress]
        /\ \A d \in Clients : conn'[d] = IF d = c THEN "pending" ELSE conn[d]
    BY <1>1, MovedTypes DEF Connects, Progress
  <2>2. TypeOK' /\ NothingOverwritten'
    BY <1>1, <2>1 DEF Connects, Inv, TypeOK, NothingOverwritten
  <2> QED  BY <1>1, <2>2, QuietStep DEF Connects
<1>2. CASE Asks(c)
  <2>1. /\ conn' \in [Clients -> Progress]
        /\ \A d \in Clients : conn'[d] = IF d = c THEN "asked" ELSE conn[d]
    BY <1>2, MovedTypes DEF Asks, Progress
  <2>2. TypeOK' /\ NothingOverwritten'
    BY <1>2, <2>1 DEF Asks, Inv, TypeOK, NothingOverwritten
  <2> QED  BY <1>2, <2>2, QuietStep DEF Asks
<1>3. CASE OriginAnswers(c)
  <2>1. /\ conn' \in [Clients -> Progress]
        /\ \A d \in Clients : conn'[d] = IF d = c THEN "arrived" ELSE conn[d]
    BY <1>3, MovedTypes DEF OriginAnswers, Progress
  <2>2. TypeOK' /\ NothingOverwritten'
    BY <1>3, <2>1 DEF OriginAnswers, Inv, TypeOK, NothingOverwritten
  <2> QED  BY <1>3, <2>2, QuietStep DEF OriginAnswers
<1> QED  BY <1>1, <1>2, <1>3

LEMMA NextPreservesInv == Inv /\ [Next]_vars => Inv'
<1> SUFFICES ASSUME Inv, [Next]_vars PROVE Inv'
  OBVIOUS
<1>1. CASE UNCHANGED vars
  <2>1. TypeOK' /\ NothingOverwritten'
    BY <1>1 DEF vars, call, sockets, Inv, TypeOK, NothingOverwritten
  <2> QED  BY <1>1, <2>1, QuietStep DEF vars, call
<1> QED  BY <1>1, ThreadPreservesInv, NetworkPreservesInv, PeersPreserveInv,
            DisconnectPreservesInv DEF Next

\* With any number of clients and any size of the descriptor table, a descriptor in use
\* is open and is one socket's only, so that the close() of one connection never hits
\* another: what the number given out next may overwrite is always empty.
THEOREM ConnectionInvariance == Spec => []Inv
<1>1. Init => Inv
  BY InitEstablishesInv
<1>2. Inv /\ [Next]_vars => Inv'
  BY NextPreservesInv
<1> QED  BY <1>1, <1>2, PTL DEF Spec

-----------------------------------------------------------------------------
Lost == open \ Owned

LEMMA InitLosesNothing == Init => OneLeakPerFailure
<1> SUFFICES ASSUME Init PROVE Cardinality(open \ Owned) = failures
  BY DEF OneLeakPerFailure
<1>1. open \ Owned = {} /\ failures = 0
  BY DEF Init
<1> QED  BY <1>1, FS_EmptySet

\* A step after which the same descriptors are lost.
LEMMA NothingLost ==
    ASSUME OneLeakPerFailure, Lost' = Lost, UNCHANGED failures
    PROVE  OneLeakPerFailure'
  BY DEF OneLeakPerFailure, Lost

LEMMA LostIsFinite == Inv => IsFiniteSet(Lost)
<1>1. IsFiniteSet(Fds)
  BY FS_Interval, TableAssumption DEF Fds
<1> QED  BY <1>1, FS_Subset DEF Inv, TypeOK, Lost

\* A descriptor just given out belongs to the one it was given to, and what it took
\* the place of was empty.
LEMMA NewDescriptorIsOwned ==
    ASSUME NEW f, f \notin open, open' = open \cup {f}, Owned' = Owned \cup {f}
    PROVE  Lost' = Lost
  BY DEF Lost

LEMMA ConnectFailsLosesOne == Inv /\ OneLeakPerFailure /\ ConnectFails => OneLeakPerFailure'
<1> SUFFICES ASSUME Inv, OneLeakPerFailure, ConnectFails PROVE OneLeakPerFailure'
  OBVIOUS
<1>1. /\ fd' = None
      /\ failures' = failures + (IF fd = None THEN 0 ELSE 1)
      /\ UNCHANGED <<open, fd_connect, client_fd, server_fd>>
  BY DEF ConnectFails, sockets
<1>2. CASE fd = None
  <2>1. Lost' = Lost
    BY <1>1, <1>2 DEF Lost, Owned
  <2>2. failures' = failures
    BY <1>1, <1>2 DEF Inv, TypeOK
  <2> QED  BY <2>1, <2>2, NothingLost
<1>3. CASE fd # None
  <2>1. fd \in open /\ fd \in Owned
    BY <1>3 DEF Inv, DescriptorsAreOwned, Owned
  <2>2. fd \notin Owned'
    BY <1>1, <1>3 DEF Owned, Inv, DescriptorsAreOwned
  <2>3. Owned' = Owned \ {fd}
    BY <1>1, <2>2 DEF Owned
  <2>4. Lost' = Lost \cup {fd} /\ fd \notin Lost
    BY <1>1, <2>1, <2>3 DEF Lost
  <2>5. Cardinality(Lost') = Cardinality(Lost) + 1
    BY <2>4, LostIsFinite, FS_AddElement
  <2> QED  BY <1>1, <1>3, <2>5 DEF OneLeakPerFailure, Lost
<1> QED  BY <1>2, <1>3

LEMMA AcceptLosesNothing ==
    ASSUME Inv, NEW c \in Clients, Accept(c)
    PROVE  Lost' = Lost
<1> DEFINE f == Free
<1>1. f \in Fds /\ f \notin open /\ f # None
  BY FreeIsFree, TableAssumption DEF Accept
<1>2. /\ open' = open \cup {f}
      /\ client_fd' = [client_fd EXCEPT ![c] = f]
      /\ conn[c] = "pending"
      /\ UNCHANGED <<fd, fd_connect, server_fd>>
  BY DEF Accept, Accepting, call
<1> HIDE DEF f
<1>3. client_fd' = [d \in Clients |-> IF d = c THEN f ELSE client_fd[d]]
  BY <1>2 DEF Inv, TypeOK
<1>4. client_fd[c] = None
  BY <1>2 DEF Inv, NothingOverwritten
<1>5. Owned' = Owned \cup {f}
  BY <1>1, <1>2, <1>3, <1>4 DEF Owned
<1> QED  BY <1>1, <1>2, <1>5, NewDescriptorIsOwned

LEMMA ListenLosesNothing == Inv /\ Listen => Lost' = Lost
<1> SUFFICES ASSUME Inv, Listen PROVE Lost' = Lost
  OBVIOUS
<1> DEFINE f == Free
<1>1. f \in Fds /\ f \notin open /\ f # None
  BY FreeIsFree, TableAssumption DEF Listen
<1>2. /\ open' = open \cup {f} /\ fd_connect' = f /\ fd_connect = None
      /\ UNCHANGED <<fd, client_fd, server_fd>>
  BY DEF Listen, call, Inv, NothingOverwritten
<1> HIDE DEF f
<1>3. Owned' = Owned \cup {f}
  BY <1>1, <1>2 DEF Owned
<1> QED  BY <1>1, <1>2, <1>3, NewDescriptorIsOwned

LEMMA ResolvedLosesNothing == Inv /\ Resolved => Lost' = Lost
<1> SUFFICES ASSUME Inv, Resolved PROVE Lost' = Lost
  OBVIOUS
<1>1. fd = None /\ UNCHANGED <<fd_connect, client_fd, server_fd>>
  BY DEF Resolved, Inv, NothingOverwritten
<1>2. CASE TableFull
  BY <1>1, <1>2 DEF Resolved, Lost, Owned
<1>3. CASE ~TableFull
  <2> DEFINE f == Free
  <2>1. f \in Fds /\ f \notin open /\ f # None /\ fd' = f /\ open' = open \cup {f}
    BY <1>3, FreeIsFree, TableAssumption DEF Resolved
  <2> HIDE DEF f
  <2>2. Owned' = Owned \cup {f}
    BY <1>1, <2>1 DEF Owned
  <2> QED  BY <2>1, <2>2, NewDescriptorIsOwned
<1> QED  BY <1>2, <1>3

\* The socket only changes hands.
LEMMA ConnectSucceedsLosesNothing == Inv /\ ConnectSucceeds => Lost' = Lost
<1> SUFFICES ASSUME Inv, ConnectSucceeds PROVE Lost' = Lost
  OBVIOUS
<1>1. /\ pc = "connect" /\ fd # None /\ fd' = None
      /\ server_fd' = [server_fd EXCEPT ![caller] = fd]
      /\ UNCHANGED <<open, fd_connect, client_fd>>
  BY DEF ConnectSucceeds
<1>2. caller \in Clients /\ server_fd[caller] = None
  BY <1>1 DEF Inv, NothingOverwritten
<1>3. server_fd' = [d \in Clients |-> IF d = caller THEN fd ELSE server_fd[d]]
  BY <1>1 DEF Inv, TypeOK
<1>4. Owned' = Owned
  BY <1>1, <1>2, <1>3 DEF Owned
<1> QED  BY <1>1, <1>4 DEF Lost

\* What is closed was in use, and is given up by the same step.
LEMMA BuilderLosesNothing == Inv /\ Builder => Lost' = Lost
<1> SUFFICES ASSUME Inv, Builder PROVE Lost' = Lost
  OBVIOUS
<1> DEFINE C == StoppedClients
           S == StoppedServers
<1>1. C \subseteq Clients /\ S \subseteq Clients
  BY DEF StoppedClients, StoppedServers
<1>2. /\ open' = open \ Closed(C, S)
      /\ client_fd' = [c \in Clients |-> IF c \in C THEN None ELSE client_fd[c]]
      /\ server_fd' = [s \in Clients |-> IF s \in S THEN None ELSE server_fd[s]]
      /\ UNCHANGED <<fd, fd_connect>>
  BY DEF Builder, Release, call
<1> HIDE DEF C, S
<1>3. None \notin open
  BY TableAssumption DEF Inv, TypeOK
<1>4. Owned \subseteq Owned' \cup Closed(C, S)
  BY <1>2 DEF Owned, Closed
<1>5. Owned' \subseteq Owned
  BY <1>2 DEF Owned
<1>6. Closed(C, S) \subseteq Owned \cup {None}
  BY <1>1 DEF Owned, Closed
<1> QED  BY <1>2, <1>3, <1>4, <1>5, <1>6 DEF Lost

LEMMA DisconnectLosesNothing == Inv /\ Disconnect => Lost' = Lost
<1> SUFFICES ASSUME Inv, Disconnect PROVE Lost' = Lost
  OBVIOUS
<1>1. /\ open' = (open \ Closed(Live, Serving)) \ {fd_connect}
      /\ client_fd' = [c \in Clients |-> None]
      /\ server_fd' = [c \in Clients |-> None]
      /\ fd_connect' = None /\ fd' = fd
  BY DEF Disconnect, call
<1>2. Owned' = {fd} \ {None}
  BY <1>1 DEF Owned
<1>3. Owned = Owned' \cup ((Closed(Live, Serving) \cup {fd_connect}) \ {None})
  BY <1>2 DEF Owned, Closed, Live, Serving
<1>4. None \notin open
  BY TableAssumption DEF Inv, TypeOK
<1> QED  BY <1>1, <1>3, <1>4 DEF Lost

LEMMA NextLosesOnePerFailure ==
    Inv /\ OneLeakPerFailure /\ [Next]_vars => OneLeakPerFailure'
<1> SUFFICES ASSUME Inv, OneLeakPerFailure, [Next]_vars PROVE OneLeakPerFailure'
  OBVIOUS
<1>1. ASSUME UNCHANGED sockets, UNCHANGED fd, UNCHANGED failures PROVE OneLeakPerFailure'
  BY <1>1 DEF sockets, OneLeakPerFailure, Owned
<1>2. CASE Thread
  <2>1. CASE Listen
    BY <2>1, ListenLosesNothing, NothingLost DEF Listen
  <2>2. CASE Builder
    BY <2>2, BuilderLosesNothing, NothingLost DEF Builder
  <2>3. ASSUME NEW c \in Clients, Accept(c) PROVE OneLeakPerFailure'
    BY <2>3, AcceptLosesNothing, NothingLost DEF Accept
  <2>4. CASE ListenFails \/ Poll \/ Return
    BY <1>1, <2>4 DEF ListenFails, Poll, Return, call
  <2>5. ASSUME NEW c \in Clients,
               AcceptFails(c) \/ Resolve(c) \/ ReceiveResponse(c) \/ Write(c)
        PROVE  OneLeakPerFailure'
    BY <1>1, <2>5 DEF AcceptFails, Resolve, ReceiveResponse, Write, call
  <2> QED  BY <1>2, <2>1, <2>2, <2>3, <2>4, <2>5 DEF Thread
<1>3. CASE Network
  <2>1. CASE Resolved
    BY <2>1, ResolvedLosesNothing, NothingLost DEF Resolved
  <2>2. CASE ConnectSucceeds
    BY <2>2, ConnectSucceedsLosesNothing, NothingLost DEF ConnectSucceeds
  <2>3. CASE ConnectFails
    BY <2>3, ConnectFailsLosesOne
  <2>4. CASE ResolveFails \/ ConnectAgain \/ Written
    BY <1>1, <2>4 DEF ResolveFails, ConnectAgain, Written
  <2> QED  BY <1>3, <2>1, <2>2, <2>3, <2>4 DEF Network
<1>4. CASE Peers
  BY <1>1, <1>4 DEF Peers, Connects, Asks, OriginAnswers, call
<1>5. CASE Disconnect
  BY <1>5, DisconnectLosesNothing, NothingLost DEF Disconnect
<1>6. CASE UNCHANGED vars
  BY <1>1, <1>6 DEF vars, call
<1> QED  BY <1>2, <1>3, <1>4, <1>5, <1>6 DEF Next

\* However many clients there are, whatever fails and in what order, the descriptors the
\* process has lost are as many as the connects that failed with a socket: builder(),
\* disconnect() and the success of a connect lose none.
THEOREM OneDescriptorPerFailedConnect == Spec => []OneLeakPerFailure
<1>1. Init => OneLeakPerFailure
  BY InitLosesNothing
<1>2. Inv /\ OneLeakPerFailure /\ [Next]_vars => OneLeakPerFailure'
  BY NextLosesOnePerFailure
<1> QED  BY <1>1, <1>2, ConnectionInvariance, PTL DEF Spec
=============================================================================
