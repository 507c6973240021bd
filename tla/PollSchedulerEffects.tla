------------------------ MODULE PollSchedulerEffects ------------------------
(***************************************************************************)
(* What each kind of step does to the objects, field by field.  Proofs     *)
(* about PollScheduler go by these cases instead of its actions.           *)
(***************************************************************************)
EXTENDS PollSchedulerProofs

UndefinedStep ==
    \/ SweepClientsUndefined
    \/ SweepServersUndefined
    \/ \E s \in Clients : SendUndefined(s) \/ ReceiveUndefined(s) \/ HeaderUndefined(s)
    \/ \E c \in Clients : WriteUndefined(c)

\* No object changes: the poll, the end of a pass, an alarm, the end of the process
\* and the handlers that only look.
QuietEffect ==
    /\ UNCHANGED <<exiting, accepted, objects>>
    /\ \A x \in Clients :
          "HUP" \in cready'[x] => "HUP" \in cready[x] \/ "clientLeaves" \in Env
    /\ \/ /\ \/ pc' = pc
             \/ pc' = "crash"
             \/ pc' = "undefined" /\ UndefinedStep
             \/ pc = "poll" /\ pc' = "sweepClients"
          /\ \A x \in Clients : cready'[x] # {} => cready[x] # {}
       \/ /\ pc = "poll" /\ pc' = "executor"
          /\ \A x \in Clients : cready'[x] # {} => x \in clients
       \/ /\ pc = "executor" /\ pc' = "sweepClients"
          /\ \A x \in Clients : cready'[x] = {}

SweepClientsEffect ==
    /\ pc = "sweepClients" /\ pc' = "sweepServers"
    /\ clients' = clients \ StoppedClients
    /\ \A x \in Clients :
          /\ client'[x].request = client[x].request
          /\ client'[x].response = client[x].response
          /\ client'[x].current = client[x].current
          /\ IF x \in clients /\ Resumable(x)
             THEN /\ client'[x].status = "ACTIVE"
                  /\ client'[x].events = client[x].events \cup {"OUT"}
             ELSE client'[x] = client[x]
    /\ cash' = DisconnectToRecord(cash, LeavingClients)
    /\ freed' = freed \cup {client[c].response : c \in {d \in StoppedClients :
                    Attached(d) /\ Deletable(client[d].response)}}
    /\ UNCHANGED <<exiting, accepted, servers, server, response, pass, signals>>

SweepServersEffect ==
    /\ pc = "sweepServers" /\ pc' = IF exiting THEN "destroy" ELSE "poll"
    /\ servers' = servers \ StoppedServers
    /\ \A s \in StoppedServers : server[s].response = s
    /\ \A r \in Responses :
          /\ response'[r].len = response[r].len
          /\ response'[r].status = response[r].status
          /\ response'[r].code = response[r].code
          /\ IF r \in FailedServers THEN response'[r].type = "FAIL"
                                    ELSE response'[r] = response[r]
    /\ \E released \in [Keys -> Nat] :
          /\ cash' = DisconnectToRecord(cash, released)
          /\ \A k \in Keys : released[k] <= Cardinality(StoppedServers)
    /\ UNCHANGED <<exiting, accepted, clients, client, server, freed, pass, signals>>

AddClientEffect(c) ==
    /\ pc = "executor" /\ c = accepted + 1 /\ accepted' = c /\ c \notin clients
    /\ clients' = clients \cup {c}
    /\ client'[c] = NewClient
    /\ \A x \in Clients \ {c} : client'[x] = client[x]
    /\ UNCHANGED <<pc, exiting, servers, server, response, freed, cash, sready, cready,
                   signals>>

RequestSentEffect(s) ==
    /\ pc = "executor" /\ s \in servers /\ s \in clients /\ server[s].response = Null
    /\ server'[s].response = s /\ server'[s].status = server[s].status
    /\ \A x \in Clients \ {s} : server'[x] = server[x]
    /\ client'[s].response = s
    /\ \A x \in Clients :
          /\ client'[x].request = client[x].request
          /\ client'[x].status = client[x].status
          /\ client'[x].events = client[x].events
          /\ client'[x].current = client[x].current
          /\ x # s => client'[x] = client[x]
    /\ response'[s] = NewResponse
    /\ \A r \in Responses \ {s} : response'[r] = response[r]
    /\ UNCHANGED <<pc, exiting, accepted, clients, servers, freed, cash, ready, cready,
                   signals>>

\* The handler of server s: its request cannot be sent, or it reads.
ServerEffect(s) ==
    /\ pc = "executor" /\ s \in servers
    /\ \A x \in Clients : /\ server'[x].response = server[x].response
                          /\ server'[x].events \subseteq server[x].events
                          /\ x # s => server'[x] = server[x]
    /\ \A r \in Responses \ {s} : response'[r] = response[r]
    /\ response'[s].type = response[s].type /\ response'[s].code = response[s].code
    /\ \/ /\ server[s].response = Null /\ response'[s] = response[s]
          /\ server'[s].status = "STOP_FAILED"
       \/ /\ server[s].response = s /\ "IN" \in server[s].events
          /\ \/ /\ response'[s].status = "END" /\ response'[s].len = response[s].len
                /\ server'[s].status = "STOP_SUCCESS" /\ "IN" \notin server'[s].events
             \/ /\ response'[s].status = response[s].status
                /\ \/ response'[s].len > response[s].len
                   \/ response'[s].len = response[s].len
                /\ server'[s].status \in {server[s].status, "STOP_FAILED"}
    /\ \/ server'[s].status \in {server[s].status, "STOP_SUCCESS"}
       \/ Env \cap {"originFails", "oneByteRead"} # {}
       \/ alarms < MaxAlarms /\ alarms' = alarms + 1
    /\ UNCHANGED <<pc, exiting, accepted, clients, servers, client, freed, cash, ready,
                   cready>>

\* The headers of the response of server s are complete.
HeaderEffect(s) ==
    /\ pc = "executor" /\ s \in servers /\ s \in clients /\ client[s].request # Null
    /\ server[s].response = s /\ "IN" \in server[s].events /\ s \notin freed
    /\ client'[s].events = client[s].events \cup {"OUT"}
    /\ \A x \in Clients :
          /\ client'[x].request = client[x].request
          /\ client'[x].response = client[x].response
          /\ client'[x].status = client[x].status
          /\ client'[x].current = client[x].current
          /\ x # s => client'[x] = client[x]
    /\ \A r \in Responses \ {s} : response'[r] = response[r]
    /\ response'[s].status \in {response[s].status, "BODY"}
    /\ response'[s].len > response[s].len
    /\ response[s].code # "none" => response'[s].code = response[s].code
    /\ \/ /\ response'[s].type = "CASHED" /\ response'[s].code = "OK"
          /\ cash' = AddRecord(cash, Key(client[s].request), s)
       \/ response'[s].type = "NO_CASH" /\ response'[s].code = "NO_OK" /\ cash' = cash
    /\ UNCHANGED <<pc, exiting, accepted, clients, servers, server, freed, ready, cready,
                   signals>>

\* The handler of client c: it is given up, or it is sent what there is.
ClientEffect(c) ==
    LET r == client[c].response
        left == response[r].len - client[c].current
    IN /\ pc = "executor" /\ cready[c] # {} /\ cready'[c] = {}
       /\ \A x \in Clients \ {c} : client'[x] = client[x] /\ cready'[x] = cready[x]
       /\ client'[c].request = client[c].request /\ client'[c].response = r
       /\ \/ /\ client'[c].status = "STOP_FAILED"
             /\ \/ "HUP" \in cready[c] \/ "clientLeaves" \in Env
                \/ alarms < MaxAlarms /\ alarms' = alarms + 1
          \/ /\ "OUT" \in client[c].events
             /\ \/ /\ left >= 0 /\ response[r].status = "END"
                   /\ client'[c].current = response[r].len
                   /\ client'[c].status = "STOP_SUCCESS"
                \/ /\ left = 0 /\ response[r].status # "END"
                   /\ client'[c].current = client[c].current
                   /\ client'[c].status = "PAUSE"
                \/ /\ client'[c].current > client[c].current
                   /\ client'[c].current <= response[r].len
                   /\ client'[c].status = client[c].status
                   /\ client'[c].events = client[c].events
       /\ UNCHANGED <<pc, exiting, accepted, clients, servers, server, response, freed, cash,
                      ready, sready>>

\* Client c asked for q and is given r, an error page, a cached response or none yet.
AnswerEffect(c, q, r) ==
    /\ pc = "executor" /\ cready[c] # {} /\ cready'[c] = {} /\ c <= accepted
    /\ client[c].request = Null /\ client[c].response = Null
    /\ client'[c].request = q /\ client'[c].response = r
    /\ client'[c].status = client[c].status /\ client'[c].current = client[c].current
    /\ r # Null => "OUT" \in client'[c].events
    /\ \A x \in Clients \ {c} : client'[x] = client[x] /\ cready'[x] = cready[x]
    /\ c \notin servers /\ server[c].response = Null /\ server'[c].response = Null
    /\ \A x \in Clients \ {c} : server'[x] = server[x]
    /\ \/ r \in Static /\ UNCHANGED <<servers, server, cash>>
       \/ /\ Key(q) \in Held(cash) /\ r = cash[Key(q)].response
          /\ cash' = ConnectToRecord(cash, Key(q)) /\ UNCHANGED <<servers, server>>
       \/ /\ r = Null /\ servers' = servers \cup {c} /\ UNCHANGED cash
          /\ server'[c].status = "ACTIVE" /\ server'[c].events = {"OUT"}
    /\ UNCHANGED <<pc, exiting, accepted, clients, response, freed, ready, sready, signals>>

TerminateEffect ==
    /\ "terminate" \in Env
    /\ pc' = "sweepClients" /\ exiting' = TRUE /\ cready' = Nobody
    /\ \A x \in Clients :
          /\ client'[x].request = client[x].request
          /\ client'[x].response = client[x].response
          /\ client'[x].current = client[x].current
          /\ client'[x].events = client[x].events
          /\ IF x \in clients THEN client'[x].status = "STOP_FAILED"
                              ELSE client'[x] = client[x]
          /\ server'[x].response = server[x].response
          /\ server'[x].events = server[x].events
          /\ IF x \in servers THEN server'[x].status = "STOP_FAILED"
                              ELSE server'[x] = server[x]
    /\ UNCHANGED <<accepted, clients, servers, response, freed, cash, signals>>

-----------------------------------------------------------------------------
LEMMA QuietActions ==
    ASSUME Inv,
           \/ SweepNullResponse \/ SweepFaults \/ SweepClientsUndefined
           \/ SweepServersUndefined \/ Poll \/ AcceptFails \/ BrokenPipe \/ Return
           \/ Alarm \/ UNCHANGED vars
           \/ \E s \in Clients : \/ RequestPartlySent(s) \/ SendUndefined(s)
                                 \/ ReceiveUndefined(s) \/ HeaderUndefined(s)
           \/ \E c \in Clients : \/ RequestPartlyReceived(c) \/ NothingSent(c)
                                 \/ WriteUndefined(c)
    PROVE  QuietEffect
<1>1. ASSUME Halt("crash") \/ (Halt("undefined") /\ UndefinedStep)
      PROVE  QuietEffect
    BY <1>1 DEF QuietEffect, Halt, pass
<1>2. CASE SweepNullResponse \/ SweepFaults \/ BrokenPipe
    BY <1>1, <1>2 DEF SweepNullResponse, SweepFaults, BrokenPipe
<1>3. CASE UndefinedStep
    <2>1. Halt("undefined")
        BY <1>3 DEF UndefinedStep, SweepClientsUndefined, SweepServersUndefined,
                    SendUndefined, ReceiveUndefined, HeaderUndefined, WriteUndefined
    <2> QED
        BY <1>1, <1>3, <2>1
<1>4. \A x \in Clients : "HUP" \notin client[x].events
    BY DEF Inv, TypeOK, ClientObject
<1>5. CASE Poll
    <2>1. PICK sset \in SUBSET {s \in servers : server[s].events # {}},
               cset \in SUBSET {c \in clients : client[c].events # {}},
               hup \in SUBSET (IF "clientLeaves" \in Env THEN clients ELSE {}) :
                  \E own : PollReady(sset, cset \ hup, hup, own)
        BY <1>5 DEF Poll
    <2>2. /\ pc = "poll" /\ pc' = "executor" /\ UNCHANGED <<exiting, accepted, objects>>
          /\ cready' = [c \in Clients |-> IF c \in hup THEN {"HUP"}
                                          ELSE IF c \in cset \ hup THEN client[c].events
                                          ELSE {}]
        BY <2>1 DEF PollReady
    <2>3. \A x \in Clients : cready'[x] # {} => x \in clients
        BY <2>2
    <2>4. \A x \in Clients : "HUP" \in cready'[x] => "clientLeaves" \in Env
        BY <1>4, <2>2
    <2> QED
        BY <2>2, <2>3, <2>4 DEF QuietEffect
<1>6. CASE Return
    BY <1>6 DEF Return, QuietEffect, pass, Nobody
<1>7. CASE AcceptFails \/ Alarm \/ UNCHANGED vars
    BY <1>7 DEF AcceptFails, Alarm, vars, pass, QuietEffect
<1>8. CASE \E s \in Clients : RequestPartlySent(s)
    BY <1>8 DEF RequestPartlySent, QuietEffect
<1>9. CASE \E c \in Clients : RequestPartlyReceived(c) \/ NothingSent(c)
    <2>1. cready \in [Clients -> SUBSET {"HUP", "IN", "OUT"}]
        BY DEF Inv, TypeOK
    <2>2. \A x \in Clients : cready'[x] \subseteq cready[x]
        BY <1>9, <2>1 DEF RequestPartlyReceived, NothingSent, Visited
    <2> QED
        BY <1>9, <2>2 DEF RequestPartlyReceived, NothingSent, QuietEffect
<1> QED
    BY <1>2, <1>3, <1>5, <1>6, <1>7, <1>8, <1>9 DEF UndefinedStep

LEMMA SweepClientsActs ==
    ASSUME Inv, SweepClients
    PROVE  SweepClientsEffect
<1>1. /\ client \in [Clients -> ClientObject]
      /\ \A x \in Clients : client[x] \in ClientObject
    BY DEF Inv, TypeOK
<1>2. \A x \in Clients :
          client'[x] = IF x \in clients /\ Resumable(x)
                       THEN [client[x] EXCEPT !.status = "ACTIVE", !.events = @ \cup {"OUT"}]
                       ELSE client[x]
    BY DEF SweepClients
<1>3. ASSUME NEW x \in Clients, x \in clients /\ Resumable(x)
      PROVE  /\ client'[x].request = client[x].request
             /\ client'[x].response = client[x].response
             /\ client'[x].current = client[x].current
             /\ client'[x].status = "ACTIVE"
             /\ client'[x].events = client[x].events \cup {"OUT"}
    <2> DEFINE obj == client[x]
    <2>1. obj \in ClientObject
        BY <1>1
    <2>2. client'[x] = [obj EXCEPT !.status = "ACTIVE", !.events = @ \cup {"OUT"}]
        BY <1>2, <1>3
    <2> HIDE DEF obj
    <2>3. /\ client'[x].request = obj.request /\ client'[x].response = obj.response
          /\ client'[x].current = obj.current /\ client'[x].status = "ACTIVE"
          /\ client'[x].events = obj.events \cup {"OUT"}
        BY <2>1, <2>2 DEF ClientObject
    <2> QED
        BY <2>3 DEF obj
<1> QED
    BY <1>2, <1>3 DEF SweepClientsEffect, SweepClients

LEMMA SweepServersActs ==
    ASSUME Inv, SweepServers
    PROVE  SweepServersEffect
<1>1. \A s \in StoppedServers : s \in Clients /\ server[s].response = s
    BY DEF SweepServers, StoppedServers, Inv, TypeOK, ServersLinked
<1>2. {server[s].response : s \in FailedServers} = FailedServers
    BY <1>1 DEF FailedServers
<1>3. response \in [Responses -> ResponseObject]
      /\ response' = [r \in Responses |-> IF r \in FailedServers
                         THEN [response[r] EXCEPT !.type = "FAIL"] ELSE response[r]]
    BY <1>2 DEF SweepServers, Inv, TypeOK
<1>4. ASSUME NEW r \in Responses
      PROVE  /\ response'[r].len = response[r].len
             /\ response'[r].status = response[r].status
             /\ response'[r].code = response[r].code
             /\ IF r \in FailedServers THEN response'[r].type = "FAIL"
                                       ELSE response'[r] = response[r]
    <2>1. response[r] \in ResponseObject
        BY <1>3
    <2>2. CASE r \in FailedServers
        <3>1. response'[r] = [response[r] EXCEPT !.type = "FAIL"]
            BY <1>3, <2>2
        <3> QED
            BY <2>1, <2>2, <3>1 DEF ResponseObject
    <2>3. CASE r \notin FailedServers
        BY <1>3, <2>3
    <2> QED
        BY <2>2, <2>3
<1>5. PICK release \in [StoppedServers -> Keys \cup {Null}] :
          cash' = DisconnectToRecord(cash,
              [k \in Keys |-> Cardinality({s \in StoppedServers : release[s] = k})])
    BY DEF SweepServers
<1>6. ASSUME NEW k \in Keys
      PROVE  /\ Cardinality({s \in StoppedServers : release[s] = k}) \in Nat
             /\ Cardinality({s \in StoppedServers : release[s] = k})
                    <= Cardinality(StoppedServers)
    <2> DEFINE those == {s \in StoppedServers : release[s] = k}
    <2>1. those \in SUBSET Clients /\ StoppedServers \in SUBSET Clients
        BY <1>1
    <2>2. those \subseteq StoppedServers
        OBVIOUS
    <2> HIDE DEF those
    <2>3. Cardinality(those) \in Nat /\ IsFiniteSet(StoppedServers)
        BY <2>1, ClientsFinite
    <2>4. Cardinality(those) <= Cardinality(StoppedServers)
        BY <2>2, <2>3, FS_Subset
    <2> QED
        BY <2>3, <2>4 DEF those
<1>7. \E released \in [Keys -> Nat] :
          /\ cash' = DisconnectToRecord(cash, released)
          /\ \A k \in Keys : released[k] <= Cardinality(StoppedServers)
    <2> DEFINE released == [k \in Keys |-> Cardinality({s \in StoppedServers : release[s] = k})]
    <2>1. released \in [Keys -> Nat] /\ \A k \in Keys : released[k] <= Cardinality(StoppedServers)
        BY <1>6
    <2>2. cash' = DisconnectToRecord(cash, released)
        BY <1>5
    <2> HIDE DEF released
    <2> QED
        BY <2>1, <2>2
<1> QED
    BY <1>1, <1>4, <1>7 DEF SweepServersEffect, SweepServers

LEMMA AddClientActs ==
    ASSUME Inv, AddClient
    PROVE  \E c \in Clients : AddClientEffect(c)
<1>1. accepted + 1 \in Clients /\ accepted + 1 \notin clients
    BY BoundsAssumption DEF Inv, TypeOK, AddClient, Clients, ClientsLinked
<1> QED
    BY <1>1 DEF AddClient, AtConnection, AddClientEffect, Inv, TypeOK

LEMMA RequestSentActs ==
    ASSUME Inv, NEW s \in Clients, RequestSent(s)
    PROVE  RequestSentEffect(s)
<1>1. /\ server[s] \in ServerObject /\ server[s].response = Null
      /\ s \in servers /\ s \in clients /\ s \in Responses
    BY ServerRecords DEF RequestSent, Sending, Responses
<1>2. /\ server \in [Clients -> ServerObject]
      /\ client \in [Clients -> ClientObject] /\ client[s] \in ClientObject
      /\ response \in [Responses -> ResponseObject]
    BY DEF Inv, TypeOK
<1>3. /\ server'[s].response = s /\ server'[s].status = server[s].status
      /\ \A x \in Clients \ {s} : server'[x] = server[x]
    BY <1>1, <1>2 DEF RequestSent, ServerObject
<1>4. /\ client'[s] = [client[s] EXCEPT !.response = s]
      /\ \A x \in Clients \ {s} : client'[x] = client[x]
    BY <1>1, <1>2 DEF RequestSent
<1>5. /\ client'[s].response = s /\ client'[s].request = client[s].request
      /\ client'[s].status = client[s].status /\ client'[s].events = client[s].events
      /\ client'[s].current = client[s].current
    BY <1>2, <1>4 DEF ClientObject
<1>6. response'[s] = NewResponse /\ \A r \in Responses \ {s} : response'[r] = response[r]
    BY <1>1, <1>2 DEF RequestSent
<1> QED
    BY <1>1, <1>3, <1>4, <1>5, <1>6 DEF RequestSent, Sending, AtServer, RequestSentEffect

\* A server stops reading, or is found not to have changed.
LEMMA ServerStopActs ==
    ASSUME Inv, NEW s \in Clients, NEW how \in {"STOP_SUCCESS", "STOP_FAILED"},
           StopServer(s, how)
    PROVE  /\ server'[s].response = server[s].response
           /\ server'[s].events = server[s].events \ {"IN"}
           /\ server'[s].status = how
           /\ \A x \in Clients \ {s} : server'[x] = server[x]
<1> DEFINE new == [server[s] EXCEPT !.status = how, !.events = @ \ {"IN"}]
<1>1. server' = [server EXCEPT ![s] = new] /\ server \in [Clients -> ServerObject]
    BY DEF StopServer, Inv, TypeOK
<1>2. new.response = server[s].response /\ new.status = how
      /\ new.events = server[s].events \ {"IN"}
    BY ServerRecords DEF ServerObject
<1> HIDE DEF new
<1> QED
    BY <1>1, <1>2

LEMMA ServerActs ==
    ASSUME Inv, NEW s \in Clients,
           \/ RequestSendFails(s) \/ ResponseEnds(s) \/ ResponseFails(s)
           \/ ResponseGrows(s) \/ ResponseFallsThrough(s)
    PROVE  ServerEffect(s)
<1>1. /\ server[s] \in ServerObject /\ server \in [Clients -> ServerObject]
      /\ response[s] \in ResponseObject /\ response \in [Responses -> ResponseObject]
      /\ s \in Responses /\ response[s].len \in Nat
    BY ServerRecords, LengthsAreNumbers DEF Inv, TypeOK, Responses
<1>2. CASE RequestSendFails(s)
    <2> DEFINE new == [server[s] EXCEPT !.status = "STOP_FAILED", !.events = @ \ {"OUT"}]
    <2>1. server' = [server EXCEPT ![s] = new]
        BY <1>2 DEF RequestSendFails
    <2>2. /\ new.response = server[s].response /\ new.status = "STOP_FAILED"
          /\ new.events = server[s].events \ {"OUT"}
        BY <1>1 DEF ServerObject
    <2> HIDE DEF new
    <2>3. pc = "executor" /\ s \in servers /\ server[s].response = Null
        BY <1>2, ServerRecords DEF RequestSendFails, Sending, AtServer
    <2>4. \A x \in Clients : /\ server'[x].response = server[x].response
                             /\ server'[x].events \subseteq server[x].events
                             /\ x # s => server'[x] = server[x]
        BY <1>1, <2>1, <2>2
    <2>5. server'[s].status = "STOP_FAILED"
        BY <1>1, <2>1, <2>2
    <2>6. "originFails" \in Env \/ (alarms < MaxAlarms /\ alarms' = alarms + 1)
        BY <1>2 DEF RequestSendFails, WriteFails, Ring
    <2> QED
        BY <1>2, <2>3, <2>4, <2>5, <2>6 DEF RequestSendFails, ServerEffect
<1>3. ASSUME Receiving(s)
      PROVE  /\ pc = "executor" /\ s \in servers /\ "IN" \in server[s].events
             /\ server[s].response = s
    BY <1>3, ServerRecords DEF Receiving, AtServer, Inv, ServersLinked
<1>4. CASE ResponseEnds(s)
    <2>1. Receiving(s) /\ StopServer(s, "STOP_SUCCESS")
        BY <1>4 DEF ResponseEnds
    <2>2. response' = [response EXCEPT ![s].status = "END"]
        BY <1>3, <1>4, <2>1 DEF ResponseEnds
    <2>3. /\ \A r \in Responses \ {s} : response'[r] = response[r]
          /\ response'[s].type = response[s].type /\ response'[s].code = response[s].code
          /\ response'[s].status = "END" /\ response'[s].len = response[s].len
        BY <1>1, <2>2 DEF ResponseObject
    <2> QED
        BY <1>3, <1>4, <2>1, <2>3, ServerStopActs DEF ResponseEnds, ServerEffect
<1>5. CASE ResponseFails(s)
    <2>1. /\ Receiving(s) /\ StopServer(s, "STOP_FAILED") /\ response' = response
          /\ "originFails" \in Env
        BY <1>5 DEF ResponseFails
    <2> QED
        BY <1>3, <1>5, <2>1, ServerStopActs DEF ResponseFails, ServerEffect
<1>6. ASSUME NEW n \in ReadSizes, NEW new \in Extended(response[s], n),
             \/ ~HeaderReceived(response[s], new, n)
             \/ new.code = "none",
             response' = [response EXCEPT ![s] = new]
      PROVE  /\ \A r \in Responses \ {s} : response'[r] = response[r]
             /\ response'[s].type = response[s].type /\ response'[s].code = response[s].code
             /\ response'[s].status = response[s].status
             /\ response'[s].len > response[s].len
    BY <1>1, <1>6, ExtendedOnlyAppends DEF ReadSizes, HeaderReceived
<1>7. CASE ResponseGrows(s)
    <2>1. Receiving(s) /\ server' = server
        BY <1>7 DEF ResponseGrows
    <2>2. \E n \in ReadSizes : \E new \in Extended(response[s], n) :
              /\ ~HeaderReceived(response[s], new, n)
              /\ response' = [response EXCEPT ![s] = new]
        BY <1>3, <1>7, <2>1 DEF ResponseGrows
    <2> QED
        BY <1>3, <1>6, <1>7, <2>1, <2>2 DEF ResponseGrows, ServerEffect
<1>8. CASE ResponseFallsThrough(s)
    <2>1. Receiving(s) /\ StopServer(s, "STOP_FAILED")
        BY <1>8 DEF ResponseFallsThrough
    <2>2. \E n \in ReadSizes : \E new \in Extended(response[s], n) :
              /\ HeaderReceived(response[s], new, n)
              /\ new.code = "none" /\ response' = [response EXCEPT ![s] = new]
        BY <1>3, <1>8, <2>1 DEF ResponseFallsThrough
    <2>3. "oneByteRead" \in Env
        BY <1>1, <2>2, ExtendedOnlyAppends DEF HeaderReceived, ReadSizes
    <2> QED
        BY <1>3, <1>6, <1>8, <2>1, <2>2, <2>3, ServerStopActs
        DEF ResponseFallsThrough, ServerEffect
<1> QED
    BY <1>2, <1>4, <1>5, <1>7, <1>8

LEMMA HeaderActs ==
    ASSUME Inv, NEW s \in Clients, ResponseHeader(s)
    PROVE  HeaderEffect(s)
<1>1. /\ Receiving(s) /\ s \in servers /\ client[s].request # Null /\ server[s].response = s
      /\ "IN" \in server[s].events /\ s \in clients /\ s \notin freed /\ pc = "executor"
    <2>1. Receiving(s) /\ s \in clients
        BY DEF ResponseHeader
    <2>2. pc = "executor" /\ sready[s] = {"IN"} /\ server[s].response \notin freed
        BY <2>1 DEF Receiving, AtServer
    <2>3. s \in servers /\ client[s].request # Null /\ server[s].response = s
          /\ "IN" \in server[s].events
        BY <2>2 DEF Inv, ServersLinked
    <2> QED
        BY <2>1, <2>2, <2>3
<1>2. \E n \in ReadSizes : \E new \in Extended(response[s], n) :
          /\ new.code # "none"
          /\ \/ /\ new.code = "OK"
                /\ response' = [response EXCEPT ![s] = [new EXCEPT !.type = "CASHED"]]
                /\ cash' = AddRecord(cash, Key(client[s].request), s)
             \/ /\ new.code # "OK"
                /\ response' = [response EXCEPT ![s] = [new EXCEPT !.type = "NO_CASH"]]
                /\ cash' = cash
    BY <1>1 DEF ResponseHeader, Cacheable
<1>3a. PICK n \in ReadSizes : \E resp \in Extended(response[s], n) :
          /\ resp.code # "none"
          /\ \/ /\ resp.code = "OK"
                /\ response' = [response EXCEPT ![s] = [resp EXCEPT !.type = "CASHED"]]
                /\ cash' = AddRecord(cash, Key(client[s].request), s)
             \/ /\ resp.code # "OK"
                /\ response' = [response EXCEPT ![s] = [resp EXCEPT !.type = "NO_CASH"]]
                /\ cash' = cash
    BY <1>2
<1>3. PICK resp \in Extended(response[s], n) :
          /\ resp.code # "none"
          /\ \/ /\ resp.code = "OK"
                /\ response' = [response EXCEPT ![s] = [resp EXCEPT !.type = "CASHED"]]
                /\ cash' = AddRecord(cash, Key(client[s].request), s)
             \/ /\ resp.code # "OK"
                /\ response' = [response EXCEPT ![s] = [resp EXCEPT !.type = "NO_CASH"]]
                /\ cash' = cash
    BY <1>3a
<1>4. /\ resp \in ResponseObject /\ resp.len = response[s].len + n
      /\ \/ resp.code = response[s].code /\ resp.status = response[s].status
         \/ response[s].status = "HEADERS" /\ resp.status = "BODY"
      /\ response[s].code # "none" => response[s].status # "HEADERS"
      /\ response[s].len \in Nat /\ n \in {1, 2}
      /\ response \in [Responses -> ResponseObject] /\ s \in Responses
    BY ServerRecords, ExtendedOnlyAppends, LengthsAreNumbers
    DEF ReadSizes, Inv, TypeOK, RecordsSound, Responses
<1>5. PICK type \in {"CASHED", "NO_CASH"} :
          /\ response' = [response EXCEPT ![s] = [resp EXCEPT !.type = type]]
          /\ type = "CASHED" => resp.code = "OK"
                                /\ cash' = AddRecord(cash, Key(client[s].request), s)
          /\ type = "NO_CASH" => resp.code = "NO_OK" /\ cash' = cash
    <2>1. resp.code \in {"OK", "NO_OK"}
        BY <1>3, <1>4 DEF ResponseObject
    <2> QED
        BY <1>3, <2>1
<1> DEFINE new == [resp EXCEPT !.type = type]
<1>6. /\ new.type = type /\ new.code = resp.code /\ new.status = resp.status
      /\ new.len = resp.len
    BY <1>4 DEF ResponseObject
<1>7. response'[s] = new /\ \A r \in Responses \ {s} : response'[r] = response[r]
    BY <1>4, <1>5
<1> HIDE DEF new
<1>8. /\ client \in [Clients -> ClientObject]
      /\ client' = [client EXCEPT ![s].events = @ \cup {"OUT"}]
      /\ UNCHANGED <<pc, exiting, accepted, clients, servers, server, freed, ready, cready,
                     signals>>
    BY DEF ResponseHeader, Inv, TypeOK
<1>9. /\ client'[s].events = client[s].events \cup {"OUT"}
      /\ \A x \in Clients :
            /\ client'[x].request = client[x].request
            /\ client'[x].response = client[x].response
            /\ client'[x].status = client[x].status
            /\ client'[x].current = client[x].current
            /\ x # s => client'[x] = client[x]
    BY <1>8 DEF ClientObject
<1>10. /\ response'[s].status \in {response[s].status, "BODY"}
       /\ response'[s].len > response[s].len
       /\ response[s].code # "none" => response'[s].code = response[s].code
       /\ \/ /\ response'[s].type = "CASHED" /\ response'[s].code = "OK"
             /\ cash' = AddRecord(cash, Key(client[s].request), s)
          \/ response'[s].type = "NO_CASH" /\ response'[s].code = "NO_OK" /\ cash' = cash
    BY <1>4, <1>5, <1>6, <1>7
<1> QED
    BY <1>1, <1>7, <1>8, <1>9, <1>10 DEF HeaderEffect

(***************************************************************************)
(* The clients.                                                            *)
(***************************************************************************)
LEMMA DisabledCounts ==
    ASSUME NEW obj \in ClientObject, NEW sent \in Int,
           NEW how \in {"ACTIVE", "PAUSE", "STOP_SUCCESS", "STOP_FAILED"}
    PROVE  Disabled(obj, sent, how).current = sent
    BY DEF Disabled, ClientObject

LEMMA ClientActs ==
    ASSUME Inv, NEW c \in Clients,
           ClientHangup(c) \/ RequestFails(c) \/ ResponseSent(c) \/ ResponseSendFails(c)
    PROVE  ClientEffect(c)
<1>1. /\ client[c] \in ClientObject /\ client[c].current \in Int
      /\ client[c].current - 1 \in Int
      /\ cready[c] \subseteq {"HUP", "IN", "OUT"}
    BY DEF Inv, TypeOK, ClientObject
<1>2. CASE ClientHangup(c)
    <2> DEFINE new == [client[c] EXCEPT !.status = "STOP_FAILED", !.events = {}]
    <2>1. /\ new.request = client[c].request /\ new.response = client[c].response
          /\ new.status = "STOP_FAILED"
        BY <1>1 DEF ClientObject
    <2>2. client' = [client EXCEPT ![c] = new] /\ cready' = [cready EXCEPT ![c] = {}]
        BY <1>2 DEF ClientHangup
    <2> HIDE DEF new
    <2>3. /\ client'[c] = new /\ cready'[c] = {}
          /\ \A x \in Clients \ {c} : client'[x] = client[x] /\ cready'[x] = cready[x]
        BY <2>2, ClientRecords
    <2> QED
        BY <1>2, <2>1, <2>2, <2>3 DEF ClientHangup, AtClient, ClientEffect
<1>3. CASE RequestFails(c)
    <2> DEFINE new == [client[c] EXCEPT !.status = "STOP_FAILED", !.events = @ \ {"IN"}]
    <2>1. /\ new.request = client[c].request /\ new.response = client[c].response
          /\ new.status = "STOP_FAILED"
        BY <1>1 DEF ClientObject
    <2>2. /\ client' = [client EXCEPT ![c] = new]
          /\ cready' = [cready EXCEPT ![c] = cready[c] \ {"IN"}]
        BY <1>3 DEF RequestFails, Visited
    <2>3. cready[c] \ {"IN"} = {}
        BY <1>1, <1>3 DEF RequestFails, Asking, Inv, ClientsLinked, Attached
    <2> HIDE DEF new
    <2>4. /\ client'[c] = new /\ cready'[c] = {}
          /\ \A x \in Clients \ {c} : client'[x] = client[x] /\ cready'[x] = cready[x]
        BY <2>2, <2>3, ClientRecords
    <2> QED
        BY <1>3, <2>1, <2>2, <2>4 DEF RequestFails, Asking, AtClient, ClientEffect
<1>4. ASSUME Writing(c)
      PROVE  /\ pc = "executor" /\ cready[c] # {}
             /\ Visited(cready, c, "OUT") = [cready EXCEPT ![c] = {}]
             /\ "OUT" \in client[c].events /\ client[c].response \in Responses
    <2>1. pc = "executor" /\ cready[c] = {"OUT"} /\ "OUT" \in client[c].events
        BY <1>4 DEF Writing, AtClient, Inv, ClientsLinked
    <2>2. client[c].response \in Responses
        BY <1>1, <2>1 DEF Inv, ClientsLinked, Attached, ClientObject
    <2>3. Visited(cready, c, "OUT") = [cready EXCEPT ![c] = {}]
        BY <2>1 DEF Visited
    <2> QED
        BY <2>1, <2>2, <2>3
<1>5. CASE ResponseSendFails(c)
    <2> DEFINE new == Disabled(client[c], client[c].current - 1, "STOP_FAILED")
    <2>1. /\ new.request = client[c].request /\ new.response = client[c].response
          /\ new.status = "STOP_FAILED"
        BY ZenonT(60), <1>1, DisabledClient
    <2>2. client' = [client EXCEPT ![c] = new] /\ cready' = [cready EXCEPT ![c] = {}]
        BY <1>4, <1>5 DEF ResponseSendFails
    <2> HIDE DEF new
    <2>3. /\ client'[c] = new /\ cready'[c] = {}
          /\ \A x \in Clients \ {c} : client'[x] = client[x] /\ cready'[x] = cready[x]
        BY <2>2, ClientRecords
    <2>4. "clientLeaves" \in Env \/ (alarms < MaxAlarms /\ alarms' = alarms + 1)
        BY <1>5 DEF ResponseSendFails, WriteFails, Ring
    <2> QED
        BY <1>4, <1>5, <2>1, <2>2, <2>3, <2>4 DEF ResponseSendFails, ClientEffect
<1>6. CASE ResponseSent(c)
    <2> DEFINE r == client[c].response
               left == response[r].len - client[c].current
               all(n) == Disabled(client[c], client[c].current + n, "STOP_SUCCESS")
               none == Disabled(client[c], client[c].current, "PAUSE")
               part(n) == [client[c] EXCEPT !.current = @ + n]
    <2>1. /\ Writing(c) /\ cready' = [cready EXCEPT ![c] = {}]
          /\ response[r].len \in Nat
        BY <1>4, <1>6, LengthsAreNumbers DEF ResponseSent
    <2>2. PICK n \in 0..left :
              /\ n = 0 => left = 0
              /\ client' = [client EXCEPT ![c] =
                   IF n = left /\ response[r].status = "END" THEN all(n)
                   ELSE IF n = 0 THEN none ELSE part(n)]
        BY <1>6 DEF ResponseSent
    <2>3. /\ n \in Int /\ left \in Int /\ n >= 0 /\ n <= left
          /\ client[c].current + n \in Int
        BY <1>1, <2>1, <2>2
    <2>4. /\ all(n).request = client[c].request /\ all(n).response = r
          /\ all(n).status = "STOP_SUCCESS" /\ all(n).current = client[c].current + n
          /\ none.request = client[c].request /\ none.response = r
          /\ none.status = "PAUSE" /\ none.current = client[c].current
        <3>1. /\ client[c] \in ClientObject /\ client[c].current \in Int
              /\ client[c].current + n \in Int
            BY <1>1, <2>3
        <3>2. /\ all(n).request = client[c].request /\ all(n).response = r
              /\ none.request = client[c].request /\ none.response = r
            BY ZenonT(60), <3>1, DisabledClient
        <3>3. all(n).status = "STOP_SUCCESS" /\ none.status = "PAUSE"
            BY <3>1, DisabledClient
        <3>4. all(n).current = client[c].current + n /\ none.current = client[c].current
            BY <3>1, DisabledCounts
        <3> QED
            BY <3>2, <3>3, <3>4
    <2>5. /\ part(n).request = client[c].request /\ part(n).response = r
          /\ part(n).status = client[c].status /\ part(n).events = client[c].events
          /\ part(n).current = client[c].current + n
        BY <1>1, <2>3 DEF ClientObject
    <2> HIDE DEF all, none, part
    <2>6. /\ \A x \in Clients \ {c} : client'[x] = client[x] /\ cready'[x] = cready[x]
          /\ cready'[c] = {}
          /\ client'[c] = IF n = left /\ response[r].status = "END" THEN all(n)
                          ELSE IF n = 0 THEN none ELSE part(n)
        BY <2>1, <2>2, ClientRecords
    <2>7. UNCHANGED <<pc, exiting, accepted, clients, servers, server, response, freed,
                      cash, ready, sready>>
        BY <1>6 DEF ResponseSent
    <2>8. CASE n = left /\ response[r].status = "END"
        <3>1. client'[c] = all(n)
            BY <2>6, <2>8
        <3>2. client[c].current + n = response[r].len /\ left >= 0
            BY <1>1, <2>1, <2>3, <2>8
        <3> QED
            BY <1>4, <2>1, <2>4, <2>6, <2>7, <2>8, <3>1, <3>2 DEF ClientEffect
    <2>9. CASE ~(n = left /\ response[r].status = "END") /\ n = 0
        <3>1. client'[c] = none /\ left = 0 /\ response[r].status # "END"
            BY <2>2, <2>6, <2>9
        <3> QED
            BY <1>4, <2>1, <2>4, <2>6, <2>7, <2>9, <3>1 DEF ClientEffect
    <2>10. CASE ~(n = left /\ response[r].status = "END") /\ n # 0
        <3>1. /\ client'[c] = part(n) /\ client[c].current + n > client[c].current
              /\ client[c].current + n <= response[r].len
            BY <1>1, <2>1, <2>3, <2>6, <2>10
        <3> QED
            BY <1>4, <2>1, <2>5, <2>6, <2>7, <2>10, <3>1 DEF ClientEffect
    <2> QED
        BY <2>8, <2>9, <2>10
<1> QED
    BY <1>2, <1>3, <1>5, <1>6

LEMMA AnswerActs ==
    ASSUME Inv, NEW c \in Clients, RequestReceived(c)
    PROVE  \E q \in Requests, r \in Responses \cup {Null} : AnswerEffect(c, q, r)
<1>1. PICK q \in Requests : \/ RequestRejected(c, q) \/ RequestInCash(c, q)
                            \/ RequestForwarded(c, q) \/ OriginUnreachable(c, q)
    BY DEF RequestReceived
<1>2. client[c] \in ClientObject /\ client \in [Clients -> ClientObject]
    BY DEF Inv, TypeOK
<1>3. ASSUME NEW r \in Responses \cup {Null}, Answer(c, q, r)
      PROVE  /\ pc = "executor" /\ cready[c] # {} /\ cready'[c] = {} /\ c <= accepted
             /\ client[c].request = Null /\ client[c].response = Null
             /\ client'[c].request = q /\ client'[c].response = r
             /\ client'[c].status = client[c].status
             /\ client'[c].current = client[c].current
             /\ r # Null => "OUT" \in client'[c].events
             /\ \A x \in Clients \ {c} : client'[x] = client[x] /\ cready'[x] = cready[x]
             /\ UNCHANGED <<pc, exiting, accepted, clients, response, freed, ready, sready,
                            signals>>
    <2> DEFINE new == [client[c] EXCEPT !.request = q, !.response = r,
                                        !.events = AnswerEvents(@, r)]
    <2>1. /\ client' = [client EXCEPT ![c] = new]
          /\ cready' = [cready EXCEPT ![c] = cready[c] \ {"IN"}]
        BY <1>3 DEF Answer, Visited
    <2>2. new.request = q /\ new.response = r /\ new.status = client[c].status
        BY <1>2 DEF ClientObject
    <2>3. new.current = client[c].current /\ new.events = AnswerEvents(client[c].events, r)
        BY <1>2 DEF ClientObject
    <2>4. /\ pc = "executor" /\ "IN" \in cready[c] /\ "HUP" \notin cready[c]
          /\ client[c].request = Null /\ client[c].response = Null /\ c <= accepted
        BY <1>3 DEF Answer, Asking, AtClient, Inv, ClientsLinked
    <2>5. cready[c] \ {"IN"} = {}
        BY <2>4 DEF Inv, TypeOK, ClientsLinked, Attached
    <2>6. r # Null => "OUT" \in new.events
        BY <2>3 DEF AnswerEvents
    <2> HIDE DEF new
    <2>7. /\ client'[c] = new /\ cready'[c] = {}
          /\ \A x \in Clients \ {c} : client'[x] = client[x] /\ cready'[x] = cready[x]
        BY <2>1, <2>5, ClientRecords
    <2> QED
        BY <1>3, <2>2, <2>3, <2>4, <2>6, <2>7 DEF Answer
<1>4. ASSUME client[c].request = Null
      PROVE  c \notin servers /\ server[c].response = Null
    BY <1>4, SentinelAssumption DEF Inv, ServersLinked, ClientsLinked, Responses
<1>5. CASE RequestRejected(c, q)
    <2> DEFINE r == CheckValidRequest(q)
    <2>1. r \in Static /\ Answer(c, q, r) /\ UNCHANGED <<servers, server, cash>>
        BY <1>5 DEF RequestRejected, CheckValidRequest, Static
    <2> HIDE DEF r
    <2> QED
        BY <1>3, <1>4, <2>1 DEF AnswerEffect, Responses
<1>6. CASE RequestInCash(c, q)
    <2> DEFINE k == Key(q)
               r == cash[k].response
    <2>1. /\ k \in Held(cash) /\ Answer(c, q, r)
          /\ cash' = ConnectToRecord(cash, k) /\ UNCHANGED <<servers, server>>
        BY <1>6 DEF RequestInCash, HaveRecord, Held, Keys, Inv, TypeOK
    <2>2. r \in Responses
        BY <2>1, HeldRecords DEF Inv, Responses
    <2> QED
        BY <1>3, <1>4, <2>1, <2>2 DEF AnswerEffect
<1>7. CASE RequestForwarded(c, q)
    <2> DEFINE new == NewServer(NextTurn)
    <2>1. /\ Answer(c, q, Null) /\ servers' = servers \cup {c} /\ UNCHANGED cash
          /\ server' = [server EXCEPT ![c] = new] /\ server \in [Clients -> ServerObject]
        BY <1>7 DEF RequestForwarded, Inv, TypeOK
    <2>2. new.status = "ACTIVE" /\ new.events = {"OUT"} /\ new.response = Null
        BY DEF NewServer
    <2> HIDE DEF new
    <2>3. /\ server'[c].status = "ACTIVE" /\ server'[c].events = {"OUT"}
          /\ server'[c].response = Null /\ \A x \in Clients \ {c} : server'[x] = server[x]
        BY <2>1, <2>2
    <2> QED
        BY <1>3, <1>4, <2>1, <2>3 DEF AnswerEffect
<1>8. CASE OriginUnreachable(c, q)
    <2>1. /\ Answer(c, q, response_409) /\ response_409 \in Static
          /\ UNCHANGED <<servers, server, cash>>
        BY <1>8 DEF OriginUnreachable, Static
    <2> QED
        BY <1>3, <1>4, <2>1 DEF AnswerEffect, Responses
<1> QED
    BY <1>1, <1>5, <1>6, <1>7, <1>8

LEMMA TerminateActs ==
    ASSUME Inv, Terminate
    PROVE  TerminateEffect
<1>1. \A x \in Clients : client[x] \in ClientObject /\ server[x] \in ServerObject
    BY DEF Inv, TypeOK
<1>2. ASSUME NEW x \in Clients
      PROVE  /\ client'[x].request = client[x].request
             /\ client'[x].response = client[x].response
             /\ client'[x].current = client[x].current
             /\ client'[x].events = client[x].events
             /\ IF x \in clients THEN client'[x].status = "STOP_FAILED"
                                 ELSE client'[x] = client[x]
    <2>1. client'[x] = IF x \in clients THEN [client[x] EXCEPT !.status = "STOP_FAILED"]
                                        ELSE client[x]
        BY DEF Terminate
    <2> QED
        BY <1>1, <2>1 DEF ClientObject
<1>3. ASSUME NEW x \in Clients
      PROVE  /\ server'[x].response = server[x].response
             /\ server'[x].events = server[x].events
             /\ IF x \in servers THEN server'[x].status = "STOP_FAILED"
                                 ELSE server'[x] = server[x]
    <2>1. server'[x] = IF x \in servers THEN [server[x] EXCEPT !.status = "STOP_FAILED"]
                                        ELSE server[x]
        BY DEF Terminate
    <2> QED
        BY <1>1, <2>1 DEF ServerObject
<1> QED
    BY <1>2, <1>3 DEF Terminate, TerminateEffect

\* Every step is one of these.
LEMMA StepActs ==
    ASSUME Inv, [Next]_vars
    PROVE  \/ QuietEffect \/ SweepClientsEffect \/ SweepServersEffect
           \/ EventCash \/ Destroy \/ TerminateEffect
           \/ \E x \in Clients : \/ AddClientEffect(x) \/ RequestSentEffect(x)
                                 \/ ServerEffect(x) \/ HeaderEffect(x) \/ ClientEffect(x)
           \/ \E x \in Clients, q \in Requests, r \in Responses \cup {Null} :
                 AnswerEffect(x, q, r)
<1>1. CASE Builder
    BY <1>1, QuietActions, SweepClientsActs, SweepServersActs DEF Builder
<1>2. CASE Executor
    <2>1. CASE AddClient \/ AcceptFails \/ EventCash \/ BrokenPipe \/ Return
        BY <2>1, QuietActions, AddClientActs
    <2>2. ASSUME NEW s \in Clients, ServerHandler(s)
          PROVE  QuietEffect \/ RequestSentEffect(s) \/ ServerEffect(s) \/ HeaderEffect(s)
        BY <2>2, QuietActions, RequestSentActs, ServerActs, HeaderActs DEF ServerHandler
    <2>3. ASSUME NEW c \in Clients, ClientHandler(c)
          PROVE  \/ QuietEffect \/ ClientEffect(c)
                 \/ \E q \in Requests, r \in Responses \cup {Null} : AnswerEffect(c, q, r)
        BY <2>3, QuietActions, ClientActs, AnswerActs DEF ClientHandler
    <2> QED
        BY <1>2, <2>1, <2>2, <2>3 DEF Executor
<1>3. CASE Poll \/ Alarm \/ UNCHANGED vars
    BY <1>3, QuietActions
<1>4. CASE Terminate \/ Destroy
    BY <1>4, TerminateActs
<1> QED
    BY <1>1, <1>2, <1>3, <1>4 DEF Next
=============================================================================
