---------------------- MODULE PollSchedulerProgressProofs ----------------------
(***************************************************************************)
(* Progress is an invariant: Inv says what the objects refer to, Progress  *)
(* how far they have come, one by one and against each other.  What the    *)
(* properties need of it (that no wakeup is lost, that only an origin can  *)
(* leave a client waiting, that the SIGTERM handler leaves nothing behind) *)
(* follows at the end.                                                     *)
(*                                                                         *)
(* There is one lemma for each effect of a step, with a step for each part *)
(* of Progress the effect can disturb.                                     *)
(***************************************************************************)
EXTENDS PollSchedulerEffects

\* What Inv says of single objects.
LEMMA ObjectFacts ==
    ASSUME Inv
    PROVE  /\ clients \subseteq Clients /\ servers \subseteq Clients
           /\ Null \notin Clients /\ Null \notin Static /\ Null \notin Requests
           /\ \A s \in Clients : s \notin Static /\ s \in Responses /\ s # Null /\ s \in Int
           /\ \A s \in Clients :
                 /\ server[s].response \in {s, Null}
                 /\ server[s].response = s => client[s].response = s
                 /\ "IN" \in server[s].events => server[s].response = s
                 /\ s \in servers => client[s].request # Null
                 /\ server[s].status \in {"ACTIVE", "STOP_SUCCESS", "STOP_FAILED"}
           /\ \A c \in Clients :
                 /\ client[c].status \in {"ACTIVE", "PAUSE", "STOP_SUCCESS", "STOP_FAILED"}
                 /\ client[c].response \in Responses \cup {Null}
                 /\ client[c].response # Null => client[c].request # Null
                 /\ "OUT" \in client[c].events => client[c].response # Null
                 /\ client[c].status = "PAUSE" => client[c].response # Null
                 /\ client[c].current \in Int
           /\ \A r \in Responses : response[r].len \in Nat
           /\ \A k \in Held(cash) :
                 LET r == cash[k].response IN
                 /\ r \in Clients /\ server[r].response = r
                 /\ response[r].code = "OK" /\ response[r].type \in {"CASHED", "FAIL"}
           /\ \A c \in clients : c <= accepted
           /\ accepted \in Nat
<1>1. /\ clients \subseteq Clients /\ servers \subseteq Clients
      /\ Null \notin Clients /\ Null \notin Static /\ Null \notin Requests
      /\ accepted \in Nat
    BY SentinelAssumption, BoundsAssumption DEF Inv, TypeOK, Responses
<1>2. \A s \in Clients : s \notin Static /\ s \in Responses /\ s # Null /\ s \in Int
    BY SentinelAssumption DEF Responses, Clients
<1>3. \A s \in Clients :
          /\ server[s].response \in {s, Null}
          /\ server[s].response = s => client[s].response = s
          /\ "IN" \in server[s].events => server[s].response = s
          /\ s \in servers => client[s].request # Null
          /\ server[s].status \in {"ACTIVE", "STOP_SUCCESS", "STOP_FAILED"}
    BY DEF Inv, TypeOK, ServersLinked, ServerObject
<1>4. \A c \in Clients :
          /\ client[c].status \in {"ACTIVE", "PAUSE", "STOP_SUCCESS", "STOP_FAILED"}
          /\ client[c].response \in Responses \cup {Null}
          /\ client[c].response # Null => client[c].request # Null
          /\ "OUT" \in client[c].events => client[c].response # Null
          /\ client[c].status = "PAUSE" => client[c].response # Null
          /\ client[c].current \in Int
    BY DEF Inv, TypeOK, ClientsLinked, Attached, ClientObject
<1>5. \A k \in Held(cash) :
          LET r == cash[k].response IN
          /\ r \in Clients /\ server[r].response = r
          /\ response[r].code = "OK" /\ response[r].type \in {"CASHED", "FAIL"}
    BY HeldRecords DEF Inv, RecordsSound
<1>6. \A c \in clients : c <= accepted
    BY <1>1 DEF Inv, ClientsLinked
<1> QED
    BY <1>1, <1>2, <1>3, <1>4, <1>5, <1>6, LengthsAreNumbers

LEMMA InitProgress ==
    ASSUME Init
    PROVE  Progress
<1>1. /\ \A c \in Clients : /\ client[c] = NewClient /\ server[c] = NewServer(0)
                            /\ cready[c] = {}
      /\ \A r \in Static : response[r] = ErrorPage
      /\ \A r \in Clients : response[r] = NewResponse
      /\ Null \notin Clients
    BY SentinelAssumption DEF Init, Nobody, Responses
<1>2. /\ NewClient.response = Null /\ NewServer(0).response = Null
      /\ NewServer(0).events = {"OUT"}
      /\ NewResponse.type = "none"
    BY DEF NewClient, NewServer, NewResponse
<1>3. UnusedIsNew
    BY <1>1 DEF UnusedIsNew
<1>4. FetchesProgress
    BY <1>1, <1>2 DEF FetchesProgress, Init
<1>5. SharedIsCached
    BY <1>1, <1>2 DEF SharedIsCached
<1>6. ClientsProgress /\ Visiting /\ Swept /\ ExitProgress
    BY <1>1 DEF Init, ClientsProgress, Visiting, Swept, ExitProgress, Stopped
<1> QED
    BY <1>3, <1>4, <1>5, <1>6 DEF Progress

LEMMA QuietProgress ==
    ASSUME Inv, Progress, QuietEffect
    PROVE  Progress'
<1>1. UNCHANGED <<exiting, accepted, clients, servers, client, server, response, freed, cash>>
    BY DEF QuietEffect, objects
<1>2. UnusedIsNew' /\ FetchesProgress' /\ SharedIsCached'
    BY <1>1 DEF Progress, UnusedIsNew, FetchesProgress, SharedIsCached
<1>3. ClientsProgress'
    BY <1>1 DEF Progress, ClientsProgress, Attached, Sendable
<1>4. Visiting'
    BY <1>1 DEF Progress, QuietEffect, Visiting, Swept, Stopped
<1>5. Swept'
    BY <1>1 DEF Progress, QuietEffect, Swept, Resumable, Stopped
<1>6. ExitProgress'
    BY <1>1 DEF Progress, QuietEffect, ExitProgress, Stopped, Held
<1> QED
    BY <1>2, <1>3, <1>4, <1>5, <1>6 DEF Progress

LEMMA SweepClientsProgress ==
    ASSUME Inv, Progress, SweepClientsEffect
    PROVE  Progress'
<1>1. UNCHANGED <<exiting, accepted, servers, server, response, cready>>
    BY DEF SweepClientsEffect, pass
<1>2. /\ \A x \in Clients : /\ client'[x].request = client[x].request
                            /\ client'[x].response = client[x].response
                            /\ client'[x].current = client[x].current
      /\ \A x \in Clients : x \notin clients => client'[x] = client[x]
      /\ clients' \subseteq clients
    BY DEF SweepClientsEffect
<1>3. UnusedIsNew'
    BY <1>1, <1>2, ObjectFacts DEF Progress, UnusedIsNew, Inv, ClientsLinked
<1>4. FetchesProgress' /\ SharedIsCached'
    BY <1>1, <1>2 DEF Progress, FetchesProgress, SharedIsCached
<1>5. \A c \in clients' : \/ Resumable(c) /\ client'[c].status = "ACTIVE"
                             /\ client'[c].events = client[c].events \cup {"OUT"}
                             /\ client[c].response # Null
                          \/ ~Resumable(c) /\ client'[c] = client[c]
    BY <1>2, ObjectFacts DEF SweepClientsEffect, Resumable
<1>6. ClientsProgress'
    BY <1>1, <1>2, <1>5, ObjectFacts DEF Progress, ClientsProgress, Attached, Sendable
<1>7. Visiting'
    BY <1>1, ObjectFacts DEF SweepClientsEffect, Progress, Visiting, Stopped
<1>8. Swept'
    <2>1. \A c \in clients' : c \in Clients /\ client[c].status \in {"ACTIVE", "PAUSE"}
        BY ObjectFacts DEF SweepClientsEffect, StoppedClients
    <2> QED
        BY <1>1, <1>2, <1>5, <2>1 DEF Swept, Resumable
<1>9. ExitProgress'
    BY <1>1 DEF SweepClientsEffect, StoppedClients, Progress, ExitProgress, Stopped
<1> QED
    BY <1>3, <1>4, <1>6, <1>7, <1>8, <1>9 DEF Progress

LEMMA SweepServersProgress ==
    ASSUME Inv, Progress, SweepServersEffect
    PROVE  Progress'
<1>1. /\ UNCHANGED <<exiting, accepted, clients, client, server, cready>>
      /\ servers' = servers \ StoppedServers
    BY DEF SweepServersEffect, pass
<1>2. /\ \A s \in StoppedServers : /\ s \in Clients /\ s \in servers /\ server[s].response = s
                                   /\ client[s].response = s
      /\ \A s \in StoppedServers : s \in FailedServers \/ server[s].status = "STOP_SUCCESS"
      /\ FailedServers \subseteq StoppedServers
    BY ObjectFacts DEF SweepServersEffect, StoppedServers, FailedServers
<1>3. \A r \in Responses :
          /\ response'[r].len = response[r].len
          /\ response'[r].status = response[r].status
          /\ response'[r].code = response[r].code
          /\ r \in FailedServers => response'[r].type = "FAIL"
          /\ r \notin FailedServers => response'[r] = response[r]
    BY DEF SweepServersEffect
<1>4. UnusedIsNew'
    <2>1. \A r \in Static : r \in Responses /\ r \notin FailedServers
        BY <1>2, ObjectFacts DEF Responses
    <2> QED
        BY <1>1, <1>2, <1>3, <2>1, ObjectFacts DEF Progress, UnusedIsNew
<1>5. FetchesProgress'
    BY <1>1, <1>2, <1>3, ObjectFacts DEF Progress, FetchesProgress
<1>6. SharedIsCached'
    BY <1>1, <1>3, ObjectFacts DEF Progress, SharedIsCached
<1>7. ClientsProgress'
    BY <1>1, <1>2, <1>3, ObjectFacts DEF Progress, ClientsProgress, Attached, Sendable
<1>8. Visiting'
    BY <1>1 DEF SweepServersEffect, Progress, Visiting, Stopped
<1>9. Swept'
    BY <1>1, <1>3, ObjectFacts DEF SweepServersEffect, Progress, Swept, Resumable
<1>10. ExitProgress'
    BY <1>1 DEF SweepServersEffect, StoppedServers, Progress, ExitProgress, Stopped
<1> QED
    BY <1>4, <1>5, <1>6, <1>7, <1>8, <1>9, <1>10 DEF Progress

LEMMA AddClientProgress ==
    ASSUME Inv, Progress, NEW c \in Clients, AddClientEffect(c)
    PROVE  Progress'
<1>1. /\ pc = "executor" /\ pc' = pc
      /\ UNCHANGED <<exiting, servers, server, response, freed, cash, cready>>
      /\ c = accepted + 1 /\ accepted' = c /\ clients' = clients \cup {c} /\ c > accepted
    BY ObjectFacts DEF AddClientEffect
<1>2. /\ client[c] = NewClient
      /\ \A x \in Clients : client'[x] = client[x]
    BY <1>1 DEF AddClientEffect, Progress, UnusedIsNew
<1>3. UnusedIsNew'
    BY <1>1, <1>2, ObjectFacts DEF Progress, UnusedIsNew
<1>4. FetchesProgress' /\ SharedIsCached'
    BY <1>1, <1>2 DEF Progress, FetchesProgress, SharedIsCached
<1>5. ClientsProgress'
    <2>1. /\ client'[c].request = Null /\ client'[c].response = Null
          /\ client'[c].status = "ACTIVE" /\ "IN" \in client'[c].events
        BY <1>2 DEF NewClient
    <2>2. \A x \in clients : x \in Clients /\ client'[x] = client[x]
        BY <1>2, ObjectFacts
    <2>3. clients' = clients \cup {c} /\ UNCHANGED <<servers, response>>
        BY <1>1
    <2> QED
        BY <2>1, <2>2, <2>3 DEF Progress, ClientsProgress, Attached, Sendable
<1>6. Visiting' /\ Swept' /\ ExitProgress'
    BY <1>1, <1>2 DEF Progress, Visiting, Swept, ExitProgress, Stopped
<1> QED
    BY <1>3, <1>4, <1>5, <1>6 DEF Progress

LEMMA RequestSentProgress ==
    ASSUME Inv, Progress, NEW s \in Clients, RequestSentEffect(s)
    PROVE  Progress'
<1>1. /\ pc = "executor" /\ pc' = pc
      /\ UNCHANGED <<exiting, accepted, clients, servers, freed, cash, cready>>
      /\ s \in servers /\ s \in clients
      /\ server'[s].response = s /\ server'[s].status = server[s].status
      /\ \A x \in Clients \ {s} : server'[x] = server[x]
      /\ client'[s].response = s
      /\ \A x \in Clients :
            /\ client'[x].request = client[x].request
            /\ client'[x].status = client[x].status
            /\ client'[x].events = client[x].events
            /\ client'[x].current = client[x].current
            /\ x # s => client'[x] = client[x]
    BY DEF RequestSentEffect
<1>2. server[s].response = Null /\ client[s].response = Null /\ response[s] = NewResponse
    <2>1. server[s].response = Null
        BY DEF RequestSentEffect
    <2> QED
        BY <1>1, <2>1 DEF Progress, UnusedIsNew, FetchesProgress
<1>3. \A r \in Responses : response'[r] = response[r]
    BY <1>2 DEF RequestSentEffect
<1>4. NewResponse.type = "none" /\ NewResponse.status = "HEADERS"
    BY DEF NewResponse
<1>5. UnusedIsNew'
    BY <1>1, <1>2, <1>3, ObjectFacts DEF Progress, UnusedIsNew, Responses
<1>6. FetchesProgress'
    BY <1>1, <1>2, <1>3, <1>4, ObjectFacts DEF Progress, FetchesProgress
<1>7. SharedIsCached'
    BY <1>1, <1>2, <1>3, ObjectFacts DEF Progress, SharedIsCached
<1>8. ClientsProgress'
    BY <1>1, <1>2, <1>3, <1>4, ObjectFacts DEF Progress, ClientsProgress, Attached, Sendable
<1>9. Visiting' /\ Swept' /\ ExitProgress'
    BY <1>1 DEF Progress, Visiting, Swept, ExitProgress, Stopped
<1> QED
    BY <1>5, <1>6, <1>7, <1>8, <1>9 DEF Progress

LEMMA ServerProgress ==
    ASSUME Inv, Progress, NEW s \in Clients, ServerEffect(s)
    PROVE  Progress'
<1>1. /\ pc = "executor" /\ pc' = pc
      /\ UNCHANGED <<exiting, accepted, clients, servers, client, freed, cash, cready>>
      /\ s \in servers
      /\ \A x \in Clients : /\ server'[x].response = server[x].response
                            /\ server'[x].events \subseteq server[x].events
                            /\ x # s => server'[x] = server[x]
    BY DEF ServerEffect
<1>2. /\ \A r \in Responses \ {s} : response'[r] = response[r]
      /\ \A r \in Responses : response'[r].type = response[r].type
                              /\ response'[r].code = response[r].code
    BY DEF ServerEffect
<1>3. \/ /\ server[s].response = Null /\ response'[s] = response[s]
         /\ server'[s].status = "STOP_FAILED"
      \/ /\ server[s].response = s /\ response[s].status # "END"
         /\ \/ response'[s].status = "END" /\ "IN" \notin server'[s].events
            \/ /\ response'[s].status = response[s].status
               /\ server'[s].status \in {server[s].status, "STOP_FAILED"}
    BY DEF ServerEffect, Progress, FetchesProgress
<1>4. UnusedIsNew'
    BY <1>1, <1>2, <1>3, ObjectFacts DEF Progress, UnusedIsNew, Responses
<1>5. FetchesProgress'
    BY <1>1, <1>2, <1>3, ObjectFacts DEF Progress, FetchesProgress
<1>6. SharedIsCached'
    BY <1>1, <1>2, ObjectFacts DEF Progress, SharedIsCached
<1>7. ClientsProgress'
    <2>1. \A r \in Responses : response[r].status = "END" => response'[r] = response[r]
        BY <1>2, <1>3
    <2> QED
        BY <1>1, <1>2, <2>1, ObjectFacts DEF Progress, ClientsProgress, Attached, Sendable
<1>8. Visiting' /\ Swept' /\ ExitProgress'
    BY <1>1 DEF Progress, Visiting, Swept, ExitProgress, Stopped
<1> QED
    BY <1>4, <1>5, <1>6, <1>7, <1>8 DEF Progress

\* Whoever shares the response of s joined it through the cache: it has its type already.
LEMMA HeaderProgress ==
    ASSUME Inv, Progress, NEW s \in Clients, HeaderEffect(s)
    PROVE  Progress'
<1>1. /\ pc = "executor" /\ pc' = pc
      /\ UNCHANGED <<exiting, accepted, clients, servers, server, freed, cready>>
      /\ s \in servers /\ s \in clients /\ server[s].response = s
      /\ client'[s].events = client[s].events \cup {"OUT"}
      /\ \A x \in Clients :
            /\ client'[x].request = client[x].request
            /\ client'[x].response = client[x].response
            /\ client'[x].status = client[x].status
            /\ client'[x].current = client[x].current
            /\ x # s => client'[x] = client[x]
    BY DEF HeaderEffect
<1>2. /\ response[s].status # "END" /\ response[s].type # "FAIL"
      /\ response'[s].status # "END"
    BY <1>1 DEF HeaderEffect, Progress, FetchesProgress
<1>3. /\ \A r \in Responses \ {s} : response'[r] = response[r]
      /\ response'[s].type \in {"CASHED", "NO_CASH"}
      /\ response'[s].type = "CASHED" => response'[s].code = "OK"
    BY DEF HeaderEffect
<1>4. response[s].type = "CASHED" => response'[s].type = "CASHED"
    BY DEF HeaderEffect, Progress, FetchesProgress
<1>5. UnusedIsNew'
    BY <1>1, <1>3, ObjectFacts DEF Progress, UnusedIsNew, Responses
<1>6. FetchesProgress'
    BY <1>1, <1>2, <1>3, ObjectFacts DEF Progress, FetchesProgress
<1>7. SharedIsCached'
    BY <1>1, <1>2, <1>3, <1>4, ObjectFacts DEF Progress, SharedIsCached
<1>8. ClientsProgress'
    <2>1. \A x \in Clients : x # s /\ client[x].response = s => response[s].type = "CASHED"
        BY <1>2 DEF Progress, SharedIsCached
    <2> QED
        BY <1>1, <1>2, <1>3, <2>1, ObjectFacts DEF Progress, ClientsProgress, Attached, Sendable
<1>9. Visiting' /\ Swept' /\ ExitProgress'
    BY <1>1 DEF Progress, Visiting, Swept, ExitProgress, Stopped
<1> QED
    BY <1>5, <1>6, <1>7, <1>8, <1>9 DEF Progress

LEMMA ClientProgress ==
    ASSUME Inv, Progress, NEW c \in Clients, ClientEffect(c)
    PROVE  Progress'
<1>1. /\ pc = "executor" /\ pc' = pc /\ cready[c] # {} /\ cready'[c] = {}
      /\ UNCHANGED <<exiting, accepted, clients, servers, server, response, freed, cash>>
      /\ \A x \in Clients \ {c} : client'[x] = client[x] /\ cready'[x] = cready[x]
      /\ client'[c].request = client[c].request /\ client'[c].response = client[c].response
    BY DEF ClientEffect
<1>2. c \in clients /\ client[c].status \in {"ACTIVE", "PAUSE"} /\ c <= accepted
    BY <1>1, ObjectFacts DEF Progress, Visiting
<1>3. \/ client'[c].status = "STOP_FAILED"
      \/ client'[c].status = "PAUSE"
      \/ /\ client[c].response # Null
         /\ client'[c].status = "STOP_SUCCESS"
         /\ client'[c].current = response[client[c].response].len
         /\ response[client[c].response].status = "END"
      \/ client'[c].status = client[c].status /\ client'[c].events = client[c].events
    BY ObjectFacts DEF ClientEffect
<1>4. UnusedIsNew'
    BY <1>1, <1>2, ObjectFacts DEF Progress, UnusedIsNew
<1>5. FetchesProgress' /\ SharedIsCached'
    <2>1. \A x \in Clients : client'[x].response = client[x].response
        BY <1>1
    <2> QED
        BY <1>1, <2>1 DEF Progress, FetchesProgress, SharedIsCached
<1>6. ClientsProgress'
    BY <1>1, <1>2, <1>3, ObjectFacts DEF Progress, ClientsProgress, Attached, Sendable
<1>7. Visiting' /\ Swept' /\ ExitProgress'
    BY <1>1 DEF Progress, Visiting, Swept, ExitProgress, Stopped
<1> QED
    BY <1>4, <1>5, <1>6, <1>7 DEF Progress

LEMMA AnswerProgress ==
    ASSUME Inv, Progress, NEW c \in Clients, NEW q \in Requests,
           NEW r \in Responses \cup {Null}, AnswerEffect(c, q, r)
    PROVE  Progress'
<1>1. /\ pc = "executor" /\ pc' = pc /\ cready[c] # {} /\ cready'[c] = {} /\ c <= accepted
      /\ client[c].request = Null /\ client[c].response = Null
      /\ client'[c].request = q /\ client'[c].response = r
      /\ client'[c].status = client[c].status
      /\ r # Null => "OUT" \in client'[c].events
      /\ \A x \in Clients \ {c} : client'[x] = client[x] /\ cready'[x] = cready[x]
      /\ c \notin servers /\ server[c].response = Null /\ server'[c].response = Null
      /\ \A x \in Clients \ {c} : server'[x] = server[x]
      /\ UNCHANGED <<exiting, accepted, clients, response, freed>>
    BY DEF AnswerEffect
<1>2. \/ r \in Static /\ UNCHANGED <<servers, server>>
      \/ /\ UNCHANGED <<servers, server>> /\ r \in Clients /\ server[r].response = r
         /\ response[r].type \in {"CASHED", "FAIL"} /\ r # c
      \/ /\ r = Null /\ servers' = servers \cup {c}
         /\ server'[c].status = "ACTIVE" /\ server'[c].events = {"OUT"}
    BY <1>1, ObjectFacts DEF AnswerEffect
<1>3. c \in clients /\ client[c].status = "ACTIVE"
    BY <1>1, ObjectFacts DEF Progress, Visiting
<1>4. UnusedIsNew'
    BY <1>1, <1>3, ObjectFacts DEF Progress, UnusedIsNew
<1>5. FetchesProgress'
    BY <1>1, <1>2, ObjectFacts DEF Progress, FetchesProgress
<1>6. SharedIsCached'
    BY <1>1, <1>2, ObjectFacts DEF Progress, SharedIsCached
<1>7. ClientsProgress'
    BY <1>1, <1>2, <1>3, ObjectFacts DEF Progress, ClientsProgress, Attached, Sendable
<1>8. Visiting' /\ Swept' /\ ExitProgress'
    BY <1>1 DEF Progress, Visiting, Swept, ExitProgress, Stopped
<1> QED
    BY <1>4, <1>5, <1>6, <1>7, <1>8 DEF Progress

LEMMA TerminateProgress ==
    ASSUME Inv, Progress, TerminateEffect
    PROVE  Progress'
<1>1. /\ pc' = "sweepClients" /\ exiting' = TRUE /\ \A x \in Clients : cready'[x] = {}
      /\ UNCHANGED <<accepted, clients, servers, response, freed, cash>>
    BY DEF TerminateEffect, Nobody
<1>2. \A x \in Clients :
          /\ client'[x].request = client[x].request
          /\ client'[x].response = client[x].response
          /\ x \in clients => client'[x].status = "STOP_FAILED"
          /\ x \notin clients => client'[x] = client[x]
          /\ server'[x].response = server[x].response
          /\ server'[x].events = server[x].events
          /\ x \in servers => server'[x].status = "STOP_FAILED"
          /\ x \notin servers => server'[x] = server[x]
    BY DEF TerminateEffect
<1>3. UnusedIsNew'
    BY <1>1, <1>2, ObjectFacts DEF Progress, UnusedIsNew, Inv, ClientsLinked
<1>4. FetchesProgress'
    BY <1>1, <1>2 DEF Progress, FetchesProgress
<1>5. SharedIsCached'
    BY <1>1, <1>2 DEF Progress, SharedIsCached
<1>6. ClientsProgress'
    BY <1>1, <1>2, ObjectFacts DEF Progress, ClientsProgress, Attached
<1>7. Visiting' /\ Swept'
    BY <1>1 DEF Visiting, Swept
<1>8. ExitProgress'
    BY <1>1, <1>2, ObjectFacts DEF ExitProgress
<1> QED
    BY <1>3, <1>4, <1>5, <1>6, <1>7, <1>8 DEF Progress

\* The cache lets go of records; no object of the event loop changes.
LEMMA CleaningProgress ==
    ASSUME Inv, Progress, EventCash \/ Destroy
    PROVE  Progress'
<1>1. UNCHANGED <<exiting, accepted, clients, servers, client, server, response, cready>>
    BY DEF EventCash, Destroy, pass
<1>2. \/ pc = "executor" /\ pc' = "executor"
      \/ pc = "destroy" /\ pc' = "exit" /\ cash' = DestroyCash(cash)
    BY DEF EventCash, Destroy, AtCash
<1>3. UnusedIsNew' /\ FetchesProgress' /\ SharedIsCached'
    BY <1>1 DEF Progress, UnusedIsNew, FetchesProgress, SharedIsCached
<1>4. ClientsProgress'
    BY <1>1 DEF Progress, ClientsProgress, Attached, Sendable
<1>5. Visiting' /\ Swept'
    BY <1>1, <1>2 DEF Progress, Visiting, Swept, Stopped
<1>6. ExitProgress'
    BY <1>1, <1>2 DEF Progress, ExitProgress, Stopped, DestroyCash, Held
<1> QED
    BY <1>3, <1>4, <1>5, <1>6 DEF Progress

LEMMA NextPreservesProgress ==
    ASSUME Inv, Progress, [Next]_vars
    PROVE  Progress'
    BY StepActs, QuietProgress, SweepClientsProgress, SweepServersProgress,
       CleaningProgress, TerminateProgress, AddClientProgress, RequestSentProgress,
       ServerProgress, HeaderProgress, ClientProgress, AnswerProgress

\* Every connection and every fetch goes through its stages in order, and the thread
\* and the SIGTERM handler leave each stage with what the next one relies on:
\* builder with no stopped or wakeable client, executor with nobody left to visit.
THEOREM ProgressInvariance == Spec => []Progress
<1>1. Init => Progress
    BY InitProgress
<1>2. Inv /\ Progress /\ [Next]_vars => Progress'
    BY NextPreservesProgress
<1> QED
    BY <1>1, <1>2, Invariance, PTL DEF Spec

(***************************************************************************)
(* What follows from it.                                                   *)
(***************************************************************************)
\* When the thread blocks in poll, no client is left without POLLOUT that has bytes
\* waiting or whose response has ended: pausing and resuming lose no wakeup.
THEOREM NoWakeupIsLost == Spec => []NoLostWakeup
<1>1. ASSUME Inv, Progress
      PROVE  NoLostWakeup
    <2> SUFFICES ASSUME pc = "poll", NEW c \in clients,
                        Attached(c), Sendable(client[c].response),
                        LET r == client[c].response IN
                        response[r].len > client[c].current \/ response[r].status = "END"
                 PROVE  "OUT" \in client[c].events
        BY DEF NoLostWakeup
    <2>1. c \in Clients /\ client[c].status \in {"ACTIVE", "PAUSE"} /\ ~Resumable(c)
        BY <1>1, ObjectFacts DEF Progress, Swept
    <2>2. response[client[c].response].len \in Nat /\ client[c].current \in Int
        BY <1>1, <2>1, ObjectFacts DEF Attached
    <2>3. client[c].status = "ACTIVE"
        BY <2>1, <2>2 DEF Resumable
    <2> QED
        BY <1>1, <2>3 DEF Progress, ClientsProgress
<1> QED
    BY <1>1, Invariance, ProgressInvariance, PTL

\* When the thread blocks in poll, a client that waits for no event of its own is
\* fed by a live server, unless its fetch failed or ended before its headers.
THEOREM OnlyTheOriginStrands == Spec => []StrandedOnlyByOrigin
<1>1. ASSUME Inv, Progress
      PROVE  StrandedOnlyByOrigin
    <2> SUFFICES ASSUME pc = "poll", NEW c \in clients, client[c].events = {}
                 PROVE  LET r == client[c].response IN
                        \/ \E s \in servers : IF Attached(c) THEN server[s].response = r
                                                             ELSE s = c
                        \/ Attached(c) /\ response[r].type = "FAIL"
                        \/ Attached(c) /\ response[r].type = "none"
                                       /\ response[r].status = "END"
        BY DEF StrandedOnlyByOrigin
    <2> DEFINE r == client[c].response
    <2>1. c \in Clients /\ client[c].status \in {"ACTIVE", "PAUSE"} /\ ~Resumable(c)
        BY <1>1, ObjectFacts DEF Progress, Swept
    <2>2. CASE ~Attached(c)
        <3>1. client[c].status = "ACTIVE"
            BY <1>1, <2>1, <2>2, ObjectFacts DEF Attached
        <3>2. c \in servers
            BY <1>1, <2>2, <3>1 DEF Progress, ClientsProgress
        <3> QED
            BY <2>2, <3>2
    <2>3. CASE Attached(c) /\ Sendable(r)
        <3>1. client[c].status = "PAUSE" /\ r \in Responses /\ response[r].status # "END"
            BY <1>1, <2>1, <2>3, ObjectFacts DEF Progress, ClientsProgress, Resumable, Attached
        <3>2. r \in Clients /\ server[r].response = r /\ response[r].type # "FAIL"
            BY <1>1, <2>1, <2>3, <3>1
            DEF Progress, SharedIsCached, UnusedIsNew, Responses, ErrorPage, Sendable
        <3> QED
            BY <1>1, <2>3, <3>1, <3>2 DEF Progress, FetchesProgress
    <2>4. CASE Attached(c) /\ ~Sendable(r)
        <3>1. r \in Responses /\ response[r].type \in {"none", "FAIL"}
            BY <1>1, <2>1, <2>4, ObjectFacts
            DEF Attached, Sendable, Inv, TypeOK, ResponseObject
        <3>2. r \in Clients /\ server[r].response = r
            BY <1>1, <2>1, <3>1 DEF Progress, SharedIsCached, UnusedIsNew, Responses, ErrorPage
        <3> QED
            BY <1>1, <2>4, <3>1, <3>2 DEF Progress, FetchesProgress
    <2> QED
        BY <2>2, <2>3, <2>4
<1> QED
    BY <1>1, Invariance, ProgressInvariance, PTL

\* When the SIGTERM handler gets as far as exit(), every connection has been closed
\* and every record erased, wherever the signal found the thread.
THEOREM ExitIsClean == Spec => []CleanExit
<1>1. Progress => CleanExit
    BY DEF Progress, ExitProgress, CleanExit
<1> QED
    BY <1>1, ProgressInvariance, PTL

(***************************************************************************)
(* The counters of the cache.  A record is counted up once for each client *)
(* that is given its response, and counted down for each that leaves, by   *)
(* the key the client asked for: the two agree because a response is only  *)
(* ever given out under the key it was fetched for.                        *)
(***************************************************************************)
Users(r) == {c \in clients : client[c].response = r}

\* NoOvercount, for the response by its name.
CountsBounded ==
    \A k \in Held(cash), r \in Clients :
        cash[k].response = r /\ response[r].type = "CASHED" =>
            cash[k].active <= Cardinality(Users(r))

LEMMA UsersFinite ==
    ASSUME Inv
    PROVE  \A r : Users(r) \in SUBSET Clients /\ IsFiniteSet(Users(r))
                  /\ Cardinality(Users(r)) \in Nat
<1>1. \A r : Users(r) \in SUBSET Clients
    BY ObjectFacts DEF Users
<1> QED
    BY <1>1, ClientsFinite

LEMMA MoreUsers ==
    ASSUME Inv, Inv', NEW r, Users(r) \subseteq Users(r)'
    PROVE  Cardinality(Users(r)) <= Cardinality(Users(r)')
<1>1. IsFiniteSet(Users(r)')
    BY ClientsFinite DEF Inv, TypeOK, Users
<1> QED
    BY <1>1, FS_Subset

LEMMA CountsAreIntegers ==
    ASSUME Inv, Inv'
    PROVE  /\ \A k \in Held(cash) : cash[k].active \in Int
           /\ \A k \in Held(cash') : cash'[k].active \in Int
           /\ \A r : Cardinality(Users(r)) \in Nat /\ Cardinality(Users(r)') \in Nat
<1>1. /\ \A k \in Held(cash) : cash[k] \in Record(Clients)
      /\ \A k \in Held(cash') : cash'[k] \in Record(Clients)
    BY DEF Inv, TypeOK, Held
<1>2. \A r : Users(r) \in SUBSET Clients /\ Users(r)' \in SUBSET Clients
    BY DEF Users, Inv, TypeOK
<1> QED
    BY <1>1, <1>2, ClientsFinite DEF Record

LEMMA ActiveIsCounted ==
    ASSUME Inv, NEW k \in Held(cash)
    PROVE  cash[k].active \in Int /\ cash[k] \in Record(Clients) /\ k \in DOMAIN cash
    BY HeldRecords DEF Inv, Record, Held

\* What a step does to a counter: a new record counts no more than its users, and one
\* that was there falls no less behind them than it was.
CountsStep ==
    \A k \in Held(cash'), r \in Clients :
        cash'[k].response = r /\ response'[r].type = "CASHED" =>
            IF k \in Held(cash) /\ cash[k].response = r
            THEN /\ response[r].type = "CASHED"
                 /\ Cardinality(Users(r)') - cash'[k].active
                        >= Cardinality(Users(r)) - cash[k].active
            ELSE cash'[k].active <= Cardinality(Users(r)')

\* Nothing is counted up and no user of a cached response is lost.
CountsKeep ==
    /\ \A k \in Held(cash') : /\ k \in Held(cash)
                              /\ cash'[k].response = cash[k].response
                              /\ cash'[k].active <= cash[k].active
                              /\ cash'[k].active \in Int
    /\ \A k \in Held(cash'), r \in Clients :
          cash[k].response = r /\ response'[r].type = "CASHED" =>
              response[r].type = "CASHED" /\ Users(r) \subseteq Users(r)'

LEMMA CountsKept ==
    ASSUME Inv, Inv', CountsKeep
    PROVE  CountsStep
<1> SUFFICES ASSUME NEW k \in Held(cash'), NEW r \in Clients,
                    cash'[k].response = r, response'[r].type = "CASHED"
             PROVE  /\ k \in Held(cash) /\ cash[k].response = r
                    /\ response[r].type = "CASHED"
                    /\ Cardinality(Users(r)') - cash'[k].active
                           >= Cardinality(Users(r)) - cash[k].active
    BY DEF CountsStep
<1>1. /\ k \in Held(cash) /\ cash[k].response = r
      /\ cash'[k].active <= cash[k].active
      /\ response[r].type = "CASHED" /\ Users(r) \subseteq Users(r)'
    BY DEF CountsKeep
<1>2. Cardinality(Users(r)) <= Cardinality(Users(r)')
    BY <1>1, MoreUsers
<1> QED
    BY <1>1, <1>2, CountsAreIntegers

\* What leaves the cache alone.
LEMMA CashUntouched ==
    ASSUME Inv, UNCHANGED cash,
           \A k \in Held(cash), r \in Clients :
              cash[k].response = r /\ response'[r].type = "CASHED" =>
                  response[r].type = "CASHED" /\ Users(r) \subseteq Users(r)'
    PROVE  CountsKeep
    BY ActiveIsCounted DEF CountsKeep, Held

\* A counter goes down by as much as disconnect_to_record is called for its key.
LEMMA DisconnectCounts ==
    ASSUME Inv, NEW leaving \in [Keys -> Nat], cash' = DisconnectToRecord(cash, leaving)
    PROVE  /\ Held(cash') = Held(cash)
           /\ \A k \in Held(cash) :
                 /\ k \in Keys
                 /\ cash'[k].response = cash[k].response
                 /\ cash'[k].active = cash[k].active - leaving[k]
<1>1. Held(cash') = Held(cash)
      /\ \A k \in Held(cash) : cash'[k].response = cash[k].response
    BY DisconnectShrinks DEF Inv
<1>2. ASSUME NEW k \in Held(cash)
      PROVE  k \in Keys /\ cash'[k].active = cash[k].active - leaving[k]
    <2>1. /\ k \in Keys /\ cash[k] \in Record(Clients) /\ cash[k] # NoRecord
          /\ k \in DOMAIN cash
        BY HeldRecords, ActiveIsCounted DEF Held, Inv
    <2>2. cash'[k] = [cash[k] EXCEPT !.active = @ - leaving[k]]
        BY <2>1 DEF DisconnectToRecord
    <2> QED
        BY <2>1, <2>2 DEF Record
<1> QED
    BY <1>1, <1>2

\* A response that enters the cache becomes a record of its key, if there was none.
LEMMA AddedRecords ==
    ASSUME Inv, NEW own \in Keys, NEW s, cash' = AddRecord(cash, own, s)
    PROVE  /\ \A k \in Held(cash) : k \in Held(cash') /\ cash'[k] = cash[k]
           /\ \A k \in Held(cash') :
                 \/ k \in Held(cash) /\ cash'[k] = cash[k]
                 \/ /\ k \notin Held(cash) /\ k = own
                    /\ cash'[k].response = s /\ cash'[k].active = 1
<1> DEFINE fresh == ConnectClient(NewRecord(s))
<1>1. fresh.response = s /\ fresh.active = 1
    BY DEF ConnectClient, NewRecord
<1>2. cash \in [Keys -> Record(Clients) \cup {NoRecord}]
    BY DEF Inv, TypeOK
<1>3. cash' = [cash EXCEPT ![own] = IF cash[own] = NoRecord THEN fresh ELSE cash[own]]
    BY DEF AddRecord, fresh
<1> HIDE DEF fresh
<1> QED
    BY <1>1, <1>2, <1>3 DEF Held

\* A hit counts up the record of its key alone.
LEMMA ConnectedRecords ==
    ASSUME Inv, NEW own \in Held(cash), cash' = ConnectToRecord(cash, own)
    PROVE  /\ \A k \in Held(cash) : k \in Held(cash') /\ cash'[k].response = cash[k].response
           /\ \A k \in Held(cash') :
                 /\ k \in Held(cash)
                 /\ k = own => cash'[k].active = cash[k].active + 1
                 /\ k # own => cash'[k] = cash[k]
<1>1. /\ own \in Keys /\ cash \in [Keys -> Record(Clients) \cup {NoRecord}]
      /\ cash[own] \in Record(Clients) /\ cash[own] # NoRecord
    BY HeldRecords DEF Inv, TypeOK, Held
<1> DEFINE new == ConnectClient(cash[own])
<1>2. new.response = cash[own].response /\ new.active = cash[own].active + 1
    BY <1>1 DEF ConnectClient, Record
<1>3. new \in Record(Clients)
    BY <1>1, ConnectedRecord
<1>4. new # NoRecord
    BY <1>3, RequestAssumption
<1>5. cash' = [cash EXCEPT ![own] = new]
    BY DEF ConnectToRecord
<1> HIDE DEF new
<1> QED
    BY <1>1, <1>2, <1>4, <1>5 DEF Held

LEMMA LeavingIsCounted ==
    ASSUME Inv
    PROVE  LeavingClients \in [Keys -> Nat]
<1>1. \A k \in Keys : {c \in StoppedClients :
          Attached(c) /\ Counted(client[c].response) /\ Key(client[c].request) = k}
              \in SUBSET Clients
    BY ObjectFacts DEF StoppedClients
<1> QED
    BY <1>1, ClientsFinite DEF LeavingClients

LEMMA SweepServersCounts ==
    ASSUME Inv, Progress, SweepServersEffect
    PROVE  CountsKeep
<1>1. PICK released \in [Keys -> Nat] : cash' = DisconnectToRecord(cash, released)
    BY DEF SweepServersEffect
<1>2. \A k \in Held(cash) :
          /\ cash'[k].active <= cash[k].active /\ cash'[k].active \in Int
          /\ released[k] \in Nat
    BY <1>1, DisconnectCounts, ActiveIsCounted
<1>3. \A r \in Responses : response'[r].type = "CASHED" => response[r].type = "CASHED"
    BY DEF SweepServersEffect
<1>4. \A r : Users(r)' = Users(r)
    BY DEF SweepServersEffect, Users
<1>5. \A k \in Held(cash) : cash[k].response \in Responses
    BY ObjectFacts
<1> QED
    BY <1>1, <1>2, <1>3, <1>4, <1>5, DisconnectCounts DEF CountsKeep

LEMMA EventCashCounts ==
    ASSUME Inv, EventCash
    PROVE  CountsKeep
<1>1. \A k \in Held(cash') : k \in Held(cash) /\ cash'[k] = CleanCount(cash[k])
    BY DEF EventCash, CleanUnnecessaryCash, Held
<1>2. \A k \in Held(cash) : /\ CleanCount(cash[k]).response = cash[k].response
                            /\ CleanCount(cash[k]).active = cash[k].active
    BY ActiveIsCounted DEF CleanCount, Record
<1>3. UNCHANGED response /\ \A r : Users(r)' = Users(r)
    BY DEF EventCash, Users
<1> QED
    BY <1>1, <1>2, <1>3, ActiveIsCounted DEF CountsKeep

\* A client that leaves a cached response is counted down under the key of its record.
LEMMA SweepClientsCounts ==
    ASSUME Inv, Inv', SweepClientsEffect
    PROVE  CountsStep
<1>1. LeavingClients \in [Keys -> Nat]
    BY LeavingIsCounted
<1>2. SUFFICES ASSUME NEW k \in Held(cash'), NEW r \in Clients,
                      cash'[k].response = r, response'[r].type = "CASHED"
               PROVE  /\ k \in Held(cash) /\ cash[k].response = r
                      /\ response[r].type = "CASHED"
                      /\ Cardinality(Users(r)') - cash'[k].active
                             >= Cardinality(Users(r)) - cash[k].active
    BY DEF CountsStep
<1> DEFINE left == {c \in StoppedClients :
              Attached(c) /\ Counted(client[c].response) /\ Key(client[c].request) = k}
<1>3. /\ k \in Held(cash) /\ k \in Keys /\ cash[k].response = r
      /\ cash'[k].active = cash[k].active - LeavingClients[k]
      /\ response[r].type = "CASHED"
    BY <1>1, <1>2, DisconnectCounts DEF SweepClientsEffect
<1>4. r # Null /\ Key(client[r].request) = k
    BY <1>3, ObjectFacts DEF Inv, KeysAgree
<1>5. Users(r) \subseteq Users(r)' \cup left
    <2>1. ASSUME NEW c \in clients, client[c].response = r, c \in StoppedClients
          PROVE  c \in left
        <3>1. Key(client[c].request) = k
            BY <1>4, <2>1, ObjectFacts DEF Inv, KeysAgree
        <3> QED
            BY <1>3, <1>4, <2>1, <3>1 DEF Attached, Counted
    <2>2. \A c \in clients : client[c].response = r /\ c \notin StoppedClients => c \in Users(r)'
        BY ObjectFacts DEF SweepClientsEffect, Users
    <2> HIDE DEF left
    <2> QED
        BY <2>1, <2>2 DEF Users
<1>6. /\ Users(r)' \in SUBSET Clients /\ left \in SUBSET Clients
      /\ Users(r)' \cup left \in SUBSET Clients /\ Users(r)' \cap left \in SUBSET Clients
    BY ObjectFacts DEF Users, Inv, TypeOK, StoppedClients
<1>7. LeavingClients[k] = Cardinality(left)
    BY <1>3 DEF LeavingClients
<1> HIDE DEF left
<1>8. /\ IsFiniteSet(Users(r)') /\ IsFiniteSet(left) /\ IsFiniteSet(Users(r)' \cup left)
      /\ Cardinality(Users(r)') \in Nat /\ Cardinality(left) \in Nat
      /\ Cardinality(Users(r)' \cap left) \in Nat /\ Cardinality(Users(r)' \cup left) \in Nat
    BY <1>6, ClientsFinite
<1>9. Cardinality(Users(r)) <= Cardinality(Users(r)' \cup left)
    BY <1>5, <1>8, FS_Subset
<1>10. Cardinality(Users(r)' \cup left)
           = Cardinality(Users(r)') + Cardinality(left) - Cardinality(Users(r)' \cap left)
    BY <1>8, FS_Union
<1>11. cash[k].active \in Int /\ Cardinality(Users(r)) \in Nat
    BY <1>3, ActiveIsCounted, UsersFinite
<1> QED
    BY <1>3, <1>7, <1>8, <1>9, <1>10, <1>11

\* The steps that leave the cache alone take no client from a cached response.
LEMMA OtherCounts ==
    ASSUME Inv, Progress,
           \/ QuietEffect \/ TerminateEffect
           \/ \E x \in Clients : \/ AddClientEffect(x) \/ RequestSentEffect(x)
                                 \/ ServerEffect(x) \/ ClientEffect(x)
    PROVE  CountsKeep
<1>1. CASE QuietEffect
    <2>1. UNCHANGED <<cash, clients, client, response>>
        BY <1>1 DEF QuietEffect, objects
    <2> QED
        BY <2>1, CashUntouched DEF Users
<1>2. CASE TerminateEffect
    <2>1. /\ UNCHANGED <<cash, clients, response>>
          /\ \A x \in Clients : client'[x].response = client[x].response
        BY <1>2 DEF TerminateEffect
    <2> QED
        BY <2>1, CashUntouched, ObjectFacts DEF Users
<1>3. ASSUME NEW x \in Clients, AddClientEffect(x)
      PROVE  CountsKeep
    <2>1. /\ UNCHANGED <<cash, response>> /\ clients \subseteq clients'
          /\ \A y \in clients : client'[y] = client[y]
        BY <1>3, ObjectFacts DEF AddClientEffect
    <2> QED
        BY <2>1, CashUntouched DEF Users
<1>4. ASSUME NEW x \in Clients, RequestSentEffect(x)
      PROVE  CountsKeep
    <2>1. /\ UNCHANGED <<cash, clients>> /\ response[x] = NewResponse
          /\ client[x].response = Null
        BY <1>4 DEF RequestSentEffect, Progress, UnusedIsNew, FetchesProgress
    <2>2. /\ \A r \in Clients : response'[r] = response[r]
          /\ \A y \in Clients : y # x => client'[y] = client[y]
        BY <1>4, <2>1, ObjectFacts DEF RequestSentEffect
    <2> QED
        BY <2>1, <2>2, CashUntouched, ObjectFacts DEF Users
<1>5. ASSUME NEW x \in Clients, ServerEffect(x)
      PROVE  CountsKeep
    <2>1. /\ UNCHANGED <<cash, clients, client>>
          /\ \A r \in Responses \ {x} : response'[r] = response[r]
          /\ response'[x].type = response[x].type
        BY <1>5 DEF ServerEffect
    <2>2. \A r \in Clients : response'[r].type = response[r].type
        BY <2>1 DEF Responses
    <2> QED
        BY <2>1, <2>2, CashUntouched DEF Users
<1>6. ASSUME NEW x \in Clients, ClientEffect(x)
      PROVE  CountsKeep
    <2>1. /\ UNCHANGED <<cash, clients, response>>
          /\ \A y \in Clients : client'[y].response = client[y].response
        BY <1>6 DEF ClientEffect
    <2> QED
        BY <2>1, CashUntouched, ObjectFacts DEF Users
<1> QED
    BY <1>1, <1>2, <1>3, <1>4, <1>5, <1>6

\* A new record is counted once, for the client whose request fetched it.
LEMMA HeaderCounts ==
    ASSUME Inv, Inv', Progress, NEW s \in Clients, HeaderEffect(s)
    PROVE  CountsStep
<1> DEFINE own == Key(client[s].request)
<1>1. /\ s \in servers /\ s \in clients /\ server[s].response = s /\ client[s].response = s
      /\ own \in Keys /\ clients' = clients
      /\ \A x \in Clients : client'[x].response = client[x].response
      /\ \A r \in Responses \ {s} : response'[r] = response[r]
    BY ObjectFacts DEF HeaderEffect, Inv, TypeOK, ClientObject, Keys
<1>2. \A r : Users(r)' = Users(r)
    BY <1>1, ObjectFacts DEF Users
<1>3. \A r \in Clients, k \in Held(cash) :
          cash[k].response = r /\ response'[r].type = "CASHED" => response[r].type = "CASHED"
    BY <1>1, ObjectFacts DEF Progress, FetchesProgress
<1>4. CASE cash' = cash
    <2>1. CountsKeep
        BY <1>2, <1>3, <1>4, CashUntouched
    <2> QED
        BY <2>1, CountsKept
<1>5. CASE cash' = AddRecord(cash, own, s)
    <2>2. \A k \in Held(cash') : \/ k \in Held(cash) /\ cash'[k] = cash[k]
                                 \/ /\ k \notin Held(cash)
                                    /\ cash'[k].response = s /\ cash'[k].active = 1
        BY <1>1, <1>5, AddedRecords
    <2>3. Cardinality(Users(s)) >= 1
        <3>1. {s} \in SUBSET Users(s)
            BY <1>1 DEF Users
        <3>2. Cardinality({s}) = 1
            BY FS_Singleton
        <3>3. IsFiniteSet(Users(s)) /\ Cardinality(Users(s)) \in Nat
            BY UsersFinite
        <3>4. Cardinality({s}) <= Cardinality(Users(s))
            BY <3>1, <3>3, FS_Subset
        <3> QED
            BY <3>2, <3>3, <3>4
    <2>4. ASSUME NEW k \in Held(cash'), NEW r \in Clients, cash'[k].response = r,
                 response'[r].type = "CASHED"
          PROVE  IF k \in Held(cash) /\ cash[k].response = r
                 THEN response[r].type = "CASHED" /\ cash'[k].active <= cash[k].active
                 ELSE cash'[k].active <= Cardinality(Users(r))
        <3>1. CASE k \in Held(cash) /\ cash'[k] = cash[k]
            BY <1>3, <2>4, <3>1, ActiveIsCounted
        <3>2. CASE k \notin Held(cash) /\ cash'[k].response = s /\ cash'[k].active = 1
            BY <2>3, <2>4, <3>2
        <3> QED
            BY <2>2, <3>1, <3>2
    <2> QED
        BY <1>2, <2>4, CountsAreIntegers DEF CountsStep
<1> QED
    BY <1>4, <1>5 DEF HeaderEffect

\* connect_to_record is called once for a client that had no response.
LEMMA AnswerCounts ==
    ASSUME Inv, Inv', Progress, NEW c \in Clients, NEW q \in Requests,
           NEW r \in Responses \cup {Null}, AnswerEffect(c, q, r)
    PROVE  CountsStep
<1>1. /\ client[c].response = Null /\ client'[c].response = r
      /\ \A x \in Clients \ {c} : client'[x] = client[x]
      /\ UNCHANGED <<clients, response>> /\ c \in clients
    BY ObjectFacts DEF AnswerEffect, Progress, Visiting
<1>2. \A p \in Clients : Users(p) \subseteq Users(p)'
    BY <1>1, ObjectFacts DEF Users
<1>3. CASE cash' = cash
    <2>1. CountsKeep
        BY <1>1, <1>2, <1>3, CashUntouched
    <2> QED
        BY <2>1, CountsKept
<1>4. CASE /\ Key(q) \in Held(cash) /\ r = cash[Key(q)].response
           /\ cash' = ConnectToRecord(cash, Key(q))
    <2> DEFINE own == Key(q)
    <2>1. r \in Clients
        BY <1>4, ObjectFacts
    <2>4. /\ cash'[own].response = r /\ cash'[own].active = cash[own].active + 1
          /\ \A k \in Held(cash') : k # own => k \in Held(cash) /\ cash'[k] = cash[k]
        BY <1>4, ConnectedRecords
    <2>5. Cardinality(Users(r)') = Cardinality(Users(r)) + 1
        <3>1. Users(r)' = Users(r) \cup {c} /\ c \notin Users(r)
            BY <1>1, <2>1, ObjectFacts DEF Users
        <3> QED
            BY <3>1, UsersFinite, FS_AddElement
    <2>6. ASSUME NEW k \in Held(cash'), NEW p \in Clients, cash'[k].response = p,
                 response'[p].type = "CASHED"
          PROVE  /\ k \in Held(cash) /\ cash[k].response = p
                 /\ response[p].type = "CASHED"
                 /\ Cardinality(Users(p)') - cash'[k].active
                        >= Cardinality(Users(p)) - cash[k].active
        <3>1. CASE k = own
            <4>1. p = r /\ k \in Held(cash) /\ cash[k].response = p
                  /\ response[p].type = "CASHED"
                BY <1>1, <1>4, <2>4, <2>6, <3>1 DEF own
            <4> QED
                BY <2>4, <2>5, <3>1, <4>1, CountsAreIntegers
        <3>2. CASE k # own
            <4>1. /\ k \in Held(cash) /\ cash'[k] = cash[k]
                  /\ response[p].type = "CASHED"
                BY <1>1, <2>4, <2>6, <3>2
            <4>2. Cardinality(Users(p)) <= Cardinality(Users(p)')
                BY <1>2, MoreUsers
            <4> QED
                BY <2>6, <4>1, <4>2, CountsAreIntegers
        <3> QED
            BY <3>1, <3>2
    <2> QED
        BY <2>6 DEF CountsStep
<1> QED
    BY <1>3, <1>4 DEF AnswerEffect

LEMMA NextCounts ==
    ASSUME Inv, Inv', Progress, [Next]_vars
    PROVE  CountsStep
<1>1. CASE Destroy
    BY <1>1 DEF Destroy, DestroyCash, Held, CountsStep
<1>2. CASE CountsKeep
    BY <1>2, CountsKept
<1> QED
    BY <1>1, <1>2, StepActs, OtherCounts, SweepClientsCounts, SweepServersCounts,
       EventCashCounts, HeaderCounts, AnswerCounts

LEMMA CountsStayBounded ==
    ASSUME Inv, Inv', CountsBounded, CountsStep
    PROVE  CountsBounded'
<1> SUFFICES ASSUME NEW k \in Held(cash'), NEW r \in Clients,
                    cash'[k].response = r, response'[r].type = "CASHED"
             PROVE  cash'[k].active <= Cardinality(Users(r)')
    BY DEF CountsBounded
<1>1. CASE k \in Held(cash) /\ cash[k].response = r
    <2>1. /\ cash[k].active <= Cardinality(Users(r))
          /\ Cardinality(Users(r)') - cash'[k].active >= Cardinality(Users(r)) - cash[k].active
        BY <1>1 DEF CountsBounded, CountsStep
    <2> QED
        BY <1>1, <2>1, CountsAreIntegers
<1>2. CASE ~(k \in Held(cash) /\ cash[k].response = r)
    BY <1>2 DEF CountsStep
<1> QED
    BY <1>1, <1>2

\* As long as its fetch did not fail, the counter of a record is never above the
\* number of clients that use its response: every way a client stops using one is
\* counted down.
THEOREM NoRecordIsOvercounted == Spec => []NoOvercount
<1>1. Init => CountsBounded
    BY DEF Init, CountsBounded, Held
<1>2. Inv /\ Inv' /\ Progress /\ CountsBounded /\ [Next]_vars => CountsBounded'
    BY NextCounts, CountsStayBounded
<1>3. ASSUME Inv, CountsBounded
      PROVE  NoOvercount
    <2>1. ASSUME NEW k \in Held(cash), response[cash[k].response].type = "CASHED"
          PROVE  Uncounted(k) >= 0
        <3>1. cash[k].active <= Cardinality(Users(cash[k].response))
            BY <1>3, <2>1, ObjectFacts DEF CountsBounded
        <3>2. /\ cash[k].active \in Int
              /\ Cardinality(Users(cash[k].response)) \in Nat
            BY <1>3, ActiveIsCounted, UsersFinite
        <3> QED
            BY <3>1, <3>2 DEF Uncounted, Users
    <2> QED
        BY <2>1 DEF NoOvercount
<1> QED
    BY <1>1, <1>2, <1>3, Invariance, ProgressInvariance, PTL DEF Spec

\* What a counter lacks of its users is never made up for.
THEOREM RecordsStayBehind == Spec => CountsNeverRecover
<1>1. ASSUME Inv, Inv', Progress, [Next]_vars,
             NEW k \in Held(cash), k \in Held(cash'),
             cash'[k].response = cash[k].response,
             response'[cash[k].response].type = "CASHED"
      PROVE  Uncounted(k)' >= Uncounted(k)
    <2> DEFINE r == cash[k].response
    <2>1. r \in Clients /\ CountsStep
        BY <1>1, ObjectFacts, NextCounts
    <2>2. Cardinality(Users(r)') - cash'[k].active >= Cardinality(Users(r)) - cash[k].active
        BY <1>1, <2>1 DEF CountsStep
    <2>3. Users(r)' = {c \in clients : client[c].response = cash[k].response}'
        BY <1>1 DEF Users
    <2> QED
        BY <2>2, <2>3 DEF Uncounted, Users
<1>2. Inv /\ Inv' /\ Progress /\ [Next]_vars =>
          [\A k \in Held(cash) :
              /\ k \in Held(cash') /\ cash'[k].response = cash[k].response
              /\ response'[cash[k].response].type = "CASHED"
              => Uncounted(k)' >= Uncounted(k)]_vars
    BY <1>1
<1> QED
    BY <1>2, Invariance, ProgressInvariance, PTL DEF Spec, CountsNeverRecover

-----------------------------------------------------------------------------
(***************************************************************************)
(* How far a counter may fall behind.  Two things make it: a server that   *)
(* is swept takes one connection off some record, and a client that leaves *)
(* takes one off the record of its key, even if it was given another       *)
(* response.  Neither happens twice, and what has left stays gone.         *)
(***************************************************************************)
Explained(k) == Cardinality(SweptServers) + Cardinality(OtherLeavers(k))

\* UndercountIsExplained, for the response by its name.
DeficitBounded ==
    \A k \in Held(cash), r \in Clients :
        cash[k].response = r /\ response[r].type = "CASHED" =>
            Cardinality(Users(r)) - cash[k].active <= Explained(k)

\* A response that is shared is in the cache, or was deleted when it left it.
SharedIsHeld ==
    \A c \in clients :
        LET r == client[c].response IN
        r \in Clients /\ r # c => r \in freed \/ \E k \in Held(cash) : cash[k].response = r

\* A record is only lost with its response.
LEMMA RecordsStay ==
    ASSUME Inv, [Next]_vars
    PROVE  /\ freed \subseteq freed'
           /\ \A k \in Held(cash) :
                 \/ k \in Held(cash') /\ cash'[k].response = cash[k].response
                 \/ cash[k].response \in freed'
<1>1. CASE \/ QuietEffect \/ TerminateEffect
           \/ \E x \in Clients : \/ AddClientEffect(x) \/ RequestSentEffect(x)
                                 \/ ServerEffect(x) \/ ClientEffect(x)
    BY <1>1 DEF QuietEffect, objects, TerminateEffect, AddClientEffect, RequestSentEffect,
                ServerEffect, ClientEffect
<1>2. CASE SweepClientsEffect
    BY <1>2, LeavingIsCounted, DisconnectCounts DEF SweepClientsEffect
<1>3. CASE SweepServersEffect
    <2>1. PICK released \in [Keys -> Nat] : cash' = DisconnectToRecord(cash, released)
        BY <1>3 DEF SweepServersEffect
    <2> QED
        BY <1>3, <2>1, DisconnectCounts DEF SweepServersEffect
<1>4. CASE EventCash
    <2>1. \A k \in Held(cash) : k \in Keys /\ cash[k] \in Record(Clients)
        BY HeldRecords DEF Inv
    <2>2. ASSUME NEW k \in Held(cash) \ Evicted(cash, status)
          PROVE  k \in Held(cash') /\ cash'[k].response = cash[k].response
        <3>1. cash'[k] = CleanCount(cash[k]) /\ k \in DOMAIN cash'
            BY <1>4, <2>2 DEF EventCash, CleanUnnecessaryCash, Held
        <3>2. CleanCount(cash[k]) \in Record(Clients)
              /\ CleanCount(cash[k]).response = cash[k].response
            BY <2>1 DEF CleanCount, Record
        <3> QED
            BY <3>1, <3>2, RequestAssumption DEF Held
    <2> QED
        BY <1>4, <2>2 DEF EventCash
<1>5. CASE Destroy
    BY <1>5 DEF Destroy
<1>6. ASSUME NEW s \in Clients, HeaderEffect(s)
      PROVE  /\ freed \subseteq freed'
             /\ \A k \in Held(cash) :
                   k \in Held(cash') /\ cash'[k].response = cash[k].response
    <2>1. Key(client[s].request) \in Keys
        BY <1>6, ObjectFacts DEF HeaderEffect, Inv, TypeOK, ClientObject, Keys
    <2> QED
        BY <1>6, <2>1, AddedRecords DEF HeaderEffect
<1>7. ASSUME NEW c \in Clients, NEW q \in Requests, NEW r \in Responses \cup {Null},
             AnswerEffect(c, q, r)
      PROVE  /\ freed \subseteq freed'
             /\ \A k \in Held(cash) :
                   k \in Held(cash') /\ cash'[k].response = cash[k].response
    BY <1>7, ConnectedRecords DEF AnswerEffect
<1> QED
    BY <1>1, <1>2, <1>3, <1>4, <1>5, <1>6, <1>7, StepActs

\* A client comes to share a response only when it is given the one of a record.
LEMMA SharedFromTheCache ==
    ASSUME Inv, Progress, [Next]_vars, NEW c \in clients',
           client'[c].response \in Clients, client'[c].response # c
    PROVE  \/ c \in clients /\ client[c].response = client'[c].response
           \/ \E k \in Held(cash) : cash[k].response = client'[c].response
<1> DEFINE r == client'[c].response
<1>1. CASE \/ QuietEffect \/ TerminateEffect \/ SweepClientsEffect \/ SweepServersEffect
           \/ EventCash \/ Destroy
           \/ \E x \in Clients : ServerEffect(x) \/ ClientEffect(x) \/ HeaderEffect(x)
    <2>1. /\ clients' \subseteq clients
          /\ \A x \in Clients : client'[x].response = client[x].response
        BY <1>1
        DEF QuietEffect, objects, TerminateEffect, SweepClientsEffect, SweepServersEffect,
            EventCash, Destroy, ServerEffect, ClientEffect, HeaderEffect
    <2> QED
        BY <2>1, ObjectFacts
<1>2. CASE \E x \in Clients : AddClientEffect(x)
    BY <1>2, ObjectFacts DEF AddClientEffect, NewClient
<1>3. CASE \E x \in Clients : RequestSentEffect(x)
    BY <1>3, ObjectFacts DEF RequestSentEffect
<1>4. ASSUME NEW x \in Clients, NEW q \in Requests, NEW p \in Responses \cup {Null},
             AnswerEffect(x, q, p)
      PROVE  \/ c \in clients /\ client[c].response = r
             \/ \E k \in Held(cash) : cash[k].response = r
    BY <1>4, ObjectFacts DEF AnswerEffect
<1> QED
    BY <1>1, <1>2, <1>3, <1>4, StepActs

LEMMA SharedStaysHeld ==
    ASSUME Inv, Progress, SharedIsHeld, [Next]_vars
    PROVE  SharedIsHeld'
<1> SUFFICES ASSUME NEW c \in clients', client'[c].response \in Clients,
                    client'[c].response # c
             PROVE  \/ client'[c].response \in freed'
                    \/ \E k \in Held(cash') : cash'[k].response = client'[c].response
    BY DEF SharedIsHeld
<1>1. \/ client'[c].response \in freed
      \/ \E k \in Held(cash) : cash[k].response = client'[c].response
    BY SharedFromTheCache DEF SharedIsHeld
<1> QED
    BY <1>1, RecordsStay

\* A server that was swept stays so, and each sweep adds those it removes.
LEMMA SweptStay ==
    ASSUME Inv, Inv', Progress, [Next]_vars
    PROVE  SweptServers \subseteq SweptServers'
<1>1. CASE \/ QuietEffect \/ TerminateEffect \/ SweepClientsEffect \/ SweepServersEffect
           \/ EventCash \/ Destroy
    BY <1>1
    DEF QuietEffect, objects, TerminateEffect, SweepClientsEffect, SweepServersEffect,
        EventCash, Destroy, SweptServers
<1>2. CASE \E x \in Clients : \/ AddClientEffect(x) \/ ServerEffect(x) \/ ClientEffect(x)
                              \/ HeaderEffect(x) \/ RequestSentEffect(x)
    BY <1>2
    DEF AddClientEffect, ServerEffect, ClientEffect, HeaderEffect, RequestSentEffect,
        SweptServers
<1>3. ASSUME NEW x \in Clients, NEW q \in Requests, NEW p \in Responses \cup {Null},
             AnswerEffect(x, q, p)
      PROVE  SweptServers \subseteq SweptServers'
    BY <1>3 DEF AnswerEffect, SweptServers
<1> QED
    BY <1>1, <1>2, <1>3, StepActs

\* A client that is gone is not touched any more.
LEMMA GoneStay ==
    ASSUME Inv, Inv', Progress, [Next]_vars, NEW c \in (1..accepted) \ clients
    PROVE  /\ c \in (1..accepted') \ clients'
           /\ client'[c].response = client[c].response
           /\ client'[c].request = client[c].request
<1>1. /\ c \in Clients /\ c <= accepted /\ accepted \in Nat
      /\ accepted' \in Nat /\ clients \subseteq Clients
    BY BoundsAssumption DEF Inv, TypeOK, Clients
<1>2. CASE \/ QuietEffect \/ TerminateEffect \/ SweepClientsEffect \/ SweepServersEffect
           \/ EventCash \/ Destroy
           \/ \E x \in Clients : ServerEffect(x) \/ ClientEffect(x) \/ HeaderEffect(x)
    BY <1>1, <1>2
    DEF QuietEffect, objects, TerminateEffect, SweepClientsEffect, SweepServersEffect,
        EventCash, Destroy, ServerEffect, ClientEffect, HeaderEffect
<1>3. CASE \E x \in Clients : AddClientEffect(x)
    BY <1>1, <1>3 DEF AddClientEffect
<1>4. CASE \E x \in Clients : RequestSentEffect(x)
    BY <1>1, <1>4 DEF RequestSentEffect
<1>5. ASSUME NEW x \in Clients, NEW q \in Requests, NEW p \in Responses \cup {Null},
             AnswerEffect(x, q, p)
      PROVE  /\ c \in (1..accepted') \ clients'
             /\ client'[c].response = client[c].response
             /\ client'[c].request = client[c].request
    <2>1. x \in clients
        BY <1>5 DEF AnswerEffect, Progress, Visiting
    <2> QED
        BY <1>1, <1>5, <2>1 DEF AnswerEffect
<1> QED
    BY <1>2, <1>3, <1>4, <1>5, StepActs

LEMMA LeaversStay ==
    ASSUME Inv, Inv', Progress, [Next]_vars, NEW k \in Held(cash), k \in Held(cash'),
           cash'[k].response = cash[k].response
    PROVE  OtherLeavers(k) \subseteq OtherLeavers(k)'
BY GoneStay DEF OtherLeavers, Attached

LEMMA ExplanationsFinite ==
    ASSUME Inv, NEW k
    PROVE  /\ SweptServers \in SUBSET Clients /\ OtherLeavers(k) \in SUBSET Clients
           /\ IsFiniteSet(SweptServers) /\ IsFiniteSet(OtherLeavers(k))
           /\ Cardinality(SweptServers) \in Nat /\ Cardinality(OtherLeavers(k)) \in Nat
<1>1. SweptServers \in SUBSET Clients /\ OtherLeavers(k) \in SUBSET Clients
    BY BoundsAssumption DEF SweptServers, OtherLeavers, Inv, TypeOK, Clients
<1> QED
    BY <1>1, ClientsFinite

\* What a step does to what a counter lacks: a new record lacks nothing, and one that was
\* there lacks no more than the step explains.
DeficitStep ==
    \A k \in Held(cash'), r \in Clients :
        cash'[k].response = r /\ response'[r].type = "CASHED" =>
            IF k \in Held(cash) /\ cash[k].response = r
            THEN Cardinality(Users(r)') - cash'[k].active + Explained(k)
                     <= Cardinality(Users(r)) - cash[k].active + Explained(k)'
            ELSE Cardinality(Users(r)') <= cash'[k].active

\* No counter changes, nor do those who use the response.
DeficitKeep ==
    \A k \in Held(cash'), r \in Clients :
        cash'[k].response = r =>
            /\ k \in Held(cash) /\ cash[k].response = r
            /\ cash'[k].active - cash[k].active = Cardinality(Users(r)') - Cardinality(Users(r))

LEMMA ExplanationsGrow ==
    ASSUME Inv, Inv', Progress, [Next]_vars, NEW k \in Held(cash), k \in Held(cash'),
           cash'[k].response = cash[k].response
    PROVE  /\ Cardinality(SweptServers) <= Cardinality(SweptServers')
           /\ Cardinality(OtherLeavers(k)) <= Cardinality(OtherLeavers(k)')
           /\ Cardinality(SweptServers) \in Nat /\ Cardinality(SweptServers') \in Nat
           /\ Cardinality(OtherLeavers(k)) \in Nat /\ Cardinality(OtherLeavers(k)') \in Nat
<1>1. /\ IsFiniteSet(SweptServers') /\ IsFiniteSet(OtherLeavers(k)')
      /\ Cardinality(SweptServers') \in Nat /\ Cardinality(OtherLeavers(k)') \in Nat
    <2>1. SweptServers' \in SUBSET Clients /\ OtherLeavers(k)' \in SUBSET Clients
        BY BoundsAssumption DEF SweptServers, OtherLeavers, Inv, TypeOK, Clients
    <2> QED
        BY <2>1, ClientsFinite
<1>2. SweptServers \subseteq SweptServers' /\ OtherLeavers(k) \subseteq OtherLeavers(k)'
    BY SweptStay, LeaversStay
<1> QED
    BY <1>1, <1>2, ExplanationsFinite, FS_Subset

LEMMA DeficitKept ==
    ASSUME Inv, Inv', Progress, [Next]_vars, DeficitKeep
    PROVE  DeficitStep
<1> SUFFICES ASSUME NEW k \in Held(cash'), NEW r \in Clients, cash'[k].response = r
             PROVE  /\ k \in Held(cash) /\ cash[k].response = r
                    /\ Cardinality(Users(r)') - cash'[k].active + Explained(k)
                           <= Cardinality(Users(r)) - cash[k].active + Explained(k)'
    BY DEF DeficitStep
<1>1. /\ k \in Held(cash) /\ cash[k].response = r
      /\ cash'[k].active - cash[k].active = Cardinality(Users(r)') - Cardinality(Users(r))
    BY DEF DeficitKeep
<1>2. /\ Explained(k) \in Nat /\ Explained(k)' \in Nat /\ Explained(k) <= Explained(k)'
    BY <1>1, ExplanationsGrow DEF Explained
<1> QED
    BY <1>1, <1>2, CountsAreIntegers

\* The steps that leave the cache alone leave the users of its records alone.
LEMMA OtherDeficits ==
    ASSUME Inv, Inv', Progress,
           \/ QuietEffect \/ TerminateEffect
           \/ \E x \in Clients : \/ AddClientEffect(x) \/ RequestSentEffect(x)
                                 \/ ServerEffect(x) \/ ClientEffect(x)
    PROVE  DeficitKeep
<1>1. cash' = cash
    BY DEF QuietEffect, objects, TerminateEffect, AddClientEffect, RequestSentEffect,
           ServerEffect, ClientEffect
<1>2. ASSUME NEW k \in Held(cash), NEW r \in Clients, cash[k].response = r
      PROVE  Users(r)' = Users(r)
    <2>1. CASE \/ QuietEffect \/ TerminateEffect
               \/ \E x \in Clients : ServerEffect(x) \/ ClientEffect(x)
        <3>1. /\ clients' = clients
              /\ \A x \in Clients : client'[x].response = client[x].response
            BY <2>1 DEF QuietEffect, objects, TerminateEffect, ServerEffect, ClientEffect
        <3> QED
            BY <3>1, ObjectFacts DEF Users
    <2>2. ASSUME NEW x \in Clients, AddClientEffect(x)
          PROVE  Users(r)' = Users(r)
        <3>1. /\ clients' = clients \cup {x} /\ x \notin clients
              /\ client'[x].response = Null
              /\ \A y \in clients : client'[y] = client[y]
            BY <2>2, ObjectFacts DEF AddClientEffect, NewClient
        <3> QED
            BY <3>1, ObjectFacts DEF Users
    <2>3. ASSUME NEW x \in Clients, RequestSentEffect(x)
          PROVE  Users(r)' = Users(r)
        <3>1. /\ clients' = clients /\ client'[x].response = x
              /\ client[x].response = Null
              /\ \A y \in Clients \ {x} : client'[y] = client[y]
            BY <2>3 DEF RequestSentEffect, Progress, FetchesProgress
        <3>2. r # x
            BY <1>2, <2>3, ObjectFacts DEF RequestSentEffect, Inv, RecordsSound
        <3> QED
            BY <3>1, <3>2, ObjectFacts DEF Users
    <2> QED
        BY <2>1, <2>2, <2>3
<1> QED
    BY <1>1, <1>2, CountsAreIntegers DEF DeficitKeep

LEMMA EventCashDeficits ==
    ASSUME Inv, EventCash
    PROVE  DeficitKeep
<1>1. \A k \in Held(cash') : k \in Held(cash) /\ cash'[k] = CleanCount(cash[k])
    BY DEF EventCash, CleanUnnecessaryCash, Held
<1>2. \A k \in Held(cash) : /\ CleanCount(cash[k]).response = cash[k].response
                            /\ CleanCount(cash[k]).active = cash[k].active
    BY ActiveIsCounted DEF CleanCount, Record
<1>3. \A r : Users(r)' = Users(r)
    BY DEF EventCash, Users
<1> QED
    BY <1>1, <1>2, <1>3, ActiveIsCounted, UsersFinite DEF DeficitKeep

\* Each server that is swept takes one connection off one record at most.
LEMMA SweepServersDeficits ==
    ASSUME Inv, Inv', Progress, [Next]_vars, SweepServersEffect
    PROVE  DeficitStep
<1>1. PICK released \in [Keys -> Nat] :
          /\ cash' = DisconnectToRecord(cash, released)
          /\ \A k \in Keys : released[k] <= Cardinality(StoppedServers)
    BY DEF SweepServersEffect
<1> SUFFICES ASSUME NEW k \in Held(cash'), NEW r \in Clients, cash'[k].response = r
             PROVE  /\ k \in Held(cash) /\ cash[k].response = r
                    /\ Cardinality(Users(r)') - cash'[k].active + Explained(k)
                           <= Cardinality(Users(r)) - cash[k].active + Explained(k)'
    BY DEF DeficitStep
<1>2. /\ k \in Held(cash) /\ cash[k].response = r /\ k \in Keys
      /\ cash'[k].active = cash[k].active - released[k]
      /\ released[k] \in Nat /\ released[k] <= Cardinality(StoppedServers)
    BY <1>1, DisconnectCounts
<1>3. Users(r)' = Users(r)
    BY DEF SweepServersEffect, Users
<1>4. SweptServers' = SweptServers \cup StoppedServers
      /\ SweptServers \cap StoppedServers = {}
      /\ StoppedServers \in SUBSET Clients
    BY ObjectFacts DEF SweepServersEffect, SweptServers, StoppedServers
<1>5. Cardinality(SweptServers') = Cardinality(SweptServers) + Cardinality(StoppedServers)
      /\ Cardinality(StoppedServers) \in Nat
    <2>1. /\ IsFiniteSet(SweptServers) /\ Cardinality(SweptServers) \in Nat
          /\ IsFiniteSet(StoppedServers) /\ Cardinality(StoppedServers) \in Nat
        BY <1>4, ClientsFinite, ExplanationsFinite
    <2>2. Cardinality(SweptServers \cup StoppedServers)
              = Cardinality(SweptServers) + Cardinality(StoppedServers)
                - Cardinality(SweptServers \cap StoppedServers)
        BY <2>1, FS_Union
    <2>3. Cardinality(SweptServers \cap StoppedServers) = 0
        BY <1>4, FS_EmptySet
    <2> QED
        BY <1>4, <2>1, <2>2, <2>3
<1>6. /\ Cardinality(OtherLeavers(k)) <= Cardinality(OtherLeavers(k)')
      /\ Cardinality(SweptServers) \in Nat
      /\ Cardinality(OtherLeavers(k)) \in Nat /\ Cardinality(OtherLeavers(k)') \in Nat
    BY <1>2, ExplanationsGrow
<1>7. /\ cash[k].active \in Int /\ cash'[k].active \in Int
      /\ Cardinality(Users(r)) \in Nat /\ Cardinality(Users(r)') \in Nat
    BY <1>2, CountsAreIntegers
<1>8. /\ Explained(k)' = Cardinality(SweptServers') + Cardinality(OtherLeavers(k)')
      /\ Explained(k) = Cardinality(SweptServers) + Cardinality(OtherLeavers(k))
    BY DEF Explained
<1> QED
    BY <1>2, <1>3, <1>5, <1>6, <1>7, <1>8

\* A client that leaves takes one connection off the record of its key: its own, or, if it
\* used another response, one more that is explained.
LEMMA SweepClientsDeficits ==
    ASSUME Inv, Inv', Progress, [Next]_vars, SweepClientsEffect
    PROVE  DeficitStep
<1>1. SUFFICES ASSUME NEW k \in Held(cash'), NEW r \in Clients,
                      cash'[k].response = r, response'[r].type = "CASHED"
               PROVE  /\ k \in Held(cash) /\ cash[k].response = r
                      /\ Cardinality(Users(r)') - cash'[k].active + Explained(k)
                             <= Cardinality(Users(r)) - cash[k].active + Explained(k)'
    BY DEF DeficitStep
<1> DEFINE left == {c \in StoppedClients :
              Attached(c) /\ Counted(client[c].response) /\ Key(client[c].request) = k}
           others == left \ Users(r)
<1>2. /\ k \in Held(cash) /\ k \in Keys /\ cash[k].response = r
      /\ cash'[k].active = cash[k].active - LeavingClients[k]
      /\ response[r].type = "CASHED"
    BY <1>1, LeavingIsCounted, DisconnectCounts DEF SweepClientsEffect
<1>3. r # Null /\ Key(client[r].request) = k
    BY <1>2, ObjectFacts DEF Inv, KeysAgree
<1>4. Users(r)' = Users(r) \ left
    <2>1. ASSUME NEW c \in clients, client[c].response = r, c \in StoppedClients
          PROVE  c \in left
        <3>1. Key(client[c].request) = k
            BY <1>3, <2>1, ObjectFacts DEF Inv, KeysAgree
        <3> QED
            BY <1>2, <1>3, <2>1, <3>1 DEF Attached, Counted
    <2>2. /\ clients' = clients \ StoppedClients
          /\ \A c \in clients : client'[c].response = client[c].response
        BY ObjectFacts DEF SweepClientsEffect
    <2>3. left \subseteq StoppedClients
        OBVIOUS
    <2> HIDE DEF left
    <2> QED
        BY <2>1, <2>2, <2>3 DEF Users
<1>5. LeavingClients[k] = Cardinality(left)
    BY <1>2 DEF LeavingClients
<1>6. left \in SUBSET Clients /\ left \subseteq StoppedClients
    BY ObjectFacts DEF StoppedClients
<1>7. others \subseteq OtherLeavers(k)' /\ others \cap OtherLeavers(k) = {}
    <2>1. \A c \in StoppedClients : /\ c \in clients /\ c \in 1..accepted /\ c \in 1..accepted'
                                   /\ c \notin clients'
        BY ObjectFacts, BoundsAssumption
        DEF SweepClientsEffect, StoppedClients, Inv, ClientsLinked, Clients, TypeOK
    <2>2. \A c \in Clients : /\ client'[c].response = client[c].response
                            /\ client'[c].request = client[c].request
        BY DEF SweepClientsEffect
    <2>3. ASSUME NEW c \in others
          PROVE  c \in OtherLeavers(k)' /\ c \notin OtherLeavers(k)
        <3>1. /\ c \in StoppedClients /\ c \in Clients /\ Attached(c)
              /\ Key(client[c].request) = k /\ c \notin Users(r)
            BY <1>6, <2>3
        <3>2. client[c].response # r
            BY <2>1, <3>1 DEF Users
        <3> QED
            BY <1>1, <2>1, <2>2, <3>1, <3>2 DEF OtherLeavers, Attached
    <2> QED
        BY <2>3
<1> HIDE DEF left
<1>8. /\ IsFiniteSet(left) /\ IsFiniteSet(Users(r)) /\ others \in SUBSET Clients
      /\ Cardinality(left) \in Nat /\ Cardinality(Users(r)) \in Nat
      /\ (left \cap Users(r)) \in SUBSET Clients
    BY <1>6, ClientsFinite, UsersFinite
<1>9. /\ Cardinality(Users(r)') = Cardinality(Users(r)) - Cardinality(Users(r) \cap left)
      /\ Cardinality(others) = Cardinality(left) - Cardinality(left \cap Users(r))
      /\ left \cap Users(r) = Users(r) \cap left
      /\ Cardinality(left \cap Users(r)) \in Nat /\ Cardinality(others) \in Nat
      /\ IsFiniteSet(others)
    BY <1>4, <1>8, FS_Difference, ClientsFinite
<1>10. Cardinality(OtherLeavers(k)) + Cardinality(others) <= Cardinality(OtherLeavers(k)')
    <2>1. OtherLeavers(k)' \in SUBSET Clients
        BY BoundsAssumption DEF OtherLeavers, Inv, TypeOK, Clients
    <2>2. IsFiniteSet(OtherLeavers(k)') /\ Cardinality(OtherLeavers(k)') \in Nat
        BY <2>1, ClientsFinite
    <2>3. (OtherLeavers(k) \cup others) \subseteq OtherLeavers(k)'
        BY <1>1, <1>2, <1>7, LeaversStay
    <2> HIDE DEF others
    <2>4. Cardinality(OtherLeavers(k) \cup others)
              = Cardinality(OtherLeavers(k)) + Cardinality(others)
                - Cardinality(OtherLeavers(k) \cap others)
        BY <1>9, ExplanationsFinite, FS_Union
    <2>5. Cardinality(OtherLeavers(k) \cap others) = 0
        BY <1>7, FS_EmptySet
    <2>6. Cardinality(OtherLeavers(k) \cup others) <= Cardinality(OtherLeavers(k)')
        BY <2>2, <2>3, FS_Subset
    <2> QED
        BY <1>9, <2>2, <2>4, <2>5, <2>6, ExplanationsFinite
<1>11. /\ Cardinality(SweptServers) <= Cardinality(SweptServers')
       /\ Cardinality(SweptServers) \in Nat /\ Cardinality(SweptServers') \in Nat
       /\ Cardinality(OtherLeavers(k)) \in Nat /\ Cardinality(OtherLeavers(k)') \in Nat
    BY <1>1, <1>2, ExplanationsGrow
<1>12. /\ cash[k].active \in Int /\ cash'[k].active \in Int
       /\ Cardinality(Users(r)) \in Nat /\ Cardinality(Users(r)') \in Nat
    BY <1>1, <1>2, CountsAreIntegers
<1>13. /\ Explained(k)' = Cardinality(SweptServers') + Cardinality(OtherLeavers(k)')
       /\ Explained(k) = Cardinality(SweptServers) + Cardinality(OtherLeavers(k))
    BY DEF Explained
<1> HIDE DEF others
<1>14. Cardinality(Users(r)') - cash'[k].active
           = Cardinality(Users(r)) - cash[k].active + Cardinality(others)
    <2>1. cash'[k].active = cash[k].active - Cardinality(left)
        BY <1>2, <1>5
    <2>2. Cardinality(Users(r) \cap left) = Cardinality(left \cap Users(r))
        BY <1>9
    <2>3. /\ Cardinality(Users(r)') = Cardinality(Users(r)) - Cardinality(left \cap Users(r))
          /\ Cardinality(others) = Cardinality(left) - Cardinality(left \cap Users(r))
        BY <1>9, <2>2
    <2>4. /\ Cardinality(left) \in Nat /\ Cardinality(left \cap Users(r)) \in Nat
          /\ Cardinality(others) \in Nat
        BY <1>8, <1>9
    <2> QED
        BY <1>12, <2>1, <2>3, <2>4
<1>15. Explained(k) + Cardinality(others) <= Explained(k)'
    BY <1>9, <1>10, <1>11, <1>13
<1>16. Explained(k) \in Nat /\ Explained(k)' \in Nat
    BY <1>11, <1>13
<1> QED
    BY <1>2, <1>9, <1>12, <1>14, <1>15, <1>16

\* A new record has one user, the client whose request fetched it: had another used the
\* response before, there would be a record of this key.
LEMMA HeaderDeficits ==
    ASSUME Inv, Inv', Progress, SharedIsHeld, [Next]_vars, NEW s \in Clients, HeaderEffect(s)
    PROVE  DeficitStep
<1> DEFINE own == Key(client[s].request)
<1>1. /\ s \in clients /\ client[s].response = s /\ s \notin freed
      /\ own \in Keys /\ clients' = clients
      /\ \A x \in Clients : client'[x].response = client[x].response
    BY ObjectFacts DEF HeaderEffect, Inv, TypeOK, ClientObject, Keys
<1>2. \A r : Users(r)' = Users(r)
    BY <1>1, ObjectFacts DEF Users
<1>3. CASE cash' = cash
    <2>1. DeficitKeep
        BY <1>2, <1>3, CountsAreIntegers DEF DeficitKeep
    <2> QED
        BY <2>1, DeficitKept
<1>4. CASE cash' = AddRecord(cash, own, s)
    <2> SUFFICES ASSUME NEW k \in Held(cash'), NEW r \in Clients, cash'[k].response = r
                 PROVE  IF k \in Held(cash) /\ cash[k].response = r
                        THEN Cardinality(Users(r)') - cash'[k].active + Explained(k)
                                 <= Cardinality(Users(r)) - cash[k].active + Explained(k)'
                        ELSE Cardinality(Users(r)') <= cash'[k].active
        BY DEF DeficitStep
    <2>1. CASE k \in Held(cash) /\ cash'[k] = cash[k]
        <3>1. /\ Explained(k) \in Nat /\ Explained(k)' \in Nat
              /\ Explained(k) <= Explained(k)'
            BY <2>1, ExplanationsGrow DEF Explained
        <3> QED
            BY <1>2, <2>1, <3>1, CountsAreIntegers
    <2>2. CASE /\ k \notin Held(cash) /\ k = own
               /\ cash'[k].response = s /\ cash'[k].active = 1
        <3>1. ASSUME NEW c \in clients, client[c].response = s, c # s
              PROVE  FALSE
            <4>1. PICK l \in Held(cash) : cash[l].response = s
                BY <1>1, <3>1 DEF SharedIsHeld
            <4>2. Key(client[s].request) = l
                BY <4>1 DEF Inv, KeysAgree
            <4> QED
                BY <2>2, <4>1, <4>2
        <3>2. Users(s) = {s}
            BY <1>1, <3>1 DEF Users
        <3>3. Cardinality(Users(s)) = 1
            BY <3>2, FS_Singleton
        <3> QED
            BY <1>2, <2>2, <3>3
    <2> HIDE DEF own
    <2> QED
        BY <1>1, <1>4, <2>1, <2>2, AddedRecords
<1> QED
    BY <1>3, <1>4 DEF HeaderEffect

\* connect_to_record counts the client that comes to use the response.
LEMMA AnswerDeficits ==
    ASSUME Inv, Inv', Progress, NEW c \in Clients, NEW q \in Requests,
           NEW p \in Responses \cup {Null}, AnswerEffect(c, q, p)
    PROVE  DeficitKeep
<1>1. /\ client[c].response = Null /\ client'[c].response = p
      /\ \A x \in Clients \ {c} : client'[x] = client[x]
      /\ clients' = clients /\ c \in clients
    BY DEF AnswerEffect, Progress, Visiting
<1>2. ASSUME NEW r \in Clients, r # p
      PROVE  Users(r)' = Users(r)
    BY <1>1, <1>2, ObjectFacts DEF Users
<1>3. CASE cash' = cash /\ p \notin Clients
    BY <1>2, <1>3, CountsAreIntegers DEF DeficitKeep
<1>4. CASE /\ Key(q) \in Held(cash) /\ p = cash[Key(q)].response
           /\ cash' = ConnectToRecord(cash, Key(q))
    <2> DEFINE own == Key(q)
    <2> SUFFICES ASSUME NEW k \in Held(cash'), NEW r \in Clients, cash'[k].response = r
                 PROVE  /\ k \in Held(cash) /\ cash[k].response = r
                        /\ cash'[k].active - cash[k].active
                              = Cardinality(Users(r)') - Cardinality(Users(r))
        BY DEF DeficitKeep
    <2>1. /\ k \in Held(cash) /\ cash[k].response = r
          /\ k = own => cash'[k].active = cash[k].active + 1
          /\ k # own => cash'[k] = cash[k]
        BY <1>4, ConnectedRecords
    <2>2. CASE k = own
        <3>1. r = p
            BY <1>4, <2>1, <2>2
        <3>2. Users(r)' = Users(r) \cup {c} /\ c \notin Users(r)
            BY <1>1, <3>1, ObjectFacts DEF Users
        <3>3. Cardinality(Users(r)') = Cardinality(Users(r)) + 1
            BY <3>2, UsersFinite, FS_AddElement
        <3> QED
            BY <2>1, <2>2, <3>3, CountsAreIntegers
    <2>3. CASE k # own
        <3>1. r # p
            BY <1>4, <2>1, <2>3 DEF Inv, KeysAgree
        <3> QED
            BY <1>2, <2>1, <2>3, <3>1, CountsAreIntegers
    <2> QED
        BY <2>2, <2>3
<1>5. p \in Static \cup {Null} => p \notin Clients
    BY ObjectFacts
<1> QED
    BY <1>3, <1>4, <1>5 DEF AnswerEffect

LEMMA NextDeficits ==
    ASSUME Inv, Inv', Progress, SharedIsHeld, [Next]_vars
    PROVE  DeficitStep
<1>1. CASE Destroy
    BY <1>1 DEF Destroy, DestroyCash, Held, DeficitStep
<1>2. CASE DeficitKeep
    BY <1>2, DeficitKept
<1> QED
    BY <1>1, <1>2, StepActs, OtherDeficits, SweepClientsDeficits, SweepServersDeficits,
       EventCashDeficits, HeaderDeficits, AnswerDeficits

LEMMA DeficitsStayBounded ==
    ASSUME Inv, Inv', Progress, [Next]_vars, DeficitBounded, DeficitStep, CountsStep
    PROVE  DeficitBounded'
<1> SUFFICES ASSUME NEW k \in Held(cash'), NEW r \in Clients,
                    cash'[k].response = r, response'[r].type = "CASHED"
             PROVE  Cardinality(Users(r)') - cash'[k].active <= Explained(k)'
    BY DEF DeficitBounded
<1>1. /\ Cardinality(Users(r)) \in Nat /\ Cardinality(Users(r)') \in Nat
      /\ cash'[k].active \in Int
    BY CountsAreIntegers
<1>2. CASE k \in Held(cash) /\ cash[k].response = r
    <2>1. response[r].type = "CASHED"
        BY <1>2 DEF CountsStep
    <2>2. Cardinality(Users(r)) - cash[k].active <= Explained(k)
        BY <1>2, <2>1 DEF DeficitBounded
    <2>3. Cardinality(Users(r)') - cash'[k].active + Explained(k)
              <= Cardinality(Users(r)) - cash[k].active + Explained(k)'
        BY <1>2 DEF DeficitStep
    <2>4. Explained(k) \in Nat /\ Explained(k)' \in Nat /\ cash[k].active \in Int
        BY <1>2, ExplanationsGrow, CountsAreIntegers DEF Explained
    <2> QED
        BY <1>1, <2>2, <2>3, <2>4
<1>3. CASE ~(k \in Held(cash) /\ cash[k].response = r)
    <2>1. Cardinality(Users(r)') <= cash'[k].active
        BY <1>3 DEF DeficitStep
    <2>2. Explained(k)' \in Nat
        <3>1. SweptServers' \in SUBSET Clients /\ OtherLeavers(k)' \in SUBSET Clients
            BY BoundsAssumption DEF SweptServers, OtherLeavers, Inv, TypeOK, Clients
        <3> QED
            BY <3>1, ClientsFinite DEF Explained
    <2> QED
        BY <1>1, <2>1, <2>2
<1> QED
    BY <1>2, <1>3

\* Whatever keys are read, a counter falls behind those who use the response by no more
\* than the servers that were swept and the clients that left with something else.
THEOREM UndercountsAreExplained == Spec => []UndercountIsExplained
<1>1. Init => DeficitBounded /\ SharedIsHeld
    BY DEF Init, DeficitBounded, SharedIsHeld, Held
<1>2. Inv /\ Inv' /\ Progress /\ DeficitBounded /\ SharedIsHeld /\ [Next]_vars
          => DeficitBounded' /\ SharedIsHeld'
    BY NextDeficits, NextCounts, DeficitsStayBounded, SharedStaysHeld
<1>3. ASSUME Inv, DeficitBounded
      PROVE  UndercountIsExplained
    <2>1. ASSUME NEW k \in Held(cash), response[cash[k].response].type = "CASHED"
          PROVE  Uncounted(k) <= Cardinality(SweptServers) + Cardinality(OtherLeavers(k))
        <3>1. Cardinality(Users(cash[k].response)) - cash[k].active <= Explained(k)
            BY <1>3, <2>1, ObjectFacts DEF DeficitBounded
        <3> QED
            BY <3>1 DEF Uncounted, Users, Explained
    <2> QED
        BY <2>1 DEF UndercountIsExplained
<1> QED
    BY <1>1, <1>2, <1>3, Invariance, ProgressInvariance, PTL DEF Spec
=============================================================================
