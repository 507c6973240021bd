--------------------- MODULE PollSchedulerServiceProofs ---------------------
(***************************************************************************)
(* Every step of PollScheduler is one of ProxyService or a stutter, under  *)
(* the mapping of PollSchedulerService.  The mapping reads four variables  *)
(* of PollScheduler, so a step is told by its effect on these.             *)
(***************************************************************************)
EXTENDS PollSchedulerService, PollSchedulerProgressProofs

LEMMA InitIsService ==
    ASSUME Init
    PROVE  Service!Init
<1>1. \A c \in Clients : Phase(c) = "absent"
    BY BoundsAssumption DEF Init, Phase, Clients
<1>2. phase = [c \in Clients |-> "absent"]
    BY <1>1 DEF phase
<1>3. /\ wanted = [c \in Clients |-> Null] /\ page = [c \in Clients |-> Null]
      /\ got = [c \in Clients |-> 0]
    BY DEF Init, NewClient, wanted, page, got, GivenUp
<1>4. made = [r \in Responses |-> IF r \in Static THEN 1 ELSE 0] /\ whole = Static
    BY DEF Init, ErrorPage, NewResponse, made, whole, Responses
<1> QED
    BY <1>2, <1>3, <1>4 DEF Service!Init

\* Nothing of what the mapping reads changes.
LEMMA SameService ==
    ASSUME UNCHANGED <<phase, wanted, page, got, made, whole>>
    PROVE  UNCHANGED Service!vars
    BY DEF Service!vars, Service!askers, Service!pages

\* What the mapping makes of one client.
LEMMA PhaseOf ==
    ASSUME Inv, NEW c \in Clients
    PROVE  /\ c \in clients /\ client[c].status # "STOP_FAILED" => phase[c] = "open"
           /\ c \in clients /\ client[c].status = "STOP_FAILED" => phase[c] = "failed"
           /\ got[c] = IF client[c].status = "STOP_FAILED" THEN 0 ELSE client[c].current
           /\ wanted[c] = client[c].request /\ page[c] = client[c].response
<1>1. c \in clients => c <= accepted
    BY DEF Inv, ClientsLinked
<1>2. c \in clients => ~(c > accepted)
    BY <1>1, BoundsAssumption DEF Inv, TypeOK, Clients
<1> QED
    BY <1>2 DEF phase, got, wanted, page, Phase, GivenUp

\* A step that leaves the connections as they are: who is accepted, live and given up.
LEMMA SamePhases ==
    ASSUME UNCHANGED <<accepted, clients>>,
           \A c \in Clients : client'[c].status = "STOP_FAILED" <=> client[c].status = "STOP_FAILED"
    PROVE  UNCHANGED phase
    BY DEF phase, Phase, GivenUp

\* A step that keeps every response as long as it is.
LEMMA SamePages ==
    ASSUME \A r \in Responses : /\ response'[r].len = response[r].len
                                /\ response'[r].status = "END" <=> response[r].status = "END"
    PROVE  UNCHANGED <<made, whole>>
    BY DEF made, whole

LEMMA StutterSteps ==
    ASSUME Inv, QuietEffect \/ SweepServersEffect \/ EventCash \/ Destroy
    PROVE  UNCHANGED Service!vars
<1>1. UNCHANGED <<accepted, clients, client>>
    BY DEF QuietEffect, SweepServersEffect, EventCash, Destroy, objects
<1>2. \A r \in Responses : response'[r].len = response[r].len
                           /\ response'[r].status = response[r].status
    BY DEF QuietEffect, SweepServersEffect, EventCash, Destroy, objects
<1>3. UNCHANGED <<wanted, page, got>>
    BY <1>1 DEF wanted, page, got, GivenUp
<1> QED
    BY <1>1, <1>2, <1>3, SamePhases, SamePages, SameService

LEMMA AddClientConnects ==
    ASSUME Inv, Progress, NEW c \in Clients, AddClientEffect(c)
    PROVE  Service!Connect(c)
<1>1. /\ c = accepted + 1 /\ accepted' = c /\ accepted \in Nat /\ c \notin clients
      /\ clients' = clients \cup {c} /\ client[c] = NewClient /\ client'[c] = NewClient
      /\ \A x \in Clients : client'[x] = client[x]
      /\ UNCHANGED response
    <2>1. accepted \in Nat
        BY BoundsAssumption DEF Inv, TypeOK
    <2>2. c > accepted
        BY <2>1 DEF AddClientEffect
    <2>3. client[c] = NewClient
        BY <2>2 DEF Progress, UnusedIsNew
    <2> QED
        BY <2>1, <2>3 DEF AddClientEffect
<1>2. phase[c] = "absent" /\ phase' = [phase EXCEPT ![c] = "open"]
    <2>1. phase[c] = "absent"
        BY <1>1 DEF phase, Phase
    <2>2. phase'[c] = "open"
        BY <1>1 DEF phase, Phase, GivenUp, NewClient
    <2>3. ASSUME NEW x \in Clients \ {c}
          PROVE  phase'[x] = phase[x]
        <3>1. x \in Int /\ (x > accepted' <=> x > accepted)
            BY <1>1 DEF Clients
        <3> QED
            BY <1>1, <3>1 DEF phase, Phase, GivenUp
    <2>4. phase' = [x \in Clients |-> phase'[x]] /\ phase = [x \in Clients |-> phase[x]]
        BY DEF phase
    <2> QED
        BY <2>1, <2>2, <2>3, <2>4
<1>3. UNCHANGED <<wanted, page, got>>
    BY <1>1 DEF wanted, page, got, GivenUp
<1>4. UNCHANGED <<made, whole>>
    BY <1>1, SamePages
<1> QED
    BY <1>2, <1>3, <1>4
    DEF Service!Connect, Service!pages

\* The mapped variables are functions over the clients or the responses.
LEMMA Mapped ==
    /\ phase = [c \in Clients |-> phase[c]] /\ phase' = [c \in Clients |-> phase'[c]]
    /\ wanted = [c \in Clients |-> wanted[c]] /\ wanted' = [c \in Clients |-> wanted'[c]]
    /\ page = [c \in Clients |-> page[c]] /\ page' = [c \in Clients |-> page'[c]]
    /\ got = [c \in Clients |-> got[c]] /\ got' = [c \in Clients |-> got'[c]]
    /\ made = [r \in Responses |-> made[r]] /\ made' = [r \in Responses |-> made'[r]]
    BY DEF phase, wanted, page, got, made

LEMMA RequestSentOpens ==
    ASSUME Inv, Progress, NEW s \in Clients, RequestSentEffect(s)
    PROVE  Service!Open(s)
<1>1. /\ client[s].request # Null /\ client[s].response = Null /\ response[s] = NewResponse
      /\ client'[s].response = s
      /\ \A x \in Clients \ {s} : client'[x] = client[x]
      /\ \A x \in Clients : /\ client'[x].request = client[x].request
                            /\ client'[x].status = client[x].status
                            /\ client'[x].current = client[x].current
      /\ UNCHANGED <<accepted, clients>>
    BY ObjectFacts DEF RequestSentEffect, Progress, UnusedIsNew, FetchesProgress
<1>2. \A r \in Responses : response'[r] = response[r]
    BY <1>1 DEF RequestSentEffect
<1>3. wanted[s] # Null /\ page[s] = Null /\ made[s] = 0
    BY <1>1 DEF wanted, page, made, NewResponse, Responses
<1>4. page' = [page EXCEPT ![s] = s]
    <2>1. page'[s] = s /\ \A x \in Clients \ {s} : page'[x] = page[x]
        BY <1>1 DEF page
    <2> QED
        BY <2>1, Mapped
<1>5. UNCHANGED <<phase, wanted, got>>
    BY <1>1, SamePhases DEF wanted, got, GivenUp
<1>6. UNCHANGED <<made, whole>>
    BY <1>2, SamePages
<1> QED
    BY <1>3, <1>4, <1>5, <1>6
    DEF Service!Open, Service!pages

\* Response s may get longer or be over; nothing else changes.
LEMMA ReadGrows ==
    ASSUME Inv, Progress, NEW s \in Clients, ServerEffect(s) \/ HeaderEffect(s)
    PROVE  Service!Grow(s) \/ Service!Complete(s) \/ UNCHANGED Service!vars
<1>1. /\ UNCHANGED <<accepted, clients>>
      /\ \A x \in Clients : /\ client'[x].request = client[x].request
                            /\ client'[x].response = client[x].response
                            /\ client'[x].status = client[x].status
                            /\ client'[x].current = client[x].current
      /\ \A r \in Responses \ {s} : response'[r] = response[r]
    BY DEF ServerEffect, HeaderEffect
<1>2. UNCHANGED <<phase, wanted, page, got>>
    BY <1>1, SamePhases DEF wanted, page, got, GivenUp
<1>3. s \in Responses
    BY DEF Responses
<1>4. \/ /\ response'[s].len = response[s].len
         /\ response'[s].status = "END" \/ response'[s].status = response[s].status
      \/ /\ response[s].status # "END" /\ response'[s].status # "END"
         /\ response'[s].len > response[s].len
    <2>1. "IN" \in server[s].events => response[s].status # "END"
        BY DEF Progress, FetchesProgress
    <2> QED
        BY <2>1 DEF ServerEffect, HeaderEffect
<1>5. CASE /\ response[s].status # "END" /\ response'[s].status # "END"
           /\ response'[s].len > response[s].len
    <2>1. s \notin whole /\ made'[s] > made[s] /\ UNCHANGED whole
        BY <1>1, <1>3, <1>5 DEF whole, made
    <2>2. made' = [made EXCEPT ![s] = made'[s]]
        <3>1. \A r \in Responses \ {s} : made'[r] = made[r]
            BY <1>1 DEF made
        <3> QED
            BY <3>1, Mapped
    <2>3. Service!Grow(s)
        BY <1>2, <2>1, <2>2
        DEF Service!Grow, Service!askers
    <2> QED
        BY <2>3
<1>6. CASE response'[s].len = response[s].len /\ response'[s].status = "END"
    <2>1. UNCHANGED made
        BY <1>1, <1>6 DEF made
    <2>2. whole' = whole \cup {s}
        BY <1>1, <1>3, <1>6 DEF whole
    <2>3. Service!Complete(s)
        BY <1>2, <2>1, <2>2
        DEF Service!Complete, Service!askers
    <2> QED
        BY <2>3
<1>7. CASE response'[s].len = response[s].len /\ response'[s].status = response[s].status
    BY <1>1, <1>2, <1>7, SamePages, SameService
<1> QED
    BY <1>4, <1>5, <1>6, <1>7

\* The client whose handler runs is connected and not given up.
LEMMA VisitedIsOpen ==
    ASSUME Inv, Progress, NEW c \in Clients, cready[c] # {}
    PROVE  /\ c \in clients /\ client[c].status # "STOP_FAILED" /\ phase[c] = "open"
           /\ got[c] = client[c].current
    BY PhaseOf DEF Progress, Visiting

\* The connections of C are given up in one step.
LEMMA GivingUpFails ==
    ASSUME Inv, MaxAlarms > 0 \/ Env \cap {"clientLeaves", "terminate"} # {},
           NEW C \in SUBSET clients, \A c \in C : client[c].status # "STOP_FAILED",
           UNCHANGED <<accepted, clients, response>>,
           \A x \in Clients :
              /\ client'[x].request = client[x].request
              /\ client'[x].response = client[x].response
              /\ x \in C => client'[x].status = "STOP_FAILED"
              /\ x \notin C => /\ client'[x].status = client[x].status
                               /\ client'[x].current = client[x].current
    PROVE  Service!Fail(C)
<1>1. \A x \in C : x \in Clients /\ x <= accepted /\ ~(x > accepted)
    <2>1. clients \subseteq Clients /\ \A x \in clients : x <= accepted
        BY ObjectFacts
    <2>2. accepted \in Int /\ \A x \in Clients : x \in Int
        BY ObjectFacts
    <2>3. \A x \in C : x \in Clients /\ x <= accepted
        BY <2>1
    <2> QED
        BY <2>2, <2>3
<1>2. \A x \in C : phase[x] = "open"
    BY <1>1, PhaseOf
<1>3. phase' = [x \in Clients |-> IF x \in C THEN "failed" ELSE phase[x]]
    <2>1. \A x \in Clients : phase'[x] = IF x \in C THEN "failed" ELSE phase[x]
        BY <1>1 DEF phase, Phase, GivenUp
    <2> QED
        BY <2>1, Mapped
<1>4. got' = [x \in Clients |-> IF x \in C THEN 0 ELSE got[x]]
    <2>1. \A x \in Clients : got'[x] = IF x \in C THEN 0 ELSE got[x]
        BY DEF got, GivenUp
    <2> QED
        BY <2>1, Mapped
<1>5. UNCHANGED <<wanted, page, made, whole>>
    BY DEF wanted, page, made, whole
<1> QED
    BY <1>2, <1>3, <1>4, <1>5
    DEF Service!Fail, Service!pages

\* A client is sent bytes, all that are left or none, or is given up.
LEMMA WritingDelivers ==
    ASSUME Inv, Progress, Inv', NEW c \in Clients, ClientEffect(c)
    PROVE  Service!Deliver(c) \/ Service!Fail({c}) \/ UNCHANGED Service!vars
<1> DEFINE r == client[c].response
<1>1. /\ cready[c] # {} /\ client'[c].request = client[c].request /\ client'[c].response = r
      /\ \A x \in Clients \ {c} : client'[x] = client[x]
      /\ UNCHANGED <<accepted, clients, response>>
    BY DEF ClientEffect
<1>2. /\ c \in clients /\ client[c].status # "STOP_FAILED" /\ phase[c] = "open"
      /\ got[c] = client[c].current /\ client[c].current \in Int
      /\ client'[c].current \in Int
    <2>1. client'[c] \in ClientObject
        BY DEF Inv, TypeOK
    <2> QED
        BY <1>1, <2>1, VisitedIsOpen, ObjectFacts DEF ClientObject
<1>3. CASE client'[c].status = "STOP_FAILED"
    <2>1. MaxAlarms > 0 \/ Env \cap {"clientLeaves", "terminate"} # {}
        BY <1>3, BoundsAssumption DEF ClientEffect, Progress, Visiting, Inv, TypeOK
    <2> DEFINE C == {c}
    <2>2. C \in SUBSET clients /\ \A x \in C : client[x].status # "STOP_FAILED"
        BY <1>2
    <2>3. \A x \in Clients :
              /\ client'[x].request = client[x].request
              /\ client'[x].response = client[x].response
              /\ x \in C => client'[x].status = "STOP_FAILED"
              /\ x \notin C => /\ client'[x].status = client[x].status
                               /\ client'[x].current = client[x].current
        BY <1>1, <1>3
    <2> HIDE DEF C
    <2>4. Service!Fail(C)
        BY <1>1, <2>1, <2>2, <2>3, GivingUpFails
    <2> QED
        BY <2>4 DEF C
<1>4. CASE client'[c].status # "STOP_FAILED"
    <2>1. /\ r \in Responses /\ r # Null /\ response[r].len \in Int
          /\ client'[c].current >= client[c].current /\ client'[c].current <= response[r].len
          /\ client'[c].current \in Int
        <3>1. "OUT" \in client[c].events
            BY <1>4 DEF ClientEffect
        <3>2. r \in Responses /\ r # Null /\ response[r].len \in Int
            BY <3>1, ObjectFacts
        <3> QED
            BY <1>2, <1>4, <3>2 DEF ClientEffect
    <2>2. UNCHANGED <<phase, wanted, page>>
        <3>1. \A x \in Clients :
                  client'[x].status = "STOP_FAILED" <=> client[x].status = "STOP_FAILED"
            BY <1>1, <1>2, <1>4
        <3> QED
            BY <1>1, <3>1, SamePhases DEF wanted, page
    <2>3. UNCHANGED <<made, whole>>
        BY <1>1 DEF made, whole
    <2>4. got'[c] = client'[c].current /\ \A x \in Clients \ {c} : got'[x] = got[x]
        BY <1>1, <1>4 DEF got, GivenUp
    <2>5. CASE client'[c].current = client[c].current
        <3>1. UNCHANGED got
            BY <1>2, <2>4, <2>5, Mapped
        <3> QED
            BY <2>2, <2>3, <3>1, SameService
    <2>6. CASE client'[c].current # client[c].current
        <3> DEFINE n == client'[c].current - client[c].current
        <3>1. /\ n \in 1 .. (response[r].len - client[c].current)
              /\ client'[c].current = client[c].current + n
            BY <1>2, <2>1, <2>6
        <3> HIDE DEF n
        <3>2. got' = [got EXCEPT ![c] = @ + n]
            <4>1. got'[c] = got[c] + n
                BY <1>2, <2>4, <3>1
            <4> QED
                BY <2>4, <4>1, Mapped
        <3>3. page[c] = r /\ made[page[c]] = response[r].len
            BY <2>1 DEF page, made
        <3>4. \E m \in 1 .. (made[page[c]] - got[c]) : got' = [got EXCEPT ![c] = @ + m]
            BY <1>2, <3>1, <3>2, <3>3
        <3>5. Service!Deliver(c)
            BY <1>2, <2>1, <2>2, <2>3, <3>3, <3>4
            DEF Service!Deliver, Service!pages
        <3> QED
            BY <3>5
    <2> QED
        BY <2>5, <2>6
<1> QED
    BY <1>3, <1>4

\* The page a client is given when its request is complete was asked for by whoever
\* fetches it, under the same key: if keys tell pages apart, for the same page.
LEMMA AnswerAsks ==
    ASSUME KeysDistinguish, Inv, Progress, NEW c \in Clients, NEW q \in Requests,
           NEW r \in Responses \cup {Null}, AnswerEffect(c, q, r)
    PROVE  Service!Ask(c, q)
<1>1. /\ cready[c] # {} /\ client[c].request = Null /\ client[c].response = Null
      /\ client'[c].request = q /\ client'[c].response = r
      /\ client'[c].status = client[c].status /\ client'[c].current = client[c].current
      /\ \A x \in Clients \ {c} : client'[x] = client[x]
      /\ UNCHANGED <<accepted, clients, response>>
    BY DEF AnswerEffect
<1>2. phase[c] = "open" /\ wanted[c] = Null
    BY <1>1, VisitedIsOpen DEF wanted
<1>3. wanted' = [wanted EXCEPT ![c] = q] /\ page' = [page EXCEPT ![c] = r]
    <2>1. /\ wanted'[c] = q /\ \A x \in Clients \ {c} : wanted'[x] = wanted[x]
          /\ page'[c] = r /\ \A x \in Clients \ {c} : page'[x] = page[x]
        BY <1>1 DEF wanted, page
    <2> QED
        BY <2>1, Mapped
<1>4. UNCHANGED <<phase, got>>
    <2>1. \A x \in Clients : /\ client'[x].status = client[x].status
                             /\ client'[x].current = client[x].current
        BY <1>1
    <2> QED
        BY <1>1, <2>1, SamePhases DEF got, GivenUp
<1>5. UNCHANGED <<made, whole>>
    BY <1>1 DEF made, whole
<1>6. \/ r \in Static \cup {Null}
      \/ r \in Clients /\ client[r].request # Null /\ Address(client[r].request) = Address(q)
    <2>1. CASE r \notin Static /\ r # Null
        <3>1. Key(q) \in Held(cash) /\ r = cash[Key(q)].response
            BY <2>1 DEF AnswerEffect
        <3>2. /\ r \in Clients /\ client[r].request # Null
              /\ Key(client[r].request) = Key(q)
            BY <3>1, ObjectFacts DEF Inv, KeysAgree
        <3>3. client[r].request \in Requests
            BY <3>2, ClientRecords DEF ClientObject
        <3>4. Address(client[r].request) = Address(q)
            BY <3>2, <3>3 DEF KeysDistinguish, Address
        <3> QED
            BY <3>2, <3>4
    <2> QED
        BY <2>1
<1>7. r \in Service!Answers(q) \cup {Null}
    BY <1>6 DEF Service!Answers, wanted
<1>8. \E p \in Service!Answers(q) \cup {Null} : page' = [page EXCEPT ![c] = p]
    BY <1>3, <1>7
<1> QED
    BY <1>2, <1>3, <1>4, <1>5, <1>8
    DEF Service!Ask, Service!pages

\* builder() closes the clients that stopped: given up, or sent all of a whole page.
LEMMA SweepCloses ==
    ASSUME Inv, Progress, SweepClientsEffect
    PROVE  Service!Close(StoppedClients)
<1>1. /\ clients' = clients \ StoppedClients /\ StoppedClients \subseteq clients
      /\ clients \subseteq Clients
      /\ UNCHANGED <<accepted, response>>
      /\ \A x \in Clients : /\ client'[x].request = client[x].request
                            /\ client'[x].response = client[x].response
                            /\ client'[x].current = client[x].current
    BY ObjectFacts DEF SweepClientsEffect, StoppedClients
<1>2. \A x \in Clients :
          client'[x].status = "STOP_FAILED" <=> client[x].status = "STOP_FAILED"
    BY DEF SweepClientsEffect, Resumable
<1>3. UNCHANGED <<wanted, page, got, made, whole>>
    BY <1>1, <1>2 DEF wanted, page, got, made, whole, GivenUp
<1>4. \A c \in StoppedClients :
          phase[c] = "failed" \/ (phase[c] = "open" /\ Service!Served(c))
    <2> SUFFICES ASSUME NEW c \in StoppedClients, client[c].status # "STOP_FAILED"
                 PROVE  phase[c] = "open" /\ Service!Served(c)
        BY <1>1, PhaseOf
    <2>1. c \in clients /\ c \in Clients /\ client[c].status = "STOP_SUCCESS"
        BY <1>1 DEF StoppedClients
    <2>2. /\ client[c].response \in Responses
          /\ response[client[c].response].status = "END"
          /\ client[c].current = response[client[c].response].len
        BY <2>1, ObjectFacts DEF Progress, ClientsProgress, Attached
    <2>3. phase[c] = "open" /\ got[c] = client[c].current /\ page[c] = client[c].response
        BY <2>1, PhaseOf
    <2>4. page[c] \in whole /\ got[c] = made[page[c]]
        BY <2>2, <2>3 DEF whole, made
    <2> QED
        BY <2>3, <2>4 DEF Service!Served
<1>5. phase' = [c \in Clients |-> IF c \in StoppedClients THEN "closed" ELSE phase[c]]
    <2>1. \A c \in StoppedClients : c <= accepted /\ ~(c > accepted)
        BY <1>1, BoundsAssumption DEF Inv, TypeOK, ClientsLinked, Clients
    <2>2. \A c \in Clients : phase'[c] = IF c \in StoppedClients THEN "closed" ELSE phase[c]
        BY <1>1, <1>2, <2>1 DEF phase, Phase, GivenUp
    <2> QED
        BY <2>2, Mapped
<1> QED
    BY <1>3, <1>4, <1>5
    DEF Service!Close, Service!pages

LEMMA TerminateFails ==
    ASSUME Inv, Progress, TerminateEffect
    PROVE  \E C \in SUBSET Clients : Service!Fail(C)
<1>1. PICK C \in SUBSET Clients : C = {c \in clients : client[c].status # "STOP_FAILED"}
    BY ObjectFacts
<1>2. UNCHANGED <<accepted, clients, response>> /\ "terminate" \in Env
    BY DEF TerminateEffect
<1>3. \A x \in Clients :
          /\ client'[x].request = client[x].request
          /\ client'[x].response = client[x].response
          /\ x \in C => client'[x].status = "STOP_FAILED"
          /\ x \notin C => /\ client'[x].status = client[x].status
                           /\ client'[x].current = client[x].current
    BY <1>1 DEF TerminateEffect
<1>4. C \in SUBSET clients /\ \A c \in C : client[c].status # "STOP_FAILED"
    BY <1>1
<1>5. Service!Fail(C)
    BY <1>2, <1>3, <1>4, GivingUpFails
<1> QED
    BY <1>5

\* Every step is one of the service or a stutter.
LEMMA NextIsService ==
    ASSUME KeysDistinguish, Inv, Progress, [Next]_vars
    PROVE  [Service!Next]_Service!vars
<1>1. CASE QuietEffect \/ SweepServersEffect \/ EventCash \/ Destroy
    BY <1>1, StutterSteps
<1>2. CASE SweepClientsEffect
    <2>1. StoppedClients \in SUBSET Clients
        BY ObjectFacts DEF StoppedClients
    <2> QED
        BY <1>2, <2>1, SweepCloses DEF Service!Next
<1>3. CASE TerminateEffect
    BY <1>3, TerminateFails DEF Service!Next
<1>4. ASSUME NEW x \in Clients, AddClientEffect(x) \/ RequestSentEffect(x)
      PROVE  Service!Next
    BY <1>4, AddClientConnects, RequestSentOpens DEF Service!Next
<1>5. ASSUME NEW x \in Clients, ServerEffect(x) \/ HeaderEffect(x)
      PROVE  [Service!Next]_Service!vars
    <2>1. x \in Responses
        BY DEF Responses
    <2> QED
        BY <1>5, <2>1, ReadGrows DEF Service!Next
<1>6. ASSUME NEW x \in Clients, ClientEffect(x)
      PROVE  [Service!Next]_Service!vars
    <2>1. {x} \in SUBSET Clients
        OBVIOUS
    <2> QED
        BY <1>6, <2>1, NextPreservesInv, WritingDelivers DEF Service!Next
<1>7. ASSUME NEW x \in Clients, NEW q \in Requests, NEW r \in Responses \cup {Null},
             AnswerEffect(x, q, r)
      PROVE  Service!Next
    BY <1>7, AnswerAsks DEF Service!Next
<1> QED
    BY <1>1, <1>2, <1>3, <1>4, <1>5, <1>6, <1>7, StepActs

\* If the keys of the cache tell the pages apart, the proxy keeps the promises of
\* ProxyService to every client, whoever fetches, shares, leaves or is given up, and
\* however many connections, alarms and bytes there are.
THEOREM ServiceIsImplemented ==
    ASSUME KeysDistinguish
    PROVE  Spec => ImplementsService
<1>1. Init => Service!Init
    BY InitIsService
<1>2. Inv /\ Progress /\ [Next]_vars => [Service!Next]_Service!vars
    BY NextIsService
<1> QED
    BY <1>1, <1>2, Invariance, ProgressInvariance, PTL
    DEF Spec, ImplementsService, Service!Spec
=============================================================================
