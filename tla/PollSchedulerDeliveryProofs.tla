---------------------- MODULE PollSchedulerDeliveryProofs ----------------------
(***************************************************************************)
(* What clients are sent, and who deletes what.  Delivery, on top of Inv   *)
(* and Progress, gives what holds for good: a client is sent all of its    *)
(* response, once, and nothing is deleted twice.  What holds until a       *)
(* client is given up, the cache is cleaned or SIGTERM arrives follows     *)
(* after that: nobody works on a deleted object.  Last, what an alarm may  *)
(* cost.                                                                   *)
(***************************************************************************)
EXTENDS PollSchedulerProgressProofs

\* A client that has a response has asked and was accepted.
LEMMA AttachedIsAccepted ==
    ASSUME Inv, NEW c \in Clients, Attached(c)
    PROVE  client[c].request # Null /\ c \in 1..accepted
    BY ObjectFacts DEF Attached, Inv, ClientsLinked, Clients

LEMMA AcceptedAreClients ==
    ASSUME Inv
    PROVE  \A c \in 1..accepted : c \in Clients
    BY BoundsAssumption DEF Inv, TypeOK, Clients

LEMMA InitDelivery ==
    ASSUME Init
    PROVE  Delivery
<1>1. \A c \in Clients : client[c] = NewClient
    BY DEF Init
<1>2. accepted = 0 /\ freed = {}
    BY DEF Init
<1> QED
    BY <1>1, <1>2 DEF Delivery, SentIsThere, FreedWereUsed, NewClient, Attached

-----------------------------------------------------------------------------
(* FreedWereUsed, for each effect.                                         *)

\* It holds after a step that deletes only what may be deleted, and neither
\* takes a Response from its server nor gives a deleted one another type.
LEMMA StillFreed ==
    ASSUME Inv, Delivery,
           \A r \in freed' \ freed :
              /\ r \in Clients /\ server'[r].response = r
              /\ response'[r].type \in {"NO_CASH", "CASHED", "FAIL"}
              /\ response'[r].type = "NO_CASH" => r \notin clients',
           \A r \in freed \cap Clients :
              /\ server'[r].response = server[r].response
              /\ \/ response'[r].type = response[r].type
                 \/ response'[r].type = "FAIL"
              /\ r \in clients' => r \in clients
    PROVE  FreedWereUsed'
    BY DEF Delivery, FreedWereUsed

LEMMA SweepClientsFreed ==
    ASSUME Inv, Progress, Delivery, SweepClientsEffect
    PROVE  FreedWereUsed'
<1>1. /\ UNCHANGED <<server, response>>
      /\ clients' = clients \ StoppedClients
    BY DEF SweepClientsEffect
<1>2. ASSUME NEW r \in freed' \ freed
      PROVE  /\ r \in StoppedClients /\ r \in Clients /\ server[r].response = r
             /\ response[r].type = "NO_CASH"
    <2>1. PICK c \in StoppedClients :
              Attached(c) /\ Deletable(client[c].response) /\ r = client[c].response
        BY <1>2 DEF SweepClientsEffect
    <2>2. c \in clients /\ c \in Clients /\ r \in Responses /\ response[r].type = "NO_CASH"
        BY <2>1, ObjectFacts DEF StoppedClients, Attached, Deletable
    <2>3. r \in Clients
        BY <2>2 DEF Progress, UnusedIsNew, ErrorPage, Responses
    <2> QED
        BY <2>1, <2>2, <2>3 DEF Progress, SharedIsCached
<1> QED
    BY <1>1, <1>2, StillFreed

LEMMA CleaningFreed ==
    ASSUME Inv, Progress, Delivery, EventCash \/ Destroy
    PROVE  FreedWereUsed'
<1>1. UNCHANGED <<clients, server, response>>
    BY DEF EventCash, Destroy
<1>2. \A r \in freed' \ freed : \E k \in Held(cash) : r = cash[k].response
    BY DEF EventCash, Destroy, Evicted
<1>3. \A r \in freed' \ freed :
          /\ r \in Clients /\ server[r].response = r
          /\ response[r].type \in {"CASHED", "FAIL"}
    BY <1>2, ObjectFacts
<1> QED
    BY <1>1, <1>3, StillFreed

LEMMA OtherFreed ==
    ASSUME Inv, Progress, Delivery,
           \/ QuietEffect \/ SweepServersEffect \/ TerminateEffect
           \/ \E x \in Clients : \/ AddClientEffect(x) \/ RequestSentEffect(x)
                                 \/ ServerEffect(x) \/ HeaderEffect(x) \/ ClientEffect(x)
           \/ \E x \in Clients, q \in Requests, r \in Responses \cup {Null} :
                 AnswerEffect(x, q, r)
    PROVE  FreedWereUsed'
<1>1. /\ \A r \in freed : r \in Clients /\ server[r].response = r
      /\ \A r \in freed : r \in Responses /\ r # Null
    BY ObjectFacts DEF Delivery, FreedWereUsed
<1>2. CASE QuietEffect
    BY <1>2, StillFreed DEF QuietEffect, objects
<1>3. CASE SweepServersEffect
    BY <1>1, <1>3, StillFreed DEF SweepServersEffect
<1>4. CASE TerminateEffect
    BY <1>4, StillFreed DEF TerminateEffect
<1>5. ASSUME NEW x \in Clients, AddClientEffect(x)
      PROVE  FreedWereUsed'
    <2>1. x \notin freed
        BY <1>1, <1>5, ObjectFacts, AttachedIsAccepted DEF AddClientEffect, Attached
    <2> QED
        BY <1>5, <2>1, StillFreed DEF AddClientEffect
<1>6. ASSUME NEW x \in Clients, RequestSentEffect(x)
      PROVE  FreedWereUsed'
    <2>1. x \notin freed
        BY <1>1, <1>6 DEF RequestSentEffect
    <2> QED
        BY <1>1, <1>6, <2>1, StillFreed DEF RequestSentEffect
<1>7. ASSUME NEW x \in Clients, ServerEffect(x)
      PROVE  FreedWereUsed'
    BY <1>1, <1>7, StillFreed DEF ServerEffect
<1>8. ASSUME NEW x \in Clients, HeaderEffect(x)
      PROVE  FreedWereUsed'
    BY <1>1, <1>8, StillFreed DEF HeaderEffect
<1>9. ASSUME NEW x \in Clients, ClientEffect(x)
      PROVE  FreedWereUsed'
    BY <1>9, StillFreed DEF ClientEffect
<1>10. ASSUME NEW x \in Clients, NEW q \in Requests, NEW r \in Responses \cup {Null},
              AnswerEffect(x, q, r)
       PROVE  FreedWereUsed'
    <2>1. x \notin freed
        BY <1>1, <1>10 DEF AnswerEffect
    <2> QED
        BY <1>1, <1>10, <2>1, StillFreed DEF AnswerEffect
<1> QED
    BY <1>2, <1>3, <1>4, <1>5, <1>6, <1>7, <1>8, <1>9, <1>10

-----------------------------------------------------------------------------
(* SentIsThere, for each effect.                                           *)

SentOf(c) ==
    LET r == client[c].response IN
    client[c].status # "STOP_FAILED" =>
        /\ ~Attached(c) => client[c].current = 0
        /\ Attached(c) => client[c].current \in 0..response[r].len
        /\ c \in (1..accepted) \ clients =>
              Attached(c) /\ response[r].status = "END"
              /\ client[c].current = response[r].len

\* A response that has ended stays as it is, the others only get longer.
ResponsesKept ==
    \A r \in Responses :
        /\ response'[r].len \in Nat /\ response'[r].len >= response[r].len
        /\ response[r].status = "END" =>
              response'[r].status = "END" /\ response'[r].len = response[r].len

LEMMA StepsKeepResponses ==
    ASSUME Inv, Inv', Progress, [Next]_vars
    PROVE  ResponsesKept
<1>1. \A r \in Responses : response[r].len \in Nat /\ response'[r].len \in Nat
    BY DEF Inv, TypeOK, ResponseObject
<1>2. ASSUME UNCHANGED response
      PROVE  ResponsesKept
    BY <1>1, <1>2 DEF ResponsesKept
<1>3. CASE SweepServersEffect
    BY <1>1, <1>3 DEF SweepServersEffect, ResponsesKept
<1>4. ASSUME NEW s \in Clients, RequestSentEffect(s)
      PROVE  ResponsesKept
    <2>1. response[s] = NewResponse
        BY <1>4 DEF RequestSentEffect, Progress, UnusedIsNew
    <2> QED
        BY <1>1, <1>4, <2>1 DEF RequestSentEffect, ResponsesKept
<1>5. ASSUME NEW s \in Clients, ServerEffect(s)
      PROVE  ResponsesKept
    <2>1. /\ \A r \in Responses \ {s} : response'[r] = response[r]
          /\ \/ response'[s] = response[s]
             \/ response[s].status # "END" /\ response'[s].len >= response[s].len
        <3>1. response[s].len \in Nat /\ response'[s].len \in Nat
            BY <1>1 DEF Responses
        <3> QED
            BY <1>5, <3>1 DEF ServerEffect, Progress, FetchesProgress
    <2> QED
        BY <1>1, <2>1 DEF ResponsesKept
<1>6. ASSUME NEW s \in Clients, HeaderEffect(s)
      PROVE  ResponsesKept
    <2>1. /\ \A r \in Responses \ {s} : response'[r] = response[r]
          /\ response[s].status # "END" /\ response'[s].len > response[s].len
        BY <1>6 DEF HeaderEffect, Progress, FetchesProgress
    <2>2. \A r \in Responses : response'[r].len >= response[r].len
        BY <1>1, <2>1
    <2> QED
        BY <1>1, <2>1, <2>2 DEF ResponsesKept
<1>7. \/ UNCHANGED response
      \/ SweepServersEffect
      \/ \E s \in Clients : RequestSentEffect(s) \/ ServerEffect(s) \/ HeaderEffect(s)
    <2>1. QuietEffect \/ SweepClientsEffect \/ EventCash \/ Destroy \/ TerminateEffect
              => UNCHANGED response
        BY DEF QuietEffect, objects, SweepClientsEffect, EventCash, Destroy, TerminateEffect
    <2>2. \A x \in Clients : AddClientEffect(x) \/ ClientEffect(x) => UNCHANGED response
        BY DEF AddClientEffect, ClientEffect
    <2>3. \A x \in Clients, q \in Requests, r \in Responses \cup {Null} :
              AnswerEffect(x, q, r) => UNCHANGED response
        BY DEF AnswerEffect
    <2> QED
        BY <2>1, <2>2, <2>3, StepActs
<1> QED
    BY <1>2, <1>3, <1>4, <1>5, <1>6, <1>7

\* A client that is neither visited nor removed.
LEMMA StillSent ==
    ASSUME Inv, Delivery, ResponsesKept, NEW c \in Clients,
           client'[c].status # "STOP_FAILED" => client[c].status # "STOP_FAILED",
           client'[c].response = client[c].response,
           client'[c].current = client[c].current,
           c \in (1..accepted') \ clients' => c \in (1..accepted) \ clients
    PROVE  SentOf(c)'
<1>1. /\ client[c].response \in Responses \cup {Null}
      /\ \A r \in Responses : response[r].len \in Nat
    BY ObjectFacts
<1>2. client[c].status # "STOP_FAILED" => SentOf(c)
    BY DEF Delivery, SentIsThere, SentOf
<1> QED
    BY <1>1, <1>2 DEF SentOf, ResponsesKept, Attached

LEMMA SweepClientsSent ==
    ASSUME Inv, Progress, Delivery, ResponsesKept, SweepClientsEffect
    PROVE  SentIsThere'
<1>1. /\ UNCHANGED <<accepted, response>>
      /\ clients' = clients \ StoppedClients
      /\ \A x \in Clients : /\ client'[x].response = client[x].response
                            /\ client'[x].current = client[x].current
                            /\ client'[x].status # "STOP_FAILED" =>
                                  client[x].status # "STOP_FAILED"
    BY DEF SweepClientsEffect, Resumable
<1>2. ASSUME NEW c \in Clients
      PROVE  SentOf(c)'
    <2>1. CASE c \notin StoppedClients
        BY <1>1, <2>1, StillSent
    <2>2. CASE c \in StoppedClients
        <3>1. /\ c \in clients /\ client[c].status \in {"STOP_SUCCESS", "STOP_FAILED"}
              /\ client'[c] = client[c]
            BY <2>2 DEF StoppedClients, SweepClientsEffect, Resumable
        <3>2. client[c].status = "STOP_SUCCESS" =>
                 /\ Attached(c)
                 /\ response[client[c].response].status = "END"
                 /\ client[c].current = response[client[c].response].len
            BY <3>1 DEF Progress, ClientsProgress
        <3>3. client[c].status = "STOP_SUCCESS" => SentOf(c)
            BY <3>1 DEF Delivery, SentIsThere, SentOf
        <3> QED
            BY <1>1, <3>1, <3>2, <3>3 DEF SentOf, Attached
    <2> QED
        BY <2>1, <2>2
<1> QED
    BY <1>2 DEF SentIsThere, SentOf

LEMMA VisitSent ==
    ASSUME Inv, Inv', Progress, Delivery, ResponsesKept, NEW c \in Clients,
           \/ ClientEffect(c)
           \/ \E q \in Requests, r \in Responses \cup {Null} : AnswerEffect(c, q, r)
    PROVE  SentIsThere'
<1>1. /\ UNCHANGED <<accepted, clients, response>> /\ cready[c] # {}
      /\ \A x \in Clients \ {c} : client'[x] = client[x]
    BY DEF ClientEffect, AnswerEffect
<1>2. c \in clients /\ client[c].status # "STOP_FAILED"
    BY <1>1 DEF Progress, Visiting
<1>3. \A x \in Clients \ {c} : SentOf(x)'
    BY <1>1, StillSent
<1>4. /\ client[c].current \in Int /\ client'[c].current \in Int
      /\ client'[c].response \in Responses \cup {Null}
      /\ client[c].response \in Responses \cup {Null}
      /\ \A r \in Responses : response[r].len \in Nat
    BY ObjectFacts DEF Inv, TypeOK, ClientObject
<1>5. SentOf(c)'
    <2>1. CASE ClientEffect(c)
        <3> DEFINE r == client[c].response
        <3>1. client'[c].response = r /\ UNCHANGED <<response, clients>>
            BY <2>1 DEF ClientEffect
        <3>2. CASE client'[c].status = "STOP_FAILED"
            BY <3>2 DEF SentOf
        <3>3. CASE client'[c].status # "STOP_FAILED"
            <4>1. /\ "OUT" \in client[c].events /\ r \in Responses /\ Attached(c)
                  /\ \/ client'[c].current = response[r].len
                     \/ client'[c].current = client[c].current
                     \/ /\ client'[c].current > client[c].current
                        /\ client'[c].current <= response[r].len
                BY <1>4, <2>1, <3>3, ObjectFacts DEF ClientEffect, Attached
            <4>2. client[c].current \in 0..response[r].len
                BY <1>2, <4>1 DEF Delivery, SentIsThere
            <4>3. client'[c].current \in 0..response[r].len
                BY <1>4, <4>1, <4>2
            <4> QED
                BY <1>2, <3>1, <4>1, <4>3 DEF SentOf, Attached
        <3> QED
            BY <3>2, <3>3
    <2>2. ASSUME NEW q \in Requests, NEW r \in Responses \cup {Null}, AnswerEffect(c, q, r)
          PROVE  SentOf(c)'
        <3>1. /\ client[c].response = Null /\ client'[c].response = r
              /\ client'[c].current = client[c].current
            BY <2>2 DEF AnswerEffect
        <3>2. client[c].current = 0
            BY <1>2, <3>1 DEF Delivery, SentIsThere, Attached
        <3> QED
            BY <1>1, <1>2, <1>4, <3>1, <3>2 DEF SentOf, Attached
    <2> QED
        BY <2>1, <2>2
<1> QED
    BY <1>3, <1>5 DEF SentIsThere, SentOf

LEMMA OpeningSent ==
    ASSUME Inv, Progress, Delivery, ResponsesKept, NEW x \in Clients,
           AddClientEffect(x) \/ RequestSentEffect(x)
    PROVE  SentIsThere'
<1>1. CASE AddClientEffect(x)
    <2>1. /\ x = accepted + 1 /\ accepted' = x /\ clients' = clients \cup {x}
          /\ client'[x] = NewClient /\ \A y \in Clients \ {x} : client'[y] = client[y]
        BY <1>1 DEF AddClientEffect
    <2>2. (1..accepted') \ clients' = (1..accepted) \ clients
        BY <2>1 DEF Inv, TypeOK
    <2>3. \A y \in Clients \ {x} : SentOf(y)'
        BY <2>1, <2>2, StillSent
    <2>4. SentOf(x)'
        BY <2>1 DEF SentOf, NewClient, Attached
    <2> QED
        BY <2>3, <2>4 DEF SentIsThere, SentOf
<1>2. CASE RequestSentEffect(x)
    <2>1. /\ UNCHANGED <<accepted, clients>> /\ x \in clients
          /\ client'[x].response = x /\ response'[x] = NewResponse
          /\ client'[x].current = client[x].current /\ client'[x].status = client[x].status
          /\ \A y \in Clients \ {x} : client'[y] = client[y]
        BY <1>2 DEF RequestSentEffect
    <2>2. \A y \in Clients \ {x} : SentOf(y)'
        BY <2>1, StillSent
    <2>3. client[x].response = Null
        BY <1>2 DEF RequestSentEffect, Progress, FetchesProgress
    <2>4. client[x].status # "STOP_FAILED" => client[x].current = 0
        BY <2>3 DEF Delivery, SentIsThere, Attached
    <2>5. SentOf(x)'
        BY <2>1, <2>4, ObjectFacts DEF SentOf, Attached, NewResponse
    <2> QED
        BY <2>2, <2>5 DEF SentIsThere, SentOf
<1> QED
    BY <1>1, <1>2

LEMMA OtherSent ==
    ASSUME Inv, Progress, Delivery, ResponsesKept,
           \/ QuietEffect \/ SweepServersEffect \/ EventCash \/ Destroy \/ TerminateEffect
           \/ \E x \in Clients : ServerEffect(x) \/ HeaderEffect(x)
    PROVE  SentIsThere'
<1>1. /\ UNCHANGED <<accepted, clients>>
      /\ \A c \in Clients :
            /\ client'[c].response = client[c].response
            /\ client'[c].current = client[c].current
            /\ client'[c].status # "STOP_FAILED" => client[c].status # "STOP_FAILED"
    BY DEF QuietEffect, objects, SweepServersEffect, EventCash, Destroy, TerminateEffect,
           ServerEffect, HeaderEffect
<1>2. \A c \in Clients : SentOf(c)'
    BY <1>1, StillSent
<1> QED
    BY <1>2 DEF SentIsThere, SentOf

LEMMA NextPreservesDelivery ==
    ASSUME Inv, Inv', Progress, Delivery, [Next]_vars
    PROVE  Delivery'
<1>1. FreedWereUsed'
    BY StepActs, SweepClientsFreed, CleaningFreed, OtherFreed
<1>2. ResponsesKept
    BY StepsKeepResponses
<1>3. SentIsThere'
    BY <1>2, StepActs, SweepClientsSent, VisitSent, OpeningSent, OtherSent
<1> QED
    BY <1>1, <1>3 DEF Delivery

\* What is deleted was given out and is in nobody's hands who will delete it again,
\* and no client that was not given up is ahead of its response or gone without it.
THEOREM DeliveryInvariance == Spec => []Delivery
<1>1. Init => Delivery
    BY InitDelivery
<1>2. Inv /\ Inv' /\ Progress /\ Delivery /\ [Next]_vars => Delivery'
    BY NextPreservesDelivery
<1> QED
    BY <1>1, <1>2, Invariance, ProgressInvariance, PTL DEF Spec

\* A connection that was not given up is closed with all of a complete response sent.
THEOREM ClientsAreSentAll == Spec => []DeliveredInFull
<1>1. ASSUME Inv, Progress, Delivery
      PROVE  DeliveredInFull
    <2>1. \A c \in Clients : cready[c] # {} => client[c].status # "STOP_FAILED"
        BY <1>1 DEF Progress, Visiting
    <2> QED
        BY <1>1, <2>1, AcceptedAreClients DEF Delivery, SentIsThere, DeliveredInFull
<1> QED
    BY <1>1, Invariance, ProgressInvariance, DeliveryInvariance, PTL

\* No response is deleted by two of those who delete: clients, and records of the cache.
THEOREM DeletionIsOnce == Spec => []DeletedOnce
<1>1. ASSUME Inv, Progress, Delivery
      PROVE  DeletedOnce
    <2>1. \A k \in Held(cash) : /\ response[cash[k].response].type # "NO_CASH"
                                /\ k = Key(client[cash[k].response].request)
        BY <1>1, ObjectFacts DEF Inv, KeysAgree
    <2>2. \A r \in freed : r \in Clients /\ (response[r].type = "NO_CASH" => r \notin clients)
        BY <1>1 DEF Delivery, FreedWereUsed
    <2>3. ASSUME NEW c \in clients, Attached(c), Deletable(client[c].response)
          PROVE  /\ client[c].response = c
                 /\ \A d \in clients \ {c} : client[d].response # c
        <3>1. c \in Clients /\ client[c].response \in Responses /\ clients \subseteq Clients
            BY <1>1, <2>3, ObjectFacts DEF Attached
        <3>2. client[c].response \in Clients
            BY <1>1, <2>3, <3>1
            DEF Progress, UnusedIsNew, ErrorPage, Deletable, Responses
        <3>3. client[c].response = c
            BY <1>1, <2>3, <3>1, <3>2 DEF Progress, SharedIsCached, Deletable
        <3> QED
            BY <1>1, <2>3, <3>1, <3>3 DEF Progress, SharedIsCached, Deletable
    <2>4. \A c \in clients : Attached(c) /\ Deletable(client[c].response) =>
              /\ client[c].response \notin freed
              /\ \A d \in clients \ {c} : client[d].response # client[c].response
              /\ \A k \in Held(cash) : cash[k].response # client[c].response
        BY <2>1, <2>2, <2>3 DEF Deletable
    <2>5. \A k, l \in Held(cash) : k # l => cash[k].response # cash[l].response
        BY <2>1
    <2>6. freed \cap Static = {}
        BY <2>2, SentinelAssumption
    <2> QED
        BY <2>4, <2>5, <2>6 DEF DeletedOnce
<1> QED
    BY <1>1, Invariance, ProgressInvariance, DeliveryInvariance, PTL

-----------------------------------------------------------------------------
LEMMA AnswersStay ==
    ASSUME Inv, Inv', Progress, [Next]_vars, NEW c \in Clients
    PROVE  /\ client[c].request # Null => client'[c].request = client[c].request
           /\ Attached(c) => client'[c].response = client[c].response
           /\ client'[c].status # "STOP_FAILED" => client'[c].current >= client[c].current
<1> DEFINE Stays ==
           /\ client[c].request # Null => client'[c].request = client[c].request
           /\ Attached(c) => client'[c].response = client[c].response
           /\ client'[c].status # "STOP_FAILED" => client'[c].current >= client[c].current
<1>1. /\ client[c].current \in Int /\ client'[c].current \in Int
      /\ \A r \in Responses : response[r].len \in Nat
    BY ObjectFacts DEF Inv, TypeOK, ClientObject
<1>2. ASSUME client'[c].request = client[c].request,
             client'[c].response = client[c].response,
             client'[c].current = client[c].current
      PROVE  Stays
    BY <1>1, <1>2
<1>3. CASE \/ QuietEffect \/ SweepClientsEffect \/ SweepServersEffect
           \/ EventCash \/ Destroy \/ TerminateEffect
    BY <1>2, <1>3 DEF QuietEffect, objects, SweepClientsEffect, SweepServersEffect, EventCash,
                      Destroy, TerminateEffect
<1>4. ASSUME NEW x \in Clients, AddClientEffect(x)
      PROVE  Stays
    <2>1. /\ client'[x] = NewClient /\ client[x] = NewClient
          /\ \A y \in Clients \ {x} : client'[y] = client[y]
        BY <1>4 DEF AddClientEffect, Inv, TypeOK, Progress, UnusedIsNew
    <2> QED
        BY <1>2, <2>1
<1>5. ASSUME NEW x \in Clients, RequestSentEffect(x)
      PROVE  Stays
    <2>1. client[x].response = Null
        BY <1>5 DEF RequestSentEffect, Progress, FetchesProgress
    <2>2. /\ client'[c].request = client[c].request /\ client'[c].current = client[c].current
          /\ c # x => client'[c].response = client[c].response
        BY <1>5 DEF RequestSentEffect
    <2> QED
        BY <1>1, <2>1, <2>2 DEF Attached
<1>6. ASSUME NEW x \in Clients, ServerEffect(x) \/ HeaderEffect(x)
      PROVE  Stays
    BY <1>2, <1>6 DEF ServerEffect, HeaderEffect
<1>7. ASSUME NEW x \in Clients, ClientEffect(x)
      PROVE  Stays
    <2>1. CASE c # x
        BY <1>2, <1>7, <2>1 DEF ClientEffect
    <2>2. CASE c = x
        <3>1. "OUT" \in client[c].events => client[c].response \in Responses
            BY ObjectFacts
        <3>2. /\ client'[c].request = client[c].request
              /\ client'[c].response = client[c].response
            BY <1>7, <2>2 DEF ClientEffect
        <3>3. client'[c].status # "STOP_FAILED" =>
                  LET len == response[client[c].response].len IN
                  /\ "OUT" \in client[c].events
                  /\ \/ len - client[c].current >= 0 /\ client'[c].current = len
                     \/ client'[c].current = client[c].current
                     \/ client'[c].current > client[c].current /\ client'[c].current <= len
            BY <1>7, <2>2 DEF ClientEffect
        <3>4. client'[c].status # "STOP_FAILED" => client'[c].current >= client[c].current
            BY <1>1, <3>1, <3>3
        <3> QED
            BY <3>2, <3>4
    <2> QED
        BY <2>1, <2>2
<1>8. ASSUME NEW x \in Clients, NEW q \in Requests, NEW r \in Responses \cup {Null},
             AnswerEffect(x, q, r)
      PROVE  Stays
    <2>1. /\ client[x].request = Null /\ client[x].response = Null
          /\ client'[x].current = client[x].current
          /\ \A y \in Clients \ {x} : client'[y] = client[y]
        BY <1>8 DEF AnswerEffect
    <2> QED
        BY <1>1, <1>2, <2>1 DEF Attached
<1> QED
    BY <1>3, <1>4, <1>5, <1>6, <1>7, <1>8, StepActs

\* What a client asked for and was given is final, and what it was sent is sent once.
THEOREM AnswersStayGiven == Spec => AnswersAreFinal
<1>1. Inv /\ Inv' /\ Progress /\ [Next]_vars =>
          [\A c \in Clients :
              /\ client[c].request # Null => client'[c].request = client[c].request
              /\ Attached(c) => client'[c].response = client[c].response
              /\ client'[c].status # "STOP_FAILED" =>
                    client'[c].current >= client[c].current]_vars
    BY AnswersStay
<1> QED
    BY <1>1, Invariance, ProgressInvariance, PTL DEF Spec, AnswersAreFinal

-----------------------------------------------------------------------------
(***************************************************************************)
(* Until a client is given up, an alarm is handled or SIGTERM arrives,     *)
(* builder() deletes a response only with the client that had it to        *)
(* itself, and that client stays until the fetch has ended.                *)
(***************************************************************************)
LEMMA SignalStep ==
    ASSUME [Next]_vars
    PROVE  \/ EventCash
           \/ /\ UNCHANGED signals \/ Ring
              /\ "cash" \in ready' => "cash" \in ready \/ hellos > 0
<1>1. \A state : Halt(state) => UNCHANGED <<signals, ready>>
    BY DEF Halt, pass
<1>2. CASE Builder
    BY <1>1, <1>2
    DEF Builder, SweepClients, SweepServers, SweepNullResponse, SweepFaults,
        SweepClientsUndefined, SweepServersUndefined, pass
<1>3. CASE Poll
    <2>1. PICK arrived \in SUBSET (IF accepted < MaxClients THEN {"connection"} ELSE {}) :
              /\ ready' = arrived \cup (IF hellos > 0 THEN {"cash"} ELSE {})
              /\ UNCHANGED signals
        BY <1>3 DEF Poll, PollReady
    <2> QED
        BY <2>1
<1>4. CASE Alarm \/ Terminate \/ Destroy \/ UNCHANGED vars
    BY <1>4 DEF Alarm, Terminate, Destroy, vars, pass
<1>5. CASE AddClient \/ AcceptFails \/ BrokenPipe \/ Return
    BY <1>1, <1>5 DEF AddClient, AcceptFails, BrokenPipe, Return, pass
<1>6. ASSUME NEW s \in Clients, ServerHandler(s)
      PROVE  (UNCHANGED signals \/ Ring) /\ UNCHANGED ready
    BY <1>1, <1>6
    DEF ServerHandler, RequestPartlySent, RequestSent, RequestSendFails, WriteFails,
        ResponseEnds, ResponseFails, ResponseGrows, ResponseHeader, ResponseFallsThrough,
        SendUndefined, ReceiveUndefined, HeaderUndefined
<1>7. ASSUME NEW c \in Clients, ClientHandler(c)
      PROVE  (UNCHANGED signals \/ Ring) /\ UNCHANGED ready
    BY <1>1, <1>7
    DEF ClientHandler, ClientHangup, RequestFails, RequestPartlyReceived, RequestReceived,
        RequestRejected, RequestInCash, RequestForwarded, OriginUnreachable, Answer,
        NothingSent, ResponseSent, ResponseSendFails, WriteFails, WriteUndefined
<1> QED
    BY <1>2, <1>3, <1>4, <1>5, <1>6, <1>7 DEF Next, Executor

LEMMA PipeStaysSound ==
    ASSUME Inv, PipeHoldsAlarms, [Next]_vars
    PROVE  PipeHoldsAlarms'
<1>1. hellos \in Nat /\ alarms \in Nat
    BY DEF Inv, TypeOK
<1>2. CASE EventCash
    BY <1>1, <1>2 DEF EventCash, Drained, PipeHoldsAlarms
<1>3. CASE (UNCHANGED signals \/ Ring) /\ ("cash" \in ready' => "cash" \in ready \/ hellos > 0)
    BY <1>1, <1>3 DEF Ring, signals, PipeHoldsAlarms
<1> QED
    BY <1>2, <1>3, SignalStep

\* What was disturbed stays so: a client that was given up is never used again, and a
\* message taken out of the pipe is not put back.
LEMMA DisturbedForGood ==
    ASSUME Inv, Progress, PipeHoldsAlarms, [Next]_vars, Undisturbed'
    PROVE  Undisturbed /\ ~EventCash /\ ~TerminateEffect /\ ~Destroy
<1>1. hellos \in Nat /\ alarms \in Nat
    BY DEF Inv, TypeOK
<1>2. ~EventCash
    BY <1>1 DEF EventCash, AtCash, Drained, PipeHoldsAlarms, Undisturbed
<1>3. hellos = alarms
    BY <1>1, <1>2, SignalStep DEF Ring, signals, Undisturbed
<1>4. ~TerminateEffect
    BY DEF TerminateEffect, Undisturbed
<1>5. ~exiting
    BY <1>2, <1>4, StepActs
    DEF Undisturbed, QuietEffect, SweepClientsEffect, SweepServersEffect, Destroy,
        AddClientEffect, RequestSentEffect, ServerEffect, HeaderEffect, ClientEffect,
        AnswerEffect
<1>6. ~Destroy
    BY <1>5 DEF Destroy, Progress, ExitProgress
<1>7. ASSUME NEW c \in Clients
      PROVE  client[c].status # "STOP_FAILED"
    <2>1. client'[c].status # "STOP_FAILED"
        BY DEF Undisturbed
    <2>2. CASE \/ QuietEffect \/ SweepClientsEffect \/ SweepServersEffect
               \/ \E x \in Clients : \/ RequestSentEffect(x) \/ ServerEffect(x)
                                     \/ HeaderEffect(x)
        BY <2>1, <2>2
        DEF QuietEffect, objects, SweepClientsEffect, Resumable, SweepServersEffect,
            RequestSentEffect, ServerEffect, HeaderEffect
    <2>3. ASSUME NEW x \in Clients, AddClientEffect(x)
          PROVE  client[c].status # "STOP_FAILED"
        <3>1. client[x] = NewClient /\ \A y \in Clients \ {x} : client'[y] = client[y]
            BY <2>3 DEF AddClientEffect, Inv, TypeOK, Progress, UnusedIsNew
        <3> QED
            BY <2>1, <3>1 DEF NewClient
    <2>4. ASSUME NEW x \in Clients,
                 \/ ClientEffect(x)
                 \/ \E q \in Requests, r \in Responses \cup {Null} : AnswerEffect(x, q, r)
          PROVE  client[c].status # "STOP_FAILED"
        <3>1. cready[x] # {} /\ \A y \in Clients \ {x} : client'[y] = client[y]
            BY <2>4 DEF ClientEffect, AnswerEffect
        <3>2. client[x].status # "STOP_FAILED"
            BY <3>1 DEF Progress, Visiting
        <3> QED
            BY <2>1, <3>1, <3>2
    <2> QED
        BY <1>2, <1>4, <1>6, <2>2, <2>3, <2>4, StepActs
<1> QED
    BY <1>2, <1>3, <1>4, <1>5, <1>6, <1>7 DEF Undisturbed

-----------------------------------------------------------------------------
(* Each effect, while nothing is disturbed.                                *)

Calm ==
    /\ Inv /\ Progress /\ Delivery
    /\ Undisturbed /\ pc # "undefined" /\ FailedStayOpen /\ FreedAreGone

\* A client that is gone has been sent all of its response.
LEMMA GoneAreServed ==
    ASSUME Calm
    PROVE  \A c \in (1..accepted) \ clients :
              /\ c \in Clients /\ Attached(c)
              /\ response[client[c].response].status = "END"
    BY AcceptedAreClients DEF Calm, Delivery, SentIsThere, Undisturbed

\* A deleted response has no user, and no server that works for it.
LEMMA DeletedIsUnused ==
    ASSUME Calm
    PROVE  /\ \A c \in clients : client[c].response \notin freed
           /\ \A s \in servers :
                 server[s].response \in freed \/ (server[s].response = s /\ s \notin clients)
                     => /\ server[s].status # "STOP_FAILED"
                        /\ "IN" \notin server[s].events
<1>1. \A r \in freed : r \in Clients /\ r \notin clients /\ response[r].type = "NO_CASH"
    BY AcceptedAreClients DEF Calm, FreedAreGone
<1>2. \A c \in clients : client[c].response \notin freed
    BY <1>1, ObjectFacts DEF Calm, Progress, SharedIsCached
<1>3. ASSUME NEW s \in servers,
             server[s].response \in freed \/ (server[s].response = s /\ s \notin clients)
      PROVE  server[s].status # "STOP_FAILED" /\ "IN" \notin server[s].events
    <2>1. /\ server[s].response = s /\ client[s].response = s /\ s \in Clients
          /\ s \notin clients
        BY <1>1, <1>3, ObjectFacts DEF Calm
    <2>2. s \in 1..accepted
        BY <2>1, ObjectFacts DEF Calm, Inv, TypeOK, ClientsLinked, Clients
    <2>3. response[s].status = "END"
        BY <2>1, <2>2, GoneAreServed
    <2> QED
        BY <1>3, <2>1, <2>3 DEF Calm, FailedStayOpen, Progress, FetchesProgress
<1> QED
    BY <1>2, <1>3

LEMMA NothingUndefined ==
    ASSUME Calm
    PROVE  ~UndefinedStep
<1>1. /\ \A s \in servers : s \in Clients
      /\ \A s \in Clients : sready[s] # {} => s \in servers /\ sready[s] \subseteq server[s].events
    BY DEF Calm, Inv, TypeOK, ServersLinked
<1>2. ~SweepClientsUndefined
    BY DeletedIsUnused DEF SweepClientsUndefined, SweepReadsDeleted
<1>3. ~SweepServersUndefined
    BY DeletedIsUnused DEF SweepServersUndefined, FailedServers, StoppedServers
<1>4. ASSUME NEW s \in Clients
      PROVE  ~SendUndefined(s) /\ ~ReceiveUndefined(s) /\ ~HeaderUndefined(s)
    <2>1. ASSUME SendUndefined(s)
          PROVE  FALSE
        <3>1. s \in servers /\ server[s].response = Null /\ s \notin clients
            BY <1>1, <2>1, ServerRecords DEF Calm, SendUndefined
        <3>2. client[s].response = Null /\ client[s].request # Null
            BY <3>1, ObjectFacts DEF Calm, Progress, FetchesProgress
        <3>3. s \in (1..accepted) \ clients
            BY <3>1, <3>2, ObjectFacts DEF Calm, Inv, TypeOK, ClientsLinked, Clients
        <3> QED
            BY <3>2, <3>3, GoneAreServed DEF Attached
    <2>2. ASSUME ReceiveUndefined(s) \/ HeaderUndefined(s)
          PROVE  FALSE
        <3>1. s \in servers /\ "IN" \in server[s].events /\ server[s].response = s
            BY <1>1, <2>2, ObjectFacts DEF Calm, ReceiveUndefined, HeaderUndefined, Receiving
        <3>2. server[s].response \in freed \/ s \notin clients
            BY <2>2 DEF ReceiveUndefined, HeaderUndefined
        <3> QED
            BY <3>1, <3>2, DeletedIsUnused
    <2> QED
        BY <2>1, <2>2
<1>5. ASSUME NEW c \in Clients
      PROVE  ~WriteUndefined(c)
    BY DeletedIsUnused DEF WriteUndefined, AtClient, Calm, Progress, Visiting
<1> QED
    BY <1>2, <1>3, <1>4, <1>5 DEF UndefinedStep

LEMMA QuietCalm ==
    ASSUME Calm, QuietEffect
    PROVE  pc' # "undefined" /\ FailedStayOpen' /\ FreedAreGone'
<1>1. UNCHANGED <<accepted, clients, servers, server, response, freed>>
    BY DEF QuietEffect, objects
<1>2. pc' # "undefined"
    BY NothingUndefined DEF QuietEffect, Calm
<1> QED
    BY <1>1, <1>2 DEF Calm, FailedStayOpen, FreedAreGone

LEMMA SweepClientsCalm ==
    ASSUME Calm, SweepClientsEffect
    PROVE  pc' # "undefined" /\ FailedStayOpen' /\ FreedAreGone'
<1>1. /\ UNCHANGED <<accepted, servers, server, response>> /\ pc' = "sweepServers"
      /\ clients' = clients \ StoppedClients
    BY DEF SweepClientsEffect
<1>2. \A c \in StoppedClients : c \in Clients /\ c \in 1..accepted
    BY ObjectFacts DEF StoppedClients, Calm, Inv, TypeOK, ClientsLinked, Clients
<1>3. FailedStayOpen'
    BY <1>1 DEF FailedStayOpen, Calm
<1>4. FreedAreGone'
    <2>1. ASSUME NEW c \in StoppedClients, Attached(c), Deletable(client[c].response)
          PROVE  client[c].response = c /\ response[c].type = "NO_CASH"
        <3>1. client[c].response \in Responses /\ response[client[c].response].type = "NO_CASH"
            BY <1>2, <2>1, ObjectFacts DEF Calm, Attached, Deletable
        <3>2. client[c].response \in Clients
            BY <3>1 DEF Calm, Progress, UnusedIsNew, ErrorPage, Responses
        <3> QED
            BY <1>2, <3>1, <3>2 DEF Calm, Progress, SharedIsCached
    <2>2. \A r \in freed' : \/ r \in freed
                            \/ r \in StoppedClients /\ response[r].type = "NO_CASH"
        BY <2>1 DEF SweepClientsEffect
    <2> QED
        BY <1>1, <1>2, <2>2 DEF FreedAreGone, Calm
<1> QED
    BY <1>1, <1>3, <1>4

LEMMA SweepServersCalm ==
    ASSUME Calm, SweepServersEffect
    PROVE  pc' # "undefined" /\ FailedStayOpen' /\ FreedAreGone'
<1>1. /\ UNCHANGED <<accepted, clients, server, freed>>
      /\ pc' = "poll" \/ pc' = "destroy"
      /\ servers' = servers \ StoppedServers
    BY DEF SweepServersEffect
<1>2. FailedStayOpen'
    BY <1>1, ObjectFacts DEF FailedStayOpen, StoppedServers, Calm
<1>3. FreedAreGone'
    <2>1. \A r \in freed : r \in Responses /\ r \notin FailedServers
        <3>1. \A s \in FailedServers : s \in servers /\ server[s].response = s
                                       /\ server[s].status = "STOP_FAILED"
            BY DEF SweepServersEffect, FailedServers, StoppedServers
        <3> QED
            BY <3>1, DeletedIsUnused DEF Calm, Inv, TypeOK
    <2>2. \A r \in freed : response'[r] = response[r]
        BY <2>1 DEF SweepServersEffect
    <2> QED
        BY <1>1, <2>2 DEF FreedAreGone, Calm
<1> QED
    BY <1>1, <1>2, <1>3

LEMMA OpeningCalm ==
    ASSUME Calm, NEW x \in Clients, AddClientEffect(x) \/ RequestSentEffect(x)
    PROVE  pc' # "undefined" /\ FailedStayOpen' /\ FreedAreGone'
<1>1. CASE AddClientEffect(x)
    <2>1. /\ UNCHANGED <<pc, servers, server, response, freed>>
          /\ x = accepted + 1 /\ accepted' = x /\ clients' = clients \cup {x}
        BY <1>1 DEF AddClientEffect
    <2>2. (1..accepted') \ clients' = (1..accepted) \ clients
        BY <2>1 DEF Calm, Inv, TypeOK
    <2> QED
        BY <2>1, <2>2 DEF Calm, FailedStayOpen, FreedAreGone
<1>2. CASE RequestSentEffect(x)
    <2>1. response[x] = NewResponse
        BY <1>2 DEF RequestSentEffect, Calm, Progress, UnusedIsNew
    <2>2. /\ UNCHANGED <<pc, accepted, clients, servers, freed>>
          /\ \A r \in Responses : response'[r] = response[r]
          /\ \A y \in Clients \ {x} : server'[y] = server[y]
        BY <1>2, <2>1 DEF RequestSentEffect
    <2>3. FailedStayOpen'
        BY <2>1, <2>2, ObjectFacts DEF FailedStayOpen, Calm, NewResponse
    <2>4. FreedAreGone'
        BY <2>2 DEF FreedAreGone, Calm, Inv, TypeOK
    <2> QED
        BY <2>2, <2>3, <2>4 DEF Calm
<1> QED
    BY <1>1, <1>2

\* A server reads into the response of a client that is there.
LEMMA FetchCalm ==
    ASSUME Calm, NEW s \in Clients, ServerEffect(s) \/ HeaderEffect(s)
    PROVE  pc' # "undefined" /\ FailedStayOpen' /\ FreedAreGone'
<1>1. /\ UNCHANGED <<pc, accepted, clients, servers, freed>>
      /\ \A x \in Clients : /\ server'[x].response = server[x].response
                            /\ x # s => server'[x] = server[x]
      /\ \A r \in Responses \ {s} : response'[r] = response[r]
    BY DEF ServerEffect, HeaderEffect
<1>2. \/ server[s].response = Null /\ response'[s] = response[s]
      \/ /\ server[s].response = s /\ response[s].status # "END" /\ s \notin freed
         /\ \/ server'[s].status = "STOP_SUCCESS"
            \/ response'[s].status # "END"
    <2>1. "IN" \in server[s].events /\ s \in servers => s \notin freed
        BY DeletedIsUnused, ObjectFacts DEF Calm
    <2> QED
        BY <2>1 DEF ServerEffect, HeaderEffect, Calm, Progress, FetchesProgress
<1>3. FailedStayOpen'
    BY <1>1, <1>2, ObjectFacts DEF FailedStayOpen, Calm
<1>4. FreedAreGone'
    <2>1. \A r \in freed : response'[r] = response[r]
        BY <1>1, <1>2 DEF Calm, Inv, TypeOK
    <2> QED
        BY <1>1, <2>1 DEF FreedAreGone, Calm
<1> QED
    BY <1>1, <1>3, <1>4 DEF Calm

LEMMA VisitCalm ==
    ASSUME Calm, NEW c \in Clients,
           \/ ClientEffect(c)
           \/ \E q \in Requests, r \in Responses \cup {Null} : AnswerEffect(c, q, r)
    PROVE  pc' # "undefined" /\ FailedStayOpen' /\ FreedAreGone'
<1>1. UNCHANGED <<pc, accepted, clients, response, freed>>
    BY DEF ClientEffect, AnswerEffect
<1>2. FreedAreGone'
    BY <1>1 DEF FreedAreGone, Calm
<1>3. \A s \in servers' : \/ s \in servers /\ server'[s] = server[s]
                          \/ server'[s].status = "ACTIVE"
    <2>1. servers \subseteq Clients
        BY ObjectFacts DEF Calm
    <2>2. CASE ClientEffect(c)
        BY <2>2 DEF ClientEffect
    <2>3. ASSUME NEW q \in Requests, NEW r \in Responses \cup {Null}, AnswerEffect(c, q, r)
          PROVE  \A s \in servers' : \/ s \in servers /\ server'[s] = server[s]
                                     \/ server'[s].status = "ACTIVE"
        <3>1. /\ c \notin servers
              /\ \A x \in Clients \ {c} : server'[x] = server[x]
              /\ \/ UNCHANGED servers
                 \/ servers' = servers \cup {c} /\ server'[c].status = "ACTIVE"
            BY <2>3 DEF AnswerEffect
        <3> QED
            BY <2>1, <3>1
    <2> QED
        BY <2>2, <2>3
<1> QED
    BY <1>1, <1>2, <1>3 DEF FailedStayOpen, Calm

LEMMA NextCalm ==
    ASSUME Inv, Progress, Delivery, UndisturbedProgress, [Next]_vars
    PROVE  UndisturbedProgress'
<1>1. PipeHoldsAlarms'
    BY PipeStaysSound DEF UndisturbedProgress
<1>2. ASSUME Undisturbed'
      PROVE  pc' # "undefined" /\ FailedStayOpen' /\ FreedAreGone'
    <2>1. Undisturbed /\ ~EventCash /\ ~TerminateEffect /\ ~Destroy
        BY <1>2, DisturbedForGood DEF UndisturbedProgress
    <2>2. Calm
        BY <2>1 DEF UndisturbedProgress, NoCorruption, Calm
    <2> QED
        BY <2>1, <2>2, StepActs, QuietCalm, SweepClientsCalm, SweepServersCalm, OpeningCalm,
           FetchCalm, VisitCalm
<1> QED
    BY <1>1, <1>2 DEF UndisturbedProgress, NoCorruption

LEMMA InitCalm ==
    ASSUME Init
    PROVE  UndisturbedProgress
    BY DEF Init, UndisturbedProgress, PipeHoldsAlarms, NoCorruption, FailedStayOpen,
           FreedAreGone

\* Until the proxy is disturbed, clients, fetches and deleted responses are in step.
THEOREM UndisturbedInvariance == Spec => []UndisturbedProgress
<1>1. Init => UndisturbedProgress
    BY InitCalm
<1>2. Inv /\ Progress /\ Delivery /\ UndisturbedProgress /\ [Next]_vars
          => UndisturbedProgress'
    BY NextCalm
<1> QED
    BY <1>1, <1>2, Invariance, ProgressInvariance, DeliveryInvariance, PTL DEF Spec

\* No handler works on a deleted object before a client was given up, the cache was
\* cleaned or SIGTERM arrived, however origins fail, refuse, truncate or cut their bytes.
THEOREM CorruptionHasACause == Spec => []NoCorruption
<1>1. UndisturbedProgress => NoCorruption
    BY DEF UndisturbedProgress, NoCorruption
<1> QED
    BY <1>1, UndisturbedInvariance, PTL

-----------------------------------------------------------------------------
(***************************************************************************)
(* Where no peer fails, a connection is given up only in the step in which *)
(* an alarm interrupts its write.                                          *)
(***************************************************************************)
LEMMA AlarmsStay ==
    ASSUME Inv, [Next]_vars
    PROVE  alarms \in Nat /\ alarms' \in {alarms, alarms + 1}
<1>1. alarms \in Nat
    BY DEF Inv, TypeOK
<1> QED
    BY <1>1, SignalStep DEF EventCash, Ring, signals

LEMMA NobodyElseIsGivenUp ==
    ASSUME Inv, Progress, PatientPeers, [Next]_vars
    PROVE  \/ GivenUpClients' \subseteq GivenUpClients /\ GivenUpServers' \subseteq GivenUpServers
           \/ /\ alarms' = alarms + 1
              /\ \E x \in Clients :
                    \/ /\ GivenUpClients' \subseteq GivenUpClients \cup {x}
                       /\ GivenUpServers' \subseteq GivenUpServers
                    \/ /\ GivenUpClients' \subseteq GivenUpClients
                       /\ GivenUpServers' \subseteq GivenUpServers \cup {x}
<1>1. CASE QuietEffect \/ EventCash \/ Destroy
    BY <1>1 DEF QuietEffect, objects, EventCash, Destroy, GivenUpClients, GivenUpServers
<1>2. CASE SweepClientsEffect \/ SweepServersEffect
    <2>1. /\ \A y \in Clients : client'[y].status = "STOP_FAILED" => client[y].status = "STOP_FAILED"
          /\ server' = server
        BY <1>2 DEF SweepClientsEffect, SweepServersEffect
    <2> QED
        BY <2>1 DEF GivenUpClients, GivenUpServers
<1>3. CASE TerminateEffect
    BY <1>3 DEF TerminateEffect, PatientPeers
<1>4. ASSUME NEW x \in Clients, AddClientEffect(x)
      PROVE  GivenUpClients' \subseteq GivenUpClients /\ GivenUpServers' \subseteq GivenUpServers
    <2>1. /\ client'[x].status = "ACTIVE" /\ server' = server
          /\ \A y \in Clients \ {x} : client'[y] = client[y]
        BY <1>4 DEF AddClientEffect, NewClient
    <2> QED
        BY <2>1 DEF GivenUpClients, GivenUpServers
<1>5. ASSUME NEW x \in Clients, RequestSentEffect(x) \/ HeaderEffect(x)
      PROVE  GivenUpClients' \subseteq GivenUpClients /\ GivenUpServers' \subseteq GivenUpServers
    <2>1. \A y \in Clients : client'[y].status = client[y].status
                           /\ server'[y].status = server[y].status
        BY <1>5 DEF RequestSentEffect, HeaderEffect
    <2> QED
        BY <2>1 DEF GivenUpClients, GivenUpServers
<1>6. ASSUME NEW x \in Clients, ServerEffect(x)
      PROVE  /\ GivenUpClients' \subseteq GivenUpClients
             /\ \/ GivenUpServers' \subseteq GivenUpServers
                \/ alarms' = alarms + 1 /\ GivenUpServers' \subseteq GivenUpServers \cup {x}
    <2>1. /\ client' = client /\ \A y \in Clients \ {x} : server'[y] = server[y]
          /\ server'[x].status \in {server[x].status, "STOP_SUCCESS"} \/ alarms' = alarms + 1
        BY <1>6 DEF ServerEffect, PatientPeers
    <2> QED
        BY <2>1 DEF GivenUpClients, GivenUpServers
<1>7. ASSUME NEW x \in Clients, ClientEffect(x)
      PROVE  /\ GivenUpServers' \subseteq GivenUpServers
             /\ \/ GivenUpClients' \subseteq GivenUpClients
                \/ alarms' = alarms + 1 /\ GivenUpClients' \subseteq GivenUpClients \cup {x}
    <2>1. /\ server' = server /\ \A y \in Clients \ {x} : client'[y] = client[y]
          /\ client'[x].status # "STOP_FAILED" \/ alarms' = alarms + 1
             \/ client'[x].status = client[x].status
        BY <1>7 DEF ClientEffect, PatientPeers, Progress, Visiting
    <2> QED
        BY <2>1 DEF GivenUpClients, GivenUpServers
<1>8. ASSUME NEW x \in Clients, NEW q \in Requests, NEW r \in Responses \cup {Null},
             AnswerEffect(x, q, r)
      PROVE  GivenUpClients' \subseteq GivenUpClients /\ GivenUpServers' \subseteq GivenUpServers
    <2>1. /\ client'[x].status = client[x].status
          /\ server'[x] = server[x] \/ server'[x].status = "ACTIVE"
          /\ \A y \in Clients \ {x} : client'[y] = client[y] /\ server'[y] = server[y]
        BY <1>8 DEF AnswerEffect
    <2> QED
        BY <2>1 DEF GivenUpClients, GivenUpServers
<1> QED
    BY <1>1, <1>2, <1>3, <1>4, <1>5, <1>6, <1>7, <1>8, StepActs

\* A set of clients that grows by one at most.
LEMMA GrowsByOne ==
    ASSUME NEW S \in SUBSET Clients, NEW x \in Clients, NEW T, T \subseteq S \cup {x}
    PROVE  Cardinality(T) <= Cardinality(S) + 1
<1>1. /\ S \cup {x} \in SUBSET Clients
      /\ IsFiniteSet(S \cup {x}) /\ IsFiniteSet(S)
      /\ Cardinality(S) \in Nat /\ Cardinality(S \cup {x}) \in Nat /\ Cardinality(T) \in Nat
    BY ClientsFinite
<1>2. Cardinality(T) <= Cardinality(S \cup {x})
    BY <1>1, FS_Subset
<1>3. Cardinality(S \cup {x}) <= Cardinality(S) + 1
    BY <1>1, FS_AddElement
<1> QED
    BY <1>1, <1>2, <1>3

LEMMA NextOnePerAlarm ==
    ASSUME Inv, Progress, OnePerAlarm, [Next]_vars
    PROVE  OnePerAlarm'
<1> SUFFICES ASSUME PatientPeers
             PROVE  Cardinality(GivenUpClients') + Cardinality(GivenUpServers') <= alarms'
    BY DEF OnePerAlarm, PatientPeers
<1>1. Cardinality(GivenUpClients) + Cardinality(GivenUpServers) <= alarms
    BY DEF OnePerAlarm
<1>2. /\ GivenUpClients \in SUBSET Clients /\ GivenUpClients' \in SUBSET Clients
      /\ GivenUpServers \in SUBSET Clients /\ GivenUpServers' \in SUBSET Clients
    BY DEF GivenUpClients, GivenUpServers
<1>3. /\ IsFiniteSet(GivenUpClients) /\ IsFiniteSet(GivenUpServers)
      /\ Cardinality(GivenUpClients) \in Nat /\ Cardinality(GivenUpClients') \in Nat
      /\ Cardinality(GivenUpServers) \in Nat /\ Cardinality(GivenUpServers') \in Nat
    BY <1>2, ClientsFinite
<1>4. alarms \in Nat /\ alarms' \in {alarms, alarms + 1}
    BY AlarmsStay
<1>5. GivenUpClients' \subseteq GivenUpClients
          => Cardinality(GivenUpClients') <= Cardinality(GivenUpClients)
    BY <1>3, FS_Subset
<1>6. GivenUpServers' \subseteq GivenUpServers
          => Cardinality(GivenUpServers') <= Cardinality(GivenUpServers)
    BY <1>3, FS_Subset
<1>7. CASE GivenUpClients' \subseteq GivenUpClients /\ GivenUpServers' \subseteq GivenUpServers
    BY <1>1, <1>3, <1>4, <1>5, <1>6, <1>7
<1>8. ASSUME NEW x \in Clients, alarms' = alarms + 1,
             GivenUpClients' \subseteq GivenUpClients \cup {x},
             GivenUpServers' \subseteq GivenUpServers
      PROVE  Cardinality(GivenUpClients') + Cardinality(GivenUpServers') <= alarms'
    <2>1. Cardinality(GivenUpClients') <= Cardinality(GivenUpClients) + 1
        BY <1>2, <1>8, GrowsByOne
    <2> QED
        BY <1>1, <1>3, <1>4, <1>6, <1>8, <2>1
<1>9. ASSUME NEW x \in Clients, alarms' = alarms + 1,
             GivenUpClients' \subseteq GivenUpClients,
             GivenUpServers' \subseteq GivenUpServers \cup {x}
      PROVE  Cardinality(GivenUpClients') + Cardinality(GivenUpServers') <= alarms'
    <2>1. Cardinality(GivenUpServers') <= Cardinality(GivenUpServers) + 1
        BY <1>2, <1>9, GrowsByOne
    <2> QED
        BY <1>1, <1>3, <1>4, <1>5, <1>9, <2>1
<1> QED
    BY <1>7, <1>8, <1>9, NobodyElseIsGivenUp

\* With peers that do not fail, alarms alone cost connections, and each one connection at
\* most: nothing else the proxy does gives a connection up.
THEOREM AlarmsCostOneEach == Spec => []OnePerAlarm
<1>1. Init => OnePerAlarm
    <2> SUFFICES ASSUME Init
                 PROVE  OnePerAlarm
        OBVIOUS
    <2>1. GivenUpClients = {} /\ GivenUpServers = {}
        BY DEF Init, NewClient, NewServer, GivenUpClients, GivenUpServers
    <2>2. alarms = 0
        BY DEF Init
    <2> QED
        BY <2>1, <2>2, FS_EmptySet DEF OnePerAlarm
<1>2. Inv /\ Progress /\ OnePerAlarm /\ [Next]_vars => OnePerAlarm'
    BY NextOnePerAlarm
<1> QED
    BY <1>1, <1>2, Invariance, ProgressInvariance, PTL DEF Spec
=============================================================================
