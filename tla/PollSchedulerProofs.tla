------------------------ MODULE PollSchedulerProofs ------------------------
(***************************************************************************)
(* Inv is an inductive invariant of PollScheduler, whatever the peers do   *)
(* (every Env) and for every number of clients, and what follows from it.  *)
(***************************************************************************)
EXTENDS PollScheduler, FiniteSetTheorems, TLAPS

LEMMA ClientsFinite ==
    ASSUME NEW S \in SUBSET Clients
    PROVE  IsFiniteSet(S) /\ Cardinality(S) \in Nat
<1>1. IsFiniteSet(Clients)
    BY FS_Interval, BoundsAssumption DEF Clients
<1> QED
    BY <1>1, FS_Subset, FS_CardinalityType

\* A read appends bytes, and only the end of the headers changes the code.
LEMMA ExtendedOnlyAppends ==
    ASSUME NEW resp \in ResponseObject, NEW n \in ReadSizes, NEW new \in Extended(resp, n)
    PROVE  /\ new \in ResponseObject
           /\ new.type = resp.type
           /\ new.len = resp.len + n
           /\ \/ new.code = resp.code /\ new.status = resp.status
              \/ /\ resp.status = "HEADERS" /\ new.status = "BODY"
                 /\ new.code \in {"OK", "NO_OK"}
<1> DEFINE longer == [resp EXCEPT !.len = @ + n]
<1>1. n \in Nat
    BY DEF ReadSizes
<1>2. /\ longer \in ResponseObject
      /\ longer.type = resp.type /\ longer.len = resp.len + n
      /\ longer.code = resp.code /\ longer.status = resp.status
    BY <1>1 DEF ResponseObject
<1>3. CASE new = longer
    BY <1>2, <1>3
<1>4. CASE /\ resp.status = "HEADERS"
           /\ \E code \in Codes :
                 new = [longer EXCEPT !.status = "BODY", !.code = code]
    BY <1>2, <1>4 DEF ResponseObject, Codes
<1>5. \/ new = longer
      \/ /\ resp.status = "HEADERS"
         /\ \E code \in Codes :
                 new = [longer EXCEPT !.status = "BODY", !.code = code]
    <2> HIDE DEF longer
    <2>1. new \in IF longer.len > MaxLen THEN {}
                  ELSE IF resp.status # "HEADERS" THEN {longer}
                  ELSE (IF longer.len >= 2
                        THEN {[longer EXCEPT !.status = "BODY", !.code = code] :
                                 code \in Codes}
                        ELSE {})
                       \cup (IF longer.len + 2 <= MaxLen THEN {longer} ELSE {})
        BY DEF Extended, longer
    <2> QED
        BY <2>1
<1> QED
    BY <1>3, <1>4, <1>5

LEMMA HeldRecords ==
    ASSUME TypeOK, NEW k \in Held(cash)
    PROVE  /\ k \in Keys
           /\ cash[k] \in Record(Clients)
           /\ cash[k].response \in Clients
    BY DEF TypeOK, Held, Record

LEMMA ConnectedRecord ==
    ASSUME NEW rec \in Record(Clients)
    PROVE  ConnectClient(rec) \in Record(Clients) /\ ConnectClient(rec).response = rec.response
<1> DEFINE mid == [rec EXCEPT !.active = @ + 1]
<1>1. mid \in Record(Clients) /\ mid.response = rec.response /\ mid.count = rec.count
    BY DEF Record
<1>2. ConnectClient(rec) = [mid EXCEPT !.count = @ + 1]
    BY <1>1 DEF ConnectClient, Record
<1> HIDE DEF mid
<1> QED
    BY <1>1, <1>2 DEF Record

(***************************************************************************)
(* What leaves the parts of Inv alone.                                     *)
(***************************************************************************)
SameLinks ==
    \A x \in Clients : /\ client'[x].request = client[x].request
                       /\ client'[x].response = client[x].response

CashShrinks ==
    \A k \in Held(cash') : k \in Held(cash) /\ cash'[k].response = cash[k].response

FewerEvents ==
    \A x \in Clients : sready'[x] \subseteq sready[x] /\ cready'[x] \subseteq cready[x]

LEMMA KeysFrame ==
    ASSUME Inv, SameLinks, CashShrinks
    PROVE  KeysAgree'
    BY HeldRecords DEF Inv, KeysAgree, SameLinks, CashShrinks, Held

\* A Response keeps its type, and its code once its headers are complete.
LEMMA RecordsFrame ==
    ASSUME Inv, CashShrinks, UNCHANGED freed,
           \A s \in Clients : server'[s].response = server[s].response,
           \A r \in Clients :
              /\ response'[r].type = response[r].type
              /\ response'[r].code = response[r].code
              /\ response[r].status # "HEADERS" => response'[r].status # "HEADERS"
    PROVE  RecordsSound'
<1>1. \A k \in Held(cash') : cash[k].response \in Clients
    BY HeldRecords DEF Inv, CashShrinks
<1> QED
    BY <1>1 DEF Inv, RecordsSound, CashShrinks, Held

\* Nothing but the thread's place and the events of the pass changes.
LEMMA QuietStep ==
    ASSUME Inv, TypeOK', UNCHANGED <<accepted, objects>>, FewerEvents,
           \/ pc' = pc \/ pc' \in Stopped
           \/ \A s \in Clients : sready'[s] = {}
    PROVE  Inv'
<1>1. SameLinks /\ CashShrinks
    BY DEF SameLinks, CashShrinks, objects
<1>2. ServersLinked'
    BY DEF Inv, ServersLinked, FewerEvents, objects
<1>3. ClientsLinked'
    BY DEF Inv, ClientsLinked, Attached, FewerEvents, objects
<1>4. RecordsSound'
    BY <1>1, RecordsFrame DEF objects
<1> QED
    BY <1>1, <1>2, <1>3, <1>4, KeysFrame DEF Inv

\* A handler changes status, events or count of one client and nothing else.
LEMMA ClientStep ==
    ASSUME Inv, NEW c \in Clients, NEW new \in ClientObject,
           client' = [client EXCEPT ![c] = new],
           new.request = client[c].request, new.response = client[c].response,
           new.events \subseteq client[c].events,
           new.status = "PAUSE" => Attached(c),
           cready' = [cready EXCEPT ![c] = cready'[c]],
           cready'[c] \subseteq cready[c], cready'[c] \ {"HUP"} \subseteq new.events,
           hellos' \in Nat, alarms' \in 0..MaxAlarms,
           UNCHANGED <<pc, exiting, accepted, clients, servers, server, response, freed,
                       cash, ready, sready>>
    PROVE  Inv'
<1>1. /\ client \in [Clients -> ClientObject]
      /\ cready \in [Clients -> SUBSET {"HUP", "IN", "OUT"}]
    BY DEF Inv, TypeOK
<1>2. TypeOK'
    <2>1. client' \in [Clients -> ClientObject]
        BY <1>1
    <2>2. cready' \in [Clients -> SUBSET {"HUP", "IN", "OUT"}]
        BY <1>1
    <2> QED
        BY <2>1, <2>2 DEF Inv, TypeOK
<1>3. SameLinks
    BY <1>1 DEF SameLinks
<1>4. ServersLinked'
    BY <1>3 DEF Inv, ServersLinked, SameLinks
<1>5. ClientsLinked'
    BY <1>1 DEF Inv, ClientsLinked, Attached
<1>6. KeysAgree' /\ RecordsSound'
    BY <1>3, KeysFrame, RecordsFrame DEF CashShrinks
<1> QED
    BY <1>2, <1>4, <1>5, <1>6 DEF Inv

\* A handler works for server s: the server may stop, its Response may grow.
LEMMA ServerStep ==
    ASSUME Inv, NEW s \in Clients, NEW new \in ServerObject, NEW resp \in ResponseObject,
           server' = [server EXCEPT ![s] = new],
           new.response = server[s].response, new.events \subseteq server[s].events,
           response' = [response EXCEPT ![s] = resp],
           resp.type = response[s].type,
           resp.code = response[s].code,
           response[s].status # "HEADERS" => resp.status # "HEADERS",
           sready' = [sready EXCEPT ![s] = {}],
           hellos' \in Nat, alarms' \in 0..MaxAlarms,
           UNCHANGED <<pc, exiting, accepted, clients, servers, client, freed, cash, ready,
                       cready>>
    PROVE  Inv'
<1>1. /\ server \in [Clients -> ServerObject]
      /\ response \in [Responses -> ResponseObject]
      /\ sready \in [Clients -> SUBSET {"IN", "OUT"}]
    BY DEF Inv, TypeOK
<1>2. TypeOK'
    <2>1. /\ server' \in [Clients -> ServerObject]
          /\ response' \in [Responses -> ResponseObject]
          /\ sready' \in [Clients -> SUBSET {"IN", "OUT"}]
        BY <1>1
    <2> QED
        BY <2>1 DEF Inv, TypeOK
<1>3. SameLinks /\ CashShrinks
    BY DEF SameLinks, CashShrinks
<1>4. ServersLinked'
    BY <1>1 DEF Inv, ServersLinked
<1>5. ClientsLinked'
    BY DEF Inv, ClientsLinked, Attached
<1>6. RecordsSound'
    <2>1. \A x \in Clients : server'[x].response = server[x].response
        BY <1>1
    <2>2. \A r \in Clients :
              /\ response'[r].type = response[r].type
              /\ response'[r].code = response[r].code
              /\ response[r].status # "HEADERS" => response'[r].status # "HEADERS"
        BY <1>1 DEF Responses
    <2> QED
        BY <1>3, <2>1, <2>2, RecordsFrame
<1> QED
    BY <1>2, <1>3, <1>4, <1>5, <1>6, KeysFrame DEF Inv

(***************************************************************************)
(* builder().                                                              *)
(***************************************************************************)
\* Counters change, records do not appear or move.
LEMMA DisconnectShrinks ==
    ASSUME TypeOK, NEW leaving \in [Keys -> Nat]
    PROVE  LET after == DisconnectToRecord(cash, leaving) IN
           /\ after \in [Keys -> Record(Clients) \cup {NoRecord}]
           /\ Held(after) = Held(cash)
           /\ \A k \in Held(cash) : after[k].response = cash[k].response
<1> DEFINE after == DisconnectToRecord(cash, leaving)
<1>1. DOMAIN cash = Keys
    BY DEF TypeOK
<1>2. \A k \in Held(cash) :
          /\ after[k] \in Record(Clients)
          /\ after[k].response = cash[k].response
    <2> TAKE k \in Held(cash)
    <2>1. k \in Keys /\ cash[k] \in Record(Clients) /\ cash[k] # NoRecord
        BY HeldRecords DEF Held
    <2>2. after[k] = [cash[k] EXCEPT !.active = @ - leaving[k]]
        BY <1>1, <2>1 DEF DisconnectToRecord
    <2> QED
        BY <2>1, <2>2 DEF Record
<1>3. \A k \in Keys \ Held(cash) : after[k] = NoRecord
    BY <1>1 DEF DisconnectToRecord, Held
<1>4. DOMAIN after = Keys
    BY <1>1 DEF DisconnectToRecord
<1>5. after \in [Keys -> Record(Clients) \cup {NoRecord}]
    BY <1>1, <1>2, <1>3, <1>4 DEF DisconnectToRecord, Held
<1>6. Held(after) = Held(cash)
    BY <1>1, <1>2, <1>3, <1>4, RequestAssumption DEF Held
<1> QED
    BY <1>2, <1>5, <1>6

LEMMA SweepClientsPreservesInv ==
    ASSUME Inv, SweepClients
    PROVE  Inv'
<1>1. client \in [Clients -> ClientObject] /\ clients \subseteq Clients
    BY DEF Inv, TypeOK
<1>2. LeavingClients \in [Keys -> Nat]
    <2>1. \A k \in Keys : {c \in StoppedClients :
              Attached(c) /\ Counted(client[c].response) /\ Key(client[c].request) = k}
                 \in SUBSET Clients
        BY <1>1 DEF StoppedClients
    <2> QED
        BY <2>1, ClientsFinite DEF LeavingClients
<1>3. /\ cash' \in [Keys -> Record(Clients) \cup {NoRecord}]
      /\ CashShrinks
    BY <1>2, DisconnectShrinks DEF Inv, SweepClients, CashShrinks
<1>4. \A c \in Clients :
          /\ client'[c] \in ClientObject
          /\ client'[c].request = client[c].request
          /\ client'[c].response = client[c].response
          /\ \/ client'[c] = client[c]
             \/ /\ client[c].status = "PAUSE"
                /\ client'[c].status = "ACTIVE"
                /\ client'[c].events = client[c].events \cup {"OUT"}
    <2> TAKE c \in Clients
    <2>1. client[c] \in ClientObject
        BY <1>1
    <2>2. CASE c \in clients /\ Resumable(c)
        <3>1. client'[c] = [client[c] EXCEPT !.status = "ACTIVE", !.events = @ \cup {"OUT"}]
            BY <2>2 DEF SweepClients
        <3> QED
            BY ZenonT(60), <2>1, <2>2, <3>1 DEF Resumable, ClientObject
    <2>3. CASE ~(c \in clients /\ Resumable(c))
        BY <2>1, <2>3 DEF SweepClients
    <2> QED
        BY <2>2, <2>3
<1>5. client' \in [Clients -> ClientObject]
    BY <1>4 DEF SweepClients
<1>6. freed' \subseteq Responses
    <2>1. \A c \in StoppedClients : Attached(c) => client[c].response \in Responses
        BY <1>1 DEF StoppedClients, Attached, ClientObject
    <2>2. freed' = freed \cup {client[c].response : c \in {d \in StoppedClients :
                    Attached(d) /\ Deletable(client[d].response)}}
        BY DEF SweepClients
    <2>3. freed \subseteq Responses
        BY DEF Inv, TypeOK
    <2> QED
        BY <2>1, <2>2, <2>3
<1>7. TypeOK'
    BY <1>3, <1>5, <1>6 DEF Inv, TypeOK, SweepClients, Stages, pass, signals
<1>8. ServersLinked'
    <2>1. UNCHANGED <<server, servers, sready>> /\ pc = "sweepClients"
        BY DEF SweepClients, pass
    <2> QED
        BY <1>4, <2>1 DEF Inv, ServersLinked, Stopped
<1>9. ClientsLinked'
    <2>1. clients' \subseteq clients /\ UNCHANGED <<accepted, cready>>
        BY DEF SweepClients, pass
    <2> QED
        BY <1>4, <2>1 DEF Inv, ClientsLinked, Attached
<1>10. KeysAgree'
    BY <1>3, <1>4, KeysFrame DEF SameLinks
<1>11. RecordsSound'
    <2>1. \A r \in freed' : r \in freed \/ response[r].type = "NO_CASH"
        BY DEF SweepClients, Deletable
    <2>2. \A k \in Held(cash') : cash'[k].response \notin freed'
        BY <1>3, <2>1 DEF Inv, RecordsSound, CashShrinks
    <2>3. UNCHANGED <<server, response>>
        BY DEF SweepClients
    <2> QED
        BY <1>3, <2>2, <2>3 DEF Inv, RecordsSound, CashShrinks
<1> QED
    BY <1>7, <1>8, <1>9, <1>10, <1>11 DEF Inv

LEMMA SweepServersPreservesInv ==
    ASSUME Inv, SweepServers
    PROVE  Inv'
<1>1. /\ server \in [Clients -> ServerObject] /\ servers \subseteq Clients
      /\ response \in [Responses -> ResponseObject]
    BY DEF Inv, TypeOK
<1>2. PICK release \in [StoppedServers -> Keys \cup {Null}] :
          cash' = DisconnectToRecord(cash,
              [k \in Keys |-> Cardinality({s \in StoppedServers : release[s] = k})])
    BY DEF SweepServers
<1>3. [k \in Keys |-> Cardinality({s \in StoppedServers : release[s] = k})] \in [Keys -> Nat]
    <2>1. \A k \in Keys : {s \in StoppedServers : release[s] = k} \in SUBSET Clients
        BY <1>1 DEF StoppedServers
    <2> QED
        BY <2>1, ClientsFinite
<1>4. cash' \in [Keys -> Record(Clients) \cup {NoRecord}] /\ CashShrinks
    BY <1>2, <1>3, DisconnectShrinks DEF Inv, CashShrinks
<1>5. \A r \in Responses :
          /\ response'[r] \in ResponseObject
          /\ response'[r].code = response[r].code
          /\ response'[r].status = response[r].status
          /\ response'[r].type \in {response[r].type, "FAIL"}
    BY <1>1 DEF SweepServers, ResponseObject
<1>6. TypeOK'
    <2>1. response' \in [Responses -> ResponseObject]
        BY <1>5 DEF SweepServers
    <2> QED
        BY <1>4, <2>1 DEF Inv, TypeOK, SweepServers, Stages, pass, signals
<1>7. SameLinks
    BY DEF SameLinks, SweepServers
<1>8. ServersLinked'
    <2>1. \A s \in Clients : sready[s] = {}
        BY DEF Inv, ServersLinked, SweepServers, Stopped
    <2> QED
        BY <2>1 DEF Inv, ServersLinked, SweepServers, pass
<1>9. ClientsLinked'
    BY DEF Inv, ClientsLinked, Attached, SweepServers, pass
<1>10. RecordsSound'
    <2>1. \A k \in Held(cash') : cash[k].response \in Clients
        BY <1>4, HeldRecords DEF Inv, CashShrinks
    <2>2. \A r \in Clients : r \in Responses
        BY DEF Responses
    <2> QED
        BY <1>4, <1>5, <2>1, <2>2 DEF Inv, RecordsSound, SweepServers, CashShrinks, Held
<1> QED
    BY <1>4, <1>6, <1>7, <1>8, <1>9, <1>10, KeysFrame DEF Inv

(***************************************************************************)
(* executor(): the poll, the proxy's own descriptors, the servers.         *)
(***************************************************************************)
LEMMA PollPreservesInv ==
    ASSUME Inv, Poll
    PROVE  Inv'
<1>1. PICK sset \in SUBSET {s \in servers : server[s].events # {}},
           cset \in SUBSET {c \in clients : client[c].events # {}},
           hup \in SUBSET clients,
           own \in SUBSET {"connection", "cash"} :
              PollReady(sset, cset \ hup, hup, own)
    BY DEF Poll
<1>2. /\ server \in [Clients -> ServerObject]
      /\ client \in [Clients -> ClientObject]
      /\ \A x \in Clients : /\ server[x].events \subseteq {"IN", "OUT"}
                            /\ client[x].events \subseteq {"IN", "OUT"}
    BY DEF Inv, TypeOK, ServerObject, ClientObject
<1>3. /\ sready' = [s \in Clients |-> IF s \in sset THEN server[s].events ELSE {}]
      /\ cready' = [c \in Clients |-> IF c \in hup THEN {"HUP"}
                                      ELSE IF c \in cset \ hup THEN client[c].events
                                      ELSE {}]
      /\ ready' = own /\ pc' = "executor"
      /\ UNCHANGED <<exiting, accepted, objects, signals>>
    BY <1>1 DEF PollReady
<1>4. TypeOK'
    <2>1. /\ sready' \in [Clients -> SUBSET {"IN", "OUT"}]
          /\ cready' \in [Clients -> SUBSET {"HUP", "IN", "OUT"}]
        BY <1>2, <1>3
    <2> QED
        BY <1>3, <2>1 DEF Inv, TypeOK, Stages, objects, signals
<1>5. ServersLinked'
    BY <1>3 DEF Inv, ServersLinked, objects
<1>6. ClientsLinked'
    BY <1>3 DEF Inv, ClientsLinked, Attached, objects
<1>7. KeysAgree' /\ RecordsSound'
    BY <1>3, KeysFrame, RecordsFrame DEF SameLinks, CashShrinks, objects
<1> QED
    BY <1>4, <1>5, <1>6, <1>7 DEF Inv

\* The number of a new client is a fresh one: nothing refers to it.
LEMMA AddClientPreservesInv ==
    ASSUME Inv, AddClient
    PROVE  Inv'
<1> DEFINE c == accepted + 1
<1>1. /\ c \in Clients /\ c > accepted
      /\ client \in [Clients -> ClientObject]
    BY BoundsAssumption DEF Inv, TypeOK, AddClient, Clients
<1>2. NewClient \in ClientObject
    BY DEF NewClient, ClientObject
<1>3. client[c].request = Null /\ client[c].response = Null
    BY <1>1 DEF Inv, ClientsLinked
<1> HIDE DEF c
<1>4. /\ client' = [client EXCEPT ![c] = NewClient]
      /\ accepted' = accepted + 1 /\ clients' = clients \cup {c}
      /\ ready' \subseteq ready
      /\ UNCHANGED <<pc, exiting, servers, server, response, freed, cash, sready, cready,
                     signals>>
    BY DEF AddClient, c
<1>5. SameLinks
    BY <1>1, <1>3, <1>4 DEF SameLinks, NewClient
<1>6. TypeOK'
    <2>1. client' \in [Clients -> ClientObject]
        BY <1>1, <1>2, <1>4
    <2>2. accepted' \in 0..MaxClients /\ accepted' = c
        BY <1>1, <1>4 DEF Inv, TypeOK, Clients, c
    <2> QED
        BY <1>1, <1>4, <2>1, <2>2 DEF Inv, TypeOK, signals
<1>7. ServersLinked'
    BY <1>4, <1>5 DEF Inv, ServersLinked, SameLinks
<1>8. ClientsLinked'
    <2>1. cready[c] = {} /\ accepted \in Nat /\ Clients \subseteq Nat
        BY <1>1 DEF Inv, TypeOK, ClientsLinked, Clients
    <2> QED
        BY <1>1, <1>4, <2>1 DEF Inv, ClientsLinked, Attached, NewClient, c
<1>9. KeysAgree' /\ RecordsSound'
    BY <1>4, <1>5, KeysFrame, RecordsFrame DEF CashShrinks
<1> QED
    BY <1>6, <1>7, <1>8, <1>9 DEF Inv

LEMMA EventCashPreservesInv ==
    ASSUME Inv, EventCash
    PROVE  Inv'
<1>1. DOMAIN cash = Keys
    BY DEF Inv, TypeOK
<1>2. /\ cash' \in [Keys -> Record(Clients) \cup {NoRecord}]
      /\ CashShrinks
      /\ \A k \in Held(cash') : k \notin Evicted(cash, status)
    <2>1. \A k \in Held(cash) : /\ CleanCount(cash[k]) \in Record(Clients)
                                /\ CleanCount(cash[k]).response = cash[k].response
        BY HeldRecords DEF Inv, CleanCount, Record
    <2>2. cash' = [k \in Keys |-> IF k \in Held(cash) \ Evicted(cash, status)
                                  THEN CleanCount(cash[k]) ELSE NoRecord]
        BY <1>1 DEF EventCash, CleanUnnecessaryCash
    <2> QED
        BY <2>1, <2>2 DEF CashShrinks, Held
<1>3. freed' \subseteq Responses /\ hellos' \in Nat
    <2>1. \A k \in Evicted(cash, status) : cash[k].response \in Responses
        BY HeldRecords DEF Inv, Evicted, Responses
    <2> QED
        BY <2>1 DEF Inv, TypeOK, EventCash, Drained
<1>4. TypeOK'
    BY <1>2, <1>3 DEF Inv, TypeOK, EventCash
<1>5. ServersLinked' /\ ClientsLinked'
    BY DEF Inv, ServersLinked, ClientsLinked, Attached, EventCash
<1>6. KeysAgree'
    BY <1>2, KeysFrame DEF SameLinks, EventCash
<1>7. RecordsSound'
    \* Two records have two keys, so they have two responses.
    <2>1. \A k \in Held(cash), m \in Held(cash) :
             cash[k].response = cash[m].response => k = m
        BY DEF Inv, KeysAgree
    <2>2. Evicted(cash, status) \subseteq Held(cash)
        BY DEF Evicted
    <2>3. \A k \in Held(cash') : cash'[k].response \notin freed'
        BY <1>2, <2>1, <2>2 DEF Inv, RecordsSound, EventCash, CashShrinks
    <2>4. UNCHANGED <<server, response>>
        BY DEF EventCash
    <2> QED
        BY <1>2, <2>3, <2>4 DEF Inv, RecordsSound, CashShrinks
<1> QED
    BY <1>4, <1>5, <1>6, <1>7 DEF Inv

LEMMA ServerRecords ==
    ASSUME Inv, NEW s \in Clients
    PROVE  /\ server[s] \in ServerObject
           /\ response[s] \in ResponseObject
           /\ sready[s] # {} => s \in servers /\ client[s].request # Null
           /\ "IN" \in sready[s] => server[s].response = s
           /\ "OUT" \in sready[s] => server[s].response = Null /\ sready[s] = {"OUT"}
<1>1. /\ server[s] \in ServerObject
      /\ response[s] \in ResponseObject
      /\ sready[s] \subseteq {"IN", "OUT"}
    BY DEF Inv, TypeOK, Responses
<1>2. s # Null
    BY SentinelAssumption DEF Responses
<1> QED
    BY <1>1, <1>2 DEF Inv, ServersLinked

\* A write that fails leaves the pipe and the number of alarms in their types.
LEMMA WriteFailsTypes ==
    ASSUME Inv, NEW event, WriteFails(event)
    PROVE  hellos' \in Nat /\ alarms' \in 0..MaxAlarms
    BY BoundsAssumption DEF Inv, TypeOK, WriteFails, Ring, signals

LEMMA RequestSendFailsPreservesInv ==
    ASSUME Inv, NEW s \in Clients, RequestSendFails(s)
    PROVE  Inv'
<1> DEFINE new == [server[s] EXCEPT !.status = "STOP_FAILED", !.events = @ \ {"OUT"}]
<1>1. /\ new \in ServerObject
      /\ new.response = server[s].response /\ new.events \subseteq server[s].events
    BY ZenonT(60), ServerRecords DEF ServerObject
<1>2. server' = [server EXCEPT ![s] = new]
    BY DEF RequestSendFails
<1>3. sready' = [sready EXCEPT ![s] = {}]
    BY ServerRecords DEF RequestSendFails, Sending, Visited
<1>4. response' = [response EXCEPT ![s] = response[s]]
    BY DEF RequestSendFails, Inv, TypeOK
<1>5. hellos' \in Nat /\ alarms' \in 0..MaxAlarms
    BY WriteFailsTypes DEF RequestSendFails
<1> HIDE DEF new
<1> QED
    BY <1>1, <1>2, <1>3, <1>4, <1>5, ServerRecords, ServerStep DEF RequestSendFails

\* The first response a server gives out: nobody knows it yet.
LEMMA RequestSentPreservesInv ==
    ASSUME Inv, NEW s \in Clients, RequestSent(s)
    PROVE  Inv'
<1>1. /\ server[s] \in ServerObject /\ server[s].response = Null
      /\ client[s].request # Null /\ s # Null /\ s \in Responses
    BY ServerRecords, SentinelAssumption DEF RequestSent, Sending, Responses
<1>2. /\ server \in [Clients -> ServerObject]
      /\ client \in [Clients -> ClientObject]
      /\ response \in [Responses -> ResponseObject]
    BY DEF Inv, TypeOK
<1>3. /\ server'[s].response = s /\ server'[s].events = (server[s].events \ {"OUT"}) \cup {"IN"}
      /\ server' \in [Clients -> ServerObject]
      /\ \A x \in Clients \ {s} : server'[x] = server[x]
    BY <1>1, <1>2 DEF RequestSent, ResponseMode, ServerObject
<1>4. /\ client' \in [Clients -> ClientObject]
      /\ client'[s].response = s
      /\ \A x \in Clients : /\ client'[x].request = client[x].request
                            /\ client'[x].events = client[x].events
                            /\ client'[x].status = client[x].status
                            /\ x # s => client'[x].response = client[x].response
    BY <1>1, <1>2 DEF RequestSent, ClientObject
<1>5. /\ response' \in [Responses -> ResponseObject]
      /\ response'[s] = NewResponse
      /\ \A r \in Responses \ {s} : response'[r] = response[r]
    BY <1>1, <1>2 DEF RequestSent, NewResponse, ResponseObject
<1>6. sready' \in [Clients -> SUBSET {"IN", "OUT"}] /\ sready' = [sready EXCEPT ![s] = {}]
    BY ServerRecords DEF RequestSent, Sending, Visited, Inv, TypeOK
<1>7. TypeOK'
    BY <1>3, <1>4, <1>5, <1>6 DEF Inv, TypeOK, RequestSent, signals
<1>8. ServersLinked'
    BY <1>3, <1>4, <1>6 DEF Inv, TypeOK, ServersLinked, RequestSent
<1>9. ClientsLinked'
    BY <1>1, <1>4 DEF Inv, ClientsLinked, Attached, RequestSent
<1>10. KeysAgree'
    BY <1>1, <1>4, HeldRecords DEF Inv, KeysAgree, RequestSent, Held
<1>11. RecordsSound'
    <2>1. \A k \in Held(cash) : cash[k].response \in Clients \ {s}
        BY <1>1, HeldRecords DEF Inv, RecordsSound
    <2>2. \A r \in Clients : r \in Responses
        BY DEF Responses
    <2>3. UNCHANGED <<cash, freed>>
        BY DEF RequestSent
    <2> QED
        BY <1>3, <1>5, <2>1, <2>2, <2>3 DEF Inv, RecordsSound, NewResponse
<1> QED
    BY <1>7, <1>8, <1>9, <1>10, <1>11 DEF Inv

\* What a read handler of server s works on.
LEMMA Readable ==
    ASSUME Inv, NEW s \in Clients, Receiving(s)
    PROVE  /\ server[s].response = s
           /\ hellos \in Nat /\ alarms \in 0..MaxAlarms
           /\ Visited(sready, s, "IN") = [sready EXCEPT ![s] = {}]
           /\ server = [server EXCEPT ![s] = server[s]]
           /\ \A how \in {"STOP_SUCCESS", "STOP_FAILED"} :
                 LET new == [server[s] EXCEPT !.status = how, !.events = @ \ {"IN"}] IN
                 /\ new \in ServerObject
                 /\ new.response = server[s].response /\ new.events \subseteq server[s].events
                 /\ StopServer(s, how) => server' = [server EXCEPT ![s] = new]
<1>1. server[s].response = s
    BY ServerRecords DEF Receiving
<1>2. Visited(sready, s, "IN") = [sready EXCEPT ![s] = {}]
    BY DEF Receiving, Visited
<1>3. /\ hellos \in Nat /\ alarms \in 0..MaxAlarms
      /\ server = [server EXCEPT ![s] = server[s]]
    BY DEF Inv, TypeOK
<1>4. ASSUME NEW how \in {"STOP_SUCCESS", "STOP_FAILED"}
      PROVE  LET new == [server[s] EXCEPT !.status = how, !.events = @ \ {"IN"}] IN
             /\ new \in ServerObject
             /\ new.response = server[s].response /\ new.events \subseteq server[s].events
             /\ StopServer(s, how) => server' = [server EXCEPT ![s] = new]
    <2> DEFINE new == [server[s] EXCEPT !.status = how, !.events = @ \ {"IN"}]
    <2>1. /\ new \in ServerObject
          /\ new.response = server[s].response /\ new.events \subseteq server[s].events
        BY ZenonT(60), ServerRecords DEF ServerObject
    <2>2. StopServer(s, how) => server' = [server EXCEPT ![s] = new]
        BY DEF StopServer
    <2> QED
        BY <2>1, <2>2
<1> QED
    BY <1>1, <1>2, <1>3, <1>4

LEMMA ResponseEndsPreservesInv ==
    ASSUME Inv, NEW s \in Clients, ResponseEnds(s)
    PROVE  Inv'
<1> DEFINE new == [server[s] EXCEPT !.status = "STOP_SUCCESS", !.events = @ \ {"IN"}]
           resp == [response[s] EXCEPT !.status = "END"]
<1>1. Receiving(s) /\ StopServer(s, "STOP_SUCCESS")
    BY DEF ResponseEnds
<1>2. /\ new \in ServerObject /\ new.response = server[s].response
      /\ new.events \subseteq server[s].events /\ server' = [server EXCEPT ![s] = new]
    BY <1>1, Readable
<1>3. /\ resp \in ResponseObject /\ resp.type = response[s].type
      /\ resp.code = response[s].code /\ resp.status = "END"
    BY ServerRecords DEF ResponseObject
<1>4. response' = [response EXCEPT ![s] = resp]
    BY <1>1, Readable DEF ResponseEnds
<1>5. /\ sready' = [sready EXCEPT ![s] = {}]
      /\ hellos' \in Nat /\ alarms' \in 0..MaxAlarms
    BY <1>1, Readable DEF ResponseEnds, signals
<1> HIDE DEF new, resp
<1> QED
    BY <1>2, <1>3, <1>4, <1>5, ServerStep DEF ResponseEnds

LEMMA ResponseFailsPreservesInv ==
    ASSUME Inv, NEW s \in Clients, ResponseFails(s)
    PROVE  Inv'
<1> DEFINE new == [server[s] EXCEPT !.status = "STOP_FAILED", !.events = @ \ {"IN"}]
<1>1. Receiving(s) /\ StopServer(s, "STOP_FAILED")
    BY DEF ResponseFails
<1>2. /\ new \in ServerObject /\ new.response = server[s].response
      /\ new.events \subseteq server[s].events /\ server' = [server EXCEPT ![s] = new]
    BY <1>1, Readable
<1>3. response' = [response EXCEPT ![s] = response[s]] /\ response[s] \in ResponseObject
    BY DEF ResponseFails, Inv, TypeOK, Responses
<1>4. /\ sready' = [sready EXCEPT ![s] = {}]
      /\ hellos' \in Nat /\ alarms' \in 0..MaxAlarms
    BY <1>1, Readable DEF ResponseFails, signals
<1> HIDE DEF new
<1> QED
    BY <1>2, <1>3, <1>4, ServerStep DEF ResponseFails

LEMMA ResponseGrowsPreservesInv ==
    ASSUME Inv, NEW s \in Clients, ResponseGrows(s)
    PROVE  Inv'
<1>1. Receiving(s)
    BY DEF ResponseGrows
<1>2. PICK n \in ReadSizes : \E resp \in Extended(response[s], n) :
          /\ ~HeaderReceived(response[s], resp, n)
          /\ response' = [response EXCEPT ![s] = resp]
    BY <1>1, Readable DEF ResponseGrows
<1>3. PICK resp \in Extended(response[s], n) :
          /\ ~HeaderReceived(response[s], resp, n)
          /\ response' = [response EXCEPT ![s] = resp]
    BY <1>2
<1>4. /\ resp \in ResponseObject /\ resp.type = response[s].type
      /\ resp.code = response[s].code /\ resp.status = response[s].status
    BY <1>3, ServerRecords, ExtendedOnlyAppends DEF HeaderReceived
<1>5. /\ sready' = [sready EXCEPT ![s] = {}]
      /\ hellos' \in Nat /\ alarms' \in 0..MaxAlarms
      /\ server' = [server EXCEPT ![s] = server[s]]
    BY <1>1, Readable DEF ResponseGrows, signals
<1> QED
    BY <1>3, <1>4, <1>5, ServerRecords, ServerStep DEF ResponseGrows

LEMMA FallsThroughPreservesInv ==
    ASSUME Inv, NEW s \in Clients, ResponseFallsThrough(s)
    PROVE  Inv'
<1> DEFINE new == [server[s] EXCEPT !.status = "STOP_FAILED", !.events = @ \ {"IN"}]
<1>1. Receiving(s) /\ StopServer(s, "STOP_FAILED")
    BY DEF ResponseFallsThrough
<1>2. PICK n \in ReadSizes : \E resp \in Extended(response[s], n) :
          resp.code = "none" /\ response' = [response EXCEPT ![s] = resp]
    BY <1>1, Readable DEF ResponseFallsThrough
<1>3. PICK resp \in Extended(response[s], n) :
          resp.code = "none" /\ response' = [response EXCEPT ![s] = resp]
    BY <1>2
<1>4. /\ resp \in ResponseObject /\ resp.type = response[s].type
      /\ resp.code = response[s].code /\ resp.status = response[s].status
    BY <1>3, ServerRecords, ExtendedOnlyAppends
<1>5. /\ new \in ServerObject /\ new.response = server[s].response
      /\ new.events \subseteq server[s].events /\ server' = [server EXCEPT ![s] = new]
    BY <1>1, Readable
<1>6. /\ sready' = [sready EXCEPT ![s] = {}]
      /\ hellos' \in Nat /\ alarms' \in 0..MaxAlarms
    BY <1>1, Readable DEF ResponseFallsThrough, signals
<1> HIDE DEF new
<1> QED
    BY <1>3, <1>4, <1>5, <1>6, ServerStep DEF ResponseFallsThrough

\* The headers are complete: the response gets its type and, with status 200,
\* a record under the key its own client asked for.
LEMMA AddRecordHolds ==
    ASSUME TypeOK, NEW k \in Keys, NEW r \in Clients, cash' = AddRecord(cash, k, r)
    PROVE  /\ cash' \in [Keys -> Record(Clients) \cup {NoRecord}]
           /\ \A m \in Held(cash') :
                 \/ m = k /\ cash'[m].response = r
                 \/ m \in Held(cash) /\ cash'[m].response = cash[m].response
<1> DEFINE fresh == ConnectClient(NewRecord(r))
<1>1. cash \in [Keys -> Record(Clients) \cup {NoRecord}]
    BY DEF TypeOK
<1>2. NewRecord(r) \in Record(Clients) /\ NewRecord(r).response = r
    BY DEF NewRecord, Record
<1>3. fresh \in Record(Clients) /\ fresh.response = r
    BY <1>2, ConnectedRecord
<1> HIDE DEF fresh
<1>4. cash' = [cash EXCEPT ![k] = IF cash[k] = NoRecord THEN fresh ELSE cash[k]]
    BY DEF AddRecord, fresh
<1>5. /\ cash' \in [Keys -> Record(Clients) \cup {NoRecord}]
      /\ \A m \in Keys : \/ m = k /\ cash'[m] = fresh
                         \/ cash'[m] = cash[m]
    BY <1>1, <1>3, <1>4
<1> QED
    BY <1>1, <1>3, <1>5 DEF Held

LEMMA HeaderPreservesInv ==
    ASSUME Inv, NEW s \in Clients, ResponseHeader(s)
    PROVE  Inv'
<1>1. Receiving(s) /\ s \in servers /\ client[s].request # Null /\ server[s].response = s
    BY Readable, ServerRecords DEF ResponseHeader, Receiving
<1>2. PICK n \in ReadSizes : \E resp \in Extended(response[s], n) :
          /\ resp.code # "none"
          /\ \/ /\ resp.code = "OK"
                /\ response' = [response EXCEPT ![s] = [resp EXCEPT !.type = "CASHED"]]
                /\ cash' = AddRecord(cash, Key(client[s].request), s)
             \/ /\ resp.code # "OK"
                /\ response' = [response EXCEPT ![s] = [resp EXCEPT !.type = "NO_CASH"]]
                /\ cash' = cash
    BY <1>1 DEF ResponseHeader, Cacheable
<1>3. PICK resp \in Extended(response[s], n) :
          /\ resp.code # "none"
          /\ \/ /\ resp.code = "OK"
                /\ response' = [response EXCEPT ![s] = [resp EXCEPT !.type = "CASHED"]]
                /\ cash' = AddRecord(cash, Key(client[s].request), s)
             \/ /\ resp.code # "OK"
                /\ response' = [response EXCEPT ![s] = [resp EXCEPT !.type = "NO_CASH"]]
                /\ cash' = cash
    BY <1>2
<1>4. /\ resp \in ResponseObject
      /\ \/ resp.code = response[s].code /\ resp.status = response[s].status
         \/ response[s].status = "HEADERS" /\ resp.status = "BODY"
    BY ServerRecords, ExtendedOnlyAppends
<1>5. /\ response' \in [Responses -> ResponseObject]
      /\ \A r \in Responses \ {s} : response'[r] = response[r]
      /\ response'[s].code = resp.code /\ response'[s].status = resp.status
      /\ resp.code = "OK" => response'[s].type = "CASHED"
      /\ resp.code # "OK" => (response'[s].type = "NO_CASH" /\ resp.code = "NO_OK")
    <2>1. response \in [Responses -> ResponseObject] /\ s \in Responses
        BY DEF Inv, TypeOK, Responses
    <2> DEFINE new(type) == [resp EXCEPT !.type = type]
    <2>2. PICK type \in {"CASHED", "NO_CASH"} :
              /\ response' = [response EXCEPT ![s] = new(type)]
              /\ resp.code = "OK" <=> type = "CASHED"
        BY <1>3
    <2>3. /\ new(type) \in ResponseObject
          /\ new(type).code = resp.code
          /\ new(type).status = resp.status /\ new(type).type = type
          /\ resp.code \in {"OK", "NO_OK"}
        BY <1>3, <1>4 DEF ResponseObject
    <2> HIDE DEF new
    <2> QED
        BY <2>1, <2>2, <2>3
<1>6. Key(client[s].request) \in Keys
    BY <1>1 DEF Inv, TypeOK, ClientObject, Keys
<1>7. /\ cash' \in [Keys -> Record(Clients) \cup {NoRecord}]
      /\ \A m \in Held(cash') :
            \/ m = Key(client[s].request) /\ cash'[m].response = s /\ resp.code = "OK"
            \/ m \in Held(cash) /\ cash'[m].response = cash[m].response
    <2>1. CASE resp.code = "OK"
        BY <1>3, <1>6, <2>1, AddRecordHolds DEF Inv
    <2>2. CASE resp.code # "OK"
        BY <1>3, <2>2 DEF Inv, TypeOK
    <2> QED
        BY <2>1, <2>2
<1>8. /\ client' = [client EXCEPT ![s].events = @ \cup {"OUT"}]
      /\ sready' = [sready EXCEPT ![s] = {}]
      /\ s \notin freed
      /\ UNCHANGED <<pc, exiting, accepted, clients, servers, server, freed, ready, cready,
                     signals>>
    BY <1>1, Readable DEF ResponseHeader, Receiving
<1>9. /\ client' \in [Clients -> ClientObject]
      /\ \A x \in Clients : /\ client'[x].request = client[x].request
                            /\ client'[x].response = client[x].response
                            /\ client'[x].status = client[x].status
                            /\ x # s => client'[x].events = client[x].events
                            /\ client'[s].events = client[s].events \cup {"OUT"}
    BY <1>8 DEF Inv, TypeOK, ClientObject
<1>10. TypeOK'
    <2>1. sready' \in [Clients -> SUBSET {"IN", "OUT"}]
        BY <1>8 DEF Inv, TypeOK
    <2> QED
        BY <1>5, <1>7, <1>8, <1>9, <2>1 DEF Inv, TypeOK, signals
<1>11. ServersLinked'
    BY <1>8, <1>9 DEF Inv, TypeOK, ServersLinked
<1>12. ClientsLinked'
    <2>1. client[s].response # Null
        BY <1>1, SentinelAssumption DEF Inv, ServersLinked, Responses
    <2> QED
        BY <1>8, <1>9, <2>1 DEF Inv, ClientsLinked, Attached
<1>13. KeysAgree'
    BY <1>1, <1>7, <1>9, HeldRecords DEF Inv, KeysAgree
<1>14. RecordsSound'
    <2>1. \A m \in Held(cash) : cash[m].response \in Clients
        BY HeldRecords DEF Inv
    <2>2. \A r \in Clients : r \in Responses
        BY DEF Responses
    <2>3. response[s].code # "none" => response[s].status # "HEADERS"
        BY DEF Inv, RecordsSound
    <2>4. /\ resp.status # "HEADERS"
          /\ response[s].code = "OK" => resp.code = "OK"
        BY <1>3, <1>4, <2>3
    <2>5. \A m \in Held(cash') :
              LET r == cash'[m].response IN
              /\ r \notin freed
              /\ server[r].response = r
              /\ response'[r].code = "OK"
              /\ response'[r].status # "HEADERS"
              /\ response'[r].type \in {"CASHED", "FAIL"}
        BY <1>1, <1>5, <1>7, <1>8, <2>1, <2>2, <2>4 DEF Inv, RecordsSound
    <2>6. \A r \in Clients :
              /\ response'[r].code # "none" => response'[r].status # "HEADERS"
              /\ response'[r].type = "NO_CASH" => response'[r].code = "NO_OK"
        BY <1>5, <2>2, <2>4 DEF Inv, RecordsSound
    <2> QED
        BY <1>8, <2>5, <2>6 DEF RecordsSound
<1> QED
    BY <1>10, <1>11, <1>12, <1>13, <1>14 DEF Inv

(***************************************************************************)
(* executor(): the clients.                                                *)
(***************************************************************************)
LEMMA ClientRecords ==
    ASSUME Inv, NEW c \in Clients
    PROVE  /\ client[c] \in ClientObject
           /\ client \in [Clients -> ClientObject]
           /\ cready \in [Clients -> SUBSET {"HUP", "IN", "OUT"}]
           /\ cready[c] \ {"HUP"} \subseteq client[c].events
           /\ cready[c] # {} => c <= accepted
           /\ hellos \in Nat /\ alarms \in 0..MaxAlarms
    BY DEF Inv, TypeOK, ClientsLinked

LEMMA HangupPreservesInv ==
    ASSUME Inv, NEW c \in Clients, ClientHangup(c)
    PROVE  Inv'
<1> DEFINE new == [client[c] EXCEPT !.status = "STOP_FAILED", !.events = {}]
<1>1. /\ new \in ClientObject /\ new.status = "STOP_FAILED" /\ new.events = {}
      /\ new.request = client[c].request /\ new.response = client[c].response
    BY ClientRecords DEF ClientObject
<1>2. client' = [client EXCEPT ![c] = new]
    BY DEF ClientHangup
<1>3. cready' = [cready EXCEPT ![c] = cready'[c]] /\ cready'[c] = {}
    BY ClientRecords DEF ClientHangup
<1> HIDE DEF new
<1> QED
    BY <1>1, <1>2, <1>3, ClientRecords, ClientStep DEF ClientHangup, signals

LEMMA RequestFailsPreservesInv ==
    ASSUME Inv, NEW c \in Clients, RequestFails(c)
    PROVE  Inv'
<1> DEFINE new == [client[c] EXCEPT !.status = "STOP_FAILED", !.events = @ \ {"IN"}]
<1>1. /\ new \in ClientObject /\ new.status = "STOP_FAILED"
      /\ new.events = client[c].events \ {"IN"}
      /\ new.request = client[c].request /\ new.response = client[c].response
    BY ClientRecords DEF ClientObject
<1>2. client' = [client EXCEPT ![c] = new]
    BY DEF RequestFails
<1>3. /\ cready' = [cready EXCEPT ![c] = cready'[c]]
      /\ cready'[c] = cready[c] \ {"IN"}
      /\ cready'[c] \ {"HUP"} \subseteq new.events
    BY <1>1, ClientRecords DEF RequestFails, Visited
<1> HIDE DEF new
<1> QED
    BY <1>1, <1>2, <1>3, ClientRecords, ClientStep DEF RequestFails, signals

LEMMA DisabledClient ==
    ASSUME NEW obj \in ClientObject, NEW sent \in Int,
           NEW how \in {"ACTIVE", "PAUSE", "STOP_SUCCESS", "STOP_FAILED"}
    PROVE  LET new == Disabled(obj, sent, how) IN
           /\ new \in ClientObject
           /\ new.status = how /\ new.events = obj.events \ {"OUT"}
           /\ new.request = obj.request /\ new.response = obj.response
<1> DEFINE mid == [obj EXCEPT !.current = sent]
<1>1. /\ mid \in ClientObject /\ mid.events = obj.events
      /\ mid.request = obj.request /\ mid.response = obj.response
    BY DEF ClientObject
<1>2. Disabled(obj, sent, how) = [mid EXCEPT !.status = how, !.events = @ \ {"OUT"}]
    BY <1>1 DEF Disabled, ClientObject
<1> HIDE DEF mid
<1> QED
    BY ZenonT(60), <1>1, <1>2 DEF ClientObject

\* The three outcomes of send_response that write bytes.
LEMMA ResponseSentPreservesInv ==
    ASSUME Inv, NEW c \in Clients, ResponseSent(c)
    PROVE  Inv'
<1> DEFINE r == client[c].response
           left == response[r].len - client[c].current
           all(n) == Disabled(client[c], client[c].current + n, "STOP_SUCCESS")
           none == Disabled(client[c], client[c].current, "PAUSE")
           part(n) == [client[c] EXCEPT !.current = @ + n]
<1>1. /\ cready[c] = {"OUT"} /\ Attached(c)
      /\ cready' = [cready EXCEPT ![c] = cready'[c]] /\ cready'[c] = {}
    BY ClientRecords DEF ResponseSent, Writing, Visited, Inv, ClientsLinked
<1>2. PICK n \in 0..left :
          client' = [client EXCEPT ![c] =
             IF n = left /\ response[r].status = "END" THEN all(n)
             ELSE IF n = 0 THEN none ELSE part(n)]
    BY DEF ResponseSent
<1>3. /\ client[c] \in ClientObject /\ client[c].current \in Int
      /\ n \in Int /\ client[c].current + n \in Int
    BY <1>2, ClientRecords DEF ClientObject
<1>4. \A new \in {all(n), none, part(n)} :
          /\ new \in ClientObject
          /\ new.request = client[c].request /\ new.response = client[c].response
          /\ new.events \subseteq client[c].events
    <2>1. /\ part(n) \in ClientObject /\ part(n).events = client[c].events
          /\ part(n).request = client[c].request /\ part(n).response = client[c].response
        BY <1>3 DEF ClientObject
    <2>2. /\ all(n) \in ClientObject /\ none \in ClientObject
          /\ all(n).events = client[c].events \ {"OUT"}
          /\ none.events = client[c].events \ {"OUT"}
        BY ZenonT(60), <1>3, DisabledClient
    <2>3. /\ all(n).request = client[c].request /\ all(n).response = client[c].response
          /\ none.request = client[c].request /\ none.response = client[c].response
        BY ZenonT(60), <1>3, DisabledClient
    <2> HIDE DEF part, all, none
    <2> QED
        BY <2>1, <2>2, <2>3
<1>5. PICK new \in {all(n), none, part(n)} : client' = [client EXCEPT ![c] = new]
    <2> HIDE DEF all, none, part
    <2> QED
        BY <1>2
<1> HIDE DEF all, none, part
<1> QED
    BY <1>1, <1>4, <1>5, ClientRecords, ClientStep DEF ResponseSent, signals

LEMMA SendFailsPreservesInv ==
    ASSUME Inv, NEW c \in Clients, ResponseSendFails(c)
    PROVE  Inv'
<1> DEFINE new == Disabled(client[c], client[c].current - 1, "STOP_FAILED")
<1>1. client[c] \in ClientObject /\ client[c].current - 1 \in Int
    BY ClientRecords DEF ClientObject
<1>2. /\ new \in ClientObject /\ new.status = "STOP_FAILED"
      /\ new.events \subseteq client[c].events
      /\ new.request = client[c].request /\ new.response = client[c].response
    BY ZenonT(60), <1>1, DisabledClient
<1>3. /\ client' = [client EXCEPT ![c] = new]
      /\ cready' = [cready EXCEPT ![c] = cready'[c]] /\ cready'[c] = {}
    BY ClientRecords DEF ResponseSendFails, Visited, Writing
<1>4. hellos' \in Nat /\ alarms' \in 0..MaxAlarms
    BY WriteFailsTypes DEF ResponseSendFails
<1> HIDE DEF new
<1> QED
    BY <1>2, <1>3, <1>4, ClientStep DEF ResponseSendFails

LEMMA AskedClient ==
    ASSUME NEW obj \in ClientObject, NEW q \in Requests, NEW r \in Responses \cup {Null},
           NEW events \in SUBSET {"IN", "OUT"}
    PROVE  LET new == [obj EXCEPT !.request = q, !.response = r, !.events = events] IN
           /\ new \in ClientObject
           /\ new.request = q /\ new.response = r
           /\ new.events = events /\ new.status = obj.status
<1> DEFINE one == [obj EXCEPT !.request = q]
           two == [one EXCEPT !.response = r]
           new == [two EXCEPT !.events = events]
<1>1. one \in ClientObject /\ one.request = q /\ one.status = obj.status
    BY DEF ClientObject
<1>2. /\ two \in ClientObject /\ two.response = r
      /\ two.request = one.request /\ two.status = one.status
    <2> HIDE DEF one
    <2> QED
        BY <1>1 DEF ClientObject
<1>3. /\ new \in ClientObject /\ new.events = events
      /\ new.request = two.request /\ new.response = two.response
      /\ new.status = two.status
    <2> HIDE DEF two
    <2> QED
        BY <1>2 DEF ClientObject
<1>4. new = [obj EXCEPT !.request = q, !.response = r, !.events = events]
    OBVIOUS
<1> HIDE DEF one, two, new
<1> QED
    BY <1>1, <1>2, <1>3, <1>4

\* A client that has just asked: nothing refers to it yet, and the response it is
\* given, if it is not an error page, carries the key it asked for.
LEMMA AnswerStep ==
    ASSUME Inv, NEW c \in Clients, NEW q \in Requests, NEW r \in Responses \cup {Null},
           Answer(c, q, r),
           r \in Clients => client[r].request # Null /\ Key(client[r].request) = Key(q),
           cash' \in [Keys -> Record(Clients) \cup {NoRecord}], CashShrinks,
           \/ UNCHANGED <<servers, server>>
           \/ /\ servers' = servers \cup {c}
              /\ server' = [server EXCEPT ![c] = NewServer(NextTurn)]
    PROVE  Inv'
<1>1. /\ "IN" \in cready[c] /\ "IN" \in client[c].events
      /\ client[c].request = Null /\ client[c].response = Null
      /\ q # Null /\ c # Null /\ c <= accepted
      /\ \A x \in Clients : sready[x] = {}
    BY ClientRecords, SentinelAssumption
    DEF Answer, Asking, AtClient, Nobody, Inv, ClientsLinked, Responses
<1>2. /\ client' \in [Clients -> ClientObject]
      /\ client'[c].request = q /\ client'[c].response = r
      /\ client'[c].events = AnswerEvents(client[c].events, r)
      /\ client'[c].status = client[c].status
      /\ \A x \in Clients \ {c} : client'[x] = client[x]
    <2>1. AnswerEvents(client[c].events, r) \in SUBSET {"IN", "OUT"}
        BY ClientRecords DEF AnswerEvents, ClientObject
    <2> DEFINE new == [client[c] EXCEPT !.request = q, !.response = r,
                                        !.events = AnswerEvents(@, r)]
    <2>2. client' = [client EXCEPT ![c] = new]
        BY DEF Answer
    <2>3. /\ new \in ClientObject
          /\ new.request = q /\ new.response = r
          /\ new.events = AnswerEvents(client[c].events, r)
          /\ new.status = client[c].status
        <3>1. client[c] \in ClientObject
            BY ClientRecords
        <3>2. new \in ClientObject
            BY <2>1, <3>1, AskedClient
        <3>3. new.request = q /\ new.response = r
            BY <3>1 DEF ClientObject
        <3>4. new.events = AnswerEvents(client[c].events, r)
            BY <3>1 DEF ClientObject
        <3>5. new.status = client[c].status
            BY <3>1 DEF ClientObject
        <3> HIDE DEF new
        <3> QED
            BY <3>2, <3>3, <3>4, <3>5
    <2> HIDE DEF new
    <2> QED
        BY <2>2, <2>3, ClientRecords
<1>3. /\ cready' \in [Clients -> SUBSET {"HUP", "IN", "OUT"}]
      /\ cready' = [cready EXCEPT ![c] = @ \ {"IN"}]
    BY ClientRecords DEF Answer, Visited
<1>4. server[c].response = Null /\ c \notin servers
    BY <1>1 DEF Inv, ServersLinked
<1>5. /\ NewServer(NextTurn) \in ServerObject
      /\ NewServer(NextTurn).response = Null /\ NewServer(NextTurn).events = {"OUT"}
    <2>1. NextTurn \in Nat
        BY ClientsFinite DEF NextTurn
    <2> QED
        BY <2>1 DEF NewServer, ServerObject
<1>6. /\ server' \in [Clients -> ServerObject]
      /\ \A x \in Clients \ {c} : server'[x] = server[x]
      /\ server'[c].response = Null
      /\ server'[c] = server[c] \/ server'[c].events = {"OUT"}
      /\ servers' \subseteq servers \cup {c}
    BY <1>4, <1>5 DEF Inv, TypeOK
<1>7. UNCHANGED <<pc, exiting, accepted, clients, response, freed, ready, sready, signals>>
    BY DEF Answer
<1>8. TypeOK'
    BY <1>2, <1>3, <1>6, <1>7 DEF Inv, TypeOK, signals
<1>9. ServersLinked'
    BY <1>1, <1>2, <1>6, <1>7 DEF Inv, ServersLinked
<1>10. ClientsLinked'
    <2>1. /\ "IN" \notin client'[c].events
          /\ cready'[c] \ {"HUP"} \subseteq client'[c].events
          /\ "OUT" \in client'[c].events => "OUT" \in client[c].events \/ r # Null
        BY <1>2, <1>3, ClientRecords DEF AnswerEvents
    <2>2. /\ client[c].status # "PAUSE" /\ "OUT" \notin client[c].events
        BY <1>1 DEF Inv, ClientsLinked, Attached
    <2>3. \A x \in Clients \ {c} : cready'[x] = cready[x]
        BY <1>3, ClientRecords
    <2>4. ASSUME NEW x \in Clients, x # c
          PROVE  /\ client'[x] = client[x] /\ cready'[x] = cready[x]
                 /\ Attached(x)' = Attached(x)
        BY <1>2, <2>3, <2>4 DEF Attached
    <2>5. ASSUME NEW x \in Clients
          PROVE  /\ "IN" \in client'[x].events => client'[x].request = Null
                 /\ client'[x].request = Null => client'[x].response = Null
                 /\ x > accepted' => client'[x].request = Null
                 /\ x \in clients' \/ cready'[x] # {} => x <= accepted'
                 /\ cready'[x] \ {"HUP"} \subseteq client'[x].events
                 /\ "OUT" \in client'[x].events \/ client'[x].status = "PAUSE"
                       => Attached(x)'
        <3>1. CASE x # c
            BY <1>7, <2>4, <3>1 DEF Inv, ClientsLinked
        <3>2. CASE x = c
            <4>1. ~(c > accepted)
                BY <1>1 DEF Inv, TypeOK, Clients
            <4>2. "OUT" \in client'[c].events \/ client'[c].status = "PAUSE"
                     => Attached(c)'
                BY <1>2, <2>1, <2>2 DEF Attached
            <4> QED
                BY <1>1, <1>2, <1>7, <2>1, <3>2, <4>1, <4>2
        <3> QED
            BY <3>1, <3>2
    <2> QED
        BY <2>5 DEF ClientsLinked
<1>11. KeysAgree'
    <2>1. \A x \in Clients : client[x].response \in Clients => client[x].response # c
        BY <1>1 DEF Inv, KeysAgree
    <2>2. \A k \in Held(cash') : cash'[k].response \in Clients \ {c}
        BY <1>1, HeldRecords DEF Inv, KeysAgree, CashShrinks
    <2> QED
        BY <1>1, <1>2, <2>1, <2>2 DEF Inv, KeysAgree, CashShrinks
<1>12. RecordsSound'
    <2>1. \A k \in Held(cash') : cash'[k].response \in Clients \ {c}
        BY <1>1, HeldRecords DEF Inv, KeysAgree, CashShrinks
    <2> QED
        BY <1>6, <1>7, <2>1 DEF Inv, RecordsSound, CashShrinks
<1> QED
    BY <1>8, <1>9, <1>10, <1>11, <1>12 DEF Inv

(***************************************************************************)
(* The four answers to a request.                                          *)
(***************************************************************************)
LEMMA RequestRejectedPreservesInv ==
    ASSUME Inv, NEW c \in Clients, NEW q \in Requests, RequestRejected(c, q)
    PROVE  Inv'
<1> DEFINE page == CheckValidRequest(q)
<1>1. /\ page \in Static /\ page \notin Clients /\ page \in Responses \cup {Null}
      /\ Answer(c, q, page) /\ UNCHANGED <<servers, server, cash>>
    BY SentinelAssumption DEF RequestRejected, CheckValidRequest, Static, Responses
<1>2. cash' \in [Keys -> Record(Clients) \cup {NoRecord}] /\ CashShrinks
    BY <1>1 DEF Inv, TypeOK, CashShrinks
<1> HIDE DEF page
<1> QED
    BY <1>1, <1>2, AnswerStep

LEMMA RequestInCashPreservesInv ==
    ASSUME Inv, NEW c \in Clients, NEW q \in Requests, RequestInCash(c, q)
    PROVE  Inv'
<1> DEFINE k == Key(q)
           r == cash[k].response
<1>1. /\ k \in Held(cash) /\ cash \in [Keys -> Record(Clients) \cup {NoRecord}]
      /\ cash[k] \in Record(Clients) /\ r \in Clients /\ r \in Responses \cup {Null}
    <2>1. k \in Held(cash)
        BY DEF RequestInCash, HaveRecord, Held, Keys, Inv, TypeOK
    <2> QED
        BY <2>1, HeldRecords DEF Inv, TypeOK, Responses
<1>2. client[r].request # Null /\ Key(client[r].request) = Key(q)
    BY <1>1 DEF Inv, KeysAgree
<1>3. /\ cash' = [cash EXCEPT ![k] = ConnectClient(cash[k])]
      /\ Answer(c, q, r) /\ UNCHANGED <<servers, server>>
    BY DEF RequestInCash, ConnectToRecord
<1>4. /\ cash' \in [Keys -> Record(Clients) \cup {NoRecord}]
      /\ cash'[k].response = cash[k].response
      /\ \A m \in Keys : m # k => cash'[m] = cash[m]
    BY <1>1, <1>3, ConnectedRecord
<1>5. CashShrinks
    BY <1>1, <1>4 DEF CashShrinks, Held
<1> HIDE DEF k, r
<1> QED
    BY <1>1, <1>2, <1>3, <1>4, <1>5, AnswerStep

LEMMA RequestMissPreservesInv ==
    ASSUME Inv, NEW c \in Clients, NEW q \in Requests,
           RequestForwarded(c, q) \/ OriginUnreachable(c, q)
    PROVE  Inv'
<1>1. UNCHANGED cash
    BY DEF RequestForwarded, OriginUnreachable
<1>2. cash' \in [Keys -> Record(Clients) \cup {NoRecord}] /\ CashShrinks
    BY <1>1 DEF Inv, TypeOK, CashShrinks
<1>3. response_409 \notin Clients /\ response_409 \in Responses /\ Null \notin Clients
    BY SentinelAssumption DEF Static, Responses
<1>4. CASE RequestForwarded(c, q)
    BY <1>2, <1>3, <1>4, AnswerStep DEF RequestForwarded
<1>5. CASE OriginUnreachable(c, q)
    BY <1>2, <1>3, <1>5, AnswerStep DEF OriginUnreachable
<1> QED
    BY <1>4, <1>5

(***************************************************************************)
(* The actions that change no object.                                      *)
(***************************************************************************)
LEMMA HaltPreservesInv ==
    ASSUME Inv, NEW state \in Stopped, Halt(state)
    PROVE  Inv'
<1>1. TypeOK'
    BY DEF Halt, Inv, TypeOK, objects, pass, signals
<1>2. FewerEvents
    BY DEF Halt, FewerEvents, pass
<1> QED
    BY <1>1, <1>2, QuietStep DEF Halt

LEMMA AlarmPreservesInv ==
    ASSUME Inv, Alarm
    PROVE  Inv'
<1>1. /\ hellos' \in Nat /\ alarms' \in 0..MaxAlarms
      /\ UNCHANGED <<exiting, accepted, objects, pass>>
    BY BoundsAssumption DEF Alarm, Ring, Inv, TypeOK
<1>2. pc' = pc \/ (pc = "poll" /\ pc' = "sweepClients")
    BY DEF Alarm
<1>3. TypeOK'
    BY <1>1, <1>2 DEF Inv, TypeOK, objects, pass, Stages
<1>4. FewerEvents
    BY <1>1 DEF FewerEvents, pass
<1>5. pc = "poll" => \A s \in Clients : sready'[s] = {}
    BY <1>1 DEF Inv, ServersLinked, Stopped, pass
<1> QED
    BY <1>1, <1>2, <1>3, <1>4, <1>5, QuietStep

LEMMA ReturnPreservesInv ==
    ASSUME Inv, Return
    PROVE  Inv'
<1>1. TypeOK'
    BY DEF Return, Inv, TypeOK, objects, pass, signals, Stages
<1>2. FewerEvents /\ \A s \in Clients : sready'[s] = {}
    BY DEF Return, FewerEvents, pass, Nobody
<1> QED
    BY <1>1, <1>2, QuietStep DEF Return

LEMMA AcceptFailsPreservesInv ==
    ASSUME Inv, AcceptFails
    PROVE  Inv'
<1>1. TypeOK'
    BY DEF AcceptFails, Inv, TypeOK, objects, signals
<1> QED
    BY <1>1, QuietStep DEF AcceptFails, FewerEvents

LEMMA RequestPartlySentPreservesInv ==
    ASSUME Inv, NEW s \in Clients, RequestPartlySent(s)
    PROVE  Inv'
<1>1. TypeOK' /\ FewerEvents
    BY DEF RequestPartlySent, Visited, Inv, TypeOK, objects, signals, FewerEvents
<1> QED
    BY <1>1, QuietStep DEF RequestPartlySent

LEMMA ClientQuietPreservesInv ==
    ASSUME Inv, NEW c \in Clients, RequestPartlyReceived(c) \/ NothingSent(c)
    PROVE  Inv'
<1>1. PICK event \in {"IN", "OUT"} :
          /\ cready' = Visited(cready, c, event)
          /\ UNCHANGED <<pc, exiting, accepted, objects, ready, sready, signals>>
    BY DEF RequestPartlyReceived, NothingSent
<1>2. TypeOK' /\ FewerEvents
    BY <1>1 DEF Visited, Inv, TypeOK, objects, signals, FewerEvents
<1> QED
    BY <1>1, <1>2, QuietStep

(***************************************************************************)
(* The end of the process.                                                 *)
(***************************************************************************)
LEMMA TerminatePreservesInv ==
    ASSUME Inv, Terminate
    PROVE  Inv'
<1>1. /\ client \in [Clients -> ClientObject] /\ server \in [Clients -> ServerObject]
      /\ \A x \in Clients : client[x] \in ClientObject /\ server[x] \in ServerObject
    BY DEF Inv, TypeOK
<1>2. \A x \in Clients :
          /\ client'[x] \in ClientObject
          /\ client'[x].events = client[x].events
          /\ client'[x].status = client[x].status \/ client'[x].status = "STOP_FAILED"
          /\ client'[x].request = client[x].request
          /\ client'[x].response = client[x].response
    BY SMTT(40), <1>1 DEF Terminate, ClientObject
<1>3. \A x \in Clients :
          /\ server'[x] \in ServerObject
          /\ server'[x].events = server[x].events
          /\ server'[x].response = server[x].response
    BY <1>1 DEF Terminate, ServerObject
<1>4. /\ pc' = "sweepClients" /\ exiting' = TRUE
      /\ ready' = {} /\ sready' = Nobody /\ cready' = Nobody
      /\ UNCHANGED <<accepted, clients, servers, response, freed, cash, hellos, alarms>>
      /\ DOMAIN client' = Clients /\ client' = [x \in Clients |-> client'[x]]
      /\ server' = [x \in Clients |-> server'[x]]
    BY DEF Terminate, signals
<1>5. TypeOK'
    BY <1>2, <1>3, <1>4 DEF Inv, TypeOK, Stages, Nobody
<1>6. ServersLinked'
    BY <1>2, <1>3, <1>4 DEF Inv, ServersLinked, Nobody
<1>7. ClientsLinked'
    BY <1>2, <1>4 DEF Inv, ClientsLinked, Attached, Nobody
<1>8. KeysAgree' /\ RecordsSound'
    BY <1>2, <1>3, <1>4, KeysFrame, RecordsFrame DEF SameLinks, CashShrinks
<1> QED
    BY <1>5, <1>6, <1>7, <1>8 DEF Inv

LEMMA DestroyPreservesInv ==
    ASSUME Inv, Destroy
    PROVE  Inv'
<1>1. /\ cash' = [k \in Keys |-> NoRecord] /\ pc = "destroy" /\ pc' = "exit"
      /\ freed' = freed \cup {cash[k].response : k \in Held(cash)}
      /\ UNCHANGED <<exiting, accepted, clients, servers, client, server, response,
                     ready, sready, cready, hellos, alarms>>
    BY DEF Destroy, DestroyCash, Inv, TypeOK, pass, signals
<1>2. Held(cash') = {}
    BY <1>1 DEF Held
<1>3. TypeOK'
    <2>1. freed' \subseteq Responses
        BY <1>1, HeldRecords DEF Inv, TypeOK, Responses
    <2>2. cash' \in [Keys -> Record(Clients) \cup {NoRecord}]
        BY <1>1
    <2> QED
        BY <1>1, <2>1, <2>2 DEF Inv, TypeOK, Stopped
<1>4. ServersLinked' /\ ClientsLinked'
    BY <1>1 DEF Inv, ServersLinked, ClientsLinked, Attached, Stopped
<1>5. KeysAgree' /\ RecordsSound'
    BY <1>1, <1>2 DEF Inv, KeysAgree, RecordsSound
<1> QED
    BY <1>3, <1>4, <1>5 DEF Inv

-----------------------------------------------------------------------------
LEMMA InitInv ==
    ASSUME Init
    PROVE  Inv
<1>1. NewClient \in ClientObject /\ NewServer(0) \in ServerObject
    BY DEF NewClient, NewServer, ClientObject, ServerObject
<1>2. NewResponse \in ResponseObject /\ ErrorPage \in ResponseObject
    BY DEF NewResponse, ErrorPage, ResponseObject
<1>3. TypeOK
    <2>1. /\ client \in [Clients -> ClientObject] /\ server \in [Clients -> ServerObject]
          /\ cash \in [Keys -> Record(Clients) \cup {NoRecord}]
        BY <1>1 DEF Init
    <2>2. response \in [Responses -> ResponseObject]
        BY <1>2 DEF Init
    <2>3. /\ sready \in [Clients -> SUBSET {"IN", "OUT"}]
          /\ cready \in [Clients -> SUBSET {"HUP", "IN", "OUT"}]
        BY DEF Init, Nobody
    <2>4. hellos \in Nat /\ alarms \in 0..MaxAlarms /\ accepted \in 0..MaxClients
        BY BoundsAssumption DEF Init
    <2> QED
        BY <2>1, <2>2, <2>3, <2>4 DEF Init, TypeOK, Stages
<1>4. Held(cash) = {}
    BY DEF Init, Held
<1>5. ServersLinked /\ ClientsLinked
    <2>1. Null \notin Clients
        BY SentinelAssumption DEF Responses
    <2> QED
        BY <2>1 DEF Init, ServersLinked, ClientsLinked, Attached, NewServer, NewClient,
                    Nobody, Clients
<1>6. KeysAgree
    BY <1>4, SentinelAssumption DEF Init, KeysAgree, NewClient, Responses
<1>7. RecordsSound
    BY <1>4, SentinelAssumption DEF Init, RecordsSound, NewResponse, Responses
<1> QED
    BY <1>3, <1>5, <1>6, <1>7 DEF Inv

LEMMA BuilderPreservesInv ==
    ASSUME Inv, Builder
    PROVE  Inv'
<1>1. CASE SweepClients
    BY <1>1, SweepClientsPreservesInv
<1>2. CASE SweepServers
    BY <1>2, SweepServersPreservesInv
<1>3. CASE SweepNullResponse
    BY <1>3, HaltPreservesInv DEF SweepNullResponse, Stopped
<1>4. CASE SweepFaults
    BY <1>4, HaltPreservesInv DEF SweepFaults, Stopped
<1>5. CASE SweepClientsUndefined
    BY <1>5, HaltPreservesInv DEF SweepClientsUndefined, Stopped
<1>6. CASE SweepServersUndefined
    BY <1>6, HaltPreservesInv DEF SweepServersUndefined, Stopped
<1> QED
    BY <1>1, <1>2, <1>3, <1>4, <1>5, <1>6 DEF Builder

LEMMA ServerHandlerPreservesInv ==
    ASSUME Inv, NEW s \in Clients, ServerHandler(s)
    PROVE  Inv'
<1>1. CASE RequestPartlySent(s)
    BY <1>1, RequestPartlySentPreservesInv
<1>2. CASE RequestSent(s)
    BY <1>2, RequestSentPreservesInv
<1>3. CASE RequestSendFails(s)
    BY <1>3, RequestSendFailsPreservesInv
<1>4. CASE ResponseEnds(s)
    BY <1>4, ResponseEndsPreservesInv
<1>5. CASE ResponseFails(s)
    BY <1>5, ResponseFailsPreservesInv
<1>6. CASE ResponseGrows(s)
    BY <1>6, ResponseGrowsPreservesInv
<1>7. CASE ResponseHeader(s)
    BY <1>7, HeaderPreservesInv
<1>8. CASE ResponseFallsThrough(s)
    BY <1>8, FallsThroughPreservesInv
<1>9. CASE SendUndefined(s)
    BY <1>9, HaltPreservesInv DEF SendUndefined, Stopped
<1>10. CASE ReceiveUndefined(s)
    BY <1>10, HaltPreservesInv DEF ReceiveUndefined, Stopped
<1>11. CASE HeaderUndefined(s)
    BY <1>11, HaltPreservesInv DEF HeaderUndefined, Stopped
<1> QED
    BY <1>1, <1>2, <1>3, <1>4, <1>5, <1>6, <1>7, <1>8, <1>9, <1>10, <1>11
    DEF ServerHandler

LEMMA ClientHandlerPreservesInv ==
    ASSUME Inv, NEW c \in Clients, ClientHandler(c)
    PROVE  Inv'
<1>1. CASE ClientHangup(c)
    BY <1>1, HangupPreservesInv
<1>2. CASE RequestFails(c)
    BY <1>2, RequestFailsPreservesInv
<1>3. CASE RequestPartlyReceived(c) \/ NothingSent(c)
    BY <1>3, ClientQuietPreservesInv
<1>4. CASE RequestReceived(c)
    BY <1>4, RequestRejectedPreservesInv, RequestInCashPreservesInv,
       RequestMissPreservesInv
    DEF RequestReceived
<1>5. CASE ResponseSent(c)
    BY <1>5, ResponseSentPreservesInv
<1>6. CASE ResponseSendFails(c)
    BY <1>6, SendFailsPreservesInv
<1>7. CASE WriteUndefined(c)
    BY <1>7, HaltPreservesInv DEF WriteUndefined, Stopped
<1> QED
    BY <1>1, <1>2, <1>3, <1>4, <1>5, <1>6, <1>7 DEF ClientHandler

\* The invariant is inductive: every handler, sweep and signal preserves it, and
\* so does a step that changes nothing.
LEMMA NextPreservesInv ==
    ASSUME Inv, [Next]_vars
    PROVE  Inv'
<1>1. CASE Builder
    BY <1>1, BuilderPreservesInv
<1>2. CASE Poll
    BY <1>2, PollPreservesInv
<1>3. CASE Executor
    <2>1. CASE AddClient
        BY <2>1, AddClientPreservesInv
    <2>2. CASE AcceptFails
        BY <2>2, AcceptFailsPreservesInv
    <2>3. CASE EventCash
        BY <2>3, EventCashPreservesInv
    <2>4. CASE \E s \in Clients : ServerHandler(s)
        BY <2>4, ServerHandlerPreservesInv
    <2>5. CASE \E c \in Clients : ClientHandler(c)
        BY <2>5, ClientHandlerPreservesInv
    <2>6. CASE BrokenPipe
        BY <2>6, HaltPreservesInv DEF BrokenPipe, Stopped
    <2>7. CASE Return
        BY <2>7, ReturnPreservesInv
    <2> QED
        BY <1>3, <2>1, <2>2, <2>3, <2>4, <2>5, <2>6, <2>7 DEF Executor
<1>4. CASE Alarm
    BY <1>4, AlarmPreservesInv
<1>5. CASE Terminate
    BY <1>5, TerminatePreservesInv
<1>6. CASE Destroy
    BY <1>6, DestroyPreservesInv
<1>7. CASE UNCHANGED vars
    <2>1. TypeOK' /\ FewerEvents
        BY <1>7 DEF vars, Inv, TypeOK, objects, pass, signals, FewerEvents
    <2> QED
        BY <1>7, <2>1, QuietStep DEF vars
<1> QED
    BY <1>1, <1>2, <1>3, <1>4, <1>5, <1>6, <1>7 DEF Next

(***************************************************************************)
(* The theorems.                                                           *)
(***************************************************************************)
\* However many clients connect, whatever they ask for and in whatever order the
\* descriptors become ready, the objects of the event loop stay linked as Inv
\* says: every Client, Server, Response and record refers to the right others.
THEOREM Invariance == Spec => []Inv
<1>1. Init => Inv
    BY InitInv
<1>2. Inv /\ [Next]_vars => Inv'
    BY NextPreservesInv
<1> QED
    BY <1>1, <1>2, PTL DEF Spec

\* Every variable stays in its range; a handler leaves no field of an object
\* outside the values the next one expects of it.
THEOREM TypeCorrect == Spec => []TypeOK
<1>1. Inv => TypeOK
    BY DEF Inv
<1> QED
    BY <1>1, Invariance, PTL

\* The cache never hands out a deleted Response: builder() deletes only responses
\* that are not 200, the cache deletes only what it drops.
THEOREM CacheHoldsLiveResponses == Spec => []CachedResponsesLive
<1>1. Inv => CachedResponsesLive
    BY DEF Inv, RecordsSound, CachedResponsesLive
<1> QED
    BY <1>1, Invariance, PTL

\* The cache holds responses with status 200 and complete headers only, however
\* the origin cuts its bytes into reads.
THEOREM CacheHoldsOkResponses == Spec => []OnlyOkCached
<1>1. Inv => OnlyOkCached
    BY DEF Inv, RecordsSound, OnlyOkCached
<1> QED
    BY <1>1, Invariance, PTL

\* No handler runs before the Response it works on exists.
THEOREM HandlersAreSafe == Spec => []HandlersFindObjects
<1>1. Inv => HandlersFindObjects
    <2> SUFFICES ASSUME Inv
                 PROVE  HandlersFindObjects
        OBVIOUS
    <2>1. clients \subseteq Clients /\ servers \subseteq Clients /\ Null \notin Clients
        BY SentinelAssumption DEF Inv, TypeOK, Responses
    <2> QED
        BY <2>1 DEF Inv, ServersLinked, ClientsLinked, HandlersFindObjects
<1> QED
    BY <1>1, Invariance, PTL

\* No two pairs of host and resource that clients ask for concatenate to the same
\* key.  CashScheduler does not ensure it.
KeysDistinguish ==
    \A p, q \in Requests :
        Key(p) = Key(q) => p.host = q.host /\ p.resource = q.resource

\* If the keys tell the pages apart, no client is ever given another page than
\* the one it asked for, whatever is cached, evicted and fetched again meanwhile.
THEOREM ClientsGetTheirOwnPage ==
    ASSUME KeysDistinguish
    PROVE  Spec => []OwnResponse
<1>1. Inv => OwnResponse
    <2> SUFFICES ASSUME Inv, NEW c \in clients, client[c].response \in Clients
                 PROVE  LET r == client[c].response IN
                        /\ client[c].request.host = client[r].request.host
                        /\ client[c].request.resource = client[r].request.resource
        BY DEF OwnResponse
    <2> DEFINE r == client[c].response
    <2>1. c \in Clients /\ r \in Clients /\ r # Null
        BY SentinelAssumption DEF Inv, TypeOK, Responses
    <2>2. client[c].request # Null /\ client[r].request # Null
        BY <2>1 DEF Inv, ClientsLinked, KeysAgree
    <2>3. client[c].request \in Requests /\ client[r].request \in Requests
        BY <2>1, <2>2, ClientRecords DEF ClientObject
    <2>4. Key(client[c].request) = Key(client[r].request)
        BY <2>1 DEF Inv, KeysAgree
    <2> QED
        BY <2>3, <2>4 DEF KeysDistinguish
<1> QED
    BY <1>1, Invariance, PTL

-----------------------------------------------------------------------------
(***************************************************************************)
(* Bytes are only appended.  A Response is made by a server that had none, *)
(* so what RequestSent resets is empty.                                    *)
(***************************************************************************)
Appends ==
    /\ \A r \in Responses : response'[r].len >= response[r].len
    /\ \A s \in Clients : server'[s].response = Null =>
           server[s].response = Null /\ response'[s].len = response[s].len

LEMMA LengthsAreNumbers ==
    ASSUME Inv
    PROVE  \A r \in Responses : response[r] \in ResponseObject /\ response[r].len \in Nat
    BY DEF Inv, TypeOK, ResponseObject

LEMMA SameResponses ==
    ASSUME Inv, UNCHANGED response,
           \A s \in Clients : server'[s].response = server[s].response
    PROVE  Appends
    BY LengthsAreNumbers DEF Appends, Responses

\* Server s works on its Response, which may grow.
LEMMA OneGrows ==
    ASSUME Inv, NEW s \in Clients, NEW resp, resp.len \in Nat, resp.len >= response[s].len,
           response' = [response EXCEPT ![s] = resp], server'[s].response # Null,
           \A x \in Clients \ {s} : server'[x].response = server[x].response
    PROVE  Appends
<1>1. response \in [Responses -> ResponseObject] /\ Clients \subseteq Responses
    BY DEF Inv, TypeOK, Responses
<1>2. response'[s] = resp /\ \A r \in Responses \ {s} : response'[r] = response[r]
    BY <1>1
<1>3. \A r \in Responses : response'[r].len >= response[r].len
    BY <1>2, LengthsAreNumbers
<1> QED
    BY <1>1, <1>2, <1>3 DEF Appends

LEMMA SweepServersAppends ==
    ASSUME Inv, SweepServers
    PROVE  Appends
<1>1. response \in [Responses -> ResponseObject] /\ UNCHANGED server
    BY DEF Inv, TypeOK, SweepServers
<1>2. \A r \in Responses : response'[r].len = response[r].len
    BY <1>1 DEF SweepServers, ResponseObject
<1> QED
    BY <1>1, <1>2, LengthsAreNumbers DEF Appends, Responses

LEMMA TerminateAppends ==
    ASSUME Inv, Terminate
    PROVE  Appends
<1>1. \A x \in Clients : server[x] \in ServerObject
    BY DEF Inv, TypeOK
<1>2. \A x \in Clients : server'[x].response = server[x].response
    BY <1>1 DEF Terminate, ServerObject
<1> QED
    BY <1>2, SameResponses DEF Terminate

LEMMA ServerStops ==
    ASSUME Inv, NEW s \in Clients, NEW new, new.response = server[s].response,
           server' = [server EXCEPT ![s] = new]
    PROVE  \A x \in Clients : server'[x].response = server[x].response
    BY DEF Inv, TypeOK

\* Server s has read and may have stopped.
LEMMA ReadAppends ==
    ASSUME Inv, NEW s \in Clients, Receiving(s),
           NEW resp, resp.len \in Nat, resp.len >= response[s].len,
           response' = [response EXCEPT ![s] = resp],
           UNCHANGED server \/ \E how \in {"STOP_SUCCESS", "STOP_FAILED"} : StopServer(s, how)
    PROVE  Appends
<1>1. server[s].response = s /\ s # Null
    BY Readable, SentinelAssumption DEF Responses
<1>2. \A x \in Clients : server'[x].response = server[x].response
    <2>1. CASE UNCHANGED server
        BY <2>1
    <2>2. CASE \E how \in {"STOP_SUCCESS", "STOP_FAILED"} : StopServer(s, how)
        <3>1. PICK how \in {"STOP_SUCCESS", "STOP_FAILED"} : StopServer(s, how)
            BY <2>2
        <3> DEFINE new == [server[s] EXCEPT !.status = how, !.events = @ \ {"IN"}]
        <3>2. new.response = server[s].response /\ server' = [server EXCEPT ![s] = new]
            BY <3>1, Readable
        <3> HIDE DEF new
        <3> QED
            BY <3>2, ServerStops
    <2> QED
        BY <2>1, <2>2
<1> QED
    BY <1>1, <1>2, OneGrows

\* Some read of server s extended its Response.
LEMMA ExtensionAppends ==
    ASSUME Inv, NEW s \in Clients, Receiving(s),
           NEW n \in ReadSizes, NEW new \in Extended(response[s], n), NEW resp,
           resp.len = new.len, response' = [response EXCEPT ![s] = resp],
           UNCHANGED server \/ \E how \in {"STOP_SUCCESS", "STOP_FAILED"} : StopServer(s, how)
    PROVE  Appends
<1>1. response[s] \in ResponseObject /\ response[s].len \in Nat /\ n \in Nat
    BY LengthsAreNumbers DEF Responses, ReadSizes
<1>2. resp.len = response[s].len + n
    BY <1>1, ExtendedOnlyAppends
<1>3. resp.len \in Nat /\ resp.len >= response[s].len
    BY <1>1, <1>2
<1> QED
    BY <1>3, ReadAppends

LEMMA ServerHandlerAppends ==
    ASSUME Inv, UnusedEmpty, NEW s \in Clients, ServerHandler(s)
    PROVE  Appends
<1>1. s # Null /\ response[s] \in ResponseObject
      /\ response[s].len \in Nat /\ server[s] \in ServerObject
    BY SentinelAssumption, ServerRecords, LengthsAreNumbers DEF Responses
<1>2. CASE \/ RequestPartlySent(s) \/ SendUndefined(s)
           \/ ReceiveUndefined(s) \/ HeaderUndefined(s)
    <2>1. UNCHANGED <<server, response>>
        BY <1>2 DEF RequestPartlySent, SendUndefined, ReceiveUndefined, HeaderUndefined,
                    Halt, objects
    <2> QED
        BY <2>1, SameResponses
<1>3. CASE RequestSent(s)
    <2> DEFINE new == [server[s] EXCEPT !.response = s, !.events = ResponseMode(@)]
    <2>1. server[s].response = Null
        BY <1>3, ServerRecords DEF RequestSent, Sending
    <2>2. NewResponse.len \in Nat /\ NewResponse.len >= response[s].len
        BY <2>1 DEF UnusedEmpty, NewResponse
    <2>3. new.response = s /\ server' = [server EXCEPT ![s] = new]
        BY <1>1, <1>3 DEF RequestSent, ServerObject
    <2> HIDE DEF new
    <2>4. server'[s].response # Null
          /\ \A x \in Clients \ {s} : server'[x].response = server[x].response
        BY <1>1, <2>3 DEF Inv, TypeOK
    <2> QED
        BY <1>3, <2>2, <2>4, OneGrows DEF RequestSent
<1>4. CASE RequestSendFails(s)
    <2> DEFINE new == [server[s] EXCEPT !.status = "STOP_FAILED", !.events = @ \ {"OUT"}]
    <2>1. new.response = server[s].response /\ server' = [server EXCEPT ![s] = new]
        BY <1>1, <1>4 DEF RequestSendFails, ServerObject
    <2> HIDE DEF new
    <2> QED
        BY <1>4, <2>1, ServerStops, SameResponses DEF RequestSendFails
<1>5. CASE ResponseEnds(s)
    <2> DEFINE resp == [response[s] EXCEPT !.status = "END"]
    <2>1. Receiving(s) /\ StopServer(s, "STOP_SUCCESS")
        BY <1>5 DEF ResponseEnds
    <2>2. resp.len = response[s].len /\ response' = [response EXCEPT ![s] = resp]
        BY <1>1, <1>5, <2>1, Readable DEF ResponseEnds, ResponseObject
    <2>3. \E how \in {"STOP_SUCCESS", "STOP_FAILED"} : StopServer(s, how)
        BY <2>1
    <2>4. resp.len \in Nat /\ resp.len >= response[s].len
        BY <1>1, <2>2
    <2> HIDE DEF resp
    <2> QED
        BY <2>1, <2>2, <2>3, <2>4, ReadAppends
<1>6. CASE ResponseFails(s)
    <2>1. Receiving(s) /\ StopServer(s, "STOP_FAILED") /\ UNCHANGED response
        BY <1>6 DEF ResponseFails
    <2>2. response' = [response EXCEPT ![s] = response[s]]
        BY <2>1 DEF Inv, TypeOK
    <2>3. \E how \in {"STOP_SUCCESS", "STOP_FAILED"} : StopServer(s, how)
        BY <2>1
    <2>4. response[s].len >= response[s].len
        BY <1>1
    <2> QED
        BY <1>1, <2>1, <2>2, <2>3, <2>4, ReadAppends
<1>7. CASE ResponseGrows(s)
    <2>1. Receiving(s) /\ UNCHANGED server
        BY <1>7 DEF ResponseGrows
    <2>2. PICK n \in ReadSizes : \E new \in Extended(response[s], n) :
              response' = [response EXCEPT ![s] = new]
        BY <1>7, <2>1, Readable DEF ResponseGrows
    <2> QED
        BY <2>1, <2>2, ExtensionAppends
<1>8. CASE ResponseHeader(s)
    <2>1. Receiving(s) /\ UNCHANGED server
        BY <1>8 DEF ResponseHeader
    <2>2. PICK n \in ReadSizes : \E new \in Extended(response[s], n) :
              \E type \in {"CASHED", "NO_CASH"} :
                 response' = [response EXCEPT ![s] = [new EXCEPT !.type = type]]
        BY <1>8, <2>1, Readable DEF ResponseHeader
    <2>3. PICK new \in Extended(response[s], n), type \in {"CASHED", "NO_CASH"} :
              response' = [response EXCEPT ![s] = [new EXCEPT !.type = type]]
        BY <2>2
    <2> DEFINE resp == [new EXCEPT !.type = type]
    <2>4. resp.len = new.len
        BY <1>1, ExtendedOnlyAppends DEF ResponseObject
    <2>5. response' = [response EXCEPT ![s] = resp]
        BY <2>3
    <2> HIDE DEF resp
    <2> QED
        BY <2>1, <2>4, <2>5, ExtensionAppends
<1>9. CASE ResponseFallsThrough(s)
    <2>1. Receiving(s) /\ StopServer(s, "STOP_FAILED")
        BY <1>9 DEF ResponseFallsThrough
    <2>2. PICK n \in ReadSizes : \E new \in Extended(response[s], n) :
              response' = [response EXCEPT ![s] = new]
        BY <1>9, <2>1, Readable DEF ResponseFallsThrough
    <2> QED
        BY <2>1, <2>2, ExtensionAppends
<1> QED
    BY <1>2, <1>3, <1>4, <1>5, <1>6, <1>7, <1>8, <1>9 DEF ServerHandler

\* A client that asks has no server yet, so a new one replaces none.
LEMMA ClientHandlerAppends ==
    ASSUME Inv, NEW c \in Clients, ClientHandler(c)
    PROVE  Appends
<1>1. UNCHANGED response
    BY DEF ClientHandler, ClientHangup, RequestFails, RequestPartlyReceived, RequestReceived,
           RequestRejected, RequestInCash, RequestForwarded, OriginUnreachable, Answer,
           NothingSent, ResponseSent, ResponseSendFails, WriteUndefined, Halt, objects
<1>2. CASE \E q \in Requests : RequestForwarded(c, q)
    <2>1. PICK q \in Requests : RequestForwarded(c, q)
        BY <1>2
    <2>2. client[c].request = Null /\ client[c].response = Null /\ c # Null
        BY <2>1, ClientRecords, SentinelAssumption
        DEF RequestForwarded, Answer, Asking, AtClient, Inv, ClientsLinked, Responses
    <2>3. server[c].response = Null
        BY <2>2 DEF Inv, ServersLinked
    <2>4. \A s \in Clients : server'[s].response = server[s].response
        BY <2>1, <2>3 DEF RequestForwarded, NewServer, Inv, TypeOK
    <2> QED
        BY <1>1, <2>4, SameResponses
<1>3. CASE UNCHANGED server
    BY <1>1, <1>3, SameResponses
<1>4. (\E q \in Requests : RequestForwarded(c, q)) \/ UNCHANGED server
    BY DEF ClientHandler, ClientHangup, RequestFails, RequestPartlyReceived, RequestReceived,
           RequestRejected, RequestInCash, OriginUnreachable,
           NothingSent, ResponseSent, ResponseSendFails, WriteUndefined, Halt, objects
<1> QED
    BY <1>2, <1>3, <1>4

LEMMA NextAppends ==
    ASSUME Inv, UnusedEmpty, [Next]_vars
    PROVE  Appends
<1>1. CASE SweepServers
    BY <1>1, SweepServersAppends
<1>2. CASE Terminate
    BY <1>2, TerminateAppends
<1>3. CASE \E s \in Clients : ServerHandler(s)
    BY <1>3, ServerHandlerAppends
<1>4. CASE \E c \in Clients : ClientHandler(c)
    BY <1>4, ClientHandlerAppends
<1>5. CASE \/ SweepClients \/ SweepNullResponse \/ SweepFaults
           \/ SweepClientsUndefined \/ SweepServersUndefined
           \/ Poll \/ AddClient \/ AcceptFails \/ EventCash \/ BrokenPipe \/ Return
           \/ Alarm \/ Destroy \/ UNCHANGED vars
    <2>1. UNCHANGED <<server, response>>
        BY <1>5 DEF SweepClients, SweepNullResponse, SweepFaults, SweepClientsUndefined,
            SweepServersUndefined, Poll, PollReady, AddClient, AcceptFails, EventCash,
            BrokenPipe, Return, Alarm, Destroy, Halt, objects, vars
    <2> QED
        BY <2>1, SameResponses
<1> QED
    BY <1>1, <1>2, <1>3, <1>4, <1>5 DEF Next, Builder, Executor

\* Once bytes have arrived they stay: whoever shares a response can go on from
\* where it stopped.
THEOREM BytesAreOnlyAppended == Spec => NeverForgetsBytes
<1>1. Init => UnusedEmpty
    BY SentinelAssumption DEF Init, UnusedEmpty, NewResponse, Responses
<1>2. Inv /\ UnusedEmpty /\ [Next]_vars => UnusedEmpty'
    BY NextAppends DEF Appends, UnusedEmpty
<1>3. Inv /\ UnusedEmpty /\ [Next]_vars
          => [\A r \in Responses : response'[r].len >= response[r].len]_vars
    BY NextAppends DEF Appends
<1> QED
    BY <1>1, <1>2, <1>3, Invariance, PTL DEF Spec, NeverForgetsBytes
=============================================================================
