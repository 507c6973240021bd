---------------------------- MODULE PollScheduler ----------------------------
(***************************************************************************)
(* The event loop of the proxy and everything it drives: PollScheduler.cpp *)
(* with the handlers of client/, server/, cash/ and connection/ that it    *)
(* calls, and the signal handler of main.cpp.                              *)
(*                                                                         *)
(* One thread repeats  builder(); executor().  builder() removes the       *)
(* connections that stopped and rebuilds the pollfd arrays; executor()     *)
(* polls once and runs a handler for each ready descriptor.  Each handler  *)
(* is one action; the peers act between any two of them.                   *)
(*                                                                         *)
(* Objects are never reused: the n-th accepted connection is client n, the *)
(* Server it opens and the Response fetched through it carry the same      *)
(* number, and `clients`, `servers` and `freed` say which are still live.  *)
(*                                                                         *)
(* The build is the one CMakeLists.txt describes, without optimisation: a  *)
(* function that runs off its end returns and its caller's switch takes no *)
(* case.                                                                   *)
(***************************************************************************)
EXTENDS CashScheduler, Sequences, FiniteSets

CONSTANTS
    MaxClients,     \* connections accepted in a behaviour (a bound)
    MaxLen,         \* bytes of a fetched response (a bound)
    MaxAlarms,      \* SIGALRMs delivered (a bound)
    Requests,       \* the requests clients send, as Request::resolve splits them
    Env,            \* what the peers and the operator do in this instance
    response_405, response_505, response_409,   \* CashScheduler's own Responses
    Null

EnvEvents == {"clientLeaves", "originFails", "originRefuses", "originTruncates",
              "oneByteRead", "brokenPipe", "terminate"}

Clients == 1..MaxClients
Static == {response_405, response_505, response_409}
Responses == Clients \cup Static

ASSUME BoundsAssumption ==
    /\ MaxClients \in Nat
    /\ MaxLen \in Nat
    /\ MaxAlarms \in Nat
    /\ Env \subseteq EnvEvents

ASSUME SentinelAssumption ==
    /\ Null \notin Responses
    /\ Null \notin Requests
    /\ Static \cap Clients = {}
    /\ response_405 # response_505
    /\ response_405 # response_409
    /\ response_505 # response_409

(***************************************************************************)
(* The cache key is the concatenation of the Host header and the resource. *)
(***************************************************************************)
KeyOfResource(q) == q.resource      \* mutant of Key: the host is left out

Key(q) == q.host \o q.resource

Keys == {Key(q) : q \in Requests}

ASSUME RequestAssumption ==
    /\ NoRecord \notin Record(Clients)
    /\ Null \notin Keys

VARIABLES
    pc,         \* where the thread stands between two handlers
    exiting,    \* the SIGTERM handler is running: the loop will not resume
    accepted,   \* connections accepted so far
    clients,    \* the vector of Client objects, in the order they were accepted
    servers,    \* the vector of Server objects, in the order of their `turn`
    client,     \* the Client objects
    server,     \* the Server objects
    response,   \* the Response objects
    freed,      \* the Response objects that were deleted
    cash,       \* CashScheduler::cash
    ready,      \* this pass: the proxy's own descriptors still to be visited
    sready,     \* this pass: the events of each server still to be handled
    cready,     \* this pass: the events of each client still to be handled
    hellos,     \* unread messages in the pipe of the alarm handler
    alarms      \* SIGALRMs delivered so far

objects == <<clients, servers, client, server, response, freed, cash>>
pass == <<ready, sready, cready>>
signals == <<hellos, alarms>>
vars == <<pc, exiting, accepted, objects, pass, signals>>

-----------------------------------------------------------------------------
Stages == {"sweepClients", "sweepServers", "poll", "executor", "destroy"}

\* The process is gone; "undefined" is a write through a deleted object, after
\* which nothing the program does is described here.
Stopped == {"exit", "crash", "undefined"}

ClientObject == [status : {"ACTIVE", "PAUSE", "STOP_SUCCESS", "STOP_FAILED"},
                 events : SUBSET {"IN", "OUT"},
                 request : Requests \cup {Null},
                 response : Responses \cup {Null},
                 current : Int]

ServerObject == [status : {"ACTIVE", "STOP_SUCCESS", "STOP_FAILED"},
                 events : SUBSET {"IN", "OUT"},
                 response : Clients \cup {Null},
                 turn : Nat]

ResponseObject == [type : {"none", "DURING_CASH", "CASHED", "NO_CASH", "FAIL"},
                   status : {"HEADERS", "BODY", "END", "FAIL"},
                   len : Nat,
                   code : {"none", "OK", "NO_OK"}]

TypeOK ==
    /\ pc \in Stages \cup Stopped
    /\ exiting \in BOOLEAN
    /\ accepted \in 0..MaxClients
    /\ clients \subseteq Clients
    /\ servers \subseteq Clients
    /\ client \in [Clients -> ClientObject]
    /\ server \in [Clients -> ServerObject]
    /\ response \in [Responses -> ResponseObject]
    /\ freed \subseteq Responses
    /\ cash \in [Keys -> Record(Clients) \cup {NoRecord}]
    /\ ready \subseteq {"connection", "cash"}
    /\ sready \in [Clients -> SUBSET {"IN", "OUT"}]
    /\ cready \in [Clients -> SUBSET {"HUP", "IN", "OUT"}]
    /\ hellos \in Nat
    /\ alarms \in 0..MaxAlarms

NewClient == [status |-> "ACTIVE", events |-> {"IN"}, request |-> Null,
              response |-> Null, current |-> 0]

NewServer(turn) == [status |-> "ACTIVE", events |-> {"OUT"}, response |-> Null,
                    turn |-> turn]

NewResponse == [type |-> "none", status |-> "HEADERS", len |-> 0, code |-> "none"]

\* The error pages: CashScheduler's constructor builds them complete.
ErrorPage == [type |-> "CASHED", status |-> "END", len |-> 1, code |-> "none"]

Nobody == [c \in Clients |-> {}]

\* open_connect has succeeded and no connection has arrived.
Init ==
    /\ pc = "sweepClients"
    /\ exiting = FALSE
    /\ accepted = 0
    /\ clients = {} /\ servers = {} /\ freed = {}
    /\ client = [c \in Clients |-> NewClient]
    /\ server = [c \in Clients |-> NewServer(0)]
    /\ response = [r \in Responses |-> IF r \in Static THEN ErrorPage ELSE NewResponse]
    /\ cash = [k \in Keys |-> NoRecord]
    /\ ready = {} /\ sready = Nobody /\ cready = Nobody
    /\ hellos = 0 /\ alarms = 0

-----------------------------------------------------------------------------
(* What the handlers read of the objects.                                  *)

status == [r \in Responses |-> response[r].status]

Attached(c) == client[c].response # Null

CountedDuring(r) == response[r].type = "DURING_CASH"    \* mutant of Counted

Counted(r) == response[r].type \in {"CASHED", "DURING_CASH"}

\* mutant of StoppedClients: failed ones are forgotten
SuccessfulClients == {c \in clients : client[c].status = "STOP_SUCCESS"}

StoppedClients == {c \in clients : client[c].status \in {"STOP_SUCCESS", "STOP_FAILED"}}

\* mutant of StoppedServers: a fetch ends when the client that began it leaves
AbandonedServers == {s \in servers : server[s].status # "ACTIVE" \/ s \notin clients}

StoppedServers == {s \in servers : server[s].status # "ACTIVE"}

\* The process ends here, or its memory is no longer what the program thinks.
Halt(state) ==
    /\ pc' = state
    /\ UNCHANGED <<exiting, accepted, objects, pass, signals>>

-----------------------------------------------------------------------------
(***************************************************************************)
(* builder(), its loop over the clients.  A paused client goes back to     *)
(* POLLOUT once its response has grown or ended.  A stopped one is closed  *)
(* and deleted, with its Request; it leaves the cache record of its key if *)
(* its response is a cached one, and deletes a response nobody shares.     *)
(***************************************************************************)
ResumableOnGrowth(c) ==     \* mutant of Resumable: the end does not wake a client
    /\ client[c].status = "PAUSE"
    /\ response[client[c].response].len - client[c].current > 0

ResumableAtEnd(c) ==        \* mutant of Resumable: growth does not
    /\ client[c].status = "PAUSE"
    /\ response[client[c].response].status = "END"

Resumable(c) ==
    /\ client[c].status = "PAUSE"
    /\ \/ response[client[c].response].len - client[c].current > 0
       \/ response[client[c].response].status = "END"

DeletableAny(r) == response[r].type \in {"NO_CASH", "CASHED"}   \* mutant of Deletable

Deletable(r) == response[r].type = "NO_CASH"

LeavingClients ==
    [k \in Keys |-> Cardinality({c \in StoppedClients :
        Attached(c) /\ Counted(client[c].response) /\ Key(client[c].request) = k})]

\* The sweep reads the response of every client that is not ACTIVE.
SweepReadsDeleted ==
    \E c \in clients : client[c].status # "ACTIVE" /\ client[c].response \in freed

SweepClients ==
    /\ pc = "sweepClients"
    /\ ~SweepReadsDeleted
    /\ clients' = clients \ StoppedClients
    /\ client' = [c \in Clients |->
                    IF c \in clients /\ Resumable(c)
                    THEN [client[c] EXCEPT !.status = "ACTIVE", !.events = @ \cup {"OUT"}]
                    ELSE client[c]]
    /\ cash' = DisconnectToRecord(cash, LeavingClients)
    /\ freed' = freed \cup {client[c].response : c \in {d \in StoppedClients :
                    Attached(d) /\ Deletable(client[d].response)}}
    /\ pc' = "sweepServers"
    /\ UNCHANGED <<exiting, accepted, servers, server, response, pass, signals>>

(***************************************************************************)
(* builder(), its loop over the servers.  A stopped server leaves the      *)
(* cache record named by its request, which is its client's Request: when  *)
(* that client was deleted, in an earlier sweep or just now, the key is    *)
(* read from freed memory and may come out as any key or none; the same    *)
(* holds for the type of a response its client deleted in this sweep.      *)
(* A failed fetch marks its response through setType(FAIL).                *)
(***************************************************************************)
ReleasedKeys(s) ==
    LET own == Key(client[s].request)
        deleted == server[s].response \in freed
    IN IF deleted \/ Counted(server[s].response)
       THEN (IF s \in clients THEN {own} ELSE Keys \cup {Null})
              \cup (IF deleted THEN {Null} ELSE {})
       ELSE {Null}

FailedServers == {s \in StoppedServers : server[s].status = "STOP_FAILED"}

SweepServers ==
    /\ pc = "sweepServers"
    /\ \A s \in StoppedServers : server[s].response # Null
    /\ \A s \in FailedServers : server[s].response \notin freed
    /\ \E release \in [StoppedServers -> Keys \cup {Null}] :
         /\ \A s \in StoppedServers : release[s] \in ReleasedKeys(s)
         /\ cash' = DisconnectToRecord(cash,
                [k \in Keys |-> Cardinality({s \in StoppedServers : release[s] = k})])
    /\ response' = [r \in Responses |->
                      IF r \in {server[s].response : s \in FailedServers}
                      THEN [response[r] EXCEPT !.type = "FAIL"] ELSE response[r]]
    /\ servers' = servers \ StoppedServers
    /\ pc' = IF exiting THEN "destroy" ELSE "poll"
    /\ UNCHANGED <<exiting, accepted, clients, client, server, freed, pass, signals>>

\* A server that stopped before requestServerHandler gave it a Response:
\* builder() calls getType() on a null pointer.
SweepNullResponse ==
    /\ pc = "sweepServers"
    /\ \E s \in StoppedServers : server[s].response = Null
    /\ Halt("crash")

\* Reading a deleted Request or Response may also fault.
SweepFaults ==
    /\ pc = "sweepServers"
    /\ \E s \in StoppedServers :
         /\ server[s].response # Null
         /\ \/ server[s].response \in freed
            \/ s \notin clients /\ Counted(server[s].response)
    /\ Halt("crash")

-----------------------------------------------------------------------------
(***************************************************************************)
(* executor(): poll without a timeout.  Any set of peers may have made     *)
(* their descriptors ready; POLLHUP is reported whether asked for or not.  *)
(* The pipe is ready exactly when it holds a message.                      *)
(***************************************************************************)
PollReady(sset, cset, hup, own) ==
    /\ pc = "poll"
    /\ sset \cup cset \cup hup # {} \/ own # {}
    /\ sready' = [s \in Clients |-> IF s \in sset THEN server[s].events ELSE {}]
    /\ cready' = [c \in Clients |-> IF c \in hup THEN {"HUP"}
                                    ELSE IF c \in cset THEN client[c].events ELSE {}]
    /\ ready' = own
    /\ pc' = "executor"
    /\ UNCHANGED <<exiting, accepted, objects, signals>>

Poll ==
    \E sset \in SUBSET {s \in servers : server[s].events # {}},
       cset \in SUBSET {c \in clients : client[c].events # {}},
       hup \in SUBSET (IF "clientLeaves" \in Env THEN clients ELSE {}),
       arrived \in SUBSET (IF accepted < MaxClients THEN {"connection"} ELSE {}) :
          PollReady(sset, cset \ hup, hup,
                    arrived \cup (IF hellos > 0 THEN {"cash"} ELSE {}))

(***************************************************************************)
(* The order of executor(): the listening socket, the pipe, the servers,   *)
(* the clients, each vector from its first element to its last.            *)
(***************************************************************************)
AtConnection == pc = "executor" /\ "connection" \in ready

AtCash == pc = "executor" /\ ready = {"cash"}

AtServer(s) ==
    /\ pc = "executor" /\ ready = {}
    /\ sready[s] # {}
    /\ \A t \in Clients : sready[t] # {} => server[s].turn <= server[t].turn

AtClient(c) ==
    /\ pc = "executor" /\ ready = {} /\ sready = Nobody
    /\ cready[c] # {}
    /\ \A d \in Clients : cready[d] # {} => c <= d

Visited(done, c, event) == [done EXCEPT ![c] = @ \ {event}]

\* executor() returns and the loop of main() calls builder() again.
Return ==
    /\ pc = "executor" /\ ready = {} /\ sready = Nobody /\ cready = Nobody
    /\ pc' = "sweepClients"
    /\ UNCHANGED <<exiting, accepted, objects, pass, signals>>

(***************************************************************************)
(* addClientConnectionHandler and fresh_connection.  When accept() fails   *)
(* the new Client object is leaked and nothing else changes.               *)
(***************************************************************************)
AddClient ==
    /\ AtConnection
    /\ accepted < MaxClients
    /\ ready' = ready \ {"connection"}
    /\ accepted' = accepted + 1
    /\ clients' = clients \cup {accepted + 1}
    /\ client' = [client EXCEPT ![accepted + 1] = NewClient]
    /\ UNCHANGED <<pc, exiting, servers, server, response, freed, cash, sready, cready,
                   signals>>

AcceptFails ==
    /\ AtConnection
    /\ ready' = ready \ {"connection"}
    /\ UNCHANGED <<pc, exiting, accepted, objects, sready, cready, signals>>

Drained(n) == IF n > 2 THEN n - 2 ELSE 0

(***************************************************************************)
(* eventCashHandler: it takes at most ten bytes, two messages of five, out *)
(* of the pipe and cleans the cache.                                       *)
(***************************************************************************)
EventCash ==
    /\ AtCash
    /\ ready' = {}
    /\ hellos' = Drained(hellos)
    /\ freed' = freed \cup {cash[k].response : k \in Evicted(cash, status)}
    /\ cash' = CleanUnnecessaryCash(cash, status)
    /\ UNCHANGED <<pc, exiting, accepted, clients, servers, client, server, response,
                   sready, cready, alarms>>

-----------------------------------------------------------------------------
\* SIGALRM puts a message in the pipe and sets the next alarm.
Ring ==
    /\ alarms < MaxAlarms
    /\ hellos' = hellos + 1
    /\ alarms' = alarms + 1

\* A write fails because its peer is gone, or because an alarm interrupted it
\* while it was blocked: the handlers are installed without SA_RESTART.
WriteFails(event) ==
    \/ event \in Env /\ UNCHANGED signals
    \/ Ring

(***************************************************************************)
(* requestServerHandler and send_request: the server is writable.  Part of *)
(* the request may go out, all of it, or the write may fail; the request   *)
(* and the client that get the new Response are the live ones (see         *)
(* SendUndefined for the others).                                          *)
(***************************************************************************)
Sending(s) == AtServer(s) /\ "OUT" \in sready[s] /\ s \in clients

RequestPartlySent(s) ==
    /\ Sending(s)
    /\ sready' = Visited(sready, s, "OUT")
    /\ UNCHANGED <<pc, exiting, accepted, objects, ready, cready, signals>>

\* request_mode_disable, response_mode_enable; its mutant leaves out the first.
BothModes(events) == events \cup {"IN"}

ResponseMode(events) == (events \ {"OUT"}) \cup {"IN"}

RequestSent(s) ==
    /\ Sending(s)
    /\ response' = [response EXCEPT ![s] = NewResponse]
    /\ server' = [server EXCEPT ![s].response = s, ![s].events = ResponseMode(@)]
    /\ client' = [client EXCEPT ![s].response = s]
    /\ sready' = Visited(sready, s, "OUT")
    /\ UNCHANGED <<pc, exiting, accepted, clients, servers, freed, cash, ready, cready,
                   signals>>

RequestSendFails(s) ==
    /\ Sending(s)
    /\ WriteFails("originFails")
    /\ server' = [server EXCEPT ![s].status = "STOP_FAILED", ![s].events = @ \ {"OUT"}]
    /\ sready' = Visited(sready, s, "OUT")
    /\ UNCHANGED <<pc, exiting, accepted, clients, servers, client, response, freed, cash,
                   ready, cready>>

(***************************************************************************)
(* responseServerHandler and recv_response: the server is readable.        *)
(***************************************************************************)
Receiving(s) == AtServer(s) /\ sready[s] = {"IN"} /\ server[s].response \notin freed

StopServer(s, how) ==
    server' = [server EXCEPT ![s].status = how, ![s].events = @ \ {"IN"}]

\* read() = 0.  Before the headers are complete only when the origin truncates.
ResponseEnds(s) ==
    LET r == server[s].response IN
    /\ Receiving(s)
    /\ response[r].status = "HEADERS" => "originTruncates" \in Env
    /\ response' = [response EXCEPT ![r].status = "END"]
    /\ StopServer(s, "STOP_SUCCESS")
    /\ sready' = Visited(sready, s, "IN")
    /\ UNCHANGED <<pc, exiting, accepted, clients, servers, client, freed, cash, ready,
                   cready, signals>>

\* read() < 0
ResponseFails(s) ==
    /\ "originFails" \in Env
    /\ Receiving(s)
    /\ StopServer(s, "STOP_FAILED")
    /\ sready' = Visited(sready, s, "IN")
    /\ UNCHANGED <<pc, exiting, accepted, clients, servers, client, response, freed, cash,
                   ready, cready, signals>>

\* A read returns one byte or more than one; 2 stands for the latter.
ReadSizes == IF "oneByteRead" \in Env THEN {1, 2} ELSE {2}

\* What Response::resolve may find in the status line: 200 or another code.
Codes == IF "originRefuses" \in Env THEN {"OK", "NO_OK"} ELSE {"OK"}

(***************************************************************************)
(* What recv_response makes of n more bytes: the headers may become        *)
(* complete, at their blank line, and Response::resolve then reads the     *)
(* status code.  MaxLen leaves room for headers that are still open.       *)
(***************************************************************************)
Extended(resp, n) ==
    LET longer == [resp EXCEPT !.len = @ + n]
        resolved == {[longer EXCEPT !.status = "BODY", !.code = code] : code \in Codes}
        open == longer.len + 2 <= MaxLen
    IN IF longer.len > MaxLen THEN {}
       ELSE IF resp.status # "HEADERS" THEN {longer}
       ELSE (IF longer.len >= 2 THEN resolved ELSE {}) \cup (IF open THEN {longer} ELSE {})

(***************************************************************************)
(* recv_response returns the number of bytes it read, as an int, unless    *)
(* the headers just ended; RESPONSE_RECEIVED_HEADER is 1, so a read of one *)
(* byte is taken for the end of the headers whatever it was.               *)
(***************************************************************************)
HeaderReceived(old, new, n) == (old.status = "HEADERS" /\ new.status = "BODY") \/ n = 1

\* Bytes arrive and the handler's switch takes no case.
ResponseGrows(s) ==
    LET r == server[s].response IN
    /\ Receiving(s)
    /\ \E n \in ReadSizes : \E new \in Extended(response[r], n) :
         /\ ~HeaderReceived(response[r], new, n)
         /\ response' = [response EXCEPT ![r] = new]
    /\ sready' = Visited(sready, s, "IN")
    /\ UNCHANGED <<pc, exiting, accepted, clients, servers, client, server, freed, cash,
                   ready, cready, signals>>

CacheableAny(code) == code # "none"     \* mutant of Cacheable

Cacheable(code) == code = "OK"

\* RESPONSE_RECEIVED_HEADER with a code: 200 enters the cache, others do not.
ResponseHeader(s) ==
    LET r == server[s].response IN
    /\ Receiving(s) /\ s \in clients
    /\ \E n \in ReadSizes : \E new \in Extended(response[r], n) :
         /\ HeaderReceived(response[r], new, n)
         /\ new.code # "none"
         /\ \/ /\ Cacheable(new.code)
               /\ response' = [response EXCEPT ![r] = [new EXCEPT !.type = "CASHED"]]
               /\ cash' = AddRecord(cash, Key(client[s].request), r)
            \/ /\ ~Cacheable(new.code)
               /\ response' = [response EXCEPT ![r] = [new EXCEPT !.type = "NO_CASH"]]
               /\ cash' = cash
    /\ client' = [client EXCEPT ![s].events = @ \cup {"OUT"}]
    /\ sready' = Visited(sready, s, "IN")
    /\ UNCHANGED <<pc, exiting, accepted, clients, servers, server, freed, ready, cready,
                   signals>>

\* RESPONSE_RECEIVED_HEADER with no code yet: the inner switch takes no case and
\* control falls through to RESPONSE_RECEIVE_WITH_ERROR.
ResponseFallsThrough(s) ==
    LET r == server[s].response IN
    /\ Receiving(s)
    /\ \E n \in ReadSizes : \E new \in Extended(response[r], n) :
         /\ HeaderReceived(response[r], new, n)
         /\ new.code = "none"
         /\ response' = [response EXCEPT ![r] = new]
    /\ StopServer(s, "STOP_FAILED")
    /\ sready' = Visited(sready, s, "IN")
    /\ UNCHANGED <<pc, exiting, accepted, clients, servers, client, freed, cash, ready,
                   cready, signals>>

-----------------------------------------------------------------------------
(***************************************************************************)
(* executor() for a client that hung up, whatever else it was ready for.   *)
(***************************************************************************)
ClientHangup(c) ==
    /\ AtClient(c) /\ "HUP" \in cready[c]
    /\ client' = [client EXCEPT ![c].status = "STOP_FAILED", ![c].events = {}]
    /\ cready' = [cready EXCEPT ![c] = {}]
    /\ UNCHANGED <<pc, exiting, accepted, clients, servers, server, response, freed, cash,
                   ready, sready, signals>>

(***************************************************************************)
(* requestClientHandler and forming_request: the client is readable.  The  *)
(* read fails or finds the end of the stream, brings a part of the         *)
(* request, or completes it.                                               *)
(***************************************************************************)
Asking(c) == AtClient(c) /\ "HUP" \notin cready[c] /\ "IN" \in cready[c]

RequestFails(c) ==
    /\ "clientLeaves" \in Env
    /\ Asking(c)
    /\ client' = [client EXCEPT ![c].status = "STOP_FAILED", ![c].events = @ \ {"IN"}]
    /\ cready' = Visited(cready, c, "IN")
    /\ UNCHANGED <<pc, exiting, accepted, clients, servers, server, response, freed, cash,
                   ready, sready, signals>>

RequestPartlyReceived(c) ==
    /\ Asking(c)
    /\ cready' = Visited(cready, c, "IN")
    /\ UNCHANGED <<pc, exiting, accepted, objects, ready, sready, signals>>

(***************************************************************************)
(* The request is complete: it is resolved and addServerConnectionHandler  *)
(* decides at once how it will be answered.                                *)
(***************************************************************************)
CheckValidRequest(q) ==
    IF q.method # "GET" THEN response_405
    ELSE IF q.resource = <<>> THEN response_409
    ELSE IF q.version # "HTTP/1.0" THEN response_505
    ELSE Null

\* mutant of AnswerEvents: the client is enabled before it has a response
EventsAtOnce(events, r) == (events \ {"IN"}) \cup {"OUT"}

\* mutant of AnswerEvents: asking_mode_disable is left out
StillAsking(events, r) == IF r = Null THEN events ELSE events \cup {"OUT"}

AnswerEvents(events, r) ==
    IF r = Null THEN events \ {"IN"} ELSE (events \ {"IN"}) \cup {"OUT"}

\* The client asked for q and is given response r, which may be none so far.
Answer(c, q, r) ==
    /\ Asking(c)
    /\ client' = [client EXCEPT ![c].request = q, ![c].response = r,
                                ![c].events = AnswerEvents(@, r)]
    /\ cready' = Visited(cready, c, "IN")
    /\ UNCHANGED <<pc, exiting, accepted, clients, response, freed, ready, sready, signals>>

RequestRejected(c, q) ==
    /\ CheckValidRequest(q) # Null
    /\ Answer(c, q, CheckValidRequest(q))
    /\ UNCHANGED <<servers, server, cash>>

RequestInCash(c, q) ==
    /\ CheckValidRequest(q) = Null
    /\ HaveRecord(cash, Key(q), status)
    /\ Answer(c, q, cash[Key(q)].response)
    /\ cash' = ConnectToRecord(cash, Key(q))
    /\ UNCHANGED <<servers, server>>

NextTurn == 1 + Cardinality({s \in Clients : server[s].turn > 0})

RequestForwarded(c, q) ==
    /\ CheckValidRequest(q) = Null
    /\ ~HaveRecord(cash, Key(q), status)
    /\ Answer(c, q, Null)
    /\ server' = [server EXCEPT ![c] = NewServer(NextTurn)]
    /\ servers' = servers \cup {c}
    /\ UNCHANGED cash

\* connect_to_server fails: no such host, nobody listening, the proxy itself.
OriginUnreachable(c, q) ==
    /\ CheckValidRequest(q) = Null
    /\ ~HaveRecord(cash, Key(q), status)
    /\ Answer(c, q, response_409)
    /\ UNCHANGED <<servers, server, cash>>

RequestReceived(c) ==
    \E q \in Requests : \/ RequestRejected(c, q)
                        \/ RequestInCash(c, q)
                        \/ RequestForwarded(c, q)
                        \/ OriginUnreachable(c, q)

(***************************************************************************)
(* responseClientHandler and send_response: the client is writable.        *)
(***************************************************************************)
Sendable(r) == response[r].type \in {"NO_CASH", "DURING_CASH", "CASHED"}

Writing(c) ==
    /\ AtClient(c) /\ cready[c] = {"OUT"}
    /\ client[c].response \notin freed

\* A response of another type: send_response runs off its end.
NothingSent(c) ==
    /\ Writing(c)
    /\ ~Sendable(client[c].response)
    /\ cready' = Visited(cready, c, "OUT")
    /\ UNCHANGED <<pc, exiting, accepted, objects, ready, sready, signals>>

\* mutant of Disabled: the count of bytes sent is not brought up to date
DisabledUncounted(obj, sent, how) == [obj EXCEPT !.status = how, !.events = @ \ {"OUT"}]

\* mutant of Disabled: a write of no bytes is taken for a failure
DisabledOnNothing(obj, sent, how) ==
    [obj EXCEPT !.current = sent, !.events = @ \ {"OUT"},
                !.status = IF how = "PAUSE" THEN "STOP_FAILED" ELSE how]

\* The client stops or pauses with `sent` bytes: setStatus, receiving_mode_disable.
Disabled(obj, sent, how) ==
    [obj EXCEPT !.current = sent, !.status = how, !.events = @ \ {"OUT"}]

\* write() of n bytes: all that is there, or a part when an alarm cut it short.
ResponseSent(c) ==
    LET r == client[c].response
        left == response[r].len - client[c].current
    IN /\ Writing(c) /\ Sendable(r)
       /\ \E n \in 0..left :
            /\ n = 0 => left = 0
            /\ client' = [client EXCEPT ![c] =
                 IF n = left /\ response[r].status = "END"
                 THEN Disabled(client[c], client[c].current + n, "STOP_SUCCESS")
                 ELSE IF n = 0
                 THEN Disabled(client[c], client[c].current, "PAUSE")
                 ELSE [client[c] EXCEPT !.current = @ + n]]
       /\ cready' = Visited(cready, c, "OUT")
       /\ UNCHANGED <<pc, exiting, accepted, clients, servers, server, response, freed,
                      cash, ready, sready, signals>>

\* write() to the client returns -1, which is added to the count as well.
ResponseSendFails(c) ==
    /\ Writing(c) /\ Sendable(client[c].response)
    /\ WriteFails("clientLeaves")
    /\ client' = [client EXCEPT
                    ![c] = Disabled(client[c], client[c].current - 1, "STOP_FAILED")]
    /\ cready' = Visited(cready, c, "OUT")
    /\ UNCHANGED <<pc, exiting, accepted, clients, servers, server, response, freed, cash,
                   ready, sready>>

-----------------------------------------------------------------------------
(***************************************************************************)
(* SIGALRM between two steps; it interrupts a poll that has begun to wait. *)
(***************************************************************************)
Alarm ==
    /\ pc \notin Stopped /\ ~exiting
    /\ Ring
    /\ pc' \in (IF pc = "poll" THEN {"poll", "sweepClients"} ELSE {pc})
    /\ UNCHANGED <<exiting, accepted, objects, pass>>

\* A write to a connection its peer has reset raises SIGPIPE, which main()
\* leaves at its default.
BrokenPipe ==
    /\ "brokenPipe" \in Env
    /\ \/ \E s \in Clients : Sending(s)
       \/ \E c \in Clients : Writing(c) /\ Sendable(client[c].response)
    /\ Halt("crash")

(***************************************************************************)
(* SIGTERM: the handler marks every connection STOP_FAILED, runs builder() *)
(* on top of whatever was interrupted, destroys the cache and exits.  It   *)
(* is delivered here between two handlers, never inside one.               *)
(***************************************************************************)
Terminate ==
    /\ "terminate" \in Env
    /\ pc \notin Stopped /\ ~exiting
    /\ exiting' = TRUE
    /\ client' = [c \in Clients |-> IF c \in clients
                    THEN [client[c] EXCEPT !.status = "STOP_FAILED"] ELSE client[c]]
    /\ server' = [s \in Clients |-> IF s \in servers
                    THEN [server[s] EXCEPT !.status = "STOP_FAILED"] ELSE server[s]]
    /\ ready' = {} /\ sready' = Nobody /\ cready' = Nobody
    /\ pc' = "sweepClients"
    /\ UNCHANGED <<accepted, clients, servers, response, freed, cash, signals>>

Destroy ==
    /\ pc = "destroy"
    /\ freed' = freed \cup {cash[k].response : k \in Held(cash)}
    /\ cash' = DestroyCash(cash)
    /\ pc' = "exit"
    /\ UNCHANGED <<exiting, accepted, clients, servers, client, server, response, pass,
                   signals>>

-----------------------------------------------------------------------------
(***************************************************************************)
(* Reads and writes through a deleted object that decide what the program  *)
(* does next.  The first is in builder(), over the clients; then           *)
(* setType(FAIL) of a deleted response; a request sent for a deleted       *)
(* client; bytes received into a deleted response; headers completed for a *)
(* deleted client; a deleted response sent to a client.                    *)
(***************************************************************************)
SweepClientsUndefined ==
    /\ pc = "sweepClients" /\ SweepReadsDeleted
    /\ Halt("undefined")

SweepServersUndefined ==
    /\ pc = "sweepServers"
    /\ \E s \in FailedServers : server[s].response \in freed
    /\ Halt("undefined")

SendUndefined(s) ==
    /\ AtServer(s) /\ "OUT" \in sready[s] /\ s \notin clients
    /\ Halt("undefined")

ReceiveUndefined(s) ==
    /\ AtServer(s) /\ sready[s] = {"IN"}
    /\ server[s].response \in freed
    /\ Halt("undefined")

HeaderUndefined(s) ==
    /\ Receiving(s) /\ s \notin clients
    /\ LET old == response[server[s].response] IN
       \E n \in ReadSizes : \E new \in Extended(old, n) :
          HeaderReceived(old, new, n) /\ new.code # "none"
    /\ Halt("undefined")

WriteUndefined(c) ==
    /\ AtClient(c) /\ cready[c] = {"OUT"}
    /\ client[c].response \in freed
    /\ Halt("undefined")

-----------------------------------------------------------------------------
Builder ==
    \/ SweepClients
    \/ SweepServers
    \/ SweepNullResponse
    \/ SweepFaults
    \/ SweepClientsUndefined
    \/ SweepServersUndefined

ServerHandler(s) ==
    \/ RequestPartlySent(s)
    \/ RequestSent(s)
    \/ RequestSendFails(s)
    \/ ResponseEnds(s)
    \/ ResponseFails(s)
    \/ ResponseGrows(s)
    \/ ResponseHeader(s)
    \/ ResponseFallsThrough(s)
    \/ SendUndefined(s)
    \/ ReceiveUndefined(s)
    \/ HeaderUndefined(s)

ClientHandler(c) ==
    \/ ClientHangup(c)
    \/ RequestFails(c)
    \/ RequestPartlyReceived(c)
    \/ RequestReceived(c)
    \/ NothingSent(c)
    \/ ResponseSent(c)
    \/ ResponseSendFails(c)
    \/ WriteUndefined(c)

Executor ==
    \/ AddClient
    \/ AcceptFails
    \/ EventCash
    \/ \E s \in Clients : ServerHandler(s)
    \/ \E c \in Clients : ClientHandler(c)
    \/ BrokenPipe
    \/ Return

Next ==
    \/ Builder
    \/ Poll
    \/ Executor
    \/ Alarm
    \/ Terminate
    \/ Destroy

Spec == Init /\ [][Next]_vars

-----------------------------------------------------------------------------
(***************************************************************************)
(* Safety.                                                                 *)
(***************************************************************************)
\* A client is only ever given a response that was fetched from the host and
\* for the resource it asked for itself: neither a cache hit, nor an eviction,
\* nor a second fetch of the same key mixes two pages up (connect_to_record,
\* add_record, requestServerHandler).
OwnResponse ==
    \A c \in clients :
        LET r == client[c].response IN
        r \in Clients => /\ client[c].request.host = client[r].request.host
                         /\ client[c].request.resource = client[r].request.resource

\* The cache holds nothing but responses whose status line said 200 and whose
\* headers are complete, however the bytes arrived (responseServerHandler).
OnlyOkCached ==
    \A k \in Held(cash) :
        LET r == response[cash[k].response] IN r.code = "OK" /\ r.status # "HEADERS"

\* No record of the cache refers to a Response that was deleted: builder()
\* deletes responses that are not in the cache, the cache deletes what it drops,
\* and neither does so twice.
CachedResponsesLive == \A k \in Held(cash) : cash[k].response \notin freed

\* Nothing is deleted twice: a response that its client will delete is in nobody
\* else's hands, neither in the cache nor already deleted, no two records share one,
\* and the error pages stay (builder, clean_unnecessary_cash, destroy).
DeletedOnce ==
    /\ \A c \in clients :
          LET r == client[c].response IN
          Attached(c) /\ Deletable(r) =>
              /\ r \notin freed
              /\ \A d \in clients \ {c} : client[d].response # r
              /\ \A k \in Held(cash) : cash[k].response # r
    /\ \A k, l \in Held(cash) : k # l => cash[k].response # cash[l].response
    /\ freed \cap Static = {}

\* No handler runs before the object it works on exists: a client that may be
\* written to, or is paused, has a response, and a server that may be read has
\* one to read into.
HandlersFindObjects ==
    /\ \A c \in clients :
          "OUT" \in client[c].events \/ client[c].status = "PAUSE" => Attached(c)
    /\ \A s \in servers : "IN" \in server[s].events => server[s].response # Null

\* When the thread blocks in poll, no client whose response has bytes it was not
\* sent, or has ended, is left without POLLOUT: the pause and the resumption of
\* a client lose no wakeup, although the response may have grown or ended in
\* between (responseClientHandler, builder).
NoLostWakeup ==
    pc = "poll" =>
        \A c \in clients :
            LET r == client[c].response IN
            /\ Attached(c) /\ r \notin freed /\ Sendable(r)
            /\ response[r].len > client[c].current \/ response[r].status = "END"
            => "OUT" \in client[c].events

\* When the thread blocks in poll, a client that waits for no event of its own
\* is fed by a live server: the one it opened, or the one that fetches the
\* response it shares, whoever opened that.  The exceptions are those the origin
\* makes: a fetch that failed, and one that ended before its headers.
StrandedOnlyByOrigin ==
    pc = "poll" =>
        \A c \in clients :
            LET r == client[c].response IN
            client[c].events = {} =>
                \/ \E s \in servers : IF Attached(c) THEN server[s].response = r ELSE s = c
                \/ Attached(c) /\ response[r].type = "FAIL"
                \/ Attached(c) /\ response[r].type = "none" /\ response[r].status = "END"

\* Clients that use the response of a record and are not in its counter.
Uncounted(k) ==
    Cardinality({c \in clients : client[c].response = cash[k].response}) - cash[k].active

SweptServers == {s \in Clients \ servers : server[s].response # Null}

OtherLeavers(k) ==
    {c \in (1..accepted) \ clients : /\ Attached(c) /\ Key(client[c].request) = k
                                     /\ client[c].response # cash[k].response}

\* The counter of a record is never above the number of clients that still use
\* its response, as long as the fetch did not fail: it counts nobody who is gone
\* (connect_client, disconnect_client).
NoOvercount ==
    \A k \in Held(cash) : response[cash[k].response].type = "CASHED" => Uncounted(k) >= 0

\* It falls below it, because add_record connects a record once while the client and
\* its server both disconnect, and nobody was connected for an error page or for a
\* response that was not inserted.  That is all: a record lacks at most one for each
\* server that was swept, whatever key it read, and one for each client that asked for
\* the key, was given something else, and left (add_record, disconnect_to_record).
UndercountIsExplained ==
    \A k \in Held(cash) :
        response[cash[k].response].type = "CASHED" =>
            Uncounted(k) <= Cardinality(SweptServers) + Cardinality(OtherLeavers(k))

\* A connection that was not given up is closed only after all of a complete
\* response was sent on it, and before that never runs ahead of what has arrived:
\* however reads, partial writes, pauses and sweeps interleave, current_recv_response
\* and the length agree in the end (send_response, builder).  The count that a failed
\* write has decreased is not written from: no event of that client is handled again.
DeliveredInFull ==
    \A c \in 1..accepted :
        LET r == client[c].response IN
        client[c].status # "STOP_FAILED" \/ cready[c] # {} =>
            /\ Attached(c) => client[c].current \in 0..response[r].len
            /\ c \notin clients => /\ Attached(c) /\ response[r].status = "END"
                                   /\ client[c].current = response[r].len

\* No client was ever given up, no alarm was taken out of the pipe, SIGTERM did not come.
Undisturbed ==
    /\ ~exiting /\ hellos = alarms
    /\ \A c \in Clients : client[c].status # "STOP_FAILED"

\* A handler works on a deleted object only after a client was given up, the cache
\* was cleaned or SIGTERM arrived: neither clients that are served and leave, nor
\* joined, concurrent, refused, cut off or failed fetches are enough.
NoCorruption == Undisturbed => pc # "undefined"

PatientPeers ==
    Env \cap {"clientLeaves", "originFails", "oneByteRead", "terminate"} = {}

GivenUpClients == {c \in Clients : client[c].status = "STOP_FAILED"}
GivenUpServers == {s \in Clients : server[s].status = "STOP_FAILED"}

\* An alarm that interrupts a blocked write makes the proxy give up a healthy connection
\* (send_response, send_request).  It costs one connection at most, and where no peer
\* fails nothing else costs any, neither an error page, nor an eviction, nor a deleted
\* response, nor a pause.
OnePerAlarm ==
    PatientPeers => Cardinality(GivenUpClients) + Cardinality(GivenUpServers) <= alarms

\* When the SIGTERM handler gets as far as exit(), every connection has been
\* closed and every record erased.
CleanExit == pc = "exit" => clients = {} /\ servers = {} /\ Held(cash) = {}

(***************************************************************************)
(* The inductive invariant: how the objects refer to each other.  These    *)
(* hold of deleted clients and servers too, whose numbers are not reused.  *)
(***************************************************************************)
\* A server that may be read has its own Response and one that may be written
\* has none; only events that are enabled are handled; its client has asked.
ServersLinked ==
    \A s \in Clients :
        /\ server[s].response \in {s, Null}
        /\ "IN" \in server[s].events => server[s].response = s
        /\ server[s].response = s => client[s].response = s
        /\ "OUT" \in server[s].events => server[s].response = Null
        /\ sready[s] \subseteq server[s].events
        /\ sready[s] # {} => s \in servers /\ pc \in {"executor"} \cup Stopped
        /\ s \in servers => client[s].request # Null

\* A client is readable until it has asked, and has a response only after that.
ClientsLinked ==
    \A c \in Clients :
        /\ "IN" \in client[c].events => client[c].request = Null
        /\ client[c].request = Null => client[c].response = Null
        /\ c > accepted => client[c].request = Null
        /\ c \in clients \/ cready[c] # {} => c <= accepted
        /\ cready[c] \ {"HUP"} \subseteq client[c].events
        /\ "OUT" \in client[c].events \/ client[c].status = "PAUSE" => Attached(c)

\* Responses and records carry the key their own client asked for.
KeysAgree ==
    /\ \A c \in Clients :
          LET r == client[c].response IN
          r \in Clients => /\ client[r].request # Null
                           /\ Key(client[c].request) = Key(client[r].request)
    /\ \A k \in Held(cash) :
          LET r == cash[k].response IN
          client[r].request # Null /\ Key(client[r].request) = k

\* A record refers to a live Response with status 200, given out by its server.
RecordsSound ==
    /\ \A k \in Held(cash) :
          LET r == cash[k].response IN
          /\ r \notin freed
          /\ server[r].response = r
          /\ response[r].code = "OK"
          /\ response[r].status # "HEADERS"
          /\ response[r].type \in {"CASHED", "FAIL"}
    /\ \A r \in Clients :
          /\ response[r].code # "none" => response[r].status # "HEADERS"
          /\ response[r].type = "NO_CASH" => response[r].code = "NO_OK"

\* A server that has no Response yet has not filled one.
UnusedEmpty == \A s \in Clients : server[s].response = Null => response[s].len = 0

\* The objects refer to each other as builder and the handlers rely on.
Inv == TypeOK /\ ServersLinked /\ ClientsLinked /\ KeysAgree /\ RecordsSound

(***************************************************************************)
(* The second inductive invariant, on top of Inv: how far the objects are. *)
(***************************************************************************)
\* What no connection and no fetch has used is as new.
UnusedIsNew ==
    /\ \A c \in Clients : c > accepted => client[c] = NewClient
    /\ \A s \in Clients : server[s].response = Null => response[s] = NewResponse
    /\ \A r \in Static : response[r] = ErrorPage

\* A fetch goes on while its server is live and ends with the whole response or
\* a failure.
FetchesProgress ==
    \A s \in Clients :
        /\ server[s].response = s =>
              s \in servers \/ response[s].type = "FAIL" \/ response[s].status = "END"
        /\ server[s].response = s /\ s \in servers => response[s].type # "FAIL"
        /\ s \in servers /\ server[s].status = "STOP_SUCCESS" =>
              server[s].response = s /\ response[s].status = "END"
        /\ s \in servers /\ server[s].response = Null => client[s].response = Null
        /\ "IN" \in server[s].events => response[s].status # "END"
        /\ response[s].type = "CASHED" => response[s].code = "OK"
        /\ response[s].type # "DURING_CASH"

\* A response in use was given out by its server, and only a cached one is shared.
SharedIsCached ==
    \A c \in Clients :
        LET r == client[c].response IN
        r \in Clients => /\ server[r].response = r
                         /\ r # c => response[r].type \in {"CASHED", "FAIL"}

\* A client asks, waits for its server, writes, and stops with all of its response;
\* it is not visited after it stopped.
ClientsProgress ==
    \A c \in clients :
        /\ client[c].request = Null /\ client[c].status = "ACTIVE" => "IN" \in client[c].events
        /\ client[c].request # Null /\ ~Attached(c) => c \in servers
        /\ Attached(c) /\ Sendable(client[c].response) /\ client[c].status = "ACTIVE" =>
              "OUT" \in client[c].events
        /\ client[c].status = "STOP_SUCCESS" =>
              /\ Attached(c)
              /\ response[client[c].response].status = "END"
              /\ client[c].current = response[client[c].response].len

Visiting ==
    \A c \in Clients : cready[c] # {} =>
        /\ c \in clients /\ client[c].status \in {"ACTIVE", "PAUSE"}
        /\ pc \in {"executor"} \cup Stopped
        /\ "HUP" \in cready[c] => "clientLeaves" \in Env

\* After its loop over the clients builder() has left none that stopped or that
\* is paused without a reason.
Swept ==
    pc \in {"sweepServers", "poll"} =>
        \A c \in clients : client[c].status \in {"ACTIVE", "PAUSE"} /\ ~Resumable(c)

\* How far the SIGTERM handler has come.
ExitProgress ==
    /\ exiting => pc \in {"sweepClients", "sweepServers", "destroy"} \cup Stopped
    /\ pc \in {"destroy", "exit"} => exiting /\ clients = {} /\ servers = {}
    /\ pc = "exit" => Held(cash) = {}
    /\ exiting /\ pc = "sweepClients" =>
          \A c \in clients : client[c].status = "STOP_FAILED"
    /\ exiting /\ pc = "sweepServers" => clients = {}
    /\ exiting /\ pc \in {"sweepClients", "sweepServers"} =>
          \A s \in servers : server[s].status = "STOP_FAILED"

\* How far clients, fetches, a sweep and the SIGTERM handler have come agrees, which
\* is what the loop relies on when it blocks in poll and when it exits.
Progress ==
    /\ UnusedIsNew /\ FetchesProgress /\ SharedIsCached /\ ClientsProgress
    /\ Visiting /\ Swept /\ ExitProgress

(***************************************************************************)
(* The third: what was sent to each client and what was deleted, once and  *)
(* for all.                                                                *)
(***************************************************************************)
\* No client was sent what had not arrived; one that is gone, and was not given up,
\* has all of its response.
SentIsThere ==
    \A c \in Clients :
        LET r == client[c].response IN
        client[c].status # "STOP_FAILED" =>
            /\ ~Attached(c) => client[c].current = 0
            /\ Attached(c) => client[c].current \in 0..response[r].len
            /\ c \in (1..accepted) \ clients =>
                  Attached(c) /\ response[r].status = "END"
                  /\ client[c].current = response[r].len

\* Deleted responses were given out by their servers, and one that never was in the
\* cache went with its client.
FreedWereUsed ==
    \A r \in freed :
        /\ r \in Clients /\ server[r].response = r
        /\ response[r].type \in {"NO_CASH", "CASHED", "FAIL"}
        /\ response[r].type = "NO_CASH" => r \notin clients

Delivery == SentIsThere /\ FreedWereUsed

(***************************************************************************)
(* The fourth, for as long as nothing has disturbed the proxy: a client     *)
(* that is gone has been sent all of its response, so nobody works for it  *)
(* any more.                                                               *)
(***************************************************************************)
\* Signals are handled in the order they come, and only those that came.
PipeHoldsAlarms == hellos <= alarms /\ ("cash" \in ready => hellos > 0)

\* So far a fetch that failed had not ended, and only the response of a client that
\* is gone, and had it alone, is deleted.
FailedStayOpen ==
    \A s \in servers : server[s].response = s /\ server[s].status = "STOP_FAILED" =>
        response[s].status # "END"

FreedAreGone == \A r \in freed : r \in (1..accepted) \ clients /\ response[r].type = "NO_CASH"

\* Until a client is given up, an alarm is handled or SIGTERM arrives, clients,
\* fetches and deleted responses are in step, whatever the origins do.
UndisturbedProgress ==
    /\ PipeHoldsAlarms
    /\ Undisturbed =>
          NoCorruption /\ FailedStayOpen /\ FreedAreGone

(***************************************************************************)
(* Action properties.                                                      *)
(***************************************************************************)
\* Bytes that arrived are never taken back while anyone may be sending them: a
\* server gives out one Response and only ever appends to it.
NeverForgetsBytes == [][\A r \in Responses : response'[r].len >= response[r].len]_vars

\* What a client asked for and was given is final: no handler, for whatever peer,
\* asks again for it or moves it to another response, and what it was sent is sent
\* once (addServerConnectionHandler, requestServerHandler, responseClientHandler).
AnswersAreFinal ==
    [][\A c \in Clients :
          /\ client[c].request # Null => client'[c].request = client[c].request
          /\ Attached(c) => client'[c].response = client[c].response
          /\ client'[c].status # "STOP_FAILED" => client'[c].current >= client[c].current]_vars

\* What was taken off a counter too often is never given back: a record that fell
\* behind its users, as it does when its server disconnects, or a client that got an
\* error page, stays behind, so that clean_unnecessary_cash does not find it unused
\* when it is, and may find it unused when it is not.
CountsNeverRecover ==
    [][\A k \in Held(cash) :
         /\ k \in Held(cash') /\ cash'[k].response = cash[k].response
         /\ response'[cash[k].response].type = "CASHED"
         => Uncounted(k)' >= Uncounted(k)]_vars

\* What clean_unnecessary_cash says it does with a record whose fetch failed:
\* after it, no record of the cache has a failed response.
FailedCashIsRemoved ==
    [][hellos' < hellos =>
         \A k \in Keys : cash'[k] # NoRecord =>
             response'[cash'[k].response].type # "FAIL"]_vars

(***************************************************************************)
(* Liveness.                                                               *)
(***************************************************************************)
\* The thread keeps running; a peer that is waited for is ready sooner or later;
\* a request that is sent in parts is complete sooner or later.
Fairness ==
    /\ WF_vars(Builder \/ Poll \/ Executor)
    /\ \A c \in Clients : /\ SF_vars(Poll /\ sready'[c] # {})
                          /\ SF_vars(Poll /\ cready'[c] # {})
                          /\ SF_vars(RequestReceived(c))
                          /\ SF_vars(RequestSent(c))

FairSpec == Spec /\ Fairness

\* Every client that connects is served and closed, as long as the origins answer
\* and nobody leaves, unless builder() faults on a deleted request.
EveryClientIsAnswered ==
    \A c \in Clients : (c \in clients) ~> (c \notin clients \/ pc = "crash")
=============================================================================
