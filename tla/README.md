# A verification of the caching proxy

TLA+ modules, TLC runs and machine-checked proofs about the single-threaded caching HTTP
proxy of this repository.

## 1. Inventory

| part | state it keeps | operations | what makes it correct |
|---|---|---|---|
| **Event loop** `PollScheduler.cpp` | vectors of `Client*` and `Server*`, the two `pollfd` arrays | `open_connect`, `builder`, `executor`, one handler per event, `destroy` | handlers meet live objects of the right kind; nobody who can be served sleeps forever; removal releases exactly what is no longer used |
| **Cache** `cash/` | `unordered_map` from host + resource to `CashRecord` (response, `count_active`, `count`); three error pages; the pipe | `connect_to_record`, `add_record`, `disconnect_to_record`, `clean_unnecessary_cash`, `destroy` | only complete 200 headers are cached; a key gives its own page; no deleted response is reachable; counters match the users |
| **Clients** `client/` | status, poll events, `Request`, borrowed `Response`, bytes sent | `forming_request`, `check_valid_request`, `send_response`, mode switches | every byte of the response is sent once, a pause ends when there is more |
| **Origins** `server/` | status, poll events, the *client's* `Request`, the `Response`, bytes sent | `send_request`, `recv_response`, mode switches | bytes are only appended; the end and the failure of a fetch reach everyone who shares it |
| **Messages** `connection/Request`, `connection/Response` | growing buffers, parsed fields; type, status, code | `append_buf`, `resolve` | there is always room for the next read; parsing stays in the buffer |
| **Connections** `connection/ConnectionScheduler` | the listening socket | `listen_socket`, `fresh_connection`, `connect_to_server`, `disconnect` | one descriptor per connection, none closed for somebody else; nobody waits for another |
| **Process** `main.cpp` | `active`, the signal handlers | the loop, SIGALRM, SIGTERM | alarms are handled; the end of the process closes everything |
| `termcolor/`, `.idea/`, build files | none | none | not modelled: vendored or no behaviour |

How they interact. One thread repeats `builder(); executor();`. `executor` calls `poll`
without a timeout and runs a handler for each ready descriptor in a fixed order: listening
socket, alarm pipe, servers, clients. A client's request is answered with an error page, with
the Response of a cache record (shared by pointer with other clients, and with the server that
may still be filling it), or by a new `Server` which borrows the client's `Request` and, once
the request is sent, makes a `Response` for both. `builder` wakes paused clients, closes and
deletes what has stopped, clients first. SIGALRM writes into the pipe, SIGTERM runs the
clean-up in the handler itself.

What is hard. Several clients, several servers, the cleaning and the peers act on the same
Responses and records in any order between two handlers; objects are deleted by hand while
others point to them; a fetch can fail or be cut at any byte; signals arrive anywhere. The
hazards, each at its line, are in `PROJECT.json`.

## 2. Modules

| module | models |
|---|---|
| `CashScheduler` | `cash/CashScheduler.cpp`, `cash/CashRecord.cpp`: each member function is an operator from the map before the call to the map after it |
| `PollScheduler` | the event loop and all it calls, with the signals of `main.cpp`; extends `CashScheduler` |
| `MCPollScheduler` | the requests used by the TLC runs |
| `PollSchedulerProofs` | the proofs of `Inv` and its consequences; extends `PollScheduler` |
| `PollSchedulerEffects` | every step of `PollScheduler` as one of ten effects on the objects (or `EventCash`, `Destroy`), proved |
| `PollSchedulerProgressProofs` | the proofs of `Progress`, and of how far the counters of the cache are off |
| `PollSchedulerDeliveryProofs` | the proofs of `Delivery`, of `UndisturbedProgress`, of what follows from them, and of what an alarm costs |
| `ProxyService` | what the proxy promises its clients, without loop, cache or servers |
| `PollSchedulerService` | the mapping under which `PollScheduler` implements `ProxyService` |
| `PollSchedulerServiceProofs` | the proof that it does |
| `RequestFields` | `Request::resolve` and the `sscanf` of `connect_to_server` as operators on the bytes received |
| `RequestBuffer` | the request of one client as bytes: `forming_request`, `append_buf`, `send_request`; extends `RequestFields` |
| `MCRequestBuffer` | the streams used by the TLC runs |
| `RequestBufferProofs` | the proofs about `RequestBuffer` and the scans of `RequestFields` |
| `ConnectionScheduler` | descriptors, accept, `connect_to_server` address by address, and the calls that block the thread |
| `MCConnectionScheduler` | the descriptor table used by the TLC runs |
| `ConnectionSchedulerProofs` | the proofs about `ConnectionScheduler` |
| `Signals` | SIGALRM and SIGTERM on top of any call of the loop and of each other |
| `MCSignals` | the pipe used by the TLC run |
| `SignalsProofs` | the proofs about `Signals` |

**Objects.** The n-th accepted connection is client n. A `Server` is only created for a
client's request, at most once, and a `Response` is only created by a server, so both carry
their client's number; the three error pages have names of their own. Numbers are never used
again: `clients`, `servers` and `freed` say what is live. The fields of an object stay behind
when it is deleted, which is how the model knows that somebody reads them too late.

**Vectors.** `clients` is a set; its order is the order of acceptance, hence of the numbers.
`servers` is a set; its order is kept in the field `turn`.

**Steps.** Each handler is one action and does all the code does before it returns. `pc` is the
place of the thread: the two loops of `builder` (`sweepClients`, `sweepServers`), the call of
`poll`, the pass over the ready descriptors (`executor`, with `ready`, `sready`, `cready` the
events still to be handled) and the end of the SIGTERM handler (`destroy`). Any subset of the
peers may be ready at a poll; a hang-up is reported whether it was asked for or not, as poll(2)
does. What a handler reads from a peer (all, a part, nothing, an error) is a choice.

**Data.** A request is the record `resolve()` leaves behind. A response is its type, status,
code and length. `recv_response` returns a byte count that collides with
`RESPONSE_RECEIVED_HEADER` (1) when one byte arrives, so the size of a read is kept as one or
"more than one". A read buffer always has room (`append_buf` follows every read that fills it);
for requests that is a theorem about `RequestBuffer`.

**Bytes.** `RequestBuffer` follows one request from the client to the origin: `stream` is what the
client writes, with every byte but carriage return and line feed alike, `req_len` and `len_buf` the
fill and the size of the buffer, `current_send_reques` what the origin has been sent. A read
returns any number of bytes that fit and are left, and 0 when it is asked for none or the client
has gone, which `forming_request` does not tell apart. `PollScheduler` has the outcomes of this
module as choices: `RequestPartlyReceived`, `RequestReceived`, `RequestFails`; `RequestPartlySent`,
`RequestSent`, `RequestSendFails`.

**Fields.** `resolve()` is a chain of scans, each of which starts where the one before ended and has no
bound; a scan that finds nothing gives the position after the bytes received, and a request whose
last scan does that goes to the stage `undefined`. The fields are pointers into the buffer that
nobody writes to any more, so they are operators on `received`. The reference they are compared
with is the request as HTTP writes it: `HostLines`, `HostValueAt`, `ValueEnd`. The two `sscanf` of
`connect_to_server` are `Word`, at most `Width` bytes up to a colon or a carriage return, `PortGiven`, whether the
first of them matched both its fields, and `ServerName`, what `host_name` holds after them. They read a
C string, which ends at the first zero byte and not where the request ends, and `append_buf` leaves what
`realloc` finds behind it. So they work on a text: `received` with one of `Rests` behind it.

**Descriptors and calls that wait.** `ConnectionScheduler` is a second view of the same loop. Its
clients ask for pages nobody else asks for and stay, and what `PollScheduler` has as one step, a
`getaddrinfo`, `connect` or `write`, is begun by the thread (`Resolve`, `Write`) and ended by the
network (`Resolved`, `ConnectSucceeds`, `ConnectAgain`, `ConnectFails`, `Written`), with nothing of the
thread between. The kernel gives out the lowest free descriptor. `failures` counts the connects that
failed with a socket in hand.

**Frames.** `Signals` is a third view: `stack` holds the frames, only its last one runs, and each
action is one call that a signal may precede. `builder` is written once and run by "main" and "term".
Connections have no state but that they are in the vector, stopped, open, and how often they were
released and deleted. The logger is a mutex that is not recursive.

**Memory errors.** A read of a deleted `Request` or `Response` of which only a value is used is
modelled by what the read may give: any key or no key, a type that counts or not, or a fault
(`SweepServers`, `SweepFaults`). A deleted object that decides more than that, or is written
to, leads to the state `undefined`, where the behaviour ends. A null pointer and SIGPIPE lead to
`crash`. The properties hold up to and including such a state. The build is the one
`CMakeLists.txt` gives, without optimisation: a function that runs off its end returns and its
caller takes no case of its switch (`NothingSent`, for instance).

**Signals.** SIGALRM may arrive between any two actions and inside a blocked `write`, which then
returns -1, because the handlers are installed without SA_RESTART (`WriteFails`). It makes a
poll that is waiting return -1. SIGTERM is delivered between two actions; what it does inside one
is the subject of `Signals`.

**Actions and code.** `SweepClients`, `SweepServers`: `builder`. `Poll`, `Return`: `executor`
and the loop of `main`. `AddClient`, `AcceptFails`: `addClientConnectionHandler`. `EventCash`:
`eventCashHandler`. `RequestPartlySent`, `RequestSent`, `RequestSendFails`:
`requestServerHandler`. `ResponseEnds`, `ResponseFails`, `ResponseGrows`, `ResponseHeader`,
`ResponseFallsThrough`: `responseServerHandler`. `ClientHangup`: the POLLHUP branch.
`RequestFails`, `RequestPartlyReceived`, `RequestRejected`, `RequestInCash`, `RequestForwarded`,
`OriginUnreachable`: `requestClientHandler` with `addServerConnectionHandler`. `NothingSent`,
`ResponseSent`, `ResponseSendFails`: `responseClientHandler`. `Alarm`, `Terminate`, `Destroy`:
`main.cpp`. The lines are in `PROJECT.json`, "map".

## 3. What TLC checks

`Env` names what the environment does in an instance: `clientLeaves` (hang-up, reset, failed
write), `originFails` (reset), `originRefuses` (a status other than 200), `originTruncates` (end before the headers), `oneByteRead`,
`brokenPipe`, `terminate`. A run whose property does not survive an event leaves it out.

| run | instance | properties |
|---|---|---|
| `storm` | 2 clients, 1 page, length 2, 2 alarms, clients leave, origins fail | `CachedResponsesLive`, `HandlersFindObjects`, `NoCorruption`, `AnswersAreFinal` |
| `sharing` | 3 clients, 1 page, origins answer 200, no alarms | `NoOvercount`, `ImplementsService` |
| `hosts` | 2 clients, 2 hosts with one resource name, 2 alarms, peers that never fail | `OwnResponse`, `UndercountIsExplained`, `OnePerAlarm`, `CountsNeverRecover`, `ImplementsService` |
| `reads` | 2 clients, length 4, one-byte reads, truncation, refusal, clients leave | `Inv`, `UndisturbedProgress`, `NoLostWakeup`, `DeliveredInFull`, `OnlyOkCached`, `StrandedOnlyByOrigin`, `NeverForgetsBytes` |
| `shutdown` | 2 clients, GET and POST of one page, refusals, SIGTERM, SIGPIPE, 1 alarm | `Progress`, `Delivery`, `DeletedOnce`, `CleanExit`, `ImplementsService` |
| `liveness` | 2 clients, origins may refuse, fairness | `EveryClientIsAnswered` |
| `alarms` | `Signals`: 2 connections, 3 alarms, a pipe for 2 messages, SIGTERM, fairness | `Inv`, `TwiceOnlyInTheWindow`, `CleanExit`, `TerminationFinishes`, `AlarmsAreHandled` |
| `failed_record` | 1 client, 1 alarm, origin fails | `FailedCashIsRemoved` is violated |
| `buffer` | steps of 10 bytes, fields of 4, 4 rests; 16 streams, with fields, ports, bodies, names up to and over the width or none, without a Host field, an end or a request line | `LacksAtMostOneByte`, `Inv`, `ResolveStaysInside`, `SameFieldsHoweverCut`, `TargetIsTheHost`, `SilenceIsNoFailure` |
| `request_end` | the streams that name a host | `ForwardedIsComplete` is violated |
| `connect` | 4 clients, 4 descriptors, up to 2 addresses, `PatientSpec` | `Inv`, `OneLeakPerFailure`, `PendingIsAccepted`, `AskedIsClosed` |
| `waiting` | 2 clients, 5 descriptors, `ThreadSpec` | `NobodyWaitsForAnother` is violated |

**What they show.** Pauses lose no wakeup, whatever interleaving of growth, end and sweep.
Clients are only stranded by an origin that failed or ended before its headers. A record never
refers to a deleted response, even though sweeping a server whose client is gone disconnects an
arbitrary key: that only falsifies counters. Counters never exceed the users of a response
(`NoOvercount`); they do fall below them, because `add_record` connects once where the client
and its server both disconnect, by no more than the servers that were swept and the clients that left with
another response (`UndercountIsExplained`), and what they lack is never made up for (`CountsNeverRecover`). A record
whose server was counted off therefore stands below zero once nobody uses it, and is kept, while two
cleanings evict it if just as many clients use it as its counter lacks. No handler works on a deleted
object before a client was given up, the cache was cleaned or SIGTERM came (`NoCorruption`), and no
failure of an origin is enough; after any of these it happens, and `storm` and `shutdown` explore it. What
holds even then: nothing is deleted twice (`DeletedOnce`), a connection that is not given up is closed
with all of its response (`DeliveredInFull`), and no client is moved to another response or sent a byte
again (`AnswersAreFinal`). The count of bytes sent, from which a failed write has subtracted one, is not used again, as no
event of that client is left to be handled (`cready` in `DeliveredInFull`). An alarm that comes while a
write to a slow peer blocks makes it fail, and the proxy gives a healthy connection up: at most one for each alarm, and
where no peer fails nothing else costs any (`OnePerAlarm`). In a calm proxy too, a client that finishes in
the pass in which its server reaches the end of the stream makes `builder` read the key of a deleted
request, which may fault, and so `EveryClientIsAnswered` allows for a crash.

A request is never given up while its client is there (`SilenceIsNoFailure`): a read that filled
the buffer is always followed by `append_buf`. What the origin is sent lacks at most its last byte.
If it has a request line, and a Host field or no body, the scans of `resolve` stay inside what was
received (`ResolveStaysInside`). The proof found the second condition: without a Host field the last five
bytes received are read as its value, and a body may put five without a space or carriage return there,
or a "host:" with nothing after it; two of the streams do, and reach `undefined`. If the first "host:"
begins a line of the head and its value is one word, the fields and so the cache key are the same wherever
TCP cut the request (`SameFieldsHoweverCut`). Without that the key is made of other bytes, down to the last
five received, or of the first word of the value. `sscanf` takes any later colon followed by a number for
the port, across line ends, and the text before it for the host: `TargetIsTheHost` holds where no such
field follows, nor such a text in the rest of the buffer (`NoNumberFollows`), and the value is a name, or a name, a colon and a
number (`UsualTarget`). A name over the width of `host_name` is cut there and its port lost, as the second
conjunct says: the colon is not reached. If the value is empty, `host_name` keeps what the first `sscanf` wrote, the
begin of the field that follows (`ServerName`).

**Refinement.** `ProxyService` says what a client is promised: it asks once, is given an error page or
one page of its own host and resource, gets its bytes in order and each once, and is closed only with
all of a complete page, unless its connection fails (`Fail`, which needs `Faults`: SIGTERM, departures,
or alarms, which make a blocked write fail). `PollSchedulerService` maps clients to phases, attached
Responses to pages and `current_recv_response` to bytes delivered; servers, cache and pollfds disappear.
In `sharing` there are no faults, so every close there is a complete delivery. A mapped step is one
step of the service or none: several clients are closed or failed together (`Close(C)`, `Fail(C)`),
since a sweep or a SIGTERM does that.

**Descriptors.** Each connect that fails loses the socket it had and nothing else is lost
(`OneLeakPerFailure`). The table may fill up until every further request gets an error page, but the last
two descriptors, of the listening socket and of one client, cannot be lost, because a connect is made
for a client that holds one: everybody is still accepted and answered (`PendingIsAccepted`,
`AskedIsClosed`). In the table, with four descriptors, accept and socket both fail for want of one.

**Signals.** A SIGTERM inside `builder` may find an object deleted and still in its vector.
`TwiceOnlyInTheWindow` says that this is the only way anything is deleted or released twice, and which object
it is. When the handler gets to `exit` all is closed but a connection accepted and not yet in the vector
(`CleanExit`). It gets there unless it interrupted a line of log, whose mutex it waits for, or an alarm
found the pipe full (`TerminationFinishes`).

**Findings.** `builder` records a failed fetch with `setType(FAIL)` while
`clean_unnecessary_cash` and `connect_to_record` look at `getStatus()`. In `failed_record` TLC
shows a record whose fetch failed surviving the cleaning meant to remove it.

`forming_request` reports the end of a request at the line feed and carriage return that begin the
blank line. If a read stops there, the last line feed stays in the socket and the origin gets an
unterminated request (`request_end`, whose requests are complete and name their host). It takes no luck: a buffer growing by ten bytes cuts every
request of 10k + 1 bytes at that place, and the origin may wait for a byte that never comes.

The assignment in `README.md` demands that no client wait for a stage of another's request. In
`waiting`, where only the thread is fair, a client that has asked is never visited while a connect or
a write for another one waits. The alarm is left out of `ConnectionScheduler`: in the program it interrupts each
of these calls after 30 seconds at most, which makes the wait finite and not nobody's: the next call made for the
same client, or for another slow one, waits again.

**Bounds.** `MaxClients`, `MaxLen`, `MaxAlarms` bound the connections accepted, the bytes of a
response and the alarms; nothing else is cut off. Two clients already give every pair of roles
(fetcher and joiner, two concurrent fetches, a leaver and its heir), the third gives two joiners
and a joiner of one of two fetches. Two bytes are the smallest complete header; four leave room
for an open header, its completion one byte at a time and a body. Two alarms are what evicting a
record takes (one clears `count`). `storm` has no refusals, which `reads` has: a response with another
status is never in the cache, so no eviction meets it, and a write that an alarm interrupts gives a client
up as one that fails does. Two requests with
the same resource and different hosts, or different methods, tell the branches apart.
With the buffer step of ten bytes that the code has, reads of the streams, of 5 to 33 bytes, end on,
before and after the end of the buffer and inside the blank line, and take up to eight bytes that follow
the head, which the last five bytes of a request without a Host field must be among for a scan to leave
it; the streams have each kind of field before and after the Host field that a scan could take for it.
`Width` is 4 for the 99 of the code, with names of less, of 4 and of 5 bytes; the rests are what matters to `sscanf`:
nothing, a colon with a number, a number, and the begin of a field.
Four descriptors are the listening socket, a client, its server and one more, which four clients
compete for and failed connects take; two addresses let a connect be tried again. Two messages in the
pipe and three alarms let one find it full, and two connections let one be removed while another is
accepted. In `Signals` alarms are bounded by `MaxAlarms`, connections by `Conns`.
`CHECK_DEADLOCK FALSE` is right in every run: the process may end, and once no connection is left
poll waits without a timeout.

**Fairness** (`liveness`). Weak fairness of the thread: the loop always goes on. Strong
fairness of each peer becoming ready whenever it is polled again and again, and of a request being
complete after finitely many parts: the peers of these runs neither stall nor leave. Nothing is
assumed about alarms, signals or arrivals. No step of the responses needs fairness of its own:
they end by `MaxLen`.

In `alarms`, weak fairness of the frame that runs; a poll is only assumed to return for the pipe, and
signals need not come. `ThreadSpec` (`waiting`) assumes that the thread makes its next call when it does
not wait in one, and nothing of the peers, which is what the assignment asks of the proxy alone.
`PatientSpec` (`connect`) adds that the calls that wait return, as the timeouts of TCP and of the
resolver see to, that accepted clients ask, and that origins answer.

Every property of a passing run has a mutant in `PROJECT.json`, a plausible bug in a modelled
definition that TLC finds through that property. The mutants' operators stand before the
definition they change and are marked "mutant of".

## 4. What is proved

### PollScheduler

`PollSchedulerProofs`, for every value of the constants that satisfies `BoundsAssumption`
(numbers and known events), `SentinelAssumption` (null and the error pages are not clients) and
`RequestAssumption` (no record is `NoRecord`, no key is null):

| theorem | statement |
|---|---|
| `Invariance` | `Spec => []Inv` |
| `TypeCorrect` | `Spec => []TypeOK` |
| `CacheHoldsLiveResponses` | `Spec => []CachedResponsesLive` |
| `CacheHoldsOkResponses` | `Spec => []OnlyOkCached` |
| `HandlersAreSafe` | `Spec => []HandlersFindObjects` |
| `ClientsGetTheirOwnPage` | `KeysDistinguish` implies `Spec => []OwnResponse` |
| `BytesAreOnlyAppended` | `Spec => NeverForgetsBytes` |

None of the invariants is inductive by itself. `Inv` adds how the objects refer to each other, for deleted
ones too: `ServersLinked` (a server that may be read has its own Response and so has its client,
one that may be written has none, and only enabled events are pending), `ClientsLinked` (readable
until it has asked, no response before), `KeysAgree` (the client that fetched a response asked for
the key under which others got it, and under which it is cached) and `RecordsSound` (a cached
response is live, was given out by its server, has code 200 and is typed CASHED or FAIL, never
NO_CASH). The step that needs it most: a departing client deletes its response exactly when the
type is NO_CASH, and a record's response never has that type, so no sweep can delete what the
cache holds; and the code of a response never changes once its headers are complete, so a
one-byte read that reports the headers again cannot change the type to NO_CASH.

The proof has a lemma per action. `QuietStep`, `ClientStep`, `ServerStep` and `AnswerStep` treat
the actions that change no object, one client, one server with its response, or answer a request;
`NextPreservesInv` puts them together.

`BytesAreOnlyAppended` is an action property. `requestServerHandler` replaces a Response by a new
one, so it needs `UnusedEmpty` beside `Inv`: a server without a Response has filled none. `Appends`
says of a step that no length shrinks and that no server loses its Response; each action has it
(`NextAppends`), and it preserves `UnusedEmpty`.

`ClientsGetTheirOwnPage` needs `KeysDistinguish`: the cache key is the plain concatenation of host
and resource, which does not determine them in general.

**How far the objects are.** `PollSchedulerProgressProofs`, under the same assumptions:

| theorem | statement |
|---|---|
| `ProgressInvariance` | `Spec => []Progress` |
| `NoWakeupIsLost` | `Spec => []NoLostWakeup` |
| `OnlyTheOriginStrands` | `Spec => []StrandedOnlyByOrigin` |
| `ExitIsClean` | `Spec => []CleanExit` |
| `NoRecordIsOvercounted` | `Spec => []NoOvercount` |
| `RecordsStayBehind` | `Spec => CountsNeverRecover` |
| `UndercountsAreExplained` | `Spec => []UndercountIsExplained` |

`Inv` says what refers to what and nothing of when. `Progress` is the second inductive invariant, on top of
it. `UnusedIsNew`: what no connection and no fetch has used is as new. `FetchesProgress`: a response
whose server is gone has ended or failed. `SharedIsCached`: a response in use was given out by its
server, and is cached or failed if it is shared. `ClientsProgress`: a client is readable until it has asked, then has
a server until it has a response, then is writable while it is active. `Visiting`: no event is pending for a client that stopped.
`Swept`: `builder` leaves no client that could be resumed. `ExitProgress`: how far the SIGTERM handler has
come. `NoLostWakeup` is `ClientsProgress` for the active clients and `Swept` for the paused ones: nothing
runs between the sweep and the poll. `StrandedOnlyByOrigin` needs the other parts as well: a client
without events either waits for its server, which exists, or has a response that is not sendable, or
has all of it and is paused, and the server of its response is live unless it ended or failed; if it
ended, `Swept` would have resumed the client.

`PollSchedulerEffects` puts the thirty actions into ten effects (`QuietEffect`, `SweepClientsEffect`,
`ServerEffect`, `HeaderEffect`, `AnswerEffect`, ...), each stated field by field, and proves `StepActs`: in a state
with `Inv` every step has one of them or is `EventCash` or `Destroy`, which need no other form. `Progress`,
`Delivery`, `UndisturbedProgress`, the counters and the refinement are all proved by these cases.

`NoOvercount` and `CountsNeverRecover` are about cardinalities. `CountsStep` says of a step that a record that
was in the cache falls no less behind its users than it was, and that a new one counts no more than it has;
`NextCounts` proves it of every step, and both properties follow, the first with the invariant `CountsBounded`.
The counter grows when a client joins, who then uses the response, and is 1 in a new record, used by the client
that fetched it. The sweep of the clients takes away as many
users as it disconnects, since every departing user of a cached response is counted under the key of its
request, which is the key of the record (`KeysAgree`); what the servers disconnect, and clients with an
error page, only lowers it, be the key right or stale.

`UndercountIsExplained` bounds what `CountsNeverRecover` only orders. `DeficitStep` says of a step that users minus
counter grow by no more than `SweptServers` and `OtherLeavers` do. The sweep of the servers takes at most one off
for each server it removes, `SweepServersEffect`. In the sweep of the clients, those who used the record's
response are taken off both sides, and the others it disconnects are new `OtherLeavers`. A new record has no user
but the client that fetched its response, whom `add_record` counts: nobody shares a response that is neither in the
cache nor deleted (`SharedIsHeld`), as others are only given the response of a record.

**What is sent and what is deleted.** `PollSchedulerDeliveryProofs`, under the same assumptions and none on
the peers, alarms or SIGTERM:

| theorem | statement |
|---|---|
| `DeliveryInvariance` | `Spec => []Delivery` |
| `ClientsAreSentAll` | `Spec => []DeliveredInFull` |
| `DeletionIsOnce` | `Spec => []DeletedOnce` |
| `AnswersStayGiven` | `Spec => AnswersAreFinal` |
| `UndisturbedInvariance` | `Spec => []UndisturbedProgress` |
| `CorruptionHasACause` | `Spec => []NoCorruption` |
| `AlarmsCostOneEach` | `Spec => []OnePerAlarm` |

`Delivery` is the third inductive invariant. `SentIsThere` has, of every client that was not given up, also of
those that are gone, that what it was sent had arrived, and that it is gone only with all of it. `DeliveredInFull` says so of the given
up ones that have events pending as well, and there are none (`Visiting`). It rests on
`StepsKeepResponses`: a response that has ended stays as it is and the others only get longer, which needs
`FetchesProgress`, since a server reads only into a response that has not ended. `FreedWereUsed` has, of a
deleted response, that its server gave it out, and that one never cached (NO_CASH) went with its own
client. `DeletedOnce` puts the three invariants together: a response its client will delete is typed
NO_CASH, so nobody shares it (`SharedIsCached`), no record has it (`RecordsSound`) and its client, who is
still there, has not deleted it (`FreedWereUsed`); two records have the keys of two clients
(`KeysAgree`). `AnswersAreFinal` needs `Progress` in the two places where the code overwrites a field without a look at it:
`requestServerHandler` gives its client a Response (it had none, `FetchesProgress`), and a new client
takes a number nobody used (`UnusedIsNew`).

`UndisturbedProgress` is the fourth, an implication: as long as no client was given up, no alarm was taken out
of the pipe and SIGTERM did not come, the only responses deleted are those of clients that are gone, and no server
failed after its response had ended. Then a client only stops with all of its response, so a response
that is deleted has ended, its server has stopped in the same pass or before, and the next sweep of the
servers removes it before anyone reads. `NoCorruption` follows, because none of the steps to `undefined` is enabled
(`NothingUndefined`). That the premise holds before a step after which it holds is a lemma of its own
(`DisturbedForGood`): a client that was given up is not visited again (`Visiting`), its number is not used
again (`UnusedIsNew`), and a message taken out of the pipe is missed for good, since the pipe never holds more
than the alarms that came (`PipeHoldsAlarms`).

`OnePerAlarm` follows from the effects: a step that gives up a client or a server names an event of `Env`, or
takes an alarm (`ServerEffect`, `ClientEffect`), and visits one object (`GrowsByOne`); the others give up nobody
(`NobodyElseIsGivenUp`), and alarms are never taken back (`AlarmsStay`).

**Refinement.** `PollSchedulerServiceProofs`:

| theorem | statement |
|---|---|
| `ServiceIsImplemented` | `KeysDistinguish` implies `Spec => ImplementsService` |

The mapped variables are definitions of `PollSchedulerService` (`phase`, `wanted`, `page`, `got`, `made`,
`whole`). There is a lemma for each kind of step: `AddClientConnects`, `AnswerAsks` (a request was answered
with an error page, a page of its own, or one of its own host and resource), `ReadGrows`,
`WritingDelivers`, `SweepCloses`, `GivingUpFails`, `TerminateFails`, and `StutterSteps` for those that change nothing
a client can see. `SweepCloses` is where `Progress` is needed: a client closed by `builder` without having
failed has `current_recv_response` equal to the length of a response that ended. `KeysDistinguish`
is needed for joins, as for `OwnResponse`.

### RequestBuffer

`RequestBufferProofs`, for every positive buffer step and width of a field, every set of streams and every set
of rests of the buffer:

| theorem | statement |
|---|---|
| `BufferInvariance` | `Spec => []Inv` |
| `SilentClientsAreWaitedFor` | `Spec => SilenceIsNoFailure` |
| `OnlyTheLastByteMayLack` | `HttpStreams` implies `Spec => []LacksAtMostOneByte` |
| `ResolveIsBounded` | `Spec => []ResolveStaysInside` |
| `FieldsDoNotDependOnTheCut` | `Spec => []SameFieldsHoweverCut` |
| `TheHostIsConnectedTo` | `Spec => []TargetIsTheHost` |

`Inv` adds to the type `RoomToRead`, a free byte in the buffer before every read, and `EndWasSeen`:
only what holds the end of a request is resolved and sent, and `undefined` is the stage of what
could not be resolved. With room, `read` returns 0 for a client that has gone only. The third theorem
needs `HttpStreams`: if a line feed could be followed by a carriage return anywhere but in a blank
line, a request would be cut there.

The last three are about the chain of scans. The first lemmas have what a scan returns: the least
position with such a byte, which exists by the well-ordering of the naturals (`LeastNatural`, `ScanFinds`,
`ScanWithin`), and that a scan of what was received that ends inside it ends at the same byte in all of
the request (`SameScan`). A request that is resolved has its line feed and carriage return in the buffer, at `e`.
The request line lies before `e` (`RequestLineReceived`), because it holds no line feed; the first name
of the Host field does because no byte of a name ends a line; and the value ends at the carriage return
after `e` at the latest (`HeadIsResolvable`). So every scan ends inside what was received, and the positions
are those of the whole stream (`HostReceived`, `TargetReceived`). What `sscanf` finds in the text is what the stream has at those positions (`TextBytes`, `TextWord`), since the
value ends at a carriage return that was received; that no port is found where none is given is where `NoNumberFollows`
is used, up to the end of the text. The conditions of the properties are
those the arguments use: a request line, a Host field that begins a line before the end of the head.

### ConnectionScheduler

`ConnectionSchedulerProofs`, for every number of clients and descriptors (`TableAssumption`):

| theorem | statement |
|---|---|
| `ConnectionInvariance` | `Spec => []Inv` |
| `OneDescriptorPerFailedConnect` | `Spec => []OneLeakPerFailure` |

`Inv` says that sockets in use are open and distinct (`DescriptorsAreOwned`) and, for induction, that a step
that stores a new descriptor overwrites none (`NothingOverwritten`). The lowest free descriptor
exists while the table is not full, by the well-ordering of the naturals, and is not open, hence owned
by nobody; what is closed is owned by the client or server that gives it up and by no other.
The socket of `connect_to_server` counts as owned from the call of `socket` on, and moves to
the server when the connect succeeds. With that every step but `ConnectFails` leaves `open \ Owned`, the
descriptors that are lost, as it is, and `ConnectFails` adds one if the call had a socket.

### Signals

`SignalsProofs`, for every set of connections, size of the pipe and number of alarms (`RoomAssumption`,
which also says that `None` is neither a connection nor a frame):

| theorem | statement |
|---|---|
| `SignalsInvariance` | `Spec => []Inv` |
| `SignalsTypeCorrect` | `Spec => []TypeOK` |
| `TwiceIsTheOneInHand` | `Spec => []TwiceOnlyInTheWindow` |
| `ExitLeavesTheGreeted` | `Spec => []CleanExit` |

`TwiceOnlyInTheWindow` speaks of counters that only grow, so it needs to know which removal each count comes
from. `Inv` says, for every connection, that it was released and deleted at most once besides by the
removal the loop was interrupted in (`Counted`), and for a connection still in its vector exactly by the
removals in progress. The rest ties the frames to what they hold: no handler is on the stack twice
(`FramesNest`), so at most one `builder` is interrupted by another; the object in hand is still in its vector
unless the handler has removed it from under the loop (`InHand`); its descriptor was closed first
(`Descriptors`); once SIGTERM has marked everything, what is in the vectors is stopped, and it goes on to
`exit` when they are empty (`AllMarked`). Even `TypeOK` depends on this: the stack has three frames because
each handler is entered once.

### Only model-checked

Liveness: `EveryClientIsAnswered`, `TerminationFinishes`, `AlarmsAreHandled`, `PendingIsAccepted`, `AskedIsClosed`.
The prover has no support for fairness and ENABLED. Every invariant and every action property of the
passing runs is the statement of a theorem. The three properties that are violated are for TLC alone.

## 5. Not modelled

The buffer of a response, whose bytes are only counted, and the scan of `Response::resolve`; failed
allocations, which raise SIGTERM; signals inside an allocation; descriptors used by the resolver;
the destructors that run in `exit`; the wording of pages and logs. Vendored code and build files have no
behaviour of the proxy.

## 6. Plan

1. Done: `CashScheduler`, `PollScheduler`, the inductive invariant and its consequences.
2. Done: `RequestBuffer` with its proofs, `RequestFields`. Left: the buffer of a response and the scan of
   its `resolve`.
3. Done: `ProxyService` and the refinement, checked in three runs.
4. Done: `Signals`.
5. Done: `ConnectionScheduler`, its invariant and the count of lost descriptors.
6. Done: the proofs of every safety invariant and action property the passing runs check, and of the
   refinement; what is sent to every client and what is deleted, and what it takes to corrupt memory.
   Left: what the promises of `ProxyService` come to, as theorems about it and, through the
   refinement, about the proxy; theorems about the operators of `CashScheduler` by themselves.
