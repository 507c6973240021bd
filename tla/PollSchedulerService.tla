------------------------ MODULE PollSchedulerService ------------------------
(***************************************************************************)
(* PollScheduler keeps the promises of ProxyService.  The mapping forgets  *)
(* servers, the cache, the pollfds and the place of the thread.            *)
(***************************************************************************)
EXTENDS PollScheduler

GivenUp(c) == client[c].status = "STOP_FAILED"

Phase(c) ==
    IF c > accepted THEN "absent"
    ELSE IF c \notin clients THEN "closed"
    ELSE IF GivenUp(c) THEN "failed" ELSE "open"

\* What a page is fetched for; the cache keeps it under Key, which is made of these.
Address(q) == <<q.host, q.resource>>

phase == [c \in Clients |-> Phase(c)]
wanted == [c \in Clients |-> client[c].request]
page == [c \in Clients |-> client[c].response]
got == [c \in Clients |-> IF GivenUp(c) THEN 0 ELSE client[c].current]
made == [r \in Responses |-> response[r].len]
whole == {r \in Responses : response[r].status = "END"}

Service == INSTANCE ProxyService WITH
    Pages <- Responses,
    ErrorPages <- Static,
    KeyOf <- Address,
    Nothing <- Null,
    Faults <- MaxAlarms > 0 \/ Env \cap {"clientLeaves", "terminate"} # {}

\* Every client that connects asks once, is given one page of its own host and
\* resource or an error page, is sent its bytes in order and without loss while it
\* may still be growing, and is closed only when it has been sent all of a complete
\* page, unless its connection failed: builder, executor and their handlers
\* implement ProxyService, whoever fetches, shares or leaves.
ImplementsService == Service!Spec
=============================================================================
