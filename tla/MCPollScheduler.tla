--------------------------- MODULE MCPollScheduler ---------------------------
(***************************************************************************)
(* Instances of PollScheduler for TLC.  A host or a resource is a sequence *)
(* of one token, so that two different pairs have two different keys.      *)
(***************************************************************************)
EXTENDS PollSchedulerService

Get(host, resource) ==
    [method |-> "GET", host |-> <<host>>, resource |-> <<resource>>,
     version |-> "HTTP/1.0"]

\* One page, and a request for the same page with a method that is refused.
PostIndex == [Get("host", "index") EXCEPT !.method = "POST"]
OnePage == {Get("host", "index")}
OnePageAndPost == OnePage \cup {PostIndex}
TwoHosts == OnePage \cup {Get("other", "index")}
=============================================================================
