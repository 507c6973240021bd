---------------------------- MODULE ProxyService ----------------------------
(***************************************************************************)
(* What the proxy promises its clients, without the event loop, the cache  *)
(* and the origins behind it.                                              *)
(*                                                                         *)
(* A client that connects asks once and is given one page: an error page,  *)
(* a page being fetched for the same key, or one fetched for itself.  The  *)
(* page may still grow.  Its bytes are delivered in order, each once, and  *)
(* the connection is closed when the whole page was delivered; it ends     *)
(* early only through a fault.                                             *)
(***************************************************************************)
EXTENDS Integers

CONSTANTS
    Clients,
    Pages,          \* the error pages, and for each client the one fetched for it
    ErrorPages,
    Requests,
    KeyOf(_),       \* what two requests must agree on to be given the same page
    Nothing,
    Faults          \* whether connections may end early

VARIABLES
    phase,      \* of each client: absent, open, failed or closed
    wanted,     \* the request of each client
    page,       \* the page each client is given
    got,        \* bytes delivered to each client
    made,       \* bytes there are of each page
    whole       \* pages that will not grow any more

askers == <<phase, wanted, page, got>>
pages == <<made, whole>>
vars == <<askers, pages>>

Init ==
    /\ phase = [c \in Clients |-> "absent"]
    /\ wanted = [c \in Clients |-> Nothing]
    /\ page = [c \in Clients |-> Nothing]
    /\ got = [c \in Clients |-> 0]
    /\ made = [p \in Pages |-> IF p \in ErrorPages THEN 1 ELSE 0]
    /\ whole = ErrorPages

Connect(c) ==
    /\ phase[c] = "absent"
    /\ phase' = [phase EXCEPT ![c] = "open"]
    /\ UNCHANGED <<wanted, page, got, pages>>

\* Pages that answer request q: fetched for the same key, whoever asked first.
Answers(q) ==
    ErrorPages \cup {d \in Clients : wanted[d] # Nothing /\ KeyOf(wanted[d]) = KeyOf(q)}

Ask(c, q) ==
    /\ phase[c] = "open" /\ wanted[c] = Nothing
    /\ wanted' = [wanted EXCEPT ![c] = q]
    /\ \E p \in Answers(q) \cup {Nothing} : page' = [page EXCEPT ![c] = p]
    /\ UNCHANGED <<phase, got, pages>>

\* The page of a client nothing was found for is opened, empty.
Open(c) ==
    /\ wanted[c] # Nothing /\ page[c] = Nothing
    /\ made[c] = 0
    /\ page' = [page EXCEPT ![c] = c]
    /\ UNCHANGED <<phase, wanted, got, pages>>

Grow(p) ==
    /\ p \notin whole
    /\ made'[p] > made[p]
    /\ made' = [made EXCEPT ![p] = made'[p]]
    /\ UNCHANGED <<askers, whole>>

Complete(p) ==
    /\ whole' = whole \cup {p}
    /\ UNCHANGED <<askers, made>>

Deliver(c) ==
    /\ phase[c] = "open" /\ page[c] # Nothing
    /\ \E n \in 1 .. (made[page[c]] - got[c]) : got' = [got EXCEPT ![c] = @ + n]
    /\ UNCHANGED <<phase, wanted, page, pages>>

Served(c) == page[c] \in whole /\ got[c] = made[page[c]]

Close(C) ==
    /\ \A c \in C : phase[c] = "failed" \/ (phase[c] = "open" /\ Served(c))
    /\ phase' = [c \in Clients |-> IF c \in C THEN "closed" ELSE phase[c]]
    /\ UNCHANGED <<wanted, page, got, pages>>

\* The connections of C are given up; how much they were sent does not count.
Fail(C) ==
    /\ Faults
    /\ \A c \in C : phase[c] = "open"
    /\ phase' = [c \in Clients |-> IF c \in C THEN "failed" ELSE phase[c]]
    /\ got' = [c \in Clients |-> IF c \in C THEN 0 ELSE got[c]]
    /\ UNCHANGED <<wanted, page, pages>>

Next ==
    \/ \E c \in Clients : Connect(c) \/ Open(c) \/ Deliver(c)
    \/ \E c \in Clients, q \in Requests : Ask(c, q)
    \/ \E p \in Pages : Grow(p) \/ Complete(p)
    \/ \E C \in SUBSET Clients : Close(C) \/ Fail(C)

Spec == Init /\ [][Next]_vars
=============================================================================
