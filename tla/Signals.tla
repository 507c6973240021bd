------------------------------ MODULE Signals ------------------------------
(***************************************************************************)
(* The signal handler of main.cpp on top of the event loop, at the grain   *)
(* at which it can interrupt it: between any two calls of a handler or of  *)
(* builder().                                                              *)
(*                                                                         *)
(* There is one thread.  A handler is a frame on its stack and only the    *)
(* last frame runs.  The SIGALRM handler returns to what it interrupted,   *)
(* the SIGTERM handler calls builder() itself and exits; each may          *)
(* interrupt the other.  Frames share the vectors, the descriptors, the    *)
(* pipe and the mutex of the logger.                                       *)
(*                                                                         *)
(* A connection stands for a Client or a Server with its Response; what    *)
(* the handlers of the loop do with it is in PollScheduler.                *)
(***************************************************************************)
EXTENDS Integers, Sequences, FiniteSets

CONSTANTS
    Conns,          \* connections in a behaviour (a bound)
    MaxAlarms,      \* SIGALRMs delivered (a bound)
    PipeRoom,       \* messages the pipe holds
    None

ASSUME RoomAssumption ==
    /\ MaxAlarms \in Nat
    /\ PipeRoom \in Nat \ {0}
    /\ None \notin Conns \cup {"main", "term"}

VARIABLES
    stack,      \* the frames, the one that runs last
    at,         \* the call each frame is about to make
    cur,        \* the connection each frame has in hand
    polls,      \* of the pass of executor(): whether the pipe is ready
    mutex,      \* the frame inside spdlog, or None
    fresh,      \* connections that have not come yet
    conns,      \* the vectors `clients` and `servers`
    stopped,    \* connections whose status is not ACTIVE
    opened,     \* connections whose descriptor is open
    releases,   \* how often builder() gave the response of each up
    deletes,    \* how often each object was deleted
    armed,      \* alarm() is counting
    hellos,     \* messages in the pipe
    alarms      \* SIGALRMs delivered

frames == <<stack, at, cur>>
table == <<fresh, conns, stopped, opened>>
counts == <<releases, deletes>>
clock == <<armed, hellos, alarms>>
vars == <<frames, polls, mutex, table, counts, clock>>

Frames == {"main", "alarm", "term"}

\* One removal of builder(), which "main" and "term" both run.
Removal == {"close", "release", "log", "logged", "delete", "erase"}

Places ==
    [main : Removal \cup {"sweep", "poll", "executor", "greeting", "greeted", "ending",
                          "ended", "cleaning", "cleaned"},
     alarm : {"idle", "write", "rearm"},
     term : Removal \cup {"idle", "stop", "stopped", "mark", "sweep", "destroy", "exit", "abort"}]

TypeOK ==
    /\ stack \in Seq(Frames) /\ Len(stack) \in 1..3
    /\ at \in Places
    /\ cur \in [{"main", "term"} -> Conns \cup {None}]
    /\ polls \in BOOLEAN
    /\ mutex \in {"main", "term", None}
    /\ fresh \subseteq Conns
    /\ conns \subseteq Conns
    /\ stopped \subseteq Conns
    /\ opened \subseteq Conns
    /\ releases \in [Conns -> Nat]
    /\ deletes \in [Conns -> Nat]
    /\ armed \in BOOLEAN
    /\ hellos \in 0..PipeRoom
    /\ alarms \in 0..MaxAlarms

\* main() has installed the handlers and called alarm().
Init ==
    /\ stack = <<"main">>
    /\ at = [main |-> "sweep", alarm |-> "idle", term |-> "idle"]
    /\ cur = [f \in {"main", "term"} |-> None]
    /\ polls = FALSE
    /\ mutex = None
    /\ fresh = Conns
    /\ conns = {} /\ stopped = {} /\ opened = {}
    /\ releases = [c \in Conns |-> 0]
    /\ deletes = [c \in Conns |-> 0]
    /\ armed = TRUE /\ hellos = 0 /\ alarms = 0

Gone == at.term \in {"exit", "abort"}

Runs(f) == stack[Len(stack)] = f /\ ~Gone

\* Frame f makes the call it is at and is then about to make another.
Step(f, from, to) ==
    /\ Runs(f) /\ at[f] = from
    /\ at' = [at EXCEPT ![f] = to]
    /\ UNCHANGED stack

\* A call of spdlog: the frame takes the mutex, which is not recursive, and returns
\* it.  A frame that finds it held by one below waits for good.
Log(f, from, to) ==
    /\ Step(f, from, to)
    /\ mutex = None
    /\ mutex' = f
    /\ UNCHANGED <<cur, polls, table, counts, clock>>

Unlock == mutex' = None

Logged(f, from, to) ==
    /\ Step(f, from, to)
    /\ Unlock
    /\ UNCHANGED <<cur, polls, table, counts, clock>>

-----------------------------------------------------------------------------
(***************************************************************************)
(* builder(): close, the response, a line of log, delete, erase, for each  *)
(* connection that stopped; the frame with the rest of the program.        *)
(***************************************************************************)
Sweep(f) ==
    /\ \E c \in conns \cap stopped :
         /\ Step(f, "sweep", "close")
         /\ cur' = [cur EXCEPT ![f] = c]
    /\ UNCHANGED <<polls, mutex, table, counts, clock>>

\* mutant of AfterSweep: the handler goes on like the loop
GoOn(f) == "poll"

AfterSweep(f) == IF f = "main" THEN "poll" ELSE "destroy"

Swept(f) ==
    /\ conns \cap stopped = {}
    /\ Step(f, "sweep", AfterSweep(f))
    /\ UNCHANGED <<cur, polls, mutex, table, counts, clock>>

Close(f) ==
    /\ Step(f, "close", "release")
    /\ opened' = opened \ {cur[f]}
    /\ UNCHANGED <<cur, polls, mutex, fresh, conns, stopped, counts, clock>>

\* disconnect_to_record, or delete of the Response.
Release(f) ==
    /\ Step(f, "release", "log")
    /\ releases' = [releases EXCEPT ![cur[f]] = @ + 1]
    /\ UNCHANGED <<cur, polls, mutex, table, deletes, clock>>

LogRemoval(f) == Log(f, "log", "logged")
LoggedRemoval(f) == Logged(f, "logged", "delete")

\* mutant of AfterDelete: the element is erased in a later pass
NextSweep == "sweep"

AfterDelete == "erase"

Delete(f) ==
    /\ Step(f, "delete", AfterDelete)
    /\ deletes' = [deletes EXCEPT ![cur[f]] = @ + 1]
    /\ UNCHANGED <<cur, polls, mutex, table, releases, clock>>

\* The SIGTERM handler came between the release of an object and its erase: it uses
\* and deletes again what is deleted, and the allocator may end the process.
HalfRemoved == cur.main \in conns /\ at.main \in {"log", "delete", "erase"}

Abort ==
    /\ HalfRemoved
    /\ \E from \in Removal \cup {"mark"} : Step("term", from, "abort")
    /\ UNCHANGED <<cur, polls, mutex, table, counts, clock>>

Erase(f) ==
    /\ Step(f, "erase", "sweep")
    /\ conns' = conns \ {cur[f]}
    /\ cur' = [cur EXCEPT ![f] = None]
    /\ UNCHANGED <<polls, mutex, fresh, stopped, opened, counts, clock>>

Builder(f) ==
    \/ Sweep(f) \/ Swept(f) \/ Close(f) \/ Release(f)
    \/ LogRemoval(f) \/ LoggedRemoval(f)
    \/ Delete(f) \/ Erase(f)

-----------------------------------------------------------------------------
(***************************************************************************)
(* executor(): the accepting of a connection, whose descriptor is open     *)
(* before it is in the vector; the end of one; the cleaning.               *)
(***************************************************************************)
Polled ==
    /\ Step("main", "poll", "executor")
    /\ polls' = (hellos > 0)
    /\ UNCHANGED <<cur, mutex, table, counts, clock>>

\* poll returns by itself when the pipe is ready, else when a peer is.
Poll == hellos > 0 /\ Polled
PeerReady == hellos = 0 /\ fresh \cup conns # {} /\ Polled

Return ==
    /\ ~polls
    /\ Step("main", "executor", "sweep")
    /\ UNCHANGED <<cur, polls, mutex, table, counts, clock>>

Accept ==
    /\ \E c \in fresh :
         /\ Step("main", "executor", "greeting")
         /\ cur' = [cur EXCEPT !.main = c]
         /\ fresh' = fresh \ {c}
         /\ opened' = opened \cup {c}
    /\ UNCHANGED <<polls, mutex, conns, stopped, counts, clock>>

Greet == Log("main", "greeting", "greeted")

AddClient ==
    /\ Step("main", "greeted", "executor")
    /\ Unlock
    /\ conns' = conns \cup {cur.main}
    /\ cur' = [cur EXCEPT !.main = None]
    /\ UNCHANGED <<polls, fresh, stopped, opened, counts, clock>>

End ==
    /\ \E c \in conns \ stopped :
         /\ Step("main", "executor", "ending")
         /\ cur' = [cur EXCEPT !.main = c]
    /\ UNCHANGED <<polls, mutex, table, counts, clock>>

LogEnd == Log("main", "ending", "ended")

Stop ==
    /\ Step("main", "ended", "executor")
    /\ Unlock
    /\ stopped' = stopped \cup {cur.main}
    /\ cur' = [cur EXCEPT !.main = None]
    /\ UNCHANGED <<polls, fresh, conns, opened, counts, clock>>

\* mutant of Drained: the messages stay in the pipe
DrainedNothing(n) == n

\* read() of ten bytes takes two messages of five, or the one there is.
Drained(n) == IF n > 2 THEN n - 2 ELSE 0

EventCash ==
    /\ polls
    /\ Step("main", "executor", "cleaning")
    /\ hellos' = Drained(hellos)
    /\ polls' = FALSE
    /\ UNCHANGED <<cur, mutex, table, counts, armed, alarms>>

LogEventCash == Log("main", "cleaning", "cleaned")
EventCashLogged == Logged("main", "cleaned", "executor")

Executor ==
    \/ Poll \/ Return
    \/ Accept \/ Greet \/ AddClient
    \/ End \/ LogEnd \/ Stop
    \/ EventCash \/ LogEventCash \/ EventCashLogged

-----------------------------------------------------------------------------
(***************************************************************************)
(* SIGALRM.  It interrupts a poll that waits; its write waits for room in  *)
(* the pipe, which only the frames below could make.                       *)
(***************************************************************************)
Interrupt(f) == stack' = Append(stack, f)

Alarm ==
    /\ armed /\ alarms < MaxAlarms /\ ~Gone
    /\ \A i \in 1..Len(stack) : stack[i] # "alarm"
    /\ Interrupt("alarm")
    /\ armed' = FALSE
    /\ alarms' = alarms + 1
    /\ \E waited \in BOOLEAN :
          at' = [at EXCEPT !.alarm = "write",
                           !.main = IF @ = "poll" /\ waited THEN "sweep" ELSE @]
    /\ UNCHANGED <<cur, polls, mutex, table, counts, hellos>>

Ring ==
    /\ hellos < PipeRoom
    /\ Step("alarm", "write", "rearm")
    /\ hellos' = hellos + 1
    /\ UNCHANGED <<cur, polls, mutex, table, counts, armed, alarms>>

Rearm ==
    /\ Runs("alarm") /\ at.alarm = "rearm"
    /\ armed' = TRUE
    /\ at' = [at EXCEPT !.alarm = "idle"]
    /\ stack' = SubSeq(stack, 1, Len(stack) - 1)
    /\ UNCHANGED <<cur, polls, mutex, table, counts, hellos, alarms>>

(***************************************************************************)
(* SIGTERM: a line of log, destroy(), builder(), the cache and the exit.   *)
(***************************************************************************)
Terminate ==
    /\ at.term = "idle"
    /\ Interrupt("term")
    /\ at' = [at EXCEPT !.term = "stop"]
    /\ UNCHANGED <<cur, polls, mutex, table, counts, clock>>

LogStop == Log("term", "stop", "stopped")
StopLogged == Logged("term", "stopped", "mark")

\* mutant of Marked: what the loop has in hand is left to it
NotInHand == conns \ {cur.main}

Marked == conns

\* PollScheduler::destroy, over the vectors as the interrupted frame left them.
Mark ==
    /\ Step("term", "mark", "sweep")
    /\ stopped' = stopped \cup Marked
    /\ UNCHANGED <<cur, polls, mutex, fresh, conns, opened, counts, clock>>

Exit ==
    /\ Step("term", "destroy", "exit")
    /\ UNCHANGED <<cur, polls, mutex, table, counts, clock>>

AlarmHandler == Ring \/ Rearm
TermHandler == LogStop \/ StopLogged \/ Mark \/ Abort \/ Exit

-----------------------------------------------------------------------------
Thread == Builder("main") \/ Builder("term") \/ Executor \/ AlarmHandler \/ TermHandler

Next == Thread \/ PeerReady \/ Alarm \/ Terminate

Spec == Init /\ [][Next]_vars

\* The frame that runs goes on, if it does not wait.  Peers need not be ready, and
\* nothing is assumed of the signals.
FairSpec == Spec /\ WF_vars(Thread)

-----------------------------------------------------------------------------
\* The alarm handler waits for room in the pipe, and below it nobody can read.
PipeBlocks == Runs("alarm") /\ at.alarm = "write" /\ hellos = PipeRoom

\* The logger is waited for by the handler on top of the frame that holds it.
LoggerBlocks == mutex = "main" /\ at.term = "stop"

\* builder() is not written to be interrupted by itself, but no object is deleted twice,
\* and no response given up twice, unless SIGTERM arrived in the few calls between that
\* and the erase, and then it is the one the loop had in hand.
TwiceOnlyInTheWindow ==
    \A c \in Conns :
        /\ deletes[c] > 1 => at.main = "erase" /\ cur.main = c
        /\ releases[c] > 1 => at.main \in {"log", "delete", "erase"} /\ cur.main = c
        /\ deletes[c] < 3 /\ releases[c] < 3

\* Wherever SIGTERM arrived, when the handler reaches exit() every object was removed and
\* every descriptor closed, except one that was accepted and not yet in the vector.
CleanExit ==
    at.term = "exit" =>
        /\ conns = {}
        /\ opened \subseteq {cur.main}
        /\ opened # {} => at.main \in {"greeting", "greeted"}

(***************************************************************************)
(* The inductive invariant: who is on the stack, what each frame has in    *)
(* hand and how far it is with it.                                         *)
(***************************************************************************)
\* The loop is at the bottom, and no handler is entered twice.
FramesNest ==
    /\ stack[1] = "main"
    /\ \A i, j \in 1..Len(stack) : stack[i] = stack[j] => i = j
    /\ \A f \in {"alarm", "term"} :
          at[f] = "idle" <=> \A i \in 1..Len(stack) : stack[i] # f

\* A frame inside a call of spdlog has the mutex, and the SIGTERM handler goes on only
\* when the loop is not inside one.
MutexHeld ==
    /\ \A f \in {"main", "term"} :
          at[f] \in {"logged", "greeted", "ended", "cleaned", "stopped"} => mutex = f
    /\ at.term \notin {"idle", "stop"} => mutex # "main"

\* The connection that was accepted and is not in the vector yet.
Greeted == IF at.main \in {"greeting", "greeted"} THEN {cur.main} ELSE {}

\* What is removed is in its vector; the SIGTERM handler may remove it from under the loop.
InHand ==
    /\ Greeted \cap (fresh \cup conns) = {} /\ Greeted \subseteq Conns
    /\ at.main \in Removal \cup {"ending", "ended"} =>
          /\ cur.main \in Conns \ fresh
          /\ at.term \in {"idle", "stop"} => cur.main \in conns
    /\ at.term \in Removal => cur.term \in conns

\* Only a connection of the vectors, or the one just accepted, has an open descriptor, and
\* builder() closes it before anything else.
Descriptors ==
    /\ fresh \cap (conns \cup opened) = {}
    /\ opened \subseteq conns \cup Greeted
    /\ \A f \in {"main", "term"} : at[f] \in Removal \ {"close"} => cur[f] \notin opened

\* 1 when the removal of c by frame f has given up its response, or has deleted it.
Released(f, c) == IF cur[f] = c /\ at[f] \in {"log", "logged", "delete", "erase"} THEN 1 ELSE 0
Deleted(f, c) == IF cur[f] = c /\ at[f] = "erase" THEN 1 ELSE 0

\* Nothing is released or deleted more than once besides by the removal the loop was
\* interrupted in, and what is in the vectors by the removals in progress alone.
Counted(c) ==
    /\ c \in fresh \cup Greeted => releases[c] = 0 /\ deletes[c] = 0
    /\ releases[c] <= Released("main", c) + 1
    /\ deletes[c] <= Deleted("main", c) + 1
    /\ c \in conns /\ at.term # "abort" =>
          /\ releases[c] = Released("main", c) + Released("term", c)
          /\ deletes[c] = Deleted("main", c) + Deleted("term", c)

\* The SIGTERM handler marks everything and goes on to exit() when all of it is gone.
AllMarked ==
    /\ at.term \in Removal \cup {"sweep", "destroy", "exit"} => conns \subseteq stopped
    /\ at.term \in {"destroy", "exit"} => conns = {}

\* However the handlers interrupt the loop and each other, the stack, the vectors, the
\* descriptors and the counts of what was deleted fit the call each frame is at.
Inv ==
    /\ TypeOK /\ FramesNest /\ MutexHeld /\ InHand /\ Descriptors /\ AllMarked
    /\ \A c \in Conns : Counted(c)

\* A SIGTERM ends the process, unless it interrupted a frame that was writing a line of
\* log, which it then waits for, or an alarm found the pipe full.
TerminationFinishes ==
    at.term # "idle" ~> (Gone \/ LoggerBlocks \/ PipeBlocks)

\* Alarms that arrive while the thread is busy, in whatever call, coalesce in the pipe and
\* are all taken out again, unless SIGTERM came or the pipe was full.
AlarmsAreHandled ==
    hellos > 0 ~> (hellos = 0 \/ at.term # "idle" \/ PipeBlocks)
=============================================================================
