---------------------------- MODULE SignalsProofs ----------------------------
(***************************************************************************)
(* Proofs about Signals, for every number of connections, of alarms and of *)
(* messages the pipe holds.                                                *)
(***************************************************************************)
EXTENDS Signals, TLAPS

\* The last frame runs: the loop only when no handler is on the stack.
LEMMA RunningFrame ==
    ASSUME TypeOK, FramesNest, NEW f \in Frames, Runs(f)
    PROVE  /\ f = "main" => at.term = "idle" /\ at.alarm = "idle"
           /\ f = "term" => at.term \notin {"idle", "exit", "abort"}
           /\ f = "alarm" => at.alarm # "idle"
<1>1. /\ Len(stack) \in 1..3 /\ stack[Len(stack)] = f /\ stack[1] = "main"
      /\ \A i, j \in 1..Len(stack) : stack[i] = stack[j] => i = j
    BY DEF TypeOK, FramesNest, Runs
<1>2. CASE f = "main"
    <2>1. Len(stack) = 1
        BY <1>1, <1>2
    <2>2. \A i \in 1..Len(stack) : stack[i] = "main"
        BY <1>1, <2>1
    <2> QED
        BY <1>2, <2>2 DEF FramesNest
<1>3. CASE f # "main"
    BY <1>1, <1>3 DEF FramesNest, Runs, Gone, Frames
<1> QED
    BY <1>2, <1>3

\* A call of frame f, and what it says of the others.
LEMMA StepFacts ==
    ASSUME TypeOK, FramesNest, NEW f \in Frames, NEW from, NEW to, Step(f, from, to)
    PROVE  /\ at[f] = from /\ at'[f] = to /\ stack' = stack
           /\ \A g \in Frames \ {f} : at'[g] = at[g]
           /\ f = "main" => at.term = "idle" /\ at.alarm = "idle"
           /\ f = "term" => at.term \notin {"idle", "exit", "abort"}
           /\ f = "alarm" => at.alarm # "idle"
<1>1. /\ Runs(f) /\ at[f] = from /\ at' = [at EXCEPT ![f] = to] /\ stack' = stack
    BY DEF Step
<1>2. at'[f] = to /\ \A g \in Frames \ {f} : at'[g] = at[g]
    BY <1>1 DEF TypeOK, Places, Frames
<1> QED
    BY <1>1, <1>2, RunningFrame

LEMMA SameFrames ==
    ASSUME FramesNest, stack' = stack,
           \A g \in {"alarm", "term"} : at'[g] = "idle" <=> at[g] = "idle"
    PROVE  FramesNest'
    BY DEF FramesNest

\* Where each frame may go.
LEMMA StepTypes ==
    ASSUME TypeOK, NEW f \in Frames, NEW from, NEW to, Step(f, from, to),
           f = "main" => to \in Removal \cup {"sweep", "poll", "executor", "greeting",
                                "greeted", "ending", "ended", "cleaning", "cleaned"},
           f = "alarm" => to \in {"idle", "write", "rearm"},
           f = "term" => to \in Removal \cup {"idle", "stop", "stopped", "mark", "sweep",
                                "destroy", "exit", "abort"}
    PROVE  at' \in Places /\ stack' \in Seq(Frames) /\ Len(stack') \in 1..3
<1>1. at' = [at EXCEPT ![f] = to] /\ at \in Places /\ stack' = stack
    BY DEF Step, TypeOK
<1>2. CASE f = "main"
    BY <1>1, <1>2 DEF Places, TypeOK
<1>3. CASE f = "alarm"
    BY <1>1, <1>3 DEF Places, TypeOK
<1>4. CASE f = "term"
    BY <1>1, <1>4 DEF Places, TypeOK
<1> QED
    BY <1>2, <1>3, <1>4 DEF Frames

LEMMA InitInv == Init => Inv
<1> SUFFICES ASSUME Init
             PROVE  Inv
    OBVIOUS
<1>1. TypeOK
    <2>1. stack \in Seq(Frames) /\ Len(stack) \in 1..3
        BY DEF Init, Frames
    <2>2. at \in Places
        BY DEF Init, Places
    <2>3. hellos \in 0..PipeRoom /\ alarms \in 0..MaxAlarms
        BY RoomAssumption DEF Init
    <2>4. releases \in [Conns -> Nat] /\ deletes \in [Conns -> Nat]
        BY DEF Init
    <2>5. cur \in [{"main", "term"} -> Conns \cup {None}]
        BY DEF Init
    <2> QED
        BY <2>1, <2>2, <2>3, <2>4, <2>5 DEF Init, TypeOK
<1>2. FramesNest
    BY DEF Init, FramesNest
<1>3. MutexHeld /\ InHand /\ AllMarked
    BY DEF Init, MutexHeld, InHand, AllMarked, Greeted, Removal
<1>4. Descriptors /\ \A c \in Conns : Counted(c)
    BY DEF Init, Descriptors, Counted, Greeted, Released, Deleted, Removal
<1> QED
    BY <1>1, <1>2, <1>3, <1>4 DEF Inv

LEMMA StepNests ==
    ASSUME TypeOK, FramesNest, NEW f \in Frames, NEW from, NEW to, Step(f, from, to),
           to # "idle"
    PROVE  FramesNest'
<1>1. /\ stack' = stack /\ at'[f] = to /\ \A g \in Frames \ {f} : at'[g] = at[g]
      /\ f = "term" => at.term # "idle"
      /\ f = "alarm" => at.alarm # "idle"
    BY StepFacts
<1>2. \A g \in {"alarm", "term"} : at'[g] = "idle" <=> at[g] = "idle"
    BY <1>1 DEF Frames
<1> QED
    BY <1>1, <1>2, SameFrames

(***************************************************************************)
(* builder(), run by the loop or by the SIGTERM handler.                   *)
(***************************************************************************)
LEMMA SweepKeeps ==
    ASSUME Inv, NEW f \in {"main", "term"}, Sweep(f)
    PROVE  Inv'
<1>1. PICK c \in conns \cap stopped : Step(f, "sweep", "close") /\ cur' = [cur EXCEPT ![f] = c]
    BY DEF Sweep
<1>2. /\ at[f] = "sweep" /\ at'[f] = "close" /\ \A g \in Frames \ {f} : at'[g] = at[g]
      /\ f = "main" => at.term = "idle"
      /\ f = "term" => at.term \notin {"idle", "exit", "abort"}
      /\ at' \in Places /\ stack' \in Seq(Frames) /\ Len(stack') \in 1..3 /\ FramesNest'
    BY <1>1, StepFacts, StepTypes, StepNests DEF Inv, Frames, Removal
<1>3. /\ cur'[f] = c /\ \A g \in {"main", "term"} \ {f} : cur'[g] = cur[g]
      /\ c \in Conns /\ c \in conns /\ c \in stopped /\ c \notin fresh
      /\ UNCHANGED <<polls, mutex, table, counts, clock>>
    BY <1>1 DEF Sweep, Inv, TypeOK, Descriptors
<1>4. TypeOK'
    BY <1>1, <1>2, <1>3 DEF Inv, TypeOK, table, counts, clock
<1>5. MutexHeld' /\ InHand' /\ AllMarked'
    BY <1>2, <1>3 DEF Inv, Frames, MutexHeld, InHand, AllMarked, Greeted, Removal, table
<1>6. Descriptors'
    BY <1>2, <1>3 DEF Inv, Frames, Descriptors, Greeted, Removal, table
<1>7. ASSUME NEW x \in Conns
      PROVE  Counted(x)'
    BY <1>2, <1>3 DEF Inv, Frames, Counted, Greeted, Released, Deleted, table, counts
<1> QED
    BY <1>2, <1>4, <1>5, <1>6, <1>7 DEF Inv

LEMMA CloseKeeps ==
    ASSUME Inv, NEW f \in {"main", "term"}, Close(f)
    PROVE  Inv'
<1>1. Step(f, "close", "release")
    BY DEF Close
<1>2. /\ at[f] = "close" /\ at'[f] = "release" /\ \A g \in Frames \ {f} : at'[g] = at[g]
      /\ f = "main" => at.term = "idle"
      /\ f = "term" => at.term \notin {"idle", "exit", "abort"}
      /\ at' \in Places /\ stack' \in Seq(Frames) /\ Len(stack') \in 1..3 /\ FramesNest'
    BY <1>1, StepFacts, StepTypes, StepNests DEF Inv, Frames, Removal
<1>3. /\ opened' = opened \ {cur[f]}
      /\ UNCHANGED <<cur, polls, mutex, fresh, conns, stopped, counts, clock>>
    BY DEF Close
<1>4. TypeOK'
    BY <1>2, <1>3 DEF Inv, TypeOK, counts, clock
<1>5. MutexHeld' /\ InHand' /\ AllMarked'
    BY <1>2, <1>3 DEF Inv, Frames, MutexHeld, InHand, AllMarked, Greeted, Removal
<1>6. Descriptors'
    BY <1>2, <1>3 DEF Inv, Frames, Descriptors, Greeted, Removal
<1>7. ASSUME NEW x \in Conns
      PROVE  Counted(x)'
    BY <1>2, <1>3 DEF Inv, Frames, Counted, Greeted, Released, Deleted, counts
<1> QED
    BY <1>2, <1>4, <1>5, <1>6, <1>7 DEF Inv

LEMMA ReleaseKeeps ==
    ASSUME Inv, NEW f \in {"main", "term"}, Release(f)
    PROVE  Inv'
<1>1. Step(f, "release", "log")
    BY DEF Release
<1>2. /\ at[f] = "release" /\ at'[f] = "log" /\ \A g \in Frames \ {f} : at'[g] = at[g]
      /\ f = "main" => at.term = "idle"
      /\ f = "term" => at.term \notin {"idle", "exit", "abort"}
      /\ at' \in Places /\ stack' \in Seq(Frames) /\ Len(stack') \in 1..3 /\ FramesNest'
    BY <1>1, StepFacts, StepTypes, StepNests DEF Inv, Frames, Removal
<1>3. cur[f] \in conns /\ cur[f] \in Conns
    BY <1>2 DEF Inv, TypeOK, InHand, Removal
<1>4. /\ releases'[cur[f]] = releases[cur[f]] + 1
      /\ \A c \in Conns \ {cur[f]} : releases'[c] = releases[c]
      /\ releases' \in [Conns -> Nat]
      /\ UNCHANGED <<cur, polls, mutex, table, deletes, clock>>
    BY <1>3 DEF Release, Inv, TypeOK
<1>5. TypeOK'
    BY <1>2, <1>4 DEF Inv, TypeOK, table, clock
<1>6. MutexHeld' /\ InHand' /\ AllMarked'
    BY <1>2, <1>4 DEF Inv, Frames, MutexHeld, InHand, AllMarked, Greeted, Removal, table
<1>7. Descriptors'
    BY <1>2, <1>4 DEF Inv, Frames, Descriptors, Greeted, Removal, table
<1>8. ASSUME NEW x \in Conns
      PROVE  Counted(x)'
    <2>1. /\ Counted(x) /\ UNCHANGED <<cur, fresh, conns>>
          /\ releases[x] \in Nat /\ deletes[x] \in Nat
          /\ Greeted \cap conns = {} /\ fresh \cap conns = {}
        BY <1>4 DEF Inv, TypeOK, InHand, Descriptors, table
    <2>2. CASE f = "main"
        BY <1>2, <1>3, <1>4, <2>1, <2>2 DEF Frames, Counted, Greeted, Released, Deleted
    <2>3. CASE f = "term"
        BY <1>2, <1>3, <1>4, <2>1, <2>3 DEF Frames, Counted, Greeted, Released, Deleted
    <2> QED
        BY <2>2, <2>3
<1> QED
    BY <1>2, <1>5, <1>6, <1>7, <1>8 DEF Inv

LEMMA DeleteKeeps ==
    ASSUME Inv, NEW f \in {"main", "term"}, Delete(f)
    PROVE  Inv'
<1>1. Step(f, "delete", "erase")
    BY DEF Delete, AfterDelete
<1>2. /\ at[f] = "delete" /\ at'[f] = "erase" /\ \A g \in Frames \ {f} : at'[g] = at[g]
      /\ f = "main" => at.term = "idle"
      /\ f = "term" => at.term \notin {"idle", "exit", "abort"}
      /\ at' \in Places /\ stack' \in Seq(Frames) /\ Len(stack') \in 1..3 /\ FramesNest'
    BY <1>1, StepFacts, StepTypes, StepNests DEF Inv, Frames, Removal
<1>3. cur[f] \in conns /\ cur[f] \in Conns
    BY <1>2 DEF Inv, TypeOK, InHand, Removal
<1>4. /\ deletes'[cur[f]] = deletes[cur[f]] + 1
      /\ \A c \in Conns \ {cur[f]} : deletes'[c] = deletes[c]
      /\ deletes' \in [Conns -> Nat]
      /\ UNCHANGED <<cur, polls, mutex, table, releases, clock>>
    BY <1>3 DEF Delete, Inv, TypeOK
<1>5. TypeOK'
    BY <1>2, <1>4 DEF Inv, TypeOK, table, clock
<1>6. MutexHeld' /\ InHand' /\ AllMarked'
    BY <1>2, <1>4 DEF Inv, Frames, MutexHeld, InHand, AllMarked, Greeted, Removal, table
<1>7. Descriptors'
    BY <1>2, <1>4 DEF Inv, Frames, Descriptors, Greeted, Removal, table
<1>8. ASSUME NEW x \in Conns
      PROVE  Counted(x)'
    <2>1. /\ Counted(x) /\ UNCHANGED <<cur, fresh, conns>>
          /\ releases[x] \in Nat /\ deletes[x] \in Nat
          /\ Greeted \cap conns = {} /\ fresh \cap conns = {}
        BY <1>4 DEF Inv, TypeOK, InHand, Descriptors, table
    <2>2. CASE f = "main"
        BY <1>2, <1>3, <1>4, <2>1, <2>2 DEF Frames, Counted, Greeted, Released, Deleted
    <2>3. CASE f = "term"
        BY <1>2, <1>3, <1>4, <2>1, <2>3 DEF Frames, Counted, Greeted, Released, Deleted
    <2> QED
        BY <2>2, <2>3
<1> QED
    BY <1>2, <1>5, <1>6, <1>7, <1>8 DEF Inv

LEMMA EraseKeeps ==
    ASSUME Inv, NEW f \in {"main", "term"}, Erase(f)
    PROVE  Inv'
<1>1. Step(f, "erase", "sweep") /\ cur' = [cur EXCEPT ![f] = None]
    BY DEF Erase
<1>2. /\ at[f] = "erase" /\ at'[f] = "sweep" /\ \A g \in Frames \ {f} : at'[g] = at[g]
      /\ f = "main" => at.term = "idle"
      /\ f = "term" => at.term \notin {"idle", "exit", "abort"}
      /\ at' \in Places /\ stack' \in Seq(Frames) /\ Len(stack') \in 1..3 /\ FramesNest'
    BY <1>1, StepFacts, StepTypes, StepNests DEF Inv, Frames, Removal
<1>3. /\ cur'[f] = None /\ \A g \in {"main", "term"} \ {f} : cur'[g] = cur[g]
      /\ cur' \in [{"main", "term"} -> Conns \cup {None}]
      /\ cur[f] \in conns /\ cur[f] \in Conns /\ cur[f] \notin opened
      /\ conns' = conns \ {cur[f]}
      /\ UNCHANGED <<polls, mutex, fresh, stopped, opened, counts, clock>>
    BY <1>1, <1>2 DEF Erase, Inv, TypeOK, InHand, Descriptors, Removal
<1>4. TypeOK'
    BY <1>2, <1>3 DEF Inv, TypeOK, counts, clock
<1>5. MutexHeld' /\ InHand' /\ AllMarked'
    BY <1>2, <1>3 DEF Inv, Frames, MutexHeld, InHand, AllMarked, Greeted, Removal
<1>6. Descriptors'
    BY <1>2, <1>3 DEF Inv, Frames, Descriptors, Greeted, Removal
<1>7. ASSUME NEW x \in Conns
      PROVE  Counted(x)'
    <2>1. /\ x # None /\ Counted(x) /\ UNCHANGED <<releases, deletes, fresh>>
          /\ releases[x] \in Nat /\ deletes[x] \in Nat
        BY <1>3, RoomAssumption DEF Inv, TypeOK, counts
    <2>2. CASE f = "main"
        BY <1>2, <1>3, <2>1, <2>2 DEF Frames, Counted, Greeted, Released, Deleted
    <2>3. CASE f = "term"
        BY <1>2, <1>3, <2>1, <2>3 DEF Frames, Counted, Greeted, Released, Deleted
    <2> QED
        BY <2>2, <2>3
<1> QED
    BY <1>2, <1>4, <1>5, <1>6, <1>7 DEF Inv

LEMMA LogRemovalKeeps ==
    ASSUME Inv, NEW f \in {"main", "term"}, LogRemoval(f) \/ LoggedRemoval(f)
    PROVE  Inv'
<1>1. PICK from \in {"log", "logged"}, to \in {"logged", "delete"} :
          /\ Step(f, from, to)
          /\ from = "log" => to = "logged" /\ mutex = None /\ mutex' = f
          /\ from = "logged" => to = "delete" /\ mutex' = None
          /\ UNCHANGED <<cur, polls, table, counts, clock>>
    BY DEF LogRemoval, LoggedRemoval, Log, Logged, Unlock
<1>2. /\ at[f] = from /\ at'[f] = to /\ \A g \in Frames \ {f} : at'[g] = at[g]
      /\ f = "main" => at.term = "idle"
      /\ f = "term" => at.term \notin {"idle", "exit", "abort"}
      /\ at' \in Places /\ stack' \in Seq(Frames) /\ Len(stack') \in 1..3 /\ FramesNest'
    BY <1>1, StepFacts, StepTypes, StepNests DEF Inv, Frames, Removal
<1>3. TypeOK'
    BY <1>1, <1>2 DEF Inv, TypeOK, table, counts, clock
<1>4. MutexHeld'
    BY <1>1, <1>2, RoomAssumption DEF Inv, Frames, MutexHeld
<1>5. InHand' /\ AllMarked'
    BY <1>1, <1>2 DEF Inv, Frames, InHand, AllMarked, Greeted, Removal, table
<1>6. Descriptors'
    BY <1>1, <1>2 DEF Inv, Frames, Descriptors, Greeted, Removal, table
<1>7. ASSUME NEW x \in Conns
      PROVE  Counted(x)'
    BY <1>1, <1>2 DEF Inv, Frames, Counted, Greeted, Released, Deleted, table, counts
<1> QED
    BY <1>2, <1>3, <1>4, <1>5, <1>6, <1>7 DEF Inv

(***************************************************************************)
(* executor().  The loop runs only when no handler is on the stack.        *)
(***************************************************************************)
\* Calls of the loop that have no connection in hand.
LEMMA LoopKeeps ==
    ASSUME Inv,
           \/ Swept("main") \/ Poll \/ PeerReady \/ Return
           \/ EventCash \/ LogEventCash \/ EventCashLogged
    PROVE  Inv'
<1>1. PICK from \in {"sweep", "poll", "executor", "cleaning", "cleaned"},
           to \in {"sweep", "poll", "executor", "cleaning", "cleaned"} :
          /\ Step("main", from, to)
          /\ to = "cleaned" => mutex' = "main"
          /\ mutex' \in {mutex, None, "main"}
          /\ hellos' \in {hellos, Drained(hellos)}
          /\ UNCHANGED <<cur, table, counts, armed, alarms>>
    BY DEF Swept, Poll, PeerReady, Polled, Return, EventCash, LogEventCash, EventCashLogged,
           Log, Logged, Unlock, AfterSweep, clock
<1>2. /\ at.main = from /\ at'.main = to /\ at'.term = "idle" /\ at.term = "idle"
      /\ at' \in Places /\ stack' \in Seq(Frames) /\ Len(stack') \in 1..3 /\ FramesNest'
    BY <1>1, StepFacts, StepTypes, StepNests DEF Inv, Frames
<1>3. TypeOK'
    <2>1. hellos' \in 0..PipeRoom
        <3>1. hellos \in Int /\ 0 <= hellos /\ hellos <= PipeRoom /\ PipeRoom \in Int
            BY RoomAssumption DEF Inv, TypeOK
        <3> QED
            BY <1>1, <3>1 DEF Drained
    <2>2. polls' \in BOOLEAN
        <3>1. polls' = polls \/ polls' = FALSE \/ polls' = (hellos > 0)
            BY Zenon DEF Swept, Poll, PeerReady, Polled, Return, EventCash, LogEventCash,
                         EventCashLogged, Log, Logged
        <3>2. (hellos > 0) \in BOOLEAN
            OBVIOUS
        <3> QED
            BY <3>1, <3>2, Zenon DEF Inv, TypeOK
    <2> QED
        BY <1>1, <1>2, <2>1, <2>2 DEF Inv, TypeOK, table, counts
<1>4. MutexHeld' /\ InHand' /\ AllMarked'
    BY <1>1, <1>2 DEF Inv, MutexHeld, InHand, AllMarked, Greeted, Removal, table
<1>5. Descriptors'
    BY <1>1, <1>2 DEF Inv, Descriptors, Greeted, Removal, table
<1>6. ASSUME NEW x \in Conns
      PROVE  Counted(x)'
    BY <1>1, <1>2 DEF Inv, Counted, Greeted, Released, Deleted, table, counts
<1> QED
    BY <1>2, <1>3, <1>4, <1>5, <1>6 DEF Inv

\* The lines of log of a connection that has come, or has ended.
LEMMA LogKeeps ==
    ASSUME Inv, Greet \/ LogEnd
    PROVE  Inv'
<1>1. PICK from \in {"greeting", "ending"}, to \in {"greeted", "ended"} :
          /\ Step("main", from, to) /\ (from = "greeting" <=> to = "greeted")
          /\ mutex' = "main"
          /\ UNCHANGED <<cur, polls, table, counts, clock>>
    BY DEF Greet, LogEnd, Log
<1>2. /\ at.main = from /\ at'.main = to /\ at'.term = "idle" /\ at.term = "idle"
      /\ at' \in Places /\ stack' \in Seq(Frames) /\ Len(stack') \in 1..3 /\ FramesNest'
    BY <1>1, StepFacts, StepTypes, StepNests DEF Inv, Frames
<1>3. TypeOK'
    BY <1>1, <1>2 DEF Inv, TypeOK, table, counts, clock
<1>4. MutexHeld' /\ InHand' /\ AllMarked'
    BY <1>1, <1>2 DEF Inv, MutexHeld, InHand, AllMarked, Greeted, Removal, table
<1>5. Descriptors'
    BY <1>1, <1>2 DEF Inv, Descriptors, Greeted, Removal, table
<1>6. ASSUME NEW x \in Conns
      PROVE  Counted(x)'
    BY <1>1, <1>2 DEF Inv, Counted, Greeted, Released, Deleted, table, counts
<1> QED
    BY <1>2, <1>3, <1>4, <1>5, <1>6 DEF Inv

LEMMA AcceptKeeps ==
    ASSUME Inv, Accept \/ End
    PROVE  Inv'
<1>1. PICK c \in Conns, to \in {"greeting", "ending"} :
          /\ Step("main", "executor", to) /\ cur' = [cur EXCEPT !.main = c]
          /\ to = "greeting" =>
                c \in fresh /\ fresh' = fresh \ {c} /\ opened' = opened \cup {c}
          /\ to = "ending" => c \in conns /\ UNCHANGED <<fresh, opened>>
          /\ UNCHANGED <<polls, mutex, conns, stopped, counts, clock>>
    BY DEF Accept, End, Inv, TypeOK, table
<1>2. /\ at.main = "executor" /\ at'.main = to /\ at'.term = "idle" /\ at.term = "idle"
      /\ at' \in Places /\ stack' \in Seq(Frames) /\ Len(stack') \in 1..3 /\ FramesNest'
    BY <1>1, StepFacts, StepTypes, StepNests DEF Inv, Frames
<1>3. /\ cur' \in [{"main", "term"} -> Conns \cup {None}]
      /\ cur'.main = c /\ cur'.term = cur.term
    BY <1>1 DEF Inv, TypeOK
<1>4. TypeOK'
    BY <1>1, <1>2, <1>3 DEF Inv, TypeOK, counts, clock
<1>5. MutexHeld' /\ AllMarked'
    BY <1>1, <1>2 DEF Inv, MutexHeld, AllMarked, Removal
<1>6. InHand'
    BY <1>1, <1>2, <1>3 DEF Inv, InHand, Descriptors, Greeted, Removal
<1>7. Descriptors'
    BY <1>1, <1>2, <1>3 DEF Inv, Descriptors, Greeted, Removal
<1>8. ASSUME NEW x \in Conns
      PROVE  Counted(x)'
    BY <1>1, <1>2, <1>3 DEF Inv, Counted, Greeted, Released, Deleted, counts
<1> QED
    BY <1>2, <1>4, <1>5, <1>6, <1>7, <1>8 DEF Inv

\* The connection in hand goes into the vector, or is marked.
LEMMA PutDownKeeps ==
    ASSUME Inv, AddClient \/ Stop
    PROVE  Inv'
<1>1. PICK from \in {"greeted", "ended"} :
          /\ Step("main", from, "executor") /\ cur' = [cur EXCEPT !.main = None]
          /\ from = "greeted" => conns' = conns \cup {cur.main} /\ UNCHANGED stopped
          /\ from = "ended" => stopped' = stopped \cup {cur.main} /\ UNCHANGED conns
          /\ mutex' = None
          /\ UNCHANGED <<polls, fresh, opened, counts, clock>>
    BY DEF AddClient, Stop, Unlock
<1>2. /\ at.main = from /\ at'.main = "executor" /\ at'.term = "idle" /\ at.term = "idle"
      /\ at' \in Places /\ stack' \in Seq(Frames) /\ Len(stack') \in 1..3 /\ FramesNest'
    BY <1>1, StepFacts, StepTypes, StepNests DEF Inv, Frames
<1>3. /\ cur' \in [{"main", "term"} -> Conns \cup {None}]
      /\ cur'.main = None /\ cur'.term = cur.term
      /\ cur.main \in Conns /\ cur.main \notin fresh
      /\ from = "greeted" => Greeted = {cur.main}
    BY <1>1, <1>2 DEF Inv, TypeOK, InHand, Greeted
<1>4. TypeOK'
    BY <1>1, <1>2, <1>3 DEF Inv, TypeOK, counts, clock
<1>5. MutexHeld' /\ AllMarked'
    BY <1>1, <1>2 DEF Inv, MutexHeld, AllMarked, Removal
<1>6. InHand'
    BY <1>1, <1>2, <1>3 DEF Inv, InHand, Greeted, Removal
<1>7. Descriptors'
    BY <1>1, <1>2, <1>3 DEF Inv, Descriptors, Greeted, Removal
<1>8. ASSUME NEW x \in Conns
      PROVE  Counted(x)'
    BY <1>1, <1>2, <1>3 DEF Inv, Counted, Greeted, Released, Deleted, counts
<1> QED
    BY <1>2, <1>4, <1>5, <1>6, <1>7, <1>8 DEF Inv

(***************************************************************************)
(* The handlers.                                                           *)
(***************************************************************************)
\* The SIGTERM handler before and after its builder(), and its end by the allocator.
LEMMA TermKeeps ==
    ASSUME Inv, Swept("term") \/ LogStop \/ StopLogged \/ Mark \/ Exit \/ Abort
    PROVE  Inv'
<1>1. PICK from \in Removal \cup {"stop", "stopped", "mark", "sweep", "destroy"},
           to \in {"stopped", "mark", "sweep", "destroy", "exit", "abort"} :
          /\ Step("term", from, to)
          /\ from = "stop" => to = "stopped" /\ mutex = None /\ mutex' = "term"
          /\ from # "stop" => to # "stopped" /\ mutex' \in {mutex, None}
          /\ to = "sweep" => stopped' = stopped \cup conns
          /\ to # "sweep" => stopped' = stopped
          /\ to = "destroy" => from = "sweep" /\ conns \cap stopped = {}
          /\ to = "exit" => from = "destroy"
          /\ to # "abort" => from \notin Removal
          /\ UNCHANGED <<cur, polls, fresh, conns, opened, counts, clock>>
    <2>1. CASE Swept("term")
        BY <2>1 DEF Swept, AfterSweep, table, Removal
    <2>2. CASE LogStop \/ StopLogged
        BY <2>2 DEF LogStop, StopLogged, Log, Logged, Unlock, table, Removal
    <2>3. CASE Mark
        BY <2>3 DEF Mark, Marked, Removal
    <2>4. CASE Exit \/ Abort
        BY <2>4 DEF Exit, Abort, table, Removal
    <2> QED
        BY <2>1, <2>2, <2>3, <2>4
<1>2. /\ at.term = from /\ at'.term = to /\ at'.main = at.main
      /\ at' \in Places /\ stack' \in Seq(Frames) /\ Len(stack') \in 1..3 /\ FramesNest'
    BY <1>1, StepFacts, StepTypes, StepNests DEF Inv, Frames, Removal
<1>3. TypeOK'
    BY <1>1, <1>2 DEF Inv, TypeOK, counts, clock
<1>4. MutexHeld'
    BY <1>1, <1>2, RoomAssumption DEF Inv, MutexHeld, Removal
<1>5. InHand' /\ AllMarked'
    BY <1>1, <1>2 DEF Inv, InHand, AllMarked, Greeted, Removal
<1>6. Descriptors'
    BY <1>1, <1>2 DEF Inv, Descriptors, Greeted, Removal
<1>7. ASSUME NEW x \in Conns
      PROVE  Counted(x)'
    BY <1>1, <1>2 DEF Inv, Counted, Greeted, Released, Deleted, counts, Removal
<1> QED
    BY <1>2, <1>3, <1>4, <1>5, <1>6, <1>7 DEF Inv

\* A handler that is entered, or is done, for whichever frame runs.
LEMMA EnteredNests ==
    ASSUME TypeOK, FramesNest, NEW f \in {"alarm", "term"}, Interrupt(f), at[f] = "idle",
           at'[f] # "idle",
           \A g \in {"alarm", "term"} \ {f} : at'[g] = at[g]
    PROVE  FramesNest' /\ stack' \in Seq(Frames) /\ Len(stack') \in 1..3
<1>1. /\ stack \in Seq(Frames) /\ Len(stack) \in 1..3 /\ f \in Frames
      /\ \A i \in 1..Len(stack) : stack[i] # f
    BY DEF TypeOK, FramesNest, Frames
<1>2. /\ stack' \in Seq(Frames) /\ Len(stack') = Len(stack) + 1
      /\ stack'[Len(stack')] = f
      /\ \A i \in 1..Len(stack) : stack'[i] = stack[i]
    BY <1>1 DEF Interrupt
<1>3. Len(stack) # 3
    <2> SUFFICES ASSUME Len(stack) = 3
                 PROVE  FALSE
        OBVIOUS
    <2>1. stack[1] \in Frames \ {f} /\ stack[2] \in Frames \ {f} /\ stack[3] \in Frames \ {f}
        BY <1>1
    <2>2. stack[1] # stack[2] /\ stack[1] # stack[3] /\ stack[2] # stack[3]
        BY DEF FramesNest
    <2> QED
        BY <2>1, <2>2 DEF Frames
<1>4. \A i, j \in 1..Len(stack') : stack'[i] = stack'[j] => i = j
    BY <1>1, <1>2 DEF FramesNest
<1>5. \A g \in {"alarm", "term"} :
          at'[g] = "idle" <=> \A i \in 1..Len(stack') : stack'[i] # g
    BY <1>1, <1>2 DEF FramesNest
<1>6. stack'[1] = "main"
    BY <1>1, <1>2 DEF FramesNest
<1> QED
    BY <1>1, <1>2, <1>3, <1>4, <1>5, <1>6 DEF FramesNest

LEMMA LeftNests ==
    ASSUME TypeOK, FramesNest, Rearm
    PROVE  FramesNest' /\ stack' \in Seq(Frames) /\ Len(stack') \in 1..3 /\ at' \in Places
           /\ at'.main = at.main /\ at'.term = at.term
<1>1. /\ stack \in Seq(Frames) /\ Len(stack) \in 1..3
      /\ stack[Len(stack)] = "alarm" /\ stack[1] = "main"
      /\ stack' = SubSeq(stack, 1, Len(stack) - 1)
      /\ \A i, j \in 1..Len(stack) : stack[i] = stack[j] => i = j
    BY DEF Rearm, Runs, TypeOK, FramesNest
<1>2. Len(stack) \in 2..3
    BY <1>1
<1>3. /\ stack' \in Seq(Frames) /\ Len(stack') = Len(stack) - 1
      /\ \A i \in 1..Len(stack') : stack'[i] = stack[i]
    BY <1>1, <1>2
<1>4. at' \in Places /\ at'.main = at.main /\ at'.term = at.term /\ at'.alarm = "idle"
    BY DEF Rearm, TypeOK, Places
<1>5. stack'[1] = "main" /\ Len(stack') \in 1..3
    BY <1>1, <1>2, <1>3
<1>6. \A i, j \in 1..Len(stack') : stack'[i] = stack'[j] => i = j
    BY <1>1, <1>2, <1>3
<1>7. \A i \in 1..Len(stack') : stack'[i] # "alarm"
    BY <1>1, <1>2, <1>3
<1>8. (\A i \in 1..Len(stack') : stack'[i] # "term") <=>
      (\A i \in 1..Len(stack) : stack[i] # "term")
    BY <1>1, <1>2, <1>3
<1> QED
    BY <1>3, <1>4, <1>5, <1>6, <1>7, <1>8 DEF FramesNest

\* SIGALRM and its handler leave the loop and the SIGTERM handler where they are, but for
\* a poll that waited; SIGTERM puts its own handler at its first call.
LEMMA SignalKeeps ==
    ASSUME Inv, Alarm \/ Ring \/ Rearm \/ Terminate
    PROVE  Inv'
<1>1. /\ at' \in Places /\ stack' \in Seq(Frames) /\ Len(stack') \in 1..3 /\ FramesNest'
      /\ at'.main = at.main \/ (at.main = "poll" /\ at'.main = "sweep")
      /\ at'.term = at.term \/ (at.term = "idle" /\ at'.term = "stop")
    <2>1. CASE Alarm
        <3>1. PICK waited \in BOOLEAN :
                  at' = [at EXCEPT !.alarm = "write",
                                   !.main = IF @ = "poll" /\ waited THEN "sweep" ELSE @]
            BY <2>1 DEF Alarm
        <3>2. /\ at' \in Places /\ at'.alarm = "write" /\ at'.term = at.term
              /\ at'.main = at.main \/ (at.main = "poll" /\ at'.main = "sweep")
            BY <3>1 DEF Inv, TypeOK, Places
        <3>3. at.alarm = "idle" /\ Interrupt("alarm")
            BY <2>1 DEF Alarm, Inv, FramesNest
        <3> QED
            BY <3>2, <3>3, EnteredNests DEF Inv
    <2>2. CASE Ring
        <3>1. Step("alarm", "write", "rearm")
            BY <2>2 DEF Ring
        <3> QED
            BY <3>1, StepFacts, StepTypes, StepNests DEF Inv, Frames
    <2>3. CASE Rearm
        BY <2>3, LeftNests DEF Inv
    <2>4. CASE Terminate
        <3>1. /\ at' \in Places /\ at'.term = "stop" /\ at'.main = at.main
              /\ at'.alarm = at.alarm /\ at.term = "idle" /\ Interrupt("term")
            BY <2>4 DEF Terminate, Inv, TypeOK, Places
        <3> QED
            BY <3>1, EnteredNests DEF Inv
    <2> QED
        BY <2>1, <2>2, <2>3, <2>4
<1>2. UNCHANGED <<cur, polls, mutex, table, counts>>
    BY DEF Alarm, Ring, Rearm, Terminate
<1>3. TypeOK'
    <2>1. armed' \in BOOLEAN
        <3>1. armed' = armed \/ armed' = TRUE \/ armed' = FALSE
            BY Zenon DEF Alarm, Ring, Rearm, Terminate, clock
        <3> QED
            BY <3>1, Zenon DEF Inv, TypeOK
    <2>2. hellos' \in 0..PipeRoom /\ alarms' \in 0..MaxAlarms
        <3>1. /\ hellos \in Int /\ 0 <= hellos /\ hellos <= PipeRoom /\ PipeRoom \in Int
              /\ alarms \in Int /\ 0 <= alarms /\ alarms <= MaxAlarms /\ MaxAlarms \in Int
            BY RoomAssumption DEF Inv, TypeOK
        <3>2. /\ hellos' = hellos \/ (hellos < PipeRoom /\ hellos' = hellos + 1)
              /\ alarms' = alarms \/ (alarms < MaxAlarms /\ alarms' = alarms + 1)
            BY DEF Alarm, Ring, Rearm, Terminate, clock
        <3> QED
            BY <3>1, <3>2
    <2> QED
        BY <1>1, <1>2, <2>1, <2>2 DEF Inv, TypeOK, table, counts
<1>4. MutexHeld' /\ InHand' /\ AllMarked'
    BY <1>1, <1>2 DEF Inv, MutexHeld, InHand, AllMarked, Greeted, Removal, table
<1>5. Descriptors'
    BY <1>1, <1>2 DEF Inv, Descriptors, Greeted, Removal, table
<1>6. ASSUME NEW x \in Conns
      PROVE  Counted(x)'
    BY <1>1, <1>2 DEF Inv, Counted, Greeted, Released, Deleted, table, counts
<1> QED
    BY <1>1, <1>3, <1>4, <1>5, <1>6 DEF Inv

LEMMA NextPreservesInv ==
    ASSUME Inv, [Next]_vars
    PROVE  Inv'
<1>1. CASE Builder("main") \/ Builder("term")
    BY <1>1, SweepKeeps, CloseKeeps, ReleaseKeeps, LogRemovalKeeps, DeleteKeeps, EraseKeeps,
       LoopKeeps, TermKeeps DEF Builder
<1>2. CASE Executor \/ PeerReady
    BY <1>2, LoopKeeps, LogKeeps, AcceptKeeps, PutDownKeeps DEF Executor
<1>3. CASE AlarmHandler \/ Alarm \/ Terminate
    BY <1>3, SignalKeeps DEF AlarmHandler
<1>4. CASE TermHandler
    BY <1>4, TermKeeps DEF TermHandler
<1>5. CASE UNCHANGED vars
    BY <1>5 DEF vars, frames, table, counts, clock, Inv, TypeOK, FramesNest, MutexHeld, InHand,
                Descriptors, AllMarked, Counted, Greeted, Released, Deleted
<1> QED
    BY <1>1, <1>2, <1>3, <1>4, <1>5 DEF Next, Thread

(***************************************************************************)
(* The theorems.                                                           *)
(***************************************************************************)
\* Whatever calls the handlers interrupt, the frames, the mutex, the descriptors and
\* the objects in hand fit each other.
THEOREM SignalsInvariance == Spec => []Inv
<1> QED
    BY InitInv, NextPreservesInv, PTL DEF Spec

\* Every variable stays in its range: the stack holds three frames at most, and the
\* pipe never more than it has room for.
THEOREM SignalsTypeCorrect == Spec => []TypeOK
<1>1. Inv => TypeOK
    BY DEF Inv
<1> QED
    BY <1>1, SignalsInvariance, PTL

\* builder() run by the SIGTERM handler on top of builder() deletes at most one object a
\* second time, the one the loop had in hand when it came, and none a third time.
THEOREM TwiceIsTheOneInHand == Spec => []TwiceOnlyInTheWindow
<1>1. Inv => TwiceOnlyInTheWindow
    <2> SUFFICES ASSUME Inv, NEW c \in Conns
                 PROVE  /\ deletes[c] > 1 => at.main = "erase" /\ cur.main = c
                        /\ releases[c] > 1 => /\ at.main \in {"log", "delete", "erase"}
                                              /\ cur.main = c
                        /\ deletes[c] < 3 /\ releases[c] < 3
        BY DEF TwiceOnlyInTheWindow
    <2>1. /\ releases[c] \in Nat /\ deletes[c] \in Nat /\ Counted(c)
        BY DEF Inv, TypeOK
    <2>2. Released("main", c) \in {0, 1} /\ Deleted("main", c) \in {0, 1}
        BY DEF Released, Deleted
    <2>3. deletes[c] < 3 /\ releases[c] < 3
        BY <2>1, <2>2 DEF Counted
    <2>4. deletes[c] > 1 => at.main = "erase" /\ cur.main = c
        BY <2>1 DEF Counted, Deleted
    <2>5. ASSUME releases[c] > 1
          PROVE  at.main \in {"log", "delete", "erase"} /\ cur.main = c
        <3>1. at.main \in {"log", "logged", "delete", "erase"} /\ cur.main = c
            BY <2>1, <2>5 DEF Counted, Released
        <3>2. at.main # "logged"
            <4> SUFFICES ASSUME at.main = "logged"
                         PROVE  FALSE
                OBVIOUS
            <4>1. mutex = "main" /\ at.term \in {"idle", "stop"}
                BY DEF Inv, MutexHeld
            <4>2. c \in conns
                BY <3>1, <4>1 DEF Inv, InHand, Removal
            <4>3. Released("term", c) = 0
                BY <4>1 DEF Released
            <4> QED
                BY <2>1, <2>2, <2>5, <4>1, <4>2, <4>3 DEF Counted
        <3> QED
            BY <3>1, <3>2
    <2> QED
        BY <2>3, <2>4, <2>5
<1> QED
    BY <1>1, SignalsInvariance, PTL

\* When the SIGTERM handler reaches exit(), whatever call of the loop it interrupted and
\* however many connections there are, all are removed and closed but one that was
\* accepted and had not reached its vector.
THEOREM ExitLeavesTheGreeted == Spec => []CleanExit
<1>1. Inv => CleanExit
    BY DEF Inv, AllMarked, Descriptors, Greeted, CleanExit
<1> QED
    BY <1>1, SignalsInvariance, PTL
============================================================================
