---------------------------- MODULE CashScheduler ----------------------------
(***************************************************************************)
(* The in-memory cache of the proxy: cash/CashScheduler.cpp and            *)
(* cash/CashRecord.cpp.  The std::unordered_map<std::string, CashRecord>   *)
(* is a function from every key to its record or to NoRecord, and each     *)
(* member function is an operator from the map before the call to the map  *)
(* after it; PollScheduler owns the map and calls them.                    *)
(*                                                                         *)
(* `status` below is the function from a Response object to the value its  *)
(* getStatus() returns, the one field of a Response the cache reads.       *)
(***************************************************************************)
EXTENDS Integers

CONSTANT NoRecord

Record(Responses) == [response : Responses, active : Int, count : Nat]

Held(cash) == {k \in DOMAIN cash : cash[k] # NoRecord}

(***************************************************************************)
(* CashRecord: the constructor, connect_client, clean_count.               *)
(***************************************************************************)
NewRecord(r) == [response |-> r, active |-> 0, count |-> 0]

ConnectClient(rec) == [rec EXCEPT !.active = @ + 1, !.count = @ + 1]

CleanCount(rec) == [rec EXCEPT !.count = 0]

(***************************************************************************)
(* add_record: the new record is connected once, for the client whose      *)
(* request fetched it.  unordered_map::insert leaves an existing record.   *)
(***************************************************************************)
AddRecordUnconnected(cash, k, r) ==     \* mutant of AddRecord
    [cash EXCEPT ![k] = IF @ = NoRecord THEN NewRecord(r) ELSE @]

AddRecord(cash, k, r) ==
    [cash EXCEPT ![k] = IF @ = NoRecord THEN ConnectClient(NewRecord(r)) ELSE @]

\* connect_to_record returns HAVE_RECORD.
HaveRecord(cash, k, status) ==
    /\ cash[k] # NoRecord
    /\ status[cash[k].response] # "FAIL"

ConnectToRecord(cash, k) == [cash EXCEPT ![k] = ConnectClient(@)]

(***************************************************************************)
(* disconnect_to_record, called leaving[k] times for each key k.  A key    *)
(* that is not in the map is not an error.  The counter is an int and may  *)
(* go below zero.                                                          *)
(***************************************************************************)
DisconnectToRecord(cash, leaving) ==
    [k \in DOMAIN cash |->
        IF cash[k] = NoRecord THEN NoRecord
        ELSE [cash[k] EXCEPT !.active = @ - leaving[k]]]

(***************************************************************************)
(* clean_unnecessary_cash: one pass over the map, run each time the alarm  *)
(* fires.  The records it removes, and the map it leaves behind.           *)
(***************************************************************************)
Unnecessary(rec, status) ==
    \/ rec.active = 0 /\ rec.count = 0
    \/ status[rec.response] = "FAIL"

Evicted(cash, status) == {k \in Held(cash) : Unnecessary(cash[k], status)}

CleanUnnecessaryCash(cash, status) ==
    [k \in DOMAIN cash |->
        IF k \in Held(cash) \ Evicted(cash, status) THEN CleanCount(cash[k])
        ELSE NoRecord]

\* destroy: every record is erased.
DestroyCash(cash) == [k \in DOMAIN cash |-> NoRecord]
=============================================================================
