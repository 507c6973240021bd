---------------------------- MODULE RequestFields ----------------------------
(***************************************************************************)
(* Request::resolve and the part of connect_to_server that reads the Host  *)
(* field, as operators on the bytes received so far.                       *)
(*                                                                         *)
(* Both are loops that look for the next byte of some kind and do not look *)
(* where the request ends.  A scan that finds nothing has left what was    *)
(* received: it gives the position after it.                               *)
(***************************************************************************)
EXTENDS Integers, Sequences

CONSTANT Width      \* of the fields of sscanf: 99, for the 100 bytes of host_name

ASSUME WidthAssumption == Width \in Nat \ {0}

\* Letters in both cases are one byte here; "8" begins a number, "x" is any other byte
\* that is not white space, nor zero.
Bytes == {"h", "o", "s", "t", ":", "8", "x", " ", "CR", "LF"}

Blanks == {" ", "CR", "LF"}

\* The first position from i on that holds a byte of S.
Scan(bytes, i, S) ==
    LET found == {j \in i..Len(bytes) : bytes[j] \in S}
    IN IF found = {} THEN Len(bytes) + 1
       ELSE CHOOSE j \in found : \A k \in found : j <= k

HostNameAt(bytes, i) ==
    /\ i + 4 <= Len(bytes)
    /\ SubSeq(bytes, i, i + 4) = <<"h", "o", "s", "t", ":">>

(***************************************************************************)
(* resolve(): the method up to a space, the resource up to the next, the   *)
(* version up to a carriage return; then the name of the Host field, in    *)
(* any place that leaves room for it, and its value up to a space or a     *)
(* carriage return.  Without the field the last five bytes are read as if  *)
(* they were its value.                                                    *)
(***************************************************************************)
MethodEnd(bytes) == Scan(bytes, 1, {" "})
ResourceEnd(bytes) == Scan(bytes, MethodEnd(bytes) + 1, {" "})
VersionEnd(bytes) == Scan(bytes, ResourceEnd(bytes) + 1, {"CR"})

HostNames(bytes) == {i \in VersionEnd(bytes) + 1 .. Len(bytes) - 4 : HostNameAt(bytes, i)}

FirstName(bytes) == CHOOSE i \in HostNames(bytes) : \A k \in HostNames(bytes) : i <= k

\* Two mutants of HostField: the loop goes on to the last byte; the pointer is left
\* at the name.
OrTheEnd(bytes) ==
    IF HostNames(bytes) # {} THEN FirstName(bytes) + 5 ELSE Len(bytes) + 1

AtTheName(bytes) ==
    IF HostNames(bytes) # {} THEN FirstName(bytes) ELSE VersionEnd(bytes)

HostField(bytes) ==
    IF HostNames(bytes) # {} THEN FirstName(bytes) + 5
    ELSE IF Len(bytes) - 4 > VersionEnd(bytes) THEN Len(bytes) - 4
    ELSE VersionEnd(bytes)

Host(bytes) == Scan(bytes, HostField(bytes), Bytes \ {" "})
HostEnd(bytes) == Scan(bytes, Host(bytes), {" ", "CR"})

Fields(bytes) ==
    [method |-> SubSeq(bytes, 1, MethodEnd(bytes) - 1),
     resource |-> SubSeq(bytes, MethodEnd(bytes) + 1, ResourceEnd(bytes) - 1),
     version |-> SubSeq(bytes, ResourceEnd(bytes) + 1, VersionEnd(bytes) - 1),
     host |-> SubSeq(bytes, Host(bytes), HostEnd(bytes) - 1)]

\* Every scan of resolve() ended inside what was received.
Resolvable(bytes) == HostEnd(bytes) <= Len(bytes)

(***************************************************************************)
(* connect_to_server: sscanf with "%99[^:]:%i[^\r]" from the value of the  *)
(* Host field on, position i of the text in the buffer.  A word has at     *)
(* least one byte and at most Width; blanks and line ends are skipped      *)
(* before a number.  Without a colon after the first word and a number     *)
(* after that, the port is 80 and "%99[^\r]" takes the name, but writes    *)
(* nothing when the value is empty: host_name keeps the first word.        *)
(***************************************************************************)
WordEnd(text, i, S) ==
    LET end == Scan(text, i, S)
    IN IF end - i > Width THEN i + Width ELSE end

Word(text, i, S) == SubSeq(text, i, WordEnd(text, i, S) - 1)

PortGiven(text, i) ==
    LET colon == WordEnd(text, i, {":"})
        number == Scan(text, colon + 1, Bytes \ Blanks)
    IN /\ colon > i /\ number <= Len(text)
       /\ text[colon] = ":" /\ text[number] = "8"

\* mutant of ServerName: the name is cut at the colon of the next field
UpToColon(text, i) == Word(text, i, {":"})

ServerName(text, i) ==
    LET line == Word(text, i, {"CR"})
    IN IF PortGiven(text, i) \/ line = <<>> THEN Word(text, i, {":"}) ELSE line
=============================================================================
