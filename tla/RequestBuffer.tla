---------------------------- MODULE RequestBuffer ----------------------------
(***************************************************************************)
(* The Request of one client as bytes: ClientScheduler::forming_request    *)
(* collects it in a buffer that append_buf makes longer, and               *)
(* ServerScheduler::send_request passes it on to the origin.  PollScheduler*)
(* has both as choices between a part, the rest and a failure; this module *)
(* says where those come from.                                             *)
(*                                                                         *)
(* The client writes one request and nothing is known of where TCP cuts    *)
(* it: a read returns any number of the bytes that are left and for which  *)
(* there is room.  A request with its end is resolved at once; when a scan *)
(* of resolve() leaves what was received, the stage is "undefined".  The   *)
(* fields are positions in the buffer, which is not read into again: they  *)
(* are given by Fields(received).  sscanf reads the buffer up to a zero    *)
(* byte and so may go on behind what was received: append_buf leaves there *)
(* what realloc finds.                                                     *)
(***************************************************************************)
EXTENDS RequestFields

CONSTANTS
    Step,       \* BUF_STEP_SIZE_REQUEST
    Streams,    \* what a client may write: sequences of Bytes
    Rests       \* what may lie behind it in the buffer, up to the first zero byte

ASSUME StepAssumption == Step \in Nat \ {0}

ASSUME StreamAssumption == Streams \subseteq Seq(Bytes)

ASSUME RestAssumption == Rests \subseteq Seq(Bytes)

VARIABLES
    stream,     \* what this client writes
    closed,     \* the client has closed its side, having written it all
    stage,      \* of the request: asking, then sending and sent, or failed or undefined
    req_len, len_buf,       \* Request::req_len, Request::len_buf
    current_send_reques     \* Server::current_send_reques

vars == <<stream, closed, stage, req_len, len_buf, current_send_reques>>

TypeOK ==
    /\ stream \in Streams
    /\ closed \in BOOLEAN
    /\ stage \in {"asking", "sending", "sent", "failed", "undefined"}
    /\ req_len \in 0..Len(stream)
    /\ len_buf \in Nat
    /\ current_send_reques \in 0..req_len

Init ==
    /\ stream \in Streams
    /\ closed = FALSE
    /\ stage = "asking"
    /\ req_len = 0
    /\ len_buf = Step
    /\ current_send_reques = 0

\* The blank line of HTTP, up to byte i of the stream.
BlankLineAt(i) ==
    /\ i >= 4
    /\ stream[i - 3] = "CR" /\ stream[i - 2] = "LF"
    /\ stream[i - 1] = "CR" /\ stream[i] = "LF"

Complete(len) == \E i \in 1..len : BlankLineAt(i)

received == SubSeq(stream, 1, req_len)

-----------------------------------------------------------------------------
Ungrown(len) == len_buf     \* mutant of Grown: append_buf is left out

\* append_buf, called when a read has filled the buffer.
Grown(len) == IF len = len_buf THEN len_buf + Step ELSE len_buf

\* mutant of Ended: the end of a line is taken for the end of the request
LineEnded(len) == \E i \in 1..len - 1 : stream[i] = "CR" /\ stream[i + 1] = "LF"

\* A line feed and the carriage return after it are in the buffer.
Ended(len) == \E i \in 1..len - 1 : stream[i] = "LF" /\ stream[i + 1] = "CR"

\* requestClientHandler: forming_request with n bytes read, then resolve.
Received(n) ==
    /\ stage = "asking"
    /\ req_len' = req_len + n
    /\ len_buf' = Grown(req_len + n)
    /\ stage' = IF Ended(req_len + n)
                THEN (IF Resolvable(SubSeq(stream, 1, req_len + n)) THEN "sending"
                      ELSE "undefined")
                ELSE IF n = 0 THEN "failed" ELSE "asking"
    /\ UNCHANGED <<stream, closed, current_send_reques>>

Receive ==
    \E n \in 1..Len(stream) :
        /\ n <= len_buf - req_len
        /\ n <= Len(stream) - req_len
        /\ Received(n)

\* read() returns 0 at the end of the stream, and when it is asked for 0 bytes.
ReceiveNothing ==
    /\ (closed /\ req_len = Len(stream)) \/ len_buf = req_len
    /\ Received(0)

\* read() < 0
ReceiveFails ==
    /\ stage = "asking"
    /\ closed' = TRUE
    /\ stage' = "failed"
    /\ UNCHANGED <<stream, req_len, len_buf, current_send_reques>>

\* The client has written everything and shuts its side down.
Close ==
    /\ ~closed
    /\ closed' = TRUE
    /\ UNCHANGED <<stream, stage, req_len, len_buf, current_send_reques>>

\* send_request: write() takes a part of what is left, or all of it.
Send ==
    /\ stage = "sending"
    /\ \E n \in 0..(req_len - current_send_reques) :
         /\ current_send_reques' = current_send_reques + n
         /\ stage' = IF current_send_reques + n = req_len THEN "sent" ELSE "sending"
    /\ len_buf' = Grown(req_len)
    /\ UNCHANGED <<stream, closed, req_len>>

SendFails ==
    /\ stage = "sending"
    /\ stage' = "failed"
    /\ UNCHANGED <<stream, closed, req_len, len_buf, current_send_reques>>

Next == Receive \/ ReceiveNothing \/ ReceiveFails \/ Close \/ Send \/ SendFails

Spec == Init /\ [][Next]_vars

-----------------------------------------------------------------------------
\* forming_request takes a read of no bytes for a client that has gone, and read()
\* also returns 0 when there is no room: a client that is still there is not given
\* up while the proxy reads its request, however long it is and wherever it is cut.
SilenceIsNoFailure ==
    [][stage = "asking" /\ stage' = "failed" => closed']_vars

\* What reaches the origin lacks at most the last byte of the blank line, and
\* may hold some of what follows.
LacksAtMostOneByte ==
    stage = "sent" =>
        \A i \in 1..Len(stream) : BlankLineAt(i) =>
            \/ current_send_reques >= i - 1
            \/ \E j \in 1..(i - 1) : BlankLineAt(j)

\* "Check that the request has ended", says the comment over the loop of
\* forming_request: a request that is passed on has its blank line.
ForwardedIsComplete == stage = "sent" => Complete(current_send_reques)

(***************************************************************************)
(* What HTTP says of the fields, to compare resolve() with.                *)
(***************************************************************************)
\* The line feeds at which forming_request may take the request for ended.
HeadEnds(bytes) == {e \in 1..Len(bytes) - 1 : bytes[e] = "LF" /\ bytes[e + 1] = "CR"}

\* At most the end of the blank line is received after the head.
NothingFollows(bytes) == \A e \in HeadEnds(bytes) : Len(bytes) <= e + 2

\* A request line has two spaces, for the words of its fields.
HasRequestLine(bytes) ==
    \E i, j, k \in 1..Len(bytes) - 1 :
        /\ i < j /\ j < k /\ bytes[i] = " " /\ bytes[j] = " "
        /\ bytes[k] = "CR" /\ bytes[k + 1] = "LF"
        /\ \A l \in 1..k : bytes[l] # "LF"

HostLines(bytes) == {i \in 2..Len(bytes) : bytes[i - 1] = "LF" /\ HostNameAt(bytes, i)}

HostInHead(bytes) == \E i \in HostLines(bytes) : \A e \in HeadEnds(bytes) : i < e

HostValueAt(bytes) ==
    LET line == CHOOSE i \in HostLines(bytes) : \A j \in HostLines(bytes) : i <= j
    IN Scan(bytes, line + 5, Bytes \ {" "})

ValueEnd(bytes) == Scan(bytes, HostValueAt(bytes), {"CR"})

\* The first "host:" of the bytes begins a line of the head; its value is one word.
UsualHost(bytes) ==
    /\ HostInHead(bytes)
    /\ \A i \in 1..Len(bytes) : HostNameAt(bytes, i) => \E j \in HostLines(bytes) : j <= i
    /\ \A i \in HostValueAt(bytes)..ValueEnd(bytes) - 1 : bytes[i] # " "

NameEnd(bytes) == Scan(bytes, HostValueAt(bytes), {":", "CR"})

\* The value begins with a name, and what follows a colon in it is a number.
UsualTarget(bytes) ==
    /\ HostValueAt(bytes) < NameEnd(bytes)
    /\ bytes[NameEnd(bytes)] = ":" => bytes[NameEnd(bytes) + 1] = "8"

\* From byte i of the text on, no colon has a number behind it.
NoNumberFollows(text, i) ==
    \A j \in i..Len(text) :
        text[j] = ":" =>
            LET number == Scan(text, j + 1, Bytes \ Blanks)
            IN number <= Len(text) => text[number] # "8"

Forwarded == stage \in {"sending", "sent"}

\* The scans of resolve() stay within what was received, wherever TCP cut the request,
\* if it has a request line and a Host field: without that field, only if no body
\* follows the head.
ResolveStaysInside ==
    stage = "undefined" =>
        ~(HasRequestLine(stream) /\ (HostInHead(stream) \/ NothingFollows(stream)))

\* However the request was cut, resolve() finds in what was received the fields it
\* would find in all of it, and the host is the value of the Host field: the key of
\* the cache does not depend on the network.
SameFieldsHoweverCut ==
    Forwarded /\ HasRequestLine(stream) /\ UsualHost(stream) =>
        /\ Fields(received) = Fields(stream)
        /\ Fields(received).host =
              SubSeq(stream, HostValueAt(stream), ValueEnd(stream) - 1)

\* The origin connected to is the one the Host field names, with its port when it has
\* one, wherever TCP cut the request and whatever was in the buffer before.  A name that
\* does not fit into host_name is cut there and loses its port.  The exception is a
\* number in a later field, or behind the request, which sscanf takes for the port.
TargetIsTheHost ==
    \A rest \in Rests :
        LET text == received \o rest
            value == HostValueAt(stream)
            fits == NameEnd(stream) - value <= Width
        IN /\ Forwarded /\ HasRequestLine(stream)
           /\ UsualHost(stream) /\ UsualTarget(stream)
           /\ NoNumberFollows(text, ValueEnd(stream))
           => /\ ServerName(text, Host(received)) =
                    SubSeq(stream, value, (IF fits THEN NameEnd(stream) ELSE value + Width) - 1)
              /\ PortGiven(text, Host(received)) <=> fits /\ stream[NameEnd(stream)] = ":"

\* The inductive invariant: a read always has room, and a request is resolved when its
\* end was seen and sent when it was resolved, all of it.
RoomToRead == req_len < len_buf

EndWasSeen ==
    /\ stage \in {"sending", "sent", "undefined"} => Ended(req_len)
    /\ stage = "undefined" => ~Resolvable(received)
    /\ stage = "sent" => current_send_reques = req_len

Inv == TypeOK /\ RoomToRead /\ EndWasSeen

\* In a request as HTTP writes it, a line feed before a carriage return is the middle
\* of a blank line, as far as the client has written it.
WellFormed(s) ==
    \A i \in 1..Len(s) - 2 :
        s[i] = "LF" /\ s[i + 1] = "CR" => i > 1 /\ s[i - 1] = "CR" /\ s[i + 2] = "LF"

HttpStreams == \A s \in Streams : WellFormed(s)
=============================================================================
