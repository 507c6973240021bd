------------------------- MODULE RequestBufferProofs -------------------------
(***************************************************************************)
(* Proofs about RequestBuffer, for every step of the buffer and every      *)
(* stream of a client.                                                     *)
(***************************************************************************)
EXTENDS RequestBuffer, SequenceTheorems, WellFoundedInduction, TLAPS

\* Whatever a read leaves in a buffer it fitted into, append_buf has made room for
\* another byte.
LEMMA GrownHasRoom ==
    ASSUME len_buf \in Nat, NEW len \in Nat, len <= len_buf
    PROVE  Grown(len) \in Nat /\ len < Grown(len)
  BY StepAssumption DEF Grown

LEMMA StreamLength == TypeOK => Len(stream) \in Nat
  BY StreamAssumption DEF TypeOK

LEMMA InitEstablishesInv == Init => Inv
<1> SUFFICES ASSUME Init PROVE Inv
  OBVIOUS
<1>1. Len(stream) \in Nat
  BY StreamAssumption DEF Init
<1>2. len_buf \in Nat /\ 0 < len_buf
  BY StepAssumption DEF Init
<1>3. 0 \in 0..Len(stream) /\ 0 \in 0..req_len
  BY <1>1 DEF Init
<1>4. stream \in Streams /\ closed \in BOOLEAN
  BY DEF Init
<1>5. stage \in {"asking", "sending", "sent", "failed", "undefined"}
  BY DEF Init
<1>6. req_len \in 0..Len(stream) /\ current_send_reques \in 0..req_len
  BY <1>3 DEF Init
<1>7. TypeOK
  BY <1>2, <1>4, <1>5, <1>6 DEF TypeOK
<1> QED  BY <1>2, <1>7 DEF Init, Inv, RoomToRead, EndWasSeen

\* forming_request, with at most as many bytes as there is room for and are left.
LEMMA ReceivedPreservesInv ==
    ASSUME Inv, NEW n \in Nat, n <= len_buf - req_len, n <= Len(stream) - req_len,
           Received(n)
    PROVE  Inv'
<1>1. /\ Len(stream) \in Nat
      /\ req_len \in Nat /\ len_buf \in Nat
  BY StreamLength DEF Inv, TypeOK
<1> DEFINE len == req_len + n
<1>2. len \in Nat /\ len <= len_buf /\ len <= Len(stream) /\ req_len <= len
  BY <1>1
<1>3. Grown(len) \in Nat /\ len < Grown(len)
  BY <1>1, <1>2, GrownHasRoom
<1>4. /\ req_len' = len
      /\ len_buf' = Grown(len)
      /\ stage' \in {"sending", "failed", "asking", "undefined"}
      /\ stage' \in {"sending", "undefined"} => Ended(len)
      /\ stage' = "undefined" => ~Resolvable(SubSeq(stream, 1, len))
      /\ UNCHANGED <<stream, closed, current_send_reques>>
  BY DEF Received
<1> HIDE DEF len
<1>5. current_send_reques \in 0..len
  BY <1>1, <1>2 DEF Inv, TypeOK
<1>6. TypeOK'
  BY <1>1, <1>2, <1>3, <1>4, <1>5 DEF Inv, TypeOK
<1>7. RoomToRead'
  BY <1>3, <1>4 DEF RoomToRead
<1>8. EndWasSeen'
  BY <1>4 DEF EndWasSeen, Ended, received
<1> QED  BY <1>6, <1>7, <1>8 DEF Inv

LEMMA SendPreservesInv ==
    ASSUME Inv, Send
    PROVE  Inv'
<1>1. /\ Len(stream) \in Nat
      /\ req_len \in Nat /\ len_buf \in Nat /\ req_len < len_buf
      /\ current_send_reques \in 0..req_len
  BY StreamLength DEF Inv, TypeOK, RoomToRead
<1>2. PICK n \in 0..(req_len - current_send_reques) :
        /\ current_send_reques' = current_send_reques + n
        /\ stage' = IF current_send_reques + n = req_len THEN "sent" ELSE "sending"
  BY DEF Send
<1>3. current_send_reques' \in 0..req_len
  BY <1>1, <1>2
<1>4. Grown(req_len) = len_buf
  BY <1>1 DEF Grown
<1>5. UNCHANGED <<stream, closed, req_len, len_buf>>
  BY <1>4 DEF Send
<1>6. EndWasSeen'
  BY <1>2, <1>5 DEF Inv, Send, EndWasSeen, Ended, received
<1> QED  BY <1>2, <1>3, <1>5, <1>6 DEF Inv, TypeOK, RoomToRead

LEMMA NextPreservesInv == Inv /\ [Next]_vars => Inv'
<1> SUFFICES ASSUME Inv, [Next]_vars PROVE Inv'
  OBVIOUS
<1>0. /\ Len(stream) \in Nat
      /\ req_len \in Nat /\ len_buf \in Nat /\ req_len < len_buf
      /\ req_len <= Len(stream)
  BY StreamLength DEF Inv, TypeOK, RoomToRead
<1>1. CASE Receive
  <2>1. PICK n \in 1..Len(stream) :
          n <= len_buf - req_len /\ n <= Len(stream) - req_len /\ Received(n)
    BY <1>1 DEF Receive
  <2> QED  BY <1>0, <2>1, ReceivedPreservesInv
<1>2. CASE ReceiveNothing
  BY <1>0, <1>2, ReceivedPreservesInv DEF ReceiveNothing
<1>3. CASE ReceiveFails
  BY <1>3 DEF ReceiveFails, Inv, TypeOK, RoomToRead, EndWasSeen, Ended,
     received
<1>4. CASE Close
  BY <1>4 DEF Close, Inv, TypeOK, RoomToRead, EndWasSeen, Ended,
     received
<1>5. CASE Send
  BY <1>5, SendPreservesInv
<1>6. CASE SendFails
  BY <1>6 DEF SendFails, Inv, TypeOK, RoomToRead, EndWasSeen, Ended,
     received
<1>7. CASE UNCHANGED vars
  BY <1>7 DEF vars, Inv, TypeOK, RoomToRead, EndWasSeen, Ended,
     received
<1> QED  BY <1>1, <1>2, <1>3, <1>4, <1>5, <1>6, <1>7 DEF Next

\* In every reachable state the request lies in its buffer and leaves room for the next
\* read: append_buf is called often enough.
THEOREM BufferInvariance == Spec => []Inv
<1> QED  BY InitEstablishesInv, NextPreservesInv, PTL DEF Spec

\* read() is never asked for 0 bytes, so the 0 that forming_request takes for the end
\* of the connection always is one: no client that is there is given up.
THEOREM SilentClientsAreWaitedFor == Spec => SilenceIsNoFailure
<1>1. ASSUME Inv, [Next]_vars
      PROVE  [stage = "asking" /\ stage' = "failed" => closed']_vars
  <2> SUFFICES ASSUME Next, stage = "asking", stage' = "failed" PROVE closed'
    BY <1>1
  <2>0. req_len # len_buf
    BY <1>1 DEF Inv, TypeOK, RoomToRead
  <2>1. CASE Receive
    <3>1. PICK n \in 1..Len(stream) : Received(n)
      BY <2>1 DEF Receive
    <3>2. n # 0
      BY <1>1, StreamLength DEF Inv
    <3>3. stage' # "failed"
      BY <3>1, <3>2 DEF Received
    <3> QED  BY <3>3
  <2>2. CASE ReceiveNothing
    BY <2>0, <2>2 DEF ReceiveNothing, Received
  <2>3. CASE ReceiveFails
    BY <2>3 DEF ReceiveFails
  <2>4. CASE Close
    BY <2>4 DEF Close
  <2>5. CASE Send \/ SendFails
    BY <2>5 DEF Send, SendFails
  <2> QED  BY <2>1, <2>2, <2>3, <2>4, <2>5 DEF Next
<1> QED  BY <1>1, BufferInvariance, PTL DEF Spec, SilenceIsNoFailure

\* Of a request whose lines end as HTTP says, the origin is sent everything up to the
\* last byte of the blank line at least.
THEOREM OnlyTheLastByteMayLack == HttpStreams => (Spec => []LacksAtMostOneByte)
<1> SUFFICES ASSUME HttpStreams PROVE Spec => []LacksAtMostOneByte
  OBVIOUS
<1>1. Inv => LacksAtMostOneByte
  <2> SUFFICES ASSUME Inv, stage = "sent", NEW i \in 1..Len(stream), BlankLineAt(i),
                      ~(current_send_reques >= i - 1)
               PROVE  \E j \in 1..(i - 1) : BlankLineAt(j)
    BY DEF LacksAtMostOneByte
  <2>1. /\ Len(stream) \in Nat
        /\ req_len \in 0..Len(stream)
        /\ req_len < i - 1
        /\ stream \in Streams
    BY StreamLength DEF Inv, TypeOK, EndWasSeen
  <2>2. PICK k \in 1..req_len - 1 : stream[k] = "LF" /\ stream[k + 1] = "CR"
    BY DEF Inv, EndWasSeen, Ended
  <2>3. k \in 1..Len(stream) - 2 /\ k + 2 \in 1..(i - 1)
    BY <2>1, <2>2
  <2>4. k > 1 /\ stream[k - 1] = "CR" /\ stream[k + 2] = "LF"
    BY <2>1, <2>2, <2>3 DEF HttpStreams, WellFormed
  <2>5. (k + 2) - 3 = k - 1 /\ (k + 2) - 2 = k /\ (k + 2) - 1 = k + 1 /\ k + 2 >= 4
    BY <2>3, <2>4
  <2>6. BlankLineAt(k + 2)
    BY <2>2, <2>4, <2>5 DEF BlankLineAt
  <2> QED  BY <2>3, <2>6
<1> QED  BY <1>1, BufferInvariance, PTL

-----------------------------------------------------------------------------
(***************************************************************************)
(* What the scans of resolve() find, for every sequence of bytes: where    *)
(* they end, and that they do not depend on what was not yet received when *)
(* they end inside what was.                                               *)
(***************************************************************************)
\* A set of numbers that has a member has a least one.
LEMMA LeastNatural ==
    ASSUME NEW T, T \subseteq Nat, T # {}
    PROVE  \E j \in T : \A k \in T : j <= k
<1> DEFINE R == OpToRel(<, Nat)
<1>1. IsWellFoundedOn(R, Nat)
  BY NatLessThanWellFounded
<1>2. \A x, y \in Nat : <<y, x>> \in R <=> y < x
  BY DEF OpToRel
<1> HIDE DEF R
<1>3. PICK j \in T : \A k \in T : ~ (<<k, j>> \in R)
  BY <1>1, WFMin
<1>4. \A k \in T : ~ (k < j)
  BY <1>2, <1>3
<1>5. j \in Nat /\ \A k \in T : k \in Nat
  OBVIOUS
<1>6. \A k \in T : j <= k
  BY <1>4, <1>5
<1> QED  BY <1>6

\* A scan gives the first position with such a byte, or the one after the last.
LEMMA ScanFinds ==
    ASSUME NEW bytes \in Seq(Bytes), NEW i \in Nat \ {0}, NEW S
    PROVE  /\ Scan(bytes, i, S) \in 1..Len(bytes) + 1
           /\ Scan(bytes, i, S) <= Len(bytes) =>
                 i <= Scan(bytes, i, S) /\ bytes[Scan(bytes, i, S)] \in S
           /\ \A k \in i..Len(bytes) : bytes[k] \in S => Scan(bytes, i, S) <= k
<1> DEFINE found == {j \in i..Len(bytes) : bytes[j] \in S}
<1>0. Len(bytes) \in Nat
  OBVIOUS
<1>1. CASE found = {}
  BY <1>0, <1>1 DEF Scan
<1>2. CASE found # {}
  <2>1. found \subseteq Nat
    BY <1>0
  <2>2. \E j \in found : \A k \in found : j <= k
    BY <1>2, <2>1, LeastNatural
  <2>3. Scan(bytes, i, S) = CHOOSE j \in found : \A k \in found : j <= k
    BY <1>2 DEF Scan
  <2>4. Scan(bytes, i, S) \in found /\ \A k \in found : Scan(bytes, i, S) <= k
    BY <2>2, <2>3
  <2> QED  BY <1>0, <2>4
<1> QED  BY <1>1, <1>2

\* A scan for a byte that is there ends there or before.
LEMMA ScanWithin ==
    ASSUME NEW bytes \in Seq(Bytes), NEW i \in Nat \ {0}, NEW S,
           NEW e \in i..Len(bytes), bytes[e] \in S
    PROVE  /\ Scan(bytes, i, S) \in i..e
           /\ bytes[Scan(bytes, i, S)] \in S
           /\ \A k \in i..(Scan(bytes, i, S) - 1) : bytes[k] \notin S
<1>0. Len(bytes) \in Nat
  OBVIOUS
<1>1. PICK p \in 1..Len(bytes) + 1 : p = Scan(bytes, i, S)
  BY ScanFinds
<1>2. /\ p <= e
      /\ p <= Len(bytes) => i <= p /\ bytes[p] \in S
      /\ \A k \in i..Len(bytes) : bytes[k] \in S => p <= k
  BY <1>1, ScanFinds
<1>3. p \in i..e /\ bytes[p] \in S /\ \A k \in i..(p - 1) : bytes[k] \notin S
  BY <1>0, <1>2
<1> QED  BY <1>1, <1>3

\* What is the first such position is what the scan gives.
LEMMA ScanIs ==
    ASSUME NEW bytes \in Seq(Bytes), NEW i \in Nat \ {0}, NEW S,
           NEW p \in i..Len(bytes), bytes[p] \in S,
           \A k \in i..(p - 1) : bytes[k] \notin S
    PROVE  Scan(bytes, i, S) = p
<1>1. Scan(bytes, i, S) <= p
  BY ScanFinds
<1>2. /\ Scan(bytes, i, S) \in Nat
      /\ i <= Scan(bytes, i, S) /\ bytes[Scan(bytes, i, S)] \in S
  BY <1>1, ScanFinds
<1>3. ~(Scan(bytes, i, S) \in i..(p - 1))
  BY <1>2
<1> QED  BY <1>1, <1>2, <1>3

-----------------------------------------------------------------------------
(* What was received is the begin of what is sent.                         *)

LEMMA ReceivedBytes ==
    ASSUME NEW s \in Seq(Bytes), NEW len \in 0..Len(s)
    PROVE  /\ SubSeq(s, 1, len) \in Seq(Bytes)
           /\ Len(SubSeq(s, 1, len)) = len
           /\ \A i \in 1..len : SubSeq(s, 1, len)[i] = s[i]
  OBVIOUS

\* A scan that ends in what was received ends there in all of it.
LEMMA SameScan ==
    ASSUME NEW s \in Seq(Bytes), NEW len \in 0..Len(s), NEW i \in Nat \ {0}, NEW S,
           Scan(SubSeq(s, 1, len), i, S) <= len
    PROVE  Scan(s, i, S) = Scan(SubSeq(s, 1, len), i, S)
<1> DEFINE b == SubSeq(s, 1, len)
<1>1. b \in Seq(Bytes) /\ Len(b) = len /\ \A k \in 1..len : b[k] = s[k]
  BY ReceivedBytes
<1>0. Scan(b, i, S) <= len
  OBVIOUS
<1> HIDE DEF b
<1>2. PICK p \in Nat : p = Scan(b, i, S)
  BY <1>1, ScanFinds
<1>3. p \in i..len /\ b[p] \in S /\ \A k \in i..len : b[k] \in S => p <= k
  BY <1>0, <1>1, <1>2, ScanFinds
<1>4. p \in i..Len(s) /\ s[p] \in S /\ \A k \in i..(p - 1) : s[k] \notin S
  BY <1>1, <1>3
<1>5. Scan(s, i, S) = p
  BY <1>4, ScanIs
<1> QED  BY <1>2, <1>5 DEF b

LEMMA SameWord ==
    ASSUME NEW s \in Seq(Bytes), NEW len \in 0..Len(s),
           NEW m \in Nat \ {0}, NEW n \in Int, n <= len
    PROVE  SubSeq(SubSeq(s, 1, len), m, n) = SubSeq(s, m, n)
<1>1. CASE n < m
  BY <1>1, SubSeqEmpty
<1>2. CASE m <= n
  BY <1>2
<1> QED  BY <1>1, <1>2

\* A name that was received is one of the request, and its bytes end no line.
LEMMA NameBytes ==
    ASSUME NEW s \in Seq(Bytes), NEW i \in Nat \ {0}, HostNameAt(s, i)
    PROVE  i + 4 <= Len(s) /\ \A k \in i..(i + 4) : s[k] \notin {" ", "CR", "LF"}
<1>1. i + 4 <= Len(s) /\ SubSeq(s, i, i + 4) = <<"h", "o", "s", "t", ":">>
  BY DEF HostNameAt
<1>2. \A k \in 1..5 : SubSeq(s, i, i + 4)[k] = s[i + k - 1]
  BY <1>1
<1>3. \A k \in 1..5 : <<"h", "o", "s", "t", ":">>[k] \in {"h", "o", "s", "t", ":"}
  OBVIOUS
<1>4. ASSUME NEW k \in i..(i + 4)
      PROVE  s[k] \notin {" ", "CR", "LF"}
  <2>1. k - i + 1 \in 1..5 /\ i + (k - i + 1) - 1 = k
    OBVIOUS
  <2>2. s[k] \in {"h", "o", "s", "t", ":"}
    BY <1>1, <1>2, <1>3, <2>1
  <2> QED  BY <2>2
<1> QED  BY <1>1, <1>4

LEMMA SameName ==
    ASSUME NEW s \in Seq(Bytes), NEW len \in 0..Len(s), NEW i \in Nat \ {0}
    PROVE  HostNameAt(SubSeq(s, 1, len), i) <=> i + 4 <= len /\ HostNameAt(s, i)
<1>1. Len(SubSeq(s, 1, len)) = len
  BY ReceivedBytes
<1>2. i + 4 <= len => SubSeq(SubSeq(s, 1, len), i, i + 4) = SubSeq(s, i, i + 4)
  BY SameWord
<1>3. i + 4 <= Len(s) \/ ~(i + 4 <= len)
  OBVIOUS
<1>4. HostNameAt(SubSeq(s, 1, len), i) <=>
        i + 4 <= len /\ SubSeq(SubSeq(s, 1, len), i, i + 4) = <<"h", "o", "s", "t", ":">>
  BY ONLY <1>1 DEF HostNameAt
<1>5. HostNameAt(s, i) <=> i + 4 <= Len(s) /\ SubSeq(s, i, i + 4) = <<"h", "o", "s", "t", ":">>
  BY Zenon DEF HostNameAt
<1> QED  BY <1>2, <1>3, <1>4, <1>5

-----------------------------------------------------------------------------
(* Where resolve() finds the fields.                                       *)

LEMMA FirstNameIsLeast ==
    ASSUME NEW bytes \in Seq(Bytes), VersionEnd(bytes) \in Nat, HostNames(bytes) # {}
    PROVE  /\ FirstName(bytes) \in HostNames(bytes)
           /\ \A k \in HostNames(bytes) : FirstName(bytes) <= k
<1> DEFINE names == HostNames(bytes)
<1>1. names \subseteq Nat
  BY DEF HostNames
<1> HIDE DEF names
<1>2. \E i \in names : \A k \in names : i <= k
  BY <1>1, LeastNatural DEF names
<1>3. FirstName(bytes) = CHOOSE i \in names : \A k \in names : i <= k
  BY DEF FirstName, names
<1>4. FirstName(bytes) \in names /\ \A k \in names : FirstName(bytes) <= k
  BY <1>2, <1>3
<1> QED  BY <1>4 DEF names

\* The value of the Host field, wherever it was looked for, is not read beyond a
\* line end that follows.
LEMMA ValueEnds ==
    ASSUME NEW bytes \in Seq(Bytes), NEW e \in 1..Len(bytes), bytes[e] = "CR",
           HostField(bytes) \in 1..e
    PROVE  Host(bytes) \in HostField(bytes)..e /\ HostEnd(bytes) \in Host(bytes)..e
<1>0. Len(bytes) \in Nat
  OBVIOUS
<1>1. bytes[e] \in Bytes \ {" "}
  BY DEF Bytes
<1>2. PICK field \in Nat \ {0} : field = HostField(bytes) /\ field <= e
  OBVIOUS
<1>3. e \in field..Len(bytes)
  BY <1>0, <1>2
<1>4. Scan(bytes, field, Bytes \ {" "}) \in field..e
  BY <1>1, <1>3, ScanWithin
<1>5. Host(bytes) \in field..e
  BY <1>2, <1>4 DEF Host
<1>6. PICK value \in Nat \ {0} : value = Host(bytes) /\ value \in field..e
  BY <1>0, <1>5
<1>7. e \in value..Len(bytes)
  BY <1>0, <1>6
<1>8. Scan(bytes, value, {" ", "CR"}) \in value..e
  BY <1>7, ScanWithin
<1> QED  BY <1>2, <1>6, <1>8 DEF HostEnd

\* A name before a line end is a field with its value.
LEMMA FieldOfName ==
    ASSUME NEW bytes \in Seq(Bytes), VersionEnd(bytes) \in Nat, HostNames(bytes) # {},
           NEW e \in Nat, FirstName(bytes) < e, e <= Len(bytes), bytes[e] = "LF"
    PROVE  FirstName(bytes) + 4 < e /\ HostField(bytes) = FirstName(bytes) + 5
<1>1. FirstName(bytes) \in HostNames(bytes)
  BY FirstNameIsLeast
<1>2. FirstName(bytes) \in Nat \ {0} /\ HostNameAt(bytes, FirstName(bytes))
  BY <1>1 DEF HostNames
<1>3. \A k \in FirstName(bytes)..(FirstName(bytes) + 4) : bytes[k] # "LF"
  BY <1>2, NameBytes
<1>4. FirstName(bytes) + 4 < e
  BY <1>2, <1>3
<1> QED  BY <1>4 DEF HostField

-----------------------------------------------------------------------------
(* resolve() on what was received, b, of the request s: len bytes, with    *)
(* the end of the head, the line feed at e and the carriage return.        *)

\* The request line lies before the end of the head, so its scans end in it.
LEMMA RequestLineReceived ==
    ASSUME NEW s \in Seq(Bytes), NEW len \in 0..Len(s), NEW b, b = SubSeq(s, 1, len),
           HasRequestLine(s), NEW e \in HeadEnds(s), e < len
    PROVE  /\ MethodEnd(b) \in 1..len
           /\ ResourceEnd(b) \in 1..len
           /\ VersionEnd(b) \in 1..(e - 1)
           /\ b[VersionEnd(b)] = "CR"
           /\ \A l \in 1..VersionEnd(b) : s[l] # "LF"
<1>1. b \in Seq(Bytes) /\ Len(b) = len /\ \A l \in 1..len : b[l] = s[l]
  BY ReceivedBytes
<1>2. Len(s) \in Nat /\ e \in Nat \ {0} /\ s[e] = "LF"
  BY DEF HeadEnds
<1>3. PICK i \in Nat \ {0}, j \in Nat, k \in Nat :
        /\ i < j /\ j < k /\ s[i] = " " /\ s[j] = " " /\ s[k] = "CR"
        /\ \A l \in 1..k : s[l] # "LF"
  <2>1. PICK i, j, k \in 1..Len(s) - 1 :
          /\ i < j /\ j < k /\ s[i] = " " /\ s[j] = " " /\ s[k] = "CR"
          /\ \A l \in 1..k : s[l] # "LF"
    BY DEF HasRequestLine
  <2>2. i \in Nat \ {0} /\ j \in Nat /\ k \in Nat
    BY <1>2
  <2> QED  BY <2>1, <2>2
<1>4. k < e
  <2>1. ASSUME e <= k PROVE FALSE
    <3>1. e \in 1..k
      BY <1>2, <2>1
    <3> QED  BY <1>2, <1>3, <3>1
  <2> QED  BY <1>2, <2>1
<1>5. i < j /\ j < k /\ k < e /\ e < len /\ len \in Nat /\ e \in Nat
  <2>1. i < j /\ j < k
    BY <1>3
  <2> QED  BY <1>2, <1>4, <2>1
<1>6. i \in 1..len /\ j \in 1..len /\ k \in 1..len
  BY <1>5
<1>7. b[i] = " " /\ b[j] = " " /\ b[k] = "CR"
  BY <1>1, <1>3, <1>6
<1>8. PICK m \in Nat : m = MethodEnd(b) /\ m \in 1..i
  <2>1. Scan(b, 1, {" "}) \in 1..i
    <3>1. PICK first \in Nat \ {0} : first = 1
      OBVIOUS
    <3>2. i \in first..Len(b) /\ b[i] \in {" "}
      BY <1>1, <1>6, <1>7, <3>1
    <3>3. Scan(b, first, {" "}) \in first..i
      BY <1>1, <3>2, ScanWithin
    <3> QED  BY <3>1, <3>3
  <2>2. MethodEnd(b) \in 1..i
    BY <2>1 DEF MethodEnd
  <2> QED  BY <2>2
<1>9. PICK r \in Nat : r = ResourceEnd(b) /\ r \in (m + 1)..j
  <2>1. m + 1 \in Nat \ {0} /\ j \in (m + 1)..len
    BY <1>5, <1>8
  <2>2. Scan(b, m + 1, {" "}) \in (m + 1)..j
    <3>1. j \in (m + 1)..Len(b) /\ b[j] \in {" "}
      BY <1>1, <1>7, <2>1
    <3> QED  BY <1>1, <2>1, <3>1, ScanWithin
  <2>3. ResourceEnd(b) \in (m + 1)..j
    BY <1>8, <2>2 DEF ResourceEnd
  <2>4. ResourceEnd(b) \in Nat
    BY <1>8, <2>3
  <2> QED  BY <2>3, <2>4
<1>10. PICK v \in Nat : v = VersionEnd(b) /\ v \in (r + 1)..k /\ b[v] = "CR"
  <2>1. r + 1 \in Nat \ {0} /\ k \in (r + 1)..len
    BY <1>5, <1>9
  <2>2. Scan(b, r + 1, {"CR"}) \in (r + 1)..k /\ b[Scan(b, r + 1, {"CR"})] \in {"CR"}
    <3>1. k \in (r + 1)..Len(b) /\ b[k] \in {"CR"}
      BY <1>1, <1>7, <2>1
    <3> QED  BY <1>1, <2>1, <3>1, ScanWithin
  <2>3. VersionEnd(b) \in (r + 1)..k /\ b[VersionEnd(b)] = "CR"
    BY <1>9, <2>2 DEF VersionEnd
  <2>4. VersionEnd(b) \in Nat
    BY <1>9, <2>3
  <2> QED  BY <2>3, <2>4
<1>11. v \in 1..k
  BY <1>9, <1>10
<1>12. \A l \in 1..v : s[l] # "LF"
  <2>1. \A l \in 1..v : l \in 1..k
    BY <1>11
  <2> QED  BY <1>3, <2>1
<1>13. m \in 1..len /\ r \in 1..len /\ v \in 1..(e - 1)
  BY <1>5, <1>8, <1>9, <1>11
<1> QED  BY <1>8, <1>9, <1>10, <1>12, <1>13

\* A request line and a Host field, or nothing after the head: every scan of resolve()
\* ends in what was received.
LEMMA HeadIsResolvable ==
    ASSUME NEW s \in Seq(Bytes), NEW len \in 0..Len(s), NEW b, b = SubSeq(s, 1, len),
           HasRequestLine(s), NEW e \in HeadEnds(s), e < len,
           HostInHead(s) \/ NothingFollows(s)
    PROVE  Resolvable(b)
<1>1. b \in Seq(Bytes) /\ Len(b) = len /\ len \in Nat /\ \A l \in 1..len : b[l] = s[l]
  BY ReceivedBytes
<1>2. Len(s) \in Nat /\ e \in 1..Len(s) - 1 /\ s[e] = "LF" /\ s[e + 1] = "CR"
  BY DEF HeadEnds
<1>3. PICK v \in Nat : v = VersionEnd(b) /\ v \in 1..(e - 1)
                       /\ \A l \in 1..v : s[l] # "LF"
  <2>1. VersionEnd(b) \in 1..(e - 1) /\ \A l \in 1..VersionEnd(b) : s[l] # "LF"
    BY RequestLineReceived
  <2>2. VersionEnd(b) \in Nat
    BY <1>2, <2>1
  <2> QED  BY <2>1, <2>2
<1>4. b[e] = "LF" /\ b[e + 1] = "CR" /\ e + 1 \in 1..Len(b) /\ e \in Nat
  BY <1>1, <1>2
<1>5. ASSUME HostInHead(s)
      PROVE  \E i \in HostNames(b) : i < e
  <2>1. PICK i \in 2..Len(s) : s[i - 1] = "LF" /\ HostNameAt(s, i) /\ i < e
    BY <1>5 DEF HostInHead, HostLines
  <2>2. i \in Nat \ {0} /\ i - 1 > v
    BY <1>2, <1>3, <2>1
  <2>3. i + 4 < e
    <3>1. \A k \in i..(i + 4) : s[k] # "LF"
      BY <2>1, <2>2, NameBytes
    <3>2. ~(e \in i..(i + 4))
      BY <1>2, <3>1
    <3> QED  BY <1>2, <2>1, <2>2, <3>2
  <2>4. HostNameAt(b, i)
    BY <1>2, <2>1, <2>2, <2>3, SameName
  <2>5. i \in v + 1 .. len - 4
    BY <1>1, <1>2, <2>2, <2>3
  <2> QED  BY <1>1, <1>3, <2>1, <2>4, <2>5 DEF HostNames
<1>6. ASSUME NothingFollows(s)
      PROVE  len <= e + 2
  BY <1>1, <1>2, <1>6 DEF NothingFollows
<1>7. HostField(b) \in 1..(e + 1)
  <2>1. CASE HostNames(b) # {}
    <3>1. PICK f \in HostNames(b) : f = FirstName(b) /\ \A k \in HostNames(b) : f <= k
      BY <1>1, <1>3, <2>1, FirstNameIsLeast
    <3>2. f \in Nat /\ f <= len - 4
      BY <1>1, <1>3, <3>1 DEF HostNames
    <3>3. HostNames(b) \subseteq Nat
      BY <1>1, <1>3 DEF HostNames
    <3>4. f < e
      <4>1. CASE HostInHead(s)
        BY <1>2, <1>5, <3>1, <3>2, <3>3, <4>1
      <4>2. CASE NothingFollows(s)
        BY <1>1, <1>2, <1>6, <3>2, <4>2
      <4> QED  BY <4>1, <4>2
    <3>5. f + 4 < e /\ HostField(b) = f + 5
      <4>1. VersionEnd(b) \in Nat /\ FirstName(b) < e /\ e <= Len(b)
        BY <1>1, <1>3, <1>4, <3>1, <3>4
      <4>2. FirstName(b) + 4 < e /\ HostField(b) = FirstName(b) + 5
        BY <1>1, <1>4, <2>1, <4>1, FieldOfName
      <4> QED  BY <3>1, <4>2
    <3> QED  BY <1>4, <3>2, <3>5
  <2>2. CASE HostNames(b) = {}
    <3>1. len <= e + 2
      BY <1>5, <1>6, <2>2
    <3>2. HostField(b) = IF len - 4 > v THEN len - 4 ELSE v
      BY <1>1, <1>3, <2>2 DEF HostField
    <3> QED  BY <1>1, <1>3, <1>4, <3>1, <3>2
  <2> QED  BY <2>1, <2>2
<1>8. HostEnd(b) \in Host(b)..(e + 1) /\ Host(b) \in HostField(b)..(e + 1)
  BY <1>1, <1>4, <1>7, ValueEnds
<1> QED  BY <1>1, <1>2, <1>4, <1>7, <1>8 DEF Resolvable

\* Whatever TCP did to the request, resolve() does not leave what was received of one
\* that has a request line and a Host field, or no body.
THEOREM ResolveIsBounded == Spec => []ResolveStaysInside
<1>1. Inv => ResolveStaysInside
  <2> SUFFICES ASSUME Inv, stage = "undefined", HasRequestLine(stream),
                      HostInHead(stream) \/ NothingFollows(stream)
               PROVE  FALSE
    BY DEF ResolveStaysInside
  <2>1. stream \in Seq(Bytes) /\ req_len \in 0..Len(stream)
    BY StreamAssumption DEF Inv, TypeOK
  <2>2. Ended(req_len) /\ ~Resolvable(SubSeq(stream, 1, req_len))
    BY DEF Inv, EndWasSeen, received
  <2>3. PICK e \in HeadEnds(stream) : e < req_len
    BY <2>1, <2>2 DEF Ended, HeadEnds
  <2> QED  BY <2>1, <2>2, <2>3, HeadIsResolvable
<1> QED  BY <1>1, BufferInvariance, PTL

\* The scans of the request line ended in what was received: they are those of all of
\* the request.
LEMMA SameRequestLine ==
    ASSUME NEW s \in Seq(Bytes), NEW len \in 0..Len(s), NEW b, b = SubSeq(s, 1, len),
           HasRequestLine(s), NEW e \in HeadEnds(s), e < len
    PROVE  /\ MethodEnd(s) = MethodEnd(b)
           /\ ResourceEnd(s) = ResourceEnd(b)
           /\ VersionEnd(s) = VersionEnd(b)
<1>1. len \in Nat /\ e \in Nat
  BY DEF HeadEnds
<1>2. PICK m \in Nat : m = MethodEnd(b) /\ m <= len
  <2>1. MethodEnd(b) \in 1..len
    BY RequestLineReceived
  <2> QED  BY <1>1, <2>1
<1>3. PICK r \in Nat : r = ResourceEnd(b) /\ r <= len
  <2>1. ResourceEnd(b) \in 1..len
    BY RequestLineReceived
  <2> QED  BY <1>1, <2>1
<1>4. PICK v \in Nat : v = VersionEnd(b) /\ v <= len
  <2>1. VersionEnd(b) \in 1..(e - 1)
    BY RequestLineReceived
  <2> QED  BY <1>1, <2>1
<1>5. MethodEnd(s) = m
  <2>1. PICK first \in Nat \ {0} : first = 1
    OBVIOUS
  <2>2. Scan(SubSeq(s, 1, len), first, {" "}) = m
    BY <1>2, <2>1 DEF MethodEnd
  <2>3. Scan(s, first, {" "}) = m
    BY <1>2, <2>2, SameScan
  <2> QED  BY <2>1, <2>3 DEF MethodEnd
<1>6. ResourceEnd(s) = r
  <2>1. m + 1 \in Nat \ {0}
    OBVIOUS
  <2>2. Scan(SubSeq(s, 1, len), m + 1, {" "}) = r
    BY <1>2, <1>3 DEF ResourceEnd
  <2>3. Scan(s, m + 1, {" "}) = r
    BY <1>3, <2>1, <2>2, SameScan
  <2> QED  BY <1>5, <2>3 DEF ResourceEnd
<1>7. VersionEnd(s) = v
  <2>1. r + 1 \in Nat \ {0}
    OBVIOUS
  <2>2. Scan(SubSeq(s, 1, len), r + 1, {"CR"}) = v
    BY <1>3, <1>4 DEF VersionEnd
  <2>3. Scan(s, r + 1, {"CR"}) = v
    BY <1>4, <2>1, <2>2, SameScan
  <2> QED  BY <1>6, <2>3 DEF VersionEnd
<1> QED  BY <1>2, <1>3, <1>4, <1>5, <1>6, <1>7

\* The name of the Host field lies in the head, and resolve() takes it for the first.
LEMMA HostLineReceived ==
    ASSUME NEW s \in Seq(Bytes), NEW len \in 0..Len(s), NEW b, b = SubSeq(s, 1, len),
           HasRequestLine(s), NEW e \in HeadEnds(s), e < len, UsualHost(s)
    PROVE  \E h \in Nat \ {0} :
             /\ h = CHOOSE i \in HostLines(s) : \A j \in HostLines(s) : i <= j
             /\ h + 5 <= e
             /\ HostField(b) = h + 5 /\ HostField(s) = h + 5
<1>1. b \in Seq(Bytes) /\ Len(b) = len
  BY ReceivedBytes
<1>2. e \in Nat \ {0} /\ e + 1 <= Len(s) /\ Len(s) \in Nat /\ len \in Nat /\ e < len
  BY DEF HeadEnds
<1>3. s[e] = "LF"
  BY DEF HeadEnds
<1>4. PICK v \in Nat : v = VersionEnd(b) /\ v = VersionEnd(s) /\ v < e
                       /\ \A l \in 1..v : s[l] # "LF"
  <2>1. VersionEnd(b) \in 1..(e - 1) /\ \A l \in 1..VersionEnd(b) : s[l] # "LF"
    BY RequestLineReceived
  <2>2. VersionEnd(s) = VersionEnd(b)
    BY SameRequestLine
  <2>3. VersionEnd(b) \in Nat /\ VersionEnd(b) < e
    BY <1>2, <2>1
  <2> QED  BY <2>1, <2>2, <2>3
<1>5. PICK h \in HostLines(s) : /\ \A j \in HostLines(s) : h <= j
        /\ h = CHOOSE i \in HostLines(s) : \A j \in HostLines(s) : i <= j
  <2> DEFINE lines == HostLines(s)
  <2>0. lines # {}
    BY DEF UsualHost, HostInHead
  <2>1. lines \subseteq Nat
    BY <1>2 DEF HostLines
  <2> HIDE DEF lines
  <2>2. \E i \in lines : \A j \in lines : i <= j
    BY <2>0, <2>1, LeastNatural
  <2>3. \E h \in lines : /\ \A j \in lines : h <= j
                         /\ h = CHOOSE i \in lines : \A j \in lines : i <= j
    BY <2>2
  <2> QED  BY <2>3 DEF lines
<1>6. h \in Nat \ {0} /\ HostNameAt(s, h) /\ s[h - 1] = "LF" /\ h > 1
  BY <1>2 DEF HostLines
<1>7. h < e
  <2>1. PICK i \in HostLines(s) : i < e
    BY DEF UsualHost, HostInHead
  <2>2. h <= i /\ i \in Nat
    BY <1>2, <1>5 DEF HostLines
  <2> QED  BY <1>2, <1>6, <2>1, <2>2
<1>8. h + 5 <= e
  <2>1. \A k \in h..(h + 4) : s[k] # "LF"
    BY <1>6, NameBytes
  <2>2. ~(e \in h..(h + 4))
    BY <1>3, <2>1
  <2> QED  BY <1>2, <1>6, <1>7, <2>2
<1>9. v < h
  <2>1. ASSUME h <= v PROVE FALSE
    <3>1. h - 1 \in 1..v
      BY <1>6, <2>1
    <3> QED  BY <1>4, <1>6, <3>1
  <2> QED  BY <1>6, <2>1
<1>10. ASSUME NEW f \in Nat \ {0}, HostNameAt(s, f)
       PROVE  h <= f
  <2>0. f + 4 <= Len(s)
    BY <1>10, NameBytes
  <2>1. f \in 1..Len(s)
    BY <1>2, <2>0
  <2>2. PICK j \in HostLines(s) : j <= f
    BY <1>10, <2>1 DEF UsualHost
  <2>3. h <= j /\ j \in Nat
    BY <1>2, <1>5 DEF HostLines
  <2> QED  BY <1>6, <2>2, <2>3
<1>11. HostField(b) = h + 5
  <2>1. HostNameAt(b, h)
    BY <1>2, <1>6, <1>8, SameName
  <2>2. h \in v + 1 .. Len(b) - 4
    BY <1>1, <1>2, <1>6, <1>8, <1>9
  <2>3. h \in HostNames(b)
    BY <1>4, <2>1, <2>2 DEF HostNames
  <2>4. PICK f \in HostNames(b) : f = FirstName(b) /\ f <= h
    BY <1>1, <1>4, <2>3, FirstNameIsLeast
  <2>5. f \in Nat \ {0} /\ HostNameAt(b, f)
    BY <1>1, <1>2, <1>4 DEF HostNames
  <2>6. HostNameAt(s, f)
    BY <2>5, SameName
  <2>7. f = h
    BY <1>6, <1>10, <2>4, <2>5, <2>6
  <2> QED  BY <2>3, <2>4, <2>7 DEF HostField
<1>12. HostField(s) = h + 5
  <2>1. h \in v + 1 .. Len(s) - 4
    BY <1>2, <1>6, <1>8, <1>9
  <2>2. h \in HostNames(s)
    BY <1>4, <1>6, <2>1 DEF HostNames
  <2>3. PICK f \in HostNames(s) : f = FirstName(s) /\ f <= h
    BY <1>4, <2>2, FirstNameIsLeast
  <2>4. f \in Nat \ {0} /\ HostNameAt(s, f)
    BY <1>2, <1>4 DEF HostNames
  <2>5. f = h
    BY <1>6, <1>10, <2>3, <2>4
  <2> QED  BY <2>2, <2>3, <2>5 DEF HostField
<1> QED  BY <1>5, <1>6, <1>8, <1>11, <1>12

\* Its value is all of its line that is not blank, and was received.
LEMMA HostReceived ==
    ASSUME NEW s \in Seq(Bytes), NEW len \in 0..Len(s), NEW b, b = SubSeq(s, 1, len),
           HasRequestLine(s), NEW e \in HeadEnds(s), e < len, UsualHost(s)
    PROVE  /\ HostValueAt(s) \in Nat \ {0} /\ ValueEnd(s) \in Nat \ {0}
           /\ Host(b) = HostValueAt(s) /\ Host(s) = HostValueAt(s)
           /\ HostEnd(b) = ValueEnd(s) /\ HostEnd(s) = ValueEnd(s)
           /\ HostValueAt(s) <= ValueEnd(s) /\ ValueEnd(s) <= e + 1
           /\ s[ValueEnd(s)] = "CR"
           /\ \A k \in HostValueAt(s)..(ValueEnd(s) - 1) : s[k] # "CR"
<1>1. b \in Seq(Bytes) /\ Len(b) = len /\ \A l \in 1..len : b[l] = s[l]
  BY ReceivedBytes
<1>2. e \in Nat \ {0} /\ e + 1 <= Len(s) /\ Len(s) \in Nat /\ len \in Nat /\ e < len
  BY DEF HeadEnds
<1>3. s[e + 1] = "CR"
  BY DEF HeadEnds
<1>4. PICK h \in Nat \ {0} :
        /\ h = CHOOSE i \in HostLines(s) : \A j \in HostLines(s) : i <= j
        /\ h + 5 <= e
        /\ HostField(b) = h + 5 /\ HostField(s) = h + 5
  BY HostLineReceived
<1>5. b[e + 1] = "CR"
  <2>1. e + 1 \in 1..len
    BY <1>2
  <2> QED  BY <1>1, <1>3, <2>1
<1>6. PICK value \in Nat \ {0} : value = Host(b) /\ value <= e + 1
  <2>1. HostField(b) \in 1..(e + 1) /\ e + 1 \in 1..Len(b)
    BY <1>1, <1>2, <1>4
  <2>2. Host(b) \in HostField(b)..(e + 1)
    BY <1>1, <1>5, <2>1, ValueEnds
  <2>3. Host(b) \in (h + 5)..(e + 1)
    BY <1>4, <2>2
  <2>4. Host(b) \in Nat \ {0} /\ Host(b) <= e + 1
    BY <1>2, <2>3
  <2> QED  BY <2>4
<1>7. value = Host(s) /\ value = HostValueAt(s)
  <2>1. h + 5 \in Nat \ {0} /\ value <= len
    BY <1>2, <1>6
  <2>2. Scan(SubSeq(s, 1, len), h + 5, Bytes \ {" "}) = value
    BY <1>4, <1>6 DEF Host
  <2>3. Scan(s, h + 5, Bytes \ {" "}) = value
    BY ZenonT(60), <2>1, <2>2, SameScan
  <2>4. Host(s) = value
    BY <1>4, <2>3 DEF Host
  <2>5. HostValueAt(s) = value
    BY <1>4, <2>3 DEF HostValueAt
  <2> QED  BY <2>4, <2>5
<1>8. PICK end \in Nat \ {0} :
        /\ end = ValueEnd(s) /\ value <= end /\ end <= e + 1
        /\ s[end] = "CR" /\ \A k \in value..(end - 1) : s[k] # "CR"
  <2>1. e + 1 \in value..Len(s) /\ s[e + 1] \in {"CR"}
    BY <1>2, <1>3, <1>6
  <2>2. /\ Scan(s, value, {"CR"}) \in value..(e + 1)
        /\ s[Scan(s, value, {"CR"})] \in {"CR"}
        /\ \A k \in value..(Scan(s, value, {"CR"}) - 1) : s[k] \notin {"CR"}
    BY <2>1, ScanWithin
  <2>3. ValueEnd(s) = Scan(s, value, {"CR"})
    BY <1>7 DEF ValueEnd
  <2>4. ValueEnd(s) \in Nat \ {0} /\ value <= ValueEnd(s) /\ ValueEnd(s) <= e + 1
    BY <1>2, <2>2, <2>3
  <2> QED  BY <2>2, <2>3, <2>4
<1>9. \A k \in value..(end - 1) : s[k] \notin {" ", "CR"}
  BY <1>7, <1>8 DEF UsualHost
<1>10. end \in value..len /\ end \in value..Len(s)
  BY <1>2, <1>8
<1>11. HostEnd(s) = end
  <2>1. Scan(s, value, {" ", "CR"}) = end
    BY <1>8, <1>9, <1>10, ScanIs
  <2> QED  BY <1>7, <2>1 DEF HostEnd
<1>12. HostEnd(b) = end
  <2>1. end \in value..Len(b) /\ b[end] \in {" ", "CR"}
    <3>1. end \in 1..len
      BY <1>10
    <3> QED  BY <1>1, <1>8, <1>10, <3>1
  <2>2. \A k \in value..(end - 1) : b[k] \notin {" ", "CR"}
    <3>1. \A k \in value..(end - 1) : k \in 1..len
      BY <1>2, <1>10
    <3> QED  BY <1>1, <1>9, <3>1
  <2>3. Scan(b, value, {" ", "CR"}) = end
    BY <1>1, <2>1, <2>2, ScanIs
  <2> QED  BY <1>6, <2>3 DEF HostEnd
<1> QED  BY <1>6, <1>7, <1>8, <1>11, <1>12

\* However TCP cut a request, the fields resolve() finds in what was received are those
\* of all of it, and the host is the value of its Host field.
THEOREM FieldsDoNotDependOnTheCut == Spec => []SameFieldsHoweverCut
<1>1. Inv => SameFieldsHoweverCut
  <2> SUFFICES ASSUME Inv, Forwarded, HasRequestLine(stream), UsualHost(stream)
               PROVE  /\ Fields(received) = Fields(stream)
                      /\ Fields(received).host =
                           SubSeq(stream, HostValueAt(stream), ValueEnd(stream) - 1)
    BY DEF SameFieldsHoweverCut
  <2>1. PICK s \in Seq(Bytes), len \in Nat : s = stream /\ len = req_len
    BY StreamAssumption DEF Inv, TypeOK
  <2>2. len \in 0..Len(s)
    BY <2>1 DEF Inv, TypeOK
  <2>3. PICK b : b = received /\ b = SubSeq(s, 1, len)
    BY <2>1 DEF received
  <2>4. HasRequestLine(s) /\ UsualHost(s)
    BY <2>1
  <2>5. PICK e \in HeadEnds(s) : e < len /\ e \in Nat
    BY <2>1, <2>2 DEF Inv, EndWasSeen, Ended, HeadEnds, Forwarded
  <2>6. PICK m, r, v \in Nat \ {0} :
          /\ m = MethodEnd(b) /\ m = MethodEnd(s) /\ m <= len
          /\ r = ResourceEnd(b) /\ r = ResourceEnd(s) /\ r <= len
          /\ v = VersionEnd(b) /\ v = VersionEnd(s) /\ v <= len
    <3>1. /\ MethodEnd(b) \in 1..len /\ ResourceEnd(b) \in 1..len
          /\ VersionEnd(b) \in 1..(e - 1)
      BY <2>2, <2>3, <2>4, <2>5, RequestLineReceived
    <3>2. /\ MethodEnd(s) = MethodEnd(b)
          /\ ResourceEnd(s) = ResourceEnd(b)
          /\ VersionEnd(s) = VersionEnd(b)
      BY <2>2, <2>3, <2>4, <2>5, SameRequestLine
    <3>3. VersionEnd(b) \in 1..len
      BY <2>5, <3>1
    <3> QED  BY <3>1, <3>2, <3>3
  <2>7. PICK value, end \in Nat \ {0} :
          /\ value = Host(b) /\ value = Host(s) /\ value = HostValueAt(s)
          /\ end = HostEnd(b) /\ end = HostEnd(s) /\ end = ValueEnd(s)
          /\ end <= e + 1
    BY <2>2, <2>3, <2>4, <2>5, HostReceived
  <2>8. ASSUME NEW i \in Nat \ {0}, NEW n \in Int, n <= len
        PROVE  SubSeq(b, i, n) = SubSeq(s, i, n)
    BY <2>2, <2>3, <2>8, SameWord
  <2>9. SubSeq(b, 1, m - 1) = SubSeq(s, 1, m - 1)
    <3>1. m - 1 \in Int /\ m - 1 <= len /\ 1 \in Nat \ {0}
      BY <2>6
    <3> QED  BY <2>8, <3>1
  <2>10. SubSeq(b, m + 1, r - 1) = SubSeq(s, m + 1, r - 1)
    <3>1. r - 1 \in Int /\ r - 1 <= len /\ m + 1 \in Nat \ {0}
      BY <2>6
    <3> QED  BY <2>8, <3>1
  <2>11. SubSeq(b, r + 1, v - 1) = SubSeq(s, r + 1, v - 1)
    <3>1. v - 1 \in Int /\ v - 1 <= len /\ r + 1 \in Nat \ {0}
      BY <2>6
    <3> QED  BY <2>8, <3>1
  <2>12. SubSeq(b, value, end - 1) = SubSeq(s, value, end - 1)
    <3>1. end <= e + 1
      BY <2>7
    <3>2. end - 1 \in Int /\ end - 1 <= len
      BY <2>5, <3>1
    <3> QED  BY <2>8, <3>2
  <2>13. Fields(b) = Fields(s)
    BY <2>6, <2>7, <2>9, <2>10, <2>11, <2>12 DEF Fields
  <2>14. Fields(b).host = SubSeq(s, HostValueAt(s), ValueEnd(s) - 1)
    BY <2>7, <2>12 DEF Fields
  <2> QED  BY <2>1, <2>3, <2>13, <2>14
<1> QED  BY <1>1, BufferInvariance, PTL

-----------------------------------------------------------------------------
(* sscanf on the text in the buffer: what was received and what lies behind. *)

\* A word ends at the first byte that is not of it, or is as wide as may be.
LEMMA WordIs ==
    ASSUME NEW text \in Seq(Bytes), NEW i \in Nat \ {0}, NEW S,
           NEW p \in i..Len(text), text[p] \in S,
           \A k \in i..(p - 1) : text[k] \notin S
    PROVE  WordEnd(text, i, S) = IF p - i > Width THEN i + Width ELSE p
<1>1. Scan(text, i, S) = p
  BY ScanIs
<1> QED  BY <1>1 DEF WordEnd

\* The text begins with what was received.
BeginsWith(text, s, len) == len <= Len(text) /\ \A k \in 1..len : text[k] = s[k]

LEMMA TextBytes ==
    ASSUME NEW s \in Seq(Bytes), NEW len \in 0..Len(s), NEW b, b = SubSeq(s, 1, len),
           NEW rest \in Seq(Bytes), NEW text, text = b \o rest
    PROVE  text \in Seq(Bytes) /\ BeginsWith(text, s, len)
<1>1. b \in Seq(Bytes) /\ Len(b) = len /\ \A k \in 1..len : b[k] = s[k]
  BY ReceivedBytes
<1>2. text \in Seq(Bytes) /\ Len(text) = len + Len(rest) /\ Len(rest) \in Nat
  BY <1>1
<1>3. \A k \in 1..len : text[k] = b[k]
  BY <1>1
<1>4. len \in Nat
  OBVIOUS
<1> QED  BY <1>1, <1>2, <1>3, <1>4 DEF BeginsWith

\* A word of it that ends in what was received is one of the request.
LEMMA TextWord ==
    ASSUME NEW s \in Seq(Bytes), NEW len \in 0..Len(s), NEW text \in Seq(Bytes),
           BeginsWith(text, s, len),
           NEW v \in Nat \ {0}, NEW w \in Nat, v < w, w <= len
    PROVE  SubSeq(text, v, w - 1) = SubSeq(s, v, w - 1) /\ SubSeq(text, v, w - 1) # <<>>
<1>1. len <= Len(text) /\ \A k \in 1..len : text[k] = s[k]
  BY DEF BeginsWith
<1>2. /\ SubSeq(text, v, w - 1) = [k \in 1..(w - v) |-> text[v + k - 1]]
      /\ SubSeq(s, v, w - 1) = [k \in 1..(w - v) |-> s[v + k - 1]]
  BY <1>1
<1>3. \A k \in 1..(w - v) : text[v + k - 1] = s[v + k - 1]
  <2> SUFFICES ASSUME NEW k \in 1..(w - v) PROVE text[v + k - 1] = s[v + k - 1]
    OBVIOUS
  <2>1. v + k - 1 \in 1..len
    OBVIOUS
  <2> QED  BY <1>1, <2>1
<1>4. Len(SubSeq(text, v, w - 1)) = w - v /\ w - v # 0
  BY <1>1
<1>5. SubSeq(text, v, w - 1) = SubSeq(s, v, w - 1)
  BY <1>2, <1>3
<1> QED  BY <1>4, <1>5

\* sscanf finds the name that the Host field gives to the origin, and its port, as far as
\* they fit into host_name.
LEMMA TargetReceived ==
    ASSUME NEW s \in Seq(Bytes), NEW len \in 0..Len(s), NEW b, b = SubSeq(s, 1, len),
           NEW text \in Seq(Bytes), BeginsWith(text, s, len),
           HasRequestLine(s), NEW e \in HeadEnds(s), e < len,
           UsualHost(s), UsualTarget(s), NoNumberFollows(text, ValueEnd(s))
    PROVE  LET value == HostValueAt(s)
               fits == NameEnd(s) - value <= Width
           IN /\ ServerName(text, Host(b)) =
                    SubSeq(s, value, (IF fits THEN NameEnd(s) ELSE value + Width) - 1)
              /\ PortGiven(text, Host(b)) <=> fits /\ s[NameEnd(s)] = ":"
<1>1. text \in Seq(Bytes) /\ Len(text) \in Nat /\ len <= Len(text)
  BY DEF BeginsWith
<1>2. \A l \in 1..len : text[l] = s[l]
  BY DEF BeginsWith
<1>3. e \in Nat \ {0} /\ e + 1 <= len /\ len <= Len(s) /\ len \in Nat /\ Len(s) \in Nat
  BY DEF HeadEnds
<1>4. PICK value, end \in Nat \ {0} :
        /\ value = Host(b) /\ value = HostValueAt(s) /\ end = ValueEnd(s)
        /\ value <= end /\ end <= e + 1
        /\ s[end] = "CR" /\ \A k \in value..(end - 1) : s[k] # "CR"
  BY HostReceived
<1>5. end <= len
  <2>1. end <= e + 1
    BY <1>4
  <2> QED  BY <1>3, <2>1
<1>6. PICK name \in Nat \ {0} :
        /\ name = NameEnd(s) /\ name \in value..end
        /\ s[name] \in {":", "CR"} /\ \A k \in value..(name - 1) : s[k] \notin {":", "CR"}
  <2>1. end \in value..Len(s) /\ s[end] \in {":", "CR"}
    <3>1. value <= end
      BY <1>4
    <3> QED  BY <1>3, <1>4, <1>5, <3>1
  <2>2. /\ Scan(s, value, {":", "CR"}) \in value..end
        /\ s[Scan(s, value, {":", "CR"})] \in {":", "CR"}
        /\ \A k \in value..(Scan(s, value, {":", "CR"}) - 1) : s[k] \notin {":", "CR"}
    BY <2>1, ScanWithin
  <2>3. NameEnd(s) = Scan(s, value, {":", "CR"})
    BY <1>4 DEF NameEnd
  <2>4. NameEnd(s) \in Nat \ {0}
    BY <2>2, <2>3
  <2> QED  BY <2>2, <2>3, <2>4
<1>7. value < name /\ (s[name] = ":" => s[name + 1] = "8")
  BY <1>4, <1>6 DEF UsualTarget
<1>8. Width \in Nat \ {0}
  BY WidthAssumption
<1>9. name <= end /\ name <= len /\ \A k \in value..len : k \in 1..len /\ text[k] = s[k]
  BY <1>2, <1>3, <1>5, <1>6
<1>10. PICK cut \in Nat : cut = (IF name - value <= Width THEN name ELSE value + Width)
  BY <1>8
<1>11. value < cut /\ cut <= name /\ cut <= len
  BY <1>7, <1>8, <1>9, <1>10
<1>12. /\ SubSeq(text, value, cut - 1) = SubSeq(s, value, cut - 1)
       /\ SubSeq(text, value, cut - 1) # <<>>
  BY ZenonT(30), <1>11, TextWord
<1>13. cut < name => text[cut] # ":"
  <2>1. cut < name => cut \in value..(name - 1) /\ cut \in value..len
    BY <1>9, <1>11
  <2> QED  BY <1>6, <1>9, <2>1
\* The word up to the carriage return, if the name is not all of the value too wide for it.
<1>14. name = end \/ name - value > Width => WordEnd(text, value, {"CR"}) = cut
  <2>1. end \in value..Len(text) /\ text[end] \in {"CR"}
    BY <1>1, <1>4, <1>5, <1>9
  <2>2. \A k \in value..(end - 1) : text[k] \notin {"CR"}
    <3>1. \A k \in value..(end - 1) : k \in value..len
      BY <1>3, <1>5
    <3> QED  BY <1>4, <1>9, <3>1
  <2>3. WordEnd(text, value, {"CR"}) = IF end - value > Width THEN value + Width ELSE end
    BY <1>1, <2>1, <2>2, WordIs
  <2> QED  BY <1>8, <1>9, <1>10, <2>3
<1>15. CASE s[name] = ":"
  <2>1. name # end
    BY <1>4, <1>15
  <2>2. name + 1 \in value..len
    BY <1>5, <1>7, <1>9, <2>1
  <2>3. WordEnd(text, value, {":"}) = cut
    <3>1. name \in value..Len(text) /\ text[name] \in {":"}
      BY <1>1, <1>6, <1>9, <1>15
    <3>2. \A k \in value..(name - 1) : text[k] \notin {":"}
      <4>1. \A k \in value..(name - 1) : k \in value..len
        BY <1>9
      <4> QED  BY <1>6, <1>9, <4>1
    <3>3. WordEnd(text, value, {":"}) = IF name - value > Width THEN value + Width ELSE name
      BY <1>1, <3>1, <3>2, WordIs
    <3> QED  BY <1>8, <1>10, <3>3
  <2>4. CASE name - value <= Width
    <3>1. cut = name
      BY <1>10, <2>4
    <3>2. Scan(text, name + 1, Bytes \ Blanks) = name + 1
      <4>1. text[name + 1] = "8" /\ "8" \in Bytes \ Blanks
        BY <1>7, <1>9, <1>15, <2>2 DEF Bytes, Blanks
      <4>2. PICK number \in Nat \ {0} : number = name + 1
        OBVIOUS
      <4>3. number \in number..Len(text) /\ text[number] \in Bytes \ Blanks
        BY <1>1, <2>2, <4>1, <4>2
      <4>4. \A k \in number..(number - 1) : text[k] \notin Bytes \ Blanks
        OBVIOUS
      <4>5. Scan(text, number, Bytes \ Blanks) = number
        BY <1>1, <4>3, <4>4, ScanIs
      <4> QED  BY <4>2, <4>5
    <3>3. text[name] = ":" /\ text[name + 1] = "8" /\ name + 1 <= Len(text)
      BY <1>1, <1>6, <1>7, <1>9, <1>15, <2>2
    <3>4. PortGiven(text, value)
      BY <1>7, <2>3, <3>1, <3>2, <3>3 DEF PortGiven
    <3>5. ServerName(text, value) = SubSeq(text, value, cut - 1)
      BY <2>3, <3>4 DEF ServerName, Word
    <3> QED  BY <1>4, <1>6, <1>10, <1>12, <1>15, <2>4, <3>4, <3>5
  <2>5. CASE ~(name - value <= Width)
    <3>1. name - value > Width /\ cut < name
      BY <1>8, <1>10, <2>5
    <3>2. ~PortGiven(text, value)
      BY <1>13, <2>3, <3>1 DEF PortGiven
    <3>3. Word(text, value, {"CR"}) = SubSeq(text, value, cut - 1)
      BY <1>14, <3>1 DEF Word
    <3>4. ServerName(text, value) = SubSeq(text, value, cut - 1)
      BY <1>12, <3>2, <3>3 DEF ServerName
    <3> QED  BY <1>4, <1>6, <1>10, <1>12, <2>5, <3>2, <3>4
  <2> QED  BY <2>4, <2>5
<1>16. CASE s[name] = "CR"
  <2>1. name = end
    <3>1. ASSUME name # end PROVE FALSE
      <4>1. name \in value..(end - 1)
        BY <1>6, <3>1
      <4> QED  BY <1>4, <1>16, <4>1
    <3> QED  BY <3>1
  <2>2. ASSUME PortGiven(text, value) PROVE FALSE
    <3>1. PICK colon \in Nat \ {0} :
            /\ colon = WordEnd(text, value, {":"}) /\ colon > value /\ text[colon] = ":"
      <4>1. Scan(text, value, {":"}) \in Nat
        BY <1>1, ScanFinds
      <4>2. WordEnd(text, value, {":"}) \in Nat
        BY <1>8, <4>1 DEF WordEnd
      <4>3. WordEnd(text, value, {":"}) > value /\ text[WordEnd(text, value, {":"})] = ":"
        BY <2>2 DEF PortGiven
      <4> QED  BY <4>2, <4>3
    <3>2. PICK number \in Nat : number = Scan(text, colon + 1, Bytes \ Blanks)
      <4>1. colon + 1 \in Nat \ {0}
        OBVIOUS
      <4> QED  BY <1>1, <4>1, ScanFinds
    <3>3. number <= Len(text) /\ text[number] = "8"
      BY <2>2, <3>1, <3>2 DEF PortGiven
    <3>4. colon + 1 <= number
      <4>1. colon + 1 \in Nat \ {0}
        OBVIOUS
      <4> QED  BY <1>1, <3>2, <3>3, <4>1, ScanFinds
    <3>5. colon >= end
      <4>1. ASSUME colon < end PROVE FALSE
        <5>1. colon \in value..(name - 1) /\ colon \in value..len
          BY <1>5, <2>1, <3>1, <4>1
        <5> QED  BY <1>6, <1>9, <3>1, <5>1
      <4> QED  BY <4>1
    <3>6. colon \in ValueEnd(s)..Len(text)
      BY <1>1, <1>4, <3>3, <3>4, <3>5
    <3> QED  BY <3>1, <3>2, <3>3, <3>6 DEF NoNumberFollows
  <2>3. Word(text, value, {"CR"}) = SubSeq(text, value, cut - 1)
    BY <1>14, <2>1 DEF Word
  <2>4. ServerName(text, value) = SubSeq(text, value, cut - 1)
    BY <1>12, <2>2, <2>3 DEF ServerName
  <2>5. s[name] # ":"
    BY <1>16
  <2> QED  BY <1>4, <1>6, <1>10, <1>12, <2>2, <2>4, <2>5
<1> QED  BY <1>6, <1>15, <1>16

\* The origin connected to is the one the Host field names, however the request was cut
\* and whatever lies behind it in the buffer, as far as the name fits into host_name and
\* unless a number follows that sscanf takes for the port.
THEOREM TheHostIsConnectedTo == Spec => []TargetIsTheHost
<1>1. Inv => TargetIsTheHost
  <2> SUFFICES ASSUME Inv, NEW rest \in Rests, NEW text, text = received \o rest,
                      Forwarded, HasRequestLine(stream), UsualHost(stream),
                      UsualTarget(stream), NoNumberFollows(text, ValueEnd(stream))
               PROVE  LET value == HostValueAt(stream)
                          fits == NameEnd(stream) - value <= Width
                      IN /\ ServerName(text, Host(received)) =
                              SubSeq(stream, value,
                                     (IF fits THEN NameEnd(stream) ELSE value + Width) - 1)
                         /\ PortGiven(text, Host(received))
                              <=> fits /\ stream[NameEnd(stream)] = ":"
    BY Zenon DEF TargetIsTheHost
  <2>1. PICK s \in Seq(Bytes), len \in Nat : s = stream /\ len = req_len
    BY StreamAssumption DEF Inv, TypeOK
  <2>2. len \in 0..Len(s)
    BY <2>1 DEF Inv, TypeOK
  <2>3. PICK b : b = received /\ b = SubSeq(s, 1, len)
    BY <2>1 DEF received
  <2>4. HasRequestLine(s) /\ UsualHost(s) /\ UsualTarget(s)
        /\ NoNumberFollows(text, ValueEnd(s))
    BY <2>1
  <2>5. PICK e \in HeadEnds(s) : e < len /\ e \in Nat
    BY <2>1, <2>2 DEF Inv, EndWasSeen, Ended, HeadEnds, Forwarded
  <2>6. text \in Seq(Bytes) /\ BeginsWith(text, s, len)
    <3>1. rest \in Seq(Bytes) /\ text = b \o rest
      BY <2>3, RestAssumption
    <3> QED  BY <2>2, <2>3, <3>1, TextBytes
  <2>7. LET value == HostValueAt(s)
            fits == NameEnd(s) - value <= Width
        IN /\ ServerName(text, Host(b)) =
                SubSeq(s, value, (IF fits THEN NameEnd(s) ELSE value + Width) - 1)
           /\ PortGiven(text, Host(b)) <=> fits /\ s[NameEnd(s)] = ":"
    BY <2>2, <2>3, <2>4, <2>5, <2>6, TargetReceived
  <2> QED  BY <2>1, <2>3, <2>7
<1> QED  BY <1>1, BufferInvariance, PTL
=============================================================================
