--------------------------- MODULE MCRequestBuffer ---------------------------
(***************************************************************************)
(* Instances of RequestBuffer for TLC: requests with and without fields, a *)
(* port, or a byte of a body; with a number in the field after Host; with  *)
(* a field whose name ends like Host's before it; with names of the width  *)
(* of sscanf, of one byte more, and of none; with a body, but without a    *)
(* Host field before it; one that never ends and one without a request     *)
(* line.                                                                   *)
(***************************************************************************)
EXTENDS RequestBuffer

Line == <<"x", " ", "x", " ", "x", "CR", "LF">>
Blank == <<"CR", "LF">>
HostLine == <<"h", "o", "s", "t", ":", " ", "x", "CR", "LF">>
HostAndPort == <<"h", "o", "s", "t", ":", "x", ":", "8", "CR", "LF">>
WideHost == <<"h", "o", "s", "t", ":", "x", "x", "x", "x", ":", "8", "CR", "LF">>
TooWideHost == <<"h", "o", "s", "t", ":", "x", "x", "x", "x", "x", "CR", "LF">>
TooWideAndPort == <<"h", "o", "s", "t", ":", "x", "x", "x", "x", "x", ":", "8", "CR", "LF">>
NoHost == <<"h", "o", "s", "t", ":", "CR", "LF">>
Field == <<"x", ":", "x", "CR", "LF">>
NumberField == <<"x", ":", " ", "8", "CR", "LF">>

SomeStreams == {
    Line \o Blank,
    Line \o Field \o Blank,
    Line \o HostLine \o Blank,
    Line \o Field \o HostLine \o Field \o Blank,
    Line \o HostAndPort \o Blank \o <<"x">>,
    Line \o HostLine \o NumberField \o Blank,
    Line \o NumberField \o HostAndPort \o NumberField \o Blank,
    Line \o WideHost \o Blank,
    Line \o TooWideHost \o Field \o Blank,
    Line \o TooWideAndPort \o Blank,
    Line \o NoHost \o NumberField \o Blank,
    Line \o <<"x">> \o HostLine \o HostAndPort \o Blank,
    Line \o Field \o Blank \o <<"x", "x", "x", "x", "x">>,
    Line \o Field \o Blank \o HostLine,
    Line,
    <<"x", "CR", "LF">> \o Blank}

\* Those of them that are a request with a name in its Host field.
HostStreams == {s \in SomeStreams : HasRequestLine(s) /\ UsualHost(s) /\ UsualTarget(s)}

\* The buffer is clear behind the request, or holds a port or the begin of one.
SomeRests == {<<>>, <<":", "8">>, <<"8">>, <<"x", ":", "x">>}

ASSUME HttpStreamsAssumption == HttpStreams
=============================================================================
