------------------------ MODULE MCConnectionScheduler ------------------------
(***************************************************************************)
(* Instances of ConnectionScheduler for TLC.  Four descriptors are used up *)
(* by the listening socket, one lost socket, a client and its server, so   *)
(* that the table fills while others wait.                                 *)
(***************************************************************************)
EXTENDS ConnectionScheduler

FourFds == 4
=============================================================================
