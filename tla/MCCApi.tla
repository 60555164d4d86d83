------------------------------- MODULE MCCApi -------------------------------
(***************************************************************************)
(* Instances of CApi: three objects at once, enough for an array of two       *)
(* changes or for two deltas and the one that is split from them; one value,  *)
(* which both tables show.                                                  *)
(***************************************************************************)
EXTENDS CApi

MCMaxHandles == [records |-> 3, updates |-> 3, deltas |-> 3]
MCShows(v) == Tables
=============================================================================
