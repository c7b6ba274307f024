------------------------ MODULE MCDataApiConsistency -------------------------
(***************************************************************************)
(* The instance of DataApi with one replica, with the invariant of its     *)
(* proofs and what they assume of the requests.                            *)
(***************************************************************************)
EXTENDS MCDataApi, DataApiConsistency

ASSUME RequestedAssumption == Requested
=============================================================================
