----------------------------- MODULE MCAccounts -----------------------------
(***************************************************************************)
(* Instances of Accounts for TLC.                                          *)
(***************************************************************************)
EXTENDS Accounts, TLC

\* Secrets and the references of one collection are interchangeable.
Interchangeable ==
  Permutations(Secrets) \cup Permutations(AgentRefs) \cup Permutations(PeerRefs) \cup
  Permutations(Writers)
=============================================================================
