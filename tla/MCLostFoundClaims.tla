------------------------- MODULE MCLostFoundClaims -------------------------
(* Small instances of LostFoundClaims: one report per instance and owner. *)
EXTENDS LostFoundClaims, TLC

CONSTANTS owner

OneOwner == [p \in Reports |-> owner]
Symmetry == Permutations(Requests) \cup Permutations(Users \ {owner})
=============================================================================
