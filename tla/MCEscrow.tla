------------------------------ MODULE MCEscrow ------------------------------
(* Small instances of Escrow for TLC.                                      *)
EXTENDS Escrow, TLC

CONSTANTS p1, p2, zero, adm, orc, g1, g2

MCPlayers   == {p1, p2, zero}
MCOfficials == {adm, orc}
Symmetry    == Permutations({p1, p2}) \cup Permutations({adm, orc})
                 \cup Permutations({g1, g2})
=============================================================================
