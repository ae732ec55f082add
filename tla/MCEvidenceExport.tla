------------------------- MODULE MCEvidenceExport -------------------------
(* An instance of EvidenceExport for TLC.                                  *)
EXTENDS EvidenceExport, TLC

Symmetry ==
    Permutations(Bodies) \cup Permutations(Starters)
===========================================================================
