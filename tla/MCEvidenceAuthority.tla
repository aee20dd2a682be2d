------------------------ MODULE MCEvidenceAuthority ------------------------
(* Instance of EvidenceAuthority for TLC: two labels are enough for every   *)
(* pair of surfaces to agree or to disagree on a row.                       *)
EXTENDS EvidenceAuthority, TLC

ClassSymmetry == Permutations(Class)
=============================================================================
