----------------------------- MODULE MCMyMarker -----------------------------
(* MyMarker on one dispatcher, two positions and two head counts. *)
EXTENDS MyMarker, TLC

CONSTANTS p1, p2, zero, ten, aaa

MCPlaces == {p1, p2}
MCCounts == {zero, ten}
MCOneCount == {zero}
MCCampaigns == {aaa}
MCLostBox == {"Lost"}

Symmetry == Permutations({p1, p2})
=============================================================================
