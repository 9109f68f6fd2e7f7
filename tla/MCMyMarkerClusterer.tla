------------------------ MODULE MCMyMarkerClusterer ------------------------
(* MyMarkerClusterer on four crowds and up to four removals. *)
EXTENDS MyMarkerClusterer

MCIds == 1..4
=============================================================================
