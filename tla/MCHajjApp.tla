----------------------------- MODULE MCHajjApp -----------------------------
EXTENDS HajjApp

CONSTANTS id1, aaa, p1, zero, ten, right, wrong

MCIds == {id1}
MCCampaigns == {aaa}
MCPlaces == {p1}
MCCounts == {zero, ten}
MCText == (0 :> zero) @@ (1 :> ten)
MCPhones == {right, wrong}
MCRegistry == aaa :> right
=============================================================================
