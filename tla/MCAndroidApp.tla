---------------------------- MODULE MCAndroidApp ----------------------------
(* AndroidApp on one phone, with small sets of everything that is typed in. *)
EXTENDS AndroidApp

CONSTANTS id1, p1, zero, ten, aaa, home

MCOneId == {id1}
MCPlaces == {p1}
MCCounts == {zero, ten}
MCOneCampaign == {aaa}
MCPhones == {home}
=============================================================================
