---------------------------- MODULE MCVersionSet ----------------------------
(* Small instances of VersionSet.                                            *)
EXTENDS VersionSet
=============================================================================
