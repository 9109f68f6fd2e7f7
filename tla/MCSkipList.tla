----------------------------- MODULE MCSkipList -----------------------------
(* A small instance of SkipList: every order of inserting the keys, with     *)
(* every choice of heights, under a reader that does anything an iterator   *)
(* may do.                                                                 *)
EXTENDS SkipList
=============================================================================
