------------------------------ MODULE MCDBImpl ------------------------------
(* Small instances of DBImpl.                                                *)
EXTENDS DBImpl
=============================================================================
