------------------------------ MODULE MCDBIter ------------------------------
(* A small instance of DBIter: a file of level 0 that is one block, and a level  *)
(* of files of two blocks of one entry each.                                  *)
EXTENDS DBIter

MCBlockSize == <<3, 1>>
MCFileSize  == <<3, 2>>
=============================================================================
