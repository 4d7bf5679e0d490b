--------------------------- MODULE MCMegaDecryptor ---------------------------
(***************************************************************************)
(* A small instance of MegaDecryptor for TLC: blocks of 2 bytes, chunks of *)
(* 2, 4, ..., 16, 16, ... bytes and files that end in the tenth chunk or   *)
(* earlier, on a boundary or not.                                          *)
(***************************************************************************)
EXTENDS MegaDecryptor

FileSizes == 0 .. 90
=============================================================================
