----------------------------- MODULE MCDataFile -----------------------------
(***************************************************************************)
(* DataFile for TLC.  With pages of 8 bytes and a prefix of 4, a section   *)
(* of 4 bytes fills its page, 5 bytes need a second one, 13 a third.       *)
(***************************************************************************)
EXTENDS DataFile
=============================================================================
