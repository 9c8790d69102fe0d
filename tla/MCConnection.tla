---------------------------- MODULE MCConnection ----------------------------
(***************************************************************************)
(* Small instances of Connection for TLC.                                  *)
(***************************************************************************)
EXTENDS Connection

CONSTANTS s1, s2, s3, s4

MCStmts == {s1, s2, s3, s4}
=============================================================================
