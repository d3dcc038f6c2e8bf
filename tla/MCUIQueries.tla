---------------------------- MODULE MCUIQueries ----------------------------
(* Small instances of UIQueries for TLC.                                   *)
EXTENDS UIQueries

CONSTANTS p1, p2
=============================================================================
