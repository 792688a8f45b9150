----------------------------- MODULE MCDatabase -----------------------------
(***************************************************************************)
(* Database for TLC: the endpoints of the relationship tables.             *)
(***************************************************************************)
EXTENDS Database

\* Every relationship table of the model goes from one node table to itself.
MCEndpoints ==
  LET t == CHOOSE n \in NodeTables : TRUE IN [r \in RelTables |-> <<t, t>>]
=============================================================================
