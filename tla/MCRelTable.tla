----------------------------- MODULE MCRelTable -----------------------------
(***************************************************************************)
(* RelTable for TLC: property lists with no value and with one value.      *)
(***************************************************************************)
EXTENDS RelTable

MCPropLists == {<<>>, <<"p">>}
=============================================================================
