------------------------------- MODULE MCMcpPool -------------------------------
(* Model-checking instance of McpPool: two datasets take turns. *)
EXTENDS McpPool

CONSTANTS a, b

TwoDatasets == {a, b}
===============================================================================
