------------------------------- MODULE MCConsole -------------------------------
(* Model-checking instance of Console: transcripts the query service can     *)
(* produce, cut anywhere, one of them with the two-character terminator and  *)
(* one with rows that hold a NaN.                                            *)
EXTENDS Console

Sendable ==
    {[script |-> <<"stage", "sql", "done">>, style |-> <<CR, LF>>],
     [script |-> <<"nan_rows", "done">>, style |-> <<LF>>],
     [script |-> <<"keepalive", "sql", "big_rows", "done">>, style |-> <<LF>>],
     [script |-> <<"stage", "error">>, style |-> <<LF>>]}
===============================================================================
