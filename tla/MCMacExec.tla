----------------------------- MODULE MCMacExec -----------------------------
(* TLC instance of MacExec: stdout may exceed the limit of a reader, stderr *)
(* fits into its pipe.                                                      *)
EXTENDS MacExec

MCMaxWrite == [s \in Streams |-> IF s = "stdout" THEN 4 ELSE 1]

============================================================================
