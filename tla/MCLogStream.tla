----------------------------- MODULE MCLogStream -----------------------------
(* Small instances of LogStream for TLC. *)
EXTENDS LogStream

(* The reader "err" follows stderr, any other follows stdout. *)
ByName == [r \in Readers |-> IF r = "err" THEN "stderr" ELSE "stdout"]

==============================================================================
