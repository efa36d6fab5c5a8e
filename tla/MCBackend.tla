----------------------------- MODULE MCBackend ------------------------------
(* Three descriptors with buffers of different lengths.                     *)
EXTENDS Backend

MCBufLen == [i \in 0..2 |-> IF i = 1 THEN 1 ELSE 2]
=============================================================================
