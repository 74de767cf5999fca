------------------------------- MODULE MCTls --------------------------------
(* Tls for TLC: the client sends most, the server one cell. *)
EXTENDS Tls
MCPlain == [s \in {"client", "server"} |-> IF s = "client" THEN 3 ELSE 1]
=============================================================================
