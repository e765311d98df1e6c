------------------------------- MODULE MCShell -------------------------------
(****************************************************************************)
(* One call at a time, the broadcast loop, and a connection to spare for a  *)
(* handler that outlives its client; one path.                              *)
(****************************************************************************)
EXTENDS Shell

CONSTANTS c1, c2, c3, k1, p1

Conns == {c1, c2, c3}
Callers == {k1}
Paths == {p1}
Jobs == {<<p1>>}

=============================================================================
