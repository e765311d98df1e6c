------------------------------ MODULE MCClient -------------------------------
(****************************************************************************)
(* Two runs that share a token, one poller, and a space with a directory in *)
(* a directory.                                                             *)
(****************************************************************************)
EXTENDS Client

CONSTANTS r1, r2, c1, top, sub, leaf

Runs == {r1, r2}
Calls == {c1}
Nodes == {top, sub, leaf}
Dirs == {top, sub}
ParentOf == [n \in Nodes |-> CASE n = top -> Root [] n = sub -> top [] n = leaf -> sub]

=============================================================================
