------------------------------ MODULE MCDaemon ------------------------------
(****************************************************************************)
(* One folder: folders share the loops, and nothing else.                   *)
(****************************************************************************)
EXTENDS Daemon

CONSTANT f1

OneFolder == {f1}

=============================================================================
