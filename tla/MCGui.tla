-------------------------------- MODULE MCGui --------------------------------
(****************************************************************************)
(* One account from the start and one that may sign in.                     *)
(****************************************************************************)
EXTENDS Gui

CONSTANTS a1, a2, f1, f2, s1

Accounts == {a1, a2}
Folders == {f1, f2}
Spaces == {s1}

=============================================================================
