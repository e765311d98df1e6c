----------------------------- MODULE MCGuiLink ------------------------------
(****************************************************************************)
(* Three connections: an old one, its successor, and one being made.        *)
(****************************************************************************)
EXTENDS GuiLink

CONSTANTS c1, c2, c3, k1, k2

Conns == {c1, c2, c3}
Slots == {k1, k2}

=============================================================================
