-------------------------------- MODULE Paths --------------------------------
(****************************************************************************)
(* Relative paths as the engine derives new names from them: the set of     *)
(* directories above, a stem (a sequence, so that derived stems are longer  *)
(* sequences) and an extension.                                             *)
(****************************************************************************)
EXTENDS Sequences

\* Utf8Path::with_extension("tmp"): every file of a directory with the same
\* stem shares one temporary name, and a temporary name is its own.
TmpPath(p) == [p EXCEPT !.ext = "tmp"]

\* {stem}_conflict_{ts}.{ext}, next to the original.
make_conflict_path(p, ts) == [p EXCEPT !.stem = Append(p.stem, ts)]

\* The directories a path lies in.
Above(p) == p.up

=============================================================================
