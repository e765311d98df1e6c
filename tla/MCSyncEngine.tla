---------------------------- MODULE MCSyncEngine ----------------------------
(****************************************************************************)
(* Small folders for the engine: one file, two files of one stem, a         *)
(* directory with a file.                                                   *)
(****************************************************************************)
EXTENDS SyncEngine

FileOf(up, name, ext) == [up |-> up, stem |-> <<name>>, ext |-> ext]

\* A file with the names the engine derives from it, for timestamps 1..n: copies
\* of copies carry rising timestamps.
Stamps(n) == UNION {{s \in [1..k -> 1..n] : \A i \in 2..k : s[i - 1] < s[i]} : k \in 0..n}
Family(p, n) ==
  {[p EXCEPT !.stem = p.stem \o s, !.ext = e] : s \in Stamps(n), e \in {p.ext, "tmp"}}

fileA == FileOf({}, "a", "txt")
fileM == FileOf({}, "a", "md")
dirD  == FileOf({}, "d", "")
fileD == FileOf({dirD}, "f", "txt")

NoDirs    == {}
OneFile   == {fileA}
OnePaths  == Family(fileA, 2)
OnePaths3 == Family(fileA, 3)
StemFiles == {fileA, fileM}
StemPaths == Family(fileA, 1) \cup Family(fileM, 1)
OneDir    == {dirD}
DirUser   == {dirD, fileD}
DirPaths  == {dirD} \cup Family(fileD, 3)

DistinctSizes(n) == n
SameSizes(n) == 1

=============================================================================
