------------------------------ MODULE Reconcile ------------------------------
(****************************************************************************)
(* The decision table of the sync engine: what one path needs, given what   *)
(* discovery saw on both sides and the journal row of the last sync.        *)
(* A side that lacks the path, and a missing row, is None.                  *)
(****************************************************************************)

CONSTANT None   \* the absent value of an Option

Instructions == {"Upload", "Download", "DeleteLocal", "DeleteRemote",
                 "Conflict", "Ignore"}

Strategies == {"KeepBoth", "KeepRemote", "KeepLocal"}

\* Mutant: KeepBoth fetches without setting the local copy aside.
Resolution_NoCopy(strategy) == "Download"

\* Both sides changed since the recorded sync: the strategy decides.
Resolution(strategy) ==
  CASE strategy = "KeepBoth"   -> "Conflict"
    [] strategy = "KeepRemote" -> "Download"
    [] strategy = "KeepLocal"  -> "Upload"

\* loc carries a size, rem an etag, row both. A local change is seen by its
\* size only, a remote change by its etag only.
Reconcile(loc, rem, row, strategy) ==
  LET localChanged  == loc.size # row.size
      remoteChanged == rem.etag # row.etag
  IN CASE loc = None /\ rem = None                 -> "Ignore"
       [] loc # None /\ rem = None /\ row = None   -> "Upload"
       [] loc # None /\ rem = None /\ row # None   -> "DeleteLocal"
       [] loc = None /\ rem # None /\ row = None   -> "Download"
       [] loc = None /\ rem # None /\ row # None   -> "DeleteRemote"
       [] loc # None /\ rem # None /\ row = None   -> "Conflict"
       [] loc # None /\ rem # None /\ row # None   ->
            CASE ~localChanged /\ ~remoteChanged -> "Ignore"
              [] localChanged  /\ ~remoteChanged -> "Upload"
              [] ~localChanged /\ remoteChanged  -> "Download"
              [] localChanged  /\ remoteChanged  -> Resolution(strategy)

=============================================================================
