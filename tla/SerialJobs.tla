----------------------------- MODULE SerialJobs -----------------------------
(****************************************************************************)
(* What the daemon promises about sync jobs: a job begins only where one    *)
(* was asked for and none is going on, beginning it uses the request up,    *)
(* and no request is dropped otherwise. Jobs of different folders overlap   *)
(* freely. When the daemon stops, jobs and requests are gone.               *)
(****************************************************************************)
CONSTANT Folder

VARIABLES asked,  \* folders with a request that no job has answered yet
          busy    \* folders with a job going on

Init == asked = {} /\ busy = {}

Ask(fs) == asked' = asked \cup fs /\ UNCHANGED busy

\* Several jobs may begin at once, and new requests arrive meanwhile.
Begin(fs, new) ==
  /\ fs \subseteq asked \ busy
  /\ busy' = busy \cup fs
  /\ asked' = (asked \ fs) \cup new

End(f) == f \in busy /\ busy' = busy \ {f} /\ UNCHANGED asked

Halt == asked' = {} /\ busy' = {}

Next ==
  \/ \E fs \in SUBSET Folder : Ask(fs)
  \/ \E fs, new \in SUBSET Folder : Begin(fs, new)
  \/ \E f \in Folder : End(f)
  \/ Halt

Spec == Init /\ [][Next]_<<asked, busy>>

=============================================================================
