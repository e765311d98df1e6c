------------------------------ MODULE Scheduler ------------------------------
(****************************************************************************)
(* SyncScheduler: the flags of one folder and what each call does to them.  *)
(* A folder the scheduler does not know is None, and every call on it does  *)
(* nothing. last_sync is never read and left out.                           *)
(****************************************************************************)
CONSTANT None

FolderScheduleState == [paused : BOOLEAN, running : BOOLEAN, pending : BOOLEAN]

\* None is not the state of a folder.
ASSUME NoneAssumption == None \notin FolderScheduleState

Default == [paused |-> FALSE, running |-> FALSE, pending |-> FALSE]

Known(s) == s # None

add_folder(s) == IF Known(s) THEN s ELSE Default

request_sync(s) ==
  IF Known(s) /\ ~s.running /\ ~s.paused THEN [s EXCEPT !.pending = TRUE] ELSE s

force_request_sync(s) ==
  IF Known(s) /\ ~s.paused THEN [s EXCEPT !.pending = TRUE] ELSE s

\* Mutant: the flags are rebuilt, without the paused one.
start_sync_Rebuilt(s) == IF Known(s) THEN [running |-> TRUE, pending |-> FALSE] ELSE s

start_sync(s) ==
  IF Known(s) THEN [s EXCEPT !.running = TRUE, !.pending = FALSE] ELSE s

finish_sync(s) == IF Known(s) THEN [s EXCEPT !.running = FALSE] ELSE s

pause(s) == IF Known(s) THEN [s EXCEPT !.paused = TRUE] ELSE s

resume(s) == IF Known(s) THEN [s EXCEPT !.paused = FALSE] ELSE s

\* Mutants: a folder is ready while it runs, while it is paused, without a request.
ready_to_run_Running(s) == Known(s) /\ s.pending /\ ~s.paused
ready_to_run_Paused(s) == Known(s) /\ s.pending /\ ~s.running
ready_to_run_Unasked(s) == Known(s) /\ ~s.running /\ ~s.paused

ready_to_run(s) == Known(s) /\ s.pending /\ ~s.running /\ ~s.paused

=============================================================================
