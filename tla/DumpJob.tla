------------------------------- MODULE DumpJob -------------------------------
(***************************************************************************)
(* What one dump promises its caller, whatever goes on inside: a job that  *)
(* runs, then succeeds or fails once and for all. A job that succeeds has  *)
(* written everything it planned, unless it was cancelled; nothing changes *)
(* in its output afterwards except the metadata file, which appears only   *)
(* after success; the replication slot it reserved is given back only      *)
(* after a failure.                                                        *)
(***************************************************************************)
CONSTANT Everything    \* all files a dump may have to write

VARIABLES
    plan,         \* the files this job has to write
    phase,        \* "running", "succeeded" or "failed"
    written,      \* the files written to their end
    held,         \* the replication slot exists
    finished,     \* the metadata file has its finish time
    cancelled     \* the caller cancelled the job

jobVars == <<plan, phase, written, held, finished, cancelled>>

Init ==
    /\ plan \subseteq Everything
    /\ phase = "running" /\ written = {} /\ held = FALSE
    /\ finished = FALSE /\ cancelled = FALSE

\* A table that cannot be split is written to fewer files.
Replan ==
    /\ phase = "running"
    /\ plan' \subseteq plan /\ written' = written \cap plan'
    /\ UNCHANGED <<phase, held, finished, cancelled>>

\* Files are written by the writers, which a failed job may leave behind.
Write ==
    /\ phase # "succeeded"
    /\ written' \subseteq plan
    /\ UNCHANGED <<plan, phase, held, finished, cancelled>>

Reserve ==
    /\ phase = "running" /\ ~held
    /\ held' = TRUE
    /\ UNCHANGED <<plan, phase, written, finished, cancelled>>

Succeed ==
    /\ phase = "running"
    /\ cancelled \/ written = plan
    /\ phase' = "succeeded"
    /\ UNCHANGED <<plan, written, held, finished, cancelled>>

\* The slot may appear in the very step that fails: the server created it and
\* the answer was lost.
Fail ==
    /\ phase = "running"
    /\ phase' = "failed"
    /\ held' \in {held, TRUE}
    /\ UNCHANGED <<plan, written, finished, cancelled>>

GiveBack ==
    /\ phase = "failed" /\ held
    /\ held' = FALSE
    /\ UNCHANGED <<plan, phase, written, finished, cancelled>>

Publish ==
    /\ phase = "succeeded" /\ ~finished
    /\ finished' = TRUE
    /\ UNCHANGED <<plan, phase, written, held, cancelled>>

Cancel ==
    /\ ~cancelled
    /\ cancelled' = TRUE
    /\ UNCHANGED <<plan, phase, written, held, finished>>

Next == Replan \/ Write \/ Reserve \/ Succeed \/ Fail \/ GiveBack \/ Publish \/ Cancel

Spec == Init /\ [][Next]_jobVars
=============================================================================
