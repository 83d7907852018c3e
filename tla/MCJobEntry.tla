---------------------------- MODULE MCJobEntry ----------------------------
\* The bounds on the API calls of the JobEntry runs.
EXTENDS JobEntry

\* Liveness: two calls of two callers against a job that defers its firings, so that two
\* run_now share one Notify permit and a pause races a resume or a second schedule; one
\* call against a job that replaces its runs.
LivenessCalls == [p \in OverlapPolicy |-> IF p = "QueueOne" THEN 2 ELSE 1]

\* Safety: two calls, such as a pause and its resume, against a job that skips firings.
PolicyCalls == [p \in OverlapPolicy |-> IF p = "Skip" THEN 2 ELSE 1]
=============================================================================
