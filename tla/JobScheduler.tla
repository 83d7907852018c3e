---------------------------- MODULE JobScheduler ----------------------------
(***************************************************************************)
(* The scheduler around the jobs (jobs/src/scheduler.rs): the start of the *)
(* static jobs, jobs scheduled at run time, the registry their loops leave *)
(* by themselves, the history of runs each entry keeps, and the drop of    *)
(* the scheduler, which is all that stops the loops when the application   *)
(* goes. What one loop and its runs do in detail, pausing, manual runs and *)
(* the policies, is JobEntry; here a firing starts a run or is skipped,    *)
(* and jitter lets runs start in any order.                                *)
(***************************************************************************)
EXTENDS Integers, Sequences, SequencesExt, FiniteSets, FiniteSetsExt

CONSTANTS
    StaticLists,   \* candidates for JOBS: sequences of jobs as #[job] declares them
    Dynamic,       \* the jobs user code may schedule
    RecentCap,     \* RECENT_RUNS_CAP
    MaxJobs,       \* bound: entries ever made
    MaxJobRuns     \* bound: run ids ever allocated

(* A job as declared or scheduled: whether it is a #[job], which resolves its
   receiver from the root when it runs, its schedule, its overlap policy, the
   limits set on a run, and who holds the scheduler because of it: the closure
   it was made with ("closure"), a running body it is injected into ("body"), or
   nobody. *)
JobDescriptors ==
    [static : BOOLEAN, kind : STRING, raw : STRING, overlap : STRING,
     limits : SUBSET Nat, holds : STRING]

ASSUME SchedulerAssumption ==
    /\ StaticLists \subseteq Seq(JobDescriptors) /\ Dynamic \subseteq JobDescriptors
    /\ RecentCap \in Nat \ {0} /\ MaxJobs \in Nat /\ MaxJobRuns \in Nat

VARIABLES
    schOn,        \* there is a scheduler
    schStatics,   \* JOBS
    schStarting,  \* the static job start() is at; 0 when it has returned
    schHolders,   \* who holds an Arc<JobScheduler>: the root container, user code
    schJobs,      \* id -> entry, in the order of their ids
    schRegistry,  \* JobRegistry::entries
    schHandles,   \* the jobs whose JobHandle is kept
    schRuns,      \* run id -> job, phase and outcome
    schBegun      \* id -> the runs of the job in the order of record_start

schVars == <<schOn, schStatics, schStarting, schHolders, schJobs, schRegistry,
             schHandles, schRuns, schBegun>>

SchedulerEmpty ==
    /\ schJobs = <<>> /\ schRegistry = {} /\ schHandles = {}
    /\ schRuns = <<>> /\ schBegun = <<>>
SchedulerInit ==
    /\ schOn = TRUE /\ schStatics \in StaticLists /\ schStarting = 1
    /\ schHolders = {"container", "user"} /\ SchedulerEmpty
SchedulerOff ==
    /\ schOn = FALSE /\ schStatics = <<>> /\ schStarting = 0 /\ schHolders = {} /\ SchedulerEmpty

JobIds == DOMAIN schJobs
RunsOf(j) == {r \in DOMAIN schRuns : schRuns[r].job = j}
JobInFlight(j) == {r \in RunsOf(j) : schRuns[r].phase \notin {"over", "panicked"}}

(* An entry lives in the registry, in its loop, in its runs and in handles. *)
EntryAlive(j) ==
    \/ j \in schRegistry \/ j \in schHandles
    \/ schJobs[j].loop # "gone" \/ JobInFlight(j) # {}

(* A body that has the scheduler: captured, or injected from the root it found. *)
BodiesHolding == {r \in DOMAIN schRuns :
    /\ schRuns[r].phase = "body"
    /\ schJobs[schRuns[r].job].holds \in {"closure"} \cup (IF schRuns[r].root THEN {"body"} ELSE {})}

Held ==
    \/ schHolders # {} \/ BodiesHolding # {}
    \/ \E j \in JobIds : schJobs[j].holds = "closure" /\ EntryAlive(j)

\* Code that can call the scheduler's methods.
CanCall == "user" \in schHolders \/ BodiesHolding # {}

Unparsed == [kind |-> "error", value |-> "error"]

(* Schedule::parse: an interval that is no duration, a zero one, or a cron
   expression the parser rejects. A schedule built from a Duration may be zero. *)
parse(kind, raw) ==
    IF raw = "bad" \/ (kind = "interval" /\ raw = "zero") THEN Unparsed ELSE [kind |-> kind, value |-> raw]

(* compute_next: a zero interval and a cron expression without a further
   occurrence park the loop. *)
Occurs(schedule) == schedule.value \notin {"zero", "exhausted"}

(* Mutant of ChildToken: the job's token is not a child of the scheduler's. *)
OwnToken(j) == FALSE

(* Drop for JobScheduler, when nobody holds it any more (nobody can come to hold
   it again): the parent of every job's token is cancelled. *)
ChildToken(j) == ~Held

TokenCancelled(j) == schJobs[j].cancelled \/ ChildToken(j)

\* options.deadline(): the smaller of the two limits, if any.
deadline(options) == IF options.limits = {} THEN {} ELSE {Min(options.limits)}

NewEntry(schedule, job) ==
    [schedule |-> schedule, static |-> job.static, overlap |-> job.overlap,
     limits |-> job.limits, holds |-> job.holds,
     cancelled |-> FALSE, loop |-> "driving", active |-> 0,
     runCount |-> 0, failures |-> 0, skipped |-> 0, last |-> <<>>, recent |-> <<>>]

(* spawn: the entry is registered before its loop runs. *)
spawn(schedule, job) ==
    /\ Len(schJobs) < MaxJobs
    /\ schJobs' = Append(schJobs, NewEntry(schedule, job))
    /\ schRegistry' = schRegistry \cup {Len(schJobs) + 1}
    /\ schBegun' = Append(schBegun, <<>>)

(* start: one static job after the other; the first whose schedule does not
   parse fails the start-up hook, and the jobs before it keep running. *)
StartStatic ==
    /\ schStarting \in DOMAIN schStatics /\ "container" \in schHolders
    /\ LET job == schStatics[schStarting]
           schedule == parse(job.kind, job.raw)
       IN \/ /\ schedule # Unparsed /\ spawn(schedule, job)
             /\ schStarting' = IF schStarting = Len(schStatics) THEN 0 ELSE schStarting + 1
          \/ /\ schedule = Unparsed /\ schStarting' = 0
             /\ UNCHANGED <<schJobs, schRegistry, schBegun>>
    /\ UNCHANGED <<schOn, schStatics, schHolders, schHandles, schRuns>>

(* schedule_with, from user code; the caller may keep the handle. *)
schedule_with(job) ==
    /\ CanCall /\ spawn([kind |-> job.kind, value |-> job.raw], job)
    /\ schHandles' \in {schHandles, schHandles \cup {Len(schJobs) + 1}}
    /\ UNCHANGED <<schOn, schStatics, schStarting, schHolders, schRuns>>

DropJobHandle(j) ==
    /\ j \in schHandles /\ schHandles' = schHandles \ {j}
    /\ UNCHANGED <<schOn, schStatics, schStarting, schHolders, schJobs, schRegistry,
                   schRuns, schBegun>>

(* begin_cancel, through the handle or by the id of a registered job. *)
CancelJob(j) ==
    /\ j \in schHandles \/ (CanCall /\ j \in schRegistry)
    /\ ~schJobs[j].cancelled
    /\ schJobs' = [schJobs EXCEPT ![j].cancelled = TRUE]
    /\ UNCHANGED <<schOn, schStatics, schStarting, schHolders, schRegistry, schHandles,
                   schRuns, schBegun>>
-----------------------------------------------------------------------------
(* The loop's timer fires: maybe_start_run takes a run id either way. *)
FireJob(j) ==
    /\ schJobs[j].loop = "driving" /\ ~TokenCancelled(j) /\ Occurs(schJobs[j].schedule)
    /\ Len(schRuns) < MaxJobRuns
    /\ LET skips == schJobs[j].overlap = "Skip" /\ schJobs[j].active > 0 IN
        /\ schRuns' = Append(schRuns, [job |-> j, phase |-> IF skips THEN "over" ELSE "jitter",
                                       outcome |-> IF skips THEN "Skipped" ELSE "Running",
                                       root |-> FALSE])
        /\ schJobs' = IF skips THEN [schJobs EXCEPT ![j].skipped = @ + 1]
                               ELSE [schJobs EXCEPT ![j].active = @ + 1]
    /\ UNCHANGED <<schOn, schStatics, schStarting, schHolders, schRegistry, schHandles,
                   schBegun>>

(* A cancelled loop marks the entry cancelled, then leaves the registry. *)
LoopEnds(j) ==
    /\ schJobs[j].loop = "driving" /\ TokenCancelled(j)
    /\ schJobs' = [schJobs EXCEPT ![j].loop = "done"]
    /\ UNCHANGED <<schOn, schStatics, schStarting, schHolders, schRegistry, schHandles,
                   schRuns, schBegun>>

LoopRemoves(j) ==
    /\ schJobs[j].loop = "done"
    /\ schJobs' = [schJobs EXCEPT ![j].loop = "gone"]
    /\ schRegistry' = schRegistry \ {j}
    /\ UNCHANGED <<schOn, schStatics, schStarting, schHolders, schHandles, schRuns,
                   schBegun>>

Summary(r, outcome) == [run |-> r, outcome |-> outcome]

\* The newest RecentCap summaries.
Capped(recent) == SubSeq(recent, Max({1, Len(recent) - RecentCap + 1}), Len(recent))

(* record_start, once the jitter is over; then the body looks for the root. *)
record_start(r) ==
    LET j == schRuns[r].job
        summary == Summary(r, "Running")
    IN /\ schRuns[r].phase = "jitter"
       /\ schRuns' = [schRuns EXCEPT ![r].phase = "body", ![r].root = "container" \in schHolders]
       /\ schJobs' = [schJobs EXCEPT ![j].last = <<summary>>,
                                     ![j].recent = Capped(Append(@, summary))]
       /\ schBegun' = [schBegun EXCEPT ![j] = Append(@, r)]
       /\ UNCHANGED <<schOn, schStatics, schStarting, schHolders, schRegistry, schHandles>>

(* Mutant of Finalized: the newest summary is taken to be the run's. *)
NewestFinalized(summaries, r, outcome) ==
    [i \in DOMAIN summaries |->
        IF i = Len(summaries) THEN Summary(summaries[i].run, outcome) ELSE summaries[i]]

\* finalize: only the summary of that run, which may have been evicted.
Finalized(summaries, r, outcome) ==
    [i \in DOMAIN summaries |-> IF summaries[i].run = r THEN Summary(r, outcome) ELSE summaries[i]]

(* record_finish, with what run_body returned: the body's result, or the end
   forced on it by its token or its deadline. *)
record_finish(r, outcome) ==
    LET j == schRuns[r].job
    IN /\ schRuns[r].phase = "body"
       /\ outcome = "Cancelled" => TokenCancelled(j)
       /\ schJobs[j].static /\ ~schRuns[r].root => outcome \in {"Failed", "Cancelled"}
       /\ outcome = "TimedOut" => deadline(schJobs[j]) # {}
       /\ schRuns' = [schRuns EXCEPT ![r].phase = "recorded", ![r].outcome = outcome]
       /\ schJobs' = [schJobs EXCEPT
            ![j].runCount = @ + 1,
            ![j].failures = IF outcome \in {"Failed", "TimedOut"} THEN @ + 1 ELSE @,
            ![j].last = Finalized(@, r, outcome),
            ![j].recent = Finalized(@, r, outcome)]
       /\ UNCHANGED <<schOn, schStatics, schStarting, schHolders, schRegistry, schHandles,
                      schBegun>>

(* The body panics: the run's task unwinds past record_finish and exit_run, so the
   summary goes on saying Running and the run stays counted as active. *)
BodyPanics(r) ==
    /\ schRuns[r].phase = "body"
    /\ schJobs[schRuns[r].job].static => schRuns[r].root
    /\ schRuns' = [schRuns EXCEPT ![r].phase = "panicked"]
    /\ UNCHANGED <<schOn, schStatics, schStarting, schHolders, schJobs, schRegistry, schHandles,
                   schBegun>>

exit_run(r) ==
    /\ schRuns[r].phase = "recorded"
    /\ schRuns' = [schRuns EXCEPT ![r].phase = "over"]
    /\ schJobs' = [schJobs EXCEPT ![schRuns[r].job].active = @ - 1]
    /\ UNCHANGED <<schOn, schStatics, schStarting, schHolders, schRegistry, schHandles,
                   schBegun>>
-----------------------------------------------------------------------------
(* The application ends, or user code gives its handle to the scheduler up. *)
Release(holder) ==
    /\ holder \in schHolders /\ schHolders' = schHolders \ {holder}
    /\ UNCHANGED <<schOn, schStatics, schStarting, schJobs, schRegistry, schHandles,
                   schRuns, schBegun>>

Outcomes == {"Success", "Failed", "TimedOut", "Cancelled"}

SchedulerNext ==
    /\ schOn
    /\ \/ StartStatic
       \/ \E job \in Dynamic : schedule_with(job)
       \/ \E j \in JobIds : DropJobHandle(j) \/ CancelJob(j) \/ FireJob(j) \/ LoopEnds(j) \/ LoopRemoves(j)
       \/ \E r \in DOMAIN schRuns : \/ record_start(r) \/ BodyPanics(r) \/ exit_run(r)
                                    \/ \E outcome \in Outcomes : record_finish(r, outcome)
       \/ \E holder \in {"container", "user"} : Release(holder)

SchedulerSpec == SchedulerInit /\ [][SchedulerNext]_schVars

(* Loops and runs are woken by their tokens; a body ends by its token only (it may
   return or panic, but need not). *)
SchedulerFairness ==
    /\ \A j \in 1..MaxJobs : WF_schVars(j \in JobIds /\ (LoopEnds(j) \/ LoopRemoves(j)))
    /\ \A r \in 1..MaxJobRuns : WF_schVars(r \in DOMAIN schRuns
            /\ (record_start(r) \/ exit_run(r) \/ record_finish(r, "Cancelled")))
-----------------------------------------------------------------------------
Finished(j) == {r \in RunsOf(j) : schRuns[r].outcome \notin {"Running", "Skipped"}}
Shown(r) == Summary(r, schRuns[r].outcome)
Unexited(j) == {r \in RunsOf(j) : schRuns[r].phase # "over"}

(* However many runs overlap, finish out of order or are evicted meanwhile, the
   history of a job is its latest starts, each with the outcome of that very run,
   the last run is the one that started last, and the counters count what ended
   (record_start, record_finish, which metrics and recent_runs read). A run whose body
   panicked never reaches record_finish and exit_run: its own summary stays Running and
   it stays in active for ever, and nothing else is disturbed. *)
HistoryAgrees ==
    \A j \in JobIds :
        LET begun == schBegun[j]
            kept == Min({RecentCap, Len(begun)})
        IN /\ schJobs[j].recent = [i \in 1..kept |-> Shown(begun[Len(begun) - kept + i])]
           /\ schJobs[j].last = IF begun = <<>> THEN <<>> ELSE <<Shown(Last(begun))>>
           /\ schJobs[j].runCount = Cardinality(Finished(j))
           /\ schJobs[j].active = Cardinality(Unexited(j))

(* Once nobody holds the scheduler, every loop ends, leaves the registry, and
   every run is over or has panicked: also the static jobs of a start that failed half way, and
   bodies that never return. Dropping the root container is not enough by itself:
   a job whose closure, or whose running body, holds the scheduler keeps it and
   all the other loops alive (Drop for JobScheduler). *)
DropStopsAll ==
    ~Held ~> /\ schRegistry = {}
             /\ \A j \in JobIds : schJobs[j].loop = "gone" /\ JobInFlight(j) = {}
=============================================================================
