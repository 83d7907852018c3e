------------------------------ MODULE JobEntry ------------------------------
(***************************************************************************)
(* One scheduled job of overseerd-jobs: the Arc<JobEntry> that the         *)
(* registry, the driver loop drive_job, the run tasks execute_run and the  *)
(* callers of JobScheduler share.                                          *)
(*                                                                         *)
(* The loop is one task, every run is a task, every caller is a task of    *)
(* its own; on a multi-threaded runtime their steps interleave.  A step is *)
(* one critical section (one mutex, one atomic, one notify).  Sections of  *)
(* one task are joined only where no other task can tell the difference,   *)
(* and the comment on the action says so.                                  *)
(*                                                                         *)
(* Time is abstracted: a timer that is due may fire at any moment, so a    *)
(* schedule is only told apart by whether it has a next occurrence.        *)
(***************************************************************************)
EXTENDS Integers, Sequences, FiniteSets

CONSTANTS
    Policies,      \* the overlap policies a job may be spawned with
    RunOnStartup,  \* JobOptions::run_on_startup
    HasDeadline,   \* whether JobOptions::deadline() is Some
    BodyResults,   \* how the job body may end by itself
    MayPanic,      \* whether the job body may panic
    Reporting,     \* the runs whose body reports progress
    Schedules,     \* the schedules a caller may install
    Firing,        \* those of them that have a next occurrence
    FirstSchedule, \* the schedule the job is spawned with
    Callers,       \* tasks that use the JobScheduler API
    MaxRuns,       \* bound: run ids the shared allocator hands out
    MaxCalls       \* bound: API calls made on a job, by its overlap policy

OverlapPolicy == {"Skip", "QueueOne", "Allow", "CancelPrevious"}

ASSUME JobAssumption ==
    /\ Policies \subseteq OverlapPolicy
    /\ RunOnStartup \in BOOLEAN
    /\ HasDeadline \in BOOLEAN
    /\ BodyResults \subseteq {"Success", "Failed"}
    /\ MayPanic \in BOOLEAN
    /\ Reporting \subseteq Nat
    /\ Firing \subseteq Schedules
    /\ FirstSchedule \in Schedules
    /\ MaxRuns \in Nat
    /\ \A p \in OverlapPolicy : MaxCalls[p] \in Nat

RunIds     == 1..MaxRuns
Outcomes   == {"Success", "Failed", "TimedOut", "Cancelled"}
NoRun      == 0
JobTrigger == {"Schedule", "Manual"}
JobState   == {"Scheduled", "Running", "Paused", "Cancelling", "Cancelled"}

\* A firing: the run id allocated for it and what caused it.
Firings  == [id : RunIds \cup {NoRun}, trigger : JobTrigger]
NoFiring == [id |-> NoRun, trigger |-> "Schedule"]

VARIABLES
    overlap,      \* the OverlapPolicy in the job's options, fixed when it is spawned
    \* --- JobEntry.shared, under its mutex
    state,        \* the JobState, without the id of Running
    stateRun,     \* the run id inside JobState::Running, NoRun otherwise
    paused,
    schedule,
    nextRunAt,    \* whether next_run_at is Some
    runCount, failureCount, skippedCount,
    \* --- the other fields of JobEntry
    progress,     \* the run whose report is in the progress slot
    wake,         \* whether Notify wake holds a permit
    triggered,    \* whether Notify triggered holds a permit
    manual,       \* the queue of manual run ids
    active,       \* the in-flight counter of the overlap guard
    pending,      \* the firing deferred under QueueOne
    runToken,     \* the run that owns the run_token slot
    runCancelled, \* runs whose own token was cancelled through that slot
    token,        \* whether the job's token is cancelled
    done,         \* whether the loop signalled its teardown
    \* --- JobScheduler
    registered,   \* whether the registry holds the entry
    dropped,      \* whether the scheduler was dropped
    nextRunId,    \* the shared run id allocator
    handed,       \* the run ids run_now returned to its callers
    \* --- the driver loop
    lpc,          \* where drive_job is
    fire,         \* the firing maybe_start_run works on
    todo,         \* manual ids taken from the queue and not yet fired
    next,         \* the schedule NextFire was computed from
    wall,         \* what as_wall_clock returned: is there a next run?
    \* --- the run tasks
    rpc,          \* where execute_run is, for each run id
    runTrigger,   \* the trigger the run was started with
    result,       \* the outcome run_body returned
    lastActive,   \* record_finish's last_active
    taken,        \* the deferred firing exit_run returned
    \* --- the callers
    caller,       \* what each API caller is doing
    calls         \* API calls made so far

shared  == <<state, stateRun, paused, schedule, nextRunAt, runCount, failureCount,
             skippedCount>>
guard   == <<active, pending, runToken, runCancelled>>
notify  == <<wake, triggered, manual>>
life    == <<token, done, registered, dropped>>
ids     == <<nextRunId, handed>>
loop    == <<lpc, fire, todo, next, wall>>
run     == <<rpc, runTrigger, result, lastActive, taken>>
client  == <<caller, calls>>
vars    == <<overlap, shared, progress, notify, guard, life, ids, loop, run, client>>

\* Where a run's task is between enter_run and the decrement of exit_run.
InFlightPhase == {"spawned", "body", "finRead", "finProgress", "finShared",
                  "clearToken", "exit"}
RunPhase      == InFlightPhase \cup {"idle", "takePending", "restart", "startDeferred",
                                    "ended", "panicked"}
LoopPhase     == {"init", "compute", "top", "publish", "select", "drain", "checkPaused",
                  "maybe", "skip", "defer", "cancelPrev", "start",
                  "signal", "unregister", "stopped"}
CallerPhase   == {"idle", "entry", "notifyWake", "notifyRun", "cancel", "cancelWait", "waiting"}

InFlight == {r \in RunIds : rpc[r] \in InFlightPhase}
Started  == {r \in RunIds : rpc[r] # "idle"}

OwnTokenOnly(r) == r \in runCancelled

\* A run token is a child of the job's token.
RunTokenCancelled(r) == token \/ r \in runCancelled

-----------------------------------------------------------------------------
Init ==
    /\ overlap \in Policies
    /\ state = "Scheduled" /\ stateRun = NoRun /\ paused = FALSE
    /\ schedule = FirstSchedule /\ nextRunAt = FALSE
    /\ runCount = 0 /\ failureCount = 0 /\ skippedCount = 0
    /\ progress = NoRun
    /\ wake = FALSE /\ triggered = FALSE /\ manual = <<>>
    /\ active = 0 /\ pending = NoFiring /\ runToken = NoRun /\ runCancelled = {}
    /\ token = FALSE /\ done = FALSE /\ registered = TRUE /\ dropped = FALSE
    /\ nextRunId = 1 /\ handed = {}
    /\ lpc = "init" /\ fire = NoFiring /\ todo = <<>>
    /\ next = FirstSchedule /\ wall = FALSE
    /\ rpc = [r \in RunIds |-> "idle"]
    /\ runTrigger = [r \in RunIds |-> "Schedule"]
    /\ result = [r \in RunIds |-> "None"]
    /\ lastActive = [r \in RunIds |-> FALSE]
    /\ taken = [r \in RunIds |-> NoFiring]
    /\ caller = [c \in Callers |-> "idle"] /\ calls = 0

-----------------------------------------------------------------------------
(* start_run: enter_run, the CancelPrevious token, and the spawn.  Joined:  *)
(* only the task that starts a run reads the slot before the new run does.  *)

\* enter_run.
EnterRun == active + 1

StartRun(f) ==
    /\ active' = EnterRun
    /\ runToken' = IF overlap = "CancelPrevious" THEN f.id ELSE runToken
    /\ runTrigger' = [runTrigger EXCEPT ![f.id] = f.trigger]

-----------------------------------------------------------------------------
(* The driver loop.                                                         *)

\* A scheduled firing: the run id is allocated where the firing is decided.
ScheduledFiring ==
    /\ fire' = [id |-> nextRunId, trigger |-> "Schedule"]
    /\ nextRunId' = nextRunId + 1
    /\ lpc' = "maybe"
    /\ UNCHANGED handed

\* drive_job before the loop: the optional start-up run.
LoopInit ==
    /\ lpc = "init"
    /\ \/ RunOnStartup /\ ~token /\ nextRunId <= MaxRuns /\ ScheduledFiring
       \/ (~RunOnStartup \/ token \/ nextRunId > MaxRuns) /\ lpc' = "compute"
          /\ UNCHANGED <<fire, ids>>
    /\ UNCHANGED <<shared, overlap, progress, notify, guard, life, todo, next, wall,
                   run, client>>

\* compute_next reads the current schedule.
LoopCompute ==
    /\ lpc = "compute"
    /\ next' = schedule
    /\ lpc' = "top"
    /\ UNCHANGED <<shared, overlap, progress, notify, guard, life, ids, fire, todo,
                   wall, run, client>>

\* as_wall_clock: None when the job is paused or has no next occurrence.
LoopTop ==
    /\ lpc = "top"
    /\ wall' = (~paused /\ next \in Firing)
    /\ lpc' = "publish"
    /\ UNCHANGED <<shared, overlap, progress, notify, guard, life, ids, fire, todo,
                   next, run, client>>

\* set_next_run_at.
LoopPublish ==
    /\ lpc = "publish"
    /\ nextRunAt' = wall
    /\ lpc' = "select"
    /\ UNCHANGED <<state, stateRun, paused, schedule, runCount, failureCount,
                   skippedCount, overlap, progress, notify, guard, life, ids, fire,
                   todo, next, wall, run, client>>

\* select!, branch 1: the token is cancelled; mark_cancelled on the way out.
LoopExit ==
    /\ lpc = "select"
    /\ token
    /\ state' = "Cancelled" /\ stateRun' = NoRun
    /\ lpc' = "signal"
    /\ UNCHANGED <<paused, schedule, nextRunAt, runCount, failureCount, skippedCount,
                   overlap, progress, notify, guard, life, ids, fire, todo, next, wall,
                   run, client>>

\* The end of mark_cancelled: done is signalled.
LoopSignal ==
    /\ lpc = "signal"
    /\ done' = TRUE
    /\ lpc' = "unregister"
    /\ UNCHANGED <<shared, overlap, progress, notify, guard, token, registered, dropped,
                   ids, fire, todo, next, wall, run, client>>

\* on_exit: registry.remove.
LoopUnregister ==
    /\ lpc = "unregister"
    /\ registered' = FALSE
    /\ lpc' = "stopped"
    /\ UNCHANGED <<shared, overlap, progress, notify, guard, token, done, dropped, ids,
                   fire, todo, next, wall, run, client>>

\* select!, branch 2: woken by pause, resume or reschedule.
LoopWoken ==
    /\ lpc = "select"
    /\ ~token /\ wake
    /\ wake' = FALSE
    /\ lpc' = "compute"
    /\ UNCHANGED <<shared, overlap, progress, triggered, manual, guard, life, ids, fire,
                   todo, next, wall, run, client>>

\* select!, branch 3: the permit of a manual run is consumed ...
LoopTriggered ==
    /\ lpc = "select"
    /\ ~token /\ ~wake /\ triggered
    /\ triggered' = FALSE
    /\ lpc' = "drain"
    /\ UNCHANGED <<shared, overlap, progress, wake, manual, guard, life, ids, fire,
                   todo, next, wall, run, client>>

ManualUndrained == manual

\* Mutated: only the id that is fired first leaves the queue.
ManualLessOne == IF manual = <<>> THEN <<>> ELSE Tail(manual)

ManualDrained == <<>>

\* ... and take_manual drains the queue: one maybe_start_run per id.  The
\* queue may be empty: an id pushed before the last drain leaves its permit.
TakeManual ==
    /\ lpc = "drain"
    /\ manual' = ManualDrained
    /\ \/ manual = <<>> /\ lpc' = "top" /\ UNCHANGED <<fire, todo>>
       \/ /\ manual # <<>>
          /\ fire' = [id |-> Head(manual), trigger |-> "Manual"]
          /\ todo' = Tail(manual)
          /\ lpc' = "maybe"
    /\ UNCHANGED <<shared, overlap, progress, wake, triggered, guard, life, ids, next,
                   wall, run, client>>

\* select!, branch 4: the timer fired.
LoopTimer ==
    /\ lpc = "select"
    /\ ~token /\ ~wake /\ ~triggered
    /\ next \in Firing
    /\ nextRunId <= MaxRuns
    /\ lpc' = "checkPaused"
    /\ UNCHANGED <<shared, overlap, progress, notify, guard, life, ids, fire, todo,
                   next, wall, run, client>>

\* is_paused, read once for the firing (a firing past the bound is dropped).
LoopCheckPaused ==
    /\ lpc = "checkPaused"
    /\ \/ ~paused /\ nextRunId <= MaxRuns /\ ScheduledFiring
       \/ (paused \/ nextRunId > MaxRuns) /\ lpc' = "compute" /\ UNCHANGED <<fire, ids>>
    /\ UNCHANGED <<shared, overlap, progress, notify, guard, life, todo, next, wall,
                   run, client>>

OnOverlapStart == "start"

\* What maybe_start_run does with a firing while a run is active.
OnOverlap == CASE overlap = "Skip"           -> "skip"
               [] overlap = "QueueOne"       -> "defer"
               [] overlap = "CancelPrevious" -> "cancelPrev"
               [] overlap = "Allow"          -> "start"

\* maybe_start_run reads the in-flight counter and applies the policy.
MaybeStartRun ==
    /\ lpc = "maybe"
    /\ lpc' = IF active > 0 THEN OnOverlap ELSE "start"
    /\ UNCHANGED <<shared, overlap, progress, notify, guard, life, ids, fire, todo,
                   next, wall, run, client>>

\* The end of one maybe_start_run: the next manual id, or back to the loop
\* (only the timer branch and the start-up run recompute NextFire).
NextFiring ==
    IF todo # <<>>
    THEN /\ fire' = [id |-> Head(todo), trigger |-> "Manual"]
         /\ todo' = Tail(todo)
         /\ lpc' = "maybe"
    ELSE /\ fire' = NoFiring
         /\ UNCHANGED todo
         /\ lpc' = IF fire.trigger = "Manual" THEN "top" ELSE "compute"

\* record_skipped.
LoopSkip ==
    /\ lpc = "skip"
    /\ skippedCount' = skippedCount + 1
    /\ NextFiring
    /\ UNCHANGED <<state, stateRun, paused, schedule, nextRunAt, runCount, failureCount,
                   overlap, progress, notify, guard, life, ids, next, wall, run,
                   client>>

\* mark_pending: at most one firing is deferred, a later one is dropped.
Defer == IF pending = NoFiring THEN fire ELSE pending

MarkPending ==
    /\ lpc = "defer"
    /\ pending' = Defer
    /\ NextFiring
    /\ UNCHANGED <<shared, overlap, progress, notify, active, runToken, runCancelled,
                   life, ids, next, wall, run, client>>

\* cancel_active_run.
CancelActiveRun ==
    /\ lpc = "cancelPrev"
    /\ runCancelled' = runCancelled \cup ({runToken} \ {NoRun})
    /\ lpc' = "start"
    /\ UNCHANGED <<shared, overlap, progress, notify, active, pending, runToken, life,
                   ids, fire, todo, next, wall, run, client>>

LoopStart ==
    /\ lpc = "start"
    /\ StartRun(fire)
    /\ rpc' = [rpc EXCEPT ![fire.id] = "spawned"]
    /\ NextFiring
    /\ UNCHANGED <<shared, overlap, progress, notify, pending, runCancelled, life, ids,
                   next, wall, result, lastActive, taken, client>>

Loop == \/ LoopInit \/ LoopCompute \/ LoopTop \/ LoopPublish
        \/ LoopExit \/ LoopSignal \/ LoopUnregister
        \/ LoopWoken \/ LoopTriggered \/ TakeManual \/ LoopTimer \/ LoopCheckPaused
        \/ MaybeStartRun \/ LoopSkip \/ MarkPending \/ CancelActiveRun \/ LoopStart

-----------------------------------------------------------------------------
(* execute_run, the task of run r.                                          *)

Goto(r, phase) == rpc' = [rpc EXCEPT ![r] = phase]

Cancelling == state \in {"Cancelling", "Cancelled"}

\* record_start (after the jitter): clear the progress slot, then publish the
\* run.  Joined: no step of another run depends on the slot in between.
RecordStart(r) ==
    /\ rpc[r] = "spawned"
    /\ progress' = NoRun
    /\ state' = IF Cancelling THEN state ELSE "Running"
    /\ stateRun' = IF Cancelling THEN stateRun ELSE r
    /\ Goto(r, "body")
    /\ UNCHANGED <<overlap, paused, schedule, nextRunAt, runCount, failureCount,
                   skippedCount, notify, guard, life, ids, loop, runTrigger, result,
                   lastActive, taken, client>>

\* JobRunContext::progress, called by the body.
ReportProgress(r) ==
    /\ rpc[r] = "body"
    /\ r \in Reporting
    /\ progress # r
    /\ progress' = r
    /\ UNCHANGED <<overlap, shared, notify, guard, life, ids, loop, run, client>>

\* run_body returns o.
BodyReturns(r, o) ==
    /\ rpc[r] = "body"
    /\ result' = [result EXCEPT ![r] = o]
    /\ Goto(r, "finRead")
    /\ UNCHANGED <<shared, overlap, progress, notify, guard, life, ids, loop,
                   runTrigger, lastActive, taken, client>>

BodyEnds(r)      == \E o \in BodyResults : BodyReturns(r, o)
BodyCancelled(r) == RunTokenCancelled(r) /\ BodyReturns(r, "Cancelled")
BodyTimedOut(r)  == HasDeadline /\ BodyReturns(r, "TimedOut")

\* The body panics: the task unwinds and nothing after run_body happens.
BodyPanics(r) ==
    /\ MayPanic
    /\ rpc[r] = "body"
    /\ Goto(r, "panicked")
    /\ UNCHANGED <<shared, overlap, progress, notify, guard, life, ids, loop,
                   runTrigger, result, lastActive, taken, client>>

\* Called before exit_run decrements the counter.
LastInFlight == active <= 1

\* record_finish, first step: is this the last run in flight?
FinishRead(r) ==
    /\ rpc[r] = "finRead"
    /\ lastActive' = [lastActive EXCEPT ![r] = LastInFlight]
    /\ Goto(r, "finProgress")
    /\ UNCHANGED <<shared, overlap, progress, notify, guard, life, ids, loop,
                   runTrigger, result, taken, client>>

\* The last run clears the progress slot.
ProgressAfter(r) == IF lastActive[r] THEN NoRun ELSE progress

\* record_finish, second step.
FinishProgress(r) ==
    /\ rpc[r] = "finProgress"
    /\ progress' = ProgressAfter(r)
    /\ Goto(r, "finShared")
    /\ UNCHANGED <<overlap, shared, notify, guard, life, ids, loop, runTrigger, result,
                   lastActive, taken, client>>

StateAfterIgnoresPause == "Scheduled"

StateAfterRun == IF paused THEN "Paused" ELSE "Scheduled"

SettlesAlways(r) == lastActive[r]

\* Whether the end of run r changes the job's state.
Settles(r) == ~Cancelling /\ lastActive[r]

\* record_finish, under the lock: the counters and the job's state.  (The run's
\* summary is not kept: nothing but introspection reads it again.)
FinishShared(r) ==
    /\ rpc[r] = "finShared"
    /\ runCount' = runCount + 1
    /\ failureCount' = IF result[r] \in {"Failed", "TimedOut"}
                       THEN failureCount + 1 ELSE failureCount
    /\ result' = [result EXCEPT ![r] = "None"]
    /\ lastActive' = [lastActive EXCEPT ![r] = FALSE]
    /\ IF Settles(r)
       THEN /\ state' = StateAfterRun
            /\ stateRun' = NoRun
       ELSE UNCHANGED <<state, stateRun>>
    /\ Goto(r, "clearToken")
    /\ UNCHANGED <<paused, schedule, nextRunAt, skippedCount, overlap, progress, notify,
                   guard, life, ids, loop, runTrigger, taken, client>>

ClearAny(r) == NoRun

\* clear_run_token: only the owner clears the slot.
ClearIfOwner(r) == IF runToken = r THEN NoRun ELSE runToken

ClearRunToken(r) ==
    /\ rpc[r] = "clearToken"
    /\ runToken' = ClearIfOwner(r)
    /\ Goto(r, "exit")
    /\ UNCHANGED <<shared, overlap, progress, notify, active, pending, runCancelled,
                   life, ids, loop, runTrigger, result, lastActive, taken, client>>

\* exit_run, first step: the in-flight counter.
ExitRun(r) ==
    /\ rpc[r] = "exit"
    /\ active' = active - 1
    /\ Goto(r, "takePending")
    /\ UNCHANGED <<shared, overlap, progress, notify, pending, runToken, runCancelled,
                   life, ids, loop, runTrigger, result, lastActive, taken, client>>

\* Option::take leaves nothing behind.
PendingAfterTake == NoFiring

\* exit_run, second step: take the deferred firing; without one the run is over.
TakePending(r) ==
    /\ rpc[r] = "takePending"
    /\ taken' = [taken EXCEPT ![r] = pending]
    /\ pending' = PendingAfterTake
    /\ Goto(r, IF pending = NoFiring THEN "ended" ELSE "restart")
    /\ UNCHANGED <<shared, overlap, progress, notify, active, runToken, runCancelled,
                   life, ids, loop, runTrigger, result, lastActive, client>>

\* A deferred firing starts unless the job was cancelled meanwhile.
Restarts(r) == taken[r] # NoFiring /\ ~token

CheckRestart(r) ==
    /\ rpc[r] = "restart"
    /\ Restarts(r)
    /\ Goto(r, "startDeferred")
    /\ UNCHANGED <<shared, overlap, progress, notify, guard, life, ids, loop,
                   runTrigger, result, lastActive, taken, client>>

\* The job may be cancelled between the check and the start.
StartDeferred(r) ==
    /\ rpc[r] = "startDeferred"
    /\ StartRun(taken[r])
    /\ rpc' = [rpc EXCEPT ![r] = "ended", ![taken[r].id] = "spawned"]
    /\ taken' = [taken EXCEPT ![r] = NoFiring]
    /\ UNCHANGED <<shared, overlap, progress, notify, pending, runCancelled, life, ids,
                   loop, result, lastActive, client>>

\* The job was cancelled: the deferred firing is lost.
EndRun(r) ==
    /\ rpc[r] = "restart"
    /\ ~Restarts(r)
    /\ taken' = [taken EXCEPT ![r] = NoFiring]
    /\ Goto(r, "ended")
    /\ UNCHANGED <<shared, overlap, progress, notify, guard, life, ids, loop,
                   runTrigger, result, lastActive, client>>

\* The steps of a run's task that only wait for the task to be polled.
RunStep(r) == \/ RecordStart(r) \/ BodyCancelled(r) \/ BodyTimedOut(r)
              \/ FinishRead(r) \/ FinishProgress(r) \/ FinishShared(r) \/ ClearRunToken(r)
              \/ ExitRun(r) \/ TakePending(r) \/ CheckRestart(r)
              \/ StartDeferred(r) \/ EndRun(r)

Body(r) == ReportProgress(r) \/ BodyEnds(r) \/ BodyPanics(r)

-----------------------------------------------------------------------------
(* The callers of JobScheduler and JobHandle.                               *)

CallerGoes(c, phase) ==
    /\ caller' = [caller EXCEPT ![c] = phase]
    /\ UNCHANGED calls

\* registry.get: the caller holds the Arc<JobEntry> from here on.
Lookup(c) ==
    /\ caller[c] = "idle"
    /\ calls < MaxCalls[overlap]
    /\ registered /\ ~dropped
    /\ caller' = [caller EXCEPT ![c] = "entry"]
    /\ calls' = calls + 1
    /\ UNCHANGED <<shared, overlap, progress, notify, guard, life, ids, loop, run>>

SetPaused(flag, from, to) ==
    /\ paused' = flag
    /\ state' = IF state = from THEN to ELSE state
    /\ UNCHANGED <<stateRun, schedule, nextRunAt, runCount, failureCount, skippedCount>>

Pause(c) ==
    /\ caller[c] = "entry"
    /\ \/ paused /\ CallerGoes(c, "idle") /\ UNCHANGED shared
       \/ ~paused /\ SetPaused(TRUE, "Scheduled", "Paused") /\ CallerGoes(c, "notifyWake")
    /\ UNCHANGED <<overlap, progress, notify, guard, life, ids, loop, run>>

Resume(c) ==
    /\ caller[c] = "entry"
    /\ \/ ~paused /\ CallerGoes(c, "idle") /\ UNCHANGED shared
       \/ paused /\ SetPaused(FALSE, "Paused", "Scheduled") /\ CallerGoes(c, "notifyWake")
    /\ UNCHANGED <<overlap, progress, notify, guard, life, ids, loop, run>>

Reschedule(c) ==
    /\ caller[c] = "entry"
    /\ \E s \in Schedules : schedule' = s
    /\ CallerGoes(c, "notifyWake")
    /\ UNCHANGED <<state, stateRun, paused, nextRunAt, runCount, failureCount,
                   skippedCount, overlap, progress, notify, guard, life, ids, loop,
                   run>>

\* Notify::notify_one stores a permit the next notified() consumes.
StoresPermit == TRUE

\* wake.notify_one, after the lock is released.
NotifyWake(c) ==
    /\ caller[c] = "notifyWake"
    /\ wake' = StoresPermit
    /\ CallerGoes(c, "idle")
    /\ UNCHANGED <<shared, overlap, progress, triggered, manual, guard, life, ids, loop,
                   run>>

\* run_now, run_named: trigger_manual allocates the id and queues it ...
RunNow(c) ==
    /\ caller[c] = "entry"
    /\ nextRunId <= MaxRuns
    /\ manual' = Append(manual, nextRunId)
    /\ handed' = handed \cup {nextRunId}
    /\ nextRunId' = nextRunId + 1
    /\ CallerGoes(c, "notifyRun")
    /\ UNCHANGED <<shared, overlap, progress, wake, triggered, guard, life, loop, run>>

\* ... and notifies the loop.
NotifyTriggered(c) ==
    /\ caller[c] = "notifyRun"
    /\ triggered' = StoresPermit
    /\ CallerGoes(c, "idle")
    /\ UNCHANGED <<shared, overlap, progress, wake, manual, guard, life, ids, loop,
                   run>>

\* begin_cancel, under the lock.
BeginCancel ==
    /\ state' = "Cancelling" /\ stateRun' = NoRun
    /\ UNCHANGED <<paused, schedule, nextRunAt, runCount, failureCount, skippedCount,
                   overlap, progress, notify, guard, life, ids, loop, run>>

CancelAndWait(c) ==
    /\ caller[c] = "entry"
    /\ BeginCancel
    /\ CallerGoes(c, "cancelWait")

\* JobHandle::cancel: the handle holds the entry, registered or not.
HandleCancel(c) ==
    /\ caller[c] = "idle"
    /\ calls < MaxCalls[overlap]
    /\ BeginCancel
    /\ caller' = [caller EXCEPT ![c] = "cancel"]
    /\ calls' = calls + 1

\* begin_cancel cancels the job's token.
TokenCancelled == TRUE

\* begin_cancel, second step: the token.
CancelToken(c) ==
    /\ caller[c] \in {"cancel", "cancelWait"}
    /\ token' = TokenCancelled
    /\ CallerGoes(c, IF caller[c] = "cancel" THEN "idle" ELSE "waiting")
    /\ UNCHANGED <<shared, overlap, progress, notify, guard, done, registered, dropped,
                   ids, loop, run>>

\* wait_done resolves and cancel_and_wait returns.
CancelReturns(c) ==
    /\ caller[c] = "waiting"
    /\ done
    /\ CallerGoes(c, "idle")
    /\ UNCHANGED <<shared, overlap, progress, notify, guard, life, ids, loop, run>>

\* The scheduler is dropped: no call through it is in progress.
DropScheduler ==
    /\ ~dropped
    /\ \A c \in Callers : caller[c] \in {"idle", "cancel"}
    /\ dropped' = TRUE
    /\ token' = TRUE
    /\ UNCHANGED <<shared, overlap, progress, notify, guard, done, registered, ids,
                   loop, run, client>>

\* The calls a client chooses to make, and the steps that finish a call.
Call(c)       == \/ Lookup(c) \/ Pause(c) \/ Resume(c) \/ Reschedule(c) \/ RunNow(c)
                 \/ CancelAndWait(c) \/ HandleCancel(c)
CallReturn(c) == NotifyWake(c) \/ NotifyTriggered(c) \/ CancelToken(c) \/ CancelReturns(c)

Next == \/ Loop
        \/ \E r \in RunIds : RunStep(r) \/ Body(r)
        \/ \E c \in Callers : Call(c) \/ CallReturn(c)
        \/ DropScheduler

Spec == Init /\ [][Next]_vars

\* tokio polls every task that is ready: the loop, the run tasks and the
\* callers progress; a job body is only forced to end by its token or deadline.
Fairness == /\ WF_vars(Loop)
            /\ \A r \in RunIds : WF_vars(RunStep(r))
            /\ \A c \in Callers : WF_vars(CallReturn(c))

FairSpec == Spec /\ Fairness

-----------------------------------------------------------------------------
(* What the job promises.                                                   *)

SharedType ==
    /\ state \in JobState /\ stateRun \in RunIds \cup {NoRun}
    /\ paused \in BOOLEAN /\ schedule \in Schedules /\ nextRunAt \in BOOLEAN
    /\ runCount \in Nat /\ failureCount \in Nat /\ skippedCount \in Nat

NotifyType == wake \in BOOLEAN /\ triggered \in BOOLEAN /\ manual \in Seq(RunIds)

GuardType == /\ active \in Nat /\ pending \in Firings
             /\ runToken \in RunIds \cup {NoRun} /\ runCancelled \subseteq RunIds

LifeType == token \in BOOLEAN /\ done \in BOOLEAN /\ registered \in BOOLEAN /\ dropped \in BOOLEAN

IdsType == nextRunId \in 1..(MaxRuns + 1) /\ handed \subseteq RunIds

LoopType == /\ lpc \in LoopPhase /\ fire \in Firings /\ todo \in Seq(RunIds)
            /\ next \in Schedules /\ wall \in BOOLEAN

RunType == /\ rpc \in [RunIds -> RunPhase]
           /\ runTrigger \in [RunIds -> JobTrigger]
           /\ result \in [RunIds -> {"None"} \cup Outcomes]
           /\ lastActive \in [RunIds -> BOOLEAN]
           /\ taken \in [RunIds -> Firings]

ClientType == caller \in [Callers -> CallerPhase] /\ calls \in Nat

\* The state of one job and of its tasks is well formed; in particular exit_run
\* never takes the unsigned in-flight counter below zero.
TypeOK == /\ overlap \in OverlapPolicy /\ SharedType /\ progress \in RunIds \cup {NoRun}
          /\ NotifyType /\ GuardType /\ LifeType /\ IdsType
          /\ LoopType /\ RunType /\ ClientType

\* Skip never lets two runs overlap: the loop's read of the in-flight counter
\* and the enter_run that follows it are not atomic with the runs' exits.
SkipExclusive == overlap = "Skip" => \A r, s \in InFlight : r = s

\* The published state and the pause flag agree although a run may start or
\* finish between the pause and the loop's next look at the flag.
PausedAgrees == /\ state = "Scheduled" => ~paused
                /\ state = "Paused" => paused

Panicked  == {r \in RunIds : rpc[r] = "panicked"}
Uncounted == {r \in InFlight : rpc[r] \notin {"clearToken", "exit"}}

\* Every run id is accounted for once: the firing was counted as skipped, its run
\* completed, panicked or is in flight, or the id waits in a queue or in the loop.
\* (QueueOne drops a second firing without counting it.)  And under Skip, once no run is
\* in flight and none panicked, record_finish has taken the job out of Running and emptied
\* the progress slot, though it decides that before exit_run.
FiringsAccounted ==
    /\ overlap # "QueueOne" =>
        nextRunId - 1 = skippedCount + runCount
                        + Cardinality(Panicked) + Cardinality(Uncounted)
                        + Len(manual) + Len(todo) + (IF fire.id = NoRun THEN 0 ELSE 1)
    /\ overlap = "Skip" /\ InFlight = {} /\ Panicked = {} => state # "Running" /\ progress = NoRun

\* Under CancelPrevious at most one run still executes with a live token: an
\* older run that finishes late does not take the replacement's token along.
OneLiveRun ==
    overlap = "CancelPrevious" =>
        \A r, s \in RunIds : /\ rpc[r] \in {"spawned", "body"} /\ r \notin runCancelled
                             /\ rpc[s] \in {"spawned", "body"} /\ s \notin runCancelled
                             => r = s

\* The loop is past its last iteration.
LoopOver == lpc \in {"signal", "unregister", "stopped"}

\* A run that ends after the teardown does not bring the job back to life.
NotResurrected == LoopOver => Cancelling

InLoop(r) == r = fire.id \/ \E q \in {manual, todo} : \E i \in DOMAIN q : q[i] = r

\* No run id is started twice, whichever task starts it, and a run is manual exactly when
\* run_now handed its id out.
StartsOnce ==
    [][\A r \in RunIds : rpc[r] # "spawned" /\ rpc'[r] = "spawned"
                         => rpc[r] = "idle" /\ (runTrigger'[r] = "Manual" <=> r \in handed)]_vars

\* A firing that is still deferred when the token is cancelled never runs.
DeferredIsLost(r) == []((token /\ pending.id = r) => [](rpc[r] = "idle"))

\* What a control call asked for happens.  Unless the job is cancelled the loop takes up
\* every id run_now returned, even one queued while the loop was busy with another, and
\* starts it once, as a manual run; a pause that is left in place clears next_run_at for
\* good; and the last schedule installed is the one the loop waits for.
ControlsTakeEffect ==
    /\ \A r \in RunIds : (r \in handed) ~> (token \/ ~InLoop(r))
    /\ StartsOnce
    /\ (<>[]paused) => (<>token \/ <>[]~nextRunAt)
    /\ \A s \in Schedules : (<>[](schedule = s)) => (<>token \/ <>[](next = s))

\* A cancelled job winds down: its loop stops and leaves the registry, and every run
\* ends whose job is cancelled or which is replaced, though its body never returns.  A
\* firing that is still deferred when the token is cancelled never runs, although the run
\* that takes it up only ends later.
CancelWindsDown ==
    /\ state = "Cancelling" ~> lpc = "stopped" /\ ~registered
    /\ \A r \in RunIds : (r \in InFlight /\ (token \/ r \in runCancelled)) ~> (r \notin InFlight)
    /\ \A r \in RunIds : DeferredIsLost(r)
=============================================================================
