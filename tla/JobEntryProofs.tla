--------------------------- MODULE JobEntryProofs ---------------------------
(***************************************************************************)
(* Proofs about JobEntry, for every overlap policy, every number of runs   *)
(* and of callers, with and without panicking bodies.                      *)
(***************************************************************************)
EXTENDS JobEntry, FiniteSetTheorems, TLAPS

-----------------------------------------------------------------------------
(* The inductive invariant.                                                 *)

\* A firing in the loop's hands, deferred or taken has a run id.
FiringsNamed ==
    /\ lpc \in {"maybe", "skip", "defer", "cancelPrev", "start"} => fire.id \in RunIds
    /\ pending # NoFiring => pending.id \in RunIds
    /\ \A r \in RunIds : taken[r] # NoFiring => taken[r].id \in RunIds

\* The counter never misses a run (a panic may leave it too high), so exit_run
\* never underflows it.
CounterCovers == Cardinality(InFlight) <= active

\* Only QueueOne defers.
OnlyQueueOneDefers ==
    overlap # "QueueOne" => /\ lpc # "defer"
                            /\ pending = NoFiring
                            /\ \A r \in RunIds : taken[r] = NoFiring

\* A run about to start a deferred firing holds one.
RestartNamed == \A r \in RunIds : rpc[r] = "startDeferred" => taken[r] # NoFiring

JobInv == TypeOK /\ FiringsNamed /\ RestartNamed /\ CounterCovers /\ OnlyQueueOneDefers

\* Under Skip the loop starts a run only after it read an idle counter, and
\* nothing but the loop starts runs.
SkipInv == overlap = "Skip" => /\ lpc # "cancelPrev"
                               /\ lpc = "start" => active = 0
                               /\ \A r, s \in InFlight : r = s

\* Runs that still execute, whatever their token says.
Executing(r) == rpc[r] \in {"spawned", "body"}

\* Under CancelPrevious every executing run but the owner of the slot has been
\* cancelled, and before a start the owner has been too.
CancelPreviousInv ==
    overlap = "CancelPrevious" =>
        /\ \A r \in RunIds : Executing(r) => r = runToken \/ r \in runCancelled
        /\ lpc = "start" => \A r \in RunIds : Executing(r) => r \in runCancelled

USE JobAssumption

-----------------------------------------------------------------------------
(* Type correctness: the parts an action leaves alone, then every action.   *)

\* A part of the state that an action leaves alone keeps its type.
LEMMA TypeFrame ==
    ASSUME TypeOK
    PROVE  /\ UNCHANGED shared => SharedType'
           /\ UNCHANGED notify => NotifyType'
           /\ UNCHANGED guard => GuardType'
           /\ UNCHANGED life => LifeType'
           /\ UNCHANGED ids => IdsType'
           /\ UNCHANGED loop => LoopType'
           /\ UNCHANGED run => RunType'
           /\ UNCHANGED client => ClientType'
<1>1. UNCHANGED shared => SharedType'
  BY DEF TypeOK, SharedType, shared
<1>2. UNCHANGED notify => NotifyType'
  BY DEF TypeOK, NotifyType, notify
<1>3. UNCHANGED guard => GuardType'
  BY DEF TypeOK, GuardType, guard
<1>4. UNCHANGED life => LifeType'
  BY DEF TypeOK, LifeType, life
<1>5. UNCHANGED ids => IdsType'
  BY DEF TypeOK, IdsType, ids
<1>6. UNCHANGED loop => LoopType'
  BY DEF TypeOK, LoopType, loop
<1>7. UNCHANGED run => RunType'
  BY DEF TypeOK, RunType, run
<1>8. UNCHANGED client => ClientType'
  BY DEF TypeOK, ClientType, client
<1>q. QED
  BY <1>1, <1>2, <1>3, <1>4, <1>5, <1>6, <1>7, <1>8

\* No step changes the job's overlap policy.
LEMMA PolicyFixed == [Next]_vars => overlap' = overlap
<1> SUFFICES ASSUME [Next]_vars PROVE overlap' = overlap
  OBVIOUS
<1>1. ASSUME Loop PROVE overlap' = overlap
  BY <1>1 DEF Loop, LoopInit, LoopCompute, LoopTop, LoopPublish, LoopExit, LoopSignal,
     LoopUnregister, LoopWoken, LoopTriggered, TakeManual, LoopTimer, LoopCheckPaused,
     MaybeStartRun, LoopSkip, MarkPending, CancelActiveRun, LoopStart
<1>2. ASSUME NEW r \in RunIds, RunStep(r) \/ Body(r) PROVE overlap' = overlap
  BY <1>2 DEF RunStep, Body, RecordStart, ReportProgress, BodyEnds, BodyCancelled,
     BodyTimedOut, BodyReturns, BodyPanics, FinishRead, FinishProgress, FinishShared,
     ClearRunToken, ExitRun, TakePending, CheckRestart, StartDeferred, EndRun
<1>3. ASSUME NEW c \in Callers, Call(c) \/ CallReturn(c) PROVE overlap' = overlap
  BY <1>3 DEF Call, CallReturn, Lookup, Pause, Resume, Reschedule, RunNow, CancelAndWait,
     HandleCancel, NotifyWake, NotifyTriggered, CancelToken, CancelReturns, BeginCancel
<1>4. CASE DropScheduler \/ UNCHANGED vars
  BY <1>4 DEF DropScheduler, vars
<1>q. QED
  BY <1>1, <1>2, <1>3, <1>4 DEF Next

\* What Head and Tail of a queue are.
LEMMA HeadTail ==
    ASSUME NEW S, NEW q \in Seq(S), q # <<>>
    PROVE  Head(q) \in S /\ Tail(q) \in Seq(S)
  OBVIOUS

\* The end of a maybe_start_run keeps the loop's types.
LEMMA NextFiringType ==
    ASSUME LoopType, NextFiring, UNCHANGED <<next, wall>>
    PROVE  LoopType'
<1>1. CASE todo # <<>>
  <2>1. Head(todo) \in RunIds /\ Tail(todo) \in Seq(RunIds)
    BY <1>1, HeadTail DEF LoopType
  <2>q. QED
    BY <1>1, <2>1 DEF NextFiring, LoopType, LoopPhase, Firings, JobTrigger
<1>2. CASE todo = <<>>
  BY <1>2 DEF NextFiring, LoopType, LoopPhase, Firings, NoFiring, JobTrigger, NoRun
<1>q. QED
  BY <1>1, <1>2

\* So does the allocation of a scheduled firing's id.
LEMMA ScheduledFiringType ==
    ASSUME LoopType, IdsType, nextRunId <= MaxRuns, ScheduledFiring, UNCHANGED <<todo, next, wall>>
    PROVE  LoopType' /\ IdsType'
  BY DEF ScheduledFiring, LoopType, IdsType, LoopPhase, Firings, JobTrigger, RunIds

\* Each step of the driver loop.
LEMMA LoopTypes ==
    ASSUME TypeOK, FiringsNamed, Loop
    PROVE  TypeOK'
<1>f. lpc \in {"maybe", "skip", "defer", "cancelPrev", "start"} => fire.id \in RunIds
  BY DEF FiringsNamed
<1>1. CASE LoopInit
  <2>1. CASE nextRunId <= MaxRuns /\ ScheduledFiring
    BY <1>1, <2>1, TypeFrame, ScheduledFiringType DEF LoopInit, TypeOK, loop
  <2>2. CASE lpc' = "compute" /\ UNCHANGED <<fire, ids>>
    BY <1>1, <2>2, TypeFrame DEF LoopInit, TypeOK, LoopType, LoopPhase
  <2>q. QED
    BY <1>1, <2>1, <2>2 DEF LoopInit
<1>2. CASE LoopCompute
  BY <1>2, TypeFrame DEF LoopCompute, TypeOK, LoopType, SharedType, LoopPhase
<1>3. CASE LoopTop
  BY <1>3, TypeFrame DEF LoopTop, TypeOK, LoopType, LoopPhase, Firings, NoFiring,
       JobTrigger, RunIds, NoRun, loop
<1>4. CASE LoopPublish
  BY <1>4, TypeFrame DEF LoopPublish, TypeOK, SharedType, LoopType, JobState, RunIds, NoRun,
       LoopPhase, Firings, NoFiring, JobTrigger, shared, loop
<1>5. CASE LoopExit
  BY <1>5, TypeFrame DEF LoopExit, TypeOK, SharedType, LoopType, JobState, RunIds, NoRun,
       LoopPhase, Firings, NoFiring, JobTrigger, shared, loop
<1>6. CASE LoopSignal
  BY <1>6, TypeFrame DEF LoopSignal, TypeOK, LifeType, LoopType, LoopPhase, Firings,
       NoFiring, JobTrigger, RunIds, NoRun, life, loop
<1>7. CASE LoopUnregister
  BY <1>7, TypeFrame DEF LoopUnregister, TypeOK, LifeType, LoopType, LoopPhase, Firings,
       NoFiring, JobTrigger, RunIds, NoRun, life, loop
<1>8. CASE LoopWoken
  BY <1>8, TypeFrame DEF LoopWoken, TypeOK, NotifyType, LoopType, RunIds, LoopPhase,
       Firings, NoFiring, JobTrigger, NoRun, notify, loop
<1>9. CASE LoopTriggered
  BY <1>9, TypeFrame DEF LoopTriggered, TypeOK, NotifyType, LoopType, RunIds, LoopPhase,
       Firings, NoFiring, JobTrigger, NoRun, notify, loop
<1>10. CASE TakeManual
  <2>1. CASE manual = <<>>
    BY <1>10, <2>1, TypeFrame DEF TakeManual, ManualDrained, TypeOK, LoopType, NotifyType, LoopPhase
  <2>2. CASE manual # <<>>
    <3>1. Head(manual) \in RunIds /\ Tail(manual) \in Seq(RunIds)
      BY <2>2, HeadTail DEF TypeOK, NotifyType
    <3>2. LoopType'
      <4>1. /\ fire' = [id |-> Head(manual), trigger |-> "Manual"]
            /\ todo' = Tail(manual) /\ lpc' = "maybe" /\ UNCHANGED <<next, wall>>
        BY <1>10, <2>2 DEF TakeManual
      <4>q. QED
        BY <3>1, <4>1 DEF TypeOK, LoopType, LoopPhase, Firings, JobTrigger
    <3>3. NotifyType'
      BY <1>10 DEF TakeManual, ManualDrained, TypeOK, NotifyType
    <3>q. QED
      BY <1>10, <3>2, <3>3, TypeFrame DEF TakeManual, TypeOK
  <2>q. QED
    BY <2>1, <2>2
<1>11. CASE LoopTimer
  BY <1>11, TypeFrame DEF LoopTimer, TypeOK, LoopType, LoopPhase, Firings, NoFiring,
       JobTrigger, RunIds, NoRun, loop
<1>12. CASE LoopCheckPaused
  <2>1. CASE nextRunId <= MaxRuns /\ ScheduledFiring
    BY <1>12, <2>1, TypeFrame, ScheduledFiringType DEF LoopCheckPaused, TypeOK, loop
  <2>2. CASE lpc' = "compute" /\ UNCHANGED <<fire, ids>>
    BY <1>12, <2>2, TypeFrame DEF LoopCheckPaused, TypeOK, LoopType, LoopPhase
  <2>q. QED
    BY <1>12, <2>1, <2>2 DEF LoopCheckPaused
<1>13. CASE MaybeStartRun
  BY <1>13, TypeFrame DEF MaybeStartRun, OnOverlap, OverlapPolicy, TypeOK, LoopType, LoopPhase
<1>14. CASE LoopSkip
  BY <1>14, TypeFrame, NextFiringType DEF LoopSkip, TypeOK, SharedType
<1>15. CASE MarkPending
  <2>1. Defer \in Firings
    BY DEF Defer, TypeOK, GuardType, LoopType
  <2>q. QED
    BY <1>15, <2>1, TypeFrame, NextFiringType DEF MarkPending, TypeOK, GuardType
<1>16. CASE CancelActiveRun
  BY <1>16, TypeFrame DEF CancelActiveRun, TypeOK, GuardType, LoopType, Firings, RunIds,
       NoRun, NoFiring, JobTrigger, LoopPhase, guard, loop
<1>17. CASE LoopStart
  <2>1. LoopType'
    BY <1>17, NextFiringType DEF LoopStart, TypeOK
  <2>2. fire.id \in RunIds /\ fire.trigger \in JobTrigger
    BY <1>17, <1>f DEF LoopStart, TypeOK, LoopType, Firings
  <2>3. GuardType'
    BY <1>17, <2>2 DEF LoopStart, StartRun, EnterRun, TypeOK, GuardType
  <2>4. RunType'
    BY <1>17, <2>2 DEF LoopStart, StartRun, TypeOK, RunType, RunPhase, InFlightPhase
  <2>q. QED
    BY <1>17, <2>1, <2>3, <2>4, TypeFrame DEF LoopStart, TypeOK
<1>q. QED
  BY <1>1, <1>2, <1>3, <1>4, <1>5, <1>6, <1>7, <1>8, <1>9, <1>10, <1>11, <1>12, <1>13,
       <1>14, <1>15, <1>16, <1>17 DEF Loop

\* Each step of a run's task.
LEMMA RunTypes ==
    ASSUME TypeOK, FiringsNamed, RestartNamed, NEW r \in RunIds, RunStep(r) \/ Body(r),
           rpc[r] = "exit" => active >= 1
    PROVE  TypeOK'
<1>f. taken[r] # NoFiring => taken[r].id \in RunIds
  BY DEF FiringsNamed
<1>1. CASE RecordStart(r)
  BY <1>1, TypeFrame DEF RecordStart, Goto, TypeOK, SharedType, RunType, JobState, RunIds,
       NoRun, RunPhase, InFlightPhase, Outcomes, Firings, NoFiring, JobTrigger, shared, run
<1>2. CASE ReportProgress(r)
  BY <1>2, TypeFrame DEF ReportProgress, TypeOK
<1>3. CASE BodyEnds(r)
  BY <1>3, TypeFrame DEF BodyEnds, BodyReturns, Goto, TypeOK, RunType, RunPhase,
       InFlightPhase, Outcomes, Firings, NoFiring, JobTrigger, RunIds, NoRun, run
<1>4. CASE BodyCancelled(r)
  BY <1>4, TypeFrame DEF BodyCancelled, BodyReturns, Goto, TypeOK, RunType, RunPhase,
       InFlightPhase, Outcomes, Firings, NoFiring, JobTrigger, RunIds, NoRun, run
<1>5. CASE BodyTimedOut(r)
  BY <1>5, TypeFrame DEF BodyTimedOut, BodyReturns, Goto, TypeOK, RunType, RunPhase,
       InFlightPhase, Outcomes, Firings, NoFiring, JobTrigger, RunIds, NoRun, run
<1>6. CASE BodyPanics(r)
  BY <1>6, TypeFrame DEF BodyPanics, Goto, TypeOK, RunType, RunPhase, InFlightPhase,
       Outcomes, Firings, NoFiring, JobTrigger, RunIds, NoRun, run
<1>7. CASE FinishRead(r)
  BY <1>7, TypeFrame DEF FinishRead, LastInFlight, Goto, TypeOK, RunType, RunPhase,
       InFlightPhase, Outcomes, Firings, NoFiring, JobTrigger, RunIds, NoRun, run
<1>8. CASE FinishProgress(r)
  BY <1>8, TypeFrame DEF FinishProgress, ProgressAfter, Goto, TypeOK, RunType, RunPhase,
       InFlightPhase, Outcomes, Firings, NoFiring, JobTrigger, RunIds, NoRun, run
<1>9. CASE FinishShared(r)
  BY <1>9, TypeFrame DEF FinishShared, Settles, StateAfterRun, Goto, TypeOK, SharedType,
       RunType, JobState, RunIds, NoRun, RunPhase, InFlightPhase, Outcomes, Firings,
       NoFiring, JobTrigger, shared, run
<1>10. CASE ClearRunToken(r)
  BY <1>10, TypeFrame DEF ClearRunToken, ClearIfOwner, Goto, TypeOK, GuardType, RunType,
       Firings, RunIds, NoRun, NoFiring, JobTrigger, RunPhase, InFlightPhase, Outcomes,
       guard, run
<1>11. CASE ExitRun(r)
  BY <1>11, TypeFrame DEF ExitRun, Goto, TypeOK, GuardType, RunType, Firings, RunIds, NoRun,
       NoFiring, JobTrigger, RunPhase, InFlightPhase, Outcomes, guard, run
<1>12. CASE TakePending(r)
  BY <1>12, TypeFrame DEF TakePending, PendingAfterTake, Goto, TypeOK, GuardType, RunType,
       Firings, RunIds, NoRun, NoFiring, JobTrigger, RunPhase, InFlightPhase, Outcomes,
       guard, run
<1>13. CASE StartDeferred(r)
  <2>1. taken[r].id \in RunIds /\ taken[r].trigger \in JobTrigger
    BY <1>13, <1>f DEF StartDeferred, RestartNamed, TypeOK, RunType, Firings
  <2>2. GuardType'
    BY <1>13, <2>1 DEF StartDeferred, StartRun, EnterRun, TypeOK, GuardType
  <2>3. NoFiring \in Firings
    BY DEF NoFiring, Firings, JobTrigger
  <2>4. RunType'
    BY <1>13, <2>1, <2>3 DEF StartDeferred, StartRun, TypeOK, RunType, RunPhase, InFlightPhase
  <2>q. QED
    BY <1>13, <2>2, <2>4, TypeFrame DEF StartDeferred, TypeOK
<1>14. CASE EndRun(r)
  BY <1>14, TypeFrame DEF EndRun, Restarts, Goto, TypeOK, RunType, RunPhase, InFlightPhase,
       Outcomes, Firings, NoFiring, JobTrigger, RunIds, NoRun, run
<1>15. CASE CheckRestart(r)
  BY <1>15, TypeFrame DEF CheckRestart, Goto, TypeOK, RunType, RunPhase, InFlightPhase,
       Outcomes, Firings, NoFiring, JobTrigger, RunIds, NoRun, run
<1>q. QED
  BY <1>1, <1>2, <1>3, <1>4, <1>5, <1>6, <1>7, <1>8, <1>9, <1>10, <1>11, <1>12, <1>13, <1>14,
     <1>15
  DEF RunStep, Body

\* Each step of a caller.
LEMMA CallTypes ==
    ASSUME TypeOK, NEW c \in Callers, Call(c) \/ CallReturn(c)
    PROVE  TypeOK'
<1>1. CASE Lookup(c)
  BY <1>1, TypeFrame DEF Lookup, TypeOK, ClientType, CallerPhase, client
<1>2. CASE Pause(c)
  BY <1>2, TypeFrame DEF Pause, SetPaused, CallerGoes, TypeOK, SharedType, ClientType,
       JobState, RunIds, NoRun, CallerPhase, shared, client
<1>3. CASE Resume(c)
  BY <1>3, TypeFrame DEF Resume, SetPaused, CallerGoes, TypeOK, SharedType, ClientType,
       JobState, RunIds, NoRun, CallerPhase, shared, client
<1>4. CASE Reschedule(c)
  BY <1>4, TypeFrame DEF Reschedule, CallerGoes, TypeOK, SharedType, ClientType, JobState,
       RunIds, NoRun, CallerPhase, shared, client
<1>5. CASE RunNow(c)
  BY <1>5, TypeFrame DEF RunNow, CallerGoes, TypeOK, NotifyType, IdsType, ClientType,
       RunIds, CallerPhase, notify, ids, client
<1>6. CASE CancelAndWait(c)
  BY <1>6, TypeFrame DEF CancelAndWait, BeginCancel, CallerGoes, TypeOK, SharedType,
       ClientType, JobState, RunIds, NoRun, CallerPhase, shared, client
<1>7. CASE HandleCancel(c)
  BY <1>7, TypeFrame DEF HandleCancel, BeginCancel, TypeOK, SharedType, ClientType,
       JobState, RunIds, NoRun, CallerPhase, shared, client
<1>8. CASE NotifyWake(c)
  BY <1>8, TypeFrame DEF NotifyWake, StoresPermit, CallerGoes, TypeOK, NotifyType,
       ClientType, RunIds, CallerPhase, notify, client
<1>9. CASE NotifyTriggered(c)
  BY <1>9, TypeFrame DEF NotifyTriggered, StoresPermit, CallerGoes, TypeOK, NotifyType,
       ClientType, RunIds, CallerPhase, notify, client
<1>10. CASE CancelToken(c)
  BY <1>10, TypeFrame DEF CancelToken, TokenCancelled, CallerGoes, TypeOK, LifeType,
       ClientType, CallerPhase, life, client
<1>11. CASE CancelReturns(c)
  BY <1>11, TypeFrame DEF CancelReturns, CallerGoes, TypeOK, ClientType, CallerPhase, client
<1>q. QED
  BY <1>1, <1>2, <1>3, <1>4, <1>5, <1>6, <1>7, <1>8, <1>9, <1>10, <1>11 DEF Call, CallReturn

-----------------------------------------------------------------------------
(* The in-flight counter.                                                   *)

\* Adding at most one element raises the cardinality by at most one.
LEMMA CardAdd ==
    ASSUME NEW S, NEW T, NEW x, NEW n \in Nat,
           IsFiniteSet(S), Cardinality(S) <= n, T \subseteq S \cup {x}
    PROVE  Cardinality(T) <= n + 1
<1>1. IsFiniteSet(S \cup {x}) /\ Cardinality(S \cup {x}) <= Cardinality(S) + 1
  <2>1. /\ IsFiniteSet(S \cup {x})
        /\ Cardinality(S \cup {x}) = IF x \in S THEN Cardinality(S) ELSE Cardinality(S) + 1
    BY FS_AddElement
  <2>2. Cardinality(S) \in Nat
    BY FS_CardinalityType
  <2>q. QED
    BY <2>1, <2>2
<1>2. Cardinality(T) <= Cardinality(S \cup {x})
  BY <1>1, FS_Subset
<1>3. IsFiniteSet(T)
  BY <1>1, FS_Subset
<1>4. Cardinality(S) \in Nat /\ Cardinality(T) \in Nat /\ Cardinality(S \cup {x}) \in Nat
  BY <1>1, <1>3, FS_CardinalityType
<1>q. QED
  BY <1>1, <1>2, <1>4

\* Dropping an element lowers it.
LEMMA CardDrop ==
    ASSUME NEW S, NEW T, NEW x \in S, NEW n \in Nat,
           IsFiniteSet(S), Cardinality(S) <= n, T \subseteq S \ {x}
    PROVE  n >= 1 /\ Cardinality(T) <= n - 1
<1>1. IsFiniteSet(S \ {x}) /\ Cardinality(S \ {x}) = Cardinality(S) - 1
  BY FS_RemoveElement
<1>2. Cardinality(T) <= Cardinality(S \ {x}) /\ IsFiniteSet(T)
  BY <1>1, FS_Subset
<1>3. Cardinality(S) \in Nat /\ Cardinality(T) \in Nat /\ Cardinality(S \ {x}) \in Nat
  BY <1>1, <1>2, FS_CardinalityType
<1>q. QED
  BY <1>1, <1>2, <1>3

\* The runs in flight are finitely many.
LEMMA InFlightFinite == IsFiniteSet(InFlight)
<1>1. IsFiniteSet(RunIds)
  BY FS_Interval DEF RunIds
<1>2. InFlight \subseteq RunIds
  BY DEF InFlight
<1>q. QED
  BY <1>1, <1>2, FS_Subset

\* A step that starts no run and leaves the counter alone keeps it covering.
LEMMA CounterKept ==
    ASSUME CounterCovers, active \in Nat, InFlight' \subseteq InFlight, active' = active
    PROVE  CounterCovers'
<1>1. IsFiniteSet(InFlight) /\ IsFiniteSet(InFlight')
  BY InFlightFinite, FS_Subset
<1>2. Cardinality(InFlight') <= Cardinality(InFlight)
  BY <1>1, FS_Subset
<1>3. Cardinality(InFlight) \in Nat /\ Cardinality(InFlight') \in Nat
  BY <1>1, FS_CardinalityType
<1>q. QED
  BY <1>2, <1>3 DEF CounterCovers

\* Only LoopStart touches the counter or a run's phase in the loop.
LEMMA LoopLeavesRuns ==
    ASSUME Loop
    PROVE  LoopStart \/ (rpc' = rpc /\ active' = active)
<1>1. CASE LoopInit
  BY <1>1 DEF LoopInit, guard, run
<1>2. CASE LoopCompute
  BY <1>2 DEF LoopCompute, guard, run
<1>3. CASE LoopTop
  BY <1>3 DEF LoopTop, guard, run
<1>4. CASE LoopPublish
  BY <1>4 DEF LoopPublish, guard, run
<1>5. CASE LoopExit
  BY <1>5 DEF LoopExit, guard, run
<1>6. CASE LoopSignal
  BY <1>6 DEF LoopSignal, guard, run
<1>7. CASE LoopUnregister
  BY <1>7 DEF LoopUnregister, guard, run
<1>8. CASE LoopWoken
  BY <1>8 DEF LoopWoken, guard, run
<1>9. CASE LoopTriggered
  BY <1>9 DEF LoopTriggered, guard, run
<1>10. CASE TakeManual
  BY <1>10 DEF TakeManual, guard, run
<1>11. CASE LoopTimer
  BY <1>11 DEF LoopTimer, guard, run
<1>12. CASE LoopCheckPaused
  BY <1>12 DEF LoopCheckPaused, guard, run
<1>13. CASE MaybeStartRun
  BY <1>13 DEF MaybeStartRun, guard, run
<1>14. CASE LoopSkip
  BY <1>14 DEF LoopSkip, guard, run
<1>15. CASE MarkPending
  BY <1>15 DEF MarkPending, guard, run
<1>16. CASE CancelActiveRun
  BY <1>16 DEF CancelActiveRun, guard, run
<1>q. QED
  BY <1>1, <1>2, <1>3, <1>4, <1>5, <1>6, <1>7, <1>8, <1>9, <1>10, <1>11, <1>12, <1>13,
       <1>14, <1>15, <1>16 DEF Loop

\* The loop keeps the counter covering.
LEMMA LoopCounter ==
    ASSUME TypeOK, FiringsNamed, CounterCovers, Loop
    PROVE  CounterCovers'
<1>1. CASE LoopStart
  <2>1. InFlight' \subseteq InFlight \cup {fire.id}
    BY <1>1 DEF LoopStart, InFlight, TypeOK, RunType
  <2>2. active' = active + 1
    BY <1>1 DEF LoopStart, StartRun, EnterRun
  <2>q. QED
    BY <2>1, <2>2, CardAdd, InFlightFinite DEF CounterCovers, TypeOK, GuardType
<1>2. CASE rpc' = rpc /\ active' = active
  <2>1. InFlight' = InFlight
    BY <1>2 DEF InFlight
  <2>q. QED
    BY <1>2, <2>1, CounterKept DEF TypeOK, GuardType
<1>q. QED
  BY <1>1, <1>2, LoopLeavesRuns

\* So does every step of a run, and a run that exits finds itself counted.
LEMMA RunCounter ==
    ASSUME TypeOK, FiringsNamed, CounterCovers, NEW r \in RunIds, RunStep(r) \/ Body(r)
    PROVE  CounterCovers' /\ (rpc[r] = "exit" => active >= 1)
<1>1. rpc[r] = "exit" => active >= 1
  <2>1. SUFFICES ASSUME rpc[r] = "exit" PROVE active >= 1
    OBVIOUS
  <2>2. r \in InFlight
    BY <2>1 DEF InFlight, InFlightPhase
  <2>q. QED
    BY <2>2, CardDrop, InFlightFinite DEF CounterCovers, TypeOK, GuardType
<1>2. CASE ExitRun(r)
  <2>1. r \in InFlight
    BY <1>2 DEF ExitRun, InFlight, InFlightPhase
  <2>2. InFlight' \subseteq InFlight \ {r}
    BY <1>2 DEF ExitRun, Goto, InFlight, InFlightPhase, TypeOK, RunType
  <2>3. active' = active - 1
    BY <1>2 DEF ExitRun
  <2>4. Cardinality(InFlight') <= active - 1
    BY <2>1, <2>2, CardDrop, InFlightFinite DEF CounterCovers, TypeOK, GuardType
  <2>q. QED
    BY <1>1, <2>3, <2>4 DEF CounterCovers
<1>3. CASE StartDeferred(r)
  <2>1. InFlight' \subseteq InFlight \cup {taken[r].id}
    BY <1>3 DEF StartDeferred, InFlight, InFlightPhase, TypeOK, RunType
  <2>2. active' = active + 1
    BY <1>3 DEF StartDeferred, StartRun, EnterRun
  <2>3. Cardinality(InFlight') <= active + 1
    BY <2>1, CardAdd, InFlightFinite DEF CounterCovers, TypeOK, GuardType
  <2>q. QED
    BY <1>1, <2>2, <2>3 DEF CounterCovers
<1>4. CASE ~ExitRun(r) /\ ~StartDeferred(r)
  <2>1. active' = active /\ InFlight' \subseteq InFlight
    <3>1. CASE RecordStart(r)
      BY <3>1 DEF RecordStart, Goto, InFlight, InFlightPhase, TypeOK, RunType, guard, run
    <3>2. CASE ReportProgress(r)
      BY <3>2 DEF ReportProgress, InFlight, InFlightPhase, TypeOK, RunType, guard, run
    <3>3. CASE BodyEnds(r)
      BY <3>3 DEF BodyEnds, BodyReturns, Goto, InFlight, InFlightPhase, TypeOK, RunType,
       guard, run
    <3>4. CASE BodyCancelled(r)
      BY <3>4 DEF BodyCancelled, BodyReturns, Goto, InFlight, InFlightPhase, TypeOK,
       RunType, guard, run
    <3>5. CASE BodyTimedOut(r)
      BY <3>5 DEF BodyTimedOut, BodyReturns, Goto, InFlight, InFlightPhase, TypeOK, RunType,
       guard, run
    <3>6. CASE BodyPanics(r)
      BY <3>6 DEF BodyPanics, Goto, InFlight, InFlightPhase, TypeOK, RunType, guard, run
    <3>7. CASE FinishRead(r)
      BY <3>7 DEF FinishRead, Goto, InFlight, InFlightPhase, TypeOK, RunType, guard, run
    <3>8. CASE FinishProgress(r)
      BY <3>8 DEF FinishProgress, Goto, InFlight, InFlightPhase, TypeOK, RunType, guard, run
    <3>9. CASE FinishShared(r)
      BY <3>9 DEF FinishShared, Goto, InFlight, InFlightPhase, TypeOK, RunType, guard, run
    <3>10. CASE ClearRunToken(r)
      BY <3>10 DEF ClearRunToken, Goto, InFlight, InFlightPhase, TypeOK, RunType, guard, run
    <3>11. CASE TakePending(r)
      BY <3>11 DEF TakePending, Goto, InFlight, InFlightPhase, TypeOK, RunType, guard, run
    <3>12. CASE EndRun(r)
      BY <3>12 DEF EndRun, Goto, InFlight, InFlightPhase, TypeOK, RunType, guard, run
    <3>13. CASE CheckRestart(r)
      BY <3>13 DEF CheckRestart, Goto, InFlight, InFlightPhase, TypeOK, RunType, guard, run
    <3>q. QED
      BY <1>4, <3>1, <3>2, <3>3, <3>4, <3>5, <3>6, <3>7, <3>8, <3>9, <3>10, <3>11, <3>12,
         <3>13
      DEF RunStep, Body
  <2>q. QED
    BY <1>1, <2>1, CounterKept DEF TypeOK, GuardType
<1>q. QED
  BY <1>2, <1>3, <1>4

\* A caller starts and ends no run.
LEMMA CallLeavesRuns ==
    ASSUME NEW c \in Callers, Call(c) \/ CallReturn(c)
    PROVE  UNCHANGED <<rpc, active, loop, guard, taken>>
  BY DEF Call, CallReturn, Lookup, Pause, Resume, Reschedule, RunNow, CancelAndWait, HandleCancel,
     NotifyWake, NotifyTriggered, CancelToken, CancelReturns, BeginCancel, guard, run

-----------------------------------------------------------------------------
(* Firings keep their names, and only QueueOne defers one.                  *)

\* Each step of the loop.
LEMMA LoopFirings ==
    ASSUME TypeOK, FiringsNamed, OnlyQueueOneDefers, Loop
    PROVE  FiringsNamed' /\ OnlyQueueOneDefers'
<1> USE DEF FiringsNamed, OnlyQueueOneDefers
<1>0. overlap' = overlap
  BY PolicyFixed DEF Next
<1>1. CASE LoopInit \/ LoopCheckPaused
  <2>1. UNCHANGED <<pending, taken>>
    BY <1>1 DEF LoopInit, LoopCheckPaused, guard, run
  <2>2. lpc' = "compute" \/ (lpc' = "maybe" /\ fire'.id = nextRunId /\ nextRunId \in RunIds)
    BY <1>1 DEF LoopInit, LoopCheckPaused, ScheduledFiring, TypeOK, IdsType, RunIds
  <2>q. QED
    BY <1>0, <2>1, <2>2
<1>2. CASE LoopCompute \/ LoopTop \/ LoopPublish \/ LoopExit \/ LoopSignal \/ LoopUnregister
           \/ LoopWoken \/ LoopTriggered \/ LoopTimer
  <2>1. UNCHANGED <<pending, taken>>
    BY <1>2 DEF LoopCompute, LoopTop, LoopPublish, LoopExit, LoopSignal, LoopUnregister,
       LoopWoken, LoopTriggered, LoopTimer, guard, run
  <2>2. lpc' \in {"top", "publish", "select", "signal", "unregister", "stopped", "compute",
                  "drain", "checkPaused"}
    BY <1>2 DEF LoopCompute, LoopTop, LoopPublish, LoopExit, LoopSignal, LoopUnregister,
       LoopWoken, LoopTriggered, LoopTimer
  <2>q. QED
    BY <1>0, <2>1, <2>2
<1>3. CASE TakeManual
  <2>1. UNCHANGED <<pending, taken>>
    BY <1>3 DEF TakeManual, guard, run
  <2>2. lpc' = "top" \/ (lpc' = "maybe" /\ manual # <<>> /\ fire'.id = Head(manual))
    BY <1>3 DEF TakeManual
  <2>3. manual # <<>> => Head(manual) \in RunIds
    BY HeadTail DEF TypeOK, NotifyType
  <2>q. QED
    BY <1>0, <2>1, <2>2, <2>3
<1>4. CASE MaybeStartRun
  BY <1>0, <1>4 DEF MaybeStartRun, OnOverlap, OverlapPolicy, TypeOK, guard, run
<1>5. ASSUME NextFiring
      PROVE  lpc' \in {"top", "compute"} \/ (lpc' = "maybe" /\ fire'.id \in RunIds)
  <2>1. todo # <<>> => Head(todo) \in RunIds
    BY HeadTail DEF TypeOK, LoopType
  <2>q. QED
    BY <1>5, <2>1 DEF NextFiring
<1>6. CASE LoopSkip
  BY <1>0, <1>5, <1>6 DEF LoopSkip, guard, run
<1>7. CASE MarkPending
  <2>1. taken' = taken /\ overlap = "QueueOne" /\ fire.id \in RunIds
    BY <1>7 DEF MarkPending, run
  <2>2. pending' # NoFiring => pending'.id \in RunIds
    BY <1>7, <2>1 DEF MarkPending, Defer
  <2>q. QED
    BY <1>0, <1>5, <1>7, <2>1, <2>2 DEF MarkPending
<1>8. CASE CancelActiveRun
  BY <1>0, <1>8 DEF CancelActiveRun, run
<1>9. CASE LoopStart
  BY <1>0, <1>5, <1>9 DEF LoopStart
<1>q. QED
  BY <1>1, <1>2, <1>3, <1>4, <1>6, <1>7, <1>8, <1>9 DEF Loop

\* Each step of a run.
LEMMA RunFirings ==
    ASSUME TypeOK, FiringsNamed, OnlyQueueOneDefers, NEW r \in RunIds, RunStep(r) \/ Body(r)
    PROVE  FiringsNamed' /\ OnlyQueueOneDefers'
<1> USE DEF FiringsNamed, OnlyQueueOneDefers
<1>0. overlap' = overlap
  BY PolicyFixed DEF Next
<1>1. UNCHANGED <<lpc, fire>>
  BY DEF RunStep, Body, RecordStart, ReportProgress, BodyEnds, BodyCancelled, BodyTimedOut,
     BodyReturns, BodyPanics, FinishRead, FinishProgress, FinishShared, ClearRunToken, ExitRun,
     TakePending, CheckRestart, StartDeferred, EndRun, loop
<1>2. CASE TakePending(r)
  BY <1>0, <1>1, <1>2 DEF TakePending, PendingAfterTake, TypeOK, RunType
<1>3. CASE StartDeferred(r) \/ EndRun(r)
  BY <1>0, <1>1, <1>3 DEF StartDeferred, EndRun, TypeOK, RunType, guard
<1>4. CASE ~TakePending(r) /\ ~StartDeferred(r) /\ ~EndRun(r)
  <2>1. UNCHANGED <<pending, taken>>
    BY <1>4 DEF RunStep, Body, RecordStart, ReportProgress, BodyEnds, BodyCancelled,
       BodyTimedOut, BodyReturns, BodyPanics, FinishRead, FinishProgress, FinishShared,
       ClearRunToken, ExitRun, CheckRestart, guard, run
  <2>q. QED
    BY <1>0, <1>1, <2>1
<1>q. QED
  BY <1>2, <1>3, <1>4

\* Only a run that holds a firing gets to the point of starting it.
LEMMA LoopRestart ==
    ASSUME TypeOK, RestartNamed, Loop
    PROVE  RestartNamed'
<1>1. taken' = taken
  BY DEF Loop, LoopInit, LoopCompute, LoopTop, LoopPublish, LoopExit, LoopSignal,
     LoopUnregister, LoopWoken, LoopTriggered, TakeManual, LoopTimer, LoopCheckPaused,
     MaybeStartRun, LoopSkip, MarkPending, CancelActiveRun, LoopStart, run
<1>2. CASE LoopStart
  BY <1>1, <1>2 DEF LoopStart, RestartNamed, TypeOK, RunType
<1>3. CASE ~LoopStart
  <2>1. rpc' = rpc
    BY <1>3 DEF Loop, LoopInit, LoopCompute, LoopTop, LoopPublish, LoopExit, LoopSignal,
       LoopUnregister, LoopWoken, LoopTriggered, TakeManual, LoopTimer, LoopCheckPaused,
       MaybeStartRun, LoopSkip, MarkPending, CancelActiveRun, run
  <2>q. QED
    BY <1>1, <2>1 DEF RestartNamed
<1>q. QED
  BY <1>2, <1>3

\* No step of a run leaves one about to start a deferred firing without it.
LEMMA RunRestart ==
    ASSUME TypeOK, RestartNamed, NEW r \in RunIds, RunStep(r) \/ Body(r)
    PROVE  RestartNamed'
<1> USE DEF RestartNamed
<1>1. CASE CheckRestart(r)
  BY <1>1 DEF CheckRestart, Restarts, Goto, TypeOK, RunType
<1>2. CASE StartDeferred(r)
  BY <1>2 DEF StartDeferred, TypeOK, RunType
<1>3. CASE EndRun(r)
  BY <1>3 DEF EndRun, Goto, TypeOK, RunType
<1>4. CASE TakePending(r)
  BY <1>4 DEF TakePending, Goto, TypeOK, RunType
<1>5. CASE ~CheckRestart(r) /\ ~StartDeferred(r) /\ ~EndRun(r) /\ ~TakePending(r)
  <2>1. taken' = taken
    BY <1>5 DEF RunStep, Body, RecordStart, ReportProgress, BodyEnds, BodyCancelled,
       BodyTimedOut, BodyReturns, BodyPanics, FinishRead, FinishProgress, FinishShared,
       ClearRunToken, ExitRun, run
  <2>2. PICK p \in RunPhase \ {"startDeferred"} : rpc' \in {rpc, [rpc EXCEPT ![r] = p]}
    BY <1>5 DEF RunStep, Body, RecordStart, ReportProgress, BodyEnds, BodyCancelled,
       BodyTimedOut, BodyReturns, BodyPanics, FinishRead, FinishProgress, FinishShared,
       ClearRunToken, ExitRun, Goto, run, RunPhase, InFlightPhase
  <2>q. QED
    BY <2>1, <2>2 DEF TypeOK, RunType
<1>q. QED
  BY <1>1, <1>2, <1>3, <1>4, <1>5

-----------------------------------------------------------------------------
(* JobInv is inductive.                                                     *)

\* JobInv holds initially.
LEMMA JobInvInit == Init => JobInv
<1> SUFFICES ASSUME Init PROVE JobInv
  OBVIOUS
<1>1. TypeOK
  <2>0. NoFiring \in Firings
    BY DEF NoFiring, Firings, JobTrigger
  <2>e. <<>> \in Seq(RunIds)
    OBVIOUS
  <2>1. overlap \in OverlapPolicy /\ SharedType /\ progress \in RunIds \cup {NoRun}
    BY JobAssumption DEF Init, SharedType, JobState
  <2>2. NotifyType
    BY <2>e DEF Init, NotifyType
  <2>7. LifeType
    BY DEF Init, LifeType
  <2>8. IdsType
    BY JobAssumption DEF Init, IdsType
  <2>3. GuardType
    BY <2>0 DEF Init, GuardType
  <2>4. LoopType
    BY <2>0, <2>e DEF Init, LoopType, LoopPhase
  <2>5. RunType
    BY <2>0 DEF Init, RunType, RunPhase, JobTrigger
  <2>6. ClientType
    BY DEF Init, ClientType, CallerPhase
  <2>q. QED
    BY <2>1, <2>2, <2>3, <2>4, <2>5, <2>6, <2>7, <2>8 DEF TypeOK
<1>2. FiringsNamed /\ RestartNamed /\ OnlyQueueOneDefers
  BY DEF Init, FiringsNamed, RestartNamed, OnlyQueueOneDefers
<1>3. CounterCovers
  <2>1. InFlight = {}
    BY DEF Init, InFlight, InFlightPhase
  <2>q. QED
    BY <2>1, FS_EmptySet DEF Init, CounterCovers
<1>q. QED
  BY <1>1, <1>2, <1>3 DEF JobInv

\* Every step preserves JobInv.
LEMMA JobInvNext == JobInv /\ [Next]_vars => JobInv'
<1> SUFFICES ASSUME JobInv, [Next]_vars PROVE JobInv'
  OBVIOUS
<1> USE DEF JobInv
<1>1. CASE Loop
  BY <1>1, LoopTypes, LoopCounter, LoopFirings, LoopRestart
<1>2. CASE \E r \in RunIds : RunStep(r) \/ Body(r)
  BY <1>2, RunTypes, RunCounter, RunFirings, RunRestart
<1>3. CASE \E c \in Callers : Call(c) \/ CallReturn(c)
  <2>1. PICK c \in Callers : Call(c) \/ CallReturn(c)
    BY <1>3
  <2>2. UNCHANGED <<rpc, active, loop, guard, taken>>
    BY <2>1, CallLeavesRuns
  <2>3. CounterCovers' /\ FiringsNamed' /\ RestartNamed' /\ OnlyQueueOneDefers'
    BY <2>2, PolicyFixed DEF CounterCovers, FiringsNamed, RestartNamed, OnlyQueueOneDefers, InFlight, loop,
       guard
  <2>q. QED
    BY <2>1, <2>3, CallTypes
<1>4. CASE DropScheduler
  <2>1. TypeOK'
    BY <1>4, TypeFrame DEF DropScheduler, TypeOK, LifeType
  <2>q. QED
    BY <1>4, <2>1 DEF DropScheduler, CounterCovers, FiringsNamed, RestartNamed, OnlyQueueOneDefers,
       InFlight, loop, guard, run
<1>5. CASE UNCHANGED vars
  <2>1. TypeOK'
    BY <1>5, TypeFrame DEF vars, TypeOK
  <2>q. QED
    BY <1>5, <2>1 DEF vars, CounterCovers, FiringsNamed, RestartNamed, OnlyQueueOneDefers,
       InFlight, loop, guard, run
<1>q. QED
  BY <1>1, <1>2, <1>3, <1>4, <1>5 DEF Next

\* Every reachable state is well formed, whatever the policy and the number of
\* runs and callers, even if bodies panic.
THEOREM TypeCorrect == Spec => []TypeOK
<1>1. Spec => []JobInv
  BY JobInvInit, JobInvNext, PTL DEF Spec
<1>2. JobInv => TypeOK
  BY DEF JobInv
<1>q. QED
  BY <1>1, <1>2, PTL

-----------------------------------------------------------------------------
(* Skip.                                                                    *)

\* An idle counter means that no run is in flight.
LEMMA IdleCounter == JobInv /\ active = 0 => InFlight = {}
<1> SUFFICES ASSUME JobInv, active = 0 PROVE InFlight = {}
  OBVIOUS
<1>1. Cardinality(InFlight) <= 0 /\ IsFiniteSet(InFlight)
  BY InFlightFinite DEF JobInv, CounterCovers
<1>q. QED
  BY <1>1, FS_CardinalityType, FS_EmptySet

\* Nothing but StartDeferred lets a run's task add to the runs in flight.
LEMMA RunShrinks ==
    ASSUME JobInv, overlap # "QueueOne", NEW r \in RunIds, RunStep(r) \/ Body(r)
    PROVE  /\ InFlight' \subseteq InFlight
           /\ lpc' = lpc
           /\ active = 0 => active' = 0
<1>1. ~StartDeferred(r)
  BY DEF StartDeferred, RestartNamed, JobInv, OnlyQueueOneDefers
<1>2. lpc' = lpc
  BY <1>1 DEF RunStep, Body, RecordStart, ReportProgress, BodyEnds, BodyCancelled, BodyTimedOut,
     BodyReturns, BodyPanics, FinishRead, FinishProgress, FinishShared, ClearRunToken, ExitRun,
     TakePending, CheckRestart, EndRun, loop
<1>3. PICK p \in RunPhase : \/ rpc' = rpc
                            \/ /\ rpc' = [rpc EXCEPT ![r] = p]
                               /\ p \in InFlightPhase => rpc[r] \in InFlightPhase
  BY <1>1 DEF RunStep, Body, RecordStart, ReportProgress, BodyEnds, BodyCancelled, BodyTimedOut,
     BodyReturns, BodyPanics, FinishRead, FinishProgress, FinishShared, ClearRunToken, ExitRun,
     TakePending, CheckRestart, EndRun, Goto, run, RunPhase, InFlightPhase
<1>4. InFlight' \subseteq InFlight
  BY <1>3 DEF InFlight, JobInv, TypeOK, RunType
<1>5. active = 0 => active' = 0
  <2>1. CASE ExitRun(r)
    <3>1. r \in InFlight
      BY <2>1 DEF ExitRun, InFlight, InFlightPhase
    <3>q. QED
      BY <3>1, IdleCounter
  <2>2. CASE ~ExitRun(r)
    BY <1>1, <2>2 DEF RunStep, Body, RecordStart, ReportProgress, BodyEnds, BodyCancelled,
       BodyTimedOut, BodyReturns, BodyPanics, FinishRead, FinishProgress, FinishShared,
       ClearRunToken, TakePending, CheckRestart, EndRun, guard
  <2>q. QED
    BY <2>1, <2>2
<1>q. QED
  BY <1>2, <1>4, <1>5

\* The loop reaches its start through the read of the counter or through
\* cancel_active_run only.
LEMMA BeforeStart ==
    ASSUME Loop
    PROVE  MaybeStartRun \/ CancelActiveRun \/ lpc' \notin {"start", "cancelPrev"}
  BY DEF Loop, LoopInit, ScheduledFiring, LoopCompute, LoopTop, LoopPublish, LoopExit, LoopSignal,
     LoopUnregister, LoopWoken, LoopTriggered, TakeManual, LoopTimer, LoopCheckPaused, LoopSkip,
     MarkPending, LoopStart, NextFiring

\* Every step preserves SkipInv.
LEMMA SkipInvNext == JobInv /\ SkipInv /\ [Next]_vars => SkipInv'
<1> SUFFICES ASSUME JobInv, SkipInv, [Next]_vars, overlap = "Skip"
             PROVE  /\ lpc' # "cancelPrev"
                    /\ lpc' = "start" => active' = 0
                    /\ \A r, s \in InFlight' : r = s
  BY PolicyFixed DEF SkipInv
<1>0. /\ lpc # "cancelPrev"
      /\ lpc = "start" => active = 0
      /\ \A r, s \in InFlight : r = s
  BY DEF SkipInv
<1>1. CASE Loop
  <2>1. CASE LoopStart
    <3>1. InFlight = {}
      BY <1>0, <2>1, IdleCounter DEF LoopStart
    <3>2. InFlight' \subseteq {fire.id}
      BY <2>1, <3>1 DEF LoopStart, InFlight, JobInv, TypeOK, RunType
    <3>3. lpc' \notin {"start", "cancelPrev"}
      BY <2>1 DEF LoopStart, NextFiring
    <3>q. QED
      BY <3>2, <3>3
  <2>2. CASE rpc' = rpc /\ active' = active
    <3>1. InFlight' = InFlight
      BY <2>2 DEF InFlight
    <3>2. CASE MaybeStartRun
      BY <1>0, <2>2, <3>1, <3>2 DEF MaybeStartRun, OnOverlap, JobInv, TypeOK, GuardType
    <3>3. CASE lpc' \notin {"start", "cancelPrev"}
      BY <1>0, <3>1, <3>3
    <3>q. QED
      BY <1>0, <1>1, <3>2, <3>3, BeforeStart DEF CancelActiveRun
  <2>q. QED
    BY <1>1, <2>1, <2>2, LoopLeavesRuns
<1>2. CASE \E r \in RunIds : RunStep(r) \/ Body(r)
  <2>1. InFlight' \subseteq InFlight /\ lpc' = lpc /\ (active = 0 => active' = 0)
    BY <1>2, RunShrinks
  <2>q. QED
    BY <1>0, <2>1
<1>3. CASE \E c \in Callers : Call(c) \/ CallReturn(c)
  <2>1. UNCHANGED <<rpc, active, loop>>
    BY <1>3, CallLeavesRuns
  <2>q. QED
    BY <1>0, <2>1 DEF InFlight, loop
<1>4. CASE DropScheduler \/ UNCHANGED vars
  <2>1. UNCHANGED <<rpc, active, loop>>
    BY <1>4 DEF DropScheduler, vars, guard, run
  <2>q. QED
    BY <1>0, <2>1 DEF InFlight, loop
<1>q. QED
  BY <1>1, <1>2, <1>3, <1>4 DEF Next

\* Under Skip no two runs of the job are ever in flight together, although the
\* loop reads the counter and enters the run in separate steps.
THEOREM SkipCorrect == Spec => []SkipExclusive
<1>1. Init => SkipInv
  BY DEF Init, SkipInv, InFlight, InFlightPhase
<1>2. Spec => [](JobInv /\ SkipInv)
  BY <1>1, JobInvInit, JobInvNext, SkipInvNext, PTL DEF Spec
<1>3. SkipInv => SkipExclusive
  BY DEF SkipInv, SkipExclusive
<1>q. QED
  BY <1>2, <1>3, PTL

-----------------------------------------------------------------------------
(* CancelPrevious.                                                          *)

\* What the step of a run can do to the slot and to the executing runs.
LEMMA RunKeepsSlot ==
    ASSUME JobInv, overlap # "QueueOne", NEW r \in RunIds, RunStep(r) \/ Body(r)
    PROVE  /\ \A x \in RunIds : Executing(x)' => Executing(x)
           /\ runCancelled' = runCancelled
           /\ runToken' = runToken \/ (runToken = r /\ ~Executing(r))
<1>1. ~StartDeferred(r)
  BY DEF StartDeferred, RestartNamed, JobInv, OnlyQueueOneDefers
<1>2. PICK p \in RunPhase : \/ rpc' = rpc
                            \/ /\ rpc' = [rpc EXCEPT ![r] = p]
                               /\ p \in {"spawned", "body"} => rpc[r] \in {"spawned", "body"}
  BY <1>1 DEF RunStep, Body, RecordStart, ReportProgress, BodyEnds, BodyCancelled, BodyTimedOut,
     BodyReturns, BodyPanics, FinishRead, FinishProgress, FinishShared, ClearRunToken, ExitRun,
     TakePending, CheckRestart, EndRun, Goto, run, RunPhase, InFlightPhase
<1>3. \A x \in RunIds : Executing(x)' => Executing(x)
  BY <1>2 DEF Executing, JobInv, TypeOK, RunType
<1>4. runCancelled' = runCancelled
  BY <1>1 DEF RunStep, Body, RecordStart, ReportProgress, BodyEnds, BodyCancelled, BodyTimedOut,
     BodyReturns, BodyPanics, FinishRead, FinishProgress, FinishShared, ClearRunToken, ExitRun,
     TakePending, CheckRestart, EndRun, guard
<1>5. CASE ClearRunToken(r)
  BY <1>3, <1>4, <1>5 DEF ClearRunToken, ClearIfOwner, Executing
<1>6. CASE ~ClearRunToken(r)
  <2>1. runToken' = runToken
    BY <1>1, <1>6 DEF RunStep, Body, RecordStart, ReportProgress, BodyEnds, BodyCancelled,
       BodyTimedOut, BodyReturns, BodyPanics, FinishRead, FinishProgress, FinishShared, ExitRun,
       TakePending, CheckRestart, EndRun, guard
  <2>q. QED
    BY <1>3, <1>4, <2>1
<1>q. QED
  BY <1>5, <1>6

\* Every step preserves CancelPreviousInv.
LEMMA CancelPreviousInvNext ==
    JobInv /\ CancelPreviousInv /\ [Next]_vars => CancelPreviousInv'
<1> SUFFICES ASSUME JobInv, CancelPreviousInv, [Next]_vars, overlap = "CancelPrevious"
             PROVE  /\ \A r \in RunIds : Executing(r)' => r = runToken' \/ r \in runCancelled'
                    /\ lpc' = "start" =>
                           \A r \in RunIds : Executing(r)' => r \in runCancelled'
  BY PolicyFixed DEF CancelPreviousInv
<1>0. /\ \A r \in RunIds : Executing(r) => r = runToken \/ r \in runCancelled
      /\ lpc = "start" => \A r \in RunIds : Executing(r) => r \in runCancelled
  BY DEF CancelPreviousInv
<1>1. CASE Loop
  <2>1. CASE LoopStart
    <3>1. /\ \A r \in RunIds : Executing(r)' => r = fire.id \/ Executing(r)
          /\ runToken' = fire.id /\ runCancelled' = runCancelled
      BY <2>1 DEF LoopStart, StartRun, Executing, JobInv, TypeOK, RunType
    <3>2. lpc' # "start" /\ lpc = "start"
      BY <2>1 DEF LoopStart, NextFiring
    <3>q. QED
      BY <1>0, <3>1, <3>2
  <2>2. CASE MaybeStartRun
    <3>1. UNCHANGED <<rpc, runToken, runCancelled>>
      BY <2>2 DEF MaybeStartRun, guard, run
    <3>2. lpc' = "start" => active = 0
      BY <2>2 DEF MaybeStartRun, OnOverlap, JobInv, TypeOK, GuardType
    <3>3. active = 0 => \A r \in RunIds : ~Executing(r)
      BY IdleCounter DEF InFlight, InFlightPhase, Executing
    <3>q. QED
      BY <1>0, <3>1, <3>2, <3>3 DEF Executing
  <2>3. CASE CancelActiveRun
    <3>1. rpc' = rpc /\ runToken' = runToken
      BY <2>3 DEF CancelActiveRun, run
    <3>2. \A r \in RunIds : r # NoRun
      BY DEF RunIds, NoRun
    <3>3. \A r \in RunIds : r = runToken \/ r \in runCancelled => r \in runCancelled'
      BY <2>3, <3>2 DEF CancelActiveRun
    <3>q. QED
      BY <1>0, <3>1, <3>3 DEF Executing
  <2>4. CASE ~LoopStart /\ ~MaybeStartRun /\ ~CancelActiveRun
    <3>1. UNCHANGED <<rpc, runToken, runCancelled>>
      BY <1>1, <2>4 DEF Loop, LoopInit, LoopCompute, LoopTop, LoopPublish, LoopExit, LoopSignal,
         LoopUnregister, LoopWoken, LoopTriggered, TakeManual, LoopTimer, LoopCheckPaused,
         LoopSkip, MarkPending, guard, run
    <3>2. lpc' # "start"
      BY <1>1, <2>4, BeforeStart
    <3>q. QED
      BY <1>0, <3>1, <3>2 DEF Executing
  <2>q. QED
    BY <2>1, <2>2, <2>3, <2>4
<1>2. CASE \E r \in RunIds : RunStep(r) \/ Body(r)
  <2>1. PICK r \in RunIds : RunStep(r) \/ Body(r)
    BY <1>2
  <2>2. /\ \A x \in RunIds : Executing(x)' => Executing(x)
        /\ runCancelled' = runCancelled
        /\ runToken' = runToken \/ (runToken = r /\ ~Executing(r))
    BY <2>1, RunKeepsSlot
  <2>3. lpc' = lpc
    BY <2>1, RunShrinks
  <2>q. QED
    BY <1>0, <2>2, <2>3
<1>3. CASE \E c \in Callers : Call(c) \/ CallReturn(c)
  <2>1. UNCHANGED <<rpc, loop, guard>>
    BY <1>3, CallLeavesRuns
  <2>q. QED
    BY <1>0, <2>1 DEF Executing, loop, guard
<1>4. CASE DropScheduler \/ UNCHANGED vars
  <2>1. UNCHANGED <<rpc, loop, guard>>
    BY <1>4 DEF DropScheduler, vars, run
  <2>q. QED
    BY <1>0, <2>1 DEF Executing, loop, guard
<1>q. QED
  BY <1>1, <1>2, <1>3, <1>4 DEF Next

\* Under CancelPrevious at most one run executes with a live token: the
\* replacement's token survives the late end of the run it replaced.
THEOREM CancelPreviousCorrect == Spec => []OneLiveRun
<1>1. Init => CancelPreviousInv
  BY DEF Init, CancelPreviousInv, Executing
<1>2. Spec => [](JobInv /\ CancelPreviousInv)
  BY <1>1, JobInvInit, JobInvNext, CancelPreviousInvNext, PTL DEF Spec
<1>3. CancelPreviousInv => OneLiveRun
  BY DEF CancelPreviousInv, OneLiveRun, Executing
<1>q. QED
  BY <1>2, <1>3, PTL

-----------------------------------------------------------------------------
(* Pausing and cancelling.                                                  *)

\* PausedAgrees is inductive by itself.
LEMMA PausedAgreesNext == PausedAgrees /\ [Next]_vars => PausedAgrees'
<1> SUFFICES ASSUME PausedAgrees, [Next]_vars PROVE PausedAgrees'
  OBVIOUS
<1>1. CASE Loop
  <2>1. paused' = paused /\ (state' = state \/ state' = "Cancelled")
    BY <1>1 DEF Loop, LoopInit, LoopCompute, LoopTop, LoopPublish, LoopExit, LoopSignal,
       LoopUnregister, LoopWoken, LoopTriggered, TakeManual, LoopTimer, LoopCheckPaused,
       MaybeStartRun, LoopSkip, MarkPending, CancelActiveRun, LoopStart, shared
  <2>q. QED
    BY <2>1 DEF PausedAgrees
<1>2. CASE \E r \in RunIds : RunStep(r) \/ Body(r)
  <2>1. PICK r \in RunIds : RunStep(r) \/ Body(r)
    BY <1>2
  <2>2. paused' = paused /\ state' \in {state, "Running", StateAfterRun}
    BY <2>1 DEF RunStep, Body, RecordStart, ReportProgress, BodyEnds, BodyCancelled, BodyTimedOut,
       BodyReturns, BodyPanics, FinishRead, FinishProgress, FinishShared, ClearRunToken, ExitRun,
       TakePending, CheckRestart, StartDeferred, EndRun, shared
  <2>q. QED
    BY <2>2 DEF PausedAgrees, StateAfterRun
<1>3. CASE \E c \in Callers : Call(c) \/ CallReturn(c)
  <2>1. PICK c \in Callers : Call(c) \/ CallReturn(c)
    BY <1>3
  <2>2. \/ UNCHANGED <<state, paused>>
        \/ state' = "Cancelling" /\ paused' = paused
        \/ SetPaused(TRUE, "Scheduled", "Paused")
        \/ SetPaused(FALSE, "Paused", "Scheduled")
    BY <2>1 DEF Call, CallReturn, Lookup, Pause, Resume, Reschedule, RunNow, CancelAndWait,
       HandleCancel, NotifyWake, NotifyTriggered, CancelToken, CancelReturns, BeginCancel, shared
  <2>q. QED
    BY <2>2 DEF PausedAgrees, SetPaused
<1>4. CASE DropScheduler \/ UNCHANGED vars
  BY <1>4 DEF DropScheduler, vars, shared, PausedAgrees
<1>q. QED
  BY <1>1, <1>2, <1>3, <1>4 DEF Next

\* The published state and the pause flag never contradict each other.
THEOREM PauseCorrect == Spec => []PausedAgrees
<1>1. Init => PausedAgrees
  BY DEF Init, PausedAgrees
<1>q. QED
  BY <1>1, PausedAgreesNext, PTL DEF Spec

\* So is NotResurrected.
LEMMA NotResurrectedNext == TypeOK /\ NotResurrected /\ [Next]_vars => NotResurrected'
<1> SUFFICES ASSUME TypeOK, NotResurrected, [Next]_vars PROVE NotResurrected'
  OBVIOUS
<1> USE DEF NotResurrected, LoopOver, Cancelling
<1>1. CASE Loop
  <2>1. CASE LoopExit
    BY <2>1 DEF LoopExit
  <2>2. CASE LoopSignal \/ LoopUnregister
    BY <2>2 DEF LoopSignal, LoopUnregister, shared
  <2>3. CASE ~LoopExit /\ ~LoopSignal /\ ~LoopUnregister
    BY <1>1, <2>3 DEF Loop, LoopInit, ScheduledFiring, LoopCompute, LoopTop, LoopPublish,
       LoopWoken, LoopTriggered, TakeManual, LoopTimer, LoopCheckPaused, MaybeStartRun, OnOverlap,
       OverlapPolicy, LoopSkip, MarkPending, CancelActiveRun, LoopStart, NextFiring, TypeOK
  <2>q. QED
    BY <2>1, <2>2, <2>3
<1>2. CASE \E r \in RunIds : RunStep(r) \/ Body(r)
  <2>1. PICK r \in RunIds : RunStep(r) \/ Body(r)
    BY <1>2
  <2>2. lpc' = lpc /\ (state' = state \/ ~Cancelling)
    BY <2>1 DEF RunStep, Body, RecordStart, ReportProgress, BodyEnds, BodyCancelled, BodyTimedOut,
       BodyReturns, BodyPanics, FinishRead, FinishProgress, FinishShared, Settles, ClearRunToken,
       ExitRun, TakePending, CheckRestart, StartDeferred, EndRun, shared, loop
  <2>q. QED
    BY <2>2
<1>3. CASE \E c \in Callers : Call(c) \/ CallReturn(c)
  <2>1. PICK c \in Callers : Call(c) \/ CallReturn(c)
    BY <1>3
  <2>2. lpc' = lpc
    BY <2>1, CallLeavesRuns DEF loop
  <2>3. state' = state \/ state' = "Cancelling" \/ state \in {"Scheduled", "Paused"}
    BY <2>1 DEF Call, CallReturn, Lookup, Pause, Resume, SetPaused, Reschedule, RunNow,
       CancelAndWait, HandleCancel, NotifyWake, NotifyTriggered, CancelToken, CancelReturns,
       BeginCancel, shared
  <2>q. QED
    BY <2>2, <2>3
<1>4. CASE DropScheduler \/ UNCHANGED vars
  BY <1>4 DEF DropScheduler, vars, shared, loop
<1>q. QED
  BY <1>1, <1>2, <1>3, <1>4 DEF Next

\* Once the loop is torn down, no late run and no pause or resume brings the
\* job back to Scheduled, Running or Paused.
THEOREM CancelCorrect == Spec => []NotResurrected
<1>1. Init => NotResurrected
  BY DEF Init, NotResurrected, LoopOver
<1>q. QED
  BY <1>1, TypeCorrect, NotResurrectedNext, PTL DEF Spec

-----------------------------------------------------------------------------
(* Run ids.  An id lies in one place at most (in the loop's hands, in one of *)
(* the two queues, deferred, or taken by a run that ends), and while it lies *)
(* there nobody has started it.                                              *)

\* maybe_start_run is under way.
FiringPhase == {"maybe", "skip", "defer", "cancelPrev", "start"}

\* An id that was allocated and not started.
Spare(r) == r < nextRunId /\ rpc[r] = "idle"

\* A firing is manual exactly when run_now handed its id out.
Marked(f) == f.trigger = "Manual" <=> f.id \in handed

\* r does not wait in queue q.
Apart(q, r) == \A i \in 1..Len(q) : q[i] # r

\* What is in a queue of manual runs.
QueueOK(q) ==
    /\ \A i \in 1..Len(q) : Spare(q[i]) /\ q[i] \in handed
    /\ \A i, j \in 1..Len(q) : q[i] = q[j] => i = j

\* What a firing is that the loop does not hold.
HeldOK(f) ==
    f.id # NoRun => /\ Spare(f.id) /\ Marked(f) /\ f.id # fire.id
                    /\ Apart(manual, f.id) /\ Apart(todo, f.id)

Unused == /\ \A r \in RunIds : r >= nextRunId => rpc[r] = "idle"
          /\ \A r \in handed : r < nextRunId

LoopClear == lpc \notin FiringPhase => fire = NoFiring /\ todo = <<>>

FireOK ==
    fire.id # NoRun => /\ Spare(fire.id) /\ Marked(fire)
                       /\ Apart(manual, fire.id) /\ Apart(todo, fire.id)

QueuesOK == /\ QueueOK(manual) /\ QueueOK(todo)
            /\ \A i \in 1..Len(todo) : Apart(manual, todo[i])

DeferredOK ==
    /\ HeldOK(pending)
    /\ \A q \in RunIds : /\ HeldOK(taken[q])
                         /\ taken[q].id # NoRun => taken[q].id # pending.id
    /\ \A q, s \in RunIds : taken[q].id = taken[s].id /\ taken[q].id # NoRun => q = s

IdsInv == Unused /\ LoopClear /\ FireOK /\ QueuesOK /\ DeferredOK

\* What the first element of a queue and the others are.
LEMMA QueueTail ==
    ASSUME NEW q \in Seq(RunIds), q # <<>>
    PROVE  /\ Head(q) = q[1] /\ 1 \in 1..Len(q) /\ Tail(q) \in Seq(RunIds)
           /\ Len(Tail(q)) = Len(q) - 1 /\ Len(q) \in Nat
           /\ \A i \in 1..Len(Tail(q)) : Tail(q)[i] = q[i + 1] /\ i + 1 \in 1..Len(q) /\ i + 1 # 1
  OBVIOUS

\* A step that moves no id and starts none.
LEMMA IdsFrame ==
    ASSUME TypeOK, IdsInv, UNCHANGED <<fire, todo, manual, nextRunId, handed, pending, taken>>,
           lpc' \in FiringPhase \/ lpc \notin FiringPhase,
           \A r \in RunIds : rpc[r] = "idle" => rpc'[r] = "idle"
    PROVE  IdsInv'
<1>0. /\ fire \in Firings /\ pending \in Firings /\ \A q \in RunIds : taken[q] \in Firings
      /\ \A i \in 1..Len(manual) : manual[i] \in RunIds
      /\ \A i \in 1..Len(todo) : todo[i] \in RunIds
  BY DEF TypeOK, LoopType, GuardType, RunType, NotifyType
<1>1. \A r \in RunIds : Spare(r) => Spare(r)'
  BY DEF Spare
<1>2. Unused' /\ LoopClear'
  BY DEF IdsInv, Unused, LoopClear
<1>3. \A f \in Firings : f.id # NoRun => f.id \in RunIds
  BY DEF Firings
<1>4. FireOK'
  BY <1>0, <1>1, <1>3 DEF IdsInv, FireOK, Marked, Apart
<1>5. QueuesOK'
  BY <1>0, <1>1 DEF IdsInv, QueuesOK, QueueOK, Apart
<1>6. \A f \in Firings : HeldOK(f) => HeldOK(f)'
  BY <1>1, <1>3 DEF HeldOK, Marked, Apart
<1>7. DeferredOK'
  BY <1>0, <1>6 DEF IdsInv, DeferredOK
<1>q. QED
  BY <1>2, <1>4, <1>5, <1>7 DEF IdsInv

\* The end of a maybe_start_run: the next id of todo moves into the loop's hands.
LEMMA IdsAdvance ==
    ASSUME TypeOK, IdsInv, NextFiring, fire.id \in RunIds, UNCHANGED <<manual, nextRunId, handed>>,
           \A r \in RunIds : r # fire.id /\ rpc[r] = "idle" => rpc'[r] = "idle"
    PROVE  /\ (Unused /\ LoopClear /\ FireOK /\ QueuesOK)'
           /\ \A f \in Firings : HeldOK(f) => HeldOK(f)'
           /\ fire'.id # fire.id /\ Apart(todo', fire.id)
<1>0. /\ todo \in Seq(RunIds) /\ \A i \in 1..Len(manual) : manual[i] \in RunIds
      /\ \A i \in 1..Len(todo) : todo[i] \in RunIds
  BY DEF TypeOK, LoopType, NotifyType
<1>1. PICK x \in RunIds : x = fire.id
  OBVIOUS
<1>2. Spare(x) /\ Apart(manual, x) /\ Apart(todo, x) /\ x # NoRun
  BY <1>1 DEF IdsInv, FireOK, RunIds, NoRun
<1>3. \A r \in RunIds : r # x /\ Spare(r) => Spare(r)'
  BY <1>1 DEF Spare
<1>4. Unused'
  <2>1. \A r \in RunIds : r >= nextRunId => r # x
    BY <1>2 DEF Spare, RunIds, TypeOK, IdsType
  <2>q. QED
    BY <1>1, <2>1 DEF IdsInv, Unused
<1>5. \A f \in Firings : f.id # NoRun => f.id \in RunIds
  BY DEF Firings
<1>6. CASE todo = <<>>
  <2>1. fire' = NoFiring /\ todo' = todo /\ fire'.id = NoRun /\ Len(todo) = 0
    BY <1>6 DEF NextFiring, NoFiring
  <2>2. LoopClear' /\ FireOK'
    BY <1>6, <2>1 DEF LoopClear, FireOK
  <2>3. QueueOK(manual)'
    BY <1>0, <1>2, <1>3 DEF IdsInv, QueuesOK, QueueOK, Apart
  <2>4. QueuesOK'
    BY <2>1, <2>3 DEF QueuesOK, QueueOK
  <2>5. ASSUME NEW f \in Firings, HeldOK(f) PROVE HeldOK(f)'
    BY <1>1, <1>3, <1>5, <2>1, <2>5 DEF HeldOK, Marked, Apart
  <2>q. QED
    BY <1>1, <1>2, <1>4, <2>1, <2>2, <2>4, <2>5
<1>7. CASE todo # <<>>
  <2>1. /\ fire' = [id |-> Head(todo), trigger |-> "Manual"] /\ todo' = Tail(todo)
        /\ lpc' = "maybe"
    BY <1>7 DEF NextFiring
  <2>2. PICK y \in RunIds : y = todo[1] /\ y = Head(todo) /\ fire'.id = y /\ fire'.trigger = "Manual"
    BY <1>0, <1>7, <2>1, QueueTail
  <2>3. /\ 1 \in 1..Len(todo)
        /\ \A i \in 1..Len(todo') : todo'[i] = todo[i + 1] /\ i + 1 \in 1..Len(todo) /\ i + 1 # 1
        /\ \A i \in 1..Len(todo') : i \in Int
    BY <1>0, <1>7, <2>1, QueueTail
  <2>4. Spare(y) /\ y \in handed /\ Apart(manual, y) /\ y # x
    BY <1>2, <2>2, <2>3 DEF IdsInv, QueuesOK, QueueOK, Apart
  <2>5. Apart(todo', y) /\ Apart(todo', x)
    BY <1>2, <2>2, <2>3 DEF IdsInv, QueuesOK, QueueOK, Apart
  <2>6. LoopClear'
    BY <2>1 DEF LoopClear, FiringPhase
  <2>7. FireOK'
    BY <1>3, <2>2, <2>4, <2>5 DEF FireOK, Marked, Apart
  <2>8. QueueOK(manual)'
    BY <1>0, <1>2, <1>3 DEF IdsInv, QueuesOK, QueueOK, Apart
  <2>9. QueueOK(todo)'
    <3>0. PICK t : t = todo'
      OBVIOUS
    <3>1. ASSUME NEW i \in 1..Len(t) PROVE Spare(t[i])' /\ t[i] \in handed'
      <4>1. t[i] = todo[i + 1] /\ i + 1 \in 1..Len(todo)
        BY <2>3, <3>0
      <4>2. t[i] \in RunIds /\ Spare(t[i]) /\ t[i] \in handed /\ t[i] # x
        BY <1>0, <1>2, <4>1 DEF IdsInv, QueuesOK, QueueOK, Apart
      <4>q. QED
        BY <1>3, <4>2
    <3>2. ASSUME NEW i \in 1..Len(t), NEW j \in 1..Len(t), t[i] = t[j] PROVE i = j
      <4>1. i + 1 = j + 1 /\ i \in Int /\ j \in Int
        BY <2>3, <3>0, <3>2 DEF IdsInv, QueuesOK, QueueOK
      <4>q. QED
        BY <4>1
    <3>q. QED
      BY <3>0, <3>1, <3>2 DEF QueueOK
  <2>10. \A i \in 1..Len(todo') : Apart(manual', todo'[i])
    BY <2>3 DEF IdsInv, QueuesOK, Apart
  <2>11. ASSUME NEW f \in Firings, HeldOK(f), f.id # NoRun PROVE HeldOK(f)'
    <3>1. /\ f.id \in RunIds /\ Spare(f.id) /\ Marked(f) /\ f.id # x
          /\ Apart(manual, f.id) /\ Apart(todo, f.id)
      BY <1>1, <1>5, <2>11 DEF HeldOK
    <3>2. Spare(f.id)' /\ Marked(f)'
      BY <1>3, <3>1 DEF Marked
    <3>3. f.id # y /\ Apart(todo', f.id) /\ Apart(manual', f.id)
      BY <2>2, <2>3, <3>1 DEF Apart
    <3>q. QED
      BY <2>2, <3>2, <3>3 DEF HeldOK
  <2>12. \A f \in Firings : f.id = NoRun => HeldOK(f)'
    BY DEF HeldOK
  <2>q. QED
    BY <1>1, <1>4, <2>2, <2>4, <2>5, <2>6, <2>7, <2>8, <2>9, <2>10, <2>11, <2>12 DEF QueuesOK
<1>q. QED
  BY <1>6, <1>7

\* The loop decides a firing by itself and takes the next id for it.
LEMMA IdsScheduled ==
    ASSUME TypeOK, IdsInv, lpc \notin FiringPhase, ScheduledFiring,
           nextRunId <= MaxRuns, UNCHANGED <<manual, todo, pending, taken, rpc>>
    PROVE  IdsInv'
<1>1. PICK n \in Nat : n = nextRunId /\ n >= 1
  BY DEF TypeOK, IdsType
<1>2. /\ fire' = [id |-> n, trigger |-> "Schedule"] /\ fire'.id = n /\ fire'.trigger = "Schedule"
      /\ nextRunId' = n + 1 /\ lpc' = "maybe" /\ handed' = handed
  BY <1>1 DEF ScheduledFiring
<1>3. /\ fire = NoFiring /\ todo = <<>> /\ Len(todo) = 0
      /\ manual \in Seq(RunIds) /\ Len(manual) \in Nat
      /\ \A i \in 1..Len(manual) : manual[i] \in RunIds
      /\ \A r \in RunIds : r \in Int
      /\ \A f \in Firings : f.id # NoRun => f.id \in RunIds
      /\ pending \in Firings /\ \A q \in RunIds : taken[q] \in Firings
  BY DEF IdsInv, LoopClear, TypeOK, NotifyType, GuardType, RunType, RunIds, Firings
<1>4. \A r \in RunIds : Spare(r) => Spare(r)' /\ r # n
  BY <1>1, <1>2, <1>3 DEF Spare
<1>5. Unused'
  <2>1. \A r \in RunIds : r >= n + 1 => r >= n
    BY <1>1, <1>3
  <2>2. \A r \in handed : r \in RunIds /\ r < n
    BY <1>1 DEF IdsInv, Unused, TypeOK, IdsType
  <2>3. \A r \in RunIds : r < n => r < n + 1
    BY <1>1, <1>3
  <2>q. QED
    BY <1>1, <1>2, <2>1, <2>2, <2>3 DEF IdsInv, Unused
<1>6. LoopClear'
  BY <1>2 DEF LoopClear, FiringPhase
<1>7. QueuesOK'
  BY <1>2, <1>3, <1>4 DEF IdsInv, QueuesOK, QueueOK
<1>8. Apart(manual, n)
  BY <1>3, <1>4 DEF IdsInv, QueuesOK, QueueOK, Apart
<1>9. n \notin handed
  BY <1>1 DEF IdsInv, Unused
<1>10. FireOK'
  <2>1. n \in RunIds => Spare(n)'
    BY <1>1, <1>2 DEF IdsInv, Unused, Spare
  <2>2. n \in RunIds
    BY <1>1 DEF RunIds
  <2>q. QED
    BY <1>2, <1>3, <1>8, <1>9, <2>1, <2>2 DEF FireOK, Marked, Apart
<1>11. ASSUME NEW f \in Firings, HeldOK(f) PROVE HeldOK(f)'
  BY <1>2, <1>3, <1>4, <1>11 DEF HeldOK, Marked, Apart
<1>12. DeferredOK'
  BY <1>3, <1>11 DEF IdsInv, DeferredOK
<1>q. QED
  BY <1>5, <1>6, <1>7, <1>10, <1>12 DEF IdsInv

\* take_manual: the whole queue moves into the loop's hands.
LEMMA IdsDrained ==
    ASSUME TypeOK, IdsInv, TakeManual
    PROVE  IdsInv'
<1>1. /\ lpc = "drain" /\ manual' = <<>> /\ Len(manual') = 0
      /\ UNCHANGED <<nextRunId, handed, pending, taken, rpc>>
  BY DEF TakeManual, ManualDrained, ids, guard, run
<1>2. /\ fire = NoFiring /\ todo = <<>> /\ fire.id = NoRun
      /\ manual \in Seq(RunIds) /\ \A i \in 1..Len(manual) : manual[i] \in RunIds
      /\ \A f \in Firings : f.id # NoRun => f.id \in RunIds
      /\ pending \in Firings /\ \A q \in RunIds : taken[q] \in Firings
  BY <1>1 DEF IdsInv, LoopClear, FiringPhase, TypeOK, NotifyType, GuardType, RunType, Firings, NoFiring
<1>3. CASE manual = <<>>
  <2>1. manual' = manual /\ lpc' = "top" /\ UNCHANGED <<fire, todo>>
    BY <1>1, <1>3 DEF TakeManual
  <2>q. QED
    BY <1>1, <2>1, IdsFrame DEF FiringPhase
<1>4. CASE manual # <<>>
  <2>1. fire' = [id |-> Head(manual), trigger |-> "Manual"] /\ todo' = Tail(manual) /\ lpc' = "maybe"
    BY <1>4 DEF TakeManual
  <2>a. PICK t : t = todo' /\ t = Tail(manual)
    BY <2>1
  <2>b. PICK y \in RunIds : y = manual[1] /\ fire'.id = y /\ fire'.trigger = "Manual"
    BY <1>2, <1>4, <2>1, QueueTail
  <2>2. y = manual[1] /\ fire'.id = y /\ fire'.trigger = "Manual" /\ t = todo' /\ t = Tail(manual)
    BY <2>a, <2>b
  <2>3. /\ 1 \in 1..Len(manual)
        /\ \A i \in 1..Len(t) : t[i] = manual[i + 1] /\ i + 1 \in 1..Len(manual) /\ i + 1 # 1
        /\ \A i \in 1..Len(t) : i \in Int
    BY <1>2, <1>4, <2>2, QueueTail
  <2>4. Spare(y) /\ y \in handed
    BY <2>2, <2>3 DEF IdsInv, QueuesOK, QueueOK
  <2>5. Apart(t, y)
    BY <2>2, <2>3 DEF IdsInv, QueuesOK, QueueOK, Apart
  <2>6. \A r \in RunIds : Spare(r) => Spare(r)'
    BY <1>1 DEF Spare
  <2>7. FireOK'
    BY <1>1, <2>2, <2>4, <2>5, <2>6 DEF FireOK, Marked, Apart
  <2>8. QueueOK(t)'
    <3>1. ASSUME NEW i \in 1..Len(t) PROVE Spare(t[i])' /\ t[i] \in handed'
      <4>1. t[i] \in RunIds /\ Spare(t[i]) /\ t[i] \in handed
        BY <1>2, <2>3 DEF IdsInv, QueuesOK, QueueOK
      <4>q. QED
        BY <1>1, <2>6, <4>1
    <3>2. ASSUME NEW i \in 1..Len(t), NEW j \in 1..Len(t), t[i] = t[j] PROVE i = j
      <4>1. i + 1 = j + 1 /\ i \in Int /\ j \in Int
        BY <2>3, <3>2 DEF IdsInv, QueuesOK, QueueOK
      <4>q. QED
        BY <4>1
    <3>q. QED
      BY <3>1, <3>2 DEF QueueOK
  <2>9. QueuesOK'
    <3>1. QueueOK(todo)'
      BY <2>2, <2>8 DEF QueueOK
    <3>2. \A i \in 1..Len(manual') : FALSE
      BY <1>1
    <3>q. QED
      BY <3>1, <3>2 DEF QueuesOK, QueueOK, Apart
  <2>10. ASSUME NEW f \in Firings, HeldOK(f), f.id # NoRun PROVE HeldOK(f)'
    <3>1. f.id \in RunIds /\ Spare(f.id) /\ Marked(f) /\ Apart(manual, f.id)
      BY <1>2, <2>10 DEF HeldOK
    <3>2. Spare(f.id)' /\ Marked(f)'
      BY <1>1, <2>6, <3>1 DEF Marked
    <3>3. f.id # y /\ Apart(todo', f.id)
      BY <2>2, <2>3, <3>1 DEF Apart
    <3>4. Apart(manual', f.id)
      BY <1>1 DEF Apart
    <3>q. QED
      BY <2>2, <3>2, <3>3, <3>4 DEF HeldOK
  <2>11. \A f \in Firings : HeldOK(f) => HeldOK(f)'
    <3>1. \A f \in Firings : f.id = NoRun => HeldOK(f)'
      BY DEF HeldOK
    <3>q. QED
      BY <2>10, <3>1
  <2>12. DeferredOK'
    BY <1>1, <1>2, <2>11 DEF IdsInv, DeferredOK
  <2>13. Unused' /\ LoopClear'
    BY <1>1, <2>1 DEF IdsInv, Unused, LoopClear, FiringPhase
  <2>q. QED
    BY <2>7, <2>9, <2>12, <2>13 DEF IdsInv
<1>q. QED
  BY <1>3, <1>4

\* mark_pending: the firing moves from the loop's hands into the slot, or is dropped.
LEMMA IdsDeferred ==
    ASSUME TypeOK, FiringsNamed, IdsInv, MarkPending
    PROVE  IdsInv'
<1>1. /\ NextFiring /\ fire.id \in RunIds /\ pending' \in {fire, pending}
      /\ UNCHANGED <<manual, nextRunId, handed, taken, rpc>>
  BY DEF MarkPending, Defer, FiringsNamed, notify, ids, run
<1>2. /\ (Unused /\ LoopClear /\ FireOK /\ QueuesOK)'
      /\ \A f \in Firings : HeldOK(f) => HeldOK(f)'
      /\ fire'.id # fire.id /\ Apart(todo', fire.id)
  BY <1>1, IdsAdvance
<1>3. fire \in Firings /\ pending \in Firings /\ \A q \in RunIds : taken[q] \in Firings
  BY DEF TypeOK, LoopType, GuardType, RunType
<1>4. PICK f \in Firings : f = fire
  BY <1>3
<1>5. HeldOK(f)'
  <2>1. f.id \in RunIds /\ Spare(f.id) /\ Marked(f) /\ Apart(manual, f.id)
    BY <1>1, <1>4 DEF IdsInv, FireOK, RunIds, NoRun
  <2>2. Spare(f.id)' /\ Marked(f)'
    BY <1>1, <2>1 DEF Spare, Marked
  <2>q. QED
    BY <1>1, <1>2, <1>4, <2>1, <2>2 DEF HeldOK
<1>6. HeldOK(pending)'
  <2>1. PICK g \in Firings : g = pending' /\ HeldOK(g)'
    BY <1>1, <1>2, <1>3, <1>4, <1>5 DEF IdsInv, DeferredOK
  <2>q. QED
    BY <2>1 DEF HeldOK, Marked
<1>7. \A q \in RunIds : taken[q].id # NoRun => taken[q].id # pending'.id
  BY <1>1 DEF IdsInv, DeferredOK, HeldOK
<1>8. \A q \in RunIds : HeldOK(taken[q])'
  <2>1. ASSUME NEW q \in RunIds PROVE HeldOK(taken[q])'
    <3>1. PICK g \in Firings : g = taken[q] /\ HeldOK(g)'
      BY <1>2, <1>3 DEF IdsInv, DeferredOK
    <3>2. taken'[q] = g
      BY <1>1, <3>1
    <3>q. QED
      BY <3>1, <3>2 DEF HeldOK, Marked
  <2>q. QED
    BY <2>1
<1>9. DeferredOK'
  BY <1>1, <1>6, <1>7, <1>8 DEF IdsInv, DeferredOK
<1>q. QED
  BY <1>2, <1>9 DEF IdsInv

\* A run of the loop's firing starts, or is counted as skipped.
LEMMA IdsConsumed ==
    ASSUME TypeOK, FiringsNamed, IdsInv, LoopSkip \/ LoopStart
    PROVE  IdsInv' /\ (LoopStart => rpc[fire.id] = "idle" /\ Marked(fire))
<1>1. /\ NextFiring /\ fire.id \in RunIds
      /\ UNCHANGED <<manual, nextRunId, handed, taken, pending>>
      /\ \A r \in RunIds : r # fire.id /\ rpc[r] = "idle" => rpc'[r] = "idle"
  BY DEF LoopSkip, LoopStart, FiringsNamed, notify, ids, run, guard, TypeOK, RunType
<1>2. /\ (Unused /\ LoopClear /\ FireOK /\ QueuesOK)'
      /\ \A f \in Firings : HeldOK(f) => HeldOK(f)'
  BY <1>1, IdsAdvance
<1>3. pending \in Firings /\ \A q \in RunIds : taken[q] \in Firings
  BY DEF TypeOK, GuardType, RunType
<1>4. HeldOK(pending)'
  <2>1. PICK g \in Firings : g = pending /\ HeldOK(g)'
    BY <1>2, <1>3 DEF IdsInv, DeferredOK
  <2>q. QED
    BY <1>1, <2>1 DEF HeldOK, Marked
<1>5. ASSUME NEW q \in RunIds PROVE HeldOK(taken[q])'
  <2>1. PICK g \in Firings : g = taken[q] /\ HeldOK(g)'
    BY <1>2, <1>3 DEF IdsInv, DeferredOK
  <2>2. taken'[q] = g
    BY <1>1, <2>1
  <2>q. QED
    BY <2>1, <2>2 DEF HeldOK, Marked
<1>6. DeferredOK'
  BY <1>1, <1>4, <1>5 DEF IdsInv, DeferredOK
<1>7. rpc[fire.id] = "idle" /\ Marked(fire)
  BY <1>1 DEF IdsInv, FireOK, Spare, RunIds, NoRun
<1>q. QED
  BY <1>2, <1>6, <1>7 DEF IdsInv

\* The loop keeps the ids apart.
LEMMA IdsLoop ==
    ASSUME TypeOK, FiringsNamed, IdsInv, Loop
    PROVE  IdsInv'
<1>1. CASE LoopInit \/ LoopCheckPaused
  <2>1. lpc \notin FiringPhase /\ UNCHANGED <<manual, todo, pending, taken, rpc>>
    BY <1>1 DEF LoopInit, LoopCheckPaused, FiringPhase, notify, guard, run
  <2>2. \/ nextRunId <= MaxRuns /\ ScheduledFiring
        \/ UNCHANGED <<fire, nextRunId, handed>>
    BY <1>1 DEF LoopInit, LoopCheckPaused, ids
  <2>q. QED
    BY <2>1, <2>2, IdsScheduled, IdsFrame
<1>2. CASE LoopCompute \/ LoopTop \/ LoopPublish \/ LoopExit \/ LoopSignal \/ LoopUnregister
           \/ LoopWoken \/ LoopTriggered \/ LoopTimer
  <2>1. /\ lpc \notin FiringPhase
        /\ UNCHANGED <<fire, todo, manual, nextRunId, handed, pending, taken, rpc>>
    BY <1>2 DEF LoopCompute, LoopTop, LoopPublish, LoopExit, LoopSignal, LoopUnregister,
       LoopWoken, LoopTriggered, LoopTimer, FiringPhase, notify, ids, guard, run
  <2>q. QED
    BY <2>1, IdsFrame
<1>3. CASE MaybeStartRun \/ CancelActiveRun
  <2>1. /\ lpc' \in FiringPhase
        /\ UNCHANGED <<fire, todo, manual, nextRunId, handed, pending, taken, rpc>>
    BY <1>3 DEF MaybeStartRun, CancelActiveRun, OnOverlap, OverlapPolicy, FiringPhase, notify,
       ids, guard, run, TypeOK
  <2>q. QED
    BY <2>1, IdsFrame
<1>q. QED
  BY <1>1, <1>2, <1>3, IdsDrained, IdsDeferred, IdsConsumed DEF Loop

\* What the end of a run does to the deferred firing: it is taken, started or lost.
LEMMA IdsRun ==
    ASSUME TypeOK, FiringsNamed, RestartNamed, IdsInv, NEW r \in RunIds, RunStep(r) \/ Body(r)
    PROVE  IdsInv' /\ (StartDeferred(r) => rpc[taken[r].id] = "idle" /\ Marked(taken[r]))
<1>1. UNCHANGED <<lpc, fire, todo, manual, nextRunId, handed>>
  BY DEF RunStep, Body, RecordStart, ReportProgress, BodyEnds, BodyCancelled, BodyTimedOut,
     BodyReturns, BodyPanics, FinishRead, FinishProgress, FinishShared, ClearRunToken, ExitRun,
     TakePending, CheckRestart, StartDeferred, EndRun, loop, notify, ids
<1>2. rpc[r] # "idle" /\ rpc \in [RunIds -> RunPhase] /\ taken \in [RunIds -> Firings]
  BY DEF RunStep, Body, RecordStart, ReportProgress, BodyEnds, BodyCancelled, BodyTimedOut,
     BodyReturns, BodyPanics, FinishRead, FinishProgress, FinishShared, ClearRunToken, ExitRun,
     TakePending, CheckRestart, StartDeferred, EndRun, TypeOK, RunType
<1>3. \A f \in Firings : f.id # NoRun => f.id \in RunIds
  BY DEF Firings
<1>4. CASE ~TakePending(r) /\ ~StartDeferred(r) /\ ~EndRun(r)
  <2>1. UNCHANGED <<pending, taken>>
    BY <1>4 DEF RunStep, Body, RecordStart, ReportProgress, BodyEnds, BodyCancelled,
       BodyTimedOut, BodyReturns, BodyPanics, FinishRead, FinishProgress, FinishShared,
       ClearRunToken, ExitRun, CheckRestart, guard, run
  <2>2. \A s \in RunIds : rpc[s] = "idle" => rpc'[s] = "idle"
    BY <1>2, <1>4 DEF RunStep, Body, RecordStart, ReportProgress, BodyEnds, BodyCancelled,
       BodyTimedOut, BodyReturns, BodyPanics, FinishRead, FinishProgress, FinishShared,
       ClearRunToken, ExitRun, CheckRestart, Goto, run
  <2>q. QED
    BY <1>1, <1>4, <2>1, <2>2, IdsFrame
<1>5. CASE TakePending(r) \/ EndRun(r)
  <2>1. /\ \A s \in RunIds : rpc[s] = "idle" => rpc'[s] = "idle"
        /\ \/ pending' = NoFiring /\ taken' = [taken EXCEPT ![r] = pending]
           \/ pending' = pending /\ taken' = [taken EXCEPT ![r] = NoFiring]
    BY <1>2, <1>5 DEF TakePending, PendingAfterTake, EndRun, Goto, guard
  <2>2. \A x \in RunIds : Spare(x) => Spare(x)'
    BY <1>1, <2>1 DEF Spare
  <2>3. Unused' /\ LoopClear'
    BY <1>1, <2>1 DEF IdsInv, Unused, LoopClear
  <2>4. FireOK'
    BY <1>1, <1>3, <2>2 DEF IdsInv, FireOK, Marked, Apart, TypeOK, LoopType
  <2>5. QueuesOK'
    <3>1. /\ \A i \in 1..Len(manual) : manual[i] \in RunIds
          /\ \A i \in 1..Len(todo) : todo[i] \in RunIds
      BY DEF TypeOK, NotifyType, LoopType
    <3>q. QED
      BY <1>1, <2>2, <3>1 DEF IdsInv, QueuesOK, QueueOK, Apart
  <2>6. \A f \in Firings : HeldOK(f) => HeldOK(f)'
    BY <1>1, <1>3, <2>2 DEF HeldOK, Marked, Apart
  <2>7. NoFiring \in Firings /\ pending \in Firings /\ HeldOK(NoFiring) /\ NoFiring.id = NoRun
    BY DEF NoFiring, Firings, JobTrigger, HeldOK, TypeOK, GuardType
  <2>8. pending' \in Firings /\ HeldOK(pending')
    BY <2>1, <2>7 DEF IdsInv, DeferredOK
  <2>9. \A q \in RunIds : taken'[q] \in Firings /\ HeldOK(taken'[q])
    BY <1>2, <2>1, <2>7 DEF IdsInv, DeferredOK
  <2>10. HeldOK(pending)'
    <3>1. PICK g \in Firings : g = pending' /\ HeldOK(g)'
      BY <2>6, <2>8
    <3>q. QED
      BY <3>1 DEF HeldOK, Marked
  <2>11. ASSUME NEW q \in RunIds PROVE HeldOK(taken[q])'
    <3>1. PICK g \in Firings : g = taken'[q] /\ HeldOK(g)'
      BY <2>6, <2>9
    <3>q. QED
      BY <3>1 DEF HeldOK, Marked
  <2>12. \A q \in RunIds : taken'[q].id # NoRun => taken'[q].id # pending'.id
    BY <1>2, <2>1, <2>7 DEF IdsInv, DeferredOK
  <2>13. \A q, s \in RunIds : taken'[q].id = taken'[s].id /\ taken'[q].id # NoRun => q = s
    BY <1>2, <2>1, <2>7 DEF IdsInv, DeferredOK
  <2>14. DeferredOK'
    BY <2>10, <2>11, <2>12, <2>13 DEF DeferredOK
  <2>q. QED
    BY <1>5, <2>3, <2>4, <2>5, <2>14 DEF IdsInv, TakePending, EndRun, StartDeferred
<1>6. CASE StartDeferred(r)
  <2>1. PICK x \in RunIds : x = taken[r].id /\ x # NoRun
    BY <1>6 DEF StartDeferred, RestartNamed, FiringsNamed, RunIds, NoRun
  <2>2. /\ rpc' = [rpc EXCEPT ![r] = "ended", ![x] = "spawned"] /\ pending' = pending
        /\ taken' = [taken EXCEPT ![r] = NoFiring]
    BY <1>6, <2>1 DEF StartDeferred
  <2>3. /\ Spare(x) /\ x # fire.id /\ Apart(manual, x) /\ Apart(todo, x) /\ Marked(taken[r])
    BY <2>1 DEF IdsInv, DeferredOK, HeldOK
  <2>4. \A s \in RunIds : s # x /\ Spare(s) => Spare(s)'
    BY <1>1, <1>2, <2>2 DEF Spare
  <2>5. Unused'
    <3>1. \A s \in RunIds : s >= nextRunId => s # x
      BY <2>3 DEF Spare, RunIds, TypeOK, IdsType
    <3>q. QED
      BY <1>1, <1>2, <2>2, <3>1 DEF IdsInv, Unused
  <2>6. LoopClear' /\ FireOK'
    BY <1>1, <1>3, <2>3, <2>4 DEF IdsInv, LoopClear, FireOK, Marked, Apart, TypeOK, LoopType
  <2>7. QueuesOK'
    <3>1. /\ \A i \in 1..Len(manual) : manual[i] \in RunIds
          /\ \A i \in 1..Len(todo) : todo[i] \in RunIds
      BY DEF TypeOK, NotifyType, LoopType
    <3>q. QED
      BY <1>1, <2>3, <2>4, <3>1 DEF IdsInv, QueuesOK, QueueOK, Apart
  <2>8. \A f \in Firings : HeldOK(f) /\ f.id # x => HeldOK(f)'
    BY <1>1, <1>3, <2>4 DEF HeldOK, Marked, Apart
  <2>9. HeldOK(pending)'
    <3>1. PICK g \in Firings : g = pending /\ HeldOK(g)'
      BY <2>1, <2>8 DEF IdsInv, DeferredOK, TypeOK, GuardType
    <3>q. QED
      BY <2>2, <3>1 DEF HeldOK, Marked
  <2>10. ASSUME NEW q \in RunIds PROVE HeldOK(taken[q])'
    <3>1. CASE q = r
      <4>1. taken'[q].id = NoRun
        BY <1>2, <2>2, <3>1 DEF NoFiring
      <4>q. QED
        BY <4>1 DEF HeldOK
    <3>2. CASE q # r
      <4>1. taken'[q] = taken[q] /\ taken[q].id # x
        BY <1>2, <2>1, <2>2, <3>2 DEF IdsInv, DeferredOK
      <4>2. PICK g \in Firings : g = taken'[q] /\ HeldOK(g)'
        BY <1>2, <2>8, <4>1 DEF IdsInv, DeferredOK
      <4>q. QED
        BY <4>2 DEF HeldOK, Marked
    <3>q. QED
      BY <3>1, <3>2
  <2>11. \A q \in RunIds : taken'[q] = taken[q] \/ taken'[q].id = NoRun
    BY <1>2, <2>2 DEF NoFiring
  <2>12. DeferredOK'
    BY <2>2, <2>9, <2>10, <2>11 DEF IdsInv, DeferredOK
  <2>q. QED
    BY <2>1, <2>3, <2>5, <2>6, <2>7, <2>12 DEF IdsInv, Spare
<1>q. QED
  BY <1>4, <1>5, <1>6

\* run_now queues a new id; no other call touches one.
LEMMA IdsCall ==
    ASSUME TypeOK, IdsInv, NEW c \in Callers, Call(c) \/ CallReturn(c)
    PROVE  IdsInv'
<1>1. UNCHANGED <<rpc, lpc, fire, todo, pending, taken>>
  BY CallLeavesRuns DEF loop, guard
<1>2. CASE ~RunNow(c)
  <2>1. UNCHANGED <<manual, nextRunId, handed>>
    BY <1>2 DEF Call, CallReturn, Lookup, Pause, Resume, Reschedule, CancelAndWait, HandleCancel,
       NotifyWake, NotifyTriggered, CancelToken, CancelReturns, BeginCancel, notify, ids
  <2>q. QED
    BY <1>1, <2>1, IdsFrame
<1>3. CASE RunNow(c)
  <2>1. PICK n \in RunIds : /\ n = nextRunId /\ nextRunId' = n + 1 /\ handed' = handed \cup {n}
                            /\ manual' = Append(manual, n)
    BY <1>3 DEF RunNow, TypeOK, IdsType, RunIds
  <2>2. /\ \A r \in RunIds : r \in Int
        /\ \A f \in Firings : f.id # NoRun => f.id \in RunIds
        /\ fire \in Firings /\ pending \in Firings /\ \A q \in RunIds : taken[q] \in Firings
        /\ \A i \in 1..Len(manual) : manual[i] \in RunIds
        /\ \A i \in 1..Len(todo) : todo[i] \in RunIds
        /\ \A r \in handed : r \in RunIds /\ r < n
    BY <2>1 DEF TypeOK, LoopType, GuardType, RunType, NotifyType, IdsType, RunIds, Firings, IdsInv,
       Unused
  <2>a. PICK l \in Nat : l = Len(manual)
    BY DEF TypeOK, NotifyType
  <2>b. PICK m : m = manual'
    OBVIOUS
  <2>3. /\ l = Len(manual) /\ m = manual' /\ Len(m) = l + 1 /\ m[l + 1] = n
        /\ \A i \in 1..l : m[i] = manual[i]
    BY <2>1, <2>a, <2>b DEF TypeOK, NotifyType
  <2>4. \A r \in RunIds : Spare(r) => Spare(r)' /\ r # n
    BY <1>1, <2>1, <2>2 DEF Spare
  <2>5. \A i \in 1..(l + 1) : i \in 1..l \/ i = l + 1
    OBVIOUS
  <2>6. \A r \in RunIds : Spare(r) /\ Apart(manual, r) => Apart(m, r)
    BY <2>3, <2>4, <2>5 DEF Apart
  <2>7. Unused' /\ LoopClear' /\ Spare(n)'
    <3>1. \A r \in RunIds : r >= n + 1 => r >= n
      BY <2>2
    <3>2. \A r \in RunIds : r < n => r < n + 1
      BY <2>2
    <3>3. n < n + 1
      BY <2>2
    <3>q. QED
      BY <1>1, <2>1, <2>2, <3>1, <3>2, <3>3 DEF IdsInv, Unused, LoopClear, Spare
  <2>8. FireOK'
    BY <1>1, <2>1, <2>2, <2>3, <2>4, <2>6 DEF IdsInv, FireOK, Marked, Apart
  <2>9. QueueOK(m)'
    <3>1. ASSUME NEW i \in 1..Len(m) PROVE Spare(m[i])' /\ m[i] \in handed'
      <4>1. CASE i \in 1..l
        BY <2>1, <2>2, <2>3, <2>4, <4>1 DEF IdsInv, QueuesOK, QueueOK
      <4>2. CASE i = l + 1
        BY <2>1, <2>3, <2>7, <4>2
      <4>q. QED
        BY <2>3, <2>5, <4>1, <4>2
    <3>2. \A i \in 1..l : m[i] # n
      BY <2>2, <2>3, <2>4 DEF IdsInv, QueuesOK, QueueOK
    <3>3. \A i, j \in 1..l : m[i] = m[j] => i = j
      BY <2>3 DEF IdsInv, QueuesOK, QueueOK
    <3>4. \A i, j \in 1..Len(m) : m[i] = m[j] => i = j
      BY <2>3, <2>5, <3>2, <3>3
    <3>q. QED
      BY <3>1, <3>4 DEF QueueOK
  <2>10. QueuesOK'
    <3>1. QueueOK(manual)'
      BY <2>3, <2>9 DEF QueueOK
    <3>2. QueueOK(todo)'
      BY <1>1, <2>1, <2>2, <2>4 DEF IdsInv, QueuesOK, QueueOK
    <3>3. \A i \in 1..Len(todo) : Apart(m, todo[i])
      BY <2>2, <2>6 DEF IdsInv, QueuesOK, QueueOK
    <3>q. QED
      BY <1>1, <2>3, <3>1, <3>2, <3>3 DEF QueuesOK, Apart
  <2>11. ASSUME NEW f \in Firings, HeldOK(f) PROVE HeldOK(f)'
    BY <1>1, <2>1, <2>2, <2>3, <2>4, <2>6, <2>11 DEF HeldOK, Marked, Apart
  <2>12. HeldOK(pending)' /\ \A q \in RunIds : HeldOK(taken[q])'
    <3>1. PICK p \in Firings : p = pending /\ HeldOK(p)'
      BY <2>2, <2>11 DEF IdsInv, DeferredOK
    <3>2. HeldOK(pending)'
      BY <1>1, <3>1 DEF HeldOK, Marked
    <3>3. ASSUME NEW q \in RunIds PROVE HeldOK(taken[q])'
      <4>1. PICK g \in Firings : g = taken[q] /\ g = taken'[q] /\ HeldOK(g)'
        BY <1>1, <2>2, <2>11 DEF IdsInv, DeferredOK
      <4>q. QED
        BY <4>1 DEF HeldOK, Marked
    <3>q. QED
      BY <3>2, <3>3
  <2>13. DeferredOK'
    BY <1>1, <2>12 DEF IdsInv, DeferredOK
  <2>q. QED
    BY <2>7, <2>8, <2>10, <2>13 DEF IdsInv
<1>q. QED
  BY <1>2, <1>3

\* Every step keeps the ids apart.
LEMMA IdsInvNext == JobInv /\ IdsInv /\ [Next]_vars => IdsInv'
<1> SUFFICES ASSUME JobInv, IdsInv, [Next]_vars PROVE IdsInv'
  OBVIOUS
<1>0. TypeOK /\ FiringsNamed /\ RestartNamed
  BY DEF JobInv
<1>1. CASE Loop
  BY <1>0, <1>1, IdsLoop
<1>2. CASE \E r \in RunIds : RunStep(r) \/ Body(r)
  BY <1>0, <1>2, IdsRun
<1>3. CASE \E c \in Callers : Call(c) \/ CallReturn(c)
  BY <1>0, <1>3, IdsCall
<1>4. CASE DropScheduler \/ UNCHANGED vars
  <2>1. UNCHANGED <<lpc, fire, todo, manual, nextRunId, handed, pending, taken, rpc>>
    BY <1>4 DEF DropScheduler, vars, loop, notify, ids, guard, run
  <2>q. QED
    BY <1>0, <2>1, IdsFrame
<1>q. QED
  BY <1>1, <1>2, <1>3, <1>4 DEF Next

\* The invariant of the run ids holds throughout.
LEMMA IdsInvariant == Spec => [](JobInv /\ IdsInv)
<1>1. Init => IdsInv
  <2> SUFFICES ASSUME Init PROVE IdsInv
    OBVIOUS
  <2>1. /\ manual = <<>> /\ todo = <<>> /\ Len(manual) = 0 /\ Len(todo) = 0
        /\ fire = NoFiring /\ pending = NoFiring /\ NoFiring.id = NoRun /\ handed = {}
        /\ \A r \in RunIds : rpc[r] = "idle" /\ taken[r] = NoFiring
    BY DEF Init, NoFiring
  <2>2. Unused /\ LoopClear /\ FireOK /\ DeferredOK
    BY <2>1 DEF Unused, LoopClear, FireOK, DeferredOK, HeldOK
  <2>3. QueuesOK
    BY <2>1 DEF QueuesOK, QueueOK
  <2>q. QED
    BY <2>2, <2>3 DEF IdsInv
<1>q. QED
  BY <1>1, JobInvInit, JobInvNext, IdsInvNext, PTL DEF Spec

\* Who starts a run: the loop, or a run that ends under QueueOne.
LEMMA OnlyTwoStart ==
    ASSUME JobInv, [Next]_vars, NEW x \in RunIds, rpc[x] # "spawned", rpc'[x] = "spawned"
    PROVE  \/ LoopStart /\ x = fire.id
           \/ \E r \in RunIds : StartDeferred(r) /\ x = taken[r].id
<1>0. rpc \in [RunIds -> RunPhase]
  BY DEF JobInv, TypeOK, RunType
<1>1. CASE Loop
  <2>1. LoopStart
    BY <1>1, LoopLeavesRuns
  <2>q. QED
    BY <1>0, <2>1 DEF LoopStart
<1>2. CASE \E r \in RunIds : RunStep(r) \/ Body(r)
  <2>1. PICK r \in RunIds : RunStep(r) \/ Body(r)
    BY <1>2
  <2>2. CASE ~StartDeferred(r)
    <3>1. PICK p \in RunPhase \ {"spawned"} : rpc' \in {rpc, [rpc EXCEPT ![r] = p]}
      BY <2>1, <2>2 DEF RunStep, Body, RecordStart, ReportProgress, BodyEnds, BodyCancelled,
         BodyTimedOut, BodyReturns, BodyPanics, FinishRead, FinishProgress, FinishShared,
         ClearRunToken, ExitRun, TakePending, CheckRestart, EndRun, Goto, run, RunPhase,
         InFlightPhase
    <3>q. QED
      BY <1>0, <3>1
  <2>3. CASE StartDeferred(r)
    BY <1>0, <2>3 DEF StartDeferred
  <2>q. QED
    BY <2>2, <2>3
<1>3. CASE \E c \in Callers : Call(c) \/ CallReturn(c)
  BY <1>3, CallLeavesRuns
<1>4. CASE DropScheduler \/ UNCHANGED vars
  BY <1>4 DEF DropScheduler, vars, run
<1>q. QED
  BY <1>1, <1>2, <1>3, <1>4 DEF Next

\* No run id is started twice, by the loop or by a run that takes the deferred firing up,
\* and what a run records as its trigger is how its id was allocated, for every policy.
THEOREM IdsStartOnce == Spec => StartsOnce
<1>1. ASSUME JobInv, IdsInv, [Next]_vars
      PROVE  \A r \in RunIds : rpc[r] # "spawned" /\ rpc'[r] = "spawned"
                 => rpc[r] = "idle" /\ (runTrigger'[r] = "Manual" <=> r \in handed)
  <2> SUFFICES ASSUME NEW x \in RunIds, rpc[x] # "spawned", rpc'[x] = "spawned"
               PROVE  rpc[x] = "idle" /\ (runTrigger'[x] = "Manual" <=> x \in handed)
    OBVIOUS
  <2>0. TypeOK /\ FiringsNamed /\ RestartNamed /\ runTrigger \in [RunIds -> JobTrigger]
    BY <1>1 DEF JobInv, TypeOK, RunType
  <2>1. CASE LoopStart /\ x = fire.id
    <3>1. rpc[x] = "idle" /\ Marked(fire)
      BY <1>1, <2>0, <2>1, IdsConsumed
    <3>2. runTrigger'[x] = fire.trigger
      BY <2>0, <2>1 DEF LoopStart, StartRun
    <3>q. QED
      BY <2>1, <3>1, <3>2 DEF Marked
  <2>2. ASSUME NEW r \in RunIds, StartDeferred(r), x = taken[r].id
        PROVE  rpc[x] = "idle" /\ (runTrigger'[x] = "Manual" <=> x \in handed)
    <3>1. rpc[x] = "idle" /\ Marked(taken[r])
      BY <1>1, <2>0, <2>2, IdsRun DEF RunStep
    <3>2. runTrigger'[x] = taken[r].trigger
      BY <2>0, <2>2 DEF StartDeferred, StartRun
    <3>q. QED
      BY <2>2, <3>1, <3>2 DEF Marked
  <2>q. QED
    BY <1>1, <2>1, <2>2, OnlyTwoStart
<1>2. JobInv /\ IdsInv /\ [Next]_vars =>
        [\A r \in RunIds : rpc[r] # "spawned" /\ rpc'[r] = "spawned"
             => rpc[r] = "idle" /\ (runTrigger'[r] = "Manual" <=> r \in handed)]_vars
  BY <1>1
<1>q. QED
  BY <1>2, IdsInvariant, PTL DEF Spec, StartsOnce

-----------------------------------------------------------------------------
(* A deferred firing of a cancelled job.                                    *)

\* Nobody is left who could start r.
Lost(r) ==
    /\ token /\ Spare(r) /\ r # fire.id /\ Apart(manual, r) /\ Apart(todo, r)
    /\ \A q \in RunIds : rpc[q] = "startDeferred" => taken[q].id # r

\* The token stays cancelled.
LEMMA TokenStays == token /\ [Next]_vars => token'
<1> SUFFICES ASSUME token, [Next]_vars PROVE token'
  OBVIOUS
<1>1. CASE Loop
  BY <1>1 DEF Loop, LoopInit, LoopCompute, LoopTop, LoopPublish, LoopExit, LoopSignal,
     LoopUnregister, LoopWoken, LoopTriggered, TakeManual, LoopTimer, LoopCheckPaused,
     MaybeStartRun, LoopSkip, MarkPending, CancelActiveRun, LoopStart, life
<1>2. CASE \E r \in RunIds : RunStep(r) \/ Body(r)
  BY <1>2 DEF RunStep, Body, RecordStart, ReportProgress, BodyEnds, BodyCancelled, BodyTimedOut,
     BodyReturns, BodyPanics, FinishRead, FinishProgress, FinishShared, ClearRunToken, ExitRun,
     TakePending, CheckRestart, StartDeferred, EndRun, life
<1>3. CASE \E c \in Callers : Call(c) \/ CallReturn(c)
  BY <1>3 DEF Call, CallReturn, Lookup, Pause, Resume, Reschedule, RunNow, CancelAndWait,
     HandleCancel, NotifyWake, NotifyTriggered, CancelToken, TokenCancelled, CancelReturns,
     BeginCancel, life
<1>4. CASE DropScheduler \/ UNCHANGED vars
  BY <1>4 DEF DropScheduler, vars, life
<1>q. QED
  BY <1>1, <1>2, <1>3, <1>4 DEF Next

\* What is lost stays lost.
LEMMA LostStays ==
    ASSUME NEW r \in RunIds, JobInv, Lost(r), [Next]_vars
    PROVE  Lost(r)'
<1>0. /\ token' /\ TypeOK /\ Spare(r) /\ rpc[r] = "idle" /\ r # NoRun /\ r \in Int /\ nextRunId \in Int
      /\ r < nextRunId /\ r # fire.id /\ Apart(manual, r) /\ Apart(todo, r)
      /\ \A q \in RunIds : rpc[q] = "startDeferred" => taken[q].id # r
      /\ rpc \in [RunIds -> RunPhase] /\ todo \in Seq(RunIds) /\ manual \in Seq(RunIds)
      /\ taken \in [RunIds -> Firings]
  BY TokenStays DEF Lost, JobInv, TypeOK, RunType, LoopType, NotifyType, IdsType, Spare, RunIds, NoRun
<1>1. rpc'[r] = "idle"
  <2>1. CASE Loop
    BY <1>0, <2>1, LoopLeavesRuns DEF LoopStart
  <2>2. ASSUME NEW q \in RunIds, RunStep(q) \/ Body(q) PROVE rpc'[r] = "idle"
    <3>1. CASE StartDeferred(q)
      BY <1>0, <3>1 DEF StartDeferred
    <3>2. CASE ~StartDeferred(q)
      <4>1. rpc[q] # "idle" /\ \E p \in RunPhase : rpc' \in {rpc, [rpc EXCEPT ![q] = p]}
        BY <2>2, <3>2 DEF RunStep, Body, RecordStart, ReportProgress, BodyEnds, BodyCancelled,
           BodyTimedOut, BodyReturns, BodyPanics, FinishRead, FinishProgress, FinishShared,
           ClearRunToken, ExitRun, TakePending, CheckRestart, EndRun, Goto, run, RunPhase,
           InFlightPhase
      <4>q. QED
        BY <1>0, <4>1
    <3>q. QED
      BY <3>1, <3>2
  <2>3. CASE \E c \in Callers : Call(c) \/ CallReturn(c)
    BY <1>0, <2>3, CallLeavesRuns
  <2>4. CASE DropScheduler \/ UNCHANGED vars
    BY <1>0, <2>4 DEF DropScheduler, vars, run
  <2>q. QED
    BY <2>1, <2>2, <2>3, <2>4 DEF Next
<1>2. ASSUME NEW q \in RunIds, rpc'[q] = "startDeferred" PROVE taken'[q].id # r
  <2>1. CASE Loop
    <3>1. taken' = taken /\ rpc[q] = "startDeferred"
      BY <1>0, <1>2, <2>1, LoopLeavesRuns DEF Loop, LoopInit, LoopCompute, LoopTop, LoopPublish,
         LoopExit, LoopSignal, LoopUnregister, LoopWoken, LoopTriggered, TakeManual, LoopTimer,
         LoopCheckPaused, MaybeStartRun, LoopSkip, MarkPending, CancelActiveRun, LoopStart, run
    <3>q. QED
      BY <1>0, <3>1
  <2>2. ASSUME NEW x \in RunIds, RunStep(x) \/ Body(x) PROVE taken'[q].id # r
    <3>1. CASE TakePending(x) \/ EndRun(x) \/ StartDeferred(x)
      <4>1. q # x /\ rpc[q] = "startDeferred" /\ taken'[q] = taken[q]
        BY <1>0, <1>2, <3>1 DEF TakePending, EndRun, StartDeferred, Goto
      <4>q. QED
        BY <1>0, <4>1
    <3>2. CASE ~TakePending(x) /\ ~EndRun(x) /\ ~StartDeferred(x)
      <4>1. taken' = taken
        BY <2>2, <3>2 DEF RunStep, Body, RecordStart, ReportProgress, BodyEnds, BodyCancelled,
           BodyTimedOut, BodyReturns, BodyPanics, FinishRead, FinishProgress, FinishShared,
           ClearRunToken, ExitRun, CheckRestart, run
      <4>2. PICK p \in RunPhase \ {"startDeferred"} : rpc' \in {rpc, [rpc EXCEPT ![x] = p]}
        BY <1>0, <2>2, <3>2 DEF RunStep, Body, RecordStart, ReportProgress, BodyEnds,
           BodyCancelled, BodyTimedOut, BodyReturns, BodyPanics, FinishRead, FinishProgress,
           FinishShared, ClearRunToken, ExitRun, CheckRestart, Restarts, Goto, run, RunPhase,
           InFlightPhase, Lost
      <4>3. rpc[q] = "startDeferred"
        BY <1>0, <1>2, <4>2
      <4>q. QED
        BY <1>0, <4>1, <4>3
    <3>q. QED
      BY <3>1, <3>2
  <2>3. CASE \E c \in Callers : Call(c) \/ CallReturn(c)
    BY <1>0, <1>2, <2>3, CallLeavesRuns
  <2>4. CASE DropScheduler \/ UNCHANGED vars
    BY <1>0, <1>2, <2>4 DEF DropScheduler, vars, run
  <2>q. QED
    BY <2>1, <2>2, <2>3, <2>4 DEF Next
<1>3. /\ r < nextRunId' /\ r # fire'.id /\ Apart(manual', r) /\ Apart(todo', r)
  <2>1. CASE LoopInit \/ LoopCheckPaused
    <3>1. UNCHANGED <<manual, todo>>
      BY <2>1 DEF LoopInit, LoopCheckPaused, notify
    <3>2. \/ fire'.id = nextRunId /\ nextRunId' = nextRunId + 1
          \/ UNCHANGED <<fire, nextRunId>>
      BY <2>1 DEF LoopInit, LoopCheckPaused, ScheduledFiring, ids
    <3>3. nextRunId # r /\ r < nextRunId + 1
      BY <1>0
    <3>q. QED
      BY <1>0, <3>1, <3>2, <3>3
  <2>2. CASE TakeManual
    <3>1. nextRunId' = nextRunId /\ manual' = <<>>
      BY <2>2 DEF TakeManual, ManualDrained, ids
    <3>2. CASE manual = <<>>
      BY <1>0, <2>2, <3>1, <3>2 DEF TakeManual
    <3>3. CASE manual # <<>>
      <4>1. fire'.id = manual[1] /\ todo' = Tail(manual) /\ 1 \in 1..Len(manual)
        BY <1>0, <2>2, <3>3, QueueTail DEF TakeManual
      <4>2. Apart(todo', r)
        BY <1>0, <3>3, <4>1, QueueTail DEF Apart
      <4>3. Apart(manual', r)
        BY <3>1 DEF Apart
      <4>q. QED
        BY <1>0, <3>1, <4>1, <4>2, <4>3 DEF Apart
    <3>q. QED
      BY <3>2, <3>3
  <2>3. CASE LoopSkip \/ MarkPending \/ LoopStart
    <3>1. NextFiring /\ UNCHANGED <<manual, nextRunId>>
      BY <2>3 DEF LoopSkip, MarkPending, LoopStart, notify, ids
    <3>2. CASE todo = <<>>
      BY <1>0, <3>1, <3>2 DEF NextFiring, NoFiring
    <3>3. CASE todo # <<>>
      <4>1. fire'.id = todo[1] /\ todo' = Tail(todo) /\ 1 \in 1..Len(todo)
        BY <1>0, <3>1, <3>3, QueueTail DEF NextFiring
      <4>2. Apart(todo', r)
        BY <1>0, <3>3, <4>1, QueueTail DEF Apart
      <4>q. QED
        BY <1>0, <3>1, <4>1, <4>2 DEF Apart
    <3>q. QED
      BY <3>2, <3>3
  <2>4. CASE \E c \in Callers : RunNow(c)
    <3>1. /\ manual' = Append(manual, nextRunId) /\ nextRunId' = nextRunId + 1
          /\ UNCHANGED <<fire, todo>>
      BY <2>4 DEF RunNow, loop
    <3>2. nextRunId # r /\ r < nextRunId + 1
      BY <1>0
    <3>3. Apart(manual', r)
      <4>1. PICK l \in Nat : l = Len(manual)
        BY <1>0
      <4>2. /\ Len(manual') = l + 1 /\ manual'[l + 1] = nextRunId
            /\ \A i \in 1..l : manual'[i] = manual[i]
        BY <1>0, <3>1, <4>1
      <4>3. \A i \in 1..(l + 1) : i \in 1..l \/ i = l + 1
        OBVIOUS
      <4>q. QED
        BY <1>0, <3>2, <4>1, <4>2, <4>3 DEF Apart
    <3>q. QED
      BY <1>0, <3>1, <3>2, <3>3
  <2>5. CASE UNCHANGED <<fire, todo, manual, nextRunId>>
    BY <1>0, <2>5
  <2>6. \/ UNCHANGED <<fire, todo, manual, nextRunId>>
        \/ LoopInit \/ LoopCheckPaused \/ TakeManual \/ LoopSkip \/ MarkPending \/ LoopStart
        \/ \E c \in Callers : RunNow(c)
    <3>1. CASE Loop
      BY <3>1 DEF Loop, LoopCompute, LoopTop, LoopPublish, LoopExit, LoopSignal, LoopUnregister,
         LoopWoken, LoopTriggered, LoopTimer, MaybeStartRun, CancelActiveRun, notify, ids
    <3>2. CASE \E q \in RunIds : RunStep(q) \/ Body(q)
      BY <3>2 DEF RunStep, Body, RecordStart, ReportProgress, BodyEnds, BodyCancelled,
         BodyTimedOut, BodyReturns, BodyPanics, FinishRead, FinishProgress, FinishShared,
         ClearRunToken, ExitRun, TakePending, CheckRestart, StartDeferred, EndRun, loop, notify, ids
    <3>3. CASE \E c \in Callers : Call(c) \/ CallReturn(c)
      BY <3>3 DEF Call, CallReturn, Lookup, Pause, Resume, Reschedule, CancelAndWait, HandleCancel,
         NotifyWake, NotifyTriggered, CancelToken, CancelReturns, BeginCancel, loop, notify, ids
    <3>4. CASE DropScheduler \/ UNCHANGED vars
      BY <3>4 DEF DropScheduler, vars, loop, notify, ids
    <3>q. QED
      BY <3>1, <3>2, <3>3, <3>4 DEF Next
  <2>q. QED
    BY <2>1, <2>2, <2>3, <2>4, <2>5, <2>6
<1>q. QED
  BY <1>0, <1>1, <1>2, <1>3 DEF Lost, Spare, Apart

\* A firing that is still deferred when the job's token is cancelled never becomes a run,
\* although the run that takes it up checks the token before it starts it and not after.
THEOREM DeferredNeverRuns == ASSUME NEW r \in RunIds PROVE Spec => DeferredIsLost(r)
<1>1. JobInv /\ IdsInv /\ token /\ pending.id = r => Lost(r)
  <2> SUFFICES ASSUME JobInv, IdsInv, token, pending.id = r PROVE Lost(r)
    OBVIOUS
  <2>1. HeldOK(pending) /\ r # NoRun
    BY DEF IdsInv, DeferredOK, RunIds, NoRun
  <2>2. \A q \in RunIds : taken[q].id # r
    BY <2>1 DEF IdsInv, DeferredOK
  <2>q. QED
    BY <2>1, <2>2 DEF HeldOK, Lost
<1>2. JobInv /\ Lost(r) /\ [Next]_vars => Lost(r)'
  BY LostStays
<1>3. Lost(r) => rpc[r] = "idle"
  BY DEF Lost, Spare
<1>q. QED
  BY <1>1, <1>2, <1>3, IdsInvariant, PTL DEF Spec, DeferredIsLost

-----------------------------------------------------------------------------
(* Every firing is accounted for.                                           *)

\* Whether the loop holds a firing.
InHand == IF fire.id = NoRun THEN 0 ELSE 1

\* The first half of FiringsAccounted.
Accounted ==
    overlap # "QueueOne" =>
        nextRunId - 1 = skippedCount + runCount + Cardinality(Panicked) + Cardinality(Uncounted)
                        + Len(manual) + Len(todo) + InHand

\* What is added up are natural numbers.
LEMMA CountsType ==
    ASSUME TypeOK
    PROVE  /\ nextRunId \in Nat /\ skippedCount \in Nat /\ runCount \in Nat
           /\ IsFiniteSet(Panicked) /\ IsFiniteSet(Uncounted)
           /\ Cardinality(Panicked) \in Nat /\ Cardinality(Uncounted) \in Nat
           /\ Len(manual) \in Nat /\ Len(todo) \in Nat /\ InHand \in Nat
<1>1. IsFiniteSet(RunIds)
  BY FS_Interval DEF RunIds
<1>2. Panicked \subseteq RunIds /\ Uncounted \subseteq RunIds
  BY DEF Panicked, Uncounted, InFlight
<1>3. /\ IsFiniteSet(Panicked) /\ IsFiniteSet(Uncounted)
      /\ Cardinality(Panicked) \in Nat /\ Cardinality(Uncounted) \in Nat
  BY <1>1, <1>2, FS_Subset, FS_CardinalityType
<1>4. nextRunId \in Nat /\ skippedCount \in Nat /\ runCount \in Nat
  BY DEF TypeOK, IdsType, SharedType
<1>5. Len(manual) \in Nat /\ Len(todo) \in Nat /\ InHand \in Nat
  BY DEF TypeOK, NotifyType, LoopType, InHand
<1>q. QED
  BY <1>3, <1>4, <1>5

\* The end of a maybe_start_run uses one firing up.
LEMMA AdvanceCounts ==
    ASSUME TypeOK, NextFiring, fire.id \in RunIds
    PROVE  Len(todo') + InHand' = Len(todo) + InHand - 1
<1>1. InHand = 1 /\ todo \in Seq(RunIds)
  BY DEF InHand, RunIds, NoRun, TypeOK, LoopType
<1>2. CASE todo = <<>>
  <2>1. todo' = todo /\ InHand' = 0 /\ Len(todo) = 0
    BY <1>2 DEF NextFiring, NoFiring, InHand
  <2>q. QED
    BY <1>1, <2>1
<1>3. CASE todo # <<>>
  <2>1. Len(todo') = Len(todo) - 1 /\ Len(todo) \in Nat /\ fire'.id = todo[1] /\ todo[1] \in RunIds
    BY <1>1, <1>3, QueueTail DEF NextFiring
  <2>2. InHand' = 1
    BY <2>1 DEF InHand, RunIds, NoRun
  <2>q. QED
    BY <1>1, <2>1, <2>2
<1>q. QED
  BY <1>2, <1>3

\* Each step of the loop.
LEMMA AccountedLoop ==
    ASSUME JobInv, IdsInv, Accounted, overlap # "QueueOne", Loop
    PROVE  Accounted'
<1>0. TypeOK /\ FiringsNamed /\ lpc # "defer" /\ rpc \in [RunIds -> RunPhase]
  BY DEF JobInv, OnlyQueueOneDefers, TypeOK, RunType
<1>1. PICK n \in Nat, k \in Nat, c \in Nat, p \in Nat, u \in Nat, m \in Nat, t \in Nat, h \in Nat :
        /\ n = nextRunId /\ k = skippedCount /\ c = runCount /\ p = Cardinality(Panicked)
        /\ u = Cardinality(Uncounted) /\ m = Len(manual) /\ t = Len(todo) /\ h = InHand
  BY <1>0, CountsType
<1>2. n - 1 = k + c + p + u + m + t + h
  BY <1>1 DEF Accounted
<1>3. CASE LoopStart
  <2>1. /\ NextFiring /\ fire.id \in RunIds /\ rpc[fire.id] = "idle"
        /\ rpc' = [rpc EXCEPT ![fire.id] = "spawned"]
        /\ UNCHANGED <<nextRunId, skippedCount, runCount, manual>>
    BY <1>0, <1>3, IdsConsumed DEF LoopStart, FiringsNamed, shared, notify, ids
  <2>2. Panicked' = Panicked
    BY <1>0, <2>1 DEF Panicked
  <2>3. Uncounted' = Uncounted \cup {fire.id} /\ fire.id \notin Uncounted
    BY <1>0, <2>1 DEF Uncounted, InFlight, InFlightPhase
  <2>4. Cardinality(Uncounted') = u + 1
    BY <1>0, <1>1, <2>3, CountsType, FS_AddElement
  <2>5. Len(todo') + InHand' = t + h - 1
    BY <1>0, <1>1, <2>1, AdvanceCounts
  <2>6. TypeOK'
    BY <1>0, LoopTypes
  <2>7. PICK t1 \in Nat, h1 \in Nat : t1 = Len(todo') /\ h1 = InHand'
    BY <2>6 DEF TypeOK, LoopType, InHand
  <2>8. n - 1 = k + c + p + (u + 1) + m + t1 + h1
    BY <1>2, <2>5, <2>7
  <2>q. QED
    BY <1>1, <2>1, <2>2, <2>4, <2>7, <2>8 DEF Accounted
<1>4. CASE LoopSkip
  <2>1. /\ NextFiring /\ fire.id \in RunIds /\ rpc' = rpc /\ skippedCount' = k + 1
        /\ UNCHANGED <<nextRunId, runCount, manual>>
    BY <1>0, <1>1, <1>4 DEF LoopSkip, FiringsNamed, notify, ids, run
  <2>2. Panicked' = Panicked /\ Uncounted' = Uncounted
    BY <2>1 DEF Panicked, Uncounted, InFlight
  <2>3. Len(todo') + InHand' = t + h - 1
    BY <1>0, <1>1, <2>1, AdvanceCounts
  <2>4. TypeOK'
    BY <1>0, LoopTypes
  <2>5. PICK t1 \in Nat, h1 \in Nat : t1 = Len(todo') /\ h1 = InHand'
    BY <2>4 DEF TypeOK, LoopType, InHand
  <2>6. n - 1 = (k + 1) + c + p + u + m + t1 + h1
    BY <1>2, <2>3, <2>5
  <2>q. QED
    BY <1>1, <2>1, <2>2, <2>5, <2>6 DEF Accounted
<1>5. ASSUME ~LoopStart, ~LoopSkip
      PROVE  /\ Panicked' = Panicked /\ Uncounted' = Uncounted
             /\ UNCHANGED <<skippedCount, runCount>>
  <2>1. rpc' = rpc
    BY <1>5, LoopLeavesRuns
  <2>2. UNCHANGED <<skippedCount, runCount>>
    BY <1>5 DEF Loop, LoopInit, LoopCompute, LoopTop, LoopPublish, LoopExit, LoopSignal,
       LoopUnregister, LoopWoken, LoopTriggered, TakeManual, LoopTimer, LoopCheckPaused,
       MaybeStartRun, MarkPending, CancelActiveRun, shared
  <2>q. QED
    BY <2>1, <2>2 DEF Panicked, Uncounted, InFlight
<1>6. CASE TakeManual
  <2>1. nextRunId' = nextRunId /\ Len(manual') = 0 /\ fire.id = NoRun /\ h = 0 /\ t = 0
    BY <1>1, <1>6 DEF TakeManual, ManualDrained, ids, IdsInv, LoopClear, FiringPhase, NoFiring,
       InHand
  <2>2. Len(todo') + InHand' = m
    <3>1. CASE manual = <<>>
      <4>1. UNCHANGED <<fire, todo>> /\ m = 0
        BY <1>1, <1>6, <3>1 DEF TakeManual
      <4>2. Len(todo') = 0 /\ InHand' = 0
        BY <1>1, <2>1, <4>1 DEF InHand
      <4>q. QED
        BY <4>1, <4>2
    <3>2. CASE manual # <<>>
      <4>1. manual \in Seq(RunIds) /\ 1 \in 1..Len(manual)
        BY <1>0, <3>2, QueueTail DEF TypeOK, NotifyType
      <4>2. Len(todo') = m - 1 /\ fire'.id = manual[1] /\ manual[1] \in RunIds
        BY <1>1, <1>6, <3>2, <4>1, QueueTail DEF TakeManual
      <4>3. InHand' = 1
        BY <4>2 DEF InHand, RunIds, NoRun
      <4>q. QED
        BY <4>2, <4>3
    <3>q. QED
      BY <3>1, <3>2
  <2>3. TypeOK'
    BY <1>0, LoopTypes
  <2>4. PICK t1 \in Nat, h1 \in Nat : t1 = Len(todo') /\ h1 = InHand'
    BY <2>3 DEF TypeOK, LoopType, InHand
  <2>5. n - 1 = k + c + p + u + 0 + t1 + h1
    BY <1>2, <2>1, <2>2, <2>4
  <2>6. ~LoopStart /\ ~LoopSkip
    BY <1>6 DEF TakeManual, LoopStart, LoopSkip
  <2>q. QED
    BY <1>1, <1>5, <2>1, <2>4, <2>5, <2>6 DEF Accounted
<1>7. CASE LoopInit \/ LoopCheckPaused
  <2>1. ~LoopStart /\ ~LoopSkip /\ UNCHANGED <<manual, todo>>
    BY <1>7 DEF LoopInit, LoopCheckPaused, LoopStart, LoopSkip, notify
  <2>2. fire.id = NoRun /\ h = 0
    BY <1>1, <1>7 DEF LoopInit, LoopCheckPaused, IdsInv, LoopClear, FiringPhase, NoFiring, InHand
  <2>3. CASE UNCHANGED <<fire, nextRunId>>
    <3>1. InHand' = InHand
      BY <2>3 DEF InHand
    <3>q. QED
      BY <1>1, <1>2, <1>5, <2>1, <2>3, <3>1 DEF Accounted
  <2>4. CASE ScheduledFiring
    <3>1. nextRunId' = n + 1 /\ fire'.id = n /\ n # NoRun
      BY <1>0, <1>1, <2>4 DEF ScheduledFiring, TypeOK, IdsType, NoRun
    <3>2. InHand' = 1
      BY <3>1 DEF InHand
    <3>3. (n + 1) - 1 = k + c + p + u + m + t + 1
      BY <1>2, <2>2
    <3>q. QED
      BY <1>1, <1>5, <2>1, <3>1, <3>2, <3>3 DEF Accounted
  <2>q. QED
    BY <1>7, <2>3, <2>4 DEF LoopInit, LoopCheckPaused, ids
<1>8. CASE LoopCompute \/ LoopTop \/ LoopPublish \/ LoopExit \/ LoopSignal \/ LoopUnregister
           \/ LoopWoken \/ LoopTriggered \/ LoopTimer \/ MaybeStartRun \/ CancelActiveRun
  <2>1. UNCHANGED <<nextRunId, manual, todo, fire>>
    BY <1>8 DEF LoopCompute, LoopTop, LoopPublish, LoopExit, LoopSignal, LoopUnregister,
       LoopWoken, LoopTriggered, LoopTimer, MaybeStartRun, CancelActiveRun, notify, ids
  <2>2. InHand' = InHand
    BY <2>1 DEF InHand
  <2>3. CASE ~LoopStart /\ ~LoopSkip
    BY <1>1, <1>2, <1>5, <2>1, <2>2, <2>3 DEF Accounted
  <2>q. QED
    BY <1>3, <1>4, <2>3
<1>q. QED
  BY <1>0, <1>3, <1>4, <1>6, <1>7, <1>8 DEF Loop, MarkPending

\* Each step of a run: a run that ends moves from one count to the next.
LEMMA AccountedRun ==
    ASSUME JobInv, Accounted, overlap # "QueueOne", NEW r \in RunIds, RunStep(r) \/ Body(r)
    PROVE  Accounted'
<1>0. TypeOK /\ rpc \in [RunIds -> RunPhase] /\ ~StartDeferred(r)
  BY DEF JobInv, TypeOK, RunType, StartDeferred, RestartNamed, OnlyQueueOneDefers
<1>1. UNCHANGED <<nextRunId, skippedCount, manual, todo, fire>>
  BY <1>0 DEF RunStep, Body, RecordStart, ReportProgress, BodyEnds, BodyCancelled, BodyTimedOut,
     BodyReturns, BodyPanics, FinishRead, FinishProgress, FinishShared, ClearRunToken, ExitRun,
     TakePending, CheckRestart, EndRun, ids, shared, notify, loop
<1>2. InHand' = InHand
  BY <1>1 DEF InHand
<1>3. PICK n \in Nat, k \in Nat, c \in Nat, p \in Nat, u \in Nat, m \in Nat, t \in Nat, h \in Nat :
        /\ n = nextRunId /\ k = skippedCount /\ c = runCount /\ p = Cardinality(Panicked)
        /\ u = Cardinality(Uncounted) /\ m = Len(manual) /\ t = Len(todo) /\ h = InHand
  BY <1>0, CountsType
<1>4. n - 1 = k + c + p + u + m + t + h
  BY <1>3 DEF Accounted
<1>5. ASSUME Goto(r, "panicked"), rpc[r] = "body" PROVE Cardinality(Panicked') = p + 1
  <2>1. Panicked' = Panicked \cup {r} /\ r \notin Panicked
    BY <1>0, <1>5 DEF Goto, Panicked
  <2>q. QED
    BY <1>0, <1>3, <2>1, CountsType, FS_AddElement
<1>6. ASSUME Goto(r, "panicked") \/ Goto(r, "clearToken"), rpc[r] \in {"body", "finShared"}
      PROVE  Cardinality(Uncounted') = u - 1
  <2>1. Uncounted' = Uncounted \ {r} /\ r \in Uncounted
    BY <1>0, <1>6 DEF Goto, Uncounted, InFlight, InFlightPhase
  <2>q. QED
    BY <1>0, <1>3, <2>1, CountsType, FS_RemoveElement
<1>7. CASE BodyPanics(r)
  <2>1. Goto(r, "panicked") /\ rpc[r] = "body" /\ runCount' = runCount
    BY <1>7 DEF BodyPanics, shared
  <2>2. n - 1 = k + c + (p + 1) + (u - 1) + m + t + h
    BY <1>4
  <2>q. QED
    BY <1>1, <1>2, <1>3, <1>5, <1>6, <2>1, <2>2 DEF Accounted
<1>8. CASE FinishShared(r)
  <2>1. Goto(r, "clearToken") /\ rpc[r] = "finShared" /\ runCount' = c + 1
    BY <1>3, <1>8 DEF FinishShared
  <2>2. Panicked' = Panicked
    BY <1>0, <2>1 DEF Goto, Panicked
  <2>3. n - 1 = k + (c + 1) + p + (u - 1) + m + t + h
    BY <1>4
  <2>q. QED
    BY <1>1, <1>2, <1>3, <1>6, <2>1, <2>2, <2>3 DEF Accounted
<1>9. CASE ~BodyPanics(r) /\ ~FinishShared(r)
  <2>1. runCount' = runCount
    BY <1>0, <1>9 DEF RunStep, Body, RecordStart, ReportProgress, BodyEnds, BodyCancelled,
       BodyTimedOut, BodyReturns, FinishRead, FinishProgress, ClearRunToken, ExitRun,
       TakePending, CheckRestart, EndRun, shared
  <2>2. \E q \in RunPhase : \/ rpc' = rpc
                            \/ /\ rpc' = [rpc EXCEPT ![r] = q] /\ q # "panicked" /\ rpc[r] # "panicked"
                               /\ (q \in InFlightPhase /\ q \notin {"clearToken", "exit"}) <=>
                                  (rpc[r] \in InFlightPhase /\ rpc[r] \notin {"clearToken", "exit"})
    BY <1>0, <1>9 DEF RunStep, Body, RecordStart, ReportProgress, BodyEnds, BodyCancelled,
       BodyTimedOut, BodyReturns, FinishRead, FinishProgress, ClearRunToken, ExitRun,
       TakePending, CheckRestart, EndRun, Goto, run, RunPhase, InFlightPhase
  <2>3. Panicked' = Panicked
    BY <1>0, <2>2 DEF Panicked
  <2>4. Uncounted' = Uncounted
    BY <1>0, <2>2 DEF Uncounted, InFlight
  <2>q. QED
    BY <1>1, <1>2, <1>3, <1>4, <2>1, <2>3, <2>4 DEF Accounted
<1>q. QED
  BY <1>7, <1>8, <1>9

\* Every step keeps the firings accounted for.
LEMMA AccountedNext == JobInv /\ IdsInv /\ Accounted /\ [Next]_vars => Accounted'
<1> SUFFICES ASSUME JobInv, IdsInv, Accounted, [Next]_vars, overlap # "QueueOne" PROVE Accounted'
  BY PolicyFixed DEF Accounted
<1>1. CASE Loop
  BY <1>1, AccountedLoop
<1>2. CASE \E r \in RunIds : RunStep(r) \/ Body(r)
  BY <1>2, AccountedRun
<1>3. ASSUME NEW c \in Callers, RunNow(c) PROVE Accounted'
  <2>1. /\ UNCHANGED <<rpc, todo, fire, skippedCount, runCount>>
        /\ manual' = Append(manual, nextRunId) /\ nextRunId' = nextRunId + 1
    BY <1>3 DEF RunNow, run, loop, shared
  <2>2. Panicked' = Panicked /\ Uncounted' = Uncounted /\ InHand' = InHand
    BY <2>1 DEF Panicked, Uncounted, InFlight, InHand
  <2>3. TypeOK
    BY DEF JobInv
  <2>4. PICK n \in Nat, k \in Nat, c1 \in Nat, p \in Nat, u \in Nat, m \in Nat, t \in Nat, h \in Nat :
          /\ n = nextRunId /\ k = skippedCount /\ c1 = runCount /\ p = Cardinality(Panicked)
          /\ u = Cardinality(Uncounted) /\ m = Len(manual) /\ t = Len(todo) /\ h = InHand
    BY <2>3, CountsType
  <2>5. Len(manual') = m + 1
    BY <2>1, <2>3, <2>4 DEF TypeOK, NotifyType
  <2>6. n - 1 = k + c1 + p + u + m + t + h
    BY <2>4 DEF Accounted
  <2>7. (n + 1) - 1 = k + c1 + p + u + (m + 1) + t + h
    BY <2>6
  <2>q. QED
    BY <2>1, <2>2, <2>4, <2>5, <2>7 DEF Accounted
<1>4. ASSUME UNCHANGED <<rpc, todo, fire, skippedCount, runCount, manual, nextRunId>>
      PROVE  Accounted'
  <2>1. Panicked' = Panicked /\ Uncounted' = Uncounted /\ InHand' = InHand
    BY <1>4 DEF Panicked, Uncounted, InFlight, InHand
  <2>q. QED
    BY <1>4, <2>1 DEF Accounted
<1>5. ASSUME NEW c \in Callers, Call(c) \/ CallReturn(c), ~RunNow(c)
      PROVE  UNCHANGED <<rpc, todo, fire, skippedCount, runCount, manual, nextRunId>>
  BY <1>5 DEF Call, CallReturn, Lookup, Pause, Resume, Reschedule, CancelAndWait, HandleCancel,
     SetPaused, NotifyWake, NotifyTriggered, CancelToken, CancelReturns, BeginCancel, loop, notify,
     ids, run, shared
<1>6. CASE DropScheduler \/ UNCHANGED vars
  <2>1. UNCHANGED <<rpc, todo, fire, skippedCount, runCount, manual, nextRunId>>
    BY <1>6 DEF DropScheduler, vars, loop, notify, ids, run, shared
  <2>q. QED
    BY <1>4, <2>1
<1>q. QED
  BY <1>1, <1>2, <1>3, <1>4, <1>5, <1>6 DEF Next

\* Under Skip the counter never exceeds one, so the run that ends finds itself the last one
\* and settles the progress slot and the state before it leaves.
SettledInv ==
    overlap = "Skip" =>
        /\ active <= 1
        /\ \A r \in RunIds : /\ rpc[r] \in {"finProgress", "finShared"} => lastActive[r]
                             /\ rpc[r] \in {"finShared", "clearToken", "exit"} => progress = NoRun
                             /\ rpc[r] \in {"clearToken", "exit"} => state # "Running"
        /\ InFlight = {} /\ Panicked = {} => progress = NoRun /\ state # "Running"

\* Only a run publishes Running or reports progress.
LEMMA OthersLeaveState ==
    ASSUME TypeOK, Loop \/ (\E c \in Callers : Call(c) \/ CallReturn(c)) \/ DropScheduler \/ UNCHANGED vars
    PROVE  /\ UNCHANGED <<progress, lastActive>>
           /\ state # "Running" => state' # "Running"
<1>1. UNCHANGED <<progress, lastActive>>
  BY DEF Loop, LoopInit, LoopCompute, LoopTop, LoopPublish, LoopExit, LoopSignal,
     LoopUnregister, LoopWoken, LoopTriggered, TakeManual, LoopTimer, LoopCheckPaused,
     MaybeStartRun, LoopSkip, MarkPending, CancelActiveRun, LoopStart,
     Call, CallReturn, Lookup, Pause, Resume, Reschedule, RunNow, CancelAndWait, HandleCancel,
     NotifyWake, NotifyTriggered, CancelToken, CancelReturns, BeginCancel, DropScheduler, vars, run
<1>2. state # "Running" => state' # "Running"
  <2>1. CASE Loop
    BY <2>1 DEF Loop, LoopInit, LoopCompute, LoopTop, LoopPublish, LoopExit, LoopSignal,
       LoopUnregister, LoopWoken, LoopTriggered, TakeManual, LoopTimer, LoopCheckPaused,
       MaybeStartRun, LoopSkip, MarkPending, CancelActiveRun, LoopStart, shared
  <2>2. CASE \E c \in Callers : Call(c) \/ CallReturn(c)
    BY <2>2 DEF Call, CallReturn, Lookup, Pause, Resume, SetPaused, Reschedule, RunNow,
       CancelAndWait, HandleCancel, NotifyWake, NotifyTriggered, CancelToken, CancelReturns,
       BeginCancel, shared
  <2>3. CASE DropScheduler \/ UNCHANGED vars
    BY <2>3 DEF DropScheduler, vars, shared
  <2>q. QED
    BY <2>1, <2>2, <2>3
<1>q. QED
  BY <1>1, <1>2

\* Every step keeps SettledInv.
LEMMA SettledNext == JobInv /\ SkipInv /\ IdsInv /\ SettledInv /\ [Next]_vars => SettledInv'
<1> SUFFICES ASSUME JobInv, SkipInv, IdsInv, SettledInv, [Next]_vars, overlap = "Skip"
             PROVE  SettledInv'
  BY PolicyFixed DEF SettledInv
<1>0. /\ TypeOK /\ FiringsNamed /\ rpc \in [RunIds -> RunPhase] /\ lastActive \in [RunIds -> BOOLEAN]
      /\ active \in Nat
      /\ active <= 1 /\ \A r, s \in InFlight : r = s
      /\ \A r \in RunIds : /\ rpc[r] \in {"finProgress", "finShared"} => lastActive[r]
                           /\ rpc[r] \in {"finShared", "clearToken", "exit"} => progress = NoRun
                           /\ rpc[r] \in {"clearToken", "exit"} => state # "Running"
      /\ InFlight = {} /\ Panicked = {} => progress = NoRun /\ state # "Running"
  BY DEF JobInv, TypeOK, RunType, GuardType, SkipInv, SettledInv
<1>1. CASE LoopStart
  <2>1. /\ active = 0 /\ InFlight = {} /\ fire.id \in RunIds
        /\ rpc' = [rpc EXCEPT ![fire.id] = "spawned"] /\ active' = 1
    BY <1>0, <1>1, IdleCounter DEF LoopStart, StartRun, EnterRun, SkipInv, FiringsNamed
  <2>2. \A r \in RunIds : rpc'[r] \notin {"finProgress", "finShared", "clearToken", "exit"}
    BY <1>0, <2>1 DEF InFlight, InFlightPhase
  <2>3. fire.id \in InFlight'
    BY <1>0, <2>1 DEF InFlight, InFlightPhase
  <2>q. QED
    BY <2>1, <2>2, <2>3 DEF SettledInv
<1>2. ASSUME UNCHANGED <<rpc, active, progress, lastActive>>,
             state # "Running" => state' # "Running"
      PROVE  SettledInv'
  <2>1. InFlight' = InFlight /\ Panicked' = Panicked
    BY <1>2 DEF InFlight, Panicked
  <2>q. QED
    BY <1>0, <1>2, <2>1 DEF SettledInv
<1>3. CASE Loop /\ ~LoopStart
  BY <1>0, <1>2, <1>3, LoopLeavesRuns, OthersLeaveState
<1>4. CASE \E c \in Callers : Call(c) \/ CallReturn(c)
  BY <1>0, <1>2, <1>4, CallLeavesRuns, OthersLeaveState
<1>5. CASE DropScheduler \/ UNCHANGED vars
  <2>1. UNCHANGED <<rpc, active>>
    BY <1>5 DEF DropScheduler, vars, run, guard
  <2>q. QED
    BY <1>0, <1>2, <1>5, <2>1, OthersLeaveState
<1>6. ASSUME NEW r \in RunIds, RunStep(r) \/ Body(r) PROVE SettledInv'
  <2>0. ~StartDeferred(r)
    BY DEF JobInv, StartDeferred, RestartNamed, OnlyQueueOneDefers
  <2>1. ASSUME NEW p \in InFlightPhase, rpc[r] \in InFlightPhase, rpc' = [rpc EXCEPT ![r] = p],
               active' = active,
               p \in {"finProgress", "finShared"} => lastActive'[r],
               p \in {"finShared", "clearToken", "exit"} => progress' = NoRun,
               p \in {"clearToken", "exit"} => state' # "Running"
        PROVE  SettledInv'
    <3>1. \A s \in RunIds : s # r => rpc'[s] \notin InFlightPhase
      BY <1>0, <2>1 DEF InFlight
    <3>2. r \in InFlight' /\ rpc'[r] = p
      BY <1>0, <2>1 DEF InFlight
    <3>3. \A s \in RunIds : s # r => rpc'[s] \notin {"finProgress", "finShared", "clearToken", "exit"}
      BY <3>1 DEF InFlightPhase
    <3>q. QED
      BY <1>0, <2>1, <3>2, <3>3 DEF SettledInv
  <2>2. CASE RecordStart(r)
    <3>1. rpc[r] \in InFlightPhase /\ "body" \in InFlightPhase /\ rpc' = [rpc EXCEPT ![r] = "body"]
      BY <2>2 DEF RecordStart, Goto, InFlightPhase
    <3>2. active' = active
      BY <2>2 DEF RecordStart, guard
    <3>q. QED
      BY <2>1, <3>1, <3>2
  <2>3. CASE ReportProgress(r)
    <3>1. rpc[r] = "body" /\ "body" \in InFlightPhase /\ rpc[r] \in InFlightPhase /\ rpc' = rpc
      BY <2>3 DEF ReportProgress, InFlightPhase, run
    <3>2. rpc' = [rpc EXCEPT ![r] = "body"] /\ active' = active
      BY <1>0, <2>3, <3>1 DEF ReportProgress, guard
    <3>q. QED
      BY <2>1, <3>1, <3>2
  <2>4. CASE BodyEnds(r) \/ BodyCancelled(r) \/ BodyTimedOut(r)
    <3>1. /\ rpc[r] \in InFlightPhase /\ "finRead" \in InFlightPhase
          /\ rpc' = [rpc EXCEPT ![r] = "finRead"]
      BY <2>4 DEF BodyEnds, BodyCancelled, BodyTimedOut, BodyReturns, Goto, InFlightPhase
    <3>2. active' = active
      BY <2>4 DEF BodyEnds, BodyCancelled, BodyTimedOut, BodyReturns, guard
    <3>q. QED
      BY <2>1, <3>1, <3>2
  <2>5. CASE BodyPanics(r)
    <3>1. rpc' = [rpc EXCEPT ![r] = "panicked"] /\ rpc[r] = "body" /\ active' = active
      BY <2>5 DEF BodyPanics, Goto, guard
    <3>2. r \in Panicked' /\ r \in InFlight
      BY <1>0, <3>1 DEF Panicked, InFlight, InFlightPhase
    <3>3. \A s \in RunIds : rpc'[s] \notin {"finProgress", "finShared", "clearToken", "exit"}
      BY <1>0, <3>1, <3>2 DEF InFlight, InFlightPhase
    <3>q. QED
      BY <1>0, <3>1, <3>2, <3>3 DEF SettledInv
  <2>6. CASE FinishRead(r)
    <3>1. /\ rpc[r] \in InFlightPhase /\ "finProgress" \in InFlightPhase
          /\ rpc' = [rpc EXCEPT ![r] = "finProgress"]
      BY <2>6 DEF FinishRead, Goto, InFlightPhase
    <3>2. active' = active /\ lastActive'[r] = TRUE
      BY <1>0, <2>6 DEF FinishRead, LastInFlight, guard
    <3>q. QED
      BY <2>1, <3>1, <3>2
  <2>7. CASE FinishProgress(r)
    <3>1. /\ rpc[r] \in InFlightPhase /\ "finShared" \in InFlightPhase /\ rpc[r] = "finProgress"
          /\ rpc' = [rpc EXCEPT ![r] = "finShared"]
      BY <2>7 DEF FinishProgress, Goto, InFlightPhase
    <3>2. active' = active /\ lastActive' = lastActive /\ progress' = NoRun
      BY <1>0, <2>7, <3>1 DEF FinishProgress, ProgressAfter, guard
    <3>q. QED
      BY <1>0, <2>1, <3>1, <3>2
  <2>8. CASE FinishShared(r)
    <3>1. /\ rpc[r] \in InFlightPhase /\ "clearToken" \in InFlightPhase /\ rpc[r] = "finShared"
          /\ rpc' = [rpc EXCEPT ![r] = "clearToken"]
      BY <2>8 DEF FinishShared, Goto, InFlightPhase
    <3>2. active' = active /\ progress' = NoRun
      BY <1>0, <2>8, <3>1 DEF FinishShared, guard
    <3>3. state' # "Running"
      BY <1>0, <2>8, <3>1 DEF FinishShared, Settles, StateAfterRun, Cancelling
    <3>q. QED
      BY <2>1, <3>1, <3>2, <3>3
  <2>9. CASE ClearRunToken(r)
    <3>1. /\ rpc[r] \in InFlightPhase /\ "exit" \in InFlightPhase /\ rpc[r] = "clearToken"
          /\ rpc' = [rpc EXCEPT ![r] = "exit"]
      BY <2>9 DEF ClearRunToken, Goto, InFlightPhase
    <3>2. UNCHANGED <<active, progress, state>>
      BY <2>9 DEF ClearRunToken, shared
    <3>q. QED
      BY <1>0, <2>1, <3>1, <3>2
  <2>10. CASE ExitRun(r)
    <3>1. /\ rpc[r] = "exit" /\ rpc' = [rpc EXCEPT ![r] = "takePending"] /\ active' = active - 1
          /\ UNCHANGED <<progress, state>>
      BY <2>10 DEF ExitRun, Goto, shared
    <3>2. r \in InFlight
      BY <3>1 DEF InFlight, InFlightPhase
    <3>3. \A s \in RunIds : rpc'[s] \notin {"finProgress", "finShared", "clearToken", "exit"}
      BY <1>0, <3>1, <3>2 DEF InFlight, InFlightPhase
    <3>4. active' <= 1
      BY <1>0, <3>1
    <3>q. QED
      BY <1>0, <3>1, <3>3, <3>4 DEF SettledInv
  <2>11. CASE TakePending(r) \/ CheckRestart(r) \/ EndRun(r)
    <3>1. /\ UNCHANGED <<active, progress, state, lastActive>>
          /\ rpc[r] \notin InFlightPhase /\ rpc[r] # "panicked"
          /\ \E p \in RunPhase \ (InFlightPhase \cup {"panicked"}) : rpc' = [rpc EXCEPT ![r] = p]
      BY <2>11 DEF TakePending, CheckRestart, EndRun, Goto, shared, guard, InFlightPhase, RunPhase
    <3>2. InFlight' = InFlight /\ Panicked' = Panicked
      BY <1>0, <3>1 DEF InFlight, Panicked
    <3>3. \A s \in RunIds : rpc'[s] \in InFlightPhase => rpc'[s] = rpc[s]
      BY <1>0, <3>1
    <3>4. {"finProgress", "finShared", "clearToken", "exit"} \subseteq InFlightPhase
      BY DEF InFlightPhase
    <3>q. QED
      BY <1>0, <3>1, <3>2, <3>3, <3>4 DEF SettledInv
  <2>q. QED
    BY <1>6, <2>0, <2>2, <2>3, <2>4, <2>5, <2>6, <2>7, <2>8, <2>9, <2>10, <2>11 DEF RunStep, Body
<1>q. QED
  BY <1>1, <1>3, <1>4, <1>5, <1>6 DEF Next

\* Every run id the allocator handed out is accounted for once, in every state and for every
\* policy but QueueOne, and under Skip a job without runs is settled, although five steps of
\* a run's end interleave with the loop and the callers.
THEOREM FiringsCorrect == Spec => []FiringsAccounted
<1>1. Init => SkipInv /\ SettledInv
  <2> SUFFICES ASSUME Init PROVE SkipInv /\ SettledInv
    OBVIOUS
  <2>1. \A r \in RunIds : rpc[r] = "idle"
    BY DEF Init
  <2>2. SkipInv
    BY <2>1 DEF Init, SkipInv, InFlight, InFlightPhase
  <2>3. SettledInv
    BY <2>1 DEF Init, SettledInv
  <2>q. QED
    BY <2>2, <2>3
<1>2. Init => Accounted
  <2> SUFFICES ASSUME Init PROVE Accounted
    OBVIOUS
  <2>1. Panicked = {} /\ Uncounted = {}
    BY DEF Init, Panicked, Uncounted, InFlight, InFlightPhase
  <2>2. Len(manual) = 0 /\ Len(todo) = 0 /\ InHand = 0
    BY DEF Init, InHand, NoFiring
  <2>3. nextRunId = 1 /\ skippedCount = 0 /\ runCount = 0
    BY DEF Init
  <2>q. QED
    BY <2>1, <2>2, <2>3, FS_EmptySet DEF Accounted
<1>3. Spec => [](JobInv /\ SkipInv /\ IdsInv /\ SettledInv /\ Accounted)
  BY <1>1, <1>2, IdsInvariant, SkipInvNext, SettledNext, AccountedNext, PTL DEF Spec
<1>4. SettledInv /\ Accounted => FiringsAccounted
  BY DEF SettledInv, Accounted, FiringsAccounted, InHand
<1>q. QED
  BY <1>3, <1>4, PTL
=============================================================================
