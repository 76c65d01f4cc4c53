----------------------------- MODULE DurableRun -----------------------------
(***************************************************************************)
(* The event-sourced run ledger of aikit-core (durability.rs).             *)
(*                                                                         *)
(* A RunState is an append-only log of events, the projection folded from  *)
(* it, and the checkpoints (projection snapshots) taken along the way.     *)
(* Every public operation builds one or more events and passes each one to *)
(* append_event, which drops an event whose id is already in the log,      *)
(* rejects one whose id is in the log with another content, and otherwise  *)
(* validates and applies it.  The model keeps exactly this: an event is a  *)
(* record, Legal is what apply_event_in_place checks, Project what it      *)
(* assigns, and an operation is a composition of Emit steps.               *)
(*                                                                         *)
(* Around the ledger the model puts the parties that use it: executors     *)
(* that perform the external effect of an attempt and report it (perhaps   *)
(* twice, perhaps never), and an operator who reconciles truthfully.  The  *)
(* ghost variables flying and effects record what really happened, so that *)
(* the ledger's verdicts can be compared with it.                          *)
(***************************************************************************)
EXTENDS Naturals, Sequences, FiniteSets

CONSTANTS
    PureStep,        \* activities without an external effect
    KeyedStep,       \* idempotent activities, with an idempotency key
    UnsafeStep,      \* activities of class ReconcileRequired
    ApprovalKey,     \* logical keys of approvals
    CheckpointKey,   \* keys of checkpoints
    Command,         \* ids the host gives to commands and reconciliations
    Origin,          \* marks the first branch of a run
    MaxEvents,       \* bound: events in one run's log
    MaxForks,        \* bound: forks followed from parent to child
    MaxFlying,       \* bound: executions in flight at the same time
    CheckpointWhenSettled  \* TRUE: the host checkpoints only settled activities

Step == PureStep \cup KeyedStep \cup UnsafeStep

ASSUME StepClasses ==
    /\ PureStep \cap KeyedStep = {}
    /\ PureStep \cap UnsafeStep = {}
    /\ KeyedStep \cap UnsafeStep = {}

ASSUME BoundsAreNaturals == MaxEvents \in Nat /\ MaxForks \in Nat /\ MaxFlying \in Nat

ASSUME OriginIsNoCommand == Origin \notin Command

ASSUME DisciplineIsBoolean == CheckpointWhenSettled \in BOOLEAN

VARIABLES
    run,      \* the RunState that the host drives
    flying,   \* ghost: executions that were handed out and may still report
    effects   \* ghost: for each activity, the log positions at which an
              \* execution was authorised whose effect really happened and
              \* was not compensated

vars == <<run, flying, effects>>

-----------------------------------------------------------------------------
(* Identifiers.  stable_identifier hashes its parts; two ids are equal     *)
(* exactly when the parts are, so the model keeps the parts.               *)

\* A run is named by how many forks lead to it; a branch by its run and the
\* rewind command that opened it (Origin: the run's first branch).
Branch == (0..MaxForks) \X (Command \cup {Origin})

FirstBranch(depth) == <<depth, Origin>>

ApprovalId == Branch \X ApprovalKey

CheckpointId == Branch \X CheckpointKey

NoBranch == <<0, "none">>

NoCheckpoint == <<NoBranch, "none">>

-----------------------------------------------------------------------------
(* The projection. *)

AttemptStatus ==
    {"running", "completed", "failed", "cancelled", "reconcile_required"}

Attempt == [status: AttemptStatus, started: Nat, finished: Nat,
            retryable: BOOLEAN, ambiguous: BOOLEAN]

\* home is the branch in the activity's id; NoBranch: not scheduled.
Activity == [home: Branch \cup {NoBranch}, attempts: Seq(Attempt)]

Unscheduled == [home |-> NoBranch, attempts |-> <<>>]

ActiveStatus == {"running", "paused", "reconcile_required"}

TerminalStatus == {"completed", "failed", "cancelled"}

ApprovalStatus == {"absent", "pending", "approved", "rejected"}

Projection == [status: ActiveStatus \cup TerminalStatus,
               branch: Branch,
               acts: [Step -> Activity],
               approvals: [ApprovalId -> ApprovalStatus]]

RootProjection == [status |-> "running",
                   branch |-> FirstBranch(0),
                   acts |-> [s \in Step |-> Unscheduled],
                   approvals |-> [a \in ApprovalId |-> "absent"]]

\* at is the sequence number of the commit event; 0: no such checkpoint.
Checkpoint == [at: Nat, proj: Projection]

AbsentCheckpoint == [at |-> 0, proj |-> RootProjection]

Latest(activity) == activity.attempts[Len(activity.attempts)]

HasAttempt(activity) == activity.attempts # <<>>

LatestIs(activity, status) ==
    HasAttempt(activity) /\ Latest(activity).status = status

Completed(activity) ==
    \E n \in DOMAIN activity.attempts : activity.attempts[n].status = "completed"

Pending(proj) == {a \in ApprovalId : proj.approvals[a] = "pending"}

IsTerminal(proj) == proj.status \in TerminalStatus

HasReconciliationPending(proj) ==
    \E s \in Step : LatestIs(proj.acts[s], "reconcile_required")

HasRunningActivity(proj) ==
    \E s \in Step : \E n \in DOMAIN proj.acts[s].attempts :
        proj.acts[s].attempts[n].status = "running"

\* Fault of RetryIsSafe: the side-effect class is not looked at.
AlwaysRetry(step, ambiguous) == TRUE

RetryIsSafe(step, ambiguous) ==
    ~ambiguous \/ step \in PureStep \/ step \in KeyedStep

-----------------------------------------------------------------------------
(* Events.  op, of, key, n and cmd make up the event id; what and ck are   *)
(* the content that may differ between two events with the same id.        *)

Op == {"started_run", "forked_from", "scheduled", "started", "interrupted",
       "completed", "failed", "cancelled", "reconcile_required", "reconciled",
       "requested", "resolved", "committed", "pause", "resume", "fork",
       "rewind", "cancel", "complete", "fail"}

EventKey == Step \cup ApprovalKey \cup CheckpointKey \cup {"none"}

EventCommand == Command \cup {"none"}

Fact == {"retryable", "ambiguous", "acked", "approved", "interrupted",
         "failed_before", "reported", "completed", "safe_to_retry", "cancelled"}

Event == [op: Op, of: Branch \cup {NoBranch}, key: EventKey, n: Nat,
          cmd: EventCommand, what: SUBSET Fact, ck: CheckpointId \cup {NoCheckpoint}]

ActivityEvent(op, home, step, n, cmd, what) ==
    [op |-> op, of |-> home, key |-> step, n |-> n, cmd |-> cmd,
     what |-> what, ck |-> NoCheckpoint]

CommandEvent(op, depth, cmd, what, ck) ==
    [op |-> op, of |-> FirstBranch(depth), key |-> "none", n |-> 0,
     cmd |-> cmd, what |-> what, ck |-> ck]

KeyedEvent(op, id, cmd, what) ==
    [op |-> op, of |-> id[1], key |-> id[2], n |-> 0, cmd |-> cmd,
     what |-> what, ck |-> NoCheckpoint]

RunState == [depth: 0..MaxForks, log: Seq(Event), proj: Projection,
             ckpts: [CheckpointId -> Checkpoint]]

NextSequence(r) == Len(r.log) + 1

SameId(e, f) == /\ e.op = f.op /\ e.of = f.of /\ e.key = f.key
                /\ e.n = f.n /\ e.cmd = f.cmd

Known(r, e) == \E i \in DOMAIN r.log : r.log[i] = e

Fresh(r, e) == \A i \in DOMAIN r.log : ~SameId(r.log[i], e)

-----------------------------------------------------------------------------
(* apply_event_in_place: what an event must satisfy ... *)

ActivityOf(r, e) == r.proj.acts[e.key]

\* The activity named by the event exists and has the attempt it names.
AttemptFound(r, e) == /\ ActivityOf(r, e).home = e.of
                      /\ e.n \in DOMAIN ActivityOf(r, e).attempts

AttemptOf(r, e) == ActivityOf(r, e).attempts[e.n]

EnsureActive(r) == ~IsTerminal(r.proj)

EnsureExecuting(r) == r.proj.status = "running"

ActiveAndReconciled(r) == r.proj.status \in {"running", "paused"}

LegalScheduled(r, e) == /\ EnsureExecuting(r)
                        /\ ActivityOf(r, e).home = NoBranch

LegalStarted(r, e) ==
    LET activity == ActivityOf(r, e) IN
    /\ EnsureExecuting(r)
    /\ activity.home = e.of
    /\ e.n = Len(activity.attempts) + 1
    /\ HasAttempt(activity) =>
           /\ Latest(activity).status = "failed"
           /\ Latest(activity).retryable
           /\ RetryIsSafe(e.key, Latest(activity).ambiguous)

\* Completed, failed, interrupted and cancelled attempts.
LegalFinished(r, e) == /\ EnsureActive(r)
                       /\ AttemptFound(r, e)
                       /\ AttemptOf(r, e).status = "running"

LegalReconcileRequired(r, e) == /\ EnsureActive(r)
                                /\ AttemptFound(r, e)
                                /\ AttemptOf(r, e).status \in {"running", "failed"}

\* No ensure_active here: a terminal run may still be reconciled.
LegalReconciled(r, e) == /\ AttemptFound(r, e)
                         /\ AttemptOf(r, e).status = "reconcile_required"

LegalRequested(r, e) == /\ ActiveAndReconciled(r)
                        /\ r.proj.approvals[<<e.of, e.key>>] = "absent"

LegalCommitted(r, e) == /\ EnsureActive(r)
                        /\ r.ckpts[<<e.of, e.key>>].at = 0

LegalPause(r, e) == ActiveAndReconciled(r)

\* Fault of ReconciledAfter: later side effects need no acknowledgement.
NeedsNoAck(r, at, acked) == TRUE

\* require_reconciled_after: work that may have had an effect and started
\* after the checkpoint must be acknowledged as reconciled.
ReconciledAfter(r, at, acked) ==
    \/ acked
    \/ \A i \in DOMAIN r.log :
           i > at /\ r.log[i].op = "started" => r.log[i].key \in PureStep

\* Rewind and fork.
LegalBranchOff(r, e) == /\ EnsureActive(r)
                        /\ r.ckpts[e.ck].at # 0
                        /\ ReconciledAfter(r, r.ckpts[e.ck].at, "acked" \in e.what)

\* Fault of LegalComplete: running attempts are not looked for.
CompletesWhileRunning(r, e) == /\ EnsureActive(r)
                               /\ Pending(r.proj) = {}
                               /\ ~HasReconciliationPending(r.proj)

LegalComplete(r, e) == /\ EnsureActive(r)
                       /\ Pending(r.proj) = {}
                       /\ ~HasReconciliationPending(r.proj)
                       /\ ~HasRunningActivity(r.proj)

\* RunFailed and RunCancelled.
LegalStop(r, e) == EnsureActive(r) /\ ~HasRunningActivity(r.proj)

Legal(r, e) ==
    \/ e.op = "scheduled" /\ LegalScheduled(r, e)
    \/ e.op = "started" /\ LegalStarted(r, e)
    \/ /\ e.op \in {"completed", "failed", "interrupted", "cancelled"}
       /\ LegalFinished(r, e)
    \/ e.op = "reconcile_required" /\ LegalReconcileRequired(r, e)
    \/ e.op = "reconciled" /\ LegalReconciled(r, e)
    \/ e.op = "requested" /\ LegalRequested(r, e)
    \/ e.op = "committed" /\ LegalCommitted(r, e)
    \/ e.op = "pause" /\ LegalPause(r, e)
    \/ e.op \in {"fork", "rewind"} /\ LegalBranchOff(r, e)
    \/ e.op = "complete" /\ LegalComplete(r, e)
    \/ e.op \in {"fail", "cancel"} /\ LegalStop(r, e)

-----------------------------------------------------------------------------
(* ... and what it assigns. *)

WithActivity(proj, s, activity) ==
    [proj EXCEPT !.acts = [@ EXCEPT ![s] = activity]]

WithStatus(proj, status) == [proj EXCEPT !.status = status]

ApplyScheduled(proj, e) ==
    WithActivity(proj, e.key, [home |-> e.of, attempts |-> <<>>])

StartedAttempt(seq) == [status |-> "running", started |-> seq, finished |-> 0,
                        retryable |-> FALSE, ambiguous |-> FALSE]

ApplyStarted(proj, e, seq) ==
    WithActivity(proj, e.key,
        [proj.acts[e.key] EXCEPT !.attempts = Append(@, StartedAttempt(seq))])

\* The attempt that e names ends (or is re-judged) with the given verdict.
WithVerdict(proj, e, seq, status, retryable, ambiguous) ==
    LET activity == proj.acts[e.key]
        attempt == [status |-> status, started |-> activity.attempts[e.n].started,
                    finished |-> seq, retryable |-> retryable, ambiguous |-> ambiguous]
    IN  WithActivity(proj, e.key,
            [activity EXCEPT !.attempts = [@ EXCEPT ![e.n] = attempt]])

\* ActivityAttemptCompleted and ActivityAttemptCancelled.
ApplyFinished(proj, e, seq) == WithVerdict(proj, e, seq, e.op, FALSE, FALSE)

\* Fault of ApplyFailed: the attempt's status is named after the event id.
StatusFromEventId(proj, e, seq) ==
    WithVerdict(proj, e, seq, e.op, "retryable" \in e.what, "ambiguous" \in e.what)

\* ActivityAttemptFailed, under the event id "failed" or "interrupted".
ApplyFailed(proj, e, seq) ==
    WithVerdict(proj, e, seq, "failed", "retryable" \in e.what, "ambiguous" \in e.what)

\* Fault of ApplyReconcileRequired: the run's status is left as it was.
ReconcileWithoutStop(proj, e, seq) ==
    WithVerdict(proj, e, seq, "reconcile_required",
                proj.acts[e.key].attempts[e.n].retryable, TRUE)

ApplyReconcileRequired(proj, e, seq) ==
    WithStatus(WithVerdict(proj, e, seq, "reconcile_required",
                           proj.acts[e.key].attempts[e.n].retryable, TRUE),
               "reconcile_required")

ReconciledStatus(what) ==
    IF "completed" \in what THEN "completed"
    ELSE IF "safe_to_retry" \in what THEN "failed"
    ELSE "cancelled"

\* Fault of ApplyReconciled: the attempt stays marked as ambiguous.
StaysAmbiguous(proj, e, seq) ==
    LET settled == WithVerdict(proj, e, seq, ReconciledStatus(e.what),
                               "safe_to_retry" \in e.what, TRUE)
    IN  IF IsTerminal(proj) \/ HasReconciliationPending(settled)
        THEN settled
        ELSE WithStatus(settled, "paused")

\* Fault of ApplyReconciled: a run that stopped is paused again.
RevivesTheRun(proj, e, seq) ==
    LET settled == WithVerdict(proj, e, seq, ReconciledStatus(e.what),
                               "safe_to_retry" \in e.what, FALSE)
    IN  IF HasReconciliationPending(settled) THEN settled ELSE WithStatus(settled, "paused")

ApplyReconciled(proj, e, seq) ==
    LET settled == WithVerdict(proj, e, seq, ReconciledStatus(e.what),
                               "safe_to_retry" \in e.what, FALSE)
    IN  IF IsTerminal(proj) \/ HasReconciliationPending(settled)
        THEN settled
        ELSE WithStatus(settled, "paused")

ApplyRequested(proj, e) ==
    [proj EXCEPT !.approvals = [@ EXCEPT ![<<e.of, e.key>>] = "pending"],
                 !.status = "paused"]

\* Fault of ForkProjection: open approvals are not looked at.
ForksRunning(proj, branch) == [proj EXCEPT !.branch = branch, !.status = "running"]

ForkProjection(proj, branch) ==
    [proj EXCEPT !.branch = branch,
                 !.status = IF @ = "reconcile_required" /\ HasReconciliationPending(proj)
                            THEN @
                            ELSE IF Pending(proj) = {} THEN "running" ELSE "paused"]

ApplyRewind(r, e) ==
    WithStatus(ForkProjection(r.ckpts[e.ck].proj, <<r.depth, e.cmd>>), "paused")

ApplyCommitted(r, e) ==
    [r.ckpts EXCEPT ![<<e.of, e.key>>] = [at |-> NextSequence(r), proj |-> r.proj]]

\* The projection after event e.  ForkCreated and CheckpointCommitted leave
\* the modelled part of it as it is.
Project(r, e) ==
    LET seq == NextSequence(r) IN
    CASE e.op = "scheduled" -> ApplyScheduled(r.proj, e)
      [] e.op = "started" -> ApplyStarted(r.proj, e, seq)
      [] e.op \in {"completed", "cancelled"} -> ApplyFinished(r.proj, e, seq)
      [] e.op \in {"failed", "interrupted"} -> ApplyFailed(r.proj, e, seq)
      [] e.op = "reconcile_required" -> ApplyReconcileRequired(r.proj, e, seq)
      [] e.op = "reconciled" -> ApplyReconciled(r.proj, e, seq)
      [] e.op = "requested" -> ApplyRequested(r.proj, e)
      [] e.op = "pause" -> WithStatus(r.proj, "paused")
      [] e.op = "rewind" -> ApplyRewind(r, e)
      [] e.op = "complete" -> WithStatus(r.proj, "completed")
      [] e.op = "fail" -> WithStatus(r.proj, "failed")
      [] e.op = "cancel" -> WithStatus(r.proj, "cancelled")
      [] OTHER -> r.proj

\* append_validated_event: a known event is deduplicated, an event whose id is
\* taken by another content is a conflict, a fresh one must be legal.
Accepted(r, e) == Known(r, e) \/ (Fresh(r, e) /\ Legal(r, e))

Emit(r, e) == IF Fresh(r, e) /\ Legal(r, e)
              THEN [r EXCEPT !.log = Append(@, e),
                             !.proj = Project(r, e),
                             !.ckpts = IF e.op = "committed" THEN ApplyCommitted(r, e) ELSE @]
              ELSE r

-----------------------------------------------------------------------------
(* prepare_activity and decide_activity.  A decision is the new run state, *)
(* what the caller is told, and the attempt it concerns.                   *)

Decision(r, told, n) == [run |-> r, told |-> told, n |-> n]

\* The event of step's latest attempt; why distinguishes the error texts.
LatestEvent(r, s, op, what) ==
    ActivityEvent(op, r.proj.acts[s].home, s,
                  Len(r.proj.acts[s].attempts), "none", what)

DecideReconcile(r, s, why) ==
    LET e == LatestEvent(r, s, "reconcile_required", {why}) IN
    Decision(Emit(r, e), IF Accepted(r, e) THEN "reconcile" ELSE "error", e.n)

\* Fault of DecideStart: a retry takes the number of the failed attempt.
ReusesAttemptNumber(r, s) ==
    LET n == IF HasAttempt(r.proj.acts[s]) THEN Len(r.proj.acts[s].attempts) ELSE 1
        e == ActivityEvent("started", r.proj.acts[s].home, s, n, "none", {})
    IN  Decision(Emit(r, e), IF Accepted(r, e) THEN "execute" ELSE "error", n)

DecideStart(r, s) ==
    LET n == Len(r.proj.acts[s].attempts) + 1
        e == ActivityEvent("started", r.proj.acts[s].home, s, n, "none", {})
    IN  Decision(Emit(r, e), IF Accepted(r, e) THEN "execute" ELSE "error", n)

Interrupt(r, s) ==
    Emit(r, LatestEvent(r, s, "interrupted", {"retryable", "ambiguous"}))

\* After a failed attempt.
DecideRetry(r, s, last) ==
    IF ~last.retryable THEN Decision(r, "failed", 0)
    ELSE IF RetryIsSafe(s, last.ambiguous) THEN DecideStart(r, s)
    ELSE DecideReconcile(r, s, "failed_before")

\* After an attempt that is still recorded as running: its worker is gone.
DecideInterrupted(r, s) ==
    IF RetryIsSafe(s, TRUE) THEN DecideStart(Interrupt(r, s), s)
    ELSE DecideReconcile(r, s, "interrupted")

Decide(r, s) ==
    LET activity == r.proj.acts[s]
        last == Latest(activity)
    IN  IF activity.home = NoBranch THEN Decision(r, "error", 0)
        ELSE IF Completed(activity) THEN Decision(r, "reuse", 0)
        ELSE IF ~HasAttempt(activity) THEN DecideStart(r, s)
        ELSE CASE last.status = "running" -> DecideInterrupted(r, s)
               [] last.status = "failed" -> DecideRetry(r, s, last)
               [] last.status = "reconcile_required" -> Decision(r, "reconcile", 0)
               [] last.status = "cancelled" -> Decision(r, "cancelled", 0)

ScheduleIfAbsent(r, s) ==
    IF r.proj.acts[s].home = NoBranch
    THEN Emit(r, ActivityEvent("scheduled", r.proj.branch, s, 0, "none", {}))
    ELSE r

-----------------------------------------------------------------------------
(* Executions: an executor holds a token from the moment it is told to     *)
(* execute an attempt until it is lost or forgets about it.                *)

Report == {"none", "complete", "fail", "fail_retryable", "ambiguous",
           "ambiguous_retryable", "cancel"}

\* seq is the log position at which the execution was authorised (0: in an
\* ancestor run), done whether the effect happened, told the report made.
Token == [depth: 0..MaxForks, home: Branch \cup {NoBranch}, step: Step, n: Nat,
          seq: Nat, done: BOOLEAN, told: Report]

Dispatch(d, s) ==
    IF d.told = "execute"
    THEN {[depth |-> d.run.depth, home |-> d.run.proj.acts[s].home, step |-> s,
           n |-> d.n, seq |-> Len(d.run.log), done |-> FALSE, told |-> "none"]}
    ELSE {}

EffectCap == 2   \* bound: effects counted at one position

Happened(s) == \E i \in 0..MaxEvents : effects[s][i] > 0

Within(r) == Len(r.log) <= MaxEvents

\* An executor repeats a report if it never saw the answer, and never makes
\* two different ones; it reports to the run that authorised it.
MayReport(t, told) == /\ t.depth = run.depth
                      /\ t.told \in {"none", told}

Reported(t, told) == (flying \ {t}) \cup {[t EXCEPT !.told = told]}

TokenEvent(t, op, what) == ActivityEvent(op, t.home, t.step, t.n, "none", what)

-----------------------------------------------------------------------------
(* Operations on activities. *)

Prepare(s) ==
    /\ EnsureExecuting(run)
    /\ LET d == Decide(ScheduleIfAbsent(run, s), s) IN
       /\ Within(d.run)
       /\ run' = d.run
       /\ flying' = flying \cup Dispatch(d, s)
       /\ Cardinality(flying') <= MaxFlying
    /\ UNCHANGED effects

\* The executor performs the external effect of an unsafe activity.  After a
\* report that is not ambiguous it is finished.
Perform(t) ==
    /\ t.step \in UnsafeStep
    /\ ~t.done
    /\ t.told \in {"none", "ambiguous", "ambiguous_retryable"}
    /\ t.seq \in 0..MaxEvents /\ effects[t.step][t.seq] < EffectCap
    /\ flying' = (flying \ {t}) \cup {[t EXCEPT !.done = TRUE]}
    /\ effects' = [effects EXCEPT ![t.step][t.seq] = @ + 1]
    /\ UNCHANGED run

\* The executor crashes, or is done with the token.
Lose(t) == flying' = flying \ {t} /\ UNCHANGED <<run, effects>>

CompleteActivity(t) ==
    LET e == TokenEvent(t, "completed", {}) IN
    /\ MayReport(t, "complete")
    /\ t.step \in UnsafeStep => t.done
    /\ EnsureActive(run)
    /\ Within(Emit(run, e))
    /\ run' = Emit(run, e)
    /\ flying' = Reported(t, "complete")
    /\ UNCHANGED effects

FailReport(retryable, ambiguous) ==
    IF ambiguous THEN IF retryable THEN "ambiguous_retryable" ELSE "ambiguous"
                 ELSE IF retryable THEN "fail_retryable" ELSE "fail"

FailOutcome(r, t, retryable, ambiguous) ==
    LET e == TokenEvent(t, "failed",
                 {f \in {"retryable", "ambiguous"} :
                     IF f = "retryable" THEN retryable ELSE ambiguous})
    IN  IF ~Accepted(r, e) \/ r.proj.acts[t.step].home # t.home
        THEN Decision(r, "error", t.n)
        ELSE IF ambiguous /\ ~RetryIsSafe(t.step, TRUE)
        THEN Decision(Emit(Emit(r, e), TokenEvent(t, "reconcile_required", {"reported"})),
                      "reconcile", t.n)
        ELSE IF retryable THEN Decide(Emit(r, e), t.step)
        ELSE Decision(Emit(r, e), "failed", t.n)

FailActivity(t, retryable, ambiguous) ==
    LET told == FailReport(retryable, ambiguous)
        d == FailOutcome(run, t, retryable, ambiguous)
    IN  /\ MayReport(t, told)
        /\ t.done => ambiguous
        /\ EnsureActive(run)
        /\ Within(d.run)
        /\ run' = d.run
        /\ flying' = Reported(t, told) \cup Dispatch(d, t.step)
        /\ Cardinality(flying') <= MaxFlying
        /\ UNCHANGED effects

\* An ambiguous cancellation is handled as FailActivity(t, FALSE, TRUE).
CancelActivity(t) ==
    LET e == TokenEvent(t, "cancelled", {}) IN
    /\ MayReport(t, "cancel")
    /\ ~t.done
    /\ EnsureActive(run)
    /\ Within(Emit(run, e))
    /\ run' = Emit(run, e)
    /\ flying' = Reported(t, "cancel")
    /\ UNCHANGED effects

\* The operator looks only once no execution is in flight, and tells the truth.
ReconcileActivity(s, cmd, how) ==
    LET e == ActivityEvent("reconciled", run.proj.acts[s].home, s,
                           Len(run.proj.acts[s].attempts), cmd, {how})
    IN  /\ \A t \in flying : t.step # s
        /\ (how = "completed") <=> Happened(s)
        /\ HasAttempt(run.proj.acts[s])
        /\ Within(Emit(run, e))
        /\ run' = Emit(run, e)
        /\ UNCHANGED <<flying, effects>>

-----------------------------------------------------------------------------
(* Operations on the run. *)

\* An operation that emits the one event e.
EmitOnly(e) == /\ Within(Emit(run, e))
               /\ run' = Emit(run, e)
               /\ UNCHANGED <<flying, effects>>

RequestApproval(key) ==
    /\ ActiveAndReconciled(run)
    /\ EmitOnly(KeyedEvent("requested", <<run.proj.branch, key>>, "none", {}))

\* The orders in which a caller may list its resolutions.
Listings(S) ==
    {list \in UNION {[1..n -> S] : n \in {m \in 0..MaxEvents : m = Cardinality(S)}} :
        \A a \in S : \E i \in DOMAIN list : list[i] = a}

\* resume answers every pending approval (approved: the ones it grants) and
\* then resumes; with one left pending it is rejected as a whole.
ResumeEvents(r, cmd, list, approved) ==
    [i \in DOMAIN list |->
        KeyedEvent("resolved", list[i], cmd, IF list[i] \in approved THEN {"approved"} ELSE {})]
    \o <<CommandEvent("resume", r.depth, cmd, {}, NoCheckpoint)>>

ResumedProjection(proj, approved) ==
    [proj EXCEPT !.status = "running",
                 !.approvals = [a \in ApprovalId |->
                     IF a \notin Pending(proj) THEN @[a]
                     ELSE IF a \in approved THEN "approved" ELSE "rejected"]]

Resume(cmd, list, approved) ==
    LET resumed == [run EXCEPT !.log = @ \o ResumeEvents(run, cmd, list, approved),
                               !.proj = ResumedProjection(@, approved)]
    IN  /\ run.proj.status = "paused"
        /\ Fresh(run, CommandEvent("resume", run.depth, cmd, {}, NoCheckpoint))
        /\ \A a \in Pending(run.proj) : Fresh(run, KeyedEvent("resolved", a, cmd, {}))
        /\ ~HasReconciliationPending(run.proj)
        /\ Within(resumed)
        /\ run' = resumed
        /\ UNCHANGED <<flying, effects>>

\* Every activity has an outcome that no later attempt can change.
Settled(proj) ==
    \A s \in Step :
        HasAttempt(proj.acts[s]) =>
            LET last == Latest(proj.acts[s]) IN
            \/ last.status \in {"completed", "cancelled"}
            \/ last.status = "failed" /\ ~last.retryable

CommitCheckpoint(key) ==
    /\ ActiveAndReconciled(run)
    /\ CheckpointWhenSettled => Settled(run.proj)
    /\ EmitOnly(KeyedEvent("committed", <<run.proj.branch, key>>, "none", {}))

Pause(cmd) ==
    /\ ActiveAndReconciled(run)
    /\ EmitOnly(CommandEvent("pause", run.depth, cmd, {}, NoCheckpoint))

\* A run stops once, so one id per kind of stop is enough.
CompleteRun ==
    /\ EnsureActive(run)
    /\ EmitOnly(CommandEvent("complete", run.depth, "none", {}, NoCheckpoint))

FailRun ==
    /\ EnsureActive(run)
    /\ EmitOnly(CommandEvent("fail", run.depth, "none", {}, NoCheckpoint))

CancelRun == EmitOnly(CommandEvent("cancel", run.depth, "none", {}, NoCheckpoint))

BranchEvent(op, cmd, ck, acked) ==
    CommandEvent(op, run.depth, cmd, IF acked THEN {"acked"} ELSE {}, ck)

\* Who acknowledges that later side effects are reconciled has seen the
\* executions that started after the checkpoint end.
TruthfulAck(ck, acked) ==
    acked => \A t \in flying : t.seq <= run.ckpts[ck].at

Rewind(cmd, ck, acked) ==
    LET e == BranchEvent("rewind", cmd, ck, acked)
        at == run.ckpts[ck].at
    IN  /\ at # 0
        /\ TruthfulAck(ck, acked)
        /\ Within(Emit(run, e))
        /\ run' = Emit(run, e)
        /\ effects' = IF acked /\ Fresh(run, e) /\ Legal(run, e)
                      THEN [s \in Step |-> [i \in 0..MaxEvents |->
                               IF i > at THEN 0 ELSE effects[s][i]]]
                      ELSE effects
        /\ UNCHANGED flying

\* validate_projection_keyed_identities, applied to the checkpoint of a fork.
ValidAttempt(s, attempts, n) ==
    LET a == attempts[n] IN
    /\ a.started > 0
    /\ a.finished # 0 => a.finished >= a.started
    /\ (a.finished = 0) <=> (a.status = "running")
    /\ a.status \in {"running", "completed", "cancelled"} => ~a.retryable /\ ~a.ambiguous
    /\ a.status = "reconcile_required" => a.ambiguous
    /\ n < Len(attempts) =>
           a.status = "failed" /\ a.retryable /\ RetryIsSafe(s, a.ambiguous)

ValidProjection(proj) ==
    \A s \in Step : \A n \in DOMAIN proj.acts[s].attempts :
        ValidAttempt(s, proj.acts[s].attempts, n)

\* The fork of the run from checkpoint ck: a new run whose only event is
\* ForkedFrom and whose only checkpoint is the one it was forked from.
Child(ck) ==
    LET depth == run.depth + 1
        proj == ForkProjection(run.ckpts[ck].proj, FirstBranch(depth))
    IN  [depth |-> depth,
         log |-> <<CommandEvent("forked_from", depth, "none", {}, NoCheckpoint)>>,
         proj |-> proj,
         ckpts |-> [c \in CheckpointId |->
             IF c = ck THEN [at |-> 1, proj |-> proj] ELSE AbsentCheckpoint]]

CanFork(cmd, ck, acked) ==
    /\ run.depth < MaxForks
    /\ run.ckpts[ck].at # 0
    /\ TruthfulAck(ck, acked)
    /\ Accepted(run, BranchEvent("fork", cmd, ck, acked))
    /\ ValidProjection(run.ckpts[ck].proj)

\* fork, and the host goes on with the parent ...
ForkParent(cmd, ck, acked) ==
    /\ CanFork(cmd, ck, acked)
    /\ EmitOnly(BranchEvent("fork", cmd, ck, acked))

\* ... or with the child; the parent's executions go on unobserved.
ForkChild(cmd, ck, acked) ==
    LET at == run.ckpts[ck].at IN
    /\ CanFork(cmd, ck, acked)
    /\ run' = Child(ck)
    /\ flying' = {[t EXCEPT !.seq = 0] : t \in {u \in flying : u.seq <= at}}
    /\ effects' = [s \in Step |-> [i \in 0..MaxEvents |->
           IF i = 0 /\ (\E j \in 0..MaxEvents : j <= at /\ effects[s][j] > 0) THEN 1 ELSE 0]]

-----------------------------------------------------------------------------
Init ==
    /\ run = [depth |-> 0,
              log |-> <<CommandEvent("started_run", 0, "none", {}, NoCheckpoint)>>,
              proj |-> RootProjection,
              ckpts |-> [c \in CheckpointId |-> AbsentCheckpoint]]
    /\ flying = {}
    /\ effects = [s \in Step |-> [i \in 0..MaxEvents |-> 0]]

ActivityStep ==
    \/ \E s \in Step : Prepare(s)
    \/ \E t \in flying :
           \/ Perform(t)
           \/ Lose(t)
           \/ CompleteActivity(t)
           \/ \E retryable, ambiguous \in BOOLEAN : FailActivity(t, retryable, ambiguous)
           \/ CancelActivity(t)
    \/ \E s \in UnsafeStep, cmd \in Command,
          how \in {"completed", "safe_to_retry", "cancelled"} :
              ReconcileActivity(s, cmd, how)

RunStep ==
    \/ \E key \in ApprovalKey : RequestApproval(key)
    \/ \E cmd \in Command, list \in Listings(Pending(run.proj)),
          approved \in SUBSET Pending(run.proj) : Resume(cmd, list, approved)
    \/ \E key \in CheckpointKey : CommitCheckpoint(key)
    \/ \E cmd \in Command : Pause(cmd)
    \/ CompleteRun
    \/ FailRun
    \/ CancelRun
    \/ \E cmd \in Command, ck \in CheckpointId, acked \in BOOLEAN :
           \/ Rewind(cmd, ck, acked)
           \/ ForkParent(cmd, ck, acked)
           \/ ForkChild(cmd, ck, acked)

Next == ActivityStep \/ RunStep

Spec == Init /\ [][Next]_vars

-----------------------------------------------------------------------------
(* Properties. *)

\* Every variable stays in its type: in particular every event the ledger
\* appends, and every projection a rewind or a fork restores, is well formed.
TypeOK == /\ run \in RunState
          /\ flying \in SUBSET Token
          /\ effects \in [Step -> [0..MaxEvents -> Nat]]

\* A projection that agrees with its own status.  While the run executes or is
\* paused nothing awaits reconciliation, while it executes no approval is open,
\* and a run that stopped has no attempt that still counts as running.
Coherent(proj) ==
    /\ proj.status \in {"running", "paused"} => ~HasReconciliationPending(proj)
    /\ proj.status \in {"running", "completed"} => Pending(proj) = {}
    /\ IsTerminal(proj) => ~HasRunningActivity(proj)
    /\ proj.status = "completed" => ~HasReconciliationPending(proj)

\* Whatever commands, late reports, rewinds and forks do, the status of the
\* run never hides an open approval, an attempt to reconcile or a running one
\* (ensure_executing, resume and the terminal events rely on the status alone).
StatusTellsTheTruth == Coherent(run.proj)

\* Every checkpoint the run ever took can still be forked from: the snapshot
\* passes validate_projection_keyed_identities, also in a fork of a fork.
CheckpointsForkable ==
    \A c \in CheckpointId : run.ckpts[c].at # 0 => ValidProjection(run.ckpts[c].proj)

\* The effect of an activity that is neither pure nor protected by a key is
\* applied at most once, unless the earlier one was reconciled away by whoever
\* rewound or forked behind it.
NoDoubleEffect ==
    \A s \in UnsafeStep : \A i, j \in 0..MaxEvents :
        effects[s][i] > 0 /\ effects[s][j] > 0 => i = j /\ effects[s][i] = 1

\* A run is not reported completed with an effect its ledger does not show:
\* an effect that happened and was not reconciled away belongs to an activity
\* that is recorded as completed.
CompletedRunShowsItsEffects ==
    run.proj.status = "completed" =>
        \A s \in UnsafeStep : Happened(s) => Completed(run.proj.acts[s])

\* What prepare_activity would answer now.
Answer(s) == Decide(ScheduleIfAbsent(run, s), s)

\* Whenever preparing an activity makes the caller execute an attempt, the
\* ledger shows that very attempt as the latest one, running; otherwise its
\* outcome could never be committed and a crash would leave no trace of it.
ExecutionIsRecorded ==
    \A s \in Step :
        EnsureExecuting(run) /\ Answer(s).told = "execute" =>
            /\ LatestIs(Answer(s).run.proj.acts[s], "running")
            /\ Len(Answer(s).run.proj.acts[s].attempts) = Answer(s).n

\* An unsafe attempt that was interrupted stops the whole run: preparing it
\* again leaves the run waiting for reconciliation.
AmbiguityStopsTheRun ==
    \A s \in UnsafeStep :
        EnsureExecuting(run) /\ LatestIs(run.proj.acts[s], "running") =>
            Answer(s).run.proj.status = "reconcile_required"

\* A run that stopped stays stopped with the same verdict, and the only thing
\* its ledger still takes is the outcome of a reconciliation.
StoppedIsFinal ==
    [][IsTerminal(run.proj) /\ run'.depth = run.depth =>
           /\ run'.proj.status = run.proj.status
           /\ run'.ckpts = run.ckpts
           /\ \A i \in DOMAIN run'.log : i > Len(run.log) => run'.log[i].op = "reconciled"]_vars
=============================================================================
