---------------------------- MODULE RunLifecycle ----------------------------
(***************************************************************************)
(* Invocations of one durable run (run_agent of runtime.rs) and the audit  *)
(* span each of them opens and closes (durable_runtime.rs).                *)
(*                                                                         *)
(* Each member of Invocation is one stream that run_agent returns.  Before *)
(* RunStarted may reach the audit sink it writes a fence into the run,     *)
(* which stays open until RunStopped was accepted; RunStopped itself is    *)
(* announced by a terminal audit record, whose completion is the receipt   *)
(* that lets the run become terminal.  A process that dies leaves fence,   *)
(* record and activities open, and the next invocation quarantines them    *)
(* for an operator.                                                        *)
(*                                                                         *)
(* A driver keeps a copy of the run.  Its transitions compare the copy     *)
(* with the store and swap; the store compares again, so a transition is   *)
(* one step.  Any mismatch or error poisons the driver.  A turn is one     *)
(* provider request and at most one tool call.  Receipts written by older  *)
(* versions of the runtime, and the recovery record that closes a span     *)
(* superseded by one, are left out: no invocation of this version can meet *)
(* a receipt while its own fence is open.                                  *)
(***************************************************************************)
EXTENDS Naturals

CONSTANTS
    Invocation,  \* streams of run_agent on the run
    Driver,      \* instances of DurableRunDriver, one per process
    Home,        \* the driver of each invocation
    Nobody,      \* not an invocation
    MaxFaults    \* bound: errors of the store and of the audit sink

\* What the constants must be.
ConstantsFit == /\ Home \in [Invocation -> Driver]
                /\ Nobody \notin Invocation
                /\ MaxFaults \in Nat

VARIABLES
    run,       \* the run in the store
    driver,    \* the drivers' copies of it
    inv,       \* where each invocation is, and its terminal_reason
    started,   \* ghost: RunStarted records of an invocation at the sink
    stopped,   \* ghost: RunStopped records of an invocation at the sink
    byHand,    \* ghost: spans that an operator closed at the sink
    effects,   \* ghost: provider requests and tool calls that took effect
    errors     \* errors of the store and the sink so far

vars == <<run, driver, inv, started, stopped, byHand, effects, errors>>

-----------------------------------------------------------------------------
(* The run. *)

Step == {"provider", "tool"}

Terminal == {"completed", "failed", "cancelled"}

\* Of an activity's latest attempt.  retryable: reconciled as SafeToRetry.
Activity == {"none", "running", "ambiguous", "retryable", "completed", "failed"}

\* closed: completed as audit_closed; authorized: terminal_replay_authorized.
Fence == {"none", "running", "ambiguous", "closed", "authorized"}

Reason == {"end_turn", "cancelled", "failure", "commit_failure"}

\* version stands for the event log, by which two states of the run differ.
Run == [status: {"running", "paused", "reconcile"} \cup Terminal,
        activity: [Step -> Activity],
        fence: [Invocation -> Fence],
        audit: [state: Activity, by: Invocation \cup {Nobody}, reason: Reason],
        version: Nat]

NewRun == [status |-> "running",
           activity |-> [s \in Step |-> "none"],
           fence |-> [i \in Invocation |-> "none"],
           audit |-> [state |-> "none", by |-> Nobody, reason |-> "end_turn"],
           version |-> 0]

\* The terminal status that a receipt asks for.
StatusOf(reason) == CASE reason = "end_turn" -> "completed"
                      [] reason = "cancelled" -> "cancelled"
                      [] OTHER -> "failed"

StepRuns(r) == \E s \in Step : r.activity[s] = "running"

Pending(r) == \/ \E s \in Step : r.activity[s] = "ambiguous"
              \/ \E i \in Invocation : r.fence[i] = "ambiguous"
              \/ r.audit.state = "ambiguous"

\* Fault of MayBecomeTerminal: only activities are looked at.
ForgetsTheFences(r) ==
    /\ r.status \notin Terminal
    /\ ~StepRuns(r)

\* ensure_reserved_audit_lifecycle_closed and ensure_no_running_activities.
MayBecomeTerminal(r) ==
    /\ r.status \notin Terminal
    /\ \A i \in Invocation : r.fence[i] \in {"none", "closed", "authorized"}
    /\ r.audit.state \in {"none", "completed"}
    /\ ~StepRuns(r)

\* What ends ambiguously stops the run.
Ambiguous(r) == [r EXCEPT !.status = "reconcile"]

-----------------------------------------------------------------------------
(* What an invocation finds (invocation_disposition). *)

Interrupted(state) == IF state = "running" THEN "ambiguous" ELSE state

\* Fault of InterruptedAudit: a delivery that was cut off is delivered again.
RedeliversInterrupted(state) == IF state = "running" THEN "retryable" ELSE state

\* A RunStopped delivery that nobody finished.
InterruptedAudit(state) == Interrupted(state)

\* Everything that others left open is quarantined, in one transition.
Quarantined(r, me) ==
    LET q == [r EXCEPT !.activity = [s \in Step |-> Interrupted(r.activity[s])],
                       !.fence = [i \in Invocation |-> IF i = me THEN r.fence[i]
                                                       ELSE Interrupted(r.fence[i])],
                       !.audit.state = InterruptedAudit(r.audit.state)]
    IN  IF Pending(q) THEN Ambiguous(q) ELSE q

Disposition(r) ==
    CASE r.status = "reconcile" -> "reconcile"
      [] r.status = "paused" -> "await_resume"
      [] r.audit.state = "completed" -> "finalize"
      [] r.audit.state = "retryable" -> "retry"
      [] r.status \in Terminal -> "already_terminal"
      [] OTHER -> "execute"

-----------------------------------------------------------------------------
(* Transitions of a driver. *)

Idle == {"idle", "returned", "crashed"}

Pc == Idle \cup {"claimed", "fencing", "rechecking", "starting", "unstarted",
       "asking", "streaming", "answered", "governed", "dispatched", "executing",
       "executed", "stopping", "emitting", "sealing", "unsealing", "retrying",
       "reemitting", "resealing", "reopening", "finalizing"}

Active(i) == inv[i].pc \notin Idle

At(i, pc) == inv[i].pc = pc

Copy(i) == driver[Home[i]].copy

Goto(i, pc) == inv' = [inv EXCEPT ![i].pc = pc]

StopBecause(i, reason) == inv' = [inv EXCEPT ![i] = [pc |-> "stopping", reason |-> reason]]

Poison(i) == driver' = [driver EXCEPT ![Home[i]].poisoned = TRUE]

\* transition_inner with a mutation that makes next of the copy, or refuses.
\* Ok and Err are what the invocation does with the answer.  An error of the
\* store may hide that the swap was committed.
Transition(i, accepts, next, Ok, Err) ==
    LET new == [next EXCEPT !.version = @ + 1]
        d == driver[Home[i]]
        clean == ~d.poisoned /\ run = d.copy
    IN  \/ /\ clean /\ accepts /\ Ok
           /\ IF next = d.copy THEN UNCHANGED <<run, driver>>
              ELSE run' = new /\ driver' = [driver EXCEPT ![Home[i]].copy = new]
           /\ UNCHANGED errors
        \/ /\ clean /\ accepts /\ next # d.copy /\ errors < MaxFaults
           /\ run' \in {run, new}
           /\ errors' = errors + 1
           /\ Poison(i) /\ Err
        \/ /\ clean /\ ~accepts /\ Err
           /\ UNCHANGED <<run, driver, errors>>
        \/ /\ ~clean /\ Poison(i) /\ Err
           /\ UNCHANGED <<run, errors>>

NoOutsideEffect == UNCHANGED <<started, stopped, byHand, effects>>

\* The audit sink accepts a record of the span of j, or reports an error,
\* although some of the sinks behind it may have accepted it.
Emit(count, j, Accepted, Rejected) ==
    \/ /\ count' = [count EXCEPT ![j] = @ + 1]
       /\ Accepted
       /\ UNCHANGED errors
    \/ /\ errors < MaxFaults /\ errors' = errors + 1
       /\ count' \in {count, [count EXCEPT ![j] = @ + 1]}
       /\ Rejected

-----------------------------------------------------------------------------
(* Opening the span. *)

\* claim_invocation: one stream at a time on a driver.
ClaimInvocation(i) ==
    /\ At(i, "idle")
    /\ Goto(i, IF \E j \in Invocation : Home[j] = Home[i] /\ Active(j)
               THEN "returned" ELSE "claimed")
    /\ UNCHANGED <<run, driver, errors>> /\ NoOutsideEffect

\* The run is classified when the invocation is prepared and, with the same
\* result, right before the fence.
InvocationDisposition(i) ==
    /\ At(i, "claimed")
    /\ LET found == Quarantined(Copy(i), Nobody)
           verdict == Disposition(found)
       IN  Transition(i, TRUE, found,
               Goto(i, CASE verdict = "execute" -> "fencing"
                         [] verdict = "retry" -> "retrying"
                         [] verdict = "finalize" -> "finalizing"
                         [] OTHER -> "returned"),
               Goto(i, "returned"))
    /\ NoOutsideEffect

BeginInvocationLifecycle(i) ==
    /\ At(i, "fencing")
    /\ Transition(i, /\ Copy(i).status = "running"
                     /\ Copy(i).audit.state = "none"
                     /\ \A j \in Invocation : Copy(i).fence[j] # "running",
           [Copy(i) EXCEPT !.fence[i] = "running"],
           Goto(i, "rechecking"), Goto(i, "returned"))
    /\ NoOutsideEffect

\* invocation_disposition_for_active_lifecycle: the last look at the store
\* before RunStarted.
Recheck(i) ==
    /\ At(i, "rechecking")
    /\ Transition(i, TRUE, Quarantined(Copy(i), i), Goto(i, "starting"), Goto(i, "returned"))
    /\ NoOutsideEffect

EmitRunStarted(i) ==
    /\ At(i, "starting")
    /\ Emit(started, i, Goto(i, "asking"), Goto(i, "unstarted"))
    /\ UNCHANGED <<run, driver, stopped, byHand, effects>>

\* Fault of FailInvocationLifecycle: a rejected RunStarted counts as unsent.
ClosesUnstarted(i) ==
    /\ At(i, "unstarted")
    /\ Transition(i, TRUE, [Copy(i) EXCEPT !.fence[i] = "closed"],
           StopBecause(i, "failure"), StopBecause(i, "commit_failure"))
    /\ NoOutsideEffect

\* RunStarted was not accepted everywhere; whether it is open is ambiguous.
FailInvocationLifecycle(i) ==
    /\ At(i, "unstarted")
    /\ Transition(i, TRUE, Ambiguous([Copy(i) EXCEPT !.fence[i] = "ambiguous"]),
           StopBecause(i, "failure"), StopBecause(i, "commit_failure"))
    /\ NoOutsideEffect

-----------------------------------------------------------------------------
(* The turn. *)

\* begin_activity: what is recorded is reused, what may run is started.
BeginActivity(i, s, executes, reuses) ==
    LET state == Copy(i).activity[s] IN
    Transition(i, /\ Copy(i).status = "running"
                  /\ Copy(i).audit.state = "none"
                  /\ state \in {"none", "retryable", "completed"},
        IF state = "completed" THEN Copy(i) ELSE [Copy(i) EXCEPT !.activity[s] = "running"],
        Goto(i, IF state = "completed" THEN reuses ELSE executes),
        StopBecause(i, "failure"))

BeginProvider(i) ==
    /\ At(i, "asking")
    /\ BeginActivity(i, "provider", "streaming", "governed")
    /\ NoOutsideEffect

\* A prompt hook, a budget or the caller ends the run before the request.
StopBeforeRequest(i) ==
    /\ At(i, "asking")
    /\ \E reason \in {"cancelled", "failure"} : StopBecause(i, reason)
    /\ UNCHANGED <<run, driver, errors>> /\ NoOutsideEffect

\* The request reaches the provider, the call reaches the tool.
TakesEffect(i, s, pc) ==
    /\ Goto(i, pc)
    /\ effects' = [effects EXCEPT ![s] = @ + 1]
    /\ UNCHANGED <<run, driver, started, stopped, byHand, errors>>

ProviderAnswers(i) == At(i, "streaming") /\ TakesEffect(i, "provider", "answered")

\* An attempt is under way, of this step.
Doing == {"streaming", "answered", "dispatched", "executing", "executed"}

StepOf(i) == IF inv[i].pc \in {"streaming", "answered"} THEN "provider" ELSE "tool"

FinishActivity(i, accepted, reason) ==
    /\ inv[i].pc \in Doing \ {"dispatched"}
    /\ Transition(i, TRUE, accepted, StopBecause(i, reason), StopBecause(i, "commit_failure"))
    /\ NoOutsideEffect

\* finalize_ambiguous_durable_activity and the failures of a stream or a tool:
\* an error or a cancellation after the dispatch leaves the effect open.
FailAmbiguously(i) ==
    FinishActivity(i, Ambiguous([Copy(i) EXCEPT !.activity[StepOf(i)] = "ambiguous"]), "failure")

CompleteProvider(i) ==
    /\ At(i, "answered")
    /\ Transition(i, TRUE, [Copy(i) EXCEPT !.activity["provider"] = "completed"],
           Goto(i, "governed"), StopBecause(i, "commit_failure"))
    /\ NoOutsideEffect

\* The answer calls no tool, or the call is denied; or an approval is
\* interrupted, or a hook or an audit record fails.
StopAfterAnswer(i) ==
    /\ At(i, "governed")
    /\ \E reason \in {"end_turn", "cancelled", "failure"} : StopBecause(i, reason)
    /\ UNCHANGED <<run, driver, errors>> /\ NoOutsideEffect

BeginTool(i) ==
    /\ At(i, "governed")
    /\ BeginActivity(i, "tool", "dispatched", "stopping")
    /\ NoOutsideEffect

\* ToolStarted is accepted ...
ToolStarted(i) ==
    /\ At(i, "dispatched")
    /\ Goto(i, "executing")
    /\ UNCHANGED <<run, driver, errors>> /\ NoOutsideEffect

\* ... or not, and fail_unstarted_durable_activity closes the attempt.
ToolNotStarted(i) ==
    /\ At(i, "dispatched")
    /\ Transition(i, TRUE, [Copy(i) EXCEPT !.activity["tool"] = "failed"],
           StopBecause(i, "failure"), StopBecause(i, "commit_failure"))
    /\ NoOutsideEffect

ToolExecutes(i) == At(i, "executing") /\ TakesEffect(i, "tool", "executed")

CompleteTool(i) ==
    /\ At(i, "executed")
    /\ FinishActivity(i, [Copy(i) EXCEPT !.activity["tool"] = "completed"], "end_turn")

-----------------------------------------------------------------------------
(* Closing the span. *)

Undecided(i) == \/ driver[Home[i]].poisoned
                \/ inv[i].reason = "commit_failure"
                \/ Copy(i).status = "reconcile"

\* The run cannot become terminal: RunStopped is sent for the sinks' sake and
\* the fence stays open.
EmitDirect(i) ==
    /\ At(i, "stopping") /\ Undecided(i)
    /\ Emit(stopped, i, Goto(i, "returned"), Goto(i, "returned"))
    /\ UNCHANGED <<run, driver, started, byHand, effects>>

BeginRunStoppedAudit(i) ==
    /\ At(i, "stopping") /\ ~Undecided(i)
    /\ Transition(i, /\ Copy(i).status = "running"
                     /\ Copy(i).fence[i] = "running"
                     /\ Copy(i).audit.state = "none"
                     /\ ~StepRuns(Copy(i)),
           [Copy(i) EXCEPT !.audit = [state |-> "running", by |-> i, reason |-> inv[i].reason]],
           Goto(i, "emitting"), Goto(i, "returned"))
    /\ NoOutsideEffect

EmitRunStopped(i) ==
    /\ At(i, "emitting")
    /\ Emit(stopped, i, Goto(i, "sealing"), Goto(i, "unsealing"))
    /\ UNCHANGED <<run, driver, started, byHand, effects>>

\* Receipt and fence are completed together ...
CompleteAuditAndLifecycle(i) ==
    /\ At(i, "sealing")
    /\ Transition(i, TRUE, [Copy(i) EXCEPT !.audit.state = "completed", !.fence[i] = "closed"],
           Goto(i, "finalizing"), Goto(i, "returned"))
    /\ NoOutsideEffect

\* ... or left to an operator together.
FailAuditAndLifecycle(i) ==
    /\ At(i, "unsealing")
    /\ Transition(i, TRUE,
           Ambiguous([Copy(i) EXCEPT !.audit.state = "ambiguous", !.fence[i] = "ambiguous"]),
           Goto(i, "returned"), Goto(i, "returned"))
    /\ NoOutsideEffect

\* finalize_run_stopped_receipt, also for a receipt that was found.
FinalizeReceipt(i) ==
    LET expected == StatusOf(Copy(i).audit.reason) IN
    /\ At(i, "finalizing")
    /\ Transition(i, \/ Copy(i).status = expected
                     \/ Copy(i).status = "running" /\ MayBecomeTerminal(Copy(i)),
           [Copy(i) EXCEPT !.status = expected],
           Goto(i, "returned"), Goto(i, "returned"))
    /\ NoOutsideEffect

-----------------------------------------------------------------------------
(* Delivering RunStopped again (retry_reconciled_terminal_audit). *)

BeginAuditRetry(i) ==
    LET audit == Copy(i).audit IN
    /\ At(i, "retrying")
    /\ Transition(i, /\ Copy(i).status = "running"
                     /\ audit.state = "retryable"
                     /\ Copy(i).fence[audit.by] = "authorized"
                     /\ ~StepRuns(Copy(i)),
           [Copy(i) EXCEPT !.audit.state = "running"],
           Goto(i, "reemitting"), Goto(i, "returned"))
    /\ NoOutsideEffect

EmitRetry(i) ==
    /\ At(i, "reemitting")
    /\ Emit(stopped, Copy(i).audit.by, Goto(i, "resealing"), Goto(i, "reopening"))
    /\ UNCHANGED <<run, driver, started, byHand, effects>>

CompleteAuditRetry(i) ==
    /\ At(i, "resealing")
    /\ Transition(i, TRUE, [Copy(i) EXCEPT !.audit.state = "completed"],
           Goto(i, "finalizing"), Goto(i, "returned"))
    /\ NoOutsideEffect

FailAuditRetry(i) ==
    /\ At(i, "reopening")
    /\ Transition(i, TRUE, Ambiguous([Copy(i) EXCEPT !.audit.state = "ambiguous"]),
           Goto(i, "returned"), Goto(i, "returned"))
    /\ NoOutsideEffect

-----------------------------------------------------------------------------
(* The environment. *)

\* The consumer drops the stream where it waits or yields.
DropStream(i) ==
    /\ inv[i].pc \in {"asking", "streaming", "answered", "governed", "executing",
                      "executed", "stopping"}
    /\ Goto(i, "returned")
    /\ UNCHANGED <<run, driver, errors>> /\ NoOutsideEffect

\* The process dies.
Crash(d) ==
    /\ \E i \in Invocation : Home[i] = d /\ Active(i)
    /\ inv' = [i \in Invocation |-> IF Home[i] = d /\ Active(i)
                                    THEN [inv[i] EXCEPT !.pc = "crashed"] ELSE inv[i]]
    /\ driver' = [driver EXCEPT ![d].poisoned = TRUE]
    /\ UNCHANGED <<run, errors>> /\ NoOutsideEffect

\* The host loads the run and makes a new driver of it, for another invocation.
OpenDriver(d) ==
    /\ \A i \in Invocation : Home[i] = d => ~Active(i)
    /\ \E i \in Invocation : Home[i] = d /\ At(i, "idle")
    /\ driver[d].poisoned \/ driver[d].copy # run
    /\ driver' = [driver EXCEPT ![d] = [copy |-> run, poisoned |-> FALSE]]
    /\ UNCHANGED <<run, inv, errors>> /\ NoOutsideEffect

Written(r) == run' = [r EXCEPT !.version = @ + 1]

\* reconcile_activity pauses the run when nothing more is pending.
Reconciled(r) == Written(IF Pending(r) THEN r ELSE [r EXCEPT !.status = "paused"])

\* An operator decides by what really happened, and only about an attempt that
\* no stream is working on any more.
ReconcileStep(s) ==
    /\ run.activity[s] = "ambiguous"
    /\ \A i \in Invocation : inv[i].pc \in Doing => StepOf(i) # s
    /\ Reconciled([run EXCEPT !.activity[s] = IF effects[s] > 0 THEN "completed" ELSE "retryable"])
    /\ UNCHANGED <<driver, inv, errors>> /\ NoOutsideEffect

ReconcileAudit ==
    /\ run.audit.state = "ambiguous"
    /\ \A i \in Invocation : inv[i].pc \notin {"emitting", "sealing", "unsealing",
                                               "reemitting", "resealing", "reopening"}
    /\ Reconciled([run EXCEPT !.audit.state =
                       IF stopped[run.audit.by] > 0 THEN "completed" ELSE "retryable"])
    /\ UNCHANGED <<driver, inv, errors>> /\ NoOutsideEffect

\* validate_reserved_audit_reconciliation: the fence of the terminal audit
\* follows the audit; any other needs the word that the span is closed.
ReconcileFence(i) ==
    /\ run.fence[i] = "ambiguous" /\ ~Active(i)
    /\ IF run.audit.by = i
       THEN /\ run.audit.state \in {"completed", "retryable"}
            /\ Reconciled([run EXCEPT !.fence[i] =
                               IF run.audit.state = "completed" THEN "closed" ELSE "authorized"])
            /\ UNCHANGED byHand
       ELSE /\ Reconciled([run EXCEPT !.fence[i] = "closed"])
            /\ byHand' = IF stopped[i] = 0 THEN byHand \cup {i} ELSE byHand
    /\ UNCHANGED <<driver, inv, started, stopped, effects, errors>>

Resume == /\ run.status = "paused"
          /\ Written([run EXCEPT !.status = "running"])
          /\ UNCHANGED <<driver, inv, errors>> /\ NoOutsideEffect

\* cancel_run on a driver of the host's own.
CancelRun == /\ run.status \in {"running", "paused"} /\ MayBecomeTerminal(run)
             /\ Written([run EXCEPT !.status = "cancelled"])
             /\ UNCHANGED <<driver, inv, errors>> /\ NoOutsideEffect

-----------------------------------------------------------------------------
Init == /\ run = NewRun
        /\ driver = [d \in Driver |-> [copy |-> NewRun, poisoned |-> FALSE]]
        /\ inv = [i \in Invocation |-> [pc |-> "idle", reason |-> "end_turn"]]
        /\ started = [i \in Invocation |-> 0]
        /\ stopped = [i \in Invocation |-> 0]
        /\ byHand = {}
        /\ effects = [s \in Step |-> 0]
        /\ errors = 0

Opening(i) == \/ ClaimInvocation(i) \/ InvocationDisposition(i)
              \/ BeginInvocationLifecycle(i) \/ Recheck(i)
              \/ EmitRunStarted(i) \/ FailInvocationLifecycle(i)

Turn(i) == \/ BeginProvider(i) \/ StopBeforeRequest(i) \/ ProviderAnswers(i)
           \/ CompleteProvider(i) \/ FailAmbiguously(i) \/ StopAfterAnswer(i)
           \/ BeginTool(i) \/ ToolStarted(i) \/ ToolNotStarted(i)
           \/ ToolExecutes(i) \/ CompleteTool(i)

Closing(i) == \/ EmitDirect(i) \/ BeginRunStoppedAudit(i) \/ EmitRunStopped(i)
              \/ CompleteAuditAndLifecycle(i) \/ FailAuditAndLifecycle(i)
              \/ FinalizeReceipt(i) \/ BeginAuditRetry(i) \/ EmitRetry(i)
              \/ CompleteAuditRetry(i) \/ FailAuditRetry(i)

Next == \/ \E i \in Invocation :
              Opening(i) \/ Turn(i) \/ Closing(i) \/ DropStream(i) \/ ReconcileFence(i)
        \/ \E d \in Driver : Crash(d) \/ OpenDriver(d)
        \/ \E s \in Step : ReconcileStep(s)
        \/ ReconcileAudit \/ Resume \/ CancelRun

Spec == Init /\ [][Next]_vars

-----------------------------------------------------------------------------
(* Properties. *)

\* The variables have their types.
TypeOK == /\ run \in Run
          /\ driver \in [Driver -> [copy: Run, poisoned: BOOLEAN]]
          /\ inv \in [Invocation -> [pc: Pc, reason: Reason]]
          /\ started \in [Invocation -> Nat]
          /\ stopped \in [Invocation -> Nat]
          /\ byHand \subseteq Invocation
          /\ effects \in [Step -> Nat]
          /\ errors \in 0..MaxFaults

\* RunStarted is at the sink and nothing has closed the span there.
SpanIsOpen(i) == started[i] > 0 /\ stopped[i] = 0 /\ i \notin byHand

\* An open span is always on record in the store: its fence is open, or its
\* RunStopped is still to be delivered.  No crash, lost answer of the store or
\* rejected record makes the run forget that an invocation was announced.
OpenSpanIsFenced ==
    \A i \in Invocation :
        SpanIsOpen(i) =>
            \/ run.fence[i] \in {"running", "ambiguous"}
            \/ /\ run.fence[i] = "authorized" /\ run.audit.by = i
               /\ run.audit.state \in {"running", "ambiguous", "retryable"}

\* Nothing happens twice: each invocation announces itself and its end at most
\* once, and a request or a tool call takes effect at most once, over all the
\* invocations that resume the run.
NothingTwice ==
    /\ \A i \in Invocation : started[i] <= 1 /\ stopped[i] <= 1
    /\ \A s \in Step : effects[s] <= 1

\* A terminal run is settled: every span that was opened was closed, nobody is
\* about to open another or to act, and no receipt is in doubt.
TerminalIsSettled ==
    run.status \in Terminal =>
        /\ \A i \in Invocation : ~SpanIsOpen(i)
        /\ \A i \in Invocation :
               inv[i].pc \notin {"starting", "streaming", "dispatched", "executing"}
        /\ run.audit.state = "completed" => stopped[run.audit.by] = 1
=============================================================================
