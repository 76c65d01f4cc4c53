------------------------------ MODULE A2aTask ------------------------------
(***************************************************************************)
(* One task of an A2A server (a2a_transport.rs) with its messages and its  *)
(* cancellation: what the mapper stores about them (a2a.rs), the requests, *)
(* scheduled jobs and recovery driver that work on it at the same time,    *)
(* and the host whose work outlives the calls that start it.               *)
(*                                                                         *)
(* A mutation of the mapper is one step, as A2aSnapshot justifies: it is   *)
(* stored or the caller is told that it is not.  A request may be dropped  *)
(* between any two steps, a process may crash, which loses everything but  *)
(* the mapper and the host's work.  That the acceptance event of a message *)
(* is delivered is one step here.                                          *)
(*                                                                         *)
(* The host is trusted to be truthful: it attests a safe retry, or a stop, *)
(* only when the work in question is over, and it begins no work for a     *)
(* call whose token has been signalled already.                            *)
(***************************************************************************)
EXTENDS Naturals, FiniteSets

CONSTANTS
    Message,      \* the messages of the task, each with its dispatch
    Sender,       \* requests that send a message
    Sends,        \* the message of each sender
    Canceller,    \* requests that cancel the task
    Driver,       \* the recovery driver
    MaxAttempts,  \* A2A_MAX_DISPATCH_ATTEMPTS, A2A_MAX_CANCELLATION_ATTEMPTS
    MaxFaults     \* bound: mutations, event appends and reservations that fail,
                  \* and crashes of the process

\* What the constants must satisfy.
ConstantsFit == /\ Sends \in [Sender -> Message]
                /\ Sender \cap Canceller = {}
                /\ Driver \notin Sender \cup Canceller
                /\ "cancel" \notin Message
                /\ MaxAttempts \in Nat \ {0} /\ MaxFaults \in Nat

VARIABLES
    task,      \* state of the task in the mapper
    outbox,    \* dispatches and cancellation in the mapper
    ready,     \* messages whose acceptance event is settled
    claims,    \* recovery_attempted: what recovery must leave alone
    job,       \* the scheduled job of each message and of the cancellation
    token,     \* running_dispatch_cancellations of the task
    recon,     \* cancellation_reconciliations: the attempt and its answer
    actor,     \* where requests and driver are and what they have read
    alive,     \* external: the attempts whose work the host may still do
    faults

vars == <<task, outbox, ready, claims, job, token, recon, actor, alive, faults>>

mapper == <<task, outbox, ready>>

-----------------------------------------------------------------------------
Key == Message \cup {"cancel"}

Actor == Sender \cup Canceller \cup {Driver}

Terminal == {"completed", "failed", "cancelled"}

OutboxState == {"none", "queued", "running", "pending", "settled"}

Record == [state: OutboxState, attempts: 0..MaxAttempts]

NoRecord == [state |-> "none", attempts |-> 0]

NoJob == [pc |-> "none", attempt |-> 0, claim |-> FALSE, fenced |-> FALSE]

NoAnswer == [attempts |-> 0, answer |-> "none"]

AtRest == [pc |-> "idle", key |-> "cancel", rec |-> NoRecord, claim |-> FALSE,
           sender |-> FALSE, asks |-> FALSE]

\* claim: it holds a RecoveryAttemptClaim; sender: it holds the commit sender
\* of the job of its key; asks: it owns the reconciliation in flight.
ActorState == [pc: {"idle", "flush", "read", "claim", "reserve", "reconcile", "demote",
                    "run", "signal", "ask", "acknowledge", "send", "dispatches", "gone"},
               key: Key, rec: Record, claim: BOOLEAN, sender: BOOLEAN, asks: BOOLEAN]

JobState == [pc: {"none", "gate", "queued", "admitted", "registered", "call", "host", "stopped",
                  "settling", "failing", "failing2", "done"},
             attempt: 0..MaxAttempts, claim: BOOLEAN, fenced: BOOLEAN]

TypeOK == /\ task \in {"none", "working", "input"} \cup Terminal
          /\ outbox \in [Key -> Record]
          /\ ready \subseteq Message
          /\ claims \subseteq Key
          /\ job \in [Key -> JobState]
          /\ token \in {"none", "live", "signalled"}
          /\ recon \in [attempts: 0..MaxAttempts,
                        answer: {"none", "asked", "stopped", "retry", "required"}]
          /\ actor \in [Actor -> ActorState]
          /\ alive \subseteq Message \X (1..MaxAttempts)
          /\ faults \in 0..MaxFaults

\* Something that may fail does.
Fault == faults < MaxFaults /\ faults' = faults + 1

Unknown(rec) == rec.state \in {"running", "pending"}

Unsettled(k) == outbox[k].state \notin {"none", "settled"}

\* is_terminal, or waiting for the client.
Runnable == task = "working"

\* alive work of a message.
Working(m) == \E n \in 1..MaxAttempts : <<m, n>> \in alive

Goto(a, pc) == actor' = [actor EXCEPT ![a].pc = pc]

\* The job after its commit sender was dropped: the reservation ends.
Dropped(k) == [job EXCEPT ![k] = [NoJob EXCEPT !.pc = "done"]]

\* Where a request, or the driver, is after its work.
AfterWork(a) == IF a = Driver /\ actor[a].key = "cancel" THEN "dispatches"
            ELSE IF a = Driver THEN "idle" ELSE "gone"

Rest(a) == actor' = [actor EXCEPT ![a] = [AtRest EXCEPT !.pc = AfterWork(a)]]

\* The CancellationReconciliationOwnerGuard of a, dropped.
Asked(a) == [attempts |-> actor[a].rec.attempts, answer |-> "asked"]

ReconDropped(a) == IF actor[a].asks /\ recon = Asked(a) THEN NoAnswer ELSE recon

\* a returns and drops its commit sender and its reconciliation.
Depart(a, newClaims) ==
    /\ Rest(a)
    /\ claims' = newClaims
    /\ job' = IF actor[a].sender THEN Dropped(actor[a].key) ELSE job
    /\ recon' = ReconDropped(a)

\* Fault of Leave: the claim outlives the request.
LeavesClaimed(a) == Depart(a, claims)

\* It drops its claim, too.
Leave(a) == Depart(a, IF actor[a].claim THEN claims \ {actor[a].key} ELSE claims)

\* Its key stays in recovery_attempted.
LeaveQuarantined(a) == Depart(a, claims \cup {actor[a].key})

\* release_recovery_attempt.
LeaveReleased(a) == Depart(a, claims \ {actor[a].key})

-----------------------------------------------------------------------------
(* The mapper's mutations (a2a.rs). *)

\* preflight_send_message for a message without a receipt.
Acceptable(m) ==
    /\ outbox[m].state = "none"
    /\ \/ task = "none"
       \/ /\ task \notin Terminal
          /\ \A k \in Key : ~Unsettled(k)
          /\ \A o \in Message : outbox[o].state # "none" => o \in ready

\* mark_dispatch_running, mark_cancellation_running.
CanRun(k) == /\ outbox[k].state \in {"queued", "pending"}
             /\ IF k = "cancel" THEN task \notin Terminal ELSE Runnable
             /\ outbox[k].attempts < MaxAttempts

MarkRunning(k) ==
    CanRun(k) /\ outbox' = [outbox EXCEPT ![k] = [state |-> "running", attempts |-> @.attempts + 1]]

\* mark_dispatch_reconcile_pending, mark_cancellation_reconcile_pending.
CanDemote(k) == outbox[k].state \in {"queued", "running"}

MarkPending(k) == CanDemote(k) /\ outbox' = [outbox EXCEPT ![k].state = "pending"]

\* The guard of acknowledge_cancellation.
Acknowledgeable(attempt) ==
    Unknown(outbox["cancel"]) /\ outbox["cancel"].attempts = attempt /\ task \notin Terminal

\* acknowledge_cancellation: the exact attempt of the cancellation ends the
\* task, and every dispatch with it.
Acknowledges(attempt) ==
    /\ Acknowledgeable(attempt)
    /\ task' = "cancelled"
    /\ outbox' = [k \in Key |-> IF Unsettled(k) THEN [outbox[k] EXCEPT !.state = "settled"]
                                ELSE outbox[k]]

\* The guard of transition_dispatch_task and complete_dispatch_output.
Transitionable(m, attempt) ==
    /\ outbox[m] = [state |-> "running", attempts |-> attempt]
    /\ ~Unsettled("cancel") /\ task = "working"

\* transition_dispatch_task and complete_dispatch_output: by the exact running
\* attempt, and never across a cancellation.
Transitions(m, attempt, next) ==
    /\ Transitionable(m, attempt)
    /\ task' = next
    /\ outbox' = [outbox EXCEPT ![m].state = "settled"]

-----------------------------------------------------------------------------
(* Requests that send a message, and the recovery of dispatches. *)

\* reserve_dispatch: a new job waits at its commit gate.
Reserved(k) == [job EXCEPT ![k] = [NoJob EXCEPT !.pc = "gate"]]

\* handle_send up to the acceptance.  What is accepted is staged in the
\* post-commit hook: claimed, and reserved unless the scheduler is full.  An
\* exact retry goes on without either.
Send(a) ==
    /\ a \in Sender /\ actor[a].pc = "idle"
    /\ LET m == Sends[a] IN
       \/ /\ Acceptable(m)
          /\ task' = "working"
          /\ outbox' = [outbox EXCEPT ![m] = [state |-> "queued", attempts |-> 0]]
          /\ claims' = claims \cup {m}
          /\ \/ /\ job' = Reserved(m) /\ faults' = faults
                /\ actor' = [actor EXCEPT ![a] = [AtRest EXCEPT !.pc = "flush", !.key = m,
                                                 !.claim = TRUE, !.sender = TRUE]]
             \/ /\ job' = job /\ Fault
                /\ actor' = [actor EXCEPT ![a] = [AtRest EXCEPT !.pc = "flush", !.key = m,
                                                 !.claim = TRUE]]
       \/ /\ outbox[m].state # "none"
          /\ actor' = [actor EXCEPT ![a] = [AtRest EXCEPT !.pc = "flush", !.key = m]]
          /\ UNCHANGED <<task, outbox, claims, job, faults>>
    /\ UNCHANGED <<ready, token, recon, alive>>

\* flush_pending_events_for_task.
Flush(a) ==
    /\ a \in Sender /\ actor[a].pc = "flush"
    /\ \/ /\ ready' = ready \cup {actor[a].key}
          /\ Goto(a, "read")
          /\ UNCHANGED <<claims, job, recon, faults>>
       \/ Fault /\ Leave(a) /\ UNCHANGED ready
    /\ UNCHANGED <<task, outbox, token, alive>>

\* handle_send reads what it decides on: the record, the task and the
\* cancellation.  A message that was staged is claimed already.
Read(a) ==
    /\ a \in Sender /\ actor[a].pc = "read"
    /\ LET m == actor[a].key IN
       IF Runnable /\ outbox[m].state # "settled" /\ ~Unsettled("cancel") /\ m \in ready
          /\ (actor[a].claim => actor[a].sender)
       THEN /\ actor' = [actor EXCEPT ![a].rec = outbox[m],
                             ![a].pc = IF actor[a].claim THEN "run" ELSE "reserve"]
            /\ UNCHANGED <<claims, job, recon>>
       ELSE Leave(a)
    /\ UNCHANGED <<mapper, token, alive, faults>>

\* reserve_dispatch for a message, and for a request the claim after it.  The
\* driver claimed and asked the host before.
Reserve(a) ==
    /\ actor[a].pc = "reserve" /\ actor[a].key # "cancel"
    /\ LET m == actor[a].key IN
       \/ /\ IF job[m].pc # "none" \/ (a \in Sender /\ m \in claims) THEN Leave(a)
             ELSE /\ job' = Reserved(m)
                  /\ claims' = claims \cup {m}
                  /\ actor' = [actor EXCEPT ![a].claim = TRUE, ![a].sender = TRUE,
                         ![a].pc = IF a \in Sender /\ Unknown(actor[a].rec) THEN "reconcile"
                                   ELSE IF actor[a].rec.state = "running" THEN "demote"
                                   ELSE "run"]
                  /\ UNCHANGED recon
          /\ faults' = faults
       \/ Fault /\ Leave(a)
    /\ UNCHANGED <<mapper, token, alive>>

\* reconcile_unknown_dispatch: unless the host attests that a retry is safe,
\* the dispatch is left to an operator.
Reconcile(a) ==
    /\ actor[a].pc = "reconcile"
    /\ LET m == actor[a].key
           running == actor[a].rec.state = "running"
       IN \/ /\ ~Working(m)
             /\ Goto(a, IF a = Driver THEN "reserve" ELSE IF running THEN "demote" ELSE "run")
             /\ UNCHANGED <<outbox, claims, job, recon, faults>>
          \/ /\ IF running /\ CanDemote(m) THEN MarkPending(m) ELSE UNCHANGED outbox
             /\ IF running /\ ~CanDemote(m) THEN Leave(a) ELSE LeaveQuarantined(a)
             /\ UNCHANGED faults
          \/ running /\ Fault /\ Leave(a) /\ UNCHANGED outbox
    /\ UNCHANGED <<task, ready, token, alive>>

\* A record that was read as running is moved to reconcile-pending first.
Demote(a) ==
    /\ actor[a].pc = "demote" /\ actor[a].key # "cancel"
    /\ \/ /\ MarkPending(actor[a].key) /\ Goto(a, "run")
          /\ UNCHANGED <<claims, job, recon, faults>>
       \/ ~CanDemote(actor[a].key) /\ Leave(a) /\ UNCHANGED <<outbox, faults>>
       \/ Fault /\ Leave(a) /\ UNCHANGED outbox
    /\ UNCHANGED <<task, ready, token, alive>>

\* mark_dispatch_running_with_commit: with the mutation the job receives its
\* attempt and the claim.
Run(a) ==
    /\ actor[a].pc = "run" /\ actor[a].key # "cancel"
    /\ LET m == actor[a].key IN
       \/ /\ MarkRunning(m)
          /\ job' = [job EXCEPT ![m] = [pc |-> "queued", attempt |-> outbox'[m].attempts,
                                        claim |-> TRUE, fenced |-> FALSE]]
          /\ Rest(a)
          /\ UNCHANGED <<claims, recon, faults>>
       \/ ~CanRun(m) /\ Leave(a) /\ UNCHANGED <<outbox, faults>>
       \/ Fault /\ Leave(a) /\ UNCHANGED outbox
    /\ UNCHANGED <<task, ready, token, alive>>

\* The driver's look at the dispatches.  One whose task is being cancelled is
\* put aside, the others are recovered from the record that was read.
ScanDispatches ==
    /\ actor[Driver].pc = "dispatches"
    /\ LET due == {m \in ready : Unsettled(m) /\ Runnable} IN
       IF Unsettled("cancel") \/ due \subseteq claims
       THEN /\ Goto(Driver, "idle")
            /\ claims' = IF Unsettled("cancel") THEN claims \cup due ELSE claims
       ELSE /\ \E m \in due \ claims :
                  actor' = [actor EXCEPT ![Driver] =
                                [AtRest EXCEPT !.pc = "claim", !.key = m, !.rec = outbox[m]]]
            /\ UNCHANGED claims
    /\ UNCHANGED <<mapper, job, token, recon, alive, faults>>

\* Fault of RecoverDispatch: a record that was running is retried unasked.
RecoversUnasked ==
    /\ actor[Driver].pc = "claim" /\ actor[Driver].key # "cancel"
    /\ LET m == actor[Driver].key
           rec == actor[Driver].rec
       IN IF m \in claims THEN Leave(Driver) /\ UNCHANGED outbox
          ELSE IF rec.attempts >= MaxAttempts
          THEN /\ LeaveQuarantined(Driver)
               /\ IF rec.state = "running" /\ CanDemote(m) THEN MarkPending(m)
                  ELSE UNCHANGED outbox
          ELSE /\ claims' = claims \cup {m}
               /\ actor' = [actor EXCEPT ![Driver].claim = TRUE, ![Driver].pc = "reserve"]
               /\ UNCHANGED <<outbox, job, recon>>
    /\ UNCHANGED <<task, ready, token, alive, faults>>

\* recover_one_pending_dispatch up to the reservation: claim, then ask.
RecoverDispatch ==
    /\ actor[Driver].pc = "claim" /\ actor[Driver].key # "cancel"
    /\ LET m == actor[Driver].key
           rec == actor[Driver].rec
       IN IF m \in claims THEN Leave(Driver) /\ UNCHANGED outbox
          ELSE IF rec.attempts >= MaxAttempts
          THEN /\ LeaveQuarantined(Driver)
               /\ IF rec.state = "running" /\ CanDemote(m) THEN MarkPending(m)
                  ELSE UNCHANGED outbox
          ELSE /\ claims' = claims \cup {m}
               /\ actor' = [actor EXCEPT ![Driver].claim = TRUE,
                                ![Driver].pc = IF Unknown(rec) THEN "reconcile" ELSE "reserve"]
               /\ UNCHANGED <<outbox, job, recon>>
    /\ UNCHANGED <<task, ready, token, alive, faults>>

\* The driver delivers an acceptance event (recover_pending_events).
RecoverEvent(m) ==
    /\ outbox[m].state # "none" /\ m \notin ready
    /\ ready' = ready \cup {m}
    /\ UNCHANGED <<task, outbox, claims, job, token, recon, actor, alive, faults>>

-----------------------------------------------------------------------------
(* Requests that cancel the task, and the recovery of the cancellation. *)

\* handle_cancel_task up to the durable intent; a retry finds it stored.
RequestCancel(a) ==
    /\ a \in Canceller /\ actor[a].pc = "idle"
    /\ task \notin Terminal \cup {"none"}
    /\ outbox' = IF outbox["cancel"].state = "none"
                 THEN [outbox EXCEPT !["cancel"].state = "queued"] ELSE outbox
    /\ Goto(a, "signal")
    /\ UNCHANGED <<task, ready, claims, job, token, recon, alive, faults>>

\* Fault of ScanCancellation: one that never ran is not looked for.
ScansUnknown ==
    /\ actor[Driver].pc = "idle"
    /\ IF Unknown(outbox["cancel"]) /\ task \notin Terminal /\ "cancel" \notin claims
       THEN /\ actor' = [actor EXCEPT ![Driver] =
                    [AtRest EXCEPT !.pc = "claim", !.rec = outbox["cancel"]]]
       ELSE Goto(Driver, "dispatches")
    /\ UNCHANGED <<mapper, claims, job, token, recon, alive, faults>>

\* The driver's look at the cancellation.
ScanCancellation ==
    /\ actor[Driver].pc = "idle"
    /\ IF Unsettled("cancel") /\ task \notin Terminal /\ "cancel" \notin claims
       THEN /\ actor' = [actor EXCEPT ![Driver] =
                    [AtRest EXCEPT !.pc = "claim", !.rec = outbox["cancel"]]]
       ELSE Goto(Driver, "dispatches")
    /\ UNCHANGED <<mapper, claims, job, token, recon, alive, faults>>

\* recover_one_pending_cancellation: one that was tried before is put aside
\* while the host is asked.
RecoverCancellation ==
    /\ actor[Driver].pc = "claim" /\ actor[Driver].key = "cancel"
    /\ IF "cancel" \in claims THEN Leave(Driver)
       ELSE IF Unknown(actor[Driver].rec)
       THEN claims' = claims \cup {"cancel"} /\ Goto(Driver, "ask") /\ UNCHANGED <<job, recon>>
       ELSE Goto(Driver, "signal") /\ UNCHANGED <<claims, job, recon>>
    /\ UNCHANGED <<mapper, token, alive, faults>>

\* Fault of Signal: a control job is scheduled and nobody is signalled.
SignalsNobody(a) ==
    /\ actor[a].pc = "signal"
    /\ IF ~Unsettled("cancel") \/ task \in Terminal
       THEN IF a = Driver THEN LeaveQuarantined(a) ELSE Leave(a)
       ELSE /\ actor' = [actor EXCEPT ![a].pc = "reserve",
                             ![a].rec = IF a = Driver THEN @ ELSE outbox["cancel"]]
            /\ UNCHANGED <<claims, job, recon>>
    /\ UNCHANGED <<mapper, token, alive, faults>>

\* signal_running_dispatch_cancellation, for a request on the record it reads
\* now.  A cancellation that has ended is not reconstructed.
Signal(a) ==
    /\ actor[a].pc = "signal"
    /\ IF ~Unsettled("cancel") \/ task \in Terminal
       THEN /\ IF a = Driver THEN LeaveQuarantined(a) ELSE Leave(a)
            /\ UNCHANGED token
       ELSE /\ token' = IF token = "none" THEN "none" ELSE "signalled"
            /\ actor' = [actor EXCEPT ![a].pc = "reserve",
                             ![a].rec = IF a = Driver THEN @ ELSE outbox["cancel"]]
            /\ UNCHANGED <<claims, job, recon>>
    /\ UNCHANGED <<mapper, alive, faults>>

\* reserve_dispatch in the cancellation lane.  Somebody else's job is waited
\* for.
ReserveCancel(a) ==
    /\ actor[a].pc = "reserve" /\ actor[a].key = "cancel"
    /\ \/ /\ IF job["cancel"].pc # "none" THEN Leave(a)
             ELSE /\ job' = Reserved("cancel")
                  /\ actor' = [actor EXCEPT ![a].sender = TRUE,
                         ![a].pc = IF a # Driver /\ Unknown(actor[a].rec) THEN "ask"
                                   ELSE IF actor[a].rec.state = "running" THEN "demote"
                                   ELSE "run"]
                  /\ UNCHANGED <<claims, recon>>
          /\ faults' = faults
       \/ Fault /\ (IF a = Driver /\ Unknown(actor[a].rec) THEN LeaveReleased(a) ELSE Leave(a))
    /\ UNCHANGED <<mapper, token, alive>>

\* What follows from the host's answer about an earlier attempt.
Decide(a, answer, newRecon) ==
    LET running == actor[a].rec.state = "running"
        demotes == running /\ CanDemote("cancel") /\ MarkPending("cancel")
        keeps   == UNCHANGED outbox
        go(pc)  == actor' = [actor EXCEPT ![a].pc = pc, ![a].asks = FALSE]
    IN \/ /\ answer = "stopped" /\ go("acknowledge") /\ keeps
          /\ recon' = newRecon /\ UNCHANGED <<claims, job>>
       \/ /\ answer = "retry" /\ a # Driver
          /\ go(IF running THEN "demote" ELSE "run") /\ keeps
          /\ recon' = newRecon /\ UNCHANGED <<claims, job>>
       \/ /\ answer = "retry" /\ a = Driver /\ actor[a].rec.attempts < MaxAttempts
          /\ go("signal") /\ keeps
          /\ claims' = claims \ {"cancel"}
          /\ recon' = newRecon /\ UNCHANGED job
       \/ /\ \/ answer = "required"
             \/ answer = "retry" /\ a = Driver /\ actor[a].rec.attempts >= MaxAttempts
          /\ demotes \/ (~(running /\ CanDemote("cancel")) /\ keeps)
          /\ Rest(a)
          /\ job' = IF actor[a].sender THEN Dropped("cancel") ELSE job
          /\ recon' = newRecon /\ UNCHANGED claims

\* reconcile_unknown_cancellation_once: the answer for this attempt is cached,
\* awaited from whoever asks the host, or asked for.  A wait may time out.
Ask(a) ==
    /\ actor[a].pc = "ask" /\ ~actor[a].asks
    /\ IF recon.attempts = actor[a].rec.attempts /\ recon.answer # "asked"
       THEN Decide(a, recon.answer, recon)
       ELSE IF recon = Asked(a) THEN Decide(a, "required", recon)
       ELSE /\ recon' = Asked(a)
            /\ actor' = [actor EXCEPT ![a].asks = TRUE]
            /\ UNCHANGED <<outbox, claims, job>>
    /\ UNCHANGED <<task, ready, token, alive, faults>>

\* reconcile_unknown_cancel answers, or an error or a timeout stands for it.
Answer(a) ==
    /\ actor[a].pc = "ask" /\ actor[a].asks
    /\ \E answer \in {"retry", "required"} \cup (IF alive = {} THEN {"stopped"} ELSE {}) :
           Decide(a, answer, IF recon = Asked(a)
                             THEN [attempts |-> actor[a].rec.attempts, answer |-> answer]
                             ELSE recon)
    /\ UNCHANGED <<task, ready, token, alive, faults>>

\* The host attested that an earlier attempt stopped the work: the task ends.
\* A request's job then only settles the cancellation.
AcknowledgeAsked(a) ==
    /\ actor[a].pc = "acknowledge"
    /\ \/ /\ Acknowledges(actor[a].rec.attempts)
          /\ claims' = claims \cup {"cancel"}
          /\ job' = IF a = Driver THEN job
                    ELSE [job EXCEPT !["cancel"] =
                             [pc |-> "queued", attempt |-> actor[a].rec.attempts,
                              claim |-> TRUE, fenced |-> TRUE]]
          /\ Rest(a)
          /\ UNCHANGED <<recon, faults>>
       \/ /\ ~Acknowledgeable(actor[a].rec.attempts) /\ faults' = faults
          /\ (IF a = Driver THEN LeaveReleased(a) ELSE Leave(a))
          /\ UNCHANGED <<task, outbox>>
       \/ /\ Fault
          /\ (IF a = Driver THEN LeaveReleased(a) ELSE Leave(a))
          /\ UNCHANGED <<task, outbox>>
    /\ UNCHANGED <<ready, token, alive>>

\* mark_cancellation_reconcile_pending, then mark_cancellation_running.
DemoteCancel(a) ==
    /\ actor[a].pc = "demote" /\ actor[a].key = "cancel"
    /\ \/ /\ MarkPending("cancel") /\ Goto(a, "run")
          /\ UNCHANGED <<claims, job, recon, faults>>
       \/ /\ ~CanDemote("cancel") /\ faults' = faults
          /\ (IF a = Driver THEN LeaveReleased(a) ELSE Leave(a)) /\ UNCHANGED outbox
       \/ Fault /\ (IF a = Driver THEN LeaveReleased(a) ELSE Leave(a)) /\ UNCHANGED outbox
    /\ UNCHANGED <<task, ready, token, alive>>

RunCancel(a) ==
    /\ actor[a].pc = "run" /\ actor[a].key = "cancel"
    /\ \/ /\ MarkRunning("cancel") /\ Goto(a, "send")
          /\ UNCHANGED <<claims, job, recon, faults>>
       \/ /\ ~CanRun("cancel") /\ faults' = faults
          /\ (IF a = Driver THEN LeaveReleased(a) ELSE Leave(a)) /\ UNCHANGED outbox
       \/ Fault /\ (IF a = Driver THEN LeaveReleased(a) ELSE Leave(a)) /\ UNCHANGED outbox
    /\ UNCHANGED <<task, ready, token, alive>>

\* The job is told the attempt that the mapper has now.
SendCancel(a) ==
    /\ actor[a].pc = "send"
    /\ claims' = claims \cup {"cancel"}
    /\ job' = [job EXCEPT !["cancel"] = [pc |-> "queued", attempt |-> outbox["cancel"].attempts,
                                         claim |-> TRUE, fenced |-> FALSE]]
    /\ Rest(a)
    /\ UNCHANGED <<mapper, token, recon, alive, faults>>

-----------------------------------------------------------------------------
(* Scheduled jobs (run_scheduled_dispatch, invoke_scheduled_host). *)

JobTo(k, pc) == job' = [job EXCEPT ![k].pc = pc]

\* message_execution_is_current, cancellation_execution_is_current.
Standing(k) ==
    IF outbox[k].state = "settled" \/ (IF k = "cancel" THEN task \in Terminal ELSE ~Runnable)
    THEN "over"
    ELSE IF \/ outbox[k] # [state |-> "running", attempts |-> job[k].attempt]
            \/ k # "cancel" /\ Unsettled("cancel")
    THEN "stale" ELSE "current"

After(standing, current) == IF standing = "over" THEN "settling"
                            ELSE IF standing = "stale" THEN "failing" ELSE current

\* The permit of the task: no other message of it is with the host.
PermitFree(m) ==
    \A o \in Message \ {m} : job[o].pc \notin {"admitted", "registered", "call", "host", "stopped"}

\* The gates and the first check; or the wait for the gates times out.
Admit(m) ==
    /\ job[m].pc = "queued"
    /\ \/ PermitFree(m) /\ JobTo(m, After(Standing(m), "admitted"))
       \/ JobTo(m, "failing")
    /\ UNCHANGED <<mapper, claims, token, recon, actor, alive, faults>>

\* register_running_dispatch_cancellation.
Register(m) ==
    /\ job[m].pc = "admitted"
    /\ IF token = "none" THEN JobTo(m, "registered") /\ token' = "live"
       ELSE JobTo(m, "failing") /\ UNCHANGED token
    /\ UNCHANGED <<mapper, claims, recon, actor, alive, faults>>

\* Fault of Recheck: the check is not repeated.
ChecksOnce(m) ==
    /\ job[m].pc = "registered"
    /\ JobTo(m, "call") /\ token' = token
    /\ UNCHANGED <<mapper, claims, recon, actor, alive, faults>>

\* The check is repeated when a cancellation can reach the token.
Recheck(m) ==
    /\ job[m].pc = "registered"
    /\ JobTo(m, After(Standing(m), "call"))
    /\ token' = IF Standing(m) = "current" THEN token ELSE "none"
    /\ UNCHANGED <<mapper, claims, recon, actor, alive, faults>>

\* host.handle begins.
CallHost(m) ==
    /\ job[m].pc = "call"
    /\ JobTo(m, "host")
    /\ alive' = IF token = "signalled" THEN alive ELSE alive \cup {<<m, job[m].attempt>>}
    /\ UNCHANGED <<mapper, claims, token, recon, actor, faults>>

\* It returns, fails, or is dropped after its timeout; apply_dispatch_ack.
HostReturns(m) ==
    /\ job[m].pc = "host"
    /\ token' = "none"
    /\ \/ /\ JobTo(m, IF task = "working" THEN "failing" ELSE "settling")
          /\ alive' = alive
       \/ /\ JobTo(m, IF task \in Terminal THEN "settling"
                       ELSE IF Unsettled("cancel") THEN "failing" ELSE "stopped")
          /\ alive' = alive \ {<<m, job[m].attempt>>}
       \/ JobTo(m, "failing") /\ alive' = alive
    /\ UNCHANGED <<mapper, claims, recon, actor, faults>>

\* The host says that it stopped: its attempt ends the task.
Stopped(m) ==
    /\ job[m].pc = "stopped"
    /\ \/ Transitions(m, job[m].attempt, "cancelled") /\ JobTo(m, "settling") /\ faults' = faults
       \/ /\ ~Transitionable(m, job[m].attempt)
          /\ JobTo(m, "failing") /\ UNCHANGED <<task, outbox, faults>>
       \/ Fault /\ JobTo(m, "failing") /\ UNCHANGED <<task, outbox>>
    /\ UNCHANGED <<ready, claims, token, recon, actor, alive>>

\* The cancellation control reaches the host.
CallCancel ==
    /\ job["cancel"].pc = "queued"
    /\ \/ JobTo("cancel", IF job["cancel"].fenced THEN "settling"
                          ELSE After(Standing("cancel"), "host"))
       \/ ~job["cancel"].fenced /\ JobTo("cancel", "failing")
    /\ UNCHANGED <<mapper, claims, token, recon, actor, alive, faults>>

\* The host stops the work of the task and says so, or it says that the
\* cancellation is settled, or it fails.
CancelReturns ==
    /\ job["cancel"].pc = "host"
    /\ \/ JobTo("cancel", "stopped") /\ alive' = {}
       \/ /\ JobTo("cancel", IF /\ outbox["cancel"] =
                                     [state |-> "settled", attempts |-> job["cancel"].attempt]
                                /\ task = "cancelled"
                             THEN "settling" ELSE "failing")
          /\ alive' = alive
       \/ JobTo("cancel", "failing") /\ alive' = alive
    /\ UNCHANGED <<mapper, claims, token, recon, actor, faults>>

\* acknowledge_cancellation_fence.
CancelStopped ==
    /\ job["cancel"].pc = "stopped"
    /\ \/ Acknowledges(job["cancel"].attempt) /\ JobTo("cancel", "settling") /\ faults' = faults
       \/ /\ ~Acknowledgeable(job["cancel"].attempt)
          /\ JobTo("cancel", "failing") /\ UNCHANGED <<task, outbox, faults>>
       \/ Fault /\ JobTo("cancel", "failing") /\ UNCHANGED <<task, outbox>>
    /\ UNCHANGED <<ready, claims, token, recon, actor, alive>>

\* mark_dispatch_settled, mark_cancellation_settled.
Settle(k) ==
    /\ job[k].pc = "settling"
    /\ \/ outbox' = [outbox EXCEPT ![k].state = "settled"] /\ faults' = faults
       \/ Fault /\ UNCHANGED outbox
    /\ JobTo(k, "done")
    /\ UNCHANGED <<task, ready, claims, token, recon, actor, alive>>

\* The outcome is unknown: reconcile-pending.
Fail(k) ==
    /\ job[k].pc = "failing"
    /\ \/ MarkPending(k) /\ faults' = faults
       \/ ~CanDemote(k) /\ UNCHANGED <<outbox, faults>>
       \/ Fault /\ UNCHANGED outbox
    /\ JobTo(k, IF k = "cancel" THEN "failing2" ELSE "done")
    /\ UNCHANGED <<task, ready, claims, token, recon, actor, alive>>

\* mark_task_dispatches_reconcile_pending.
FailDispatches ==
    /\ job["cancel"].pc = "failing2"
    /\ \/ /\ outbox' = [k \in Key |-> IF k # "cancel" /\ CanDemote(k)
                                      THEN [outbox[k] EXCEPT !.state = "pending"] ELSE outbox[k]]
          /\ faults' = faults
       \/ Fault /\ UNCHANGED outbox
    /\ JobTo("cancel", "done")
    /\ UNCHANGED <<task, ready, claims, token, recon, actor, alive>>

\* finish_scheduled_dispatch.
FinishJob(k) ==
    /\ job[k].pc = "done"
    /\ job' = [job EXCEPT ![k] = NoJob]
    /\ claims' = IF job[k].claim THEN claims \ {k} ELSE claims
    /\ UNCHANGED <<mapper, token, recon, actor, alive, faults>>

-----------------------------------------------------------------------------
(* The host, clients that go away, and crashes. *)

\* The work of an attempt ends the task or asks for input, through the server
\* (complete_task_with_artifacts, transition_dispatch_task).
WorkReports(m, n) ==
    /\ <<m, n>> \in alive
    /\ \E next \in {"completed", "input", "failed"} : Transitions(m, n, next)
    /\ alive' = alive \ {<<m, n>>}
    /\ UNCHANGED <<ready, claims, job, token, recon, actor, faults>>

\* It ends without a report, or its report is refused.
WorkEnds(m, n) ==
    /\ <<m, n>> \in alive
    /\ alive' = alive \ {<<m, n>>}
    /\ UNCHANGED <<mapper, claims, job, token, recon, actor, faults>>

\* transition_task of a task without an open dispatch, such as one that waits
\* for input.
TransitionTask ==
    /\ task = "input" /\ \A k \in Key : ~Unsettled(k)
    /\ task' = "failed"
    /\ UNCHANGED <<outbox, ready, claims, job, token, recon, actor, alive, faults>>

\* The connection of a request ends; the recovery of one record runs into the
\* deadline of the driver's turn.
Abort(a) ==
    /\ actor[a].pc \notin {"idle", "dispatches", "gone"}
    /\ IF a = Driver THEN Fault ELSE UNCHANGED faults
    /\ Leave(a)
    /\ UNCHANGED <<mapper, token, alive>>

\* The process ends and a new one starts from the mapper.
Crash ==
    /\ Fault
    /\ claims' = {} /\ job' = [k \in Key |-> NoJob] /\ token' = "none" /\ recon' = NoAnswer
    /\ actor' = [a \in Actor |->
           IF a # Driver /\ actor[a].pc # "idle" THEN [AtRest EXCEPT !.pc = "gone"] ELSE AtRest]
    /\ UNCHANGED <<mapper, alive>>

Init ==
    /\ task = "none" /\ outbox = [k \in Key |-> NoRecord] /\ ready = {}
    /\ claims = {} /\ job = [k \in Key |-> NoJob] /\ token = "none" /\ recon = NoAnswer
    /\ actor = [a \in Actor |-> AtRest]
    /\ alive = {} /\ faults = 0

\* What a request or the driver does once it has begun.
ActorStep(a) ==
    \/ Flush(a) \/ Read(a) \/ Reserve(a) \/ Reconcile(a) \/ Demote(a) \/ Run(a)
    \/ Signal(a) \/ ReserveCancel(a) \/ Ask(a) \/ Answer(a) \/ AcknowledgeAsked(a)
    \/ DemoteCancel(a) \/ RunCancel(a) \/ SendCancel(a)

DriverStep == ScanCancellation \/ RecoverCancellation \/ ScanDispatches \/ RecoverDispatch

JobStep(k) ==
    \/ k # "cancel" /\ (\/ Admit(k) \/ Register(k) \/ Recheck(k)
                       \/ CallHost(k) \/ HostReturns(k) \/ Stopped(k))
    \/ k = "cancel" /\ (CallCancel \/ CancelReturns \/ CancelStopped \/ FailDispatches)
    \/ Settle(k) \/ Fail(k) \/ FinishJob(k)

Next ==
    \/ \E a \in Sender : Send(a)
    \/ \E a \in Canceller : RequestCancel(a)
    \/ \E a \in Actor : ActorStep(a) \/ Abort(a)
    \/ DriverStep
    \/ \E m \in Message : RecoverEvent(m)
    \/ \E k \in Key : JobStep(k)
    \/ \E m \in Message, n \in 1..MaxAttempts : WorkReports(m, n) \/ WorkEnds(m, n)
    \/ TransitionTask
    \/ Crash

Spec == Init /\ [][Next]_vars

\* Futures are polled, the driver goes on, the scheduler's timeouts end every
\* call of the host, and every event is delivered at last.
FairSpec ==
    /\ Spec
    /\ \A a \in Actor : WF_vars(ActorStep(a))
    /\ WF_vars(DriverStep)
    /\ \A k \in Key : WF_vars(JobStep(k))
    /\ \A m \in Message : WF_vars(RecoverEvent(m))

-----------------------------------------------------------------------------
(* Properties. *)

\* At most one attempt of the task's work is with the host at any time, over
\* retries, recovery, timeouts that drop a call and restarts: a record that
\* was running is not run again before the host attested that this is safe.
OneAttemptAlive == Cardinality(alive) <= 1

\* Once a cancellation is past its queue, no call of the host is about to
\* begin, or is awaited, that has not been signalled.
CancelReachesCall ==
    (outbox["cancel"].state \notin {"none", "queued"} \/ task = "cancelled")
        => \A m \in Message : job[m].pc \in {"call", "host"} => token = "signalled"

\* When the task is reported cancelled its work is over and stays so, although
\* a call of the host may have been on its way when the host was told to stop.
CancelledIsStopped == task = "cancelled" => alive = {}

\* A stored cancellation is carried to the host, whoever drops it on the way.
CancelIsTaken == outbox["cancel"].state = "queued" ~> outbox["cancel"].state # "queued"

\* An accepted message is run, unless its task is being cancelled.
MessageIsTaken ==
    \A m \in Message :
        outbox[m].state = "queued" ~> outbox[m].state # "queued" \/ Unsettled("cancel")
=============================================================================
