---------------------------- MODULE DurableWorker ----------------------------
(***************************************************************************)
(* Many workers over one durable run (durable_worker.rs, the driver of     *)
(* durable_runtime.rs and the store of durable_store.rs).                  *)
(*                                                                         *)
(* Each member of Worker is one call of DurableWorker::run and each member *)
(* of Operator one call of DurableWorker::reconcile_activity.  A call      *)
(* draws a random lease id of its own, so the id is the call itself.  A    *)
(* call has a main task and, for a run, a heartbeat thread; both share a   *)
(* driver whose mutex is held from the reload of the store to the compare- *)
(* and-swap, so a transition is two steps: a proposal and a Cas.  Between them  *)
(* the clock, the other calls and the host may move.                       *)
(*                                                                         *)
(* The run is reduced to what the fence protects: its log, its lease, and  *)
(* one activity of class ReconcileRequired (DurableRun has the ledger).    *)
(***************************************************************************)
EXTENDS Naturals, Sequences

CONSTANTS
    Worker,            \* calls of DurableWorker::run
    Operator,          \* calls of DurableWorker::reconcile_activity
    Nobody,            \* not a call
    Cancellable,       \* calls the host may cancel
    Mortal,            \* calls whose process may die
    LeaseTtl,          \* lease_ttl, in ticks of the store's clock
    MaxPollAttempts,   \* max_poll_attempts
    Setting            \* bounds: the settings to explore

Call == Worker \cup Operator

ASSUME NobodyIsNoCall == Nobody \notin Call

ASSUME CallsAreOfOneKind == Worker \cap Operator = {}

ASSUME HazardsAreOfCalls == Cancellable \subseteq Call /\ Mortal \subseteq Call

ASSUME LeaseTtlIsPositive == LeaseTtl \in Nat \ {0}

ASSUME PollsAreBounded == MaxPollAttempts \in Nat \ {0}

\* Who reconciles, whether the store's clock is a wall clock that may be set
\* back, its last tick, and how many compare-and-swaps may end in an I/O error.
ASSUME SettingsFit ==
    Setting \subseteq [operators: SUBSET Operator, stepsBack: BOOLEAN,
                       maxTime: Nat, maxFaults: Nat]

VARIABLES
    setting,  \* the setting of this behaviour
    clock,    \* worker_lease_clock_unix_ms, read inside every transaction
    store,    \* the persisted RunState
    host,     \* the snapshot on which an unleased host is about to write
    call,     \* what every call has in memory
    effects,  \* ghost: effects of the activity that happened
    faults    \* I/O errors so far

vars == <<setting, clock, store, host, call, effects, faults>>

-----------------------------------------------------------------------------
(* The run and its events. *)

Time == Nat

Lease == [id: Call \cup {Nobody}, heartbeat: Time, expires: Time]

NoLease == [id |-> Nobody, heartbeat |-> 0, expires |-> 0]

Kind == {"start", "claim", "renew", "release", "begin", "end", "quarantine",
         "completed", "safe_to_retry", "resume", "finish"}

Event == [kind: Kind, by: Call \cup {Nobody}, at: Time, until: Time]

LeaseEvent(kind, c, at, until) ==
    [kind |-> kind, by |-> c, at |-> at, until |-> until]

WorkEvent(kind, c) == LeaseEvent(kind, c, 0, 0)

\* open: nothing runs; busy: the activity has a running attempt; reconcile:
\* the attempt awaits an operator; paused: awaiting resume; stopped: terminal.
Phase == {"open", "busy", "reconcile", "paused", "stopped"}

Run == [log: Seq(Event), lease: Lease, phase: Phase, done: BOOLEAN]

NewRun == [log |-> <<WorkEvent("start", Nobody)>>, lease |-> NoLease,
           phase |-> "open", done |-> FALSE]

Active(lease, now) == lease # NoLease /\ lease.expires > now

\* What apply_event_in_place requires of an event ...
LegalClaim(r, e) == r.lease = NoLease \/ r.lease.expires <= e.at

LegalRenew(r, e) == /\ r.lease.id = e.by
                    /\ r.lease.expires > e.at
                    /\ r.lease.heartbeat <= e.at
                    /\ e.until > r.lease.expires

LegalRelease(r, e) == /\ r.lease.id = e.by
                      /\ r.lease.expires > e.at
                      /\ e.at >= r.lease.heartbeat

Legal(r, e) ==
    \/ e.kind = "claim" /\ LegalClaim(r, e)
    \/ e.kind = "renew" /\ LegalRenew(r, e)
    \/ e.kind = "release" /\ LegalRelease(r, e)
    \/ e.kind = "begin" /\ r.phase = "open" /\ ~r.done
    \/ e.kind \in {"end", "quarantine"} /\ r.phase = "busy"
    \/ e.kind \in {"completed", "safe_to_retry"} /\ r.phase = "reconcile"
    \/ e.kind = "resume" /\ r.phase = "paused"
    \/ e.kind = "finish" /\ r.phase = "open"

\* ... and what it makes of the lease, the phase and the activity.
LeaseAfter(lease, e) ==
    CASE e.kind = "claim" -> [id |-> e.by, heartbeat |-> e.at, expires |-> e.until]
      [] e.kind = "renew" -> [lease EXCEPT !.heartbeat = e.at, !.expires = e.until]
      [] e.kind = "release" -> NoLease
      [] OTHER -> lease

\* Fault of PhaseAfter: an interrupted attempt counts as retryable.
RetriesInterrupted(phase, e) ==
    CASE e.kind = "begin" -> "busy"
      [] e.kind \in {"end", "resume", "quarantine"} -> "open"
      [] e.kind \in {"completed", "safe_to_retry"} -> "paused"
      [] e.kind = "finish" -> "stopped"
      [] OTHER -> phase

PhaseAfter(phase, e) ==
    CASE e.kind = "begin" -> "busy"
      [] e.kind \in {"end", "resume"} -> "open"
      [] e.kind = "quarantine" -> "reconcile"
      [] e.kind \in {"completed", "safe_to_retry"} -> "paused"
      [] e.kind = "finish" -> "stopped"
      [] OTHER -> phase

Apply(r, e) == [log |-> Append(r.log, e),
                lease |-> LeaseAfter(r.lease, e),
                phase |-> PhaseAfter(r.phase, e),
                done |-> r.done \/ e.kind \in {"end", "completed"}]

-----------------------------------------------------------------------------
(* The store. *)

IsAtomicLeaseClaim(current, replacement, now) ==
    /\ Len(replacement.log) = Len(current.log) + 1
    /\ LET e == replacement.log[Len(replacement.log)] IN
       /\ e.kind = "claim"
       /\ e.at <= now /\ e.until > now
       /\ replacement.lease = [id |-> e.by, heartbeat |-> e.at, expires |-> e.until]

AppendsWorkerLeaseClaim(current, replacement) ==
    \E i \in DOMAIN replacement.log :
        i > Len(current.log) /\ replacement.log[i].kind = "claim"

\* validate_worker_lease_fence; authority Nobody: an unfenced write.
Fence(current, replacement, authority, now) ==
    IF authority # Nobody
    THEN Active(current.lease, now) /\ current.lease.id = authority
    ELSE /\ ~Active(current.lease, now)
         /\ \/ IsAtomicLeaseClaim(current, replacement, now)
            \/ /\ current.lease = NoLease
               /\ ~AppendsWorkerLeaseClaim(current, replacement)

AppendOnly(current, replacement) ==
    /\ Len(replacement.log) >= Len(current.log)
    /\ SubSeq(replacement.log, 1, Len(current.log)) = current.log

\* compare_and_swap_inner, which holds the store's lock and reads its clock.
Verdict(expected, replacement, authority) ==
    IF Len(store.log) # Len(expected.log) THEN "conflict"
    ELSE IF ~Fence(store, replacement, authority, clock) THEN "refused"
    ELSE IF ~AppendOnly(store, replacement) THEN "invalid"
    ELSE "ok"

\* Every answer a compare-and-swap may give: the verdict, or an I/O error
\* after which the replacement may or may not have been written.
CasResults(expected, replacement, authority) ==
    LET verdict == Verdict(expected, replacement, authority)
        written == IF verdict = "ok" THEN replacement ELSE store
    IN  {[store |-> written, told |-> verdict, faults |-> faults]} \cup
        {[store |-> s, told |-> "io", faults |-> faults + 1] :
            s \in IF faults < setting.maxFaults THEN {store, written} ELSE {}}

-----------------------------------------------------------------------------
(* The memory of a call. *)

\* blocked: the callback waits for the driver's mutex, and with it the select
\* of run, which polls the callback on the same thread.
Pc == {"deciding", "polling", "loaded", "claiming", "claimed", "disposing", "reconciling",
       "readying", "executing", "blocked", "stopping", "releasing", "returned", "crashed"}

\* The resolution an operator calls reconcile_activity with.
Decision == {"none", "completed", "safe_to_retry"}

\* executed, answered: a result; lost: an error that says that the lease was
\* lost or could not be released; io: an I/O error of the store, which does not
\* say what became of the lease; cancelled, error: any other error.
Outcome == {"none", "executed", "answered", "cancelled", "error", "io", "lost"}

\* The error a call returns when a compare-and-swap does not succeed.
ErrorOf(told) == IF told = "io" THEN "io" ELSE "error"

Heartbeat == {"off", "starting", "beating", "failed", "stopped"}

\* The callback's activity: the attempt was begun (acting), its effect
\* happened and may be reported (acted).
Doing == {"none", "acting", "acted"}

NoTx == [by |-> "none", event |-> WorkEvent("start", Nobody)]

Tx == [by: {"none", "main", "heartbeat"}, event: Event]

Memory == [pc: Pc, view: Run, tx: Tx, poisoned: BOOLEAN, cancelled: BOOLEAN,
           outcome: Outcome, polls: 0..MaxPollAttempts, heartbeat: Heartbeat,
           doing: Doing, decision: Decision]

Fresh(c) == [pc |-> IF c \in Operator THEN "deciding" ELSE "polling", view |-> NewRun, tx |-> NoTx,
             poisoned |-> FALSE, cancelled |-> FALSE, outcome |-> "none", polls |-> 0,
             heartbeat |-> "off", doing |-> "none", decision |-> "none"]

Return(m, outcome) == [m EXCEPT !.pc = "returned", !.outcome = outcome]

\* Fault of FinishClaim: a poisoned driver cannot release its lease.
PoisonStrandsLease(m, outcome) ==
    IF m.poisoned THEN Return(m, outcome)
    ELSE [m EXCEPT !.pc = "releasing", !.outcome = outcome]

\* finish_claim: release the lease and return outcome.
FinishClaim(m, outcome) == [m EXCEPT !.pc = "releasing", !.outcome = outcome]

Poison(m) == [m EXCEPT !.poisoned = TRUE]

Unlock(m) == [m EXCEPT !.tx = NoTx]

\* One more poll, or ClaimUnavailable.
PollAgain(m) ==
    IF m.polls = MaxPollAttempts THEN Return(m, "error")
    ELSE [m EXCEPT !.pc = "polling"]

\* The call does m next and nothing else changes.
Becomes(c, m) == /\ call' = [call EXCEPT ![c] = m]
                 /\ UNCHANGED <<setting, clock, store, host, effects, faults>>

\* transition_inner up to the compare-and-swap: the driver is healthy, its
\* state is the persisted one and, for work, its lease is still active.
Healthy(m) == m.tx = NoTx /\ ~m.poisoned

InStep(m) == m.view = store

HasAuthority(c, m) == m.view.lease.id = c /\ m.view.lease.expires > clock

Proposed(m, by, e) == [m EXCEPT !.tx = [by |-> by, event |-> e]]

\* The compare-and-swap of the transaction in m; After(told) is what the call
\* does with the answer.
Cas(c, authority, After(_)) ==
    \E r \in CasResults(call[c].view, Apply(call[c].view, call[c].tx.event), authority) :
        /\ store' = r.store
        /\ faults' = r.faults
        /\ call' = [call EXCEPT ![c] = After(r.told)]
        /\ UNCHANGED <<setting, clock, host, effects>>

\* Fault of Settle: the driver's state advances whatever the store answered.
AdvancesUnasked(m, told) == Unlock([m EXCEPT !.view = Apply(@, m.tx.event)])

\* The driver after the answer: its state advances, or it is poisoned.
Settle(m, told) ==
    IF told = "ok" THEN Unlock([m EXCEPT !.view = Apply(@, m.tx.event)])
    ELSE Poison(Unlock(m))

-----------------------------------------------------------------------------
(* acquire: poll until the lease is claimed. *)

\* The load, and the second one of DurableRunDriver::new, which only polls
\* again when a writer came in between.
Load(c) ==
    LET m == call[c] IN
    /\ m.pc = "polling"
    /\ Becomes(c, IF m.cancelled THEN Return(m, "cancelled")
                  ELSE [m EXCEPT !.pc = "loaded", !.polls = @ + 1,
                                 !.view = store, !.poisoned = FALSE])

\* Reads the clock, finds the lease held, or another writer, or proposes.
Claim(c) ==
    LET m == call[c]
        e == LeaseEvent("claim", c, clock, clock + LeaseTtl)
    IN  /\ m.pc = "loaded"
        /\ Becomes(c, IF ~InStep(m) \/ ~Legal(m.view, e) THEN PollAgain(m)
                      ELSE [Proposed(m, "main", e) EXCEPT !.pc = "claiming"])

\* Only a conflict polls again.  Any other error is returned as it is, although
\* after an I/O error the claim may be stored.
ClaimCas(c) ==
    LET m == call[c]
        After(told) ==
            IF told = "ok" THEN [Settle(m, told) EXCEPT !.pc = "claimed"]
            ELSE IF told = "conflict" THEN PollAgain(Settle(m, told))
            ELSE Return(Settle(m, told), ErrorOf(told))
    IN  /\ m.pc = "claiming"
        /\ Cas(c, Nobody, After)

\* bind_worker_lease, and the disposition under the lease it bound: a running
\* unsafe attempt of an earlier invocation is sent to reconciliation.
Quarantines(m) == m.view.phase = "busy"

\* What a call does once it knows the disposition.
Disposed(c, m) ==
    IF c \in Operator
    THEN IF m.view.phase = "reconcile" THEN [m EXCEPT !.pc = "reconciling"]
         ELSE FinishClaim(m, "error")
    ELSE IF m.view.phase = "open"
         THEN [m EXCEPT !.pc = "readying", !.heartbeat = "starting"]
         ELSE FinishClaim(m, "answered")

Dispose(c) ==
    LET m == call[c] IN
    /\ m.pc = "claimed"
    /\ Becomes(c, IF ~HasAuthority(c, m) THEN FinishClaim(m, "error")
                  ELSE IF m.cancelled THEN FinishClaim(m, "cancelled")
                  ELSE IF ~InStep(m) THEN FinishClaim(Poison(m), "error")
                  ELSE IF Quarantines(m)
                  THEN [Proposed(m, "main", WorkEvent("quarantine", c))
                            EXCEPT !.pc = "disposing"]
                  ELSE Disposed(c, m))

DisposeCas(c) ==
    LET m == call[c]
        After(told) == IF told = "ok" THEN Disposed(c, Settle(m, told))
                       ELSE FinishClaim(Settle(m, told), ErrorOf(told))
    IN  /\ m.pc = "disposing"
        /\ Cas(c, c, After)

-----------------------------------------------------------------------------
(* The heartbeat thread. *)

\* Reads the clock and renews; starting: the renewal that proves the fence,
\* repeated for a while when the clock has not advanced.
Beat(c) ==
    LET m == call[c]
        e == LeaseEvent("renew", c, clock, clock + LeaseTtl)
        tooSoon == e.until <= m.view.lease.expires
    IN  /\ \/ m.heartbeat = "starting"
           \/ m.heartbeat = "beating" /\ m.pc \in {"readying", "executing", "blocked"}
        /\ m.tx = NoTx
        /\ Becomes(c, IF m.poisoned \/ tooSoon \/ ~InStep(m) \/ ~Legal(m.view, e)
                      THEN [m EXCEPT !.heartbeat = "failed",
                                     !.cancelled = m.cancelled \/ m.heartbeat = "beating",
                                     !.poisoned = m.poisoned \/ ~(tooSoon \/ InStep(m))]
                      ELSE Proposed(m, "heartbeat", e))

BeatCas(c) ==
    LET m == call[c]
        After(told) ==
            IF told = "ok" THEN [Settle(m, told) EXCEPT !.heartbeat = "beating"]
            ELSE [Settle(m, told) EXCEPT !.heartbeat = "failed",
                      !.cancelled = m.cancelled \/ m.heartbeat = "beating"]
    IN  /\ m.tx.by = "heartbeat"
        /\ Cas(c, c, After)

\* The thread sees that the main task stopped it or is gone.
BeatStop(c) ==
    LET m == call[c] IN
    /\ m.heartbeat = "beating" /\ m.tx.by # "heartbeat"
    /\ m.pc \in {"stopping", "returned"}
    /\ Becomes(c, [m EXCEPT !.heartbeat = "stopped"])

-----------------------------------------------------------------------------
(* run: the callback under the lease. *)

\* The select on readiness and cancellation.
Ready(c) ==
    LET m == call[c] IN
    /\ m.pc = "readying"
    /\ \/ m.heartbeat = "beating" /\ Becomes(c, [m EXCEPT !.pc = "executing"])
       \/ m.heartbeat = "failed" /\ Becomes(c, Return([m EXCEPT !.cancelled = TRUE], "lost"))
       \/ m.cancelled /\ Becomes(c, [m EXCEPT !.pc = "stopping", !.outcome = "cancelled"])

\* A transition of the callback through the driver it was given.  When the
\* driver refuses, the callback learns it and nothing is proposed.
Propose(c, kind, doing) ==
    LET m == call[c]
        e == WorkEvent(kind, c)
    IN  /\ m.pc = "executing" /\ Healthy(m) /\ m.doing = doing
        /\ Becomes(c, IF ~InStep(m) THEN Poison(m)
                      ELSE IF HasAuthority(c, m) /\ Legal(m.view, e)
                      THEN Proposed(m, "main", e)
                      ELSE m)

Begin(c) == Propose(c, "begin", "none")

End(c) == Propose(c, "end", "acted")

FinishRun(c) == call[c].view.done /\ Propose(c, "finish", "none")

\* The callback calls the driver, for a transition or a snapshot, while the
\* heartbeat holds the mutex (lock_state): the thread blocks that polls run's
\* select, and with it the receipt of a failure and the grace deadline ...
Block(c) ==
    LET m == call[c] IN
    /\ m.pc = "executing" /\ m.tx.by = "heartbeat"
    /\ Becomes(c, [m EXCEPT !.pc = "blocked"])

\* ... until the heartbeat is through.
Unblock(c) ==
    LET m == call[c] IN
    /\ m.pc = "blocked" /\ m.tx = NoTx
    /\ Becomes(c, [m EXCEPT !.pc = "executing"])

WorkCas(c) ==
    LET m == call[c]
        After(told) ==
            LET s == Settle(m, told) IN
            IF told # "ok" THEN s
            ELSE [s EXCEPT !.doing = CASE m.tx.event.kind = "begin" -> "acting"
                                       [] m.tx.event.kind = "end" -> "none"
                                       [] OTHER -> @]
    IN  /\ m.pc = "executing" /\ m.tx.by = "main"
        /\ Cas(c, c, After)

\* The external effect happens, perhaps after its caller was dropped or died;
\* or it never will.
Act(c) == /\ call[c].doing = "acting"
          /\ effects' = effects + 1
          /\ call' = [call EXCEPT ![c].doing = "acted"]
          /\ UNCHANGED <<setting, clock, store, host, faults>>

Fizzle(c) == call[c].doing = "acting" /\ Becomes(c, [call[c] EXCEPT !.doing = "none"])

\* The callback returns; between its transitions, as it is not preempted.
CallbackReturns(c) ==
    LET m == call[c] IN
    /\ m.pc = "executing" /\ m.tx.by # "main"
    /\ Becomes(c, [m EXCEPT !.pc = "stopping", !.outcome = "executed"])

\* A heartbeat failed: the execution is dropped and the lease left alone.
LeaseLost(c) ==
    LET m == call[c] IN
    /\ m.pc = "executing" /\ m.tx.by # "main" /\ m.heartbeat = "failed"
    /\ Becomes(c, Return([m EXCEPT !.cancelled = TRUE], "lost"))

\* Fault of GraceExpires: the deadline runs only once the heartbeat failed.
GraceNeedsFailure(c) ==
    LET m == call[c] IN
    /\ m.pc = "executing" /\ m.tx.by # "main" /\ m.cancelled /\ m.heartbeat = "failed"
    /\ Becomes(c, [m EXCEPT !.pc = "stopping", !.outcome = "cancelled"])

\* cancellation_grace after the cancellation the execution is dropped.
GraceExpires(c) ==
    LET m == call[c] IN
    /\ m.pc = "executing" /\ m.tx.by # "main" /\ m.cancelled
    /\ Becomes(c, [m EXCEPT !.pc = "stopping", !.outcome = "cancelled"])

\* HeartbeatThread::stop: acknowledged in time, or the lease is retained
\* because the renewal in flight may still succeed.
StopHeartbeat(c) ==
    LET m == call[c] IN
    /\ m.pc = "stopping"
    /\ \/ m.heartbeat \in {"failed", "stopped"} /\ Becomes(c, FinishClaim(m, m.outcome))
       \/ m.heartbeat \in {"starting", "beating"} /\ Becomes(c, Return(m, "lost"))

-----------------------------------------------------------------------------
(* reconcile_activity, release_authority. *)

\* The operator looks at an attempt that was left without an outcome once no
\* effect is in flight any more, and calls with what really happened.
Decide(c) ==
    /\ c \in setting.operators
    /\ call[c].pc = "deciding"
    /\ store.phase \in {"busy", "reconcile"}
    /\ \A w \in Worker : call[w].doing # "acting"
    /\ Becomes(c, [call[c] EXCEPT !.pc = "polling",
                      !.decision = IF effects > 0 THEN "completed" ELSE "safe_to_retry"])

Reconcile(c) ==
    LET m == call[c]
        e == WorkEvent(m.decision, c)
    IN  /\ m.pc = "reconciling" /\ m.tx = NoTx
        /\ Becomes(c, IF ~InStep(m) THEN FinishClaim(Poison(m), "error")
                      ELSE IF HasAuthority(c, m) /\ Legal(m.view, e)
                      THEN Proposed(m, "main", e)
                      ELSE FinishClaim(m, "error"))

ReconcileCas(c) ==
    LET m == call[c]
        After(told) == FinishClaim(Settle(m, told), IF told = "ok" THEN "answered" ELSE ErrorOf(told))
    IN  /\ m.pc = "reconciling" /\ m.tx.by = "main"
        /\ Cas(c, c, After)

\* A fresh driver, so that a poisoned one does not strand the lease.
Release(c) ==
    LET m == [call[c] EXCEPT !.view = store, !.poisoned = FALSE]
        e == LeaseEvent("release", c, clock, clock)
    IN  /\ m.pc = "releasing" /\ m.tx = NoTx
        /\ Becomes(c, IF Legal(store, e) THEN Proposed(m, "main", e)
                      ELSE Return(call[c], "lost"))

ReleaseCas(c) ==
    LET m == call[c]
        After(told) == Return(Settle(m, told), IF told = "ok" THEN m.outcome ELSE "lost")
    IN  /\ m.pc = "releasing" /\ m.tx.by = "main"
        /\ Cas(c, c, After)

-----------------------------------------------------------------------------
(* The environment. *)

Cancel(c) ==
    /\ c \in Cancellable
    /\ call[c].pc \notin {"deciding", "returned", "crashed"} /\ ~call[c].cancelled
    /\ Becomes(c, [call[c] EXCEPT !.cancelled = TRUE])

\* The process dies with its driver, its heartbeat thread and its transaction;
\* an effect it sent out may still happen.
Crash(c) ==
    /\ c \in Mortal
    /\ call[c].pc \notin {"deciding", "returned", "crashed"}
    /\ Becomes(c, [Fresh(c) EXCEPT !.pc = "crashed", !.doing = call[c].doing])

\* An unleased driver: the host resumes a paused run with no lease on it.
HostLoad == /\ store.phase = "paused" /\ store.lease = NoLease
            /\ host' = store
            /\ UNCHANGED <<setting, clock, store, call, effects, faults>>

HostCas == /\ host # NewRun
           /\ \E r \in CasResults(host, Apply(host, WorkEvent("resume", Nobody)), Nobody) :
                  store' = r.store /\ faults' = r.faults
           /\ host' = NewRun
           /\ UNCHANGED <<setting, clock, call, effects>>

\* A jump is several ticks in a row.
Tick == /\ \/ clock < setting.maxTime /\ clock' = clock + 1
           \/ setting.stepsBack /\ clock > 0 /\ clock' = clock - 1
        /\ UNCHANGED <<setting, store, host, call, effects, faults>>

-----------------------------------------------------------------------------
Init == /\ setting \in Setting
        /\ clock = 0
        /\ store = NewRun
        /\ host = NewRun
        /\ call = [c \in Call |-> Fresh(c)]
        /\ effects = 0
        /\ faults = 0

\* What the main task and the heartbeat thread of a call do by themselves.
MainStep(c) ==
    \/ Load(c) \/ Claim(c) \/ ClaimCas(c) \/ Dispose(c) \/ DisposeCas(c)
    \/ Ready(c) \/ LeaseLost(c) \/ GraceExpires(c) \/ StopHeartbeat(c)
    \/ Reconcile(c) \/ ReconcileCas(c) \/ Release(c) \/ ReleaseCas(c) \/ WorkCas(c)
    \/ Unblock(c)

HeartbeatStep(c) == Beat(c) \/ BeatCas(c) \/ BeatStop(c)

CallbackStep(c) ==
    Begin(c) \/ End(c) \/ FinishRun(c) \/ Block(c) \/ Act(c) \/ Fizzle(c) \/ CallbackReturns(c)

Next ==
    \/ \E c \in Call : MainStep(c) \/ Cancel(c) \/ Crash(c)
    \/ \E c \in Operator : Decide(c)
    \/ \E c \in Worker : HeartbeatStep(c) \/ CallbackStep(c)
    \/ HostLoad \/ HostCas \/ Tick

Spec == Init /\ [][Next]_vars

\* The scheduler runs the main task of a call, which gets the mutex when it is
\* free and an answer to its own transactions, and the task's timers fire while
\* it is not blocked.  Nothing is assumed of the clock, of the heartbeat thread,
\* whose transaction may hang in the store, or of the callback, but that it
\* yields where it waits for anything else than the driver.
FairSpec == Spec /\ \A c \in Call : WF_vars(MainStep(c))

-----------------------------------------------------------------------------
(* Properties. *)

\* Every variable stays in its type.
TypeOK == /\ setting \in Setting
          /\ clock \in 0..setting.maxTime
          /\ store \in Run
          /\ host \in Run
          /\ call \in [Call -> Memory]
          /\ effects \in Nat
          /\ faults \in 0..setting.maxFaults

\* The effect of the unsafe activity happens once, whatever crashes, expired
\* leases and late writers do, when operators reconcile truthfully.
EffectHappensOnce == effects <= 1

\* A worker that goes on executing after another call took the lease is past
\* the expiry that it knows of: it could tell from the store's clock alone.
OverlapOnlyAfterExpiry ==
    \A w \in Worker :
        call[w].pc \in {"executing", "blocked"} /\ store.lease.id # w =>
            call[w].view.lease.expires <= clock

\* What a driver acknowledged stays in the store: the state it works on is the
\* persisted log or the beginning of it.
DriverIsBehindStore ==
    \A c \in Call : AppendOnly(call[c].view, store)

\* A copy of the run shows that a call claimed its lease.
Claimed(c, r) == \E i \in DOMAIN r.log : r.log[i].kind = "claim" /\ r.log[i].by = c

\* A call that returns without saying that its lease is lost does not leave it
\* behind; others need not wait for it to expire.  The one exception is an I/O
\* error of the claim itself, which is returned as any other: once a call has
\* been told that it holds the lease, an I/O error of what follows strands
\* nothing, although it poisons the driver.
NoStrandedLease ==
    \A c \in Call :
        call[c].pc = "returned" /\ call[c].outcome # "lost" =>
            \/ store.lease.id # c
            \/ call[c].outcome = "io" /\ ~Claimed(c, call[c].view)

\* The callback waits for the driver's mutex, which the heartbeat holds.
WaitsForHeartbeat(c) == call[c].pc = "blocked" /\ call[c].tx.by = "heartbeat"

\* A cancelled call returns even when its callback never does, its heartbeat
\* never answers and its lease is held by somebody else; only a callback that
\* waits for the driver's mutex behind a heartbeat that never answers holds it
\* up, for as long as the heartbeat does.
CancelledCallReturns ==
    \A c \in Call :
        call[c].cancelled ~>
            (call[c].pc \in {"returned", "crashed"} \/ []WaitsForHeartbeat(c))
=============================================================================
