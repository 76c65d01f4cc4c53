-------------------------- MODULE DurableRunProofs --------------------------
(***************************************************************************)
(* Proofs about DurableRun, for every set of activities, approvals,        *)
(* checkpoints and commands and every bound.                               *)
(*                                                                         *)
(* StatusTellsTheTruth is not inductive by itself: a rewind or a fork      *)
(* replaces the projection by an old snapshot.  The inductive invariant    *)
(* therefore says of every checkpoint what it says of the run, and that    *)
(* no checkpoint was taken while something awaited reconciliation.  Every  *)
(* handler is a composition of Emit, so the argument is: an event that is  *)
(* legal keeps a run state good (ActivityEventKeeps, RunEventKeeps), hence *)
(* Emit does (EmitKeeps), hence every handler does.                        *)
(*                                                                         *)
(* The second half is about hosts that checkpoint only settled activities  *)
(* (CheckpointWhenSettled).  Its invariant has two layers.  SettledRun is  *)
(* about the ledger alone: what the log says of an activity is what the    *)
(* projection shows of it (LedgerFacts), so a new event is never taken for *)
(* an old one and a late report never reaches another attempt.  StepFacts  *)
(* is about the executors and what really happened: an effect that         *)
(* happened, or that somebody may still have, is shown by the projection   *)
(* and by every checkpoint behind it, and nobody else may have it.         *)
(***************************************************************************)
EXTENDS DurableRun, TLAPS

\* A snapshot is taken while the run executes or is paused, so it carries
\* nothing to reconcile and is as coherent as the run was.
GoodSnapshot(ck) == ck.at # 0 => /\ ck.proj.status \in {"running", "paused"}
                                 /\ Coherent(ck.proj)

\* The inductive invariant of one run state.
Good(r) == /\ r \in RunState
           /\ Coherent(r.proj)
           /\ \A c \in CheckpointId : GoodSnapshot(r.ckpts[c])

\* The activity events: their key is a step.
ActivityOp == {"scheduled", "started", "interrupted", "completed", "failed",
               "cancelled", "reconcile_required", "reconciled"}

\* What Append does to a sequence: one element more, at the end.
LEMMA AppendLast ==
    ASSUME NEW S, NEW q \in Seq(S), NEW x \in S
    PROVE  /\ Append(q, x) \in Seq(S)
           /\ Len(Append(q, x)) = Len(q) + 1
           /\ Append(q, x)[Len(q) + 1] = x
OBVIOUS

\* Replacing one activity keeps the projection well formed and touches
\* nothing else in it.
LEMMA WithActivityType ==
    ASSUME NEW proj \in Projection, NEW s \in Step, NEW activity \in Activity
    PROVE  /\ WithActivity(proj, s, activity) \in Projection
           /\ WithActivity(proj, s, activity).status = proj.status
           /\ WithActivity(proj, s, activity).branch = proj.branch
           /\ WithActivity(proj, s, activity).approvals = proj.approvals
           /\ WithActivity(proj, s, activity).acts[s] = activity
           /\ \A u \in Step \ {s} : WithActivity(proj, s, activity).acts[u] = proj.acts[u]
BY DEF Projection, WithActivity

\* So does replacing the status of the run.
LEMMA WithStatusType ==
    ASSUME NEW proj \in Projection, NEW status \in ActiveStatus \cup TerminalStatus
    PROVE  /\ WithStatus(proj, status) \in Projection
           /\ WithStatus(proj, status).status = status
           /\ WithStatus(proj, status).branch = proj.branch
           /\ WithStatus(proj, status).approvals = proj.approvals
           /\ WithStatus(proj, status).acts = proj.acts
BY DEF Projection, WithStatus

\* A verdict on an attempt (apply_event_in_place on a finished, failed or
\* reconciled attempt) changes that attempt alone.
LEMMA VerdictType ==
    ASSUME NEW proj \in Projection, NEW e \in Event, e.key \in Step,
           e.n \in DOMAIN proj.acts[e.key].attempts, NEW seq \in Nat,
           NEW status \in AttemptStatus, NEW retryable \in BOOLEAN, NEW ambiguous \in BOOLEAN
    PROVE  LET new == WithVerdict(proj, e, seq, status, retryable, ambiguous)
               old == proj.acts[e.key].attempts
           IN  /\ new \in Projection
               /\ new.status = proj.status
               /\ new.branch = proj.branch
               /\ new.approvals = proj.approvals
               /\ \A u \in Step \ {e.key} : new.acts[u] = proj.acts[u]
               /\ Len(new.acts[e.key].attempts) = Len(old)
               /\ new.acts[e.key].attempts[e.n].status = status
               /\ \A n \in DOMAIN old \ {e.n} : new.acts[e.key].attempts[n] = old[n]
<1> DEFINE activity == proj.acts[e.key]
           attempt == [status |-> status, started |-> activity.attempts[e.n].started,
                       finished |-> seq, retryable |-> retryable, ambiguous |-> ambiguous]
           seqn == [activity.attempts EXCEPT ![e.n] = attempt]
           nact == [activity EXCEPT !.attempts = seqn]
<1>1. activity \in Activity
  BY DEF Projection
<1>2. activity.attempts \in Seq(Attempt)
  BY <1>1 DEF Activity
<1>3. attempt \in Attempt
  <2>1. activity.attempts[e.n] \in Attempt
    BY <1>2
  <2> QED BY <2>1 DEF Attempt
<1>4. /\ seqn \in Seq(Attempt)
      /\ Len(seqn) = Len(activity.attempts)
      /\ seqn[e.n] = attempt
      /\ \A n \in DOMAIN activity.attempts \ {e.n} : seqn[n] = activity.attempts[n]
  <2> HIDE DEF attempt
  <2> QED BY <1>2, <1>3
<1>5. nact \in Activity /\ nact.attempts = seqn
  <2> HIDE DEF attempt, seqn
  <2> QED BY <1>1, <1>4 DEF Activity
<1>6. WithVerdict(proj, e, seq, status, retryable, ambiguous) = WithActivity(proj, e.key, nact)
  BY DEF WithVerdict
<1>7. attempt.status = status
  OBVIOUS
<1> HIDE DEF nact, seqn, attempt
<1> QED BY <1>4, <1>5, <1>6, <1>7, WithActivityType

\* A final verdict opens no approval, no reconciliation and no running
\* attempt.
LEMMA VerdictEffect ==
    ASSUME NEW proj \in Projection, NEW e \in Event, e.key \in Step,
           e.n \in DOMAIN proj.acts[e.key].attempts, NEW seq \in Nat,
           NEW status \in {"completed", "failed", "cancelled"},
           NEW retryable \in BOOLEAN, NEW ambiguous \in BOOLEAN
    PROVE  LET new == WithVerdict(proj, e, seq, status, retryable, ambiguous)
           IN  /\ new \in Projection
               /\ new.status = proj.status
               /\ Pending(new) = Pending(proj)
               /\ HasReconciliationPending(new) => HasReconciliationPending(proj)
               /\ HasRunningActivity(new) => HasRunningActivity(proj)
<1> DEFINE new == WithVerdict(proj, e, seq, status, retryable, ambiguous)
           old == proj.acts[e.key].attempts
           upd == new.acts[e.key].attempts
<1>1. status \in AttemptStatus
  BY DEF AttemptStatus
<1>2. /\ new \in Projection
      /\ new.status = proj.status
      /\ new.approvals = proj.approvals
      /\ \A u \in Step \ {e.key} : new.acts[u] = proj.acts[u]
      /\ Len(upd) = Len(old)
      /\ upd[e.n].status = status
      /\ \A n \in DOMAIN old \ {e.n} : upd[n] = old[n]
  BY <1>1, VerdictType
<1> HIDE DEF new
<1>3. old \in Seq(Attempt) /\ upd \in Seq(Attempt)
  BY <1>2 DEF Projection, Activity
<1>4. DOMAIN upd = DOMAIN old
  BY <1>2, <1>3
<1>5. Pending(new) = Pending(proj)
  BY <1>2 DEF Pending
<1>6. HasRunningActivity(new) => HasRunningActivity(proj)
  BY <1>2, <1>4 DEF HasRunningActivity
<1>7. LatestIs(new.acts[e.key], "reconcile_required")
        => LatestIs(proj.acts[e.key], "reconcile_required")
  <2>1. (upd = <<>>) <=> (Len(upd) = 0)
    BY <1>3
  <2>2. (old = <<>>) <=> (Len(old) = 0)
    BY <1>3
  <2>3. old # <<>> => Len(old) \in DOMAIN old
    BY <1>3, <2>2
  <2>4. CASE e.n = Len(old)
    BY <1>2, <2>4 DEF LatestIs, Latest
  <2>5. CASE e.n # Len(old)
    BY <1>2, <2>1, <2>2, <2>3, <2>5 DEF LatestIs, HasAttempt, Latest
  <2> QED BY <2>4, <2>5
<1>8. HasReconciliationPending(new) => HasReconciliationPending(proj)
  BY <1>2, <1>7 DEF HasReconciliationPending
<1> QED BY <1>2, <1>5, <1>6, <1>8 DEF new

\* What append_event checks and applies keeps the run's status truthful: the
\* activity events.
LEMMA ActivityEventKeeps ==
    ASSUME NEW r, Good(r), NEW e \in Event, e.key \in Step, e.op \in ActivityOp, Legal(r, e)
    PROVE  Project(r, e) \in Projection /\ Coherent(Project(r, e))
<1> DEFINE proj == r.proj
           seq == NextSequence(r)
<1>1. proj \in Projection /\ Coherent(proj) /\ r.log \in Seq(Event)
  BY DEF Good, RunState
<1>2. seq \in Nat
  BY <1>1 DEF NextSequence
<1>3. proj.acts[e.key] \in Activity /\ e.of \in Branch \cup {NoBranch} /\ e.n \in Nat /\ e.what \in SUBSET Fact
  BY <1>1 DEF Projection, Event
<1>4. proj.acts[e.key].attempts \in Seq(Attempt) /\ proj.acts[e.key].home \in Branch \cup {NoBranch}
  BY <1>3 DEF Activity
<1>5. CASE e.op = "scheduled"
  <2>1. Project(r, e) = WithActivity(proj, e.key, [home |-> e.of, attempts |-> <<>>])
    BY <1>5 DEF Project, ApplyScheduled
  <2>2. [home |-> e.of, attempts |-> <<>>] \in Activity
    BY <1>3 DEF Activity
  <2>3. proj.status = "running"
    BY <1>5 DEF Legal, LegalScheduled, EnsureExecuting
  <2> QED BY <1>1, <2>1, <2>2, <2>3, WithActivityType
          DEF Coherent, HasReconciliationPending, HasRunningActivity, Pending, IsTerminal,
              TerminalStatus, LatestIs, HasAttempt
<1>6. CASE e.op = "started"
  <2> DEFINE longer == Append(proj.acts[e.key].attempts, StartedAttempt(seq))
             nact == [proj.acts[e.key] EXCEPT !.attempts = longer]
  <2>1. Project(r, e) = WithActivity(proj, e.key, nact)
    BY <1>6 DEF Project, ApplyStarted
  <2>2. StartedAttempt(seq) \in Attempt /\ StartedAttempt(seq).status = "running"
    BY <1>2 DEF StartedAttempt, Attempt, AttemptStatus
  <2>3. /\ longer \in Seq(Attempt)
        /\ longer[Len(longer)] = StartedAttempt(seq)
    <3> DEFINE q == proj.acts[e.key].attempts
               x == StartedAttempt(seq)
    <3>1. q \in Seq(Attempt) /\ x \in Attempt
      BY <1>4, <2>2
    <3> HIDE DEF q, x
    <3>2. /\ Append(q, x) \in Seq(Attempt)
          /\ Len(Append(q, x)) = Len(q) + 1
          /\ Append(q, x)[Len(q) + 1] = x
      BY <3>1, AppendLast
    <3> QED BY <3>2 DEF q, x
  <2>4. nact \in Activity /\ nact.attempts = longer
    <3> HIDE DEF longer
    <3> QED BY <1>3, <2>3 DEF Activity
  <2>5. proj.status = "running"
    BY <1>6 DEF Legal, LegalStarted, EnsureExecuting
  <2>6. ~LatestIs(nact, "reconcile_required")
    BY <2>2, <2>3, <2>4 DEF LatestIs, HasAttempt, Latest
  <2> HIDE DEF nact
  <2> QED BY <1>1, <2>1, <2>4, <2>5, <2>6, WithActivityType
          DEF Coherent, HasReconciliationPending, Pending, IsTerminal, TerminalStatus
<1>7. CASE e.op \in {"completed", "cancelled"}
  <2> DEFINE no == FALSE
  <2>1. Project(r, e) = WithVerdict(proj, e, seq, e.op, no, no)
    BY <1>7 DEF Project, ApplyFinished
  <2>2. e.n \in DOMAIN proj.acts[e.key].attempts /\ ~IsTerminal(proj)
    BY <1>7 DEF Legal, LegalFinished, AttemptFound, ActivityOf, EnsureActive
  <2>3. e.op \in {"completed", "failed", "cancelled"} /\ no \in BOOLEAN
    BY <1>7
  <2> HIDE DEF no
  <2> QED BY <1>1, <1>2, <2>1, <2>2, <2>3, VerdictEffect
          DEF Coherent, IsTerminal, TerminalStatus
<1>8. CASE e.op \in {"failed", "interrupted"}
  <2> DEFINE retryable == "retryable" \in e.what
             ambiguous == "ambiguous" \in e.what
  <2>1. Project(r, e) = WithVerdict(proj, e, seq, "failed", retryable, ambiguous)
    BY <1>8 DEF Project, ApplyFailed
  <2>2. e.n \in DOMAIN proj.acts[e.key].attempts /\ ~IsTerminal(proj)
    BY <1>8 DEF Legal, LegalFinished, AttemptFound, ActivityOf, EnsureActive
  <2>3. retryable \in BOOLEAN /\ ambiguous \in BOOLEAN
    OBVIOUS
  <2> HIDE DEF retryable, ambiguous
  <2> QED BY <1>1, <1>2, <2>1, <2>2, <2>3, VerdictEffect
          DEF Coherent, IsTerminal, TerminalStatus
<1>9. CASE e.op = "reconcile_required"
  <2> DEFINE rec == WithVerdict(proj, e, seq, "reconcile_required",
                                proj.acts[e.key].attempts[e.n].retryable, TRUE)
  <2>1. Project(r, e) = WithStatus(rec, "reconcile_required")
    BY <1>9 DEF Project, ApplyReconcileRequired
  <2>2. e.n \in DOMAIN proj.acts[e.key].attempts
    BY <1>9 DEF Legal, LegalReconcileRequired, AttemptFound, ActivityOf
  <2>3. proj.acts[e.key].attempts[e.n].retryable \in BOOLEAN
    <3>1. proj.acts[e.key].attempts[e.n] \in Attempt
      BY <1>4, <2>2
    <3> QED BY <3>1 DEF Attempt
  <2>4. "reconcile_required" \in AttemptStatus
    BY DEF AttemptStatus
  <2>5. rec \in Projection
    BY <1>1, <1>2, <2>2, <2>3, <2>4, VerdictType
  <2> HIDE DEF rec
  <2> QED BY <2>1, <2>5, WithStatusType
          DEF Coherent, IsTerminal, TerminalStatus, ActiveStatus
<1>10. CASE e.op = "reconciled"
  <2> DEFINE safe == "safe_to_retry" \in e.what
             no == FALSE
             settled == WithVerdict(proj, e, seq, ReconciledStatus(e.what), safe, no)
  <2>1. Project(r, e) = IF IsTerminal(proj) \/ HasReconciliationPending(settled)
                        THEN settled ELSE WithStatus(settled, "paused")
    BY <1>10 DEF Project, ApplyReconciled
  <2>2. e.n \in DOMAIN proj.acts[e.key].attempts
    BY <1>10 DEF Legal, LegalReconciled, AttemptFound, ActivityOf
  <2>3. ReconciledStatus(e.what) \in {"completed", "failed", "cancelled"}
    BY DEF ReconciledStatus
  <2>4. safe \in BOOLEAN /\ no \in BOOLEAN
    OBVIOUS
  <2> HIDE DEF safe, no
  <2>5. /\ settled \in Projection
        /\ settled.status = proj.status
        /\ Pending(settled) = Pending(proj)
        /\ HasReconciliationPending(settled) => HasReconciliationPending(proj)
        /\ HasRunningActivity(settled) => HasRunningActivity(proj)
    BY <1>1, <1>2, <2>2, <2>3, <2>4, VerdictEffect
  <2> HIDE DEF settled
  <2>6. CASE IsTerminal(proj) \/ HasReconciliationPending(settled)
    BY <1>1, <2>1, <2>5, <2>6 DEF Coherent, IsTerminal, TerminalStatus
  <2>7. CASE ~(IsTerminal(proj) \/ HasReconciliationPending(settled))
    BY <1>1, <2>1, <2>5, <2>7, WithStatusType
       DEF Coherent, IsTerminal, TerminalStatus, ActiveStatus, HasReconciliationPending
  <2> QED BY <2>6, <2>7
<1> QED BY <1>5, <1>6, <1>7, <1>8, <1>9, <1>10 DEF ActivityOp

\* The events of approvals, checkpoints and commands, as their handlers build
\* them (ck and cmd are the checkpoint and the command they name).
RunEventFits(r, e) ==
    \/ e.op = "requested" /\ <<e.of, e.key>> \in ApprovalId
    \/ /\ e.op = "committed" /\ <<e.of, e.key>> \in CheckpointId
       /\ ActiveAndReconciled(r)
    \/ e.op = "rewind" /\ e.ck \in CheckpointId /\ e.cmd \in Command
    \/ e.op \in {"pause", "fork", "complete", "fail", "cancel"}

\* fork_projection of a coherent snapshot is well formed and coherent.
LEMMA ForkProjectionType ==
    ASSUME NEW proj \in Projection, NEW branch \in Branch,
           proj.status \in {"running", "paused"}, Coherent(proj)
    PROVE  /\ ForkProjection(proj, branch) \in Projection
           /\ ForkProjection(proj, branch).status \in {"running", "paused"}
           /\ ForkProjection(proj, branch).acts = proj.acts
           /\ ForkProjection(proj, branch).approvals = proj.approvals
           /\ Coherent(ForkProjection(proj, branch))
<1> DEFINE status == IF Pending(proj) = {} THEN "running" ELSE "paused"
           new == [proj EXCEPT !.branch = branch, !.status = status]
<1>1. ForkProjection(proj, branch) = new
  BY DEF ForkProjection
<1>2. status \in {"running", "paused"} /\ (status = "running" => Pending(proj) = {})
  OBVIOUS
<1> HIDE DEF status
<1>3. /\ new \in Projection /\ new.status = status
      /\ new.acts = proj.acts /\ new.approvals = proj.approvals
  BY <1>2 DEF Projection, ActiveStatus
<1> HIDE DEF new
<1>4. Pending(new) = Pending(proj)
  BY <1>3 DEF Pending
<1>5. HasReconciliationPending(new) <=> HasReconciliationPending(proj)
  BY <1>3 DEF HasReconciliationPending
<1> QED BY <1>1, <1>2, <1>3, <1>4, <1>5 DEF Coherent, IsTerminal, TerminalStatus

\* What append_event checks and applies keeps the run's status truthful: the
\* events of approvals, checkpoints and commands.
LEMMA RunEventKeeps ==
    ASSUME NEW r, Good(r), NEW e \in Event, RunEventFits(r, e), Legal(r, e)
    PROVE  Project(r, e) \in Projection /\ Coherent(Project(r, e))
<1> DEFINE proj == r.proj
<1>1. proj \in Projection /\ Coherent(proj) /\ r.depth \in 0..MaxForks
  BY DEF Good, RunState
<1>2. CASE e.op = "requested"
  <2> DEFINE new == [proj EXCEPT !.approvals = [@ EXCEPT ![<<e.of, e.key>>] = "pending"],
                                 !.status = "paused"]
  <2>1. Project(r, e) = new
    BY <1>2 DEF Project, ApplyRequested
  <2>2. new \in Projection /\ new.status = "paused" /\ new.acts = proj.acts
    BY <1>1 DEF Projection, ActiveStatus, ApprovalStatus
  <2>3. proj.status \in {"running", "paused"}
    BY <1>2 DEF Legal, LegalRequested, ActiveAndReconciled
  <2> HIDE DEF new
  <2> QED BY <1>1, <2>1, <2>2, <2>3
          DEF Coherent, IsTerminal, TerminalStatus, HasReconciliationPending
<1>3. CASE e.op = "pause"
  <2>1. Project(r, e) = WithStatus(proj, "paused")
    BY <1>3 DEF Project
  <2>2. proj.status \in {"running", "paused"}
    BY <1>3 DEF Legal, LegalPause, ActiveAndReconciled
  <2> QED BY <1>1, <2>1, <2>2, WithStatusType
          DEF Coherent, IsTerminal, TerminalStatus, ActiveStatus, HasReconciliationPending
<1>4. CASE e.op = "rewind"
  <2> DEFINE ck == r.ckpts[e.ck]
             forked == ForkProjection(ck.proj, <<r.depth, e.cmd>>)
  <2>1. Project(r, e) = WithStatus(forked, "paused")
    BY <1>4 DEF Project, ApplyRewind
  <2>2. e.ck \in CheckpointId /\ e.cmd \in Command
    BY <1>4 DEF RunEventFits
  <2>3. ck \in Checkpoint /\ GoodSnapshot(ck)
    BY <2>2 DEF Good, RunState
  <2>4. ck.at # 0
    BY <1>4 DEF Legal, LegalBranchOff
  <2>5. ck.proj \in Projection /\ ck.proj.status \in {"running", "paused"} /\ Coherent(ck.proj)
    BY <2>3, <2>4 DEF Checkpoint, GoodSnapshot
  <2>6. <<r.depth, e.cmd>> \in Branch
    BY <1>1, <2>2 DEF Branch
  <2>7. /\ forked \in Projection /\ forked.status \in {"running", "paused"}
        /\ Coherent(forked)
    BY <2>5, <2>6, ForkProjectionType
  <2> HIDE DEF forked
  <2> QED BY <2>1, <2>7, WithStatusType
          DEF Coherent, IsTerminal, TerminalStatus, ActiveStatus, HasReconciliationPending
<1>5. CASE e.op \in {"fork", "committed"}
  BY <1>1, <1>5 DEF Project
<1>6. CASE e.op = "complete"
  <2>1. Project(r, e) = WithStatus(proj, "completed")
    BY <1>6 DEF Project
  <2>2. Pending(proj) = {} /\ ~HasReconciliationPending(proj) /\ ~HasRunningActivity(proj)
    BY <1>6 DEF Legal, LegalComplete
  <2> QED BY <1>1, <2>1, <2>2, WithStatusType
          DEF Coherent, IsTerminal, TerminalStatus, ActiveStatus, HasReconciliationPending,
              HasRunningActivity, Pending
<1>7. CASE e.op \in {"fail", "cancel"}
  <2>1. \E status \in {"failed", "cancelled"} : Project(r, e) = WithStatus(proj, status)
    BY <1>7 DEF Project
  <2>2. ~HasRunningActivity(proj)
    BY <1>7 DEF Legal, LegalStop
  <2> QED BY <1>1, <2>1, <2>2, WithStatusType
          DEF Coherent, IsTerminal, TerminalStatus, ActiveStatus, HasRunningActivity
<1> QED BY <1>2, <1>3, <1>4, <1>5, <1>6, <1>7 DEF RunEventFits

\* Appending any event keeps a good run state good.
LEMMA EmitKeeps ==
    ASSUME NEW r, Good(r), NEW e \in Event,
           (e.key \in Step /\ e.op \in ActivityOp) \/ RunEventFits(r, e)
    PROVE  Good(Emit(r, e)) /\ Emit(r, e).depth = r.depth
<1>1. CASE ~(Fresh(r, e) /\ Legal(r, e))
  BY <1>1 DEF Emit
<1>2. CASE Fresh(r, e) /\ Legal(r, e)
  <2> DEFINE proj == Project(r, e)
             ckpts == IF e.op = "committed" THEN ApplyCommitted(r, e) ELSE r.ckpts
             log == Append(r.log, e)
             new == [r EXCEPT !.log = log, !.proj = proj, !.ckpts = ckpts]
  <2>1. Emit(r, e) = new
    BY <1>2 DEF Emit
  <2>2. proj \in Projection /\ Coherent(proj)
    BY <1>2, ActivityEventKeeps, RunEventKeeps
  <2>3. /\ r \in RunState /\ r.proj \in Projection /\ Coherent(r.proj)
        /\ r.log \in Seq(Event) /\ r.ckpts \in [CheckpointId -> Checkpoint]
        /\ \A c \in CheckpointId : GoodSnapshot(r.ckpts[c])
    BY DEF Good, RunState
  <2>4. log \in Seq(Event)
    BY <2>3
  <2>5. ckpts \in [CheckpointId -> Checkpoint] /\ \A c \in CheckpointId : GoodSnapshot(ckpts[c])
    <3>1. CASE e.op # "committed"
      BY <2>3, <3>1
    <3>2. CASE e.op = "committed"
      <4> DEFINE id == <<e.of, e.key>>
                 ck == [at |-> NextSequence(r), proj |-> r.proj]
      <4>1. id \in CheckpointId /\ r.proj.status \in {"running", "paused"}
        BY <3>2 DEF RunEventFits, ActiveAndReconciled, ActivityOp
      <4>2. NextSequence(r) \in Nat
        BY <2>3 DEF NextSequence
      <4>3. ck \in Checkpoint /\ GoodSnapshot(ck)
        BY <2>3, <4>1, <4>2 DEF Checkpoint, GoodSnapshot
      <4>4. ckpts = [r.ckpts EXCEPT ![id] = ck]
        BY <3>2 DEF ApplyCommitted
      <4> HIDE DEF ck, id, ckpts
      <4> QED BY <2>3, <4>1, <4>3, <4>4
    <3> QED BY <3>1, <3>2
  <2> HIDE DEF proj, ckpts, log
  <2>6. /\ new \in RunState /\ new.proj = proj /\ new.ckpts = ckpts
        /\ new.depth = r.depth
    BY <2>2, <2>3, <2>4, <2>5 DEF RunState
  <2> HIDE DEF new
  <2> QED BY <2>1, <2>2, <2>5, <2>6 DEF Good
<1> QED BY <1>1, <1>2

\* The event a handler builds for an activity is well formed.
LEMMA ActivityEventType ==
    ASSUME NEW op \in ActivityOp, NEW home \in Branch \cup {NoBranch}, NEW s \in Step,
           NEW n \in Nat, NEW cmd \in EventCommand, NEW what \in SUBSET Fact
    PROVE  /\ ActivityEvent(op, home, s, n, cmd, what) \in Event
           /\ ActivityEvent(op, home, s, n, cmd, what).key = s
           /\ ActivityEvent(op, home, s, n, cmd, what).op = op
           /\ ActivityEvent(op, home, s, n, cmd, what).n = n
BY DEF ActivityEvent, Event, ActivityOp, Op, EventKey

\* The activity of a good run state is well formed.
LEMMA ActivityOfGood ==
    ASSUME NEW r, Good(r), NEW s \in Step
    PROVE  /\ r.proj.acts[s].home \in Branch \cup {NoBranch}
           /\ Len(r.proj.acts[s].attempts) \in Nat
           /\ r.depth \in 0..MaxForks /\ Len(r.log) \in Nat
<1>1. r.proj.acts[s] \in Activity /\ r.depth \in 0..MaxForks /\ r.log \in Seq(Event)
  BY DEF Good, RunState, Projection
<1>2. r.proj.acts[s].attempts \in Seq(Attempt) /\ r.proj.acts[s].home \in Branch \cup {NoBranch}
  BY <1>1 DEF Activity
<1> QED BY <1>1, <1>2

\* Emitting an activity event, whatever its attempt number, is sound.
LEMMA EmitActivity ==
    ASSUME NEW r, Good(r), NEW op \in ActivityOp, NEW home \in Branch \cup {NoBranch},
           NEW s \in Step, NEW n \in Nat, NEW cmd \in EventCommand, NEW what \in SUBSET Fact
    PROVE  LET new == Emit(r, ActivityEvent(op, home, s, n, cmd, what))
           IN  Good(new) /\ new.depth = r.depth
BY ActivityEventType, EmitKeeps

\* A decision that leaves the ledger in a good state.
GoodDecision(d, r) == /\ Good(d.run) /\ d.run.depth = r.depth
                      /\ d.n \in Nat

\* Starting the next attempt keeps a good run state good.
LEMMA DecideStartKeeps ==
    ASSUME NEW r, Good(r), NEW s \in Step
    PROVE  GoodDecision(DecideStart(r, s), r)
<1> DEFINE k == Len(r.proj.acts[s].attempts)
           n == k + 1
           home == r.proj.acts[s].home
           new == Emit(r, ActivityEvent("started", home, s, n, "none", {}))
<1>1. n \in Nat /\ home \in Branch \cup {NoBranch}
  <2>1. k \in Nat /\ home \in Branch \cup {NoBranch}
    BY ActivityOfGood
  <2> HIDE DEF k, home
  <2> QED BY <2>1
<1>2. "started" \in ActivityOp /\ "none" \in EventCommand /\ {} \in SUBSET Fact
  BY DEF ActivityOp, EventCommand
<1>3. Good(new) /\ new.depth = r.depth
  <2> HIDE DEF n, home
  <2> QED BY <1>1, <1>2, EmitActivity
<1>4. DecideStart(r, s).run = new /\ DecideStart(r, s).n = n
  BY DEF DecideStart, Decision
<1> HIDE DEF new, n
<1> QED BY <1>1, <1>3, <1>4 DEF GoodDecision

\* So does an event about the latest attempt of an activity.
LEMMA LatestEmitKeeps ==
    ASSUME NEW r, Good(r), NEW s \in Step, NEW op \in ActivityOp, NEW what \in SUBSET Fact
    PROVE  /\ Good(Emit(r, LatestEvent(r, s, op, what)))
           /\ Emit(r, LatestEvent(r, s, op, what)).depth = r.depth
           /\ LatestEvent(r, s, op, what).n \in Nat
<1> DEFINE n == Len(r.proj.acts[s].attempts)
           home == r.proj.acts[s].home
<1>1. n \in Nat /\ home \in Branch \cup {NoBranch}
  BY ActivityOfGood
<1>2. "none" \in EventCommand
  BY DEF EventCommand
<1>3. LatestEvent(r, s, op, what) = ActivityEvent(op, home, s, n, "none", what)
  BY DEF LatestEvent
<1> HIDE DEF n, home
<1> QED BY <1>1, <1>2, <1>3, EmitActivity, ActivityEventType

\* So does sending the latest attempt to reconciliation.
LEMMA DecideReconcileKeeps ==
    ASSUME NEW r, Good(r), NEW s \in Step, NEW why \in Fact
    PROVE  GoodDecision(DecideReconcile(r, s, why), r)
<1> DEFINE e == LatestEvent(r, s, "reconcile_required", {why})
<1>1. DecideReconcile(r, s, why).run = Emit(r, e) /\ DecideReconcile(r, s, why).n = e.n
  BY DEF DecideReconcile, Decision
<1>2. "reconcile_required" \in ActivityOp
  BY DEF ActivityOp
<1> QED BY <1>1, <1>2, LatestEmitKeeps DEF GoodDecision

\* decide_activity, in all its branches, keeps a good run state good.
LEMMA DecideKeeps ==
    ASSUME NEW r, Good(r), NEW s \in Step
    PROVE  GoodDecision(Decide(r, s), r)
<1>1. Good(Interrupt(r, s)) /\ Interrupt(r, s).depth = r.depth
  BY LatestEmitKeeps DEF Interrupt, ActivityOp, Fact
<1>2. GoodDecision(DecideStart(Interrupt(r, s), s), r)
  BY <1>1, DecideStartKeeps DEF GoodDecision
<1>3. GoodDecision(DecideStart(r, s), r)
  BY DecideStartKeeps
<1>4. /\ GoodDecision(DecideReconcile(r, s, "interrupted"), r)
      /\ GoodDecision(DecideReconcile(r, s, "failed_before"), r)
  BY DecideReconcileKeeps DEF Fact
<1>5. \A told : GoodDecision(Decision(r, told, 0), r)
  BY DEF GoodDecision, Decision
<1>6. GoodDecision(DecideInterrupted(r, s), r)
  BY <1>2, <1>4 DEF DecideInterrupted
<1>7. \A last : GoodDecision(DecideRetry(r, s, last), r)
  BY <1>3, <1>4, <1>5 DEF DecideRetry
<1>8. CASE r.proj.acts[s].home = NoBranch \/ Completed(r.proj.acts[s])
  BY <1>5, <1>8 DEF Decide
<1>9. CASE /\ r.proj.acts[s].home # NoBranch /\ ~Completed(r.proj.acts[s])
           /\ ~HasAttempt(r.proj.acts[s])
  BY <1>3, <1>9 DEF Decide
<1>10. CASE /\ r.proj.acts[s].home # NoBranch /\ ~Completed(r.proj.acts[s])
            /\ HasAttempt(r.proj.acts[s])
  <2> DEFINE last == Latest(r.proj.acts[s])
  <2>1. last.status \in AttemptStatus \ {"completed"}
    <3>1. r.proj.acts[s].attempts \in Seq(Attempt)
      BY DEF Good, RunState, Projection, Activity
    <3>2. /\ Len(r.proj.acts[s].attempts) \in DOMAIN r.proj.acts[s].attempts
          /\ r.proj.acts[s].attempts[Len(r.proj.acts[s].attempts)] \in Attempt
      BY <3>1, <1>10 DEF HasAttempt
    <3> QED BY <3>2, <1>10 DEF Attempt, Latest, Completed
  <2>2. CASE last.status = "running"
    BY <1>6, <1>10, <2>2 DEF Decide
  <2>3. CASE last.status = "failed"
    BY <1>7, <1>10, <2>3 DEF Decide
  <2>4. CASE last.status = "reconcile_required"
    BY <1>5, <1>10, <2>4 DEF Decide
  <2>5. CASE last.status = "cancelled"
    BY <1>5, <1>10, <2>5 DEF Decide
  <2> QED BY <2>1, <2>2, <2>3, <2>4, <2>5 DEF AttemptStatus
<1> QED BY <1>8, <1>9, <1>10

\* The token handed out with a good decision is well typed.
LEMMA DispatchType ==
    ASSUME NEW r, NEW d, GoodDecision(d, r), NEW s \in Step
    PROVE  Dispatch(d, s) \subseteq Token
<1>1. Good(d.run) /\ d.n \in Nat
  BY DEF GoodDecision
<1>2. /\ d.run.proj.acts[s].home \in Branch \cup {NoBranch}
      /\ d.run.depth \in 0..MaxForks /\ Len(d.run.log) \in Nat
  BY <1>1, ActivityOfGood
<1> DEFINE depth == d.run.depth
           home == d.run.proj.acts[s].home
           n == d.n
           seq == Len(d.run.log)
<1>3. /\ depth \in 0..MaxForks /\ home \in Branch \cup {NoBranch}
      /\ n \in Nat /\ seq \in Nat
  BY <1>1, <1>2
<1>4. Dispatch(d, s) \subseteq {[depth |-> depth, home |-> home, step |-> s, n |-> n,
                                 seq |-> seq, done |-> FALSE, told |-> "none"]}
  BY DEF Dispatch
<1> HIDE DEF depth, home, n, seq
<1>5. [depth |-> depth, home |-> home, step |-> s, n |-> n, seq |-> seq,
       done |-> FALSE, told |-> "none"] \in Token
  BY <1>3 DEF Token, Report
<1> QED BY <1>4, <1>5

-----------------------------------------------------------------------------
(* The handlers. *)

\* The inductive invariant of the specification.
Inv == /\ Good(run)
       /\ flying \in SUBSET Token
       /\ effects \in [Step -> [0..MaxEvents -> Nat]]

\* So does the report of an executor, however late it comes.
LEMMA TokenEmitKeeps ==
    ASSUME NEW r, Good(r), NEW t \in Token, NEW op \in ActivityOp, NEW what \in SUBSET Fact
    PROVE  /\ Good(Emit(r, TokenEvent(t, op, what)))
           /\ Emit(r, TokenEvent(t, op, what)).depth = r.depth
<1>1. t.home \in Branch \cup {NoBranch} /\ t.step \in Step /\ t.n \in Nat
  BY DEF Token
<1>2. "none" \in EventCommand
  BY DEF EventCommand
<1> QED BY <1>1, <1>2, EmitActivity DEF TokenEvent

\* fail_activity, in all its branches, keeps a good run state good.
LEMMA FailOutcomeKeeps ==
    ASSUME NEW r, Good(r), NEW t \in Token, NEW retryable \in BOOLEAN, NEW ambiguous \in BOOLEAN
    PROVE  GoodDecision(FailOutcome(r, t, retryable, ambiguous), r)
<1> DEFINE what == {f \in {"retryable", "ambiguous"} :
                      IF f = "retryable" THEN retryable ELSE ambiguous}
           e == TokenEvent(t, "failed", what)
           failed == Emit(r, e)
           stop == Emit(failed, TokenEvent(t, "reconcile_required", {"reported"}))
<1>1. t.n \in Nat /\ t.step \in Step
  BY DEF Token
<1>2. Good(failed) /\ failed.depth = r.depth
  <2>1. what \in SUBSET Fact /\ "failed" \in ActivityOp
    BY DEF Fact, ActivityOp
  <2> HIDE DEF what
  <2> QED BY <2>1, TokenEmitKeeps
<1> HIDE DEF failed
<1>3. Good(stop) /\ stop.depth = r.depth
  <2>1. {"reported"} \in SUBSET Fact /\ "reconcile_required" \in ActivityOp
    BY DEF Fact, ActivityOp
  <2> QED BY <1>2, <2>1, TokenEmitKeeps
<1>4. GoodDecision(Decide(failed, t.step), r)
  BY <1>1, <1>2, DecideKeeps DEF GoodDecision
<1> HIDE DEF stop
<1>5. /\ GoodDecision(Decision(r, "error", t.n), r)
      /\ GoodDecision(Decision(stop, "reconcile", t.n), r)
      /\ GoodDecision(Decision(failed, "failed", t.n), r)
  BY <1>1, <1>2, <1>3 DEF GoodDecision, Decision
<1> QED BY <1>4, <1>5 DEF FailOutcome, failed, stop

\* What a rewind, a fork or another command puts into the log is well formed.
LEMMA CommandEventType ==
    ASSUME NEW op \in Op, NEW depth \in 0..MaxForks, NEW cmd \in EventCommand,
           NEW what \in SUBSET Fact, NEW ck \in CheckpointId \cup {NoCheckpoint}
    PROVE  /\ CommandEvent(op, depth, cmd, what, ck) \in Event
           /\ CommandEvent(op, depth, cmd, what, ck).op = op
           /\ CommandEvent(op, depth, cmd, what, ck).cmd = cmd
           /\ CommandEvent(op, depth, cmd, what, ck).ck = ck
BY DEF CommandEvent, Event, EventKey, FirstBranch, Branch

\* The event of an approval or of a checkpoint is well formed.
LEMMA KeyedEventType ==
    ASSUME NEW op \in Op, NEW id \in Branch \X (ApprovalKey \cup CheckpointKey),
           NEW cmd \in EventCommand, NEW what \in SUBSET Fact
    PROVE  /\ KeyedEvent(op, id, cmd, what) \in Event
           /\ KeyedEvent(op, id, cmd, what).op = op
           /\ KeyedEvent(op, id, cmd, what).of = id[1]
           /\ KeyedEvent(op, id, cmd, what).key = id[2]
BY DEF KeyedEvent, Event, EventKey

\* A command of the host keeps a good run state good.
LEMMA CommandEmitKeeps ==
    ASSUME NEW r, Good(r), NEW cmd \in EventCommand, NEW what \in SUBSET Fact,
           NEW ck \in CheckpointId \cup {NoCheckpoint},
           NEW op \in {"pause", "fork", "complete", "fail", "cancel", "rewind"},
           op = "rewind" => ck \in CheckpointId /\ cmd \in Command
    PROVE  Good(Emit(r, CommandEvent(op, r.depth, cmd, what, ck)))
<1> DEFINE e == CommandEvent(op, r.depth, cmd, what, ck)
<1>1. r.depth \in 0..MaxForks /\ op \in Op
  BY DEF Good, RunState, Op
<1>2. e \in Event /\ e.op = op /\ e.cmd = cmd /\ e.ck = ck
  BY <1>1, CommandEventType
<1> HIDE DEF e
<1>3. RunEventFits(r, e)
  BY <1>2 DEF RunEventFits
<1>4. Good(Emit(r, e))
  BY <1>2, <1>3, EmitKeeps
<1> QED BY <1>4 DEF e

\* resume, which appends several events at once, keeps a good run state good.
LEMMA ResumeKeeps ==
    ASSUME Inv, NEW cmd \in Command, NEW list \in Listings(Pending(run.proj)),
           NEW approved \in SUBSET Pending(run.proj), Resume(cmd, list, approved)
    PROVE  Good(run')
<1> DEFINE proj == ResumedProjection(run.proj, approved)
           events == ResumeEvents(run, cmd, list, approved)
           log == run.log \o events
           apps == [a \in ApprovalId |->
                      IF a \notin Pending(run.proj) THEN run.proj.approvals[a]
                      ELSE IF a \in approved THEN "approved" ELSE "rejected"]
<1>1. /\ run \in RunState /\ run.proj \in Projection /\ run.log \in Seq(Event)
      /\ run.depth \in 0..MaxForks
      /\ \A c \in CheckpointId : GoodSnapshot(run.ckpts[c])
  BY DEF Inv, Good, RunState
<1>2. /\ run' = [run EXCEPT !.log = log, !.proj = proj]
      /\ ~HasReconciliationPending(run.proj)
  BY DEF Resume
<1>3. events \in Seq(Event)
  <2> DEFINE resolved == [i \in DOMAIN list |->
                 KeyedEvent("resolved", list[i], cmd,
                            IF list[i] \in approved THEN {"approved"} ELSE {})]
             last == CommandEvent("resume", run.depth, cmd, {}, NoCheckpoint)
  <2>0. PICK n \in 0..MaxEvents : list \in [1..n -> Pending(run.proj)]
    BY DEF Listings
  <2>1. n \in Nat /\ list \in [1..n -> ApprovalId]
    <3>1. Pending(run.proj) \subseteq ApprovalId
      BY DEF Pending
    <3> QED BY <2>0, <3>1, BoundsAreNaturals
  <2>2. cmd \in EventCommand
    BY DEF EventCommand
  <2>3. \A i \in 1..n : KeyedEvent("resolved", list[i], cmd,
                            IF list[i] \in approved THEN {"approved"} ELSE {}) \in Event
    <3> TAKE i \in 1..n
    <3> DEFINE what == IF list[i] \in approved THEN {"approved"} ELSE {}
    <3>1. list[i] \in Branch \X (ApprovalKey \cup CheckpointKey) /\ "resolved" \in Op
      BY <2>1 DEF ApprovalId, Op
    <3>2. what \in SUBSET Fact
      BY DEF Fact
    <3> HIDE DEF what
    <3>3. KeyedEvent("resolved", list[i], cmd, what) \in Event
      BY <2>2, <3>1, <3>2, KeyedEventType
    <3> QED BY <3>3 DEF what
  <2>4. resolved \in Seq(Event)
    BY <2>1, <2>3
  <2>5. last \in Event
    BY <1>1, <2>2, CommandEventType DEF Op
  <2> HIDE DEF resolved, last
  <2>6. resolved \o <<last>> \in Seq(Event)
    BY <2>4, <2>5
  <2> QED BY <2>6 DEF ResumeEvents, resolved, last
<1>4. log \in Seq(Event)
  <2> HIDE DEF events
  <2> QED BY <1>1, <1>3
<1>5. proj = [run.proj EXCEPT !.status = "running", !.approvals = apps]
  BY DEF ResumedProjection
<1>6. apps \in [ApprovalId -> ApprovalStatus]
  BY <1>1 DEF Projection, ApprovalStatus
<1>7. \A a \in ApprovalId : apps[a] # "pending"
  BY DEF Pending
<1> HIDE DEF apps, log, events
<1>8. /\ proj \in Projection /\ proj.status = "running"
      /\ proj.acts = run.proj.acts /\ proj.approvals = apps
  BY <1>1, <1>5, <1>6 DEF Projection, ActiveStatus
<1> HIDE DEF proj
<1>9. Coherent(proj)
  BY <1>2, <1>7, <1>8
     DEF Coherent, Pending, IsTerminal, TerminalStatus, HasReconciliationPending
<1>10. run' \in RunState /\ run'.proj = proj /\ run'.ckpts = run.ckpts
  BY <1>1, <1>2, <1>4, <1>8 DEF RunState
<1> QED BY <1>1, <1>9, <1>10 DEF Good

\* The child that fork builds is a good run state.
LEMMA ForkChildKeeps ==
    ASSUME Inv, NEW cmd \in Command, NEW ck \in CheckpointId, NEW acked \in BOOLEAN,
           ForkChild(cmd, ck, acked)
    PROVE  Good(run')
<1> DEFINE depth == run.depth + 1
           branch == FirstBranch(depth)
           proj == ForkProjection(run.ckpts[ck].proj, branch)
           first == CommandEvent("forked_from", depth, "none", {}, NoCheckpoint)
           ckpts == [c \in CheckpointId |->
                       IF c = ck THEN [at |-> 1, proj |-> proj] ELSE AbsentCheckpoint]
<1>1. /\ run.depth \in 0..MaxForks /\ run.depth < MaxForks
      /\ run.ckpts[ck] \in Checkpoint /\ GoodSnapshot(run.ckpts[ck]) /\ run.ckpts[ck].at # 0
  BY DEF Inv, Good, RunState, ForkChild, CanFork
<1>2. run' = [depth |-> depth, log |-> <<first>>, proj |-> proj, ckpts |-> ckpts]
  BY DEF ForkChild, Child
<1>3. depth \in 0..MaxForks /\ branch \in Branch
  BY <1>1, BoundsAreNaturals DEF FirstBranch, Branch
<1>4. first \in Event
  BY <1>3, CommandEventType DEF Op, EventCommand
<1>5. /\ run.ckpts[ck].proj \in Projection
      /\ run.ckpts[ck].proj.status \in {"running", "paused"}
      /\ Coherent(run.ckpts[ck].proj)
  BY <1>1 DEF Checkpoint, GoodSnapshot
<1>6. proj \in Projection /\ Coherent(proj) /\ proj.status \in {"running", "paused"}
  <2> HIDE DEF branch
  <2> QED BY <1>3, <1>5, ForkProjectionType
<1> HIDE DEF proj, first, depth, branch
<1>7. RootProjection \in Projection
  BY BoundsAreNaturals
     DEF RootProjection, Projection, FirstBranch, Branch, ActiveStatus, Unscheduled,
         Activity, ApprovalStatus
<1>8. /\ AbsentCheckpoint \in Checkpoint /\ GoodSnapshot(AbsentCheckpoint)
  BY <1>7 DEF AbsentCheckpoint, Checkpoint, GoodSnapshot
<1>9. /\ [at |-> 1, proj |-> proj] \in Checkpoint
      /\ GoodSnapshot([at |-> 1, proj |-> proj])
  BY <1>6 DEF Checkpoint, GoodSnapshot
<1>10. ckpts \in [CheckpointId -> Checkpoint] /\ \A c \in CheckpointId : GoodSnapshot(ckpts[c])
  BY <1>8, <1>9
<1> HIDE DEF ckpts
<1>11. /\ run' \in RunState /\ run'.proj = proj /\ run'.ckpts = ckpts
  BY <1>2, <1>3, <1>4, <1>6, <1>10 DEF RunState
<1> QED BY <1>6, <1>10, <1>11 DEF Good

-----------------------------------------------------------------------------
(* The inductive invariant. *)

\* A new run satisfies the inductive invariant.
LEMMA InitInv == Init => Inv
<1> SUFFICES ASSUME Init PROVE Inv
  OBVIOUS
<1> DEFINE first == CommandEvent("started_run", 0, "none", {}, NoCheckpoint)
           ckpts == [c \in CheckpointId |-> AbsentCheckpoint]
<1>1. 0 \in 0..MaxForks
  BY BoundsAreNaturals
<1>2. first \in Event
  BY <1>1, CommandEventType DEF Op, EventCommand
<1>3. RootProjection \in Projection
  BY BoundsAreNaturals
     DEF RootProjection, Projection, FirstBranch, Branch, ActiveStatus, Unscheduled,
         Activity, ApprovalStatus
<1>4. Coherent(RootProjection)
  BY DEF RootProjection, Coherent, HasReconciliationPending, Pending, IsTerminal,
         TerminalStatus, Unscheduled, LatestIs, HasAttempt
<1>5. /\ ckpts \in [CheckpointId -> Checkpoint]
      /\ \A c \in CheckpointId : GoodSnapshot(ckpts[c])
  BY <1>3 DEF AbsentCheckpoint, Checkpoint, GoodSnapshot
<1>6. run = [depth |-> 0, log |-> <<first>>, proj |-> RootProjection, ckpts |-> ckpts]
  BY DEF Init
<1> HIDE DEF first, ckpts
<1>7. run \in RunState /\ run.proj = RootProjection /\ run.ckpts = ckpts
  BY <1>1, <1>2, <1>3, <1>5, <1>6 DEF RunState
<1>8. flying \in SUBSET Token /\ effects \in [Step -> [0..MaxEvents -> Nat]]
  BY DEF Init
<1> QED BY <1>4, <1>5, <1>7, <1>8 DEF Inv, Good

\* The ghost variables keep their types.
LEMMA ReportedType ==
    ASSUME flying \in SUBSET Token, NEW t \in flying, NEW told \in Report
    PROVE  Reported(t, told) \in SUBSET Token
BY DEF Reported, Token

\* Every operation on activities preserves the inductive invariant.
LEMMA ActivityStepInv == Inv /\ ActivityStep => Inv'
<1> SUFFICES ASSUME Inv, ActivityStep PROVE Inv'
  OBVIOUS
<1>1. /\ Good(run) /\ flying \in SUBSET Token
      /\ effects \in [Step -> [0..MaxEvents -> Nat]]
  BY DEF Inv
<1>2. ASSUME NEW s \in Step, Prepare(s) PROVE Inv'
  <2> DEFINE r == ScheduleIfAbsent(run, s)
             d == Decide(r, s)
  <2>1. run' = d.run /\ flying' = flying \cup Dispatch(d, s) /\ effects' = effects
    BY <1>2 DEF Prepare
  <2>2. Good(r)
    <3>1. run.proj.branch \in Branch \cup {NoBranch} /\ 0 \in Nat
      BY <1>1 DEF Good, RunState, Projection
    <3>2. "none" \in EventCommand /\ {} \in SUBSET Fact /\ "scheduled" \in ActivityOp
      BY DEF EventCommand, ActivityOp
    <3> QED BY <1>1, <1>2, <3>1, <3>2, EmitActivity DEF ScheduleIfAbsent
  <2> HIDE DEF r
  <2>3. GoodDecision(d, r)
    BY <1>2, <2>2, DecideKeeps
  <2> HIDE DEF d
  <2> QED BY <1>1, <1>2, <2>1, <2>3, DispatchType DEF Inv, GoodDecision
<1>3. ASSUME NEW t \in flying, Perform(t) PROVE Inv'
  <2>1. t \in Token /\ [t EXCEPT !.done = TRUE] \in Token
    BY <1>1, <1>3 DEF Token
  <2>2. flying' \in SUBSET Token
    BY <1>1, <1>3, <2>1 DEF Perform
  <2>3. effects' \in [Step -> [0..MaxEvents -> Nat]]
    <3> DEFINE row == effects[t.step]
               longer == [row EXCEPT ![t.seq] = row[t.seq] + 1]
    <3>1. t.step \in Step /\ t.seq \in 0..MaxEvents
      BY <1>3, <2>1 DEF Token, Perform
    <3>2. row \in [0..MaxEvents -> Nat]
      BY <1>1, <3>1
    <3>3. longer \in [0..MaxEvents -> Nat]
      <4> HIDE DEF row
      <4>1. row[t.seq] + 1 \in Nat
        BY <3>1, <3>2
      <4> QED BY <3>1, <3>2, <4>1
    <3>4. effects' = [effects EXCEPT ![t.step] = longer]
      BY <1>3 DEF Perform
    <3> HIDE DEF longer
    <3> QED BY <1>1, <3>1, <3>3, <3>4
  <2> QED BY <1>1, <1>3, <2>2, <2>3 DEF Perform, Inv
<1>4. ASSUME NEW t \in flying, Lose(t) PROVE Inv'
  BY <1>1, <1>4 DEF Lose, Inv
<1>5. ASSUME NEW t \in flying, CompleteActivity(t) PROVE Inv'
  <2>1. Good(Emit(run, TokenEvent(t, "completed", {})))
    BY <1>1, <1>5, TokenEmitKeeps DEF ActivityOp
  <2>2. Reported(t, "complete") \in SUBSET Token
    BY <1>1, <1>5, ReportedType DEF Report
  <2> QED BY <1>1, <1>5, <2>1, <2>2 DEF CompleteActivity, Inv
<1>6. ASSUME NEW t \in flying, NEW retryable \in BOOLEAN, NEW ambiguous \in BOOLEAN,
             FailActivity(t, retryable, ambiguous)
      PROVE  Inv'
  <2> DEFINE told == FailReport(retryable, ambiguous)
             d == FailOutcome(run, t, retryable, ambiguous)
  <2>1. /\ run' = d.run /\ flying' = Reported(t, told) \cup Dispatch(d, t.step)
        /\ effects' = effects
    BY <1>6 DEF FailActivity
  <2>2. t \in Token /\ t.step \in Step
    BY <1>1, <1>6 DEF Token
  <2>3. GoodDecision(d, run)
    BY <1>1, <1>6, <2>2, FailOutcomeKeeps
  <2>4. told \in Report
    BY DEF FailReport, Report
  <2> HIDE DEF d, told
  <2>5. Reported(t, told) \in SUBSET Token
    BY <1>1, <1>6, <2>4, ReportedType
  <2> QED BY <1>1, <2>1, <2>2, <2>3, <2>5, DispatchType DEF Inv, GoodDecision
<1>7. ASSUME NEW t \in flying, CancelActivity(t) PROVE Inv'
  <2>1. Good(Emit(run, TokenEvent(t, "cancelled", {})))
    BY <1>1, <1>7, TokenEmitKeeps DEF ActivityOp
  <2>2. Reported(t, "cancel") \in SUBSET Token
    BY <1>1, <1>7, ReportedType DEF Report
  <2> QED BY <1>1, <1>7, <2>1, <2>2 DEF CancelActivity, Inv
<1>8. ASSUME NEW s \in UnsafeStep, NEW cmd \in Command,
             NEW how \in {"completed", "safe_to_retry", "cancelled"},
             ReconcileActivity(s, cmd, how)
      PROVE  Inv'
  <2> DEFINE home == run.proj.acts[s].home
             n == Len(run.proj.acts[s].attempts)
             new == Emit(run, ActivityEvent("reconciled", home, s, n, cmd, {how}))
  <2>1. s \in Step /\ cmd \in EventCommand /\ {how} \in SUBSET Fact /\ "reconciled" \in ActivityOp
    BY DEF Step, EventCommand, Fact, ActivityOp
  <2>2. home \in Branch \cup {NoBranch} /\ n \in Nat
    BY <1>1, <2>1, ActivityOfGood
  <2>3. Good(new)
    <3> HIDE DEF home, n
    <3> QED BY <1>1, <2>1, <2>2, EmitActivity
  <2>4. run' = new /\ flying' = flying /\ effects' = effects
    BY <1>8 DEF ReconcileActivity
  <2> QED BY <1>1, <2>3, <2>4 DEF Inv
<1> QED BY <1>2, <1>3, <1>4, <1>5, <1>6, <1>7, <1>8 DEF ActivityStep

\* Every operation on the run preserves the inductive invariant.
LEMMA RunStepInv == Inv /\ RunStep => Inv'
<1> SUFFICES ASSUME Inv, RunStep PROVE Inv'
  OBVIOUS
<1>1. /\ Good(run) /\ flying \in SUBSET Token
      /\ effects \in [Step -> [0..MaxEvents -> Nat]]
  BY DEF Inv
<1>2. ASSUME NEW e, EmitOnly(e), Good(Emit(run, e)) PROVE Inv'
  BY <1>1, <1>2 DEF EmitOnly, Inv
<1>3. run.proj.branch \in Branch /\ run.depth \in 0..MaxForks
  BY <1>1 DEF Good, RunState, Projection
<1>4. "none" \in EventCommand /\ {} \in SUBSET Fact /\ {"acked"} \in SUBSET Fact
  BY DEF EventCommand, Fact
<1>5. ASSUME NEW key \in ApprovalKey, RequestApproval(key) PROVE Inv'
  <2> DEFINE id == <<run.proj.branch, key>>
             e == KeyedEvent("requested", id, "none", {})
  <2>1. id \in Branch \X (ApprovalKey \cup CheckpointKey) /\ "requested" \in Op
    BY <1>3 DEF Op
  <2>2. e \in Event /\ e.op = "requested" /\ e.of = run.proj.branch /\ e.key = key
    BY <1>4, <2>1, KeyedEventType
  <2> HIDE DEF e
  <2>3. RunEventFits(run, e)
    BY <1>3, <2>2 DEF RunEventFits, ApprovalId
  <2>4. EmitOnly(e)
    BY <1>5 DEF RequestApproval, e
  <2> QED BY <1>1, <1>2, <2>2, <2>3, <2>4, EmitKeeps
<1>6. ASSUME NEW cmd \in Command, NEW list \in Listings(Pending(run.proj)),
             NEW approved \in SUBSET Pending(run.proj), Resume(cmd, list, approved)
      PROVE  Inv'
  <2>1. Good(run')
    BY <1>6, ResumeKeeps
  <2>2. flying' = flying /\ effects' = effects
    BY <1>6 DEF Resume
  <2> QED BY <1>1, <2>1, <2>2 DEF Inv
<1>7. ASSUME NEW key \in CheckpointKey, CommitCheckpoint(key) PROVE Inv'
  <2> DEFINE id == <<run.proj.branch, key>>
             e == KeyedEvent("committed", id, "none", {})
  <2>1. id \in Branch \X (ApprovalKey \cup CheckpointKey) /\ "committed" \in Op
    BY <1>3 DEF Op
  <2>2. e \in Event /\ e.op = "committed" /\ e.of = run.proj.branch /\ e.key = key
    BY <1>4, <2>1, KeyedEventType
  <2> HIDE DEF e
  <2>3. RunEventFits(run, e)
    BY <1>3, <1>7, <2>2 DEF RunEventFits, CheckpointId, CommitCheckpoint
  <2>4. EmitOnly(e)
    BY <1>7 DEF CommitCheckpoint, e
  <2> QED BY <1>1, <1>2, <2>2, <2>3, <2>4, EmitKeeps
<1>8. ASSUME NEW cmd \in EventCommand,
             NEW op \in {"pause", "complete", "fail", "cancel"},
             EmitOnly(CommandEvent(op, run.depth, cmd, {}, NoCheckpoint))
      PROVE  Inv'
  BY <1>1, <1>2, <1>4, <1>8, CommandEmitKeeps
<1>9. ASSUME NEW cmd \in Command, Pause(cmd) PROVE Inv'
  <2>1. cmd \in EventCommand
    BY DEF EventCommand
  <2> QED BY <1>8, <1>9, <2>1 DEF Pause
<1>10. CASE CompleteRun
  BY <1>4, <1>8, <1>10 DEF CompleteRun
<1>11. CASE FailRun
  BY <1>4, <1>8, <1>11 DEF FailRun
<1>12. CASE CancelRun
  BY <1>4, <1>8, <1>12 DEF CancelRun
<1>13. ASSUME NEW cmd \in Command, NEW ck \in CheckpointId, NEW acked \in BOOLEAN,
              NEW op \in {"fork", "rewind"}
       PROVE  Good(Emit(run, BranchEvent(op, cmd, ck, acked)))
  <2> DEFINE what == IF acked THEN {"acked"} ELSE {}
  <2>1. what \in SUBSET Fact
    BY <1>4
  <2> HIDE DEF what
  <2>2. cmd \in EventCommand /\ ck \in CheckpointId \cup {NoCheckpoint}
    BY DEF EventCommand
  <2>3. Good(Emit(run, CommandEvent(op, run.depth, cmd, what, ck)))
    BY <1>1, <1>13, <2>1, <2>2, CommandEmitKeeps
  <2> QED BY <2>3 DEF BranchEvent, what
<1>14. ASSUME NEW cmd \in Command, NEW ck \in CheckpointId, NEW acked \in BOOLEAN,
              Rewind(cmd, ck, acked)
       PROVE  Inv'
  <2> DEFINE e == BranchEvent("rewind", cmd, ck, acked)
             at == run.ckpts[ck].at
             undone == [s \in Step |-> [i \in 0..MaxEvents |->
                           IF i > at THEN 0 ELSE effects[s][i]]]
  <2>1. Good(Emit(run, e))
    BY <1>13
  <2>2. /\ run' = Emit(run, e) /\ flying' = flying
        /\ effects' \in {effects, undone}
    BY <1>14 DEF Rewind
  <2>3. undone \in [Step -> [0..MaxEvents -> Nat]]
    BY <1>1
  <2> HIDE DEF e, undone
  <2> QED BY <1>1, <2>1, <2>2, <2>3 DEF Inv
<1>15. ASSUME NEW cmd \in Command, NEW ck \in CheckpointId, NEW acked \in BOOLEAN,
              ForkParent(cmd, ck, acked)
       PROVE  Inv'
  BY <1>2, <1>13, <1>15 DEF ForkParent
<1>16. ASSUME NEW cmd \in Command, NEW ck \in CheckpointId, NEW acked \in BOOLEAN,
              ForkChild(cmd, ck, acked)
       PROVE  Inv'
  <2>1. Good(run')
    BY <1>16, ForkChildKeeps
  <2>2. flying' \in SUBSET Token
    <3>1. \A t \in Token : [t EXCEPT !.seq = 0] \in Token
      BY DEF Token
    <3> QED BY <1>1, <1>16, <3>1 DEF ForkChild
  <2>3. effects' \in [Step -> [0..MaxEvents -> Nat]]
    BY <1>16 DEF ForkChild
  <2> QED BY <2>1, <2>2, <2>3 DEF Inv
<1> QED BY <1>5, <1>6, <1>7, <1>9, <1>10, <1>11, <1>12, <1>14, <1>15, <1>16 DEF RunStep

\* The inductive invariant holds in every behaviour.
LEMMA InvHolds == Spec => []Inv
<1>1. Inv /\ [Next]_vars => Inv'
  <2>1. Inv /\ UNCHANGED vars => Inv'
    BY DEF Inv, vars
  <2> QED BY <2>1, ActivityStepInv, RunStepInv DEF Next
<1> QED BY <1>1, InitInv, PTL DEF Spec

\* Type correctness, for every instance: whatever the host, the executors and
\* the operator do, append_event keeps the log, the projection and all the
\* checkpoints well formed.
THEOREM TypeCorrect == Spec => []TypeOK
<1>1. Inv => TypeOK
  BY DEF Inv, Good, TypeOK
<1> QED BY <1>1, InvHolds, PTL

\* The status of a run never hides an open approval, an attempt that awaits
\* reconciliation or, once the run stopped, an attempt that is still running,
\* for any number of activities, approvals, commands, rewinds and forks.
THEOREM StatusIsTruthful == Spec => []StatusTellsTheTruth
<1>1. Inv => StatusTellsTheTruth
  BY DEF Inv, Good, StatusTellsTheTruth
<1> QED BY <1>1, InvHolds, PTL


-----------------------------------------------------------------------------
(* A run that stopped. *)

\* What a stopped run keeps, and what its log may still take.
StaysStopped(old, new) ==
    /\ new.proj.status = old.proj.status
    /\ new.ckpts = old.ckpts
    /\ \A i \in DOMAIN new.log : i > Len(old.log) => new.log[i].op = "reconciled"

\* append_event on a stopped run takes the outcome of a reconciliation, which
\* leaves its status alone, and refuses every other event.
LEMMA StoppedEmit ==
    ASSUME NEW r, Good(r), IsTerminal(r.proj), NEW e \in Event,
           e.op = "reconciled" => e.key \in Step
    PROVE  StaysStopped(r, Emit(r, e))
<1>1. r.log \in Seq(Event) /\ r.proj \in Projection /\ r \in RunState
  BY DEF Good, RunState
<1>2. CASE ~(Fresh(r, e) /\ Legal(r, e))
  BY <1>1, <1>2 DEF Emit, StaysStopped
<1>3. CASE Fresh(r, e) /\ Legal(r, e)
  <2> DEFINE log == Append(r.log, e)
             settled == WithVerdict(r.proj, e, NextSequence(r), ReconciledStatus(e.what),
                                    "safe_to_retry" \in e.what, FALSE)
  <2>1. e.op = "reconciled" /\ LegalReconciled(r, e)
    BY <1>3 DEF Legal, LegalScheduled, LegalStarted, LegalFinished, LegalReconcileRequired,
       LegalRequested, LegalCommitted, LegalPause, LegalBranchOff, LegalComplete, LegalStop,
       EnsureActive, EnsureExecuting, ActiveAndReconciled, IsTerminal, TerminalStatus
  <2>2. Project(r, e) = settled
    BY <2>1 DEF Project, ApplyReconciled
  <2>3. settled.status = r.proj.status
    BY <1>1 DEF WithVerdict, WithActivity, Projection
  <2> HIDE DEF settled
  <2>4. Emit(r, e) = [r EXCEPT !.log = log, !.proj = settled, !.ckpts = r.ckpts]
    BY <1>3, <2>1, <2>2 DEF Emit
  <2>5. /\ Len(log) = Len(r.log) + 1 /\ DOMAIN log = 1..(Len(r.log) + 1)
        /\ log[Len(r.log) + 1] = e /\ Len(r.log) \in Nat
    BY <1>1
  <2> HIDE DEF log
  <2>6. /\ Emit(r, e).proj = settled /\ Emit(r, e).ckpts = r.ckpts /\ Emit(r, e).log = log
    BY <1>1, <2>4 DEF RunState
  <2>7. \A i \in DOMAIN log : i > Len(r.log) => log[i].op = "reconciled"
    <3> TAKE i \in DOMAIN log
    <3> HAVE i > Len(r.log)
    <3>1. i = Len(r.log) + 1
      BY <2>5
    <3> QED BY <2>1, <2>5, <3>1
  <2> QED BY <2>3, <2>6, <2>7 DEF StaysStopped
<1> QED BY <1>2, <1>3

\* A run that stopped stays stopped with the same verdict and the same
\* checkpoints, and all its ledger still takes is the outcome of a
\* reconciliation: ensure_active in apply_event_in_place refuses the rest,
\* whatever late reports and commands arrive.
THEOREM StoppedRunsAreFinal == Spec => StoppedIsFinal
<1>1. ASSUME Inv, IsTerminal(run.proj), run'.depth = run.depth, Next
      PROVE  StaysStopped(run, run')
  <2>1. /\ Good(run) /\ run.log \in Seq(Event) /\ run.depth \in 0..MaxForks
        /\ flying \in SUBSET Token
    BY <1>1 DEF Inv, Good, RunState
  <2>2. /\ ~EnsureActive(run) /\ ~EnsureExecuting(run) /\ ~ActiveAndReconciled(run)
        /\ run.proj.status # "paused"
    BY <1>1 DEF EnsureActive, EnsureExecuting, ActiveAndReconciled, IsTerminal, TerminalStatus
  <2>3. ASSUME run' = run PROVE StaysStopped(run, run')
    BY <2>1, <2>3 DEF StaysStopped
  <2>4. ASSUME NEW op \in {"fork", "rewind", "cancel"}, NEW cmd, NEW what, NEW ck,
               run' = Emit(run, CommandEvent(op, run.depth, cmd, what, ck))
        PROVE  StaysStopped(run, run')
    <3>1. CommandEvent(op, run.depth, cmd, what, ck).op = op
      BY DEF CommandEvent
    <3>2. ~Legal(run, CommandEvent(op, run.depth, cmd, what, ck))
      BY <2>2, <3>1 DEF Legal, LegalBranchOff, LegalStop
    <3> QED BY <2>3, <2>4, <3>2 DEF Emit
  <2>5. CASE ActivityStep
    <3>1. ASSUME NEW s \in UnsafeStep, NEW cmd \in Command,
                 NEW how \in {"completed", "safe_to_retry", "cancelled"},
                 ReconcileActivity(s, cmd, how)
          PROVE  StaysStopped(run, run')
      <4> DEFINE home == run.proj.acts[s].home
                 n == Len(run.proj.acts[s].attempts)
                 e == ActivityEvent("reconciled", home, s, n, cmd, {how})
      <4>1. s \in Step /\ cmd \in EventCommand /\ {how} \in SUBSET Fact
            /\ "reconciled" \in ActivityOp
        BY DEF Step, EventCommand, Fact, ActivityOp
      <4>2. home \in Branch \cup {NoBranch} /\ n \in Nat
        BY <2>1, <4>1, ActivityOfGood
      <4>3. run' = Emit(run, e)
        BY <3>1 DEF ReconcileActivity
      <4>4. e \in Event /\ e.key \in Step
        <5> HIDE DEF home, n
        <5> QED BY <4>1, <4>2, ActivityEventType
      <4> HIDE DEF e
      <4> QED BY <1>1, <2>1, <4>3, <4>4, StoppedEmit
    <3>2. ASSUME NEW t \in flying, Perform(t) \/ Lose(t) PROVE StaysStopped(run, run')
      BY <2>3, <3>2 DEF Perform, Lose
    <3> QED BY <2>2, <2>5, <3>1, <3>2
            DEF ActivityStep, Prepare, CompleteActivity, FailActivity, CancelActivity
  <2>6. CASE RunStep
    <3>1. ASSUME NEW cmd \in Command, NEW ck \in CheckpointId, NEW acked \in BOOLEAN,
                 Rewind(cmd, ck, acked) \/ ForkParent(cmd, ck, acked)
          PROVE  StaysStopped(run, run')
      BY <2>4, <3>1 DEF Rewind, ForkParent, EmitOnly, BranchEvent
    <3>2. ASSUME NEW cmd \in Command, NEW ck \in CheckpointId, NEW acked \in BOOLEAN,
                 ForkChild(cmd, ck, acked)
          PROVE  FALSE
      <4>1. run'.depth = run.depth + 1
        BY <3>2 DEF ForkChild, Child
      <4> QED BY <1>1, <2>1, <4>1
    <3>3. CASE CancelRun
      BY <2>4, <3>3 DEF CancelRun, EmitOnly
    <3> QED BY <2>2, <2>6, <3>1, <3>2, <3>3
            DEF RunStep, RequestApproval, Resume, CommitCheckpoint, Pause, CompleteRun, FailRun
  <2> QED BY <1>1, <2>5, <2>6 DEF Next
<1>2. ASSUME Inv, IsTerminal(run.proj), UNCHANGED vars PROVE StaysStopped(run, run')
  BY <1>2 DEF vars, Inv, Good, RunState, StaysStopped
<1>3. Inv /\ [Next]_vars =>
        [IsTerminal(run.proj) /\ run'.depth = run.depth =>
           /\ run'.proj.status = run.proj.status
           /\ run'.ckpts = run.ckpts
           /\ \A i \in DOMAIN run'.log : i > Len(run.log) => run'.log[i].op = "reconciled"]_vars
  BY <1>1, <1>2 DEF StaysStopped
<1> QED BY <1>3, InvHolds, PTL DEF Spec, StoppedIsFinal


-----------------------------------------------------------------------------
(* The ledger under a host that checkpoints only settled activities        *)
(* (CheckpointWhenSettled).  Then a rewind or a fork restores activities   *)
(* that do not move any more, and what the log says of an activity is what *)
(* the projection shows of it: this is LedgerFacts.                        *)

\* An activity event other than the scheduling, about the activity of step s
\* that was scheduled on branch home.
Mentions(e, home, s) == /\ e.op \in ActivityOp \ {"scheduled"}
                        /\ e.of = home /\ e.key = s

\* The activity was scheduled in this run.
ScheduledHere(r, home, s) ==
    \E i \in DOMAIN r.log : /\ r.log[i].op = "scheduled" /\ r.log[i].of = home
                            /\ r.log[i].key = s /\ r.log[i].n = 0 /\ r.log[i].cmd = "none"

\* The activity has an outcome that no later attempt can change.
Final(a) == /\ HasAttempt(a)
            /\ \/ Latest(a).status \in {"completed", "cancelled"}
               \/ Latest(a).status = "failed" /\ ~Latest(a).retryable

\* The log of r says nothing about attempts that the activity does not show,
\* and of a running attempt only that it started.
LogFits(r, a, s) ==
    a.home # NoBranch =>
      \A i \in DOMAIN r.log : Mentions(r.log[i], a.home, s) =>
         /\ r.log[i].n <= Len(a.attempts)
         /\ LatestIs(a, "running") /\ r.log[i].n = Len(a.attempts)
              => r.log[i].op = "started"

\* The activity passes validate_projection_keyed_identities.
ValidActivity(a, s) == \A n \in DOMAIN a.attempts : ValidAttempt(s, a.attempts, n)

\* What holds of an activity of the projection or of a checkpoint.
ActivityFacts(r, a, s) ==
    /\ HasAttempt(a) => a.home # NoBranch
    /\ a.home # NoBranch => a.home[1] <= r.depth
    /\ a.home # NoBranch /\ a.home[1] = r.depth => ScheduledHere(r, a.home, s)
    /\ ValidActivity(a, s)
    /\ LogFits(r, a, s)
    /\ HasAttempt(a) => Final(a) \/ Latest(a).started <= Len(r.log)

\* A checkpoint's activities are final, and one that the run still shows does
\* not move any more.
CheckpointFacts(r, ck) ==
    ck.at # 0 =>
      /\ ck.at <= Len(r.log)
      /\ \A s \in Step :
           /\ ActivityFacts(r, ck.proj.acts[s], s)
           /\ ck.proj.acts[s].home # NoBranch =>
                /\ Final(ck.proj.acts[s])
                /\ ck.proj.acts[s].home = r.proj.acts[s].home => Final(r.proj.acts[s])

\* An activity of this run was scheduled before anything else was said of it.
SchedulingComesFirst(r) ==
    \A i \in DOMAIN r.log :
      r.log[i].op \in ActivityOp \ {"scheduled"} /\ r.log[i].of[1] = r.depth
        => ScheduledHere(r, r.log[i].of, r.log[i].key)

\* The facts about the log, the projection and the checkpoints of a run.
LedgerFacts(r) ==
    /\ Good(r)
    /\ r.proj.branch[1] = r.depth
    /\ \A s \in Step : ActivityFacts(r, r.proj.acts[s], s)
    /\ \A c \in CheckpointId : CheckpointFacts(r, r.ckpts[c])
    /\ SchedulingComesFirst(r)

\* The log of new is the log of old with more events.
Extends(old, new) ==
    /\ new.depth = old.depth
    /\ Len(old.log) <= Len(new.log)
    /\ \A i \in DOMAIN old.log : i \in DOMAIN new.log /\ new.log[i] = old.log[i]

\* The types of a good run state's parts, for the leaves below.
LEMMA GoodParts ==
    ASSUME NEW r, Good(r)
    PROVE  /\ r \in RunState /\ r.log \in Seq(Event) /\ Len(r.log) \in Nat
           /\ DOMAIN r.log = 1..Len(r.log)
           /\ \A i \in DOMAIN r.log : r.log[i] \in Event
           /\ r.proj \in Projection /\ r.depth \in 0..MaxForks
           /\ r.ckpts \in [CheckpointId -> Checkpoint]
           /\ \A s \in Step : r.proj.acts[s] \in Activity
           /\ \A c \in CheckpointId : \A s \in Step : r.ckpts[c].proj.acts[s] \in Activity
BY DEF Good, RunState, Projection, Checkpoint

\* The parts of an activity.
LEMMA ActivityParts ==
    ASSUME NEW a \in Activity
    PROVE  /\ a.attempts \in Seq(Attempt) /\ Len(a.attempts) \in Nat
           /\ a.home \in Branch \cup {NoBranch}
           /\ DOMAIN a.attempts = 1..Len(a.attempts)
           /\ \A n \in DOMAIN a.attempts : a.attempts[n] \in Attempt
           /\ HasAttempt(a) <=> Len(a.attempts) # 0
           /\ HasAttempt(a) => /\ Len(a.attempts) \in DOMAIN a.attempts
                               /\ Latest(a) \in Attempt /\ Latest(a).started \in Nat
                               /\ Latest(a) = a.attempts[Len(a.attempts)]
<1>1. a.attempts \in Seq(Attempt) /\ a.home \in Branch \cup {NoBranch}
  BY DEF Activity
<1>2. HasAttempt(a) <=> Len(a.attempts) # 0
  BY <1>1 DEF HasAttempt
<1>3. HasAttempt(a) => Len(a.attempts) \in DOMAIN a.attempts
  BY <1>1, <1>2
<1>4. \A n \in DOMAIN a.attempts : a.attempts[n] \in Attempt
  BY <1>1
<1>5. HasAttempt(a) => Latest(a) \in Attempt
  BY <1>3, <1>4 DEF Latest
<1> QED BY <1>1, <1>2, <1>3, <1>4, <1>5 DEF Latest, Attempt

\* Events that say nothing about an activity leave its facts as they are.
LEMMA FactsKept ==
    ASSUME NEW r, NEW r2, Len(r.log) \in Nat, Len(r2.log) \in Nat, Extends(r, r2),
           NEW s, NEW a \in Activity, ActivityFacts(r, a, s),
           \A i \in DOMAIN r2.log \ DOMAIN r.log :
               a.home # NoBranch => ~Mentions(r2.log[i], a.home, s)
    PROVE  ActivityFacts(r2, a, s)
<1>1. HasAttempt(a) => Latest(a).started \in Nat
  BY ActivityParts
<1>2. LogFits(r2, a, s)
  BY DEF LogFits, ActivityFacts, Extends
<1>3. a.home # NoBranch /\ a.home[1] = r2.depth => ScheduledHere(r2, a.home, s)
  BY DEF ScheduledHere, ActivityFacts, Extends
<1>4. a.home # NoBranch => a.home[1] <= r2.depth
  BY DEF ActivityFacts, Extends
<1> QED BY <1>1, <1>2, <1>3, <1>4 DEF ActivityFacts, Extends

\* An event at the end of the log extends it.
LEMMA AppendExtends ==
    ASSUME NEW r, NEW r2, r.log \in Seq(Event), NEW e \in Event,
           r2.log = Append(r.log, e), r2.depth = r.depth
    PROVE  /\ Extends(r, r2)
           /\ Len(r2.log) = Len(r.log) + 1
           /\ DOMAIN r2.log = 1..(Len(r.log) + 1)
           /\ r2.log[Len(r.log) + 1] = e
           /\ DOMAIN r2.log \ DOMAIN r.log = {Len(r.log) + 1}
<1>1. /\ Len(r2.log) = Len(r.log) + 1 /\ Len(r.log) \in Nat
      /\ DOMAIN r2.log = 1..(Len(r.log) + 1) /\ DOMAIN r.log = 1..Len(r.log)
      /\ r2.log[Len(r.log) + 1] = e
      /\ \A i \in DOMAIN r.log : r2.log[i] = r.log[i]
  OBVIOUS
<1>2. DOMAIN r2.log \ DOMAIN r.log = {Len(r.log) + 1}
  BY <1>1
<1> QED BY <1>1, <1>2 DEF Extends

\* Events about other things than activities, with the activities that the
\* run and the checkpoints then show.
LEMMA OtherEventsKeep ==
    ASSUME NEW r, LedgerFacts(r), NEW r2, Good(r2), Extends(r, r2),
           \A i \in DOMAIN r2.log \ DOMAIN r.log : r2.log[i].op \notin ActivityOp,
           r2.proj.branch[1] = r2.depth,
           \A s \in Step : ActivityFacts(r, r2.proj.acts[s], s),
           \A c \in CheckpointId : r2.ckpts[c].at # 0 =>
              /\ r2.ckpts[c].at <= Len(r2.log)
              /\ \A s \in Step :
                   /\ ActivityFacts(r, r2.ckpts[c].proj.acts[s], s)
                   /\ r2.ckpts[c].proj.acts[s].home # NoBranch =>
                        /\ Final(r2.ckpts[c].proj.acts[s])
                        /\ r2.ckpts[c].proj.acts[s].home = r2.proj.acts[s].home
                             => Final(r2.proj.acts[s])
    PROVE  LedgerFacts(r2)
<1>1. Good(r) /\ Len(r.log) \in Nat /\ Len(r2.log) \in Nat
  BY GoodParts DEF LedgerFacts
<1>2. ASSUME NEW s \in Step, NEW a \in Activity, ActivityFacts(r, a, s)
      PROVE  ActivityFacts(r2, a, s)
  <2>1. \A i \in DOMAIN r2.log \ DOMAIN r.log : ~Mentions(r2.log[i], a.home, s)
    BY DEF Mentions
  <2> QED BY <1>1, <1>2, <2>1, FactsKept
<1>3. \A s \in Step : ActivityFacts(r2, r2.proj.acts[s], s)
  BY <1>2, GoodParts
<1>4. \A c \in CheckpointId : CheckpointFacts(r2, r2.ckpts[c])
  BY <1>2, GoodParts DEF CheckpointFacts
<1>5. SchedulingComesFirst(r2)
  <2> SUFFICES ASSUME NEW i \in DOMAIN r2.log, r2.log[i].op \in ActivityOp \ {"scheduled"},
                      r2.log[i].of[1] = r2.depth
               PROVE  ScheduledHere(r2, r2.log[i].of, r2.log[i].key)
    BY DEF SchedulingComesFirst
  <2>1. i \in DOMAIN r.log /\ r.log[i] = r2.log[i] /\ r.depth = r2.depth
    BY DEF Extends
  <2>2. ScheduledHere(r, r2.log[i].of, r2.log[i].key)
    BY <2>1 DEF LedgerFacts, SchedulingComesFirst
  <2> QED BY <2>2 DEF ScheduledHere, Extends
<1> QED BY <1>3, <1>4, <1>5 DEF LedgerFacts

\* No checkpoint shows the activity.
Unkept(r, home, s) ==
    \A c \in CheckpointId : r.ckpts[c].at # 0 => r.ckpts[c].proj.acts[s].home # home

\* new differs from old by one event about the activity of step s.
MovesOnly(old, new, s) ==
    /\ Extends(old, new)
    /\ new.ckpts = old.ckpts /\ new.proj.branch = old.proj.branch
    /\ \A u \in Step \ {s} : new.proj.acts[u] = old.proj.acts[u]

\* One activity event, with what holds of the activity after it.
LEMMA ActivityEventFacts ==
    ASSUME NEW r, LedgerFacts(r), NEW e \in Event, e.op \in ActivityOp, e.key \in Step,
           NEW r2, Good(r2), r2.log = Append(r.log, e), MovesOnly(r, r2, e.key),
           r2.proj.acts[e.key].home = e.of,
           e.of = NoBranch \/ Unkept(r, e.of, e.key),
           e.op # "scheduled" => e.of # NoBranch,
           ActivityFacts(r2, r2.proj.acts[e.key], e.key)
    PROVE  LedgerFacts(r2)
<1>1. /\ Good(r) /\ Len(r.log) \in Nat /\ Len(r2.log) \in Nat /\ r.log \in Seq(Event)
      /\ Extends(r, r2) /\ r2.depth = r.depth
  BY GoodParts DEF LedgerFacts, MovesOnly, Extends
<1>2. \A i \in DOMAIN r2.log \ DOMAIN r.log : r2.log[i] = e
  BY <1>1, AppendExtends
<1>3. ASSUME NEW s \in Step, NEW a \in Activity, ActivityFacts(r, a, s),
             s # e.key \/ a.home # e.of \/ e.of = NoBranch
      PROVE  ActivityFacts(r2, a, s)
  <2>1. \A i \in DOMAIN r2.log \ DOMAIN r.log :
            a.home # NoBranch => ~Mentions(r2.log[i], a.home, s)
    BY <1>2, <1>3 DEF Mentions
  <2> QED BY <1>1, <1>3, <2>1, FactsKept
<1>4. \A s \in Step : ActivityFacts(r2, r2.proj.acts[s], s)
  <2> TAKE s \in Step
  <2>1. CASE s = e.key
    BY <2>1
  <2>2. CASE s # e.key
    <3>1. r2.proj.acts[s] = r.proj.acts[s] /\ r.proj.acts[s] \in Activity
      BY <1>1, <2>2, GoodParts DEF MovesOnly
    <3>2. ActivityFacts(r, r.proj.acts[s], s)
      BY DEF LedgerFacts
    <3> QED BY <1>3, <2>2, <3>1, <3>2
  <2> QED BY <2>1, <2>2
<1>5. \A c \in CheckpointId : CheckpointFacts(r2, r2.ckpts[c])
  <2> TAKE c \in CheckpointId
  <2> DEFINE ck == r.ckpts[c]
  <2>1. r2.ckpts[c] = ck /\ CheckpointFacts(r, ck)
    BY DEF MovesOnly, LedgerFacts
  <2> SUFFICES ASSUME ck.at # 0 PROVE CheckpointFacts(r2, ck)
    BY <2>1 DEF CheckpointFacts
  <2>2. ck.at <= Len(r2.log)
    <3>1. ck.at \in Nat /\ ck.at <= Len(r.log)
      BY <1>1, <2>1, GoodParts DEF CheckpointFacts, Checkpoint
    <3> QED BY <1>1, <3>1 DEF Extends
  <2>3. ASSUME NEW s \in Step
        PROVE  /\ ActivityFacts(r2, ck.proj.acts[s], s)
               /\ ck.proj.acts[s].home # NoBranch =>
                    /\ Final(ck.proj.acts[s])
                    /\ ck.proj.acts[s].home = r2.proj.acts[s].home => Final(r2.proj.acts[s])
    <3>1. /\ ck.proj.acts[s] \in Activity /\ ActivityFacts(r, ck.proj.acts[s], s)
          /\ ck.proj.acts[s].home # NoBranch =>
               /\ Final(ck.proj.acts[s])
               /\ ck.proj.acts[s].home = r.proj.acts[s].home => Final(r.proj.acts[s])
      BY <1>1, <2>1, GoodParts DEF CheckpointFacts
    <3>2. s # e.key \/ ck.proj.acts[s].home # e.of \/ e.of = NoBranch
      BY DEF Unkept
    <3>3. ActivityFacts(r2, ck.proj.acts[s], s)
      BY <1>3, <3>1, <3>2
    <3>4. s # e.key => r2.proj.acts[s] = r.proj.acts[s]
      BY DEF MovesOnly
    <3> QED BY <3>1, <3>2, <3>3, <3>4
  <2> QED BY <2>2, <2>3 DEF CheckpointFacts
<1>6. SchedulingComesFirst(r2)
  <2> SUFFICES ASSUME NEW i \in DOMAIN r2.log, r2.log[i].op \in ActivityOp \ {"scheduled"},
                      r2.log[i].of[1] = r2.depth
               PROVE  ScheduledHere(r2, r2.log[i].of, r2.log[i].key)
    BY DEF SchedulingComesFirst
  <2>1. CASE i \in DOMAIN r.log
    <3>1. r.log[i] = r2.log[i]
      BY <1>1, <2>1 DEF Extends
    <3>2. ScheduledHere(r, r2.log[i].of, r2.log[i].key)
      BY <1>1, <2>1, <3>1 DEF LedgerFacts, SchedulingComesFirst
    <3> QED BY <1>1, <3>2 DEF ScheduledHere, Extends
  <2>2. CASE i \notin DOMAIN r.log
    <3>1. r2.log[i] = e /\ e.op # "scheduled" /\ e.of # NoBranch
      BY <1>2, <2>2
    <3> QED BY <3>1 DEF ActivityFacts
  <2> QED BY <2>1, <2>2
<1>7. r2.proj.branch[1] = r2.depth
  BY <1>1 DEF MovesOnly, LedgerFacts
<1> QED BY <1>4, <1>5, <1>6, <1>7 DEF LedgerFacts

\* What append_event assigns for an activity event that it takes.
LEMMA EmitTaken ==
    ASSUME NEW r, Good(r), NEW e \in Event, e.op \in ActivityOp, e.key \in Step,
           Fresh(r, e), Legal(r, e)
    PROVE  /\ Good(Emit(r, e))
           /\ Emit(r, e).depth = r.depth
           /\ Emit(r, e).log = Append(r.log, e)
           /\ Emit(r, e).proj = Project(r, e)
           /\ Emit(r, e).ckpts = r.ckpts
<1> DEFINE log == Append(r.log, e)
           proj == Project(r, e)
           new == [r EXCEPT !.log = log, !.proj = proj, !.ckpts = r.ckpts]
<1>1. Good(Emit(r, e)) /\ Emit(r, e).depth = r.depth
  BY EmitKeeps
<1>2. Emit(r, e) = new
  BY DEF Emit, ActivityOp
<1>3. r \in RunState
  BY DEF Good
<1> HIDE DEF log, proj
<1>4. new.log = log /\ new.proj = proj /\ new.ckpts = r.ckpts
  BY <1>3 DEF RunState
<1> QED BY <1>1, <1>2, <1>4 DEF log, proj

\* The activity with another n-th attempt.
Rejudged(activity, n, attempt) ==
    [activity EXCEPT !.attempts = [@ EXCEPT ![n] = attempt]]

\* It differs in that attempt alone.
LEMMA RejudgedShape ==
    ASSUME NEW activity \in Activity, NEW n \in DOMAIN activity.attempts,
           NEW attempt \in Attempt
    PROVE  /\ Rejudged(activity, n, attempt) \in Activity
           /\ Rejudged(activity, n, attempt).home = activity.home
           /\ Len(Rejudged(activity, n, attempt).attempts) = Len(activity.attempts)
           /\ Rejudged(activity, n, attempt).attempts[n] = attempt
           /\ \A m \in DOMAIN activity.attempts \ {n} :
                  Rejudged(activity, n, attempt).attempts[m] = activity.attempts[m]
<1> DEFINE seqn == [activity.attempts EXCEPT ![n] = attempt]
<1>1. activity.attempts \in Seq(Attempt)
  BY DEF Activity
<1>2. /\ seqn \in Seq(Attempt)
      /\ Len(seqn) = Len(activity.attempts)
      /\ seqn[n] = attempt
      /\ \A m \in DOMAIN activity.attempts \ {n} : seqn[m] = activity.attempts[m]
  BY <1>1
<1>3. Rejudged(activity, n, attempt) = [activity EXCEPT !.attempts = seqn]
  BY DEF Rejudged
<1> HIDE DEF seqn
<1> QED BY <1>2, <1>3 DEF Activity

\* Only the latest attempt may be in another state than failed.
LEMMA OnlyLatestMoves ==
    ASSUME NEW s, NEW a \in Activity, ValidActivity(a, s), NEW n \in DOMAIN a.attempts,
           a.attempts[n].status # "failed" \/ ~a.attempts[n].retryable
    PROVE  n = Len(a.attempts) /\ HasAttempt(a) /\ Latest(a) = a.attempts[n]
<1>1. Len(a.attempts) \in Nat /\ DOMAIN a.attempts = 1..Len(a.attempts)
  BY ActivityParts
<1>2. ~(n < Len(a.attempts))
  BY DEF ValidActivity, ValidAttempt
<1> QED BY <1>1, <1>2, ActivityParts DEF Latest

\* An activity that no checkpoint shows, and whose latest attempt started in
\* this run: an event about that attempt cannot contradict a checkpoint.
Movable(r, s) ==
    LET a == r.proj.acts[s] IN
    /\ a.home # NoBranch /\ HasAttempt(a)
    /\ Unkept(r, a.home, s)
    /\ Latest(a).started <= Len(r.log)

\* An activity that is not final is shown by no checkpoint.
LEMMA NotFinalIsUnkept ==
    ASSUME NEW r, LedgerFacts(r), NEW s \in Step, r.proj.acts[s].home # NoBranch,
           ~Final(r.proj.acts[s])
    PROVE  /\ Unkept(r, r.proj.acts[s].home, s)
           /\ HasAttempt(r.proj.acts[s]) => Movable(r, s)
<1>1. Unkept(r, r.proj.acts[s].home, s)
  BY DEF Unkept, LedgerFacts, CheckpointFacts
<1>2. ActivityFacts(r, r.proj.acts[s], s)
  BY DEF LedgerFacts
<1> QED BY <1>1, <1>2 DEF Movable, ActivityFacts

\* A final judgement that validate_projection_keyed_identities accepts.
SoundVerdict(v, started, seq) ==
    /\ v \in Attempt /\ v.status # "running"
    /\ v.started = started /\ v.finished = seq
    /\ v.status \in {"completed", "cancelled"} => ~v.retryable /\ ~v.ambiguous
    /\ v.status = "reconcile_required" => v.ambiguous

\* What such a judgement of the latest attempt makes of a valid activity.
LEMMA JudgedActivity ==
    ASSUME NEW s, NEW old \in Activity, ValidActivity(old, s), HasAttempt(old),
           NEW seq \in Nat, Latest(old).started <= seq, seq # 0,
           NEW v, SoundVerdict(v, Latest(old).started, seq),
           NEW upd \in Activity, Len(upd.attempts) = Len(old.attempts),
           upd.attempts[Len(old.attempts)] = v,
           \A n \in DOMAIN old.attempts \ {Len(old.attempts)} :
               upd.attempts[n] = old.attempts[n]
    PROVE  /\ HasAttempt(upd) /\ ValidActivity(upd, s) /\ Latest(upd) = v
           /\ \A n \in DOMAIN upd.attempts : upd.attempts[n].status # "running"
<1> DEFINE last == Len(old.attempts)
<1>1. /\ DOMAIN old.attempts = 1..last /\ DOMAIN upd.attempts = 1..last
      /\ last \in 1..last /\ last \in Nat /\ HasAttempt(upd)
      /\ Latest(old) = old.attempts[last] /\ Latest(upd) = v
      /\ Latest(old).started \in Nat
  BY ActivityParts DEF Latest
<1> HIDE DEF last
<1>3. ASSUME NEW n \in 1..last PROVE ValidAttempt(s, upd.attempts, n)
  <2>1. ValidAttempt(s, old.attempts, n)
    BY <1>1, <1>3 DEF ValidActivity
  <2>2. Len(upd.attempts) = last /\ Len(old.attempts) = last
    BY DEF last
  <2>3. CASE n = last
    <3>1. upd.attempts[n] = v /\ old.attempts[n] = Latest(old)
      BY <1>1, <2>3 DEF last
    <3>2. v.started > 0
      BY <2>1, <3>1 DEF ValidAttempt, SoundVerdict
    <3>3. seq >= v.started /\ ~(n < last)
      BY <1>1, <2>3 DEF SoundVerdict
    <3> QED BY <2>2, <3>1, <3>2, <3>3 DEF ValidAttempt, SoundVerdict
  <2>4. CASE n # last
    <3>1. upd.attempts[n] = old.attempts[n]
      BY <1>1, <2>2, <2>4
    <3> QED BY <2>1, <2>2, <3>1 DEF ValidAttempt
  <2> QED BY <2>3, <2>4
<1>4. ValidActivity(upd, s)
  BY <1>1, <1>3 DEF ValidActivity
<1>5. ASSUME NEW n \in DOMAIN upd.attempts PROVE upd.attempts[n].status # "running"
  <2>1. CASE n = last
    BY <1>1, <2>1 DEF last, SoundVerdict
  <2>2. CASE n # last
    <3>1. n = Len(upd.attempts) \/ upd.attempts[n].status = "failed"
      BY <1>4, OnlyLatestMoves
    <3> QED BY <2>2, <3>1 DEF last
  <2> QED BY <2>1, <2>2
<1> QED BY <1>1, <1>4, <1>5

\* new differs from old by the verdict v on the latest attempt of step s.
Ruled(old, new, s, v) ==
    /\ LedgerFacts(new) /\ MovesOnly(old, new, s) /\ Movable(new, s)
    /\ new.proj.acts[s].home = old.proj.acts[s].home
    /\ Len(new.proj.acts[s].attempts) = Len(old.proj.acts[s].attempts)
    /\ HasAttempt(new.proj.acts[s])
    /\ Latest(new.proj.acts[s]) = v
    /\ \A n \in DOMAIN new.proj.acts[s].attempts :
           new.proj.acts[s].attempts[n].status # "running"

\* A verdict on the latest attempt of such an activity.
LEMMA VerdictFacts ==
    ASSUME NEW r, LedgerFacts(r), NEW e \in Event, e.key \in Step,
           e.op \in ActivityOp \ {"scheduled", "started"},
           Movable(r, e.key), e.of = r.proj.acts[e.key].home,
           e.n = Len(r.proj.acts[e.key].attempts), Fresh(r, e), Legal(r, e),
           NEW v, SoundVerdict(v, Latest(r.proj.acts[e.key]).started, NextSequence(r)),
           Project(r, e).branch = r.proj.branch,
           Project(r, e).acts =
               WithActivity(r.proj, e.key, Rejudged(r.proj.acts[e.key], e.n, v)).acts
    PROVE  Ruled(r, Emit(r, e), e.key, v)
<1> DEFINE r2 == Emit(r, e)
           seq == NextSequence(r)
           given == WithActivity(r.proj, e.key, Rejudged(r.proj.acts[e.key], e.n, v))
<1>1. /\ Good(r) /\ r.log \in Seq(Event) /\ Len(r.log) \in Nat /\ r.proj \in Projection
      /\ r.proj.acts[e.key] \in Activity /\ ActivityFacts(r, r.proj.acts[e.key], e.key)
  BY GoodParts DEF LedgerFacts
<1>2. /\ Good(r2) /\ r2.depth = r.depth /\ r2.log = Append(r.log, e)
      /\ r2.proj = Project(r, e) /\ r2.ckpts = r.ckpts
  BY <1>1, EmitTaken
<1>3. seq \in Nat /\ seq = Len(r.log) + 1
  BY <1>1 DEF NextSequence
<1> HIDE DEF seq
<1>4. PICK old : old = r.proj.acts[e.key]
  OBVIOUS
<1>5. /\ HasAttempt(old) /\ old \in Activity /\ ActivityFacts(r, old, e.key)
      /\ old.home # NoBranch /\ old.home = e.of /\ Unkept(r, old.home, e.key)
      /\ Latest(old).started <= Len(r.log) /\ e.n = Len(old.attempts)
  BY <1>1, <1>4 DEF Movable
<1>6. /\ e.n \in DOMAIN old.attempts /\ Latest(old).started \in Nat /\ Len(old.attempts) \in Nat
  BY <1>5, ActivityParts
<1>7. PICK upd : upd = given.acts[e.key]
  OBVIOUS
<1>8. /\ upd \in Activity /\ upd.home = old.home
      /\ Len(upd.attempts) = Len(old.attempts)
      /\ upd.attempts[e.n] = v
      /\ \A n \in DOMAIN old.attempts \ {e.n} : upd.attempts[n] = old.attempts[n]
      /\ \A u \in Step \ {e.key} : given.acts[u] = r.proj.acts[u]
  <2>1. r.proj \in Projection /\ v \in Attempt
    BY <1>1 DEF SoundVerdict
  <2>2. given = WithActivity(r.proj, e.key, Rejudged(old, e.n, v))
    BY <1>4
  <2> HIDE DEF given
  <2>3. /\ Rejudged(old, e.n, v) \in Activity
        /\ Rejudged(old, e.n, v).home = old.home
        /\ Len(Rejudged(old, e.n, v).attempts) = Len(old.attempts)
        /\ Rejudged(old, e.n, v).attempts[e.n] = v
        /\ \A m \in DOMAIN old.attempts \ {e.n} :
              Rejudged(old, e.n, v).attempts[m] = old.attempts[m]
    BY <1>5, <1>6, <2>1, RejudgedShape
  <2>4. /\ given.acts[e.key] = Rejudged(old, e.n, v)
        /\ \A u \in Step \ {e.key} : given.acts[u] = r.proj.acts[u]
    BY <2>1, <2>2, <2>3, WithActivityType
  <2> QED BY <1>7, <2>3, <2>4
<1> HIDE DEF given
<1>9. /\ r2.proj.acts[e.key] = upd /\ r2.proj.branch = r.proj.branch
      /\ \A u \in Step \ {e.key} : r2.proj.acts[u] = r.proj.acts[u]
  BY <1>2, <1>7, <1>8 DEF given, seq
<1> HIDE DEF r2
<1>10. /\ Extends(r, r2) /\ Len(r2.log) = Len(r.log) + 1
       /\ DOMAIN r2.log \ DOMAIN r.log = {Len(r.log) + 1} /\ r2.log[Len(r.log) + 1] = e
  BY <1>1, <1>2, AppendExtends
<1>11. MovesOnly(r, r2, e.key)
  BY <1>2, <1>9, <1>10 DEF MovesOnly
<1>12. /\ HasAttempt(upd) /\ ValidActivity(upd, e.key) /\ Latest(upd) = v
       /\ v.started = Latest(old).started /\ v.status # "running"
       /\ \A n \in DOMAIN upd.attempts : upd.attempts[n].status # "running"
  <2>1. ValidActivity(old, e.key) /\ Latest(old).started <= seq /\ seq # 0
    BY <1>1, <1>3, <1>5, <1>6 DEF ActivityFacts
  <2>2. SoundVerdict(v, Latest(old).started, seq)
    BY <1>4 DEF seq
  <2>3. v.started = Latest(old).started /\ v.status # "running"
    BY <2>2 DEF SoundVerdict
  <2>4. /\ seq \in Nat /\ old \in Activity /\ HasAttempt(old) /\ upd \in Activity
        /\ Len(upd.attempts) = Len(old.attempts)
        /\ upd.attempts[Len(old.attempts)] = v
        /\ \A n \in DOMAIN old.attempts \ {Len(old.attempts)} :
               upd.attempts[n] = old.attempts[n]
    BY <1>3, <1>5, <1>8
  <2>5. /\ HasAttempt(upd) /\ ValidActivity(upd, e.key) /\ Latest(upd) = v
        /\ \A n \in DOMAIN upd.attempts : upd.attempts[n].status # "running"
    BY <2>1, <2>2, <2>4, JudgedActivity
  <2> QED BY <2>3, <2>5
<1>13. LogFits(r2, upd, e.key)
  <2> SUFFICES ASSUME NEW i \in DOMAIN r2.log, Mentions(r2.log[i], upd.home, e.key)
               PROVE  r2.log[i].n <= Len(upd.attempts) /\ ~LatestIs(upd, "running")
    BY DEF LogFits
  <2>1. ~LatestIs(upd, "running")
    BY <1>12 DEF LatestIs
  <2>2. CASE i \in DOMAIN r.log
    BY <1>5, <1>8, <1>10, <2>1, <2>2 DEF Extends, ActivityFacts, LogFits
  <2>3. CASE i \notin DOMAIN r.log
    <3>1. r2.log[i] = e
      BY <1>10, <2>3
    <3> QED BY <1>5, <1>6, <1>8, <2>1, <3>1
  <2> QED BY <2>2, <2>3
<1>14. ActivityFacts(r2, upd, e.key)
  <2>1. upd.home[1] = r2.depth => ScheduledHere(r2, upd.home, e.key)
    <3>1. upd.home[1] = r2.depth => ScheduledHere(r, upd.home, e.key)
      BY <1>2, <1>5, <1>8 DEF ActivityFacts
    <3> QED BY <1>10, <3>1 DEF ScheduledHere, Extends
  <2>2. Latest(upd).started <= Len(r2.log)
    BY <1>1, <1>5, <1>6, <1>10, <1>12
  <2>3. upd.home[1] <= r2.depth
    BY <1>2, <1>5, <1>8 DEF ActivityFacts
  <2> QED BY <1>5, <1>8, <1>12, <1>13, <2>1, <2>2, <2>3 DEF ActivityFacts
<1>15. LedgerFacts(r2)
  BY <1>1, <1>2, <1>5, <1>8, <1>9, <1>11, <1>14, ActivityEventFacts
<1>16. Movable(r2, e.key)
  <2>1. Unkept(r2, upd.home, e.key)
    BY <1>2, <1>5, <1>8 DEF Unkept
  <2>2. Latest(upd).started <= Len(r2.log)
    BY <1>1, <1>5, <1>6, <1>10, <1>12
  <2> QED BY <1>5, <1>8, <1>9, <1>12, <2>1, <2>2 DEF Movable
<1> QED BY <1>4, <1>8, <1>9, <1>11, <1>12, <1>15, <1>16 DEF r2, Ruled

\* new differs from old by another attempt of step s.
Began(old, new, s) ==
    /\ LedgerFacts(new) /\ MovesOnly(old, new, s)
    /\ new.proj.acts[s].home = old.proj.acts[s].home
    /\ Len(new.proj.acts[s].attempts) = Len(old.proj.acts[s].attempts) + 1
    /\ LatestIs(new.proj.acts[s], "running")
    /\ \A n \in DOMAIN old.proj.acts[s].attempts :
           new.proj.acts[s].attempts[n] = old.proj.acts[s].attempts[n]

\* A legal event about an attempt names the latest attempt of its activity,
\* whenever the named attempt is running or waits for a reconciliation.
LEMMA NamedIsLatest ==
    ASSUME NEW r, LedgerFacts(r), NEW e \in Event, e.key \in Step, AttemptFound(r, e),
           AttemptOf(r, e).status \in {"running", "reconcile_required"}
    PROVE  /\ e.of = r.proj.acts[e.key].home
           /\ e.n = Len(r.proj.acts[e.key].attempts)
           /\ LatestIs(r.proj.acts[e.key], AttemptOf(r, e).status)
           /\ Movable(r, e.key)
<1>1. PICK old : old = r.proj.acts[e.key]
  OBVIOUS
<1>2. Good(r) /\ old \in Activity /\ ActivityFacts(r, old, e.key)
  BY <1>1, GoodParts DEF LedgerFacts
<1>3. /\ e.of = old.home /\ e.n \in DOMAIN old.attempts
      /\ old.attempts[e.n].status = AttemptOf(r, e).status
  BY <1>1 DEF AttemptFound, AttemptOf, ActivityOf
<1>4. e.n = Len(old.attempts) /\ HasAttempt(old) /\ Latest(old) = old.attempts[e.n]
  BY <1>2, <1>3, OnlyLatestMoves DEF ActivityFacts
<1>5. LatestIs(old, AttemptOf(r, e).status) /\ ~Final(old) /\ old.home # NoBranch
  BY <1>2, <1>3, <1>4 DEF LatestIs, Final, ActivityFacts
<1>6. Movable(r, e.key)
  BY <1>1, <1>4, <1>5, NotFinalIsUnkept
<1> QED BY <1>1, <1>3, <1>4, <1>5, <1>6

\* The record that apply_event_in_place writes for a verdict.
Verdict(r, e, status, retryable, ambiguous) ==
    [status |-> status, started |-> r.proj.acts[e.key].attempts[e.n].started,
     finished |-> NextSequence(r), retryable |-> retryable, ambiguous |-> ambiguous]

\* It is sound, given what the caller says of status and flags.
LEMMA VerdictIsSound ==
    ASSUME NEW r, LedgerFacts(r), NEW e \in Event, e.key \in Step,
           HasAttempt(r.proj.acts[e.key]), e.n = Len(r.proj.acts[e.key].attempts),
           NEW status \in {"completed", "failed", "cancelled", "reconcile_required"},
           NEW retryable \in BOOLEAN, NEW ambiguous \in BOOLEAN,
           status \in {"completed", "cancelled"} => ~retryable /\ ~ambiguous,
           status = "reconcile_required" => ambiguous
    PROVE  /\ SoundVerdict(Verdict(r, e, status, retryable, ambiguous),
                           Latest(r.proj.acts[e.key]).started, NextSequence(r))
           /\ Verdict(r, e, status, retryable, ambiguous).status = status
           /\ Verdict(r, e, status, retryable, ambiguous).retryable = retryable
           /\ Verdict(r, e, status, retryable, ambiguous).ambiguous = ambiguous
<1> DEFINE started == Latest(r.proj.acts[e.key]).started
           seq == NextSequence(r)
           v == [status |-> status, started |-> started, finished |-> seq,
                 retryable |-> retryable, ambiguous |-> ambiguous]
<1>1. Good(r) /\ Len(r.log) \in Nat /\ r.proj.acts[e.key] \in Activity
  BY GoodParts DEF LedgerFacts
<1>2. /\ Latest(r.proj.acts[e.key]) = r.proj.acts[e.key].attempts[e.n]
      /\ started \in Nat /\ seq \in Nat
  BY <1>1, ActivityParts DEF NextSequence
<1>3. Verdict(r, e, status, retryable, ambiguous) = v
  BY <1>2 DEF Verdict
<1> HIDE DEF started, seq
<1>4. v \in Attempt
  BY <1>2 DEF Attempt, AttemptStatus
<1>5. /\ v.status = status /\ v.started = started /\ v.finished = seq
      /\ v.retryable = retryable /\ v.ambiguous = ambiguous
  OBVIOUS
<1> HIDE DEF v
<1>6. SoundVerdict(v, started, seq)
  BY <1>4, <1>5 DEF SoundVerdict
<1> QED BY <1>3, <1>5, <1>6 DEF started, seq

\* A report that an attempt completed, was cancelled, failed or was
\* interrupted is taken only while the attempt is the latest and running.
LEMMA FinishFacts ==
    ASSUME NEW r, LedgerFacts(r), NEW e \in Event, e.key \in Step,
           e.op \in {"completed", "cancelled", "failed", "interrupted"},
           Fresh(r, e), Legal(r, e)
    PROVE  /\ e.of = r.proj.acts[e.key].home
           /\ e.n = Len(r.proj.acts[e.key].attempts)
           /\ LatestIs(r.proj.acts[e.key], "running")
           /\ \E v : /\ Ruled(r, Emit(r, e), e.key, v)
                     /\ e.op \in {"completed", "cancelled"} => v.status = e.op
                     /\ e.op \in {"failed", "interrupted"} =>
                          /\ v.status = "failed"
                          /\ v.retryable <=> "retryable" \in e.what
                          /\ v.ambiguous <=> "ambiguous" \in e.what
<1>1. LegalFinished(r, e)
  BY DEF Legal
<1>2. /\ e.of = r.proj.acts[e.key].home /\ e.n = Len(r.proj.acts[e.key].attempts)
      /\ LatestIs(r.proj.acts[e.key], "running") /\ Movable(r, e.key)
  BY <1>1, NamedIsLatest DEF LegalFinished
<1>3. HasAttempt(r.proj.acts[e.key]) /\ r.proj \in Projection
  BY <1>2, GoodParts DEF LatestIs, LedgerFacts
<1>4. ASSUME NEW status \in {"completed", "failed", "cancelled"},
             NEW retryable \in BOOLEAN, NEW ambiguous \in BOOLEAN,
             status \in {"completed", "cancelled"} => ~retryable /\ ~ambiguous,
             Project(r, e) = WithVerdict(r.proj, e, NextSequence(r), status, retryable, ambiguous)
      PROVE  \E v : /\ Ruled(r, Emit(r, e), e.key, v)
                    /\ v.status = status /\ v.retryable = retryable
                    /\ v.ambiguous = ambiguous
  <2> DEFINE v == Verdict(r, e, status, retryable, ambiguous)
  <2>1. /\ SoundVerdict(v, Latest(r.proj.acts[e.key]).started, NextSequence(r))
        /\ v.status = status /\ v.retryable = retryable /\ v.ambiguous = ambiguous
    BY <1>2, <1>3, <1>4, VerdictIsSound
  <2>2. Project(r, e) = WithActivity(r.proj, e.key, Rejudged(r.proj.acts[e.key], e.n, v))
        /\ Project(r, e).branch = r.proj.branch
    BY <1>3, <1>4 DEF WithVerdict, Rejudged, Verdict, WithActivity, Projection
  <2> HIDE DEF v
  <2>3. e.op \in ActivityOp \ {"scheduled", "started"}
    BY DEF ActivityOp
  <2>4. Ruled(r, Emit(r, e), e.key, v)
    BY <1>2, <2>1, <2>2, <2>3, VerdictFacts
  <2> QED BY <2>1, <2>4
<1>5. CASE e.op \in {"completed", "cancelled"}
  <2> DEFINE no == FALSE
  <2>1. /\ Project(r, e) = WithVerdict(r.proj, e, NextSequence(r), e.op, no, no)
        /\ no \in BOOLEAN /\ ~no /\ e.op \in {"completed", "failed", "cancelled"}
    BY <1>5 DEF Project, ApplyFinished
  <2> HIDE DEF no
  <2>2. \E v : Ruled(r, Emit(r, e), e.key, v) /\ v.status = e.op
    BY <1>4, <2>1
  <2> QED BY <1>2, <1>5, <2>2
<1>6. CASE e.op \in {"failed", "interrupted"}
  <2> DEFINE retryable == "retryable" \in e.what
             ambiguous == "ambiguous" \in e.what
  <2>1. Project(r, e) = WithVerdict(r.proj, e, NextSequence(r), "failed", retryable, ambiguous)
    BY <1>6 DEF Project, ApplyFailed
  <2>2. retryable \in BOOLEAN /\ ambiguous \in BOOLEAN
    OBVIOUS
  <2> HIDE DEF retryable, ambiguous
  <2>3. \E v : /\ Ruled(r, Emit(r, e), e.key, v)
               /\ v.status = "failed" /\ v.retryable = retryable
               /\ v.ambiguous = ambiguous
    BY <1>4, <2>1, <2>2
  <2> QED BY <1>2, <1>6, <2>3 DEF retryable, ambiguous
<1> QED BY <1>5, <1>6

\* An attempt is sent to reconciliation: interrupted, or reported or found as
\* an ambiguous failure.  The run stops executing.
LEMMA ReconcileRequiredFacts ==
    ASSUME NEW r, LedgerFacts(r), NEW e \in Event, e.key \in Step,
           e.op = "reconcile_required", Fresh(r, e), Legal(r, e),
           Movable(r, e.key), e.of = r.proj.acts[e.key].home,
           e.n = Len(r.proj.acts[e.key].attempts)
    PROVE  /\ \E v : Ruled(r, Emit(r, e), e.key, v) /\ v.status = "reconcile_required"
           /\ Emit(r, e).proj.status = "reconcile_required"
<1> DEFINE yes == TRUE
           retryable == r.proj.acts[e.key].attempts[e.n].retryable
           status == "reconcile_required"
           settled == WithVerdict(r.proj, e, NextSequence(r), status, retryable, yes)
           v == Verdict(r, e, status, retryable, yes)
<1>1. /\ Good(r) /\ r.proj \in Projection /\ HasAttempt(r.proj.acts[e.key])
      /\ r.proj.acts[e.key] \in Activity /\ Len(r.log) \in Nat
  BY GoodParts DEF LedgerFacts, Movable
<1>2. e.n \in DOMAIN r.proj.acts[e.key].attempts /\ retryable \in BOOLEAN
  <2>1. e.n \in DOMAIN r.proj.acts[e.key].attempts
    BY <1>1, ActivityParts
  <2>2. r.proj.acts[e.key].attempts[e.n] \in Attempt
    BY <1>1, <2>1, ActivityParts
  <2> QED BY <2>1, <2>2 DEF Attempt
<1>3. Project(r, e) = WithStatus(settled, "reconcile_required")
  BY DEF Project, ApplyReconcileRequired
<1>4. settled \in Projection /\ settled.branch = r.proj.branch
  <2>1. NextSequence(r) \in Nat /\ status \in AttemptStatus /\ yes \in BOOLEAN
    BY <1>1 DEF NextSequence, AttemptStatus
  <2> HIDE DEF yes, status, retryable
  <2> QED BY <1>1, <1>2, <2>1, VerdictType
<1>5. settled.acts = WithActivity(r.proj, e.key, Rejudged(r.proj.acts[e.key], e.n, v)).acts
  BY DEF WithVerdict, Rejudged, Verdict
<1>6. /\ SoundVerdict(v, Latest(r.proj.acts[e.key]).started, NextSequence(r))
      /\ v.status = status
  <2>1. /\ status \in {"completed", "failed", "cancelled", "reconcile_required"}
        /\ yes \in BOOLEAN
        /\ status \in {"completed", "cancelled"} => ~retryable /\ ~yes
        /\ status = "reconcile_required" => yes
        /\ HasAttempt(r.proj.acts[e.key]) /\ retryable \in BOOLEAN
        /\ e.n = Len(r.proj.acts[e.key].attempts)
    BY <1>1, <1>2
  <2> HIDE DEF yes, status, retryable
  <2> QED BY <2>1, VerdictIsSound
<1> HIDE DEF settled, v
<1>7. /\ Project(r, e).branch = r.proj.branch
      /\ Project(r, e).acts =
           WithActivity(r.proj, e.key, Rejudged(r.proj.acts[e.key], e.n, v)).acts
      /\ Project(r, e).status = "reconcile_required"
  BY <1>3, <1>4, <1>5, WithStatusType DEF ActiveStatus
<1>8. e.op \in ActivityOp /\ e.op \in ActivityOp \ {"scheduled", "started"}
  BY DEF ActivityOp
<1>9. Ruled(r, Emit(r, e), e.key, v)
  BY <1>6, <1>7, <1>8, VerdictFacts
<1>10. Emit(r, e).proj.status = "reconcile_required"
  BY <1>1, <1>7, <1>8, EmitTaken
<1> QED BY <1>6, <1>9, <1>10

\* The operator's outcome of a reconciliation.
LEMMA ReconciledFacts ==
    ASSUME NEW r, LedgerFacts(r), NEW e \in Event, e.key \in Step,
           e.op = "reconciled", Fresh(r, e), Legal(r, e),
           NEW how \in {"completed", "safe_to_retry", "cancelled"}, e.what = {how}
    PROVE  /\ LatestIs(r.proj.acts[e.key], "reconcile_required")
           /\ \E v : /\ Ruled(r, Emit(r, e), e.key, v)
                     /\ how = "completed" => v.status = "completed"
                     /\ how = "safe_to_retry" => v.status = "failed"
                     /\ how = "cancelled" => v.status = "cancelled"
<1> DEFINE no == FALSE
           retryable == "safe_to_retry" \in e.what
           status == ReconciledStatus(e.what)
           settled == WithVerdict(r.proj, e, NextSequence(r), status, retryable, no)
           v == Verdict(r, e, status, retryable, no)
<1>1. /\ Good(r) /\ r.proj \in Projection
      /\ r.proj.acts[e.key] \in Activity /\ Len(r.log) \in Nat
  BY GoodParts DEF LedgerFacts
<1>2. LegalReconciled(r, e)
  BY DEF Legal
<1>3. /\ e.of = r.proj.acts[e.key].home /\ e.n = Len(r.proj.acts[e.key].attempts)
      /\ LatestIs(r.proj.acts[e.key], "reconcile_required") /\ Movable(r, e.key)
  BY <1>2, NamedIsLatest DEF LegalReconciled
<1>4. HasAttempt(r.proj.acts[e.key]) /\ e.n \in DOMAIN r.proj.acts[e.key].attempts
  BY <1>1, <1>3, ActivityParts DEF LatestIs
<1>5. Project(r, e) = IF IsTerminal(r.proj) \/ HasReconciliationPending(settled)
                      THEN settled ELSE WithStatus(settled, "paused")
  BY DEF Project, ApplyReconciled
<1>6. /\ status \in {"completed", "failed", "cancelled", "reconcile_required"}
      /\ retryable \in BOOLEAN /\ no \in BOOLEAN
      /\ status \in {"completed", "cancelled"} => ~retryable /\ ~no
      /\ status = "reconcile_required" => no
      /\ status \in AttemptStatus
      /\ how = "completed" => status = "completed"
      /\ how = "safe_to_retry" => status = "failed"
      /\ how = "cancelled" => status = "cancelled"
  BY DEF ReconciledStatus, AttemptStatus
<1>7. settled \in Projection /\ settled.branch = r.proj.branch
  <2>1. NextSequence(r) \in Nat
    BY <1>1 DEF NextSequence
  <2> HIDE DEF no, status, retryable
  <2> QED BY <1>1, <1>4, <1>6, <2>1, VerdictType
<1>8. settled.acts = WithActivity(r.proj, e.key, Rejudged(r.proj.acts[e.key], e.n, v)).acts
  BY DEF WithVerdict, Rejudged, Verdict
<1>9. /\ SoundVerdict(v, Latest(r.proj.acts[e.key]).started, NextSequence(r))
      /\ v.status = status
  <2> HIDE DEF no, status, retryable
  <2> QED BY <1>1, <1>3, <1>4, <1>6, VerdictIsSound
<1> HIDE DEF settled, v
<1>10. /\ Project(r, e).branch = r.proj.branch
       /\ Project(r, e).acts =
            WithActivity(r.proj, e.key, Rejudged(r.proj.acts[e.key], e.n, v)).acts
  BY <1>5, <1>7, <1>8, WithStatusType DEF ActiveStatus
<1>11. e.op \in ActivityOp \ {"scheduled", "started"}
  BY DEF ActivityOp
<1>12. Ruled(r, Emit(r, e), e.key, v)
  BY <1>3, <1>9, <1>10, <1>11, VerdictFacts
<1> HIDE DEF status
<1> QED BY <1>3, <1>6, <1>9, <1>12

\* The scheduling of an activity, on the branch the run is on.
ScheduleEvent(r, s) == ActivityEvent("scheduled", r.proj.branch, s, 0, "none", {})

\* The start of its next attempt.
StartEvent(r, s) == ActivityEvent("started", r.proj.acts[s].home, s,
                                  Len(r.proj.acts[s].attempts) + 1, "none", {})

\* Scheduling: nothing was said of the activity on this branch before.
LEMMA ScheduledFacts ==
    ASSUME NEW r, LedgerFacts(r), NEW s \in Step,
           Fresh(r, ScheduleEvent(r, s)), Legal(r, ScheduleEvent(r, s))
    PROVE  LET r2 == Emit(r, ScheduleEvent(r, s)) IN
           /\ LedgerFacts(r2) /\ MovesOnly(r, r2, s)
           /\ r2.proj.acts[s] = [home |-> r.proj.branch, attempts |-> <<>>]
           /\ r2.proj.status = r.proj.status
<1> DEFINE e == ScheduleEvent(r, s)
           r2 == Emit(r, e)
           new == [home |-> r.proj.branch, attempts |-> <<>>]
<1>1. /\ Good(r) /\ r.proj \in Projection /\ r.log \in Seq(Event) /\ Len(r.log) \in Nat
      /\ r.proj.branch \in Branch /\ r.proj.branch[1] = r.depth
  BY GoodParts DEF LedgerFacts, Projection
<1>2. /\ e \in Event /\ e.key = s /\ e.op = "scheduled" /\ e.n = 0
      /\ e.of = r.proj.branch /\ e.cmd = "none" /\ e.op \in ActivityOp
  <2>1. r.proj.branch \in Branch \cup {NoBranch} /\ 0 \in Nat /\ "none" \in EventCommand
        /\ {} \in SUBSET Fact /\ "scheduled" \in ActivityOp
    BY <1>1 DEF EventCommand, ActivityOp
  <2>2. /\ ScheduleEvent(r, s).of = r.proj.branch /\ ScheduleEvent(r, s).cmd = "none"
    BY DEF ScheduleEvent, ActivityEvent
  <2> QED BY <2>1, <2>2, ActivityEventType DEF ScheduleEvent
<1>3. ~ScheduledHere(r, r.proj.branch, s)
  BY <1>2 DEF ScheduledHere, Fresh, SameId
<1> HIDE DEF e
<1>4. /\ Good(r2) /\ r2.depth = r.depth /\ r2.log = Append(r.log, e)
      /\ r2.proj = Project(r, e) /\ r2.ckpts = r.ckpts
  BY <1>1, <1>2, EmitTaken DEF e
<1>5. Project(r, e) = WithActivity(r.proj, s, new)
  BY <1>2 DEF Project, ApplyScheduled
<1>6. new \in Activity
  BY <1>1 DEF Activity
<1> HIDE DEF r2
<1>7. /\ r2.proj.acts[s] = new /\ r2.proj.branch = r.proj.branch
      /\ r2.proj.status = r.proj.status
      /\ \A u \in Step \ {s} : r2.proj.acts[u] = r.proj.acts[u]
  <2> HIDE DEF new
  <2> QED BY <1>1, <1>4, <1>5, <1>6, WithActivityType
<1>8. /\ Extends(r, r2) /\ Len(r2.log) = Len(r.log) + 1
      /\ DOMAIN r2.log \ DOMAIN r.log = {Len(r.log) + 1} /\ r2.log[Len(r.log) + 1] = e
      /\ DOMAIN r2.log = 1..(Len(r.log) + 1)
  BY <1>1, <1>2, <1>4, AppendExtends
<1>9. MovesOnly(r, r2, s)
  BY <1>4, <1>7, <1>8 DEF MovesOnly
<1>10. ASSUME NEW i \in DOMAIN r2.log, Mentions(r2.log[i], r.proj.branch, s) PROVE FALSE
  <2>1. i \in DOMAIN r.log /\ r2.log[i] = r.log[i]
    <3>1. i # Len(r.log) + 1
      BY <1>2, <1>8, <1>10 DEF Mentions
    <3>2. i \in DOMAIN r.log
      BY <1>8, <3>1
    <3> QED BY <1>8, <3>2 DEF Extends
  <2>2. ScheduledHere(r, r.log[i].of, r.log[i].key)
    BY <1>1, <1>10, <2>1 DEF LedgerFacts, SchedulingComesFirst, Mentions
  <2> QED BY <1>3, <1>10, <2>1, <2>2 DEF Mentions
<1>11. ActivityFacts(r2, new, s)
  <2>1. ~HasAttempt(new) /\ new.home = r.proj.branch /\ DOMAIN new.attempts = {}
        /\ ~LatestIs(new, "running")
    BY DEF HasAttempt, LatestIs
  <2>2. ScheduledHere(r2, new.home, s)
    BY <1>2, <1>8, <2>1 DEF ScheduledHere
  <2>3. ValidActivity(new, s)
    BY <2>1 DEF ValidActivity
  <2>4. LogFits(r2, new, s)
    BY <1>10, <2>1 DEF LogFits
  <2>5. new.home[1] <= r2.depth
    BY <1>1, <1>4, <2>1, GoodParts
  <2> QED BY <2>1, <2>2, <2>3, <2>4, <2>5 DEF ActivityFacts
<1>12. e.of = NoBranch \/ Unkept(r, e.of, s)
  <2> SUFFICES ASSUME NEW c \in CheckpointId, r.ckpts[c].at # 0, e.of # NoBranch,
                      r.ckpts[c].proj.acts[s].home = e.of
               PROVE  FALSE
    BY DEF Unkept
  <2>1. ActivityFacts(r, r.ckpts[c].proj.acts[s], s)
    BY DEF LedgerFacts, CheckpointFacts
  <2> QED BY <1>1, <1>2, <1>3, <2>1 DEF ActivityFacts
<1>13. LedgerFacts(r2)
  BY <1>2, <1>4, <1>7, <1>9, <1>11, <1>12, ActivityEventFacts
<1> QED BY <1>7, <1>9, <1>13 DEF r2, e

\* Starting: the activity had no attempt, or the latest one failed and may be
\* retried; nothing in the log speaks of the new one.
LEMMA StartedFacts ==
    ASSUME NEW r, LedgerFacts(r), NEW s \in Step, r.proj.acts[s].home # NoBranch,
           Fresh(r, StartEvent(r, s)), Legal(r, StartEvent(r, s))
    PROVE  /\ Began(r, Emit(r, StartEvent(r, s)), s)
           /\ HasAttempt(r.proj.acts[s]) =>
                /\ Latest(r.proj.acts[s]).status = "failed"
                /\ Latest(r.proj.acts[s]).retryable
                /\ RetryIsSafe(s, Latest(r.proj.acts[s]).ambiguous)
           /\ Emit(r, StartEvent(r, s)).log = Append(r.log, StartEvent(r, s))
<1> DEFINE e == StartEvent(r, s)
           r2 == Emit(r, e)
           seq == NextSequence(r)
<1>1. PICK old : old = r.proj.acts[s]
  OBVIOUS
<1>2. /\ Good(r) /\ r.proj \in Projection /\ r.log \in Seq(Event) /\ Len(r.log) \in Nat
      /\ old \in Activity /\ ActivityFacts(r, old, s) /\ old.home # NoBranch
      /\ old.home \in Branch \cup {NoBranch} /\ Len(old.attempts) \in Nat
      /\ old.attempts \in Seq(Attempt) /\ DOMAIN old.attempts = 1..Len(old.attempts)
  BY <1>1, GoodParts, ActivityParts DEF LedgerFacts
<1>3. /\ e \in Event /\ e.key = s /\ e.op = "started" /\ e.n = Len(old.attempts) + 1
      /\ e.of = old.home /\ e.cmd = "none" /\ e.op \in ActivityOp
  <2> DEFINE n == Len(old.attempts) + 1
  <2>1. n \in Nat /\ "none" \in EventCommand
        /\ {} \in SUBSET Fact /\ "started" \in ActivityOp
    BY <1>2 DEF EventCommand, ActivityOp
  <2>2. e = ActivityEvent("started", old.home, s, n, "none", {})
    BY <1>1 DEF StartEvent
  <2>3. e.of = old.home /\ e.cmd = "none"
    BY <2>2 DEF ActivityEvent
  <2> HIDE DEF n, e
  <2>4. e \in Event /\ e.key = s /\ e.op = "started" /\ e.n = n
    BY <1>2, <2>1, <2>2, ActivityEventType
  <2> QED BY <2>1, <2>3, <2>4 DEF n
<1> HIDE DEF e
<1>4. Fresh(r, e) /\ Legal(r, e)
  BY DEF e
<1>5. HasAttempt(old) => /\ Latest(old).status = "failed" /\ Latest(old).retryable
                         /\ RetryIsSafe(s, Latest(old).ambiguous)
  <2>1. LegalStarted(r, e)
    BY <1>3, <1>4 DEF Legal
  <2> QED BY <1>1, <1>3, <2>1 DEF LegalStarted, ActivityOf
<1>6. /\ Good(r2) /\ r2.depth = r.depth /\ r2.log = Append(r.log, e)
      /\ r2.proj = Project(r, e) /\ r2.ckpts = r.ckpts
  BY <1>2, <1>3, <1>4, EmitTaken
<1>7. seq \in Nat /\ seq = Len(r.log) + 1
  BY <1>2 DEF NextSequence
<1> HIDE DEF seq
<1>8. PICK x : x = StartedAttempt(seq)
  OBVIOUS
<1>9. /\ x \in Attempt /\ x.status = "running" /\ x.started = seq /\ x.finished = 0
      /\ ~x.retryable /\ ~x.ambiguous
  BY <1>7, <1>8 DEF StartedAttempt, Attempt, AttemptStatus
<1>10. PICK q : q = Append(old.attempts, x)
  OBVIOUS
<1>11. /\ q \in Seq(Attempt) /\ Len(q) = Len(old.attempts) + 1
       /\ DOMAIN q = 1..(Len(old.attempts) + 1)
       /\ q[Len(old.attempts) + 1] = x
       /\ \A n \in DOMAIN old.attempts : q[n] = old.attempts[n]
  BY <1>2, <1>9, <1>10
<1>12. PICK new : new = [old EXCEPT !.attempts = q]
  OBVIOUS
<1>13. new \in Activity /\ new.attempts = q /\ new.home = old.home
  BY <1>2, <1>11, <1>12 DEF Activity
<1>14. Project(r, e) = WithActivity(r.proj, s, new)
  BY <1>1, <1>3, <1>8, <1>10, <1>12 DEF Project, ApplyStarted, seq
<1> HIDE DEF r2
<1>15. /\ r2.proj.acts[s] = new /\ r2.proj.branch = r.proj.branch
       /\ \A u \in Step \ {s} : r2.proj.acts[u] = r.proj.acts[u]
  BY <1>2, <1>6, <1>13, <1>14, WithActivityType
<1>16. /\ Extends(r, r2) /\ Len(r2.log) = Len(r.log) + 1
       /\ DOMAIN r2.log \ DOMAIN r.log = {Len(r.log) + 1} /\ r2.log[Len(r.log) + 1] = e
       /\ DOMAIN r2.log = 1..(Len(r.log) + 1)
  BY <1>2, <1>3, <1>6, AppendExtends
<1>17. MovesOnly(r, r2, s)
  BY <1>6, <1>15, <1>16 DEF MovesOnly
<1>18. HasAttempt(new) /\ Latest(new) = x /\ LatestIs(new, "running")
  <2>1. HasAttempt(new) /\ Latest(new) = x
    BY <1>2, <1>11, <1>13, ActivityParts DEF Latest
  <2> QED BY <1>9, <2>1 DEF LatestIs
<1>19. ValidActivity(new, s)
  <2> SUFFICES ASSUME NEW n \in 1..(Len(old.attempts) + 1) PROVE ValidAttempt(s, q, n)
    BY <1>11, <1>13 DEF ValidActivity
  <2>1. CASE n = Len(old.attempts) + 1
    <3>1. q[n] = x /\ ~(n < Len(q))
      BY <1>2, <1>11, <2>1
    <3>2. x.started > 0
      BY <1>2, <1>7, <1>9
    <3> QED BY <1>9, <3>1, <3>2 DEF ValidAttempt
  <2>2. CASE n \in DOMAIN old.attempts
    <3>1. ValidAttempt(s, old.attempts, n) /\ q[n] = old.attempts[n]
      BY <1>2, <1>11, <2>2 DEF ActivityFacts, ValidActivity
    <3>2. CASE n < Len(old.attempts)
      <4>1. n < Len(q)
        BY <1>2, <1>11, <3>2
      <4> QED BY <3>1, <3>2, <4>1 DEF ValidAttempt
    <3>3. CASE n = Len(old.attempts)
      <4>1. HasAttempt(old) /\ Latest(old) = old.attempts[n]
        BY <1>2, <2>2, <3>3, ActivityParts DEF Latest
      <4> QED BY <1>5, <3>1, <4>1 DEF ValidAttempt
    <3> QED BY <1>2, <2>2, <3>2, <3>3
  <2> QED BY <1>2, <2>1, <2>2
<1>20. LogFits(r2, new, s)
  <2> SUFFICES ASSUME NEW i \in DOMAIN r2.log, Mentions(r2.log[i], new.home, s)
               PROVE  /\ r2.log[i].n <= Len(q)
                      /\ r2.log[i].n = Len(q) => r2.log[i].op = "started"
    BY <1>13 DEF LogFits
  <2>1. CASE i \in DOMAIN r.log
    <3>1. r2.log[i] = r.log[i] /\ r.log[i].n \in Nat
      BY <1>2, <1>16, <2>1, GoodParts DEF Extends, Event
    <3>2. r.log[i].n <= Len(old.attempts)
      BY <1>2, <1>13, <2>1, <3>1 DEF ActivityFacts, LogFits
    <3> QED BY <1>2, <1>11, <3>1, <3>2
  <2>2. CASE i \notin DOMAIN r.log
    <3>1. r2.log[i] = e
      BY <1>16, <2>2
    <3> QED BY <1>2, <1>3, <1>11, <3>1
  <2> QED BY <2>1, <2>2
<1>21. ActivityFacts(r2, new, s)
  <2>1. new.home[1] = r2.depth => ScheduledHere(r2, new.home, s)
    <3>1. new.home[1] = r2.depth => ScheduledHere(r, new.home, s)
      BY <1>2, <1>6, <1>13 DEF ActivityFacts
    <3> QED BY <1>16, <3>1 DEF ScheduledHere, Extends
  <2>2. Latest(new).started <= Len(r2.log)
    BY <1>2, <1>7, <1>9, <1>16, <1>18
  <2>3. new.home[1] <= r2.depth
    BY <1>2, <1>6, <1>13 DEF ActivityFacts
  <2> QED BY <1>2, <1>13, <1>19, <1>20, <2>1, <2>2, <2>3 DEF ActivityFacts
<1>22. ~Final(old)
  BY <1>5 DEF Final
<1>23. Unkept(r, e.of, s)
  BY <1>1, <1>2, <1>3, <1>22, NotFinalIsUnkept
<1>24. LedgerFacts(r2)
  BY <1>2, <1>3, <1>6, <1>13, <1>15, <1>17, <1>21, <1>23, ActivityEventFacts
<1>25. Began(r, r2, s)
  BY <1>1, <1>11, <1>13, <1>15, <1>17, <1>18, <1>24 DEF Began
<1> QED BY <1>1, <1>5, <1>6, <1>25 DEF r2, e

-----------------------------------------------------------------------------
(* prepare_activity and decide_activity on such a ledger. *)

\* An ambiguous failure that an executor reported of an unsafe attempt was
\* sent to reconciliation.
AmbiguousIsReported(r) ==
    \A i \in DOMAIN r.log :
      /\ r.log[i].op = "failed" /\ "ambiguous" \in r.log[i].what
      /\ r.log[i].key \in UnsafeStep
      => \E j \in DOMAIN r.log :
           /\ r.log[j].op = "reconcile_required" /\ r.log[j].of = r.log[i].of
           /\ r.log[j].key = r.log[i].key /\ r.log[j].n = r.log[i].n
           /\ r.log[j].cmd = "none"

\* Nothing new in the log is the failure of an attempt.
NoNewFailure(old, new) ==
    \A i \in DOMAIN new.log \ DOMAIN old.log : new.log[i].op # "failed"

\* Then what was reported stays reported.
LEMMA ReportedStays ==
    ASSUME NEW r, NEW r2, Extends(r, r2), NoNewFailure(r, r2), AmbiguousIsReported(r)
    PROVE  AmbiguousIsReported(r2)
<1> SUFFICES ASSUME NEW i \in DOMAIN r2.log, r2.log[i].op = "failed",
                    "ambiguous" \in r2.log[i].what, r2.log[i].key \in UnsafeStep
             PROVE  \E j \in DOMAIN r2.log :
                      /\ r2.log[j].op = "reconcile_required" /\ r2.log[j].of = r2.log[i].of
                      /\ r2.log[j].key = r2.log[i].key /\ r2.log[j].n = r2.log[i].n
                      /\ r2.log[j].cmd = "none"
  BY DEF AmbiguousIsReported
<1>1. i \in DOMAIN r.log /\ r2.log[i] = r.log[i]
  BY DEF Extends, NoNewFailure
<1>2. PICK j \in DOMAIN r.log :
           /\ r.log[j].op = "reconcile_required" /\ r.log[j].of = r.log[i].of
           /\ r.log[j].key = r.log[i].key /\ r.log[j].n = r.log[i].n
           /\ r.log[j].cmd = "none"
  BY <1>1 DEF AmbiguousIsReported
<1> QED BY <1>1, <1>2 DEF Extends

\* An event that is emitted is the only new one.
LEMMA EmitExtends ==
    ASSUME NEW r, Good(r), NEW e \in Event, e.op \in ActivityOp, e.key \in Step
    PROVE  /\ Extends(r, Emit(r, e))
           /\ \A i \in DOMAIN Emit(r, e).log \ DOMAIN r.log : Emit(r, e).log[i] = e
           /\ e.op # "failed" => NoNewFailure(r, Emit(r, e))
<1>1. r.log \in Seq(Event) /\ Len(r.log) \in Nat
  BY GoodParts
<1>2. CASE Fresh(r, e) /\ Legal(r, e)
  <2>1. Emit(r, e).log = Append(r.log, e) /\ Emit(r, e).depth = r.depth
    BY <1>2, EmitTaken
  <2> HIDE DEF Emit
  <2> QED BY <1>1, <2>1, AppendExtends DEF NoNewFailure
<1>3. CASE ~(Fresh(r, e) /\ Legal(r, e))
  <2>1. Emit(r, e) = r
    BY <1>3 DEF Emit
  <2> QED BY <1>1, <2>1 DEF Extends, NoNewFailure
<1> QED BY <1>2, <1>3

\* One log after another.
LEMMA ExtendsTransitive ==
    ASSUME NEW r, NEW r1, NEW r2, Extends(r, r1), Extends(r1, r2),
           Len(r.log) \in Nat, Len(r1.log) \in Nat, Len(r2.log) \in Nat
    PROVE  /\ Extends(r, r2)
           /\ NoNewFailure(r, r1) /\ NoNewFailure(r1, r2) => NoNewFailure(r, r2)
           /\ \A s : MovesOnly(r, r1, s) /\ MovesOnly(r1, r2, s) => MovesOnly(r, r2, s)
<1>1. Extends(r, r2)
  BY DEF Extends
<1>2. NoNewFailure(r, r1) /\ NoNewFailure(r1, r2) => NoNewFailure(r, r2)
  BY DEF NoNewFailure, Extends
<1> QED BY <1>1, <1>2 DEF MovesOnly

\* The log knows nothing of an attempt that has not begun.
LEMMA StartIsNew ==
    ASSUME NEW r, LedgerFacts(r), NEW s \in Step, r.proj.acts[s].home # NoBranch
    PROVE  Fresh(r, StartEvent(r, s)) /\ ~Known(r, StartEvent(r, s))
<1>1. PICK old : old = r.proj.acts[s]
  OBVIOUS
<1>2. /\ Good(r) /\ old \in Activity /\ LogFits(r, old, s) /\ old.home # NoBranch
      /\ Len(old.attempts) \in Nat
  BY <1>1, GoodParts, ActivityParts DEF LedgerFacts, ActivityFacts
<1>3. /\ StartEvent(r, s).op = "started" /\ StartEvent(r, s).of = old.home
      /\ StartEvent(r, s).key = s /\ StartEvent(r, s).n = Len(old.attempts) + 1
  BY <1>1 DEF StartEvent, ActivityEvent
<1> SUFFICES ASSUME NEW i \in DOMAIN r.log, SameId(r.log[i], StartEvent(r, s)) PROVE FALSE
  BY DEF Fresh, Known, SameId
<1>4. Mentions(r.log[i], old.home, s) /\ r.log[i].n = Len(old.attempts) + 1
  BY <1>3 DEF SameId, Mentions, ActivityOp
<1>5. r.log[i].n <= Len(old.attempts)
  BY <1>2, <1>4 DEF LogFits
<1> QED BY <1>2, <1>4, <1>5

\* What a decision about step s leaves, from the run state r on.
Decided(r, d, s) ==
    LET old == r.proj.acts[s]
        new == d.run.proj.acts[s]
    IN  /\ LedgerFacts(d.run) /\ MovesOnly(r, d.run, s) /\ NoNewFailure(r, d.run)
        /\ new.home = old.home
        /\ HasAttempt(old) => HasAttempt(new)
        /\ d.told = "execute" =>
             /\ Len(new.attempts) = d.n /\ d.n = Len(old.attempts) + 1
             /\ LatestIs(new, "running")
             /\ d.run.log[Len(d.run.log)] =
                  ActivityEvent("started", old.home, s, d.n, "none", {})
             /\ Len(r.log) < Len(d.run.log)
             /\ s \in UnsafeStep /\ HasAttempt(old) => Latest(old).status = "failed"
        /\ \A n \in DOMAIN new.attempts : new.attempts[n].status = "running" =>
             \/ n \in DOMAIN old.attempts /\ old.attempts[n].status = "running"
             \/ d.told = "execute" /\ n = d.n
        /\ s \in UnsafeStep /\ LatestIs(old, "running") =>
             LatestIs(new, "running") \/ LatestIs(new, "reconcile_required")
        /\ HasAttempt(old) /\ Latest(old).status \in {"completed", "reconcile_required"}
             => new = old

\* A decision that emits nothing.
LEMMA StaysDecided ==
    ASSUME NEW r, LedgerFacts(r), NEW s \in Step, NEW told, told # "execute", NEW n
    PROVE  Decided(r, Decision(r, told, n), s)
<1>1. Len(r.log) \in Nat
  BY GoodParts DEF LedgerFacts
<1>2. Decision(r, told, n).run = r /\ Decision(r, told, n).told = told
  BY DEF Decision
<1>3. MovesOnly(r, r, s) /\ NoNewFailure(r, r)
  BY <1>1 DEF MovesOnly, Extends, NoNewFailure
<1> QED BY <1>2, <1>3 DEF Decided

\* Starting the next attempt is authorised exactly if it is recorded.
LEMMA DecideStartFacts ==
    ASSUME NEW r, LedgerFacts(r), NEW s \in Step, r.proj.acts[s].home # NoBranch
    PROVE  /\ Decided(r, DecideStart(r, s), s)
           /\ Legal(r, StartEvent(r, s)) => DecideStart(r, s).told = "execute"
<1> DEFINE e == StartEvent(r, s)
           d == DecideStart(r, s)
<1>1. PICK old : old = r.proj.acts[s]
  OBVIOUS
<1>2. Fresh(r, e) /\ ~Known(r, e)
  BY StartIsNew
<1>3. /\ d = Decision(Emit(r, e), IF Accepted(r, e) THEN "execute" ELSE "error",
                      Len(old.attempts) + 1)
  BY <1>1 DEF DecideStart, StartEvent
<1>4. CASE ~Legal(r, e)
  <2>1. Emit(r, e) = r /\ ~Accepted(r, e)
    BY <1>2, <1>4 DEF Emit, Accepted
  <2>2. d = Decision(r, "error", Len(old.attempts) + 1)
    BY <1>3, <2>1
  <2> HIDE DEF d
  <2>3. Decided(r, d, s)
    BY <2>2, StaysDecided
  <2> QED BY <1>4, <2>3 DEF d
<1>5. CASE Legal(r, e)
  <2>1. /\ Began(r, Emit(r, e), s) /\ Emit(r, e).log = Append(r.log, e)
        /\ HasAttempt(old) => Latest(old).status = "failed"
    BY <1>1, <1>2, <1>5, StartedFacts
  <2>2. Accepted(r, e)
    BY <1>2, <1>5 DEF Accepted
  <2>3. d.run = Emit(r, e) /\ d.told = "execute" /\ d.n = Len(old.attempts) + 1
    BY <1>3, <2>2 DEF Decision
  <2> HIDE DEF d
  <2>4. /\ e.op = "started" /\ e = ActivityEvent("started", old.home, s, d.n, "none", {})
        /\ e.op # "failed"
    BY <1>1, <2>3 DEF StartEvent, ActivityEvent
  <2>5. /\ Good(r) /\ r.log \in Seq(Event) /\ Len(r.log) \in Nat /\ old \in Activity
        /\ Good(d.run) /\ Len(d.run.log) \in Nat /\ d.run.proj.acts[s] \in Activity
    BY <1>1, <2>1, <2>3, GoodParts DEF LedgerFacts, Began
  <2> HIDE DEF e
  <2>6. /\ Len(d.run.log) = Len(r.log) + 1 /\ d.run.log[Len(r.log) + 1] = e
        /\ DOMAIN d.run.log \ DOMAIN r.log = {Len(r.log) + 1}
    <3> DEFINE log == Append(r.log, e)
    <3>1. Len(log) = Len(r.log) + 1 /\ DOMAIN log = 1..(Len(r.log) + 1)
          /\ log[Len(r.log) + 1] = e /\ DOMAIN r.log = 1..Len(r.log)
      BY <2>5
    <3>2. d.run.log = log
      BY <2>1, <2>3
    <3> HIDE DEF log
    <3> QED BY <2>5, <3>1, <3>2
  <2>7. NoNewFailure(r, d.run)
    BY <2>4, <2>6 DEF NoNewFailure
  <2>8. d.run.log[Len(d.run.log)] = e /\ Len(r.log) < Len(d.run.log)
    BY <2>5, <2>6
  <2>9. ASSUME NEW n \in DOMAIN d.run.proj.acts[s].attempts
        PROVE  \/ n \in DOMAIN old.attempts
                    /\ d.run.proj.acts[s].attempts[n] = old.attempts[n]
               \/ n = d.n
    <3>1. /\ DOMAIN old.attempts = 1..Len(old.attempts) /\ Len(old.attempts) \in Nat
          /\ DOMAIN d.run.proj.acts[s].attempts = 1..(Len(old.attempts) + 1)
      BY <1>1, <2>1, <2>3, <2>5, ActivityParts DEF Began
    <3>2. n \in DOMAIN old.attempts \/ n = Len(old.attempts) + 1
      BY <2>9, <3>1
    <3> QED BY <1>1, <2>1, <2>3, <3>2 DEF Began
  <2>10. ~LatestIs(old, "running")
         /\ ~(HasAttempt(old) /\ Latest(old).status \in {"completed", "reconcile_required"})
    BY <2>1 DEF LatestIs
  <2>11. Decided(r, d, s)
    BY <1>1, <2>1, <2>3, <2>4, <2>7, <2>8, <2>9, <2>10 DEF Began, Decided, LatestIs
  <2> QED BY <2>3, <2>11 DEF d
<1> QED BY <1>4, <1>5

\* Sending the latest attempt to reconciliation.  If it is still recorded as
\* running, the run stops.
LEMMA DecideReconcileFacts ==
    ASSUME NEW r, LedgerFacts(r), NEW s \in Step, NEW why \in Fact,
           HasAttempt(r.proj.acts[s]),
           \/ LatestIs(r.proj.acts[s], "running")
           \/ LatestIs(r.proj.acts[s], "failed") /\ Latest(r.proj.acts[s]).retryable
    PROVE  /\ Decided(r, DecideReconcile(r, s, why), s)
           /\ LatestIs(r.proj.acts[s], "running") /\ EnsureActive(r)
                => DecideReconcile(r, s, why).run.proj.status = "reconcile_required"
<1> DEFINE e == LatestEvent(r, s, "reconcile_required", {why})
           d == DecideReconcile(r, s, why)
<1>1. PICK old : old = r.proj.acts[s]
  OBVIOUS
<1>2. /\ Good(r) /\ old \in Activity /\ ActivityFacts(r, old, s)
      /\ old.home # NoBranch /\ ~Final(old) /\ HasAttempt(old)
      /\ Latest(old).status \in {"running", "failed"}
      /\ Len(old.attempts) \in DOMAIN old.attempts /\ Len(old.attempts) \in Nat
      /\ Latest(old) = old.attempts[Len(old.attempts)]
  BY <1>1, GoodParts, ActivityParts DEF LedgerFacts, ActivityFacts, Final, LatestIs
<1>3. Movable(r, s)
  BY <1>1, <1>2, NotFinalIsUnkept
<1>4. /\ e.key = s /\ e.op = "reconcile_required" /\ e.of = old.home
      /\ e.n = Len(old.attempts) /\ e.cmd = "none"
  BY <1>1 DEF LatestEvent, ActivityEvent
<1>5. e \in Event
  <2> DEFINE n == Len(old.attempts)
             what == {why}
  <2>1. "reconcile_required" \in ActivityOp /\ "none" \in EventCommand /\ what \in SUBSET Fact
        /\ n \in Nat /\ old.home \in Branch \cup {NoBranch}
    BY <1>2, ActivityParts DEF ActivityOp, EventCommand
  <2>2. e = ActivityEvent("reconcile_required", old.home, s, n, "none", what)
    BY <1>1 DEF LatestEvent
  <2> HIDE DEF n, what, e
  <2> QED BY <2>1, <2>2, ActivityEventType
<1>6. \E told : told # "execute" /\ d = Decision(Emit(r, e), told, e.n)
  BY DEF DecideReconcile
<1> HIDE DEF d, e
<1>7. PICK told : told # "execute" /\ d = Decision(Emit(r, e), told, e.n)
  BY <1>6
<1>8. CASE Fresh(r, e) /\ Legal(r, e)
  <2>1. /\ \E v : Ruled(r, Emit(r, e), s, v) /\ v.status = "reconcile_required"
        /\ Emit(r, e).proj.status = "reconcile_required"
    BY <1>1, <1>3, <1>4, <1>5, <1>8, ReconcileRequiredFacts
  <2>2. NoNewFailure(r, Emit(r, e))
    BY <1>2, <1>4, <1>5, EmitExtends DEF ActivityOp
  <2>3. d.run = Emit(r, e) /\ d.told # "execute"
    BY <1>7 DEF Decision
  <2> HIDE DEF Emit
  <2>4. Decided(r, d, s)
    BY <1>1, <1>2, <2>1, <2>2, <2>3 DEF Decided, Ruled, LatestIs
  <2> QED BY <2>1, <2>3, <2>4 DEF d
<1>9. CASE ~(Fresh(r, e) /\ Legal(r, e))
  <2>1. d = Decision(r, told, e.n)
    BY <1>7, <1>9 DEF Emit
  <2>2. Decided(r, d, s)
    BY <1>7, <2>1, StaysDecided
  <2>3. ASSUME LatestIs(old, "running"), EnsureActive(r) PROVE FALSE
    <3>1. Fresh(r, e)
      <4> SUFFICES ASSUME NEW i \in DOMAIN r.log, SameId(r.log[i], e) PROVE FALSE
        BY DEF Fresh
      <4>1. Mentions(r.log[i], old.home, s) /\ r.log[i].n = Len(old.attempts)
            /\ r.log[i].op = "reconcile_required"
        BY <1>4 DEF SameId, Mentions, ActivityOp
      <4> QED BY <1>2, <2>3, <4>1 DEF ActivityFacts, LogFits
    <3>2. Legal(r, e)
      BY <1>1, <1>2, <1>4, <2>3
         DEF Legal, LegalReconcileRequired, AttemptFound, AttemptOf, ActivityOf, LatestIs
    <3> QED BY <1>9, <3>1, <3>2
  <2> QED BY <1>1, <2>2, <2>3 DEF d
<1> QED BY <1>8, <1>9

\* The interruption of an attempt whose worker is gone.
LEMMA InterruptFacts ==
    ASSUME NEW r, LedgerFacts(r), NEW s \in Step, LatestIs(r.proj.acts[s], "running")
    PROVE  /\ LedgerFacts(Interrupt(r, s)) /\ MovesOnly(r, Interrupt(r, s), s)
           /\ NoNewFailure(r, Interrupt(r, s))
           /\ Interrupt(r, s).proj.acts[s].home = r.proj.acts[s].home
           /\ Len(Interrupt(r, s).proj.acts[s].attempts) = Len(r.proj.acts[s].attempts)
           /\ HasAttempt(Interrupt(r, s).proj.acts[s])
           /\ \A n \in DOMAIN Interrupt(r, s).proj.acts[s].attempts :
                Interrupt(r, s).proj.acts[s].attempts[n].status = "running" =>
                  n \in DOMAIN r.proj.acts[s].attempts
                    /\ r.proj.acts[s].attempts[n].status = "running"
<1> DEFINE what == {"retryable", "ambiguous"}
           n == Len(r.proj.acts[s].attempts)
           home == r.proj.acts[s].home
           e == LatestEvent(r, s, "interrupted", what)
<1>1. /\ Good(r) /\ n \in Nat /\ home \in Branch \cup {NoBranch} /\ Len(r.log) \in Nat
      /\ HasAttempt(r.proj.acts[s])
  BY GoodParts, ActivityParts DEF LedgerFacts, LatestIs
<1>2. e \in Event /\ e.key = s /\ e.op = "interrupted"
  <2>1. "interrupted" \in ActivityOp /\ "none" \in EventCommand /\ what \in SUBSET Fact
    BY DEF ActivityOp, EventCommand, Fact
  <2>2. e = ActivityEvent("interrupted", home, s, n, "none", what)
    BY DEF LatestEvent
  <2>3. n \in Nat /\ home \in Branch \cup {NoBranch}
    BY <1>1
  <2> HIDE DEF n, home, what, e
  <2> QED BY <2>1, <2>2, <2>3, ActivityEventType
<1>3. Interrupt(r, s) = Emit(r, e)
  BY DEF Interrupt
<1> HIDE DEF e, n, home
<1>4. CASE Fresh(r, e) /\ Legal(r, e)
  <2>1. \E v : Ruled(r, Emit(r, e), s, v)
    BY <1>2, <1>4, FinishFacts
  <2>2. NoNewFailure(r, Emit(r, e))
    BY <1>1, <1>2, EmitExtends DEF ActivityOp
  <2> HIDE DEF Emit
  <2> QED BY <1>3, <2>1, <2>2 DEF Ruled
<1>5. CASE ~(Fresh(r, e) /\ Legal(r, e))
  <2>1. Interrupt(r, s) = r
    BY <1>3, <1>5 DEF Emit
  <2>2. MovesOnly(r, r, s) /\ NoNewFailure(r, r)
    BY <1>1 DEF MovesOnly, Extends, NoNewFailure
  <2> HIDE DEF Interrupt
  <2> QED BY <1>1, <2>1, <2>2
<1> QED BY <1>4, <1>5

\* A decision after something else was recorded of an activity that may be
\* repeated.
LEMMA DecidedAfter ==
    ASSUME NEW r, LedgerFacts(r), NEW r1, LedgerFacts(r1),
           NEW s \in Step, s \notin UnsafeStep, NEW d,
           Decided(r1, d, s), MovesOnly(r, r1, s), NoNewFailure(r, r1),
           LatestIs(r.proj.acts[s], "running"),
           r1.proj.acts[s].home = r.proj.acts[s].home,
           Len(r1.proj.acts[s].attempts) = Len(r.proj.acts[s].attempts),
           HasAttempt(r1.proj.acts[s]),
           \A n \in DOMAIN r1.proj.acts[s].attempts :
                r1.proj.acts[s].attempts[n].status = "running" =>
                  n \in DOMAIN r.proj.acts[s].attempts
                    /\ r.proj.acts[s].attempts[n].status = "running"
    PROVE  Decided(r, d, s)
<1>1. /\ LedgerFacts(d.run) /\ Len(r.log) \in Nat /\ Len(r1.log) \in Nat
      /\ Len(d.run.log) \in Nat /\ Extends(r, r1) /\ Extends(r1, d.run)
      /\ MovesOnly(r1, d.run, s) /\ NoNewFailure(r1, d.run)
  BY GoodParts DEF LedgerFacts, Decided, MovesOnly
<1>2. MovesOnly(r, d.run, s) /\ NoNewFailure(r, d.run)
  BY <1>1, ExtendsTransitive
<1>3. Len(r1.log) < Len(d.run.log) => Len(r.log) < Len(d.run.log)
  BY <1>1 DEF Extends
<1> QED BY <1>1, <1>2, <1>3 DEF Decided, LatestIs

\* decide_activity, in all its branches.
LEMMA DecideFacts ==
    ASSUME NEW r, LedgerFacts(r), NEW s \in Step
    PROVE  Decided(r, Decide(r, s), s)
<1>1. PICK old : old = r.proj.acts[s]
  OBVIOUS
<1>2. Good(r) /\ old \in Activity /\ ActivityFacts(r, old, s)
  BY <1>1, GoodParts DEF LedgerFacts
<1>3. \A told, n : told # "execute" => Decided(r, Decision(r, told, n), s)
  BY StaysDecided
<1>4. CASE old.home = NoBranch
  <2>1. Decide(r, s) = Decision(r, "error", 0)
    BY <1>1, <1>4 DEF Decide
  <2> QED BY <1>3, <2>1
<1>5. CASE old.home # NoBranch /\ Completed(old)
  <2>1. Decide(r, s) = Decision(r, "reuse", 0)
    BY <1>1, <1>5 DEF Decide
  <2> QED BY <1>3, <2>1
<1>6. CASE old.home # NoBranch /\ ~Completed(old) /\ ~HasAttempt(old)
  <2>1. Decide(r, s) = DecideStart(r, s)
    BY <1>1, <1>6 DEF Decide
  <2>2. Decided(r, DecideStart(r, s), s)
    BY <1>1, <1>6, DecideStartFacts
  <2> QED BY <2>1, <2>2
<1>7. CASE old.home # NoBranch /\ ~Completed(old) /\ HasAttempt(old)
  <2>1. Latest(old).status \in AttemptStatus \ {"completed"}
    <3>1. Latest(old) \in Attempt /\ Len(old.attempts) \in DOMAIN old.attempts
          /\ Latest(old) = old.attempts[Len(old.attempts)]
      BY <1>2, <1>7, ActivityParts
    <3> QED BY <1>7, <3>1 DEF Attempt, Completed
  <2>2. CASE Latest(old).status = "running"
    <3>1. Decide(r, s) = DecideInterrupted(r, s)
      BY <1>1, <1>7, <2>2 DEF Decide
    <3>2. LatestIs(r.proj.acts[s], "running")
      BY <1>1, <1>7, <2>2 DEF LatestIs
    <3>3. CASE RetryIsSafe(s, TRUE)
      <4>1. s \notin UnsafeStep
        BY <3>3, StepClasses DEF RetryIsSafe
      <4> DEFINE r1 == Interrupt(r, s)
      <4>2. DecideInterrupted(r, s) = DecideStart(r1, s)
        BY <3>3 DEF DecideInterrupted
      <4>3. /\ LedgerFacts(r1) /\ MovesOnly(r, r1, s) /\ NoNewFailure(r, r1)
            /\ r1.proj.acts[s].home = r.proj.acts[s].home
            /\ Len(r1.proj.acts[s].attempts) = Len(r.proj.acts[s].attempts)
            /\ HasAttempt(r1.proj.acts[s])
            /\ \A n \in DOMAIN r1.proj.acts[s].attempts :
                 r1.proj.acts[s].attempts[n].status = "running" =>
                   n \in DOMAIN r.proj.acts[s].attempts
                     /\ r.proj.acts[s].attempts[n].status = "running"
        BY <3>2, InterruptFacts
      <4> HIDE DEF r1
      <4>4. Decided(r1, DecideStart(r1, s), s)
        BY <1>1, <1>7, <4>3, DecideStartFacts
      <4>5. Decided(r, DecideStart(r1, s), s)
        BY <3>2, <4>1, <4>3, <4>4, DecidedAfter
      <4> QED BY <3>1, <4>2, <4>5
    <3>4. CASE ~RetryIsSafe(s, TRUE)
      <4>1. DecideInterrupted(r, s) = DecideReconcile(r, s, "interrupted")
        BY <3>4 DEF DecideInterrupted
      <4>2. "interrupted" \in Fact
        BY DEF Fact
      <4>3. Decided(r, DecideReconcile(r, s, "interrupted"), s)
        BY <1>1, <1>7, <3>2, <4>2, DecideReconcileFacts
      <4> QED BY <3>1, <4>1, <4>3
    <3> QED BY <3>3, <3>4
  <2>3. CASE Latest(old).status = "failed"
    <3>1. Decide(r, s) = DecideRetry(r, s, Latest(old))
      BY <1>1, <1>7, <2>3 DEF Decide
    <3>2. CASE ~Latest(old).retryable
      <4>1. DecideRetry(r, s, Latest(old)) = Decision(r, "failed", 0)
        BY <3>2 DEF DecideRetry
      <4> QED BY <1>3, <3>1, <4>1
    <3>3. CASE Latest(old).retryable /\ RetryIsSafe(s, Latest(old).ambiguous)
      <4>1. DecideRetry(r, s, Latest(old)) = DecideStart(r, s)
        BY <3>3 DEF DecideRetry
      <4>2. Decided(r, DecideStart(r, s), s)
        BY <1>1, <1>7, DecideStartFacts
      <4> QED BY <3>1, <4>1, <4>2
    <3>4. CASE Latest(old).retryable /\ ~RetryIsSafe(s, Latest(old).ambiguous)
      <4>1. DecideRetry(r, s, Latest(old)) = DecideReconcile(r, s, "failed_before")
        BY <3>4 DEF DecideRetry
      <4>2. "failed_before" \in Fact /\ LatestIs(old, "failed")
        BY <1>7, <2>3 DEF Fact, LatestIs
      <4>3. Decided(r, DecideReconcile(r, s, "failed_before"), s)
        BY <1>1, <1>7, <3>4, <4>2, DecideReconcileFacts
      <4> QED BY <3>1, <4>1, <4>3
    <3> QED BY <3>2, <3>3, <3>4
  <2>4. CASE Latest(old).status = "reconcile_required"
    <3>1. Decide(r, s) = Decision(r, "reconcile", 0)
      BY <1>1, <1>7, <2>4 DEF Decide
    <3> QED BY <1>3, <3>1
  <2>5. CASE Latest(old).status = "cancelled"
    <3>1. Decide(r, s) = Decision(r, "cancelled", 0)
      BY <1>1, <1>7, <2>5 DEF Decide
    <3> QED BY <1>3, <3>1
  <2> QED BY <2>1, <2>2, <2>3, <2>4, <2>5 DEF AttemptStatus
<1> QED BY <1>4, <1>5, <1>6, <1>7

-----------------------------------------------------------------------------
(* The handlers on such a ledger. *)

\* Between two operations every scheduled activity has an attempt.
NothingIdle(r) ==
    \A s \in Step : r.proj.acts[s].home # NoBranch => HasAttempt(r.proj.acts[s])

\* What holds of the run under the discipline.
SettledRun(r) == LedgerFacts(r) /\ AmbiguousIsReported(r) /\ NothingIdle(r)

\* prepare_activity schedules an activity that the branch does not have.
LEMMA ScheduleFacts ==
    ASSUME NEW r, LedgerFacts(r), NEW s \in Step
    PROVE  /\ LedgerFacts(ScheduleIfAbsent(r, s)) /\ MovesOnly(r, ScheduleIfAbsent(r, s), s)
           /\ NoNewFailure(r, ScheduleIfAbsent(r, s))
           /\ ScheduleIfAbsent(r, s).proj.status = r.proj.status
           /\ \/ ScheduleIfAbsent(r, s) = r
              \/ /\ r.proj.acts[s].home = NoBranch
                 /\ ~HasAttempt(ScheduleIfAbsent(r, s).proj.acts[s])
                 /\ DOMAIN ScheduleIfAbsent(r, s).proj.acts[s].attempts = {}
<1> DEFINE e == ScheduleEvent(r, s)
           r1 == ScheduleIfAbsent(r, s)
<1>1. Good(r) /\ Len(r.log) \in Nat /\ r.log \in Seq(Event) /\ r.proj.branch \in Branch
  BY GoodParts DEF LedgerFacts, Projection
<1>2. r1 = r \/ (r.proj.acts[s].home = NoBranch /\ Fresh(r, e) /\ Legal(r, e) /\ r1 = Emit(r, e))
  BY DEF ScheduleIfAbsent, ScheduleEvent, Emit
<1>3. CASE r1 = r
  <2>1. MovesOnly(r, r, s) /\ NoNewFailure(r, r)
    BY <1>1 DEF MovesOnly, Extends, NoNewFailure
  <2> QED BY <1>3, <2>1
<1>4. CASE r.proj.acts[s].home = NoBranch /\ Fresh(r, e) /\ Legal(r, e) /\ r1 = Emit(r, e)
  <2> DEFINE new == [home |-> r.proj.branch, attempts |-> <<>>]
  <2>1. /\ LedgerFacts(Emit(r, e)) /\ MovesOnly(r, Emit(r, e), s)
        /\ Emit(r, e).proj.acts[s] = new
        /\ Emit(r, e).proj.status = r.proj.status
    BY <1>4, ScheduledFacts
  <2>2. ~HasAttempt(new) /\ DOMAIN new.attempts = {}
    BY DEF HasAttempt
  <2>3. e \in Event /\ e.op = "scheduled" /\ e.key = s
    <3>1. "scheduled" \in ActivityOp /\ "none" \in EventCommand /\ {} \in SUBSET Fact /\ 0 \in Nat
          /\ r.proj.branch \in Branch \cup {NoBranch}
      BY <1>1 DEF ActivityOp, EventCommand
    <3> QED BY <3>1, ActivityEventType DEF ScheduleEvent
  <2>4. NoNewFailure(r, Emit(r, e))
    BY <1>1, <2>3, EmitExtends DEF ActivityOp
  <2> HIDE DEF new, e, r1
  <2>5. NoNewFailure(r, r1) /\ LedgerFacts(r1) /\ MovesOnly(r, r1, s)
        /\ r1.proj.status = r.proj.status /\ ~HasAttempt(r1.proj.acts[s])
        /\ DOMAIN r1.proj.acts[s].attempts = {}
    BY <1>4, <2>1, <2>2, <2>4
  <2> QED BY <1>4, <2>5 DEF r1
<1> QED BY <1>2, <1>3, <1>4

\* prepare_activity leaves no scheduled activity without an attempt.
LEMMA PrepareFacts ==
    ASSUME NEW r, SettledRun(r), EnsureExecuting(r), NEW s \in Step
    PROVE  /\ Decided(ScheduleIfAbsent(r, s), Decide(ScheduleIfAbsent(r, s), s), s)
           /\ SettledRun(Decide(ScheduleIfAbsent(r, s), s).run)
<1> DEFINE r1 == ScheduleIfAbsent(r, s)
           d == Decide(r1, s)
<1>1. LedgerFacts(r) /\ AmbiguousIsReported(r) /\ NothingIdle(r)
  BY DEF SettledRun
<1>2. /\ LedgerFacts(r1) /\ MovesOnly(r, r1, s) /\ NoNewFailure(r, r1)
      /\ r1.proj.status = r.proj.status
      /\ \/ r1 = r
         \/ ~HasAttempt(r1.proj.acts[s])
  BY <1>1, ScheduleFacts
<1> HIDE DEF r1
<1>3. Decided(r1, d, s)
  BY <1>2, DecideFacts
<1>4. AmbiguousIsReported(d.run)
  BY <1>1, <1>2, <1>3, ReportedStays DEF Decided, MovesOnly
<1>5. ASSUME r1.proj.acts[s].home # NoBranch, ~HasAttempt(r1.proj.acts[s])
      PROVE  HasAttempt(d.run.proj.acts[s])
  <2> DEFINE e == StartEvent(r1, s)
  <2>1. /\ e.op = "started" /\ e.of = r1.proj.acts[s].home /\ e.key = s
        /\ e.n = Len(r1.proj.acts[s].attempts) + 1
    BY DEF StartEvent, ActivityEvent
  <2> HIDE DEF e
  <2>2. Legal(r1, e)
    BY <1>2, <1>5, <2>1 DEF Legal, LegalStarted, ActivityOf, EnsureExecuting
  <2>3. DecideStart(r1, s).told = "execute"
    BY <1>2, <1>5, <2>2, DecideStartFacts DEF e
  <2>4. ~Completed(r1.proj.acts[s])
    <3>1. r1.proj.acts[s] \in Activity
      BY <1>2, GoodParts DEF LedgerFacts
    <3> QED BY <1>5, <3>1, ActivityParts DEF Completed
  <2>5. d = DecideStart(r1, s)
    BY <1>5, <2>4 DEF Decide
  <2> HIDE DEF d
  <2> QED BY <1>3, <2>3, <2>5 DEF Decided, LatestIs
<1> HIDE DEF d
<1>6. NothingIdle(d.run)
  <2> SUFFICES ASSUME NEW u \in Step, d.run.proj.acts[u].home # NoBranch
               PROVE  HasAttempt(d.run.proj.acts[u])
    BY DEF NothingIdle
  <2>1. CASE u # s
    BY <1>1, <1>2, <1>3, <2>1 DEF Decided, MovesOnly, NothingIdle
  <2>2. CASE u = s
    BY <1>3, <1>5, <2>2 DEF Decided
  <2> QED BY <2>1, <2>2
<1>7. LedgerFacts(d.run)
  BY <1>3 DEF Decided
<1> QED BY <1>3, <1>4, <1>6, <1>7 DEF SettledRun, r1, d

\* A verdict that is no unreported failure keeps the run settled.
LEMMA RuledIsSettled ==
    ASSUME NEW r, SettledRun(r), NEW s \in Step, NEW r2, NEW v, Ruled(r, r2, s, v),
           AmbiguousIsReported(r2)
    PROVE  SettledRun(r2)
BY DEF SettledRun, Ruled, MovesOnly, NothingIdle

\* An executor's report on a running attempt is always taken.
LEMMA ReportIsTaken ==
    ASSUME NEW r, LedgerFacts(r), EnsureActive(r), NEW e \in Event, e.key \in Step,
           e.op \in {"completed", "failed", "cancelled", "interrupted"},
           AttemptFound(r, e), AttemptOf(r, e).status = "running"
    PROVE  Fresh(r, e) /\ Legal(r, e)
<1>1. /\ e.of = r.proj.acts[e.key].home /\ e.n = Len(r.proj.acts[e.key].attempts)
      /\ LatestIs(r.proj.acts[e.key], "running") /\ Movable(r, e.key)
  BY NamedIsLatest
<1>2. LogFits(r, r.proj.acts[e.key], e.key) /\ r.proj.acts[e.key].home # NoBranch
  BY <1>1 DEF LedgerFacts, ActivityFacts, Movable
<1>3. Fresh(r, e)
  <2> SUFFICES ASSUME NEW i \in DOMAIN r.log, SameId(r.log[i], e) PROVE FALSE
    BY DEF Fresh
  <2>1. Mentions(r.log[i], e.of, e.key) /\ r.log[i].n = e.n /\ r.log[i].op # "started"
    BY DEF SameId, Mentions, ActivityOp
  <2> QED BY <1>1, <1>2, <2>1 DEF LogFits
<1> QED BY <1>3 DEF Legal, LegalFinished

\* A decision keeps the run settled.
LEMMA DecidedIsSettled ==
    ASSUME NEW r, SettledRun(r), NEW s \in Step, NEW d, Decided(r, d, s)
    PROVE  SettledRun(d.run)
<1>1. AmbiguousIsReported(d.run)
  BY ReportedStays DEF SettledRun, Decided, MovesOnly
<1>2. NothingIdle(d.run)
  BY DEF NothingIdle, SettledRun, Decided, MovesOnly
<1> QED BY <1>1, <1>2 DEF SettledRun, Decided

\* The event of an executor's report.
LEMMA TokenEventFacts ==
    ASSUME NEW t \in Token, NEW op \in ActivityOp, NEW what \in SUBSET Fact
    PROVE  /\ TokenEvent(t, op, what) \in Event
           /\ TokenEvent(t, op, what).op = op /\ TokenEvent(t, op, what).of = t.home
           /\ TokenEvent(t, op, what).key = t.step /\ TokenEvent(t, op, what).n = t.n
           /\ TokenEvent(t, op, what).cmd = "none" /\ TokenEvent(t, op, what).what = what
<1>1. t.home \in Branch \cup {NoBranch} /\ t.step \in Step /\ t.n \in Nat
      /\ "none" \in EventCommand
  BY DEF Token, EventCommand
<1>2. TokenEvent(t, op, what) \in Event
  BY <1>1, ActivityEventType DEF TokenEvent
<1> QED BY <1>2 DEF TokenEvent, ActivityEvent

\* The failure of an attempt leaves the run's status as it was.
LEMMA FailedKeepsStatus ==
    ASSUME NEW r, Good(r), NEW e \in Event, e.key \in Step, e.op = "failed",
           Fresh(r, e), Legal(r, e)
    PROVE  Emit(r, e).proj.status = r.proj.status
<1>1. Emit(r, e).proj = ApplyFailed(r.proj, e, NextSequence(r))
  BY EmitTaken DEF Project, ActivityOp
<1>2. r.proj \in Projection
  BY GoodParts
<1> HIDE DEF Emit
<1> QED BY <1>1, <1>2 DEF ApplyFailed, WithVerdict, WithActivity, Projection

\* new differs from old by one attempt of step s that now awaits its
\* reconciliation.
SentToReconcile(old, new, s) ==
    /\ MovesOnly(old, new, s)
    /\ new.proj.acts[s].home = old.proj.acts[s].home
    /\ LatestIs(new.proj.acts[s], "reconcile_required")
    /\ \A n \in DOMAIN new.proj.acts[s].attempts :
           new.proj.acts[s].attempts[n].status # "running"

\* An ambiguous failure of an unsafe attempt, with the event that
\* fail_activity appends right after it.
LEMMA AmbiguousFailureFacts ==
    ASSUME NEW r, SettledRun(r), NEW t \in Token,
           NEW what \in SUBSET Fact, "ambiguous" \in what,
           Fresh(r, TokenEvent(t, "failed", what)), Legal(r, TokenEvent(t, "failed", what))
    PROVE  LET r1 == Emit(r, TokenEvent(t, "failed", what))
               r2 == Emit(r1, TokenEvent(t, "reconcile_required", {"reported"}))
           IN  SettledRun(r2) /\ SentToReconcile(r, r2, t.step)
<1> DEFINE e == TokenEvent(t, "failed", what)
           e2 == TokenEvent(t, "reconcile_required", {"reported"})
           r1 == Emit(r, e)
           r2 == Emit(r1, e2)
           s == t.step
<1>1. /\ LedgerFacts(r) /\ AmbiguousIsReported(r) /\ NothingIdle(r) /\ Good(r)
      /\ r.log \in Seq(Event) /\ Len(r.log) \in Nat /\ DOMAIN r.log = 1..Len(r.log)
      /\ r.depth = r.depth
  BY GoodParts DEF SettledRun, LedgerFacts
<1>2. /\ e \in Event /\ e.op = "failed" /\ e.of = t.home /\ e.key = s /\ e.n = t.n
      /\ e.cmd = "none" /\ e.what = what /\ s \in Step
  <2>1. "failed" \in ActivityOp /\ s \in Step
    BY DEF ActivityOp, Token
  <2> QED BY <2>1, TokenEventFacts
<1>3. /\ e2 \in Event /\ e2.op = "reconcile_required" /\ e2.of = t.home
      /\ e2.key = s /\ e2.n = t.n /\ e2.cmd = "none"
  <2>1. "reconcile_required" \in ActivityOp /\ {"reported"} \in SUBSET Fact
    BY DEF ActivityOp, Fact
  <2> QED BY <2>1, TokenEventFacts
<1> HIDE DEF e, e2, s
<1>4. Fresh(r, e) /\ Legal(r, e)
  BY DEF e
<1>5. /\ e.of = r.proj.acts[s].home /\ e.n = Len(r.proj.acts[s].attempts)
      /\ LatestIs(r.proj.acts[s], "running")
  BY <1>1, <1>2, <1>4, FinishFacts
<1>6. PICK v : Ruled(r, r1, s, v) /\ v.status = "failed"
  BY <1>1, <1>2, <1>4, FinishFacts
<1>7. /\ Good(r1) /\ r1.log = Append(r.log, e) /\ r1.depth = r.depth
      /\ r1.proj.status = r.proj.status
  BY <1>1, <1>2, <1>4, EmitTaken, FailedKeepsStatus DEF ActivityOp
<1>8. EnsureActive(r)
  BY <1>2, <1>4 DEF Legal, LegalFinished
<1> HIDE DEF r1
<1>9. /\ LedgerFacts(r1) /\ MovesOnly(r, r1, s) /\ Movable(r1, s)
      /\ r1.proj.acts[s].home = r.proj.acts[s].home
      /\ Len(r1.proj.acts[s].attempts) = Len(r.proj.acts[s].attempts)
      /\ HasAttempt(r1.proj.acts[s]) /\ Latest(r1.proj.acts[s]).status = "failed"
      /\ r1.proj.acts[s] \in Activity
  BY <1>2, <1>6, <1>7, GoodParts DEF Ruled
<1>10. /\ Extends(r, r1) /\ Len(r1.log) = Len(r.log) + 1
       /\ DOMAIN r1.log = 1..(Len(r.log) + 1)
       /\ DOMAIN r1.log \ DOMAIN r.log = {Len(r.log) + 1} /\ r1.log[Len(r.log) + 1] = e
  BY <1>1, <1>2, <1>7, AppendExtends
<1>11. Fresh(r1, e2)
  <2> SUFFICES ASSUME NEW i \in DOMAIN r1.log, SameId(r1.log[i], e2) PROVE FALSE
    BY DEF Fresh
  <2>1. r1.log[i].op = "reconcile_required" /\ r1.log[i].of = r.proj.acts[s].home
        /\ r1.log[i].key = s /\ r1.log[i].n = Len(r.proj.acts[s].attempts)
    BY <1>2, <1>3, <1>5 DEF SameId
  <2>2. i # Len(r.log) + 1
    BY <1>2, <1>10, <2>1
  <2>3. i \in DOMAIN r.log /\ r.log[i] = r1.log[i]
    BY <1>10, <2>2 DEF Extends
  <2>4. /\ Mentions(r.log[i], r.proj.acts[s].home, s)
        /\ r.proj.acts[s].home # NoBranch /\ LogFits(r, r.proj.acts[s], s)
    BY <1>1, <1>2, <1>5, <2>1, <2>3
       DEF Mentions, ActivityOp, LedgerFacts, ActivityFacts, LatestIs
  <2> QED BY <1>5, <2>1, <2>3, <2>4 DEF LogFits
<1>12. Legal(r1, e2)
  <2>1. Len(r1.proj.acts[s].attempts) \in DOMAIN r1.proj.acts[s].attempts
        /\ Latest(r1.proj.acts[s]) =
             r1.proj.acts[s].attempts[Len(r1.proj.acts[s].attempts)]
    BY <1>9, ActivityParts
  <2>2. EnsureActive(r1)
    BY <1>7, <1>8 DEF EnsureActive, IsTerminal
  <2> QED BY <1>2, <1>3, <1>5, <1>9, <2>1, <2>2
          DEF Legal, LegalReconcileRequired, AttemptFound, AttemptOf, ActivityOf
<1>13. PICK v2 : Ruled(r1, r2, s, v2) /\ v2.status = "reconcile_required"
  <2>1. e2.of = r1.proj.acts[e2.key].home /\ e2.n = Len(r1.proj.acts[e2.key].attempts)
        /\ Movable(r1, e2.key) /\ e2.key \in Step
    BY <1>2, <1>3, <1>5, <1>9
  <2> QED BY <1>3, <1>9, <1>11, <1>12, <2>1, ReconcileRequiredFacts
<1>14. r2.log = Append(r1.log, e2) /\ r2.depth = r1.depth /\ r1.log \in Seq(Event)
  BY <1>2, <1>3, <1>7, <1>11, <1>12, EmitTaken, GoodParts DEF ActivityOp
<1> HIDE DEF r2
<1>15. /\ Extends(r1, r2) /\ Len(r2.log) = Len(r1.log) + 1
       /\ DOMAIN r2.log = 1..(Len(r1.log) + 1)
       /\ DOMAIN r2.log \ DOMAIN r1.log = {Len(r1.log) + 1} /\ r2.log[Len(r1.log) + 1] = e2
  BY <1>3, <1>14, AppendExtends
<1>16. /\ LedgerFacts(r2) /\ MovesOnly(r1, r2, s)
       /\ r2.proj.acts[s].home = r1.proj.acts[s].home
       /\ LatestIs(r2.proj.acts[s], "reconcile_required") /\ HasAttempt(r2.proj.acts[s])
       /\ \A n \in DOMAIN r2.proj.acts[s].attempts :
            r2.proj.acts[s].attempts[n].status # "running"
  BY <1>13 DEF Ruled, LatestIs
<1>17. MovesOnly(r, r2, s) /\ Extends(r, r2)
  BY <1>1, <1>9, <1>10, <1>15, <1>16, ExtendsTransitive
<1>18. AmbiguousIsReported(r2)
  <2> DEFINE reported(i) == \E j \in DOMAIN r2.log :
                 /\ r2.log[j].op = "reconcile_required" /\ r2.log[j].of = r2.log[i].of
                 /\ r2.log[j].key = r2.log[i].key /\ r2.log[j].n = r2.log[i].n
                 /\ r2.log[j].cmd = "none"
  <2> SUFFICES ASSUME NEW i \in DOMAIN r2.log, r2.log[i].op = "failed",
                      "ambiguous" \in r2.log[i].what, r2.log[i].key \in UnsafeStep
               PROVE  reported(i)
    BY DEF AmbiguousIsReported
  <2>1. CASE i \in DOMAIN r.log
    <3>1. r2.log[i] = r.log[i]
      BY <1>17, <2>1 DEF Extends
    <3>2. PICK j \in DOMAIN r.log :
             /\ r.log[j].op = "reconcile_required" /\ r.log[j].of = r.log[i].of
             /\ r.log[j].key = r.log[i].key /\ r.log[j].n = r.log[i].n
             /\ r.log[j].cmd = "none"
      BY <1>1, <2>1, <3>1 DEF AmbiguousIsReported
    <3>3. j \in DOMAIN r2.log /\ r2.log[j] = r.log[j]
      BY <1>17 DEF Extends
    <3> QED BY <3>1, <3>2, <3>3
  <2>2. CASE i \notin DOMAIN r.log
    <3>1. i = Len(r.log) + 1 \/ i = Len(r1.log) + 1
      BY <1>10, <1>15, <2>2
    <3>2. r2.log[Len(r1.log) + 1] = e2 /\ Len(r1.log) + 1 \in DOMAIN r2.log
      BY <1>1, <1>10, <1>15
    <3>3. r2.log[i] = e
      <4>1. i # Len(r1.log) + 1
        BY <1>3, <3>2
      <4>2. i \in DOMAIN r1.log /\ r1.log[i] = e
        BY <1>10, <3>1, <4>1
      <4> QED BY <1>15, <4>2 DEF Extends
    <3> QED BY <1>2, <1>3, <3>2, <3>3
  <2> QED BY <2>1, <2>2
<1>19. NothingIdle(r2)
  BY <1>1, <1>16, <1>17 DEF NothingIdle, MovesOnly
<1> QED BY <1>9, <1>16, <1>17, <1>18, <1>19 DEF SettledRun, SentToReconcile, r1, r2, e, e2, s

\* What an executor reports of its failed attempt.
FailFacts(retryable, ambiguous) ==
    {f \in {"retryable", "ambiguous"} : IF f = "retryable" THEN retryable ELSE ambiguous}

\* fail_activity, when the report is taken: the attempt of an ambiguous unsafe
\* activity awaits reconciliation; otherwise a decision follows the verdict.
FailTaken(r, t, ambiguous, d) ==
    \/ /\ ambiguous /\ t.step \in UnsafeStep /\ d.told # "execute"
       /\ SentToReconcile(r, d.run, t.step)
    \/ \E r1, v : /\ ~(ambiguous /\ t.step \in UnsafeStep)
                  /\ Ruled(r, r1, t.step, v) /\ v.status = "failed"
                  /\ Decided(r1, d, t.step)

\* A report that was taken before, or is refused, is answered at most by a
\* decision.
LEMMA FailOutcomeFacts ==
    ASSUME NEW r, SettledRun(r), NEW t \in Token,
           NEW retryable \in BOOLEAN, NEW ambiguous \in BOOLEAN
    PROVE  LET d == FailOutcome(r, t, retryable, ambiguous)
               e == TokenEvent(t, "failed", FailFacts(retryable, ambiguous))
           IN  /\ SettledRun(d.run)
               /\ IF Fresh(r, e) /\ Legal(r, e) THEN FailTaken(r, t, ambiguous, d)
                                               ELSE Decided(r, d, t.step)
<1> DEFINE d == FailOutcome(r, t, retryable, ambiguous)
           what == FailFacts(retryable, ambiguous)
           e == TokenEvent(t, "failed", what)
           r1 == Emit(r, e)
           s == t.step
<1>1. /\ LedgerFacts(r) /\ AmbiguousIsReported(r) /\ NothingIdle(r) /\ Good(r)
      /\ Len(r.log) \in Nat
  BY GoodParts DEF SettledRun, LedgerFacts
<1>2. /\ e \in Event /\ e.op = "failed" /\ e.of = t.home /\ e.key = s /\ e.n = t.n
      /\ e.cmd = "none" /\ e.what = what /\ s \in Step /\ what \in SUBSET Fact
      /\ ("ambiguous" \in what) <=> ambiguous
  <2>1. "failed" \in ActivityOp /\ s \in Step /\ what \in SUBSET Fact
    BY DEF ActivityOp, Token, FailFacts, Fact
  <2>2. ("ambiguous" \in what) <=> ambiguous
    BY DEF FailFacts
  <2> HIDE DEF what
  <2> QED BY <2>1, <2>2, TokenEventFacts
<1>3. RetryIsSafe(s, TRUE) <=> s \notin UnsafeStep
  BY <1>2, StepClasses DEF RetryIsSafe, Step
<1>4. d = IF ~Accepted(r, e) \/ r.proj.acts[s].home # t.home
          THEN Decision(r, "error", t.n)
          ELSE IF ambiguous /\ ~RetryIsSafe(s, TRUE)
          THEN Decision(Emit(r1, TokenEvent(t, "reconcile_required", {"reported"})),
                        "reconcile", t.n)
          ELSE IF retryable THEN Decide(r1, s)
          ELSE Decision(r1, "failed", t.n)
  BY DEF FailOutcome, FailFacts
<1>5. \A told, n : told # "execute" => Decided(r, Decision(r, told, n), s)
  BY <1>1, <1>2, StaysDecided
<1> HIDE DEF what, e, d
<1>6. CASE ~Accepted(r, e) \/ r.proj.acts[s].home # t.home
  <2>1. d = Decision(r, "error", t.n)
    BY <1>4, <1>6
  <2>2. Decided(r, d, s)
    BY <1>5, <2>1
  <2>3. SettledRun(d.run)
    BY <1>2, <2>2, DecidedIsSettled
  <2>4. ~(Fresh(r, e) /\ Legal(r, e))
    <3>1. e.op \in {"completed", "cancelled", "failed", "interrupted"}
      BY <1>2
    <3> QED BY <1>1, <1>2, <1>6, <3>1, FinishFacts DEF Accepted
  <2> QED BY <2>2, <2>3, <2>4 DEF d, e, what
<1>7. CASE /\ Accepted(r, e) /\ r.proj.acts[s].home = t.home
           /\ ~(Fresh(r, e) /\ Legal(r, e))
  <2>1. r1 = r /\ Known(r, e)
    BY <1>7 DEF Emit, Accepted
  <2>2. CASE ambiguous /\ ~RetryIsSafe(s, TRUE)
    <3> DEFINE e2 == TokenEvent(t, "reconcile_required", {"reported"})
    <3>1. /\ e2.op = "reconcile_required" /\ e2.of = t.home /\ e2.key = s
          /\ e2.n = t.n /\ e2.cmd = "none"
      BY DEF TokenEvent, ActivityEvent
    <3>2. PICK i \in DOMAIN r.log : r.log[i] = e
      BY <2>1 DEF Known
    <3>3. PICK j \in DOMAIN r.log :
             /\ r.log[j].op = "reconcile_required" /\ r.log[j].of = r.log[i].of
             /\ r.log[j].key = r.log[i].key /\ r.log[j].n = r.log[i].n
             /\ r.log[j].cmd = "none"
      BY <1>1, <1>2, <1>3, <2>2, <3>2 DEF AmbiguousIsReported
    <3> HIDE DEF e2
    <3>4. ~Fresh(r, e2)
      BY <1>2, <3>1, <3>2, <3>3 DEF Fresh, SameId
    <3>5. Emit(r1, e2) = r
      BY <2>1, <3>4 DEF Emit
    <3>6. d = Decision(r, "reconcile", t.n)
      BY <1>4, <1>7, <2>2, <3>5 DEF e2
    <3>7. Decided(r, d, s)
      BY <1>5, <3>6
    <3>8. SettledRun(d.run)
      BY <1>2, <3>7, DecidedIsSettled
    <3> QED BY <1>7, <3>7, <3>8 DEF d, e, what
  <2>3. CASE ~(ambiguous /\ ~RetryIsSafe(s, TRUE))
    <3>1. d = Decide(r, s) \/ d = Decision(r, "failed", t.n)
      BY <1>4, <1>7, <2>1, <2>3
    <3>2. Decided(r, d, s)
      BY <1>1, <1>2, <1>5, <3>1, DecideFacts
    <3>3. SettledRun(d.run)
      BY <1>2, <3>2, DecidedIsSettled
    <3> QED BY <1>7, <3>2, <3>3 DEF d, e, what
  <2> QED BY <2>2, <2>3
<1>8. CASE /\ Accepted(r, e) /\ r.proj.acts[s].home = t.home
           /\ Fresh(r, e) /\ Legal(r, e)
  <2>1. CASE ambiguous /\ ~RetryIsSafe(s, TRUE)
    <3> DEFINE r2 == Emit(r1, TokenEvent(t, "reconcile_required", {"reported"}))
    <3>1. SettledRun(r2) /\ SentToReconcile(r, r2, s)
      BY <1>2, <1>8, <2>1, AmbiguousFailureFacts DEF e
    <3> HIDE DEF r2, r1
    <3>2. d = Decision(r2, "reconcile", t.n)
      BY <1>4, <1>8, <2>1 DEF r2
    <3>3. d.run = r2 /\ d.told = "reconcile"
      BY <3>2 DEF Decision
    <3> QED BY <1>3, <1>8, <2>1, <3>1, <3>3 DEF FailTaken, d, e, what
  <2>2. CASE ~(ambiguous /\ ~RetryIsSafe(s, TRUE))
    <3>1. PICK v : Ruled(r, r1, s, v) /\ v.status = "failed"
      BY <1>1, <1>2, <1>8, FinishFacts
    <3>2. Extends(r, r1) /\ \A i \in DOMAIN r1.log \ DOMAIN r.log : r1.log[i] = e
      BY <1>1, <1>2, EmitExtends DEF ActivityOp
    <3>3. ~("ambiguous" \in what /\ s \in UnsafeStep)
      BY <1>2, <1>3, <2>2
    <3> HIDE DEF r1
    <3>4. AmbiguousIsReported(r1)
      <4> DEFINE reported(i) == \E j \in DOMAIN r1.log :
                 /\ r1.log[j].op = "reconcile_required" /\ r1.log[j].of = r1.log[i].of
                 /\ r1.log[j].key = r1.log[i].key /\ r1.log[j].n = r1.log[i].n
                 /\ r1.log[j].cmd = "none"
      <4> SUFFICES ASSUME NEW i \in DOMAIN r1.log, r1.log[i].op = "failed",
                          "ambiguous" \in r1.log[i].what, r1.log[i].key \in UnsafeStep
                   PROVE  reported(i)
        BY DEF AmbiguousIsReported
      <4>1. i \in DOMAIN r.log
        BY <1>2, <3>2, <3>3
      <4>2. r1.log[i] = r.log[i]
        BY <3>2, <4>1 DEF Extends
      <4>3. PICK j \in DOMAIN r.log :
               /\ r.log[j].op = "reconcile_required" /\ r.log[j].of = r.log[i].of
               /\ r.log[j].key = r.log[i].key /\ r.log[j].n = r.log[i].n
               /\ r.log[j].cmd = "none"
        BY <1>1, <4>1, <4>2 DEF AmbiguousIsReported
      <4>4. j \in DOMAIN r1.log /\ r1.log[j] = r.log[j]
        BY <3>2 DEF Extends
      <4> QED BY <4>2, <4>3, <4>4
    <3>5. SettledRun(r1) /\ LedgerFacts(r1)
      BY <1>2, <3>1, <3>4, RuledIsSettled DEF Ruled
    <3>6. d = Decide(r1, s) \/ d = Decision(r1, "failed", t.n)
      BY <1>4, <1>8, <2>2
    <3>7. Decided(r1, d, s)
      BY <1>2, <3>5, <3>6, DecideFacts, StaysDecided
    <3>8. SettledRun(d.run)
      BY <1>2, <3>5, <3>7, DecidedIsSettled
    <3>9. ~(ambiguous /\ s \in UnsafeStep)
      BY <1>3, <2>2
    <3> QED BY <1>8, <3>1, <3>7, <3>8, <3>9 DEF FailTaken, d, e, what
  <2> QED BY <2>1, <2>2
<1> QED BY <1>6, <1>7, <1>8

\* new has the activities of old, and a checkpoint that old does not have
\* shows them.
SameActivities(old, new) ==
    /\ Extends(old, new)
    /\ new.proj.acts = old.proj.acts
    /\ \A c \in CheckpointId :
         \/ new.ckpts[c] = old.ckpts[c]
         \/ new.ckpts[c].at = Len(old.log) + 1 /\ new.ckpts[c].proj = old.proj

\* What append_event assigns for an event of an approval, a checkpoint or a
\* command that it takes.
LEMMA RunEmitTaken ==
    ASSUME NEW r, Good(r), NEW e \in Event, RunEventFits(r, e), Fresh(r, e), Legal(r, e)
    PROVE  /\ Good(Emit(r, e))
           /\ Emit(r, e).depth = r.depth
           /\ Emit(r, e).log = Append(r.log, e)
           /\ Emit(r, e).proj = Project(r, e)
           /\ Emit(r, e).ckpts = IF e.op = "committed" THEN ApplyCommitted(r, e) ELSE r.ckpts
<1> DEFINE log == Append(r.log, e)
           proj == Project(r, e)
           ckpts == IF e.op = "committed" THEN ApplyCommitted(r, e) ELSE r.ckpts
           new == [r EXCEPT !.log = log, !.proj = proj, !.ckpts = ckpts]
<1>1. Good(Emit(r, e)) /\ Emit(r, e).depth = r.depth
  BY EmitKeeps
<1>2. Emit(r, e) = new
  BY DEF Emit
<1>3. r \in RunState
  BY DEF Good
<1> HIDE DEF log, proj, ckpts
<1>4. new.log = log /\ new.proj = proj /\ new.ckpts = ckpts
  BY <1>3 DEF RunState
<1> QED BY <1>1, <1>2, <1>4 DEF log, proj, ckpts

\* Such an event, other than a rewind, changes no activity; a checkpoint is
\* committed once every activity is final.
LEMMA RunEventFacts ==
    ASSUME NEW r, SettledRun(r), NEW e \in Event, RunEventFits(r, e), e.op # "rewind",
           e.op = "committed" => Settled(r.proj)
    PROVE  SettledRun(Emit(r, e)) /\ SameActivities(r, Emit(r, e))
<1>1. /\ LedgerFacts(r) /\ AmbiguousIsReported(r) /\ NothingIdle(r) /\ Good(r)
      /\ r.log \in Seq(Event) /\ Len(r.log) \in Nat /\ r.proj \in Projection
      /\ r.ckpts \in [CheckpointId -> Checkpoint]
  BY GoodParts DEF SettledRun, LedgerFacts
<1>2. CASE ~(Fresh(r, e) /\ Legal(r, e))
  <2>1. Emit(r, e) = r
    BY <1>2 DEF Emit
  <2> QED BY <1>1, <2>1 DEF SameActivities, Extends
<1>3. CASE Fresh(r, e) /\ Legal(r, e)
  <2> DEFINE r2 == Emit(r, e)
  <2>1. /\ Good(r2) /\ r2.depth = r.depth /\ r2.log = Append(r.log, e)
        /\ r2.proj = Project(r, e)
        /\ r2.ckpts = IF e.op = "committed" THEN ApplyCommitted(r, e) ELSE r.ckpts
    BY <1>1, <1>3, RunEmitTaken
  <2> HIDE DEF r2
  <2>2. r2.proj.acts = r.proj.acts /\ r2.proj.branch = r.proj.branch
    <3>1. CASE e.op = "requested"
      BY <1>1, <2>1, <3>1 DEF Project, ApplyRequested, Projection
    <3>2. CASE e.op \in {"pause", "complete", "fail", "cancel"}
      <4>1. \E status \in ActiveStatus \cup TerminalStatus :
                Project(r, e) = WithStatus(r.proj, status)
        BY <3>2 DEF Project, ActiveStatus, TerminalStatus
      <4> QED BY <1>1, <2>1, <4>1, WithStatusType
    <3>3. CASE e.op \in {"fork", "committed"}
      BY <2>1, <3>3 DEF Project
    <3> QED BY <3>1, <3>2, <3>3 DEF RunEventFits
  <2>3. /\ Extends(r, r2) /\ Len(r2.log) = Len(r.log) + 1
        /\ DOMAIN r2.log \ DOMAIN r.log = {Len(r.log) + 1} /\ r2.log[Len(r.log) + 1] = e
    BY <1>1, <2>1, AppendExtends
  <2>4. e.op \notin ActivityOp
    BY DEF RunEventFits, ActivityOp
  <2>5. ASSUME NEW c \in CheckpointId
        PROVE  \/ r2.ckpts[c] = r.ckpts[c]
               \/ /\ e.op = "committed"
                  /\ r2.ckpts[c].at = Len(r.log) + 1 /\ r2.ckpts[c].proj = r.proj
    BY <1>1, <2>1 DEF ApplyCommitted, NextSequence
  <2>6. SameActivities(r, r2)
    BY <2>2, <2>3, <2>5 DEF SameActivities
  <2>7. \A s \in Step : ActivityFacts(r, r2.proj.acts[s], s)
    BY <1>1, <2>2 DEF LedgerFacts
  <2>8. ASSUME NEW c \in CheckpointId, r2.ckpts[c].at # 0
        PROVE  /\ r2.ckpts[c].at <= Len(r2.log)
               /\ \A s \in Step :
                   /\ ActivityFacts(r, r2.ckpts[c].proj.acts[s], s)
                   /\ r2.ckpts[c].proj.acts[s].home # NoBranch =>
                        /\ Final(r2.ckpts[c].proj.acts[s])
                        /\ r2.ckpts[c].proj.acts[s].home = r2.proj.acts[s].home
                             => Final(r2.proj.acts[s])
    <3>1. CASE r2.ckpts[c] = r.ckpts[c]
      <4>1. CheckpointFacts(r, r.ckpts[c]) /\ r.ckpts[c].at \in Nat
        BY <1>1 DEF LedgerFacts, Checkpoint
      <4> QED BY <1>1, <2>2, <2>3, <2>8, <3>1, <4>1 DEF CheckpointFacts
    <3>2. CASE /\ e.op = "committed"
               /\ r2.ckpts[c].at = Len(r.log) + 1 /\ r2.ckpts[c].proj = r.proj
      <4>1. Settled(r.proj)
        BY <3>2
      <4>2. \A s \in Step : r.proj.acts[s].home # NoBranch => Final(r.proj.acts[s])
        BY <1>1, <4>1 DEF Settled, NothingIdle, Final
      <4>3. r2.ckpts[c].at <= Len(r2.log)
        BY <1>1, <2>3, <3>2
      <4> QED BY <2>2, <2>7, <3>2, <4>2, <4>3
    <3> QED BY <2>5, <3>1, <3>2
  <2>9. r2.proj.branch[1] = r2.depth
    BY <1>1, <2>1, <2>2 DEF LedgerFacts
  <2>10. \A i \in DOMAIN r2.log \ DOMAIN r.log : r2.log[i].op \notin ActivityOp
    BY <2>3, <2>4
  <2>11. LedgerFacts(r2)
    BY <1>1, <2>1, <2>3, <2>7, <2>8, <2>9, <2>10, OtherEventsKeep
  <2>12. AmbiguousIsReported(r2)
    BY <1>1, <2>3, <2>10, ReportedStays DEF NoNewFailure, ActivityOp
  <2>13. NothingIdle(r2)
    BY <1>1, <2>2 DEF NothingIdle
  <2> QED BY <2>6, <2>11, <2>12, <2>13 DEF SettledRun, r2
<1> QED BY <1>2, <1>3

\* A rewind that is taken restores activities that are final.
LEMMA RewindFacts ==
    ASSUME NEW r, SettledRun(r), NEW e \in Event, RunEventFits(r, e), e.op = "rewind",
           Fresh(r, e), Legal(r, e)
    PROVE  /\ SettledRun(Emit(r, e)) /\ Extends(r, Emit(r, e))
           /\ Emit(r, e).proj.acts = r.ckpts[e.ck].proj.acts
           /\ Emit(r, e).ckpts = r.ckpts
           /\ e.ck \in CheckpointId /\ r.ckpts[e.ck].at # 0
           /\ ReconciledAfter(r, r.ckpts[e.ck].at, "acked" \in e.what)
<1> DEFINE r2 == Emit(r, e)
           ck == r.ckpts[e.ck]
           branch == <<r.depth, e.cmd>>
<1>1. /\ LedgerFacts(r) /\ AmbiguousIsReported(r) /\ NothingIdle(r) /\ Good(r)
      /\ r.log \in Seq(Event) /\ Len(r.log) \in Nat /\ r.depth \in 0..MaxForks
      /\ r.ckpts \in [CheckpointId -> Checkpoint]
      /\ \A c \in CheckpointId : GoodSnapshot(r.ckpts[c])
  BY GoodParts DEF SettledRun, LedgerFacts, Good
<1>2. e.ck \in CheckpointId /\ e.cmd \in Command
  BY DEF RunEventFits, ActivityOp
<1>3. ck.at # 0 /\ ReconciledAfter(r, ck.at, "acked" \in e.what)
  BY DEF Legal, LegalBranchOff
<1>4. /\ Good(r2) /\ r2.depth = r.depth /\ r2.log = Append(r.log, e)
      /\ r2.proj = Project(r, e) /\ r2.ckpts = r.ckpts
  BY <1>1, RunEmitTaken
<1>5. ck \in Checkpoint /\ ck.proj \in Projection /\ CheckpointFacts(r, ck)
  BY <1>1, <1>2 DEF Checkpoint, LedgerFacts
<1>6. Project(r, e) = WithStatus(ForkProjection(ck.proj, branch), "paused")
  BY DEF Project, ApplyRewind
<1> HIDE DEF r2, ck
<1>7. r2.proj.acts = ck.proj.acts /\ r2.proj.branch = branch
  <2>1. branch \in Branch
    BY <1>1, <1>2 DEF Branch
  <2> HIDE DEF branch
  <2>2. /\ ForkProjection(ck.proj, branch).acts = ck.proj.acts
        /\ ForkProjection(ck.proj, branch).branch = branch
        /\ ForkProjection(ck.proj, branch) \in Projection
    <3>1. ck.proj.status \in {"running", "paused"} /\ Coherent(ck.proj)
      BY <1>1, <1>2, <1>3 DEF GoodSnapshot, ck
    <3>2. ForkProjection(ck.proj, branch) \in Projection
      BY <1>5, <2>1, <3>1, ForkProjectionType
    <3>3. ForkProjection(ck.proj, branch).branch = branch
      BY <1>5 DEF ForkProjection, Projection
    <3> QED BY <1>5, <2>1, <3>1, <3>2, <3>3, ForkProjectionType
  <2> QED BY <1>4, <1>6, <2>2, WithStatusType DEF ActiveStatus
<1>8. /\ Extends(r, r2) /\ Len(r2.log) = Len(r.log) + 1
      /\ DOMAIN r2.log \ DOMAIN r.log = {Len(r.log) + 1} /\ r2.log[Len(r.log) + 1] = e
  BY <1>1, <1>4, AppendExtends
<1>9. \A i \in DOMAIN r2.log \ DOMAIN r.log : r2.log[i].op \notin ActivityOp
  BY <1>8 DEF ActivityOp
<1>10. \A s \in Step : /\ ActivityFacts(r, r2.proj.acts[s], s)
                       /\ r2.proj.acts[s].home # NoBranch => Final(r2.proj.acts[s])
  BY <1>3, <1>5, <1>7 DEF CheckpointFacts
<1>11. ASSUME NEW c \in CheckpointId, r2.ckpts[c].at # 0
       PROVE  /\ r2.ckpts[c].at <= Len(r2.log)
              /\ \A s \in Step :
                   /\ ActivityFacts(r, r2.ckpts[c].proj.acts[s], s)
                   /\ r2.ckpts[c].proj.acts[s].home # NoBranch =>
                        /\ Final(r2.ckpts[c].proj.acts[s])
                        /\ r2.ckpts[c].proj.acts[s].home = r2.proj.acts[s].home
                             => Final(r2.proj.acts[s])
  <2>1. CheckpointFacts(r, r.ckpts[c]) /\ r.ckpts[c].at \in Nat /\ r2.ckpts[c] = r.ckpts[c]
    BY <1>1, <1>4 DEF LedgerFacts, Checkpoint
  <2> QED BY <1>1, <1>8, <1>10, <1>11, <2>1 DEF CheckpointFacts
<1>12. r2.proj.branch[1] = r2.depth
  BY <1>4, <1>7
<1>13. LedgerFacts(r2)
  BY <1>1, <1>4, <1>8, <1>9, <1>10, <1>11, <1>12, OtherEventsKeep
<1>14. AmbiguousIsReported(r2)
  BY <1>1, <1>8, <1>9, ReportedStays DEF NoNewFailure, ActivityOp
<1>15. NothingIdle(r2)
  BY <1>10 DEF NothingIdle, Final
<1> QED BY <1>2, <1>3, <1>4, <1>7, <1>8, <1>13, <1>14, <1>15 DEF SettledRun, r2, ck

\* The parts of one log put after another.
LEMMA ConcatParts ==
    ASSUME NEW S, NEW p \in Seq(S), NEW T, NEW q \in Seq(T)
    PROVE  /\ Len(p) \in Nat /\ Len(q) \in Nat
           /\ DOMAIN (p \o q) = 1..(Len(p) + Len(q)) /\ Len(p \o q) = Len(p) + Len(q)
           /\ DOMAIN p = 1..Len(p)
           /\ \A i \in DOMAIN p : i \in DOMAIN (p \o q) /\ (p \o q)[i] = p[i]
           /\ \A i \in DOMAIN (p \o q) \ DOMAIN p :
                \E j \in 1..Len(q) : (p \o q)[i] = q[j]
<1> DEFINE U == S \cup T
<1>0. p \in Seq(U) /\ q \in Seq(U)
  OBVIOUS
<1> HIDE DEF U
<1>1. /\ Len(p) \in Nat /\ Len(q) \in Nat /\ DOMAIN p = 1..Len(p)
      /\ p \o q \in Seq(U) /\ Len(p \o q) = Len(p) + Len(q)
      /\ DOMAIN (p \o q) = 1..(Len(p) + Len(q))
  BY <1>0
<1>3. \A i \in 1..(Len(p) + Len(q)) : (p \o q)[i] =
           IF i <= Len(p) THEN p[i] ELSE q[i - Len(p)]
  BY <1>0, <1>1
<1> DEFINE k == Len(p)
           m == Len(q)
<1>2. ASSUME NEW i \in 1..(k + m) \ 1..k PROVE i - k \in 1..m /\ ~(i <= k)
  <2>1. k \in Nat /\ m \in Nat
    BY <1>1
  <2> HIDE DEF k, m
  <2> QED BY <1>2, <2>1
<1> QED BY <1>1, <1>2, <1>3

\* resume changes no activity either.
LEMMA ResumeFacts ==
    ASSUME Inv, SettledRun(run), NEW cmd \in Command,
           NEW list \in Listings(Pending(run.proj)),
           NEW approved \in SUBSET Pending(run.proj), Resume(cmd, list, approved)
    PROVE  SettledRun(run') /\ SameActivities(run, run')
<1> DEFINE r2 == run'
           proj == ResumedProjection(run.proj, approved)
           events == ResumeEvents(run, cmd, list, approved)
<1>1. /\ LedgerFacts(run) /\ AmbiguousIsReported(run) /\ NothingIdle(run) /\ Good(run)
      /\ run.log \in Seq(Event) /\ Len(run.log) \in Nat /\ run.proj \in Projection
      /\ run \in RunState /\ run.ckpts \in [CheckpointId -> Checkpoint]
  BY GoodParts DEF SettledRun, LedgerFacts
<1>2. Good(r2)
  BY ResumeKeeps
<1>3. /\ r2 = [run EXCEPT !.log = run.log \o events, !.proj = proj]
  BY DEF Resume
<1>4. PICK n \in Nat : list \in [1..n -> Pending(run.proj)]
  BY BoundsAreNaturals DEF Listings
<1>5. /\ events \in Seq({events[i] : i \in 1..(n + 1)}) /\ Len(events) = n + 1
      /\ \A i \in 1..(n + 1) : events[i].op \in {"resolved", "resume"}
  <2> DEFINE resolved == [i \in DOMAIN list |->
                 KeyedEvent("resolved", list[i], cmd,
                            IF list[i] \in approved THEN {"approved"} ELSE {})]
             last == CommandEvent("resume", run.depth, cmd, {}, NoCheckpoint)
  <2>1. /\ DOMAIN list = 1..n
        /\ \A i \in 1..n : resolved[i].op = "resolved"
        /\ last.op = "resume"
    BY <1>4 DEF KeyedEvent, CommandEvent
  <2>2. resolved \in Seq({resolved[i] : i \in 1..n}) /\ Len(resolved) = n
    BY <1>4, <2>1
  <2>3. events = resolved \o <<last>>
    BY DEF ResumeEvents
  <2> HIDE DEF resolved, last, events
  <2>4. /\ Len(events) = n + 1 /\ DOMAIN events = 1..(n + 1)
        /\ \A i \in 1..n : events[i] = resolved[i]
        /\ events[n + 1] = last
    BY <2>2, <2>3
  <2>5. events \in Seq({events[i] : i \in 1..(n + 1)})
    <3>1. \E m \in Nat : DOMAIN resolved = 1..m
      BY <2>2
    <3>2. events = [i \in 1..(n + 1) |-> events[i]]
      <4>1. events = [i \in 1..(Len(resolved) + Len(<<last>>)) |->
                        IF i <= Len(resolved) THEN resolved[i]
                        ELSE <<last>>[i - Len(resolved)]]
        BY <2>2, <2>3
      <4> QED BY <2>2, <4>1
    <3> QED BY <3>2
  <2>6. ASSUME NEW i \in 1..(n + 1) PROVE events[i].op \in {"resolved", "resume"}
    <3>1. i \in 1..n \/ i = n + 1
      BY <2>6
    <3> QED BY <2>1, <2>4, <3>1
  <2> QED BY <2>4, <2>5, <2>6
<1> HIDE DEF events
<1>6. /\ r2.depth = run.depth /\ r2.log = run.log \o events /\ r2.proj = proj
      /\ r2.ckpts = run.ckpts
  <2> DEFINE log == run.log \o events
  <2> HIDE DEF log, proj
  <2>1. r2 = [run EXCEPT !.log = log, !.proj = proj]
    BY <1>3 DEF log
  <2> QED BY <1>1, <2>1 DEF RunState, log
<1>7. /\ proj.acts = run.proj.acts /\ proj.branch = run.proj.branch
  BY <1>1 DEF ResumedProjection, Projection
<1> HIDE DEF proj
<1>8. /\ Extends(run, r2)
      /\ \A i \in DOMAIN r2.log \ DOMAIN run.log : r2.log[i].op \in {"resolved", "resume"}
  <2>1. PICK q : q = events
    OBVIOUS
  <2>2. PICK p : p = run.log
    OBVIOUS
  <2>3. PICK T : q \in Seq(T)
    BY <1>5, <2>1
  <2>4. /\ Len(p) \in Nat /\ Len(q) \in Nat /\ Len(p \o q) = Len(p) + Len(q)
        /\ \A i \in DOMAIN p : i \in DOMAIN (p \o q) /\ (p \o q)[i] = p[i]
        /\ \A i \in DOMAIN (p \o q) \ DOMAIN p :
             \E j \in 1..Len(q) : (p \o q)[i] = q[j]
    BY <1>1, <2>2, <2>3, ConcatParts
  <2>5. r2.log = p \o q /\ run.log = p
    BY <1>6, <2>1, <2>2
  <2>6. Len(p) <= Len(p \o q)
    BY <2>4
  <2>7. \A j \in 1..Len(q) : q[j].op \in {"resolved", "resume"}
    BY <1>4, <1>5, <2>1
  <2> QED BY <1>6, <2>4, <2>5, <2>6, <2>7 DEF Extends
<1> HIDE DEF r2
<1>9. \A i \in DOMAIN r2.log \ DOMAIN run.log : r2.log[i].op \notin ActivityOp
  BY <1>8 DEF ActivityOp
<1>10. \A s \in Step : ActivityFacts(run, r2.proj.acts[s], s)
  BY <1>1, <1>6, <1>7 DEF LedgerFacts
<1>11. ASSUME NEW c \in CheckpointId, r2.ckpts[c].at # 0
       PROVE  /\ r2.ckpts[c].at <= Len(r2.log)
              /\ \A s \in Step :
                   /\ ActivityFacts(run, r2.ckpts[c].proj.acts[s], s)
                   /\ r2.ckpts[c].proj.acts[s].home # NoBranch =>
                        /\ Final(r2.ckpts[c].proj.acts[s])
                        /\ r2.ckpts[c].proj.acts[s].home = r2.proj.acts[s].home
                             => Final(r2.proj.acts[s])
  <2>1. CheckpointFacts(run, run.ckpts[c]) /\ run.ckpts[c].at \in Nat
        /\ r2.ckpts[c] = run.ckpts[c] /\ Len(r2.log) \in Nat
    BY <1>1, <1>2, <1>6, GoodParts DEF LedgerFacts, Checkpoint, r2
  <2> QED BY <1>1, <1>6, <1>7, <1>8, <1>11, <2>1 DEF CheckpointFacts, Extends
<1>12. r2.proj.branch[1] = r2.depth
  BY <1>1, <1>6, <1>7 DEF LedgerFacts
<1>13. LedgerFacts(r2)
  <2>1. Good(r2)
    BY <1>2 DEF r2
  <2> QED BY <1>1, <1>8, <1>9, <1>10, <1>11, <1>12, <2>1, OtherEventsKeep
<1>14. AmbiguousIsReported(r2)
  BY <1>1, <1>8, <1>9, ReportedStays DEF NoNewFailure, ActivityOp
<1>15. NothingIdle(r2)
  BY <1>1, <1>6, <1>7 DEF NothingIdle
<1>16. SameActivities(run, r2)
  BY <1>6, <1>7, <1>8 DEF SameActivities
<1> QED BY <1>13, <1>14, <1>15, <1>16 DEF SettledRun, r2

\* The child that fork builds shows the activities of its checkpoint, all
\* of them final.
LEMMA ForkChildFacts ==
    ASSUME Inv, SettledRun(run), NEW cmd \in Command, NEW ck \in CheckpointId,
           NEW acked \in BOOLEAN, ForkChild(cmd, ck, acked)
    PROVE  /\ SettledRun(run')
           /\ run'.depth = run.depth + 1 /\ Len(run'.log) = 1
           /\ run'.proj.acts = run.ckpts[ck].proj.acts
           /\ \A c \in CheckpointId : run'.ckpts[c].at # 0 =>
                run'.ckpts[c].at = 1 /\ run'.ckpts[c].proj.acts = run.ckpts[ck].proj.acts
<1> DEFINE r2 == run'
           old == run.ckpts[ck]
           depth == run.depth + 1
           proj == ForkProjection(old.proj, FirstBranch(depth))
           first == CommandEvent("forked_from", depth, "none", {}, NoCheckpoint)
           ckpts == [c \in CheckpointId |->
                       IF c = ck THEN [at |-> 1, proj |-> proj] ELSE AbsentCheckpoint]
<1>1. /\ LedgerFacts(run) /\ Good(run) /\ run.depth \in 0..MaxForks
      /\ old \in Checkpoint /\ old.proj \in Projection /\ old.at # 0
      /\ CheckpointFacts(run, old)
  BY GoodParts DEF SettledRun, LedgerFacts, Checkpoint, ForkChild, CanFork
<1>2. Good(r2)
  BY ForkChildKeeps
<1>3. r2 = [depth |-> depth, log |-> <<first>>, proj |-> proj, ckpts |-> ckpts]
  BY DEF ForkChild, Child
<1>4. proj.acts = old.proj.acts /\ proj.branch = FirstBranch(depth)
  BY <1>1 DEF ForkProjection, Projection
<1>5. first.op = "forked_from"
  BY DEF CommandEvent
<1>6. /\ depth \in Nat /\ ~(depth <= run.depth) /\ run.depth <= depth
  BY <1>1
<1> HIDE DEF proj, depth, first
<1>7. \A c \in CheckpointId : ckpts[c].at # 0 => c = ck /\ ckpts[c].at = 1 /\ ckpts[c].proj = proj
  BY DEF AbsentCheckpoint
<1> HIDE DEF ckpts
<1>8. /\ r2.depth = depth /\ r2.log = <<first>> /\ r2.proj = proj /\ r2.ckpts = ckpts
      /\ Len(r2.log) = 1 /\ DOMAIN r2.log = {1} /\ r2.log[1] = first
  BY <1>3
<1> HIDE DEF r2, old
<1>9. ASSUME NEW s \in Step
      PROVE  /\ ActivityFacts(r2, old.proj.acts[s], s)
             /\ old.proj.acts[s].home # NoBranch => Final(old.proj.acts[s])
  <2>1. PICK a : a = old.proj.acts[s]
    OBVIOUS
  <2>2. ActivityFacts(run, a, s) /\ (a.home # NoBranch => Final(a)) /\ a \in Activity
    BY <1>1, <2>1 DEF CheckpointFacts, Projection
  <2>3. a.home # NoBranch => a.home[1] <= r2.depth /\ a.home[1] # r2.depth
    <3>1. ASSUME a.home # NoBranch PROVE a.home[1] \in Nat
      BY <2>2, <3>1 DEF Activity, Branch
    <3> QED BY <1>1, <1>6, <1>8, <2>2, <3>1 DEF ActivityFacts
  <2>4. LogFits(r2, a, s)
    BY <1>5, <1>8 DEF LogFits, Mentions, ActivityOp
  <2>5. ActivityFacts(r2, a, s)
    BY <2>2, <2>3, <2>4 DEF ActivityFacts
  <2> QED BY <2>1, <2>2, <2>5
<1>10. \A c \in CheckpointId : CheckpointFacts(r2, r2.ckpts[c])
  BY <1>4, <1>7, <1>8, <1>9 DEF CheckpointFacts
<1>11. SchedulingComesFirst(r2)
  BY <1>5, <1>8 DEF SchedulingComesFirst, ActivityOp
<1>12. LedgerFacts(r2)
  <2>1. r2.proj.branch[1] = r2.depth
    BY <1>4, <1>8 DEF FirstBranch
  <2>2. Good(r2)
    BY <1>2 DEF r2
  <2> QED BY <1>4, <1>8, <1>9, <1>10, <1>11, <2>1, <2>2 DEF LedgerFacts
<1>13. AmbiguousIsReported(r2)
  BY <1>5, <1>8 DEF AmbiguousIsReported
<1>14. NothingIdle(r2)
  BY <1>4, <1>8, <1>9 DEF NothingIdle, Final
<1> QED BY <1>4, <1>7, <1>8, <1>12, <1>13, <1>14 DEF SettledRun, r2, depth, old

\* A new run is settled.
LEMMA InitSettled ==
    ASSUME Init PROVE SettledRun(run)
<1> DEFINE first == CommandEvent("started_run", 0, "none", {}, NoCheckpoint)
<1>1. Good(run)
  BY InitInv DEF Inv
<1>2. /\ run.log = <<first>> /\ DOMAIN run.log = {1} /\ run.log[1] = first
      /\ run.proj = RootProjection /\ run.depth = 0
      /\ \A c \in CheckpointId : run.ckpts[c].at = 0
  <2> HIDE DEF first
  <2>1. run.log = <<first>>
    BY DEF Init, first
  <2>2. run.proj = RootProjection /\ run.depth = 0
        /\ \A c \in CheckpointId : run.ckpts[c].at = 0
    BY DEF Init, AbsentCheckpoint
  <2> QED BY <2>1, <2>2
<1>3. first.op = "started_run"
  BY DEF CommandEvent
<1>4. /\ RootProjection.branch[1] = 0
      /\ \A s \in Step : RootProjection.acts[s] = Unscheduled
  BY DEF RootProjection, FirstBranch
<1>5. Unscheduled.home = NoBranch /\ ~HasAttempt(Unscheduled) /\ DOMAIN Unscheduled.attempts = {}
  BY DEF Unscheduled, HasAttempt
<1> HIDE DEF first
<1>6. \A s \in Step : ActivityFacts(run, run.proj.acts[s], s)
  BY <1>2, <1>4, <1>5 DEF ActivityFacts, ValidActivity, LogFits
<1>7. \A c \in CheckpointId : CheckpointFacts(run, run.ckpts[c])
  BY <1>2 DEF CheckpointFacts
<1>8. SchedulingComesFirst(run) /\ AmbiguousIsReported(run)
  BY <1>2, <1>3 DEF SchedulingComesFirst, AmbiguousIsReported, ActivityOp
<1>9. NothingIdle(run)
  BY <1>2, <1>4, <1>5 DEF NothingIdle
<1> QED BY <1>1, <1>2, <1>4, <1>6, <1>7, <1>8, <1>9 DEF SettledRun, LedgerFacts

-----------------------------------------------------------------------------
(* The executors of unsafe activities, and what really happened. *)

\* An executor that may still have the effect of its attempt.
Armed(t) == ~t.done /\ t.told \in {"none", "ambiguous", "ambiguous_retryable"}

\* What authorised the execution: the start of an attempt in this run's log,
\* or an ancestor.  An attempt that its executor reported on is not running.
TokenFacts(r, t) ==
    /\ t.home # NoBranch
    /\ \/ /\ t.depth = r.depth /\ t.seq \in DOMAIN r.log
          /\ r.log[t.seq].op = "started" /\ r.log[t.seq].of = t.home
          /\ r.log[t.seq].key = t.step /\ r.log[t.seq].n = t.n
       \/ t.depth < r.depth /\ t.seq = 0
    /\ t.depth = r.depth /\ t.told # "none" /\ r.proj.acts[t.step].home = t.home
         /\ t.n \in DOMAIN r.proj.acts[t.step].attempts
         => r.proj.acts[t.step].attempts[t.n].status # "running"

\* The effect of s happened, authorised at or before position at, or an
\* executor authorised there may still have it.
Touched(fl, ef, s, at) ==
    \/ \E i \in 0..MaxEvents : i <= at /\ ef[s][i] > 0
    \/ \E t \in fl : t.step = s /\ Armed(t) /\ t.seq <= at

\* The ledger shows that the effect may have happened.
Shown(a) == /\ a.home # NoBranch /\ HasAttempt(a)
            /\ Latest(a).status \in {"running", "reconcile_required", "completed"}

\* At most one effect, of an execution that the log authorised, and none while
\* somebody may still have it.
DoneOnce(r, fl, ef, s) ==
    \A i \in 0..MaxEvents : ef[s][i] > 0 =>
       /\ ef[s][i] = 1
       /\ i # 0 => i \in DOMAIN r.log /\ r.log[i].op = "started" /\ r.log[i].key = s
       /\ \A j \in 0..MaxEvents : ef[s][j] > 0 => i = j
       /\ \A t \in fl : t.step = s => ~Armed(t)

OneArmed(fl, s) ==
    \A t, u \in fl : t.step = s /\ u.step = s /\ Armed(t) /\ Armed(u) => t = u

\* What is touched is shown, in the projection and in the checkpoints.
TouchedIsShown(r, fl, ef, s) ==
    /\ \A at \in Nat : Touched(fl, ef, s, at) => Shown(r.proj.acts[s])
    /\ \A c \in CheckpointId :
         r.ckpts[c].at # 0 /\ Touched(fl, ef, s, r.ckpts[c].at)
           => Shown(r.ckpts[c].proj.acts[s])

\* What holds of the executors and the effects of an unsafe activity.
StepFacts(r, fl, ef, s) ==
    /\ \A t \in fl : t.step = s => TokenFacts(r, t)
    /\ DoneOnce(r, fl, ef, s)
    /\ OneArmed(fl, s)
    /\ TouchedIsShown(r, fl, ef, s)

\* An attempt of s that runs in r2 ran in r, or is new.
StillRunning(r, r2, s) ==
    \A n \in DOMAIN r2.proj.acts[s].attempts :
        r2.proj.acts[s].attempts[n].status = "running" =>
          /\ r2.proj.acts[s].home = r.proj.acts[s].home
          /\ \/ /\ n \in DOMAIN r.proj.acts[s].attempts
                /\ r.proj.acts[s].attempts[n].status = "running"
             \/ Len(r.proj.acts[s].attempts) < n

\* What an executor reported stays reported.
LEMMA ToldStays ==
    ASSUME NEW r, LedgerFacts(r), NEW r2, Extends(r, r2), NEW s \in Step,
           StillRunning(r, r2, s), NEW t \in Token, t.step = s, TokenFacts(r, t)
    PROVE  TokenFacts(r2, t)
<1>1. PICK old : old = r.proj.acts[s]
  OBVIOUS
<1>2. r2.depth = r.depth /\ \A i \in DOMAIN r.log : i \in DOMAIN r2.log /\ r2.log[i] = r.log[i]
  BY DEF Extends
<1>3. LogFits(r, old, s) /\ old \in Activity /\ Len(old.attempts) \in Nat
  BY <1>1, GoodParts, ActivityParts DEF LedgerFacts, ActivityFacts
<1>4. ASSUME t.depth = r2.depth, t.told # "none", r2.proj.acts[s].home = t.home,
             t.n \in DOMAIN r2.proj.acts[s].attempts,
             r2.proj.acts[s].attempts[t.n].status = "running"
      PROVE  FALSE
  <2>1. old.home = t.home
    BY <1>1, <1>4 DEF StillRunning
  <2>2. t.n \in Nat /\ t.depth \in 0..MaxForks
    BY DEF Token
  <2>3. /\ t.seq \in DOMAIN r.log /\ Mentions(r.log[t.seq], old.home, s)
        /\ r.log[t.seq].n = t.n /\ old.home # NoBranch
    BY <1>2, <1>4, <2>1, <2>2 DEF TokenFacts, Mentions, ActivityOp
  <2>4. t.n <= Len(old.attempts)
    BY <1>3, <2>3 DEF LogFits
  <2>5. ~(Len(old.attempts) < t.n)
    BY <1>3, <2>2, <2>4
  <2>6. t.n \in DOMAIN old.attempts /\ old.attempts[t.n].status = "running"
    BY <1>1, <1>4, <2>5 DEF StillRunning
  <2> QED BY <1>1, <1>2, <1>4, <2>1, <2>6 DEF TokenFacts
<1>5. \/ /\ t.depth = r2.depth /\ t.seq \in DOMAIN r2.log
         /\ r2.log[t.seq].op = "started" /\ r2.log[t.seq].of = t.home
         /\ r2.log[t.seq].key = t.step /\ r2.log[t.seq].n = t.n
      \/ t.depth < r2.depth /\ t.seq = 0
  BY <1>2 DEF TokenFacts
<1>6. t.home # NoBranch
  BY DEF TokenFacts
<1> QED BY <1>4, <1>5, <1>6 DEF TokenFacts

\* A checkpoint of new is one of old, or shows what old showed.
KeptCheckpoints(old, new) ==
    \A c \in CheckpointId : \/ new.ckpts[c] = old.ckpts[c]
                            \/ new.ckpts[c].proj = old.proj

\* A step after which no executor is armed that was not armed before.
LEMMA StepKept ==
    ASSUME NEW r, NEW r2, Extends(r, r2), Good(r2), NEW s \in UnsafeStep,
           NEW fl, NEW fl2, NEW ef, NEW ef2, ef2[s] = ef[s], StepFacts(r, fl, ef, s),
           \A t2 \in fl2 : t2.step = s =>
               /\ TokenFacts(r2, t2)
               /\ Armed(t2) => \E t \in fl : t.step = s /\ Armed(t) /\ t.seq = t2.seq,
           OneArmed(fl2, s), KeptCheckpoints(r, r2),
           \/ Shown(r.proj.acts[s]) => Shown(r2.proj.acts[s])
           \/ \A at \in Nat : ~Touched(fl2, ef2, s, at)
    PROVE  StepFacts(r2, fl2, ef2, s)
<1>1. \A at : Touched(fl2, ef2, s, at) => Touched(fl, ef, s, at)
  BY DEF Touched
<1>2. DoneOnce(r2, fl2, ef2, s)
  <2> SUFFICES ASSUME NEW i \in 0..MaxEvents, ef2[s][i] > 0
               PROVE  /\ ef2[s][i] = 1
                      /\ i # 0 => i \in DOMAIN r2.log /\ r2.log[i].op = "started"
                                  /\ r2.log[i].key = s
                      /\ \A j \in 0..MaxEvents : ef2[s][j] > 0 => i = j
                      /\ \A t \in fl2 : t.step = s => ~Armed(t)
    BY DEF DoneOnce
  <2>1. /\ ef[s][i] = 1
        /\ i # 0 => i \in DOMAIN r.log /\ r.log[i].op = "started" /\ r.log[i].key = s
        /\ \A j \in 0..MaxEvents : ef[s][j] > 0 => i = j
        /\ \A t \in fl : t.step = s => ~Armed(t)
    BY DEF StepFacts, DoneOnce
  <2> QED BY <2>1 DEF Extends
<1>3. \A at \in Nat : Touched(fl2, ef2, s, at) => Shown(r2.proj.acts[s])
  BY <1>1 DEF StepFacts, TouchedIsShown
<1>4. ASSUME NEW c \in CheckpointId, r2.ckpts[c].at # 0, Touched(fl2, ef2, s, r2.ckpts[c].at)
      PROVE  Shown(r2.ckpts[c].proj.acts[s])
  <2>1. r2.ckpts[c].at \in Nat
    BY GoodParts DEF Checkpoint
  <2>2. CASE r2.ckpts[c] = r.ckpts[c]
    BY <1>1, <1>4, <2>2 DEF StepFacts, TouchedIsShown
  <2>3. CASE r2.ckpts[c].proj = r.proj
    BY <1>1, <1>4, <2>1, <2>3 DEF StepFacts, TouchedIsShown
  <2> QED BY <2>2, <2>3 DEF KeptCheckpoints
<1> QED BY <1>2, <1>3, <1>4 DEF StepFacts, TouchedIsShown

\* A step that adds no executor of s.
LEMMA SubsetKept ==
    ASSUME NEW r, LedgerFacts(r), NEW r2, Extends(r, r2), Good(r2), NEW s \in UnsafeStep,
           NEW fl \in SUBSET Token, NEW fl2, NEW ef, NEW ef2, ef2[s] = ef[s],
           StepFacts(r, fl, ef, s), StillRunning(r, r2, s),
           \A t \in fl2 : t.step = s => t \in fl, KeptCheckpoints(r, r2),
           \/ Shown(r.proj.acts[s]) => Shown(r2.proj.acts[s])
           \/ \A at \in Nat : ~Touched(fl2, ef2, s, at)
    PROVE  StepFacts(r2, fl2, ef2, s)
<1>1. s \in Step
  BY DEF Step
<1>2. ASSUME NEW t2 \in fl2, t2.step = s
      PROVE  /\ TokenFacts(r2, t2)
             /\ Armed(t2) => \E t \in fl : t.step = s /\ Armed(t) /\ t.seq = t2.seq
  <2>1. t2 \in Token /\ TokenFacts(r, t2)
    BY <1>2 DEF StepFacts
  <2> QED BY <1>1, <1>2, <2>1, ToldStays
<1>3. OneArmed(fl2, s)
  BY DEF OneArmed, StepFacts
<1> QED BY <1>2, <1>3, StepKept

\* A step that leaves the activity alone leaves its attempts alone.
LEMMA SameIsRunning ==
    ASSUME NEW r, NEW r2, NEW s, r2.proj.acts[s] = r.proj.acts[s]
    PROVE  StillRunning(r, r2, s)
BY DEF StillRunning

\* An event about another activity.
LEMMA OtherStepKept ==
    ASSUME NEW r, LedgerFacts(r), NEW r2, Good(r2), NEW u, MovesOnly(r, r2, u),
           NEW s \in UnsafeStep, s # u,
           NEW fl \in SUBSET Token, NEW fl2, NEW ef, NEW ef2, ef2[s] = ef[s],
           StepFacts(r, fl, ef, s), \A t \in fl2 : t.step = s => t \in fl
    PROVE  StepFacts(r2, fl2, ef2, s)
<1>1. r2.proj.acts[s] = r.proj.acts[s] /\ Extends(r, r2) /\ KeptCheckpoints(r, r2)
  BY DEF MovesOnly, KeptCheckpoints, Step
<1>2. StillRunning(r, r2, s)
  BY <1>1, SameIsRunning
<1>3. Shown(r.proj.acts[s]) => Shown(r2.proj.acts[s])
  BY <1>1
<1> QED BY <1>1, <1>2, <1>3, SubsetKept

\* A decision hands out an execution only if the effect did not happen and
\* nobody may still have it.
LEMMA DecidedKept ==
    ASSUME NEW r, LedgerFacts(r), NEW s \in UnsafeStep, NEW d, Decided(r, d, s),
           NEW fl \in SUBSET Token, NEW ef \in [Step -> [0..MaxEvents -> Nat]],
           StepFacts(r, fl, ef, s)
    PROVE  StepFacts(d.run, fl \cup Dispatch(d, s), ef, s)
<1> DEFINE r2 == d.run
<1>1. PICK old : old = r.proj.acts[s]
  OBVIOUS
<1>2. PICK new : new = r2.proj.acts[s]
  OBVIOUS
<1>3. /\ s \in Step /\ Good(r) /\ Good(r2) /\ LedgerFacts(r2) /\ MovesOnly(r, r2, s)
      /\ Extends(r, r2) /\ KeptCheckpoints(r, r2) /\ new.home = old.home
      /\ old \in Activity /\ new \in Activity /\ Len(old.attempts) \in Nat
      /\ Len(r.log) \in Nat /\ Len(r2.log) \in Nat
  BY <1>1, <1>2, GoodParts, ActivityParts
     DEF Step, Decided, LedgerFacts, MovesOnly, KeptCheckpoints
<1>4. StillRunning(r, r2, s)
  <2>1. ASSUME NEW n \in DOMAIN new.attempts, new.attempts[n].status = "running"
        PROVE  \/ n \in DOMAIN old.attempts /\ old.attempts[n].status = "running"
               \/ Len(old.attempts) < n
    <3>1. \/ n \in DOMAIN old.attempts /\ old.attempts[n].status = "running"
          \/ n = Len(old.attempts) + 1
      BY <1>1, <1>2, <2>1 DEF Decided
    <3> QED BY <1>3, <3>1
  <2> QED BY <1>1, <1>2, <1>3, <2>1 DEF StillRunning
<1>5. CASE d.told # "execute"
  <2>1. Dispatch(d, s) = {}
    BY <1>5 DEF Dispatch
  <2>2. Shown(old) => Shown(new)
    BY <1>1, <1>2, <1>3 DEF Shown, Decided, LatestIs
  <2> QED BY <1>1, <1>2, <1>3, <1>4, <2>1, <2>2, SubsetKept
<1>6. CASE d.told = "execute"
  <2> DEFINE tok == [depth |-> r2.depth, home |-> new.home, step |-> s, n |-> d.n,
                     seq |-> Len(r2.log), done |-> FALSE, told |-> "none"]
             fl2 == fl \cup {tok}
  <2>1. Dispatch(d, s) = {tok}
    BY <1>2, <1>6 DEF Dispatch
  <2>2. /\ LatestIs(new, "running") /\ Len(new.attempts) = d.n
        /\ r2.log[Len(r2.log)] = ActivityEvent("started", old.home, s, d.n, "none", {})
        /\ Len(r.log) < Len(r2.log)
        /\ HasAttempt(old) => Latest(old).status = "failed"
    BY <1>1, <1>2, <1>6 DEF Decided
  <2>3. ~Shown(old)
    BY <2>2 DEF Shown
  <2>4. \A at \in Nat : ~Touched(fl, ef, s, at)
    BY <1>1, <2>3 DEF StepFacts, TouchedIsShown
  <2>5. ef[s] \in [0..MaxEvents -> Nat]
    BY <1>3
  <2>6. /\ \A i \in 0..MaxEvents : ef[s][i] = 0
        /\ \A t \in fl : t.step = s => ~Armed(t)
    <3>1. ASSUME NEW i \in 0..MaxEvents PROVE ef[s][i] = 0
      <4>1. ~Touched(fl, ef, s, i) /\ i <= i /\ ef[s][i] \in Nat
        BY <2>4, <2>5, BoundsAreNaturals
      <4> QED BY <4>1 DEF Touched
    <3>2. ASSUME NEW t \in fl, t.step = s PROVE ~Armed(t)
      <4>1. ~Touched(fl, ef, s, t.seq) /\ t.seq \in Nat
        BY <2>4 DEF Token
      <4> QED BY <3>2, <4>1 DEF Touched
    <3> QED BY <3>1, <3>2
  <2>7. new.home # NoBranch
    <3>1. HasAttempt(new) /\ ActivityFacts(r2, new, s)
      BY <1>2, <1>3, <2>2 DEF LatestIs, LedgerFacts
    <3> QED BY <3>1 DEF ActivityFacts
  <2>8. /\ tok.step = s /\ tok.seq = Len(r2.log) /\ tok.home = new.home /\ tok.n = d.n
        /\ tok.told = "none" /\ tok.depth = r2.depth
    OBVIOUS
  <2> HIDE DEF tok
  <2>9. TokenFacts(r2, tok)
    <3>1. Len(r2.log) \in DOMAIN r2.log
      <4>1. DOMAIN r2.log = 1..Len(r2.log)
        BY <1>3, GoodParts
      <4> QED BY <1>3, <2>2, <4>1
    <3> QED BY <1>3, <2>2, <2>7, <2>8, <3>1 DEF TokenFacts, ActivityEvent
  <2>10. \A t \in fl2 : t.step = s => TokenFacts(r2, t)
    <3>1. \A t \in fl : t.step = s => TokenFacts(r, t) /\ t \in Token
      BY DEF StepFacts
    <3>2. \A t \in fl : t.step = s => TokenFacts(r2, t)
      BY <1>3, <1>4, <3>1, ToldStays
    <3> QED BY <2>9, <3>2
  <2>11. DoneOnce(r2, fl2, ef, s)
    BY <2>6 DEF DoneOnce
  <2>12. OneArmed(fl2, s)
    BY <2>6 DEF OneArmed
  <2>13. Shown(new)
    BY <2>2, <2>7 DEF Shown, LatestIs
  <2>14. ASSUME NEW c \in CheckpointId, r2.ckpts[c].at # 0,
                Touched(fl2, ef, s, r2.ckpts[c].at)
         PROVE  FALSE
    <3>1. r2.ckpts[c] = r.ckpts[c] /\ r.ckpts[c].at <= Len(r.log) /\ r.ckpts[c].at \in Nat
      BY <1>3, <2>14, GoodParts DEF MovesOnly, LedgerFacts, CheckpointFacts, Checkpoint
    <3>2. ~(tok.seq <= r2.ckpts[c].at)
      BY <1>3, <2>2, <2>8, <3>1
    <3> QED BY <2>6, <2>14, <3>2 DEF Touched
  <2>15. TouchedIsShown(r2, fl2, ef, s)
    BY <1>2, <2>13, <2>14 DEF TouchedIsShown
  <2> QED BY <2>1, <2>10, <2>11, <2>12, <2>15 DEF StepFacts
<1> QED BY <1>5, <1>6

\* The attempt is not recorded as running.
NotRunning(r, t) ==
    r.proj.acts[t.step].home = t.home /\ t.n \in DOMAIN r.proj.acts[t.step].attempts
      => r.proj.acts[t.step].attempts[t.n].status # "running"

\* An executor reports, and its attempt is over.
LEMMA ReportKept ==
    ASSUME NEW r, LedgerFacts(r), NEW r2, Extends(r, r2), Good(r2), NEW s \in UnsafeStep,
           NEW fl \in SUBSET Token, NEW t \in fl, t.step = s, NEW told \in Report,
           NEW ef, StepFacts(r, fl, ef, s), StillRunning(r, r2, s), NotRunning(r2, t),
           Armed([t EXCEPT !.told = told]) => Armed(t), KeptCheckpoints(r, r2),
           \/ Shown(r.proj.acts[s]) => Shown(r2.proj.acts[s])
           \/ \A at \in Nat : ~Touched((fl \ {t}) \cup {[t EXCEPT !.told = told]}, ef, s, at)
    PROVE  StepFacts(r2, (fl \ {t}) \cup {[t EXCEPT !.told = told]}, ef, s)
<1> DEFINE t2 == [t EXCEPT !.told = told]
           fl2 == (fl \ {t}) \cup {t2}
<1>1. /\ t \in Token /\ t2.step = s /\ t2.depth = t.depth /\ t2.home = t.home
      /\ t2.n = t.n /\ t2.seq = t.seq /\ s \in Step
  BY DEF Token, Step
<1> HIDE DEF t2
<1>2. \A u \in fl : u.step = s => TokenFacts(r, u) /\ u \in Token
  BY DEF StepFacts
<1>3. \A u \in fl : u.step = s => TokenFacts(r2, u)
  BY <1>1, <1>2, ToldStays
<1>4. TokenFacts(r2, t2)
  BY <1>1, <1>3 DEF TokenFacts, NotRunning
<1>5. Armed(t2) => Armed(t)
  BY DEF t2
<1>6. OneArmed(fl2, s)
  BY <1>1, <1>5 DEF OneArmed, StepFacts
<1>7. \A u \in fl2 : u.step = s =>
          /\ TokenFacts(r2, u)
          /\ Armed(u) => \E w \in fl : w.step = s /\ Armed(w) /\ w.seq = u.seq
  BY <1>1, <1>3, <1>4, <1>5
<1>8. \/ Shown(r.proj.acts[s]) => Shown(r2.proj.acts[s])
      \/ \A at \in Nat : ~Touched(fl2, ef, s, at)
  BY DEF t2
<1> HIDE DEF fl2
<1>9. StepFacts(r2, fl2, ef, s)
  <2>1. Extends(r, r2) /\ Good(r2) /\ ef[s] = ef[s] /\ StepFacts(r, fl, ef, s)
        /\ KeptCheckpoints(r, r2)
    OBVIOUS
  <2> QED BY <1>6, <1>7, <1>8, <2>1, StepKept
<1> QED BY <1>9 DEF fl2, t2

\* An executor without an effect, whose report is not ambiguous, was the only
\* one who could have had it.
LEMMA AloneIsUntouched ==
    ASSUME NEW r, NEW s \in UnsafeStep, NEW fl \in SUBSET Token, NEW t \in fl, t.step = s,
           NEW ef \in [Step -> [0..MaxEvents -> Nat]], StepFacts(r, fl, ef, s),
           ~t.done, t.told = "none", NEW t2, ~Armed(t2)
    PROVE  \A at \in Nat : ~Touched((fl \ {t}) \cup {t2}, ef, s, at)
<1>1. Armed(t) /\ s \in Step
  BY DEF Armed, Step
<1>2. \A i \in 0..MaxEvents : ~(ef[s][i] > 0)
  BY <1>1 DEF StepFacts, DoneOnce
<1>3. \A u \in fl \ {t} : u.step = s => ~Armed(u)
  BY <1>1 DEF StepFacts, OneArmed
<1> QED BY <1>2, <1>3 DEF Touched

-----------------------------------------------------------------------------
(* Every operation keeps a settled ledger settled, and its executors with    *)
(* it.                                                                       *)

\* The inductive invariant under the discipline.
SettledInv == /\ Inv
              /\ SettledRun(run)
              /\ \A s \in UnsafeStep : StepFacts(run, flying, effects, s)

\* The parts of it that the lemmas below ask for.
LEMMA SettledParts ==
    ASSUME SettledInv
    PROVE  /\ Inv /\ SettledRun(run) /\ LedgerFacts(run) /\ Good(run)
           /\ flying \in SUBSET Token /\ effects \in [Step -> [0..MaxEvents -> Nat]]
           /\ Len(run.log) \in Nat /\ Extends(run, run) /\ KeptCheckpoints(run, run)
           /\ \A s \in Step : StillRunning(run, run, s)
           /\ \A s \in UnsafeStep : StepFacts(run, flying, effects, s)
<1>1. Inv /\ SettledRun(run) /\ LedgerFacts(run) /\ Good(run)
  BY DEF SettledInv, SettledRun, Inv
<1>2. Len(run.log) \in Nat
  BY <1>1, GoodParts
<1>3. Extends(run, run) /\ KeptCheckpoints(run, run)
  BY <1>2 DEF Extends, KeptCheckpoints
<1>4. \A s \in Step : StillRunning(run, run, s)
  BY SameIsRunning
<1> QED BY <1>1, <1>2, <1>3, <1>4 DEF SettledInv, Inv

\* What a verdict on the latest attempt of s leaves for its executors.
LEMMA RuledMoves ==
    ASSUME NEW r, NEW r2, NEW s, NEW v, Ruled(r, r2, s, v)
    PROVE  /\ LedgerFacts(r2) /\ Good(r2) /\ MovesOnly(r, r2, s) /\ Extends(r, r2)
           /\ KeptCheckpoints(r, r2) /\ StillRunning(r, r2, s)
           /\ \A t : t.step = s => NotRunning(r2, t)
           /\ v.status \in {"running", "reconcile_required", "completed"}
                => Shown(r2.proj.acts[s])
BY DEF Ruled, MovesOnly, KeptCheckpoints, StillRunning, NotRunning, Shown, Movable, LedgerFacts

\* prepare_activity.
LEMMA PrepareSettles ==
    ASSUME SettledInv, NEW s \in Step, Prepare(s)
    PROVE  /\ SettledRun(run')
           /\ \A u \in UnsafeStep : StepFacts(run', flying', effects', u)
<1> DEFINE r1 == ScheduleIfAbsent(run, s)
           d == Decide(r1, s)
<1>1. /\ EnsureExecuting(run) /\ run' = d.run /\ flying' = flying \cup Dispatch(d, s)
      /\ effects' = effects
  BY DEF Prepare
<1>2. /\ LedgerFacts(run) /\ SettledRun(run) /\ Len(run.log) \in Nat
      /\ flying \in SUBSET Token /\ effects \in [Step -> [0..MaxEvents -> Nat]]
      /\ \A u \in UnsafeStep : StepFacts(run, flying, effects, u)
  BY SettledParts
<1>3. Decided(r1, d, s) /\ SettledRun(d.run)
  BY <1>1, <1>2, PrepareFacts
<1>4. /\ LedgerFacts(r1) /\ MovesOnly(run, r1, s)
      /\ \/ r1 = run
         \/ /\ run.proj.acts[s].home = NoBranch
            /\ DOMAIN r1.proj.acts[s].attempts = {}
  BY <1>2, ScheduleFacts
<1> HIDE DEF r1, d
<1>5. /\ Good(r1) /\ Good(d.run) /\ Len(r1.log) \in Nat /\ Len(d.run.log) \in Nat
      /\ MovesOnly(r1, d.run, s) /\ Extends(run, r1) /\ Extends(r1, d.run)
  BY <1>3, <1>4, GoodParts DEF LedgerFacts, Decided, MovesOnly
<1>6. ASSUME NEW u \in UnsafeStep, u # s
      PROVE  StepFacts(d.run, flying \cup Dispatch(d, s), effects, u)
  <2>1. MovesOnly(run, d.run, s)
    BY <1>2, <1>4, <1>5, ExtendsTransitive
  <2>2. \A t \in flying \cup Dispatch(d, s) : t.step = u => t \in flying
    BY <1>6 DEF Dispatch
  <2>3. StepFacts(run, flying, effects, u) /\ effects[u] = effects[u]
    BY <1>2, <1>6
  <2> QED BY <1>2, <1>5, <1>6, <2>1, <2>2, <2>3, OtherStepKept
<1>7. ASSUME s \in UnsafeStep
      PROVE  StepFacts(d.run, flying \cup Dispatch(d, s), effects, s)
  <2>1. StepFacts(r1, flying, effects, s)
    <3>1. CASE r1 = run
      BY <1>2, <1>7, <3>1
    <3>2. CASE /\ run.proj.acts[s].home = NoBranch
               /\ DOMAIN r1.proj.acts[s].attempts = {}
      <4>1. StillRunning(run, r1, s) /\ ~Shown(run.proj.acts[s])
        BY <3>2 DEF StillRunning, Shown
      <4>2. KeptCheckpoints(run, r1)
        BY <1>4 DEF MovesOnly, KeptCheckpoints
      <4>3. StepFacts(run, flying, effects, s) /\ effects[s] = effects[s]
            /\ \A t \in flying : t.step = s => t \in flying
        BY <1>2, <1>7
      <4> QED BY <1>2, <1>5, <1>7, <4>1, <4>2, <4>3, SubsetKept
    <3> QED BY <1>4, <3>1, <3>2
  <2> QED BY <1>2, <1>3, <1>4, <1>7, <2>1, DecidedKept
<1> QED BY <1>1, <1>3, <1>6, <1>7

\* The effect happens: its executor was armed, so it is the first.
LEMMA PerformSettles ==
    ASSUME SettledInv, NEW t \in flying, Perform(t)
    PROVE  /\ SettledRun(run')
           /\ \A u \in UnsafeStep : StepFacts(run', flying', effects', u)
<1> DEFINE t2 == [t EXCEPT !.done = TRUE]
           fl2 == (flying \ {t}) \cup {t2}
           s == t.step
<1>1. /\ s \in UnsafeStep /\ Armed(t) /\ t.seq \in 0..MaxEvents /\ run' = run
      /\ flying' = fl2 /\ effects' = [effects EXCEPT ![s][t.seq] = @ + 1]
  BY DEF Perform, Armed
<1>2. /\ LedgerFacts(run) /\ SettledRun(run) /\ Len(run.log) \in Nat /\ Good(run)
      /\ flying \in SUBSET Token /\ effects \in [Step -> [0..MaxEvents -> Nat]]
      /\ \A u \in UnsafeStep : StepFacts(run, flying, effects, u)
      /\ Extends(run, run) /\ KeptCheckpoints(run, run)
      /\ \A u \in Step : StillRunning(run, run, u)
  BY SettledParts
<1>3. /\ t \in Token /\ t2.step = s /\ t2.depth = t.depth /\ t2.home = t.home
      /\ t2.n = t.n /\ t2.seq = t.seq /\ t2.told = t.told /\ s \in Step
      /\ ~Armed(t2)
  BY <1>2 DEF Token, Armed
<1> HIDE DEF t2, s
<1>4. ASSUME NEW u \in UnsafeStep, u # s PROVE StepFacts(run, fl2, effects', u)
  <2>1. effects'[u] = effects[u] /\ u \in Step
    BY <1>1, <1>2, <1>3, <1>4 DEF Step
  <2>2. \A w \in fl2 : w.step = u => w \in flying
    BY <1>3, <1>4
  <2>3. StepFacts(run, flying, effects, u) /\ StillRunning(run, run, u)
    BY <1>2, <1>4, <2>1
  <2> HIDE DEF fl2
  <2> QED BY <1>2, <1>4, <2>1, <2>2, <2>3, SubsetKept
<1>5. StepFacts(run, fl2, effects', s)
  <2>1. StepFacts(run, flying, effects, s)
    BY <1>1, <1>2
  <2>2. effects[s] \in [0..MaxEvents -> Nat]
    BY <1>2, <1>3
  <2>3. \A i \in 0..MaxEvents : effects[s][i] = 0
    <3>1. \A i \in 0..MaxEvents : ~(effects[s][i] > 0)
      BY <1>1, <2>1 DEF StepFacts, DoneOnce, s
    <3>2. \A i \in 0..MaxEvents : effects[s][i] \in Nat
      BY <2>2
    <3> QED BY <3>1, <3>2
  <2>4. /\ \A i \in 0..MaxEvents : effects'[s][i] = IF i = t.seq THEN 1 ELSE 0
    <3>1. effects'[s] = [effects[s] EXCEPT ![t.seq] = @ + 1]
      BY <1>1, <1>2, <1>3
    <3>2. effects[s][t.seq] + 1 = 1
      BY <1>1, <2>3
    <3> QED BY <1>1, <2>2, <2>3, <3>1, <3>2
  <2>5. \A u \in fl2 : u.step = s => ~Armed(u) /\ TokenFacts(run, u)
    <3>1. \A u \in flying : u.step = s => TokenFacts(run, u)
      BY <2>1 DEF StepFacts
    <3>2. TokenFacts(run, t2)
      BY <1>3, <3>1 DEF TokenFacts, s
    <3>3. \A u \in flying \ {t} : u.step = s => ~Armed(u)
      BY <1>1, <2>1 DEF StepFacts, OneArmed, s
    <3> QED BY <1>3, <3>1, <3>2, <3>3
  <2>6. /\ t.seq # 0 => /\ t.seq \in DOMAIN run.log /\ run.log[t.seq].op = "started"
                        /\ run.log[t.seq].key = s
    BY <2>1 DEF StepFacts, TokenFacts, s
  <2>7. DoneOnce(run, fl2, effects', s)
    <3> HIDE DEF fl2
    <3> QED BY <2>4, <2>5, <2>6 DEF DoneOnce
  <2>8. OneArmed(fl2, s)
    BY <2>5 DEF OneArmed
  <2>9. \A at : Touched(fl2, effects', s, at) => Touched(flying, effects, s, at)
    <3> SUFFICES ASSUME NEW at, Touched(fl2, effects', s, at)
                 PROVE  t.seq <= at
      BY <1>1 DEF Touched, s
    <3> HIDE DEF fl2
    <3>1. PICK i \in 0..MaxEvents : i <= at /\ effects'[s][i] > 0
      BY <2>5 DEF Touched
    <3> QED BY <2>4, <3>1
  <2> HIDE DEF fl2
  <2>10. TouchedIsShown(run, fl2, effects', s)
    BY <2>1, <2>9 DEF TouchedIsShown, StepFacts
  <2> QED BY <2>5, <2>7, <2>8, <2>10 DEF StepFacts
<1> QED BY <1>1, <1>2, <1>4, <1>5

\* The executor crashes, or is done.
LEMMA LoseSettles ==
    ASSUME SettledInv, NEW t \in flying, Lose(t)
    PROVE  /\ SettledRun(run')
           /\ \A u \in UnsafeStep : StepFacts(run', flying', effects', u)
<1>1. /\ LedgerFacts(run) /\ SettledRun(run) /\ Good(run) /\ flying \in SUBSET Token
      /\ Extends(run, run) /\ KeptCheckpoints(run, run)
  BY SettledParts
<1>2. run' = run /\ effects' = effects /\ flying' = flying \ {t}
  BY DEF Lose
<1>3. ASSUME NEW u \in UnsafeStep PROVE StepFacts(run, flying \ {t}, effects, u)
  <2>1. StepFacts(run, flying, effects, u) /\ StillRunning(run, run, u)
        /\ effects[u] = effects[u] /\ \A w \in flying \ {t} : w.step = u => w \in flying
    BY <1>3, SettledParts DEF Step
  <2> QED BY <1>1, <1>3, <2>1, SubsetKept
<1> QED BY <1>1, <1>2, <1>3

\* The condition under which a repeated report leaves an executor armed.
LEMMA RepeatedReport ==
    ASSUME NEW t \in Token, NEW told \in Report, MayReport(t, told)
    PROVE  Armed([t EXCEPT !.told = told]) => Armed(t)
BY DEF MayReport, Armed, Token

\* A report that the ledger does not take again.
LEMMA RefusedReport ==
    ASSUME SettledInv, NEW t \in flying, t.step \in UnsafeStep, EnsureActive(run),
           NEW op \in {"completed", "failed", "cancelled"}, NEW what \in SUBSET Fact,
           ~(Fresh(run, TokenEvent(t, op, what)) /\ Legal(run, TokenEvent(t, op, what))),
           NEW told \in Report, MayReport(t, told)
    PROVE  StepFacts(run, Reported(t, told), effects, t.step)
<1> DEFINE e == TokenEvent(t, op, what)
<1>1. /\ LedgerFacts(run) /\ Good(run) /\ flying \in SUBSET Token
      /\ Extends(run, run) /\ KeptCheckpoints(run, run)
      /\ t.step \in Step => StillRunning(run, run, t.step)
      /\ StepFacts(run, flying, effects, t.step)
  BY SettledParts
<1>2. t \in Token /\ t.step \in Step /\ op \in ActivityOp
  BY <1>1 DEF Token, ActivityOp
<1>3. /\ e \in Event /\ e.op = op /\ e.of = t.home /\ e.key = t.step /\ e.n = t.n
  BY <1>2, TokenEventFacts
<1> HIDE DEF e
<1>4. NotRunning(run, t)
  <2>1. ~(AttemptFound(run, e) /\ AttemptOf(run, e).status = "running")
    BY <1>1, <1>2, <1>3, ReportIsTaken DEF e
  <2> QED BY <1>3, <2>1 DEF NotRunning, AttemptFound, AttemptOf, ActivityOf
<1>5. Armed([t EXCEPT !.told = told]) => Armed(t)
  BY <1>2, RepeatedReport
<1>6. Shown(run.proj.acts[t.step]) => Shown(run.proj.acts[t.step])
  OBVIOUS
<1>7. StillRunning(run, run, t.step)
  BY <1>1, <1>2
<1> QED BY <1>1, <1>2, <1>4, <1>5, <1>6, <1>7, ReportKept DEF Reported

\* A report that the ledger takes is the first of its executor.
LEMMA TakenReport ==
    ASSUME SettledInv, NEW t \in flying, t.step \in UnsafeStep, t.depth = run.depth,
           NEW op \in {"completed", "failed", "cancelled"}, NEW what \in SUBSET Fact,
           Fresh(run, TokenEvent(t, op, what)), Legal(run, TokenEvent(t, op, what))
    PROVE  /\ t.told = "none"
           /\ run.proj.acts[t.step].home # NoBranch
           /\ LatestIs(run.proj.acts[t.step], "running")
<1> DEFINE e == TokenEvent(t, op, what)
<1>1. /\ LedgerFacts(run) /\ t \in Token /\ TokenFacts(run, t)
  BY SettledParts DEF StepFacts
<1>2. t.step \in Step /\ op \in ActivityOp
  BY <1>1 DEF Token, ActivityOp
<1>3. /\ e \in Event /\ e.op = op /\ e.of = t.home /\ e.key = t.step /\ e.n = t.n
  BY <1>1, <1>2, TokenEventFacts
<1>4. Fresh(run, e) /\ Legal(run, e)
  OBVIOUS
<1> HIDE DEF e
<1>5. /\ t.home = run.proj.acts[t.step].home
      /\ t.n = Len(run.proj.acts[t.step].attempts)
      /\ LatestIs(run.proj.acts[t.step], "running")
  BY <1>1, <1>2, <1>3, <1>4, FinishFacts
<1>6. run.proj.acts[t.step] \in Activity
  BY <1>1, <1>2, GoodParts DEF LedgerFacts
<1>7. /\ t.n \in DOMAIN run.proj.acts[t.step].attempts
      /\ run.proj.acts[t.step].attempts[t.n].status = "running"
  BY <1>5, <1>6, ActivityParts DEF LatestIs
<1> QED BY <1>1, <1>5, <1>7 DEF TokenFacts

\* The verdict of a report that is taken: the attempt completed, or its
\* executor had no effect and reported so.
LEMMA VerdictKept ==
    ASSUME SettledInv, NEW t \in flying, t.step \in UnsafeStep, t.told = "none",
           NEW told \in Report, MayReport(t, told),
           NEW r2, NEW v, Ruled(run, r2, t.step, v),
           \/ v.status = "completed"
           \/ ~t.done /\ told \notin {"none", "ambiguous", "ambiguous_retryable"}
    PROVE  StepFacts(r2, Reported(t, told), effects, t.step)
<1> DEFINE s == t.step
           t2 == [t EXCEPT !.told = told]
<1>1. /\ LedgerFacts(run) /\ flying \in SUBSET Token
      /\ effects \in [Step -> [0..MaxEvents -> Nat]]
      /\ StepFacts(run, flying, effects, s)
  BY SettledParts
<1>2. t \in Token /\ s = t.step
  BY <1>1
<1>3. /\ Good(r2) /\ Extends(run, r2) /\ KeptCheckpoints(run, r2)
      /\ StillRunning(run, r2, s) /\ NotRunning(r2, t)
      /\ v.status = "completed" => Shown(r2.proj.acts[s])
  BY RuledMoves
<1>4. Armed(t2) => Armed(t)
  BY <1>2, RepeatedReport
<1>5. \/ Shown(run.proj.acts[s]) => Shown(r2.proj.acts[s])
      \/ \A at \in Nat : ~Touched((flying \ {t}) \cup {t2}, effects, s, at)
  <2>1. CASE v.status = "completed"
    BY <1>3, <2>1
  <2>2. CASE ~t.done /\ told \notin {"none", "ambiguous", "ambiguous_retryable"}
    <3>1. ~Armed(t2)
      BY <1>2, <2>2 DEF Armed, Token
    <3> HIDE DEF t2
    <3> QED BY <1>1, <1>2, <2>2, <3>1, AloneIsUntouched
  <2> QED BY <2>1, <2>2
<1> QED BY <1>1, <1>2, <1>3, <1>4, <1>5, ReportKept DEF Reported

\* The activities that a report is not about.
LEMMA OtherReport ==
    ASSUME SettledInv, NEW t \in flying, NEW told \in Report, NEW more,
           \A u \in more : u.step = t.step,
           NEW r2, Good(r2), MovesOnly(run, r2, t.step),
           NEW u \in UnsafeStep, u # t.step
    PROVE  StepFacts(r2, Reported(t, told) \cup more, effects, u)
<1>1. /\ LedgerFacts(run) /\ flying \in SUBSET Token
      /\ StepFacts(run, flying, effects, u) /\ effects[u] = effects[u]
  BY SettledParts
<1>2. \A w \in Reported(t, told) \cup more : w.step = u => w \in flying
  BY <1>1 DEF Reported, Token
<1> QED BY <1>1, <1>2, OtherStepKept

\* A report without a decision behind it: complete_activity, cancel_activity.
LEMMA PlainReport ==
    ASSUME SettledInv, NEW t \in flying, EnsureActive(run),
           NEW op \in {"completed", "cancelled"}, NEW told \in Report, MayReport(t, told),
           op = "cancelled" => ~t.done /\ told \notin {"none", "ambiguous", "ambiguous_retryable"},
           run' = Emit(run, TokenEvent(t, op, {})), flying' = Reported(t, told),
           effects' = effects
    PROVE  /\ SettledRun(run')
           /\ \A u \in UnsafeStep : StepFacts(run', flying', effects', u)
<1> DEFINE e == TokenEvent(t, op, {})
           s == t.step
<1>1. /\ LedgerFacts(run) /\ SettledRun(run) /\ Good(run) /\ t \in Token
      /\ Extends(run, run)
      /\ \A u \in UnsafeStep : StepFacts(run, flying, effects, u)
  BY SettledParts
<1>2. s \in Step /\ op \in ActivityOp /\ {} \in SUBSET Fact
  BY <1>1 DEF Token, ActivityOp
<1>3. /\ e \in Event /\ e.op = op /\ e.key = s
  BY <1>1, <1>2, TokenEventFacts
<1>4. run' = Emit(run, e)
  OBVIOUS
<1>5. CASE ~(Fresh(run, e) /\ Legal(run, e))
  <2>1. run' = run
    BY <1>4, <1>5 DEF Emit
  <2>2. MovesOnly(run, run, s)
    BY <1>1 DEF MovesOnly
  <2>3. ASSUME NEW u \in UnsafeStep PROVE StepFacts(run, Reported(t, told), effects, u)
    <3>1. CASE u = s
      BY <1>2, <1>5, <3>1, RefusedReport
    <3>2. CASE u # s
      <4>1. StepFacts(run, Reported(t, told) \cup {}, effects, u)
        <5>1. \A w \in {} : w.step = t.step
          OBVIOUS
        <5> QED BY <1>1, <2>2, <3>2, <5>1, OtherReport
      <4>2. Reported(t, told) \cup {} = Reported(t, told)
        OBVIOUS
      <4> QED BY <4>1, <4>2
    <3> QED BY <3>1, <3>2
  <2> QED BY <1>1, <2>1, <2>3
<1>6. CASE Fresh(run, e) /\ Legal(run, e)
  <2>1. PICK v : Ruled(run, Emit(run, e), s, v) /\ v.status = op
    <3>1. e.op \in {"completed", "cancelled"}
      BY <1>3
    <3> HIDE DEF e, s
    <3> QED BY <1>1, <1>2, <1>3, <1>6, <3>1, FinishFacts
  <2>2. Ruled(run, run', s, v) /\ NoNewFailure(run, run') /\ Extends(run, run')
    <3> HIDE DEF e, s
    <3> QED BY <1>1, <1>2, <1>3, <1>4, <2>1, EmitExtends
  <2>3. SettledRun(run')
    BY <1>1, <1>2, <2>2, ReportedStays, RuledIsSettled DEF SettledRun
  <2>4. MovesOnly(run, run', s) /\ Good(run')
    BY <2>2, RuledMoves
  <2>5. ASSUME NEW u \in UnsafeStep PROVE StepFacts(run', Reported(t, told), effects, u)
    <3>1. CASE u = s
      <4>1. t.told = "none"
        BY <1>2, <1>6, <3>1, TakenReport DEF MayReport
      <4>2. \/ v.status = "completed"
            \/ ~t.done /\ told \notin {"none", "ambiguous", "ambiguous_retryable"}
        BY <2>1
      <4> QED BY <2>2, <3>1, <4>1, <4>2, VerdictKept
    <3>2. CASE u # s
      <4>1. StepFacts(run', Reported(t, told) \cup {}, effects, u)
        <5>1. \A w \in {} : w.step = t.step
          OBVIOUS
        <5> QED BY <2>4, <3>2, <5>1, OtherReport
      <4>2. Reported(t, told) \cup {} = Reported(t, told)
        OBVIOUS
      <4> QED BY <4>1, <4>2
    <3> QED BY <3>1, <3>2
  <2> QED BY <2>3, <2>5
<1> QED BY <1>5, <1>6

\* complete_activity.
LEMMA CompleteSettles ==
    ASSUME SettledInv, NEW t \in flying, CompleteActivity(t)
    PROVE  /\ SettledRun(run')
           /\ \A u \in UnsafeStep : StepFacts(run', flying', effects', u)
<1>1. /\ EnsureActive(run) /\ MayReport(t, "complete") /\ "complete" \in Report
      /\ run' = Emit(run, TokenEvent(t, "completed", {}))
      /\ flying' = Reported(t, "complete") /\ effects' = effects
  BY DEF CompleteActivity, Report
<1> QED BY <1>1, PlainReport

\* cancel_activity.
LEMMA CancelSettles ==
    ASSUME SettledInv, NEW t \in flying, CancelActivity(t)
    PROVE  /\ SettledRun(run')
           /\ \A u \in UnsafeStep : StepFacts(run', flying', effects', u)
<1>1. /\ EnsureActive(run) /\ MayReport(t, "cancel") /\ "cancel" \in Report
      /\ run' = Emit(run, TokenEvent(t, "cancelled", {})) /\ ~t.done
      /\ flying' = Reported(t, "cancel") /\ effects' = effects
  BY DEF CancelActivity, Report
<1> QED BY <1>1, PlainReport

\* fail_activity, and the decision it takes at once.
LEMMA FailSettles ==
    ASSUME SettledInv, NEW t \in flying, NEW retryable \in BOOLEAN, NEW ambiguous \in BOOLEAN,
           FailActivity(t, retryable, ambiguous)
    PROVE  /\ SettledRun(run')
           /\ \A u \in UnsafeStep : StepFacts(run', flying', effects', u)
<1> DEFINE told == FailReport(retryable, ambiguous)
           d == FailOutcome(run, t, retryable, ambiguous)
           what == FailFacts(retryable, ambiguous)
           e == TokenEvent(t, "failed", what)
           s == t.step
           fl2 == Reported(t, told)
<1>1. /\ MayReport(t, told)
      /\ t.done => ambiguous
      /\ EnsureActive(run) /\ run' = d.run /\ flying' = fl2 \cup Dispatch(d, s)
      /\ effects' = effects /\ told \in Report
      /\ ~ambiguous => told \notin {"none", "ambiguous", "ambiguous_retryable"}
  BY DEF FailActivity, FailReport, Report
<1>2. /\ LedgerFacts(run) /\ SettledRun(run) /\ Good(run) /\ t \in Token
      /\ flying \in SUBSET Token /\ Len(run.log) \in Nat
      /\ effects \in [Step -> [0..MaxEvents -> Nat]]
      /\ \A u \in UnsafeStep : StepFacts(run, flying, effects, u)
  BY SettledParts
<1>3. s \in Step /\ what \in SUBSET Fact /\ fl2 \in SUBSET Token /\ t.depth = run.depth
  <2>1. what \in SUBSET Fact
    BY DEF FailFacts, Fact
  <2> HIDE DEF told, what
  <2>2. fl2 \in SUBSET Token
    BY <1>1, <1>2, ReportedType
  <2> QED BY <1>1, <1>2, <2>1, <2>2 DEF Token, MayReport
<1>4. /\ SettledRun(d.run)
      /\ IF Fresh(run, e) /\ Legal(run, e) THEN FailTaken(run, t, ambiguous, d)
                                          ELSE Decided(run, d, s)
  BY <1>2, FailOutcomeFacts
<1> HIDE DEF d, told, what
<1>5. Good(d.run) /\ Len(d.run.log) \in Nat
  BY <1>4, GoodParts DEF SettledRun, LedgerFacts
<1>6. ASSUME MovesOnly(run, d.run, s), NEW u \in UnsafeStep, u # s
      PROVE  StepFacts(d.run, fl2 \cup Dispatch(d, s), effects, u)
  <2>1. \A w \in Dispatch(d, s) : w.step = t.step
    BY DEF Dispatch
  <2> QED BY <1>1, <1>5, <1>6, <2>1, OtherReport
<1>7. CASE ~(Fresh(run, e) /\ Legal(run, e))
  <2>1. Decided(run, d, s)
    BY <1>4, <1>7
  <2>2. MovesOnly(run, d.run, s)
    BY <2>1 DEF Decided
  <2>3. ASSUME s \in UnsafeStep
        PROVE  StepFacts(d.run, fl2 \cup Dispatch(d, s), effects, s)
    <3>1. StepFacts(run, fl2, effects, s)
      <4>1. "failed" \in {"completed", "failed", "cancelled"}
        OBVIOUS
      <4>2. /\ EnsureActive(run) /\ t.step \in UnsafeStep /\ what \in SUBSET Fact
            /\ ~(Fresh(run, TokenEvent(t, "failed", what))
                   /\ Legal(run, TokenEvent(t, "failed", what)))
            /\ told \in Report /\ MayReport(t, told)
        BY <1>1, <1>3, <1>7, <2>3
      <4> QED BY <4>1, <4>2, RefusedReport
    <3> HIDE DEF fl2, s
    <3> QED BY <1>2, <1>3, <2>1, <2>3, <3>1, DecidedKept
  <2> QED BY <1>1, <1>4, <1>6, <2>2, <2>3
<1>8. CASE Fresh(run, e) /\ Legal(run, e)
  <2>1. s \in UnsafeStep => /\ t.told = "none" /\ run.proj.acts[s].home # NoBranch
                            /\ LatestIs(run.proj.acts[s], "running")
    <3>1. "failed" \in {"completed", "failed", "cancelled"}
      OBVIOUS
    <3> QED BY <1>3, <1>8, <3>1, TakenReport
  <2>2. CASE /\ ambiguous /\ s \in UnsafeStep /\ d.told # "execute"
             /\ SentToReconcile(run, d.run, s)
    <3>1. Dispatch(d, s) = {}
      BY <2>2 DEF Dispatch
    <3>2. /\ MovesOnly(run, d.run, s) /\ Extends(run, d.run)
          /\ KeptCheckpoints(run, d.run) /\ StillRunning(run, d.run, s)
          /\ NotRunning(d.run, t) /\ Shown(d.run.proj.acts[s])
      BY <2>1, <2>2 DEF SentToReconcile, MovesOnly, KeptCheckpoints, StillRunning,
                        NotRunning, Shown, LatestIs
    <3>3. Armed([t EXCEPT !.told = told]) => Armed(t)
      <4>1. t \in Token /\ told \in Report /\ MayReport(t, told)
        BY <1>1, <1>2
      <4> QED BY <4>1, RepeatedReport
    <3>4. StepFacts(d.run, fl2, effects, s)
      BY <1>1, <1>2, <1>5, <2>2, <3>2, <3>3, ReportKept DEF Reported
    <3>5. fl2 \cup Dispatch(d, s) = fl2
      BY <3>1
    <3>6. StepFacts(d.run, fl2 \cup Dispatch(d, s), effects, s)
      BY <3>4, <3>5
    <3> QED BY <1>1, <1>4, <1>6, <3>2, <3>6
  <2>3. ASSUME NEW r1, NEW v, ~(ambiguous /\ s \in UnsafeStep),
               Ruled(run, r1, s, v), v.status = "failed", Decided(r1, d, s)
        PROVE  /\ SettledRun(run')
               /\ \A u \in UnsafeStep : StepFacts(run', flying', effects', u)
    <3>1. /\ LedgerFacts(r1) /\ Good(r1) /\ MovesOnly(run, r1, s) /\ Extends(run, r1)
          /\ Len(r1.log) \in Nat
      BY <2>3, RuledMoves, GoodParts
    <3>2. MovesOnly(run, d.run, s)
      <4>1. MovesOnly(r1, d.run, s) /\ Extends(r1, d.run)
        BY <2>3 DEF Decided, MovesOnly
      <4> QED BY <1>2, <1>5, <3>1, <4>1, ExtendsTransitive
    <3>3. ASSUME s \in UnsafeStep
          PROVE  StepFacts(d.run, fl2 \cup Dispatch(d, s), effects, s)
      <4>1. /\ ~t.done /\ t.told = "none"
            /\ told \notin {"none", "ambiguous", "ambiguous_retryable"}
        <5>1. ~ambiguous
          BY <2>3, <3>3
        <5>2. ~t.done
          BY <1>1, <5>1, Zenon
        <5> QED BY <1>1, <2>1, <3>3, <5>1, <5>2
      <4>2. StepFacts(r1, fl2, effects, s)
        <5>1. /\ told \in Report /\ MayReport(t, told) /\ t.step \in UnsafeStep
              /\ Ruled(run, r1, t.step, v)
          BY <1>1, <2>3, <3>3
        <5> QED BY <4>1, <5>1, VerdictKept
      <4> HIDE DEF fl2, s
      <4> QED BY <1>2, <1>3, <2>3, <3>1, <3>3, <4>2, DecidedKept
    <3> QED BY <1>1, <1>4, <1>6, <3>2, <3>3
  <2>4. FailTaken(run, t, ambiguous, d)
    BY <1>4, <1>8
  <2> QED BY <2>2, <2>3, <2>4 DEF FailTaken
<1> QED BY <1>7, <1>8

\* reconcile_activity: the operator has seen every execution end.
LEMMA ReconcileSettles ==
    ASSUME SettledInv, NEW s \in UnsafeStep, NEW cmd \in Command,
           NEW how \in {"completed", "safe_to_retry", "cancelled"},
           ReconcileActivity(s, cmd, how)
    PROVE  /\ SettledRun(run')
           /\ \A u \in UnsafeStep : StepFacts(run', flying', effects', u)
<1> DEFINE home == run.proj.acts[s].home
           n == Len(run.proj.acts[s].attempts)
           e == ActivityEvent("reconciled", home, s, n, cmd, {how})
<1>1. /\ \A t \in flying : t.step # s
      /\ (how = "completed") <=> Happened(s)
      /\ run' = Emit(run, e) /\ flying' = flying /\ effects' = effects
  BY DEF ReconcileActivity
<1>2. /\ LedgerFacts(run) /\ SettledRun(run) /\ Good(run) /\ flying \in SUBSET Token
      /\ effects \in [Step -> [0..MaxEvents -> Nat]] /\ Extends(run, run)
      /\ \A u \in UnsafeStep : StepFacts(run, flying, effects, u)
  BY SettledParts
<1>3. /\ e \in Event /\ e.op = "reconciled" /\ e.key = s /\ e.what = {how} /\ s \in Step
  <2>1. s \in Step /\ cmd \in EventCommand /\ {how} \in SUBSET Fact
        /\ "reconciled" \in ActivityOp
    BY DEF Step, EventCommand, Fact, ActivityOp
  <2>2. home \in Branch \cup {NoBranch} /\ n \in Nat
    BY <1>2, <2>1, ActivityOfGood
  <2>3. e.op = "reconciled" /\ e.key = s /\ e.what = {how}
    BY DEF ActivityEvent
  <2>4. e \in Event
    <3> HIDE DEF home, n
    <3> QED BY <2>1, <2>2, ActivityEventType
  <2> QED BY <2>1, <2>3, <2>4
<1> HIDE DEF e
<1>4. CASE ~(Fresh(run, e) /\ Legal(run, e))
  <2>1. run' = run
    BY <1>1, <1>4 DEF Emit
  <2> QED BY <1>1, <1>2, <2>1
<1>5. CASE Fresh(run, e) /\ Legal(run, e)
  <2>1. PICK v : /\ Ruled(run, run', s, v)
                 /\ how = "completed" => v.status = "completed"
    <3>1. \E v : /\ Ruled(run, Emit(run, e), s, v)
                 /\ how = "completed" => v.status = "completed"
      BY <1>2, <1>3, <1>5, ReconciledFacts
    <3> QED BY <1>1, <3>1
  <2>2. NoNewFailure(run, run') /\ Extends(run, run')
    BY <1>1, <1>2, <1>3, EmitExtends DEF ActivityOp
  <2>3. SettledRun(run')
    BY <1>2, <1>3, <2>1, <2>2, ReportedStays, RuledIsSettled DEF SettledRun
  <2>4. /\ Good(run') /\ MovesOnly(run, run', s) /\ KeptCheckpoints(run, run')
        /\ StillRunning(run, run', s)
        /\ v.status = "completed" => Shown(run'.proj.acts[s])
    BY <2>1, RuledMoves
  <2>5. \/ Shown(run.proj.acts[s]) => Shown(run'.proj.acts[s])
        \/ \A at \in Nat : ~Touched(flying, effects, s, at)
    <3>1. CASE how = "completed"
      BY <2>1, <2>4, <3>1
    <3>2. CASE how # "completed"
      BY <1>1, <3>2 DEF Touched, Happened
    <3> QED BY <3>1, <3>2
  <2>6. ASSUME NEW u \in UnsafeStep PROVE StepFacts(run', flying, effects, u)
    <3>1. effects[u] = effects[u] /\ \A w \in flying : w.step = u => w \in flying
      OBVIOUS
    <3>2. CASE u = s
      BY <1>2, <2>2, <2>4, <2>5, <3>1, <3>2, SubsetKept
    <3>3. CASE u # s
      BY <1>2, <2>4, <3>1, <3>3, OtherStepKept
    <3> QED BY <3>2, <3>3
  <2> QED BY <1>1, <2>3, <2>6
<1> QED BY <1>4, <1>5

\* An operation that leaves the activities, the executors and the effects alone.
LEMMA SameActivitiesKept ==
    ASSUME SettledInv, SettledRun(run'), SameActivities(run, run'),
           flying' = flying, effects' = effects, NEW u \in UnsafeStep
    PROVE  StepFacts(run', flying', effects', u)
<1>1. /\ LedgerFacts(run) /\ flying \in SUBSET Token
      /\ StepFacts(run, flying, effects, u)
  BY SettledParts
<1>2. /\ Extends(run, run') /\ KeptCheckpoints(run, run') /\ Good(run')
      /\ run'.proj.acts[u] = run.proj.acts[u]
  BY DEF SameActivities, KeptCheckpoints, SettledRun, LedgerFacts
<1>3. StillRunning(run, run', u)
  BY <1>2, SameIsRunning
<1>4. /\ effects'[u] = effects[u] /\ \A w \in flying' : w.step = u => w \in flying
      /\ Shown(run.proj.acts[u]) => Shown(run'.proj.acts[u])
  BY <1>2
<1> QED BY <1>1, <1>2, <1>3, <1>4, SubsetKept

\* An operation that emits one event of an approval, a checkpoint or a command.
LEMMA EmitOnlySettles ==
    ASSUME SettledInv, NEW e \in Event, EmitOnly(e), RunEventFits(run, e), e.op # "rewind",
           e.op = "committed" => Settled(run.proj)
    PROVE  /\ SettledRun(run')
           /\ \A u \in UnsafeStep : StepFacts(run', flying', effects', u)
<1>1. /\ run' = Emit(run, e) /\ flying' = flying /\ effects' = effects
  BY DEF EmitOnly
<1>2. SettledRun(run') /\ SameActivities(run, run')
  BY <1>1, SettledParts, RunEventFacts
<1> QED BY <1>1, <1>2, SameActivitiesKept

\* Among them the commands of the host.
LEMMA CommandSettles ==
    ASSUME SettledInv, NEW cmd \in EventCommand, NEW what \in SUBSET Fact,
           NEW ck \in CheckpointId \cup {NoCheckpoint},
           NEW op \in {"pause", "fork", "complete", "fail", "cancel"},
           EmitOnly(CommandEvent(op, run.depth, cmd, what, ck))
    PROVE  /\ SettledRun(run')
           /\ \A u \in UnsafeStep : StepFacts(run', flying', effects', u)
<1> DEFINE e == CommandEvent(op, run.depth, cmd, what, ck)
<1>1. run.depth \in 0..MaxForks /\ op \in Op
  BY SettledParts, GoodParts DEF Op
<1>2. e \in Event /\ e.op = op
  BY <1>1, CommandEventType
<1>3. EmitOnly(e)
  OBVIOUS
<1> HIDE DEF e
<1>4. RunEventFits(run, e) /\ e.op # "rewind" /\ e.op # "committed"
  BY <1>2 DEF RunEventFits
<1> QED BY <1>2, <1>3, <1>4, EmitOnlySettles

\* The event of a rewind or a fork.
LEMMA BranchEventType ==
    ASSUME NEW op \in Op, run.depth \in 0..MaxForks, NEW cmd \in Command,
           NEW ck \in CheckpointId, NEW acked \in BOOLEAN
    PROVE  /\ BranchEvent(op, cmd, ck, acked) \in Event
           /\ BranchEvent(op, cmd, ck, acked).op = op
           /\ BranchEvent(op, cmd, ck, acked).cmd = cmd
           /\ BranchEvent(op, cmd, ck, acked).ck = ck
           /\ ("acked" \in BranchEvent(op, cmd, ck, acked).what) <=> acked
<1> DEFINE what == IF acked THEN {"acked"} ELSE {}
           e == CommandEvent(op, run.depth, cmd, what, ck)
<1>1. what \in SUBSET Fact /\ ("acked" \in what <=> acked)
  BY DEF Fact
<1>2. BranchEvent(op, cmd, ck, acked) = e
  BY DEF BranchEvent
<1> HIDE DEF what
<1>3. cmd \in EventCommand /\ ck \in CheckpointId \cup {NoCheckpoint}
  BY DEF EventCommand
<1>4. e.what = what
  BY DEF CommandEvent
<1>5. e \in Event /\ e.op = op /\ e.cmd = cmd /\ e.ck = ck
  BY <1>1, <1>3, CommandEventType
<1> HIDE DEF e
<1> QED BY <1>1, <1>2, <1>4, <1>5

\* The activities that a checkpoint restores are final: none of them runs.
LEMMA RestoredIsStill ==
    ASSUME NEW r, LedgerFacts(r), NEW c \in CheckpointId, r.ckpts[c].at # 0,
           NEW s \in Step, NEW n \in DOMAIN r.ckpts[c].proj.acts[s].attempts
    PROVE  r.ckpts[c].proj.acts[s].attempts[n].status # "running"
<1>1. PICK a : a = r.ckpts[c].proj.acts[s]
  OBVIOUS
<1>2. /\ a \in Activity /\ ActivityFacts(r, a, s)
      /\ a.home # NoBranch => Final(a)
  BY <1>1, GoodParts DEF LedgerFacts, CheckpointFacts
<1>3. ASSUME a.attempts[n].status = "running" PROVE FALSE
  <2>1. n \in DOMAIN a.attempts /\ ValidActivity(a, s)
    BY <1>1, <1>2 DEF ActivityFacts
  <2>2. HasAttempt(a) /\ Latest(a) = a.attempts[n]
    BY <1>2, <1>3, <2>1, OnlyLatestMoves
  <2> QED BY <1>2, <1>3, <2>2 DEF Final, ActivityFacts
<1> QED BY <1>1, <1>3

\* A rewind, after which everything that may have had an effect had it, or was
\* authorised, at or before the checkpoint.
LEMMA RestoredKept ==
    ASSUME NEW r, LedgerFacts(r), NEW r2, Good(r2), Extends(r, r2), r2.ckpts = r.ckpts,
           NEW c \in CheckpointId, r.ckpts[c].at # 0,
           r2.proj.acts = r.ckpts[c].proj.acts, NEW s \in UnsafeStep,
           NEW fl \in SUBSET Token, NEW ef, StepFacts(r, fl, ef, s),
           \A x \in Nat : Touched(fl, ef, s, x) => Touched(fl, ef, s, r.ckpts[c].at)
    PROVE  StepFacts(r2, fl, ef, s)
<1>1. s \in Step /\ KeptCheckpoints(r, r2)
  BY DEF Step, KeptCheckpoints
<1>2. StillRunning(r, r2, s)
  BY <1>1, RestoredIsStill DEF StillRunning
<1>3. \/ Shown(r.proj.acts[s]) => Shown(r2.proj.acts[s])
      \/ \A x \in Nat : ~Touched(fl, ef, s, x)
  BY DEF StepFacts, TouchedIsShown
<1>4. ef[s] = ef[s] /\ \A t \in fl : t.step = s => t \in fl
  OBVIOUS
<1> QED BY <1>1, <1>2, <1>3, <1>4, SubsetKept

\* Fewer effects leave the facts as they are.
LEMMA FewerEffects ==
    ASSUME NEW r, NEW s, NEW fl, NEW ef, NEW ef2, StepFacts(r, fl, ef, s),
           \A i \in 0..MaxEvents : ef2[s][i] > 0 => ef2[s][i] = ef[s][i]
    PROVE  StepFacts(r, fl, ef2, s)
<1>1. \A x : Touched(fl, ef2, s, x) => Touched(fl, ef, s, x)
  BY DEF Touched
<1>2. DoneOnce(r, fl, ef2, s)
  <2> SUFFICES ASSUME NEW i \in 0..MaxEvents, ef2[s][i] > 0
               PROVE  /\ ef2[s][i] = 1
                      /\ i # 0 => i \in DOMAIN r.log /\ r.log[i].op = "started"
                                  /\ r.log[i].key = s
                      /\ \A j \in 0..MaxEvents : ef2[s][j] > 0 => i = j
                      /\ \A t \in fl : t.step = s => ~Armed(t)
    BY DEF DoneOnce
  <2>1. ef[s][i] > 0 /\ ef2[s][i] = ef[s][i]
    OBVIOUS
  <2> QED BY <2>1 DEF StepFacts, DoneOnce
<1>3. TouchedIsShown(r, fl, ef2, s)
  BY <1>1 DEF StepFacts, TouchedIsShown
<1> QED BY <1>2, <1>3 DEF StepFacts

\* rewind, unless it is refused or was taken before.
LEMMA RewindSettles ==
    ASSUME SettledInv, NEW cmd \in Command, NEW ck \in CheckpointId, NEW acked \in BOOLEAN,
           Rewind(cmd, ck, acked)
    PROVE  /\ SettledRun(run')
           /\ \A u \in UnsafeStep : StepFacts(run', flying', effects', u)
<1> DEFINE e == BranchEvent("rewind", cmd, ck, acked)
           at == run.ckpts[ck].at
           undone == [s \in Step |-> [i \in 0..MaxEvents |->
                         IF i > at THEN 0 ELSE effects[s][i]]]
<1>1. /\ at # 0 /\ TruthfulAck(ck, acked) /\ run' = Emit(run, e) /\ flying' = flying
      /\ effects' = IF acked /\ Fresh(run, e) /\ Legal(run, e) THEN undone ELSE effects
  BY DEF Rewind
<1>2. /\ LedgerFacts(run) /\ SettledRun(run) /\ Good(run) /\ flying \in SUBSET Token
      /\ effects \in [Step -> [0..MaxEvents -> Nat]]
      /\ \A u \in UnsafeStep : StepFacts(run, flying, effects, u)
      /\ at \in Nat /\ run.depth \in 0..MaxForks
      /\ DOMAIN run.log = 1..Len(run.log) /\ Len(run.log) \in Nat
  BY SettledParts, GoodParts DEF Checkpoint
<1>3. /\ e \in Event /\ e.op = "rewind" /\ e.cmd = cmd /\ e.ck = ck
      /\ ("acked" \in e.what) <=> acked
  BY <1>2, BranchEventType DEF Op
<1> HIDE DEF e
<1>4. CASE ~(Fresh(run, e) /\ Legal(run, e))
  <2>1. run' = run /\ effects' = effects
    BY <1>1, <1>4 DEF Emit
  <2> QED BY <1>1, <1>2, <2>1
<1>5. CASE Fresh(run, e) /\ Legal(run, e)
  <2>1. RunEventFits(run, e)
    BY <1>3 DEF RunEventFits
  <2>2. /\ SettledRun(run') /\ Extends(run, run') /\ run'.ckpts = run.ckpts
        /\ run'.proj.acts = run.ckpts[ck].proj.acts
        /\ ReconciledAfter(run, at, "acked" \in e.what)
    BY <1>1, <1>2, <1>3, <1>5, <2>1, RewindFacts
  <2>3. Good(run')
    BY <2>2 DEF SettledRun, LedgerFacts
  <2>4. ASSUME NEW u \in UnsafeStep,
               StepFacts(run, flying, effects', u),
               \A x \in Nat : Touched(flying, effects', u, x) => Touched(flying, effects', u, at)
        PROVE  StepFacts(run', flying', effects', u)
    BY <1>1, <1>2, <2>2, <2>3, <2>4, RestoredKept
  <2>5. CASE acked
    <3>1. /\ effects' = undone
          /\ \A t \in flying : t.seq <= at
      BY <1>1, <1>5, <2>5 DEF TruthfulAck
    <3>2. ASSUME NEW u \in UnsafeStep PROVE StepFacts(run', flying', effects', u)
      <4>1. u \in Step
        BY DEF Step
      <4>2. \A i \in 0..MaxEvents : effects'[u][i] = IF i > at THEN 0 ELSE effects[u][i]
        BY <3>1, <4>1
      <4>3. \A i \in 0..MaxEvents : effects'[u][i] > 0 =>
                effects'[u][i] = effects[u][i] /\ i <= at
        BY <1>2, <4>2
      <4>4. StepFacts(run, flying, effects', u)
        BY <1>2, <4>3, FewerEffects
      <4>5. \A x \in Nat : Touched(flying, effects', u, x) => Touched(flying, effects', u, at)
        BY <3>1, <4>3 DEF Touched
      <4> QED BY <2>4, <4>4, <4>5
    <3> QED BY <2>2, <3>2
  <2>6. CASE ~acked
    <3>1. /\ effects' = effects
          /\ \A i \in DOMAIN run.log :
               i > at /\ run.log[i].op = "started" => run.log[i].key \in PureStep
      BY <1>1, <1>3, <2>2, <2>6 DEF ReconciledAfter
    <3>2. ASSUME NEW u \in UnsafeStep PROVE StepFacts(run', flying', effects', u)
      <4>1. u \notin PureStep
        BY StepClasses
      <4>2. StepFacts(run, flying, effects, u)
        BY <1>2
      <4>3. \A i \in 0..MaxEvents : effects[u][i] > 0 => i <= at
        <5> SUFFICES ASSUME NEW i \in 0..MaxEvents, effects[u][i] > 0 PROVE i <= at
          OBVIOUS
        <5>1. i # 0 => i \in DOMAIN run.log /\ run.log[i].op = "started" /\ run.log[i].key = u
          BY <4>2 DEF StepFacts, DoneOnce
        <5>2. i # 0 => ~(i > at)
          BY <3>1, <4>1, <5>1
        <5> HIDE DEF at
        <5> QED BY <1>2, <5>2
      <4>4. \A t \in flying : t.step = u => t.seq <= at
        <5> SUFFICES ASSUME NEW t \in flying, t.step = u PROVE t.seq <= at
          OBVIOUS
        <5>1. t.seq \in Nat
          BY <1>2 DEF Token
        <5>2. \/ t.seq \in DOMAIN run.log /\ run.log[t.seq].op = "started"
                 /\ run.log[t.seq].key = u
              \/ t.seq = 0
          BY <4>2 DEF StepFacts, TokenFacts
        <5>3. t.seq # 0 => ~(t.seq > at)
          BY <3>1, <4>1, <5>2
        <5> HIDE DEF at
        <5> QED BY <1>2, <5>1, <5>3
      <4>5. \A x \in Nat : Touched(flying, effects, u, x) => Touched(flying, effects, u, at)
        BY <4>3, <4>4 DEF Touched
      <4> QED BY <2>4, <3>1, <4>2, <4>5
    <3> QED BY <2>2, <3>2
  <2> QED BY <2>5, <2>6
<1> QED BY <1>4, <1>5

\* fork, and the host goes on with the child: what the parent authorised up to
\* the checkpoint counts as authorised before the child's log began.
LEMMA ForkChildSettles ==
    ASSUME SettledInv, NEW cmd \in Command, NEW ck \in CheckpointId, NEW acked \in BOOLEAN,
           ForkChild(cmd, ck, acked)
    PROVE  /\ SettledRun(run')
           /\ \A u \in UnsafeStep : StepFacts(run', flying', effects', u)
<1> DEFINE at == run.ckpts[ck].at
           happened(s) == \E j \in 0..MaxEvents : j <= at /\ effects[s][j] > 0
           moved(t) == [t EXCEPT !.seq = 0]
<1>1. /\ flying' = {moved(t) : t \in {u \in flying : u.seq <= at}} /\ at # 0
      /\ effects' = [s \in Step |-> [i \in 0..MaxEvents |->
             IF i = 0 /\ happened(s) THEN 1 ELSE 0]]
  BY DEF ForkChild, CanFork
<1>2. /\ Inv /\ SettledRun(run) /\ flying \in SUBSET Token
      /\ \A u \in UnsafeStep : StepFacts(run, flying, effects, u)
      /\ run.depth \in 0..MaxForks /\ at \in Nat
  BY SettledParts, GoodParts DEF Checkpoint
<1>3. /\ SettledRun(run') /\ run'.depth = run.depth + 1
      /\ run'.proj.acts = run.ckpts[ck].proj.acts
      /\ \A c \in CheckpointId : run'.ckpts[c].at # 0 =>
           run'.ckpts[c].at = 1 /\ run'.ckpts[c].proj.acts = run.ckpts[ck].proj.acts
  BY <1>2, ForkChildFacts
<1>4. \A t \in Token : /\ moved(t).step = t.step /\ moved(t).depth = t.depth
                       /\ moved(t).home = t.home /\ moved(t).seq = 0
                       /\ Armed(moved(t)) <=> Armed(t)
  BY DEF Token, Armed
<1> HIDE DEF moved
<1>5. ASSUME NEW t2 \in flying'
      PROVE  \E t \in flying : t2 = moved(t) /\ t \in Token /\ t.seq <= at
  BY <1>1, <1>2, <1>5
<1>6. ASSUME NEW u \in UnsafeStep PROVE StepFacts(run', flying', effects', u)
  <2>1. StepFacts(run, flying, effects, u) /\ u \in Step
    BY <1>2, <1>6 DEF Step
  <2>2. \A i \in 0..MaxEvents : effects'[u][i] = IF i = 0 /\ happened(u) THEN 1 ELSE 0
    BY <1>1, <2>1
  <2> HIDE DEF happened
  <2>3. \A i \in 0..MaxEvents : effects'[u][i] > 0 => i = 0 /\ happened(u) /\ effects'[u][i] = 1
    BY <2>2
  <2>4. ASSUME NEW t2 \in flying', t2.step = u PROVE TokenFacts(run', t2)
    <3>1. PICK t \in flying : t2 = moved(t) /\ t \in Token
      BY <1>5
    <3>2. t.step = u /\ t2.depth = t.depth /\ t2.home = t.home /\ t2.seq = 0
      BY <1>4, <2>4, <3>1
    <3>3. /\ TokenFacts(run, t) /\ t.depth \in 0..MaxForks
      BY <2>1, <3>1, <3>2 DEF StepFacts, Token
    <3>4. t.home # NoBranch /\ (t.depth = run.depth \/ t.depth < run.depth)
      BY <3>3 DEF TokenFacts
    <3>5. t2.depth < run'.depth /\ t2.depth # run'.depth
      BY <1>2, <1>3, <3>2, <3>3, <3>4
    <3> QED BY <3>2, <3>4, <3>5 DEF TokenFacts
  <2>5. DoneOnce(run', flying', effects', u)
    <3>1. ASSUME happened(u), NEW t2 \in flying', t2.step = u PROVE ~Armed(t2)
      <4>1. PICK t \in flying : t2 = moved(t) /\ t \in Token
        BY <1>5
      <4>2. t.step = u /\ (Armed(t2) <=> Armed(t))
        BY <1>4, <3>1, <4>1
      <4> QED BY <2>1, <3>1, <4>2 DEF StepFacts, DoneOnce, happened
    <3> QED BY <2>3, <3>1 DEF DoneOnce
  <2>6. OneArmed(flying', u)
    <3> SUFFICES ASSUME NEW t2 \in flying', NEW w2 \in flying', t2.step = u, w2.step = u,
                        Armed(t2), Armed(w2)
                 PROVE  t2 = w2
      BY DEF OneArmed
    <3>1. PICK t \in flying : t2 = moved(t) /\ t \in Token
      BY <1>5
    <3>2. PICK w \in flying : w2 = moved(w) /\ w \in Token
      BY <1>5
    <3>3. t.step = u /\ w.step = u /\ Armed(t) /\ Armed(w)
      BY <1>4, <3>1, <3>2
    <3>4. t = w
      BY <2>1, <3>3 DEF StepFacts, OneArmed
    <3> QED BY <3>1, <3>2, <3>4
  <2>7. ASSUME NEW x, Touched(flying', effects', u, x)
        PROVE  Shown(run.ckpts[ck].proj.acts[u])
    <3>1. CASE \E i \in 0..MaxEvents : i <= x /\ effects'[u][i] > 0
      <4>1. happened(u)
        BY <2>3, <3>1
      <4> QED BY <1>1, <2>1, <4>1 DEF StepFacts, TouchedIsShown, Touched, happened
    <3>2. CASE \E t2 \in flying' : t2.step = u /\ Armed(t2)
      <4>1. PICK t \in flying : t.step = u /\ Armed(t) /\ t.seq <= at
        BY <1>4, <1>5, <3>2
      <4> QED BY <1>1, <2>1, <4>1 DEF StepFacts, TouchedIsShown, Touched
    <3> QED BY <2>7, <3>1, <3>2 DEF Touched
  <2>8. TouchedIsShown(run', flying', effects', u)
    BY <1>3, <2>1, <2>7 DEF TouchedIsShown
  <2> QED BY <2>4, <2>5, <2>6, <2>8 DEF StepFacts
<1> QED BY <1>3, <1>6

\* Every operation on activities.
LEMMA ActivityStepSettles ==
    ASSUME SettledInv, ActivityStep
    PROVE  SettledInv'
<1>1. Inv'
  BY ActivityStepInv DEF SettledInv
<1>2. /\ SettledRun(run')
      /\ \A u \in UnsafeStep : StepFacts(run', flying', effects', u)
  BY PrepareSettles, PerformSettles, LoseSettles, CompleteSettles, FailSettles,
     CancelSettles, ReconcileSettles DEF ActivityStep
<1> QED BY <1>1, <1>2 DEF SettledInv

\* Every operation on the run; the host checkpoints settled activities only.
LEMMA RunStepSettles ==
    ASSUME CheckpointWhenSettled, SettledInv, RunStep
    PROVE  SettledInv'
<1> DEFINE kept == /\ SettledRun(run')
                   /\ \A u \in UnsafeStep : StepFacts(run', flying', effects', u)
<1>1. Inv'
  BY RunStepInv DEF SettledInv
<1>2. /\ Inv /\ SettledRun(run) /\ run.proj.branch \in Branch /\ run.depth \in 0..MaxForks
  BY SettledParts, GoodParts DEF Projection
<1>3. "none" \in EventCommand /\ {} \in SUBSET Fact /\ Command \subseteq EventCommand
      /\ NoCheckpoint \in CheckpointId \cup {NoCheckpoint}
  BY DEF EventCommand
<1>4. ASSUME NEW key \in ApprovalKey, RequestApproval(key) PROVE kept
  <2> DEFINE id == <<run.proj.branch, key>>
             e == KeyedEvent("requested", id, "none", {})
  <2>1. id \in Branch \X (ApprovalKey \cup CheckpointKey) /\ "requested" \in Op
    BY <1>2 DEF Op
  <2>2. e \in Event /\ e.op = "requested" /\ e.of = run.proj.branch /\ e.key = key
    BY <1>3, <2>1, KeyedEventType
  <2>3. EmitOnly(e)
    BY <1>4 DEF RequestApproval
  <2> HIDE DEF e
  <2>4. RunEventFits(run, e)
    BY <1>2, <2>2 DEF RunEventFits, ApprovalId
  <2>5. e.op # "rewind" /\ e.op # "committed"
    BY <2>2
  <2> QED BY <2>2, <2>3, <2>4, <2>5, EmitOnlySettles
<1>5. ASSUME NEW cmd \in Command, NEW list \in Listings(Pending(run.proj)),
             NEW approved \in SUBSET Pending(run.proj), Resume(cmd, list, approved)
      PROVE  kept
  <2>1. flying' = flying /\ effects' = effects
    BY <1>5 DEF Resume
  <2>2. SettledRun(run') /\ SameActivities(run, run')
    BY <1>2, <1>5, ResumeFacts
  <2> QED BY <2>1, <2>2, SameActivitiesKept
<1>6. ASSUME NEW key \in CheckpointKey, CommitCheckpoint(key) PROVE kept
  <2> DEFINE id == <<run.proj.branch, key>>
             e == KeyedEvent("committed", id, "none", {})
  <2>1. id \in Branch \X (ApprovalKey \cup CheckpointKey) /\ "committed" \in Op
    BY <1>2 DEF Op
  <2>2. e \in Event /\ e.op = "committed" /\ e.of = run.proj.branch /\ e.key = key
    BY <1>3, <2>1, KeyedEventType
  <2>3. EmitOnly(e) /\ ActiveAndReconciled(run) /\ Settled(run.proj)
    BY <1>6 DEF CommitCheckpoint
  <2> HIDE DEF e
  <2>4. RunEventFits(run, e)
    BY <1>2, <2>2, <2>3 DEF RunEventFits, CheckpointId
  <2>5. e.op # "rewind"
    BY <2>2
  <2> QED BY <2>2, <2>3, <2>4, <2>5, EmitOnlySettles
<1>7. ASSUME NEW cmd \in Command, Pause(cmd) PROVE kept
  BY <1>3, <1>7, CommandSettles DEF Pause
<1>8. ASSUME CompleteRun \/ FailRun \/ CancelRun PROVE kept
  BY <1>3, <1>8, CommandSettles DEF CompleteRun, FailRun, CancelRun
<1>9. ASSUME NEW cmd \in Command, NEW ck \in CheckpointId, NEW acked \in BOOLEAN,
             Rewind(cmd, ck, acked)
      PROVE  kept
  BY <1>9, RewindSettles
<1>10. ASSUME NEW cmd \in Command, NEW ck \in CheckpointId, NEW acked \in BOOLEAN,
              ForkParent(cmd, ck, acked)
       PROVE  kept
  <2> DEFINE e == BranchEvent("fork", cmd, ck, acked)
  <2>1. e \in Event /\ e.op = "fork"
    BY <1>2, BranchEventType DEF Op
  <2>2. EmitOnly(e)
    BY <1>10 DEF ForkParent
  <2> HIDE DEF e
  <2>3. RunEventFits(run, e) /\ e.op # "rewind" /\ e.op # "committed"
    BY <2>1 DEF RunEventFits
  <2> QED BY <2>1, <2>2, <2>3, EmitOnlySettles
<1>11. ASSUME NEW cmd \in Command, NEW ck \in CheckpointId, NEW acked \in BOOLEAN,
              ForkChild(cmd, ck, acked)
       PROVE  kept
  BY <1>11, ForkChildSettles
<1> HIDE DEF kept
<1>12. kept
  BY <1>4, <1>5, <1>6, <1>7, <1>8, <1>9, <1>10, <1>11 DEF RunStep
<1> QED BY <1>1, <1>12 DEF SettledInv, kept

\* A new run has no executors and no effects.
LEMMA InitSettles ==
    ASSUME Init PROVE SettledInv
<1>1. Inv /\ SettledRun(run)
  BY InitInv, InitSettled
<1>2. flying = {} /\ \A s \in Step : \A i \in 0..MaxEvents : effects[s][i] = 0
  BY DEF Init
<1>3. \A s \in UnsafeStep : StepFacts(run, flying, effects, s)
  BY <1>2 DEF StepFacts, DoneOnce, OneArmed, TouchedIsShown, Touched, Step
<1> QED BY <1>1, <1>3 DEF SettledInv

\* If the host checkpoints only settled activities, the ledger, its executors
\* and the effects agree in every behaviour, across reports that come late or
\* twice, interruptions, reconciliations, rewinds and forks of forks.
THEOREM SettledInvariant == CheckpointWhenSettled /\ Spec => []SettledInv
<1> SUFFICES ASSUME CheckpointWhenSettled PROVE Spec => []SettledInv
  OBVIOUS
<1>1. Init => SettledInv
  BY InitSettles
<1>2. SettledInv /\ [Next]_vars => SettledInv'
  <2> SUFFICES ASSUME SettledInv, [Next]_vars PROVE SettledInv'
    OBVIOUS
  <2>1. CASE Next
    BY <2>1, ActivityStepSettles, RunStepSettles DEF Next
  <2>2. CASE UNCHANGED vars
    BY <2>2 DEF vars, SettledInv, Inv, SettledRun
  <2> QED BY <2>1, <2>2
<1> QED BY <1>1, <1>2, PTL DEF Spec

-----------------------------------------------------------------------------
(* What the invariant says. *)

\* The answer that prepare_activity gives on a settled ledger.
LEMMA SettledAnswer ==
    ASSUME SettledInv, EnsureExecuting(run), NEW s \in Step
    PROVE  Decided(ScheduleIfAbsent(run, s), Answer(s), s)
BY SettledParts, PrepareFacts DEF Answer

\* Under the discipline no caller of prepare_activity executes an attempt that
\* the ledger does not record: append_event took the start it was told of.
THEOREM ExecutionsAreRecorded ==
    CheckpointWhenSettled /\ Spec => []ExecutionIsRecorded
<1>1. SettledInv => ExecutionIsRecorded
  <2> SUFFICES ASSUME SettledInv, NEW s \in Step, EnsureExecuting(run),
                      Answer(s).told = "execute"
               PROVE  /\ LatestIs(Answer(s).run.proj.acts[s], "running")
                      /\ Len(Answer(s).run.proj.acts[s].attempts) = Answer(s).n
    BY DEF ExecutionIsRecorded
  <2>1. Decided(ScheduleIfAbsent(run, s), Answer(s), s)
    BY SettledAnswer
  <2> QED BY <2>1 DEF Decided
<1> QED BY <1>1, SettledInvariant, PTL

\* validate_projection_keyed_identities accepts every checkpoint that a settled
\* host commits, so fork never refuses one, in a fork of a fork either.
THEOREM CheckpointsStayForkable ==
    CheckpointWhenSettled /\ Spec => []CheckpointsForkable
<1>1. SettledInv => CheckpointsForkable
  <2> SUFFICES ASSUME SettledInv, NEW c \in CheckpointId, run.ckpts[c].at # 0, NEW s \in Step
               PROVE  ValidActivity(run.ckpts[c].proj.acts[s], s)
    BY DEF CheckpointsForkable, ValidProjection, ValidActivity
  <2>1. CheckpointFacts(run, run.ckpts[c])
    BY SettledParts DEF LedgerFacts
  <2> QED BY <2>1 DEF CheckpointFacts, ActivityFacts
<1> QED BY <1>1, SettledInvariant, PTL

\* decide_activity on an unsafe attempt that is still recorded as running makes
\* the run wait for reconciliation: its event is new and append_event takes it.
THEOREM AmbiguityAlwaysStops ==
    CheckpointWhenSettled /\ Spec => []AmbiguityStopsTheRun
<1>1. SettledInv => AmbiguityStopsTheRun
  <2> SUFFICES ASSUME SettledInv, NEW s \in UnsafeStep, EnsureExecuting(run),
                      LatestIs(run.proj.acts[s], "running")
               PROVE  Answer(s).run.proj.status = "reconcile_required"
    BY DEF AmbiguityStopsTheRun
  <2> DEFINE a == run.proj.acts[s]
  <2>1. /\ LedgerFacts(run) /\ s \in Step /\ a \in Activity /\ ActivityFacts(run, a, s)
        /\ HasAttempt(a) /\ Latest(a).status = "running"
    BY SettledParts, GoodParts DEF Step, LedgerFacts, LatestIs
  <2>2. a.home # NoBranch /\ ScheduleIfAbsent(run, s) = run
    BY <2>1 DEF ActivityFacts, ScheduleIfAbsent
  <2>3. ~Completed(a)
    <3> SUFFICES ASSUME NEW n \in DOMAIN a.attempts, a.attempts[n].status = "completed"
                 PROVE  FALSE
      BY DEF Completed
    <3> HIDE DEF a
    <3>1. Latest(a) = a.attempts[n]
      BY <2>1, OnlyLatestMoves DEF ActivityFacts
    <3> QED BY <2>1, <3>1
  <2>4. ~RetryIsSafe(s, TRUE)
    BY StepClasses DEF RetryIsSafe
  <2>5. Answer(s) = DecideReconcile(run, s, "interrupted")
    BY <2>1, <2>2, <2>3, <2>4 DEF Answer, Decide, DecideInterrupted
  <2>6. EnsureActive(run) /\ "interrupted" \in Fact
    BY DEF EnsureActive, EnsureExecuting, IsTerminal, TerminalStatus, Fact
  <2> QED BY <2>1, <2>5, <2>6, DecideReconcileFacts
<1> QED BY <1>1, SettledInvariant, PTL

\* The effect of an activity of class ReconcileRequired is applied at most
\* once: prepare_activity and fail_activity authorise an execution only when no
\* earlier one had its effect and none can still have it, unless whoever
\* rewound or forked acknowledged the earlier one as reconciled.
THEOREM EffectsHappenOnce ==
    CheckpointWhenSettled /\ Spec => []NoDoubleEffect
<1>1. SettledInv => NoDoubleEffect
  BY DEF SettledInv, StepFacts, DoneOnce, NoDoubleEffect
<1> QED BY <1>1, SettledInvariant, PTL

\* complete_run is refused while an attempt runs or awaits reconciliation, so
\* a completed run records every effect that really happened as completed.
THEOREM CompletedRunsShowTheirEffects ==
    CheckpointWhenSettled /\ Spec => []CompletedRunShowsItsEffects
<1>1. SettledInv => CompletedRunShowsItsEffects
  <2> SUFFICES ASSUME SettledInv, run.proj.status = "completed",
                      NEW s \in UnsafeStep, Happened(s)
               PROVE  Completed(run.proj.acts[s])
    BY DEF CompletedRunShowsItsEffects
  <2> DEFINE a == run.proj.acts[s]
  <2>1. /\ s \in Step /\ a \in Activity /\ Coherent(run.proj)
        /\ StepFacts(run, flying, effects, s)
    BY SettledParts, GoodParts DEF Step, Good
  <2>2. PICK i \in 0..MaxEvents : effects[s][i] > 0
    BY DEF Happened
  <2>3. Touched(flying, effects, s, i) /\ i \in Nat
    BY <2>2, BoundsAreNaturals DEF Touched
  <2>4. Shown(a)
    BY <2>1, <2>3 DEF StepFacts, TouchedIsShown
  <2>5. ~HasReconciliationPending(run.proj) /\ ~HasRunningActivity(run.proj)
    BY <2>1 DEF Coherent, IsTerminal, TerminalStatus
  <2>6. /\ HasAttempt(a) /\ Len(a.attempts) \in DOMAIN a.attempts
        /\ Latest(a) = a.attempts[Len(a.attempts)]
    BY <2>1, <2>4, ActivityParts DEF Shown
  <2>7. Latest(a).status # "running"
    BY <2>1, <2>5, <2>6 DEF HasRunningActivity
  <2>8. Latest(a).status # "reconcile_required"
    BY <2>1, <2>5, <2>6 DEF HasReconciliationPending, LatestIs
  <2>9. Latest(a).status = "completed"
    BY <2>4, <2>7, <2>8 DEF Shown
  <2> QED BY <2>6, <2>9 DEF Completed
<1> QED BY <1>1, SettledInvariant, PTL
=============================================================================
