--------------------------- MODULE RuntimeProofs ---------------------------
(***************************************************************************)
(* Proofs about the runtime that is composed of its parts, for any number  *)
(* of calls, operators, writers, targets, invocations and I/O errors.      *)
(*                                                                         *)
(* What ResilienceProofs, RunLifecycleProofs and BudgetLedgerProofs prove  *)
(* of a component holds of the runtime: a step of the runtime is a step of *)
(* one part, and changes nothing that another part sees.                   *)
(*                                                                         *)
(* The session store with a lock (SessionLocked, whose names this module   *)
(* has as they are) is proved here.  The refinement needs one fact that no *)
(* single operation shows: the copy a call loaded long ago is the stored   *)
(* session whenever the revisions are equal (RevisionIdentifies).  Only    *)
(* then does a commit that compares revisions add to what is stored.       *)
(* Exclusion needs another one: unless an operator was rash, who runs      *)
(* holds the lease (RunningHolds).                                         *)
(***************************************************************************)
EXTENDS MCRuntime, FiniteSets, TLAPS

Targeted == INSTANCE ResilienceProofs WITH call <- rCall, Call <- Runner

Audited == INSTANCE RunLifecycleProofs

Charged == INSTANCE BudgetLedgerProofs WITH call <- bCall

-----------------------------------------------------------------------------
(* The calls that go from target to target. *)

\* Every behaviour of the runtime is one of Resilience.
LEMMA RuntimeIsTargeted == RuntimeSpec => Targeted!Spec
<1>1. RuntimeInit => Targeted!Init
  BY DEF RuntimeInit, Resilient!Init, Targeted!Init
<1>2. Resilient!Next => Targeted!Next
  BY DEF Resilient!Next, Targeted!Next, Resilient!Begin, Targeted!Begin,
         Resilient!StartAttempt, Targeted!StartAttempt, Resilient!Open, Targeted!Open,
         Resilient!GiveUp, Targeted!GiveUp, Resilient!Fail, Targeted!Fail,
         Resilient!KeepBack, Targeted!KeepBack, Resilient!Speak, Targeted!Speak,
         Resilient!RecordFirstDelta, Targeted!RecordFirstDelta,
         Resilient!Release, Targeted!Release, Resilient!Drop, Targeted!Drop,
         Resilient!Goto, Targeted!Goto, Resilient!Again, Targeted!Again,
         Resilient!Recorded, Targeted!Recorded, Resilient!OthersKeep, Targeted!OthersKeep,
         Resilient!Busy, Targeted!Busy, Resilient!Over, Targeted!Over,
         Resilient!Attempt, Targeted!Attempt
<1>3. [RuntimeNext]_allVars => [Targeted!Next]_(Targeted!vars)
  BY <1>2 DEF RuntimeNext, allVars, resilientVars, Targeted!vars
<1> QED
  BY <1>1, <1>3, PTL DEF Targeted!Spec, RuntimeSpec

\* The constants of MCRuntime fit the module of targets and attempts.
LEMMA TargetedConstants == Targeted!ConstantsFit
BY ResilientConstants DEF Targeted!ConstantsFit, Resilient!ConstantsFit

\* Of the targets and attempts of a model call the caller hears one, and nobody
\* is asked again after a provider has sent output or billed usage.
THEOREM CallersHearOneVoice == RuntimeSpec => []OneVoice
<1>1. Targeted!OneVoice => OneVoice
  BY DEF Targeted!OneVoice, OneVoice, Resilient!OneVoice
<1> QED
  BY <1>1, RuntimeIsTargeted, TargetedConstants, Targeted!CallersHearOneVoice, PTL

\* The sticky target that the calls share moves back only by a call that
\* overlaps with the one that moved it on.
THEOREM OnlyOverlapRetreats == RuntimeSpec => RetreatNeedsOverlap
<1> DEFINE Excused == sticky' < sticky =>
                          \E c \in overlap : rCall[c].pc = "recorded" /\ rCall'[c].pc = "released"
<1>1. [Excused]_(Targeted!vars) => [Excused]_(Resilient!vars)
  BY DEF Targeted!vars, Resilient!vars
<1>2. RuntimeSpec => Targeted!RetreatNeedsOverlap
  BY RuntimeIsTargeted, TargetedConstants, Targeted!OnlyOverlapRetreats, PTL
<1> QED
  BY <1>1, <1>2, PTL
  DEF Targeted!RetreatNeedsOverlap, RetreatNeedsOverlap, Resilient!RetreatNeedsOverlap

-----------------------------------------------------------------------------
(* The durable run and its audit spans. *)

\* Every behaviour of the runtime is one of RunLifecycle.
LEMMA RuntimeIsAudited == RuntimeSpec => Audited!Spec
<1>1. RuntimeInit => Audited!Init
  BY DEF RuntimeInit, Lifecycle!Init, Audited!Init, Lifecycle!NewRun, Audited!NewRun,
         Lifecycle!Step, Audited!Step
<1>2. Lifecycle!Next => Audited!Next
  <2> USE DEF Lifecycle!Step, Audited!Step, Lifecycle!Terminal, Audited!Terminal,
              Lifecycle!StatusOf, Audited!StatusOf, Lifecycle!StepRuns, Audited!StepRuns,
              Lifecycle!Pending, Audited!Pending, Lifecycle!MayBecomeTerminal,
              Audited!MayBecomeTerminal, Lifecycle!Ambiguous, Audited!Ambiguous,
              Lifecycle!Interrupted, Audited!Interrupted, Lifecycle!InterruptedAudit,
              Audited!InterruptedAudit, Lifecycle!Quarantined, Audited!Quarantined,
              Lifecycle!Disposition, Audited!Disposition, Lifecycle!Idle, Audited!Idle,
              Lifecycle!Active, Audited!Active, Lifecycle!At, Audited!At, Lifecycle!Copy,
              Audited!Copy, Lifecycle!Goto, Audited!Goto, Lifecycle!StopBecause,
              Audited!StopBecause, Lifecycle!Poison, Audited!Poison, Lifecycle!Transition,
              Audited!Transition, Lifecycle!NoOutsideEffect, Audited!NoOutsideEffect,
              Lifecycle!Emit, Audited!Emit, Lifecycle!Doing, Audited!Doing, Lifecycle!StepOf,
              Audited!StepOf, Lifecycle!TakesEffect, Audited!TakesEffect,
              Lifecycle!BeginActivity, Audited!BeginActivity, Lifecycle!FinishActivity,
              Audited!FinishActivity, Lifecycle!Undecided, Audited!Undecided, Lifecycle!Written,
              Audited!Written, Lifecycle!Reconciled, Audited!Reconciled
  <2>1. ASSUME NEW i \in Invocation, Lifecycle!Opening(i) PROVE Audited!Opening(i)
    BY <2>1
    DEF Lifecycle!Opening, Audited!Opening, Lifecycle!ClaimInvocation, Audited!ClaimInvocation,
        Lifecycle!InvocationDisposition, Audited!InvocationDisposition,
        Lifecycle!BeginInvocationLifecycle, Audited!BeginInvocationLifecycle, Lifecycle!Recheck,
        Audited!Recheck, Lifecycle!EmitRunStarted, Audited!EmitRunStarted,
        Lifecycle!FailInvocationLifecycle, Audited!FailInvocationLifecycle
  <2>2. ASSUME NEW i \in Invocation, Lifecycle!Turn(i) PROVE Audited!Turn(i)
    BY <2>2
    DEF Lifecycle!Turn, Audited!Turn, Lifecycle!BeginProvider, Audited!BeginProvider,
        Lifecycle!StopBeforeRequest, Audited!StopBeforeRequest, Lifecycle!ProviderAnswers,
        Audited!ProviderAnswers, Lifecycle!CompleteProvider, Audited!CompleteProvider,
        Lifecycle!FailAmbiguously, Audited!FailAmbiguously, Lifecycle!StopAfterAnswer,
        Audited!StopAfterAnswer, Lifecycle!BeginTool, Audited!BeginTool, Lifecycle!ToolStarted,
        Audited!ToolStarted, Lifecycle!ToolNotStarted, Audited!ToolNotStarted,
        Lifecycle!ToolExecutes, Audited!ToolExecutes, Lifecycle!CompleteTool,
        Audited!CompleteTool
  <2>3. ASSUME NEW i \in Invocation, Lifecycle!Closing(i) PROVE Audited!Closing(i)
    BY <2>3
    DEF Lifecycle!Closing, Audited!Closing, Lifecycle!EmitDirect, Audited!EmitDirect,
        Lifecycle!BeginRunStoppedAudit, Audited!BeginRunStoppedAudit, Lifecycle!EmitRunStopped,
        Audited!EmitRunStopped, Lifecycle!CompleteAuditAndLifecycle,
        Audited!CompleteAuditAndLifecycle, Lifecycle!FailAuditAndLifecycle,
        Audited!FailAuditAndLifecycle, Lifecycle!FinalizeReceipt, Audited!FinalizeReceipt,
        Lifecycle!BeginAuditRetry, Audited!BeginAuditRetry, Lifecycle!EmitRetry,
        Audited!EmitRetry, Lifecycle!CompleteAuditRetry, Audited!CompleteAuditRetry,
        Lifecycle!FailAuditRetry, Audited!FailAuditRetry
  <2> QED
    BY <2>1, <2>2, <2>3
    DEF Lifecycle!Next, Audited!Next,
        Lifecycle!DropStream, Audited!DropStream, Lifecycle!ReconcileFence,
        Audited!ReconcileFence, Lifecycle!Crash, Audited!Crash, Lifecycle!OpenDriver,
        Audited!OpenDriver, Lifecycle!ReconcileStep, Audited!ReconcileStep,
        Lifecycle!ReconcileAudit, Audited!ReconcileAudit, Lifecycle!Resume, Audited!Resume,
        Lifecycle!CancelRun, Audited!CancelRun
<1>3. [RuntimeNext]_allVars => [Audited!Next]_(Audited!vars)
  BY <1>2 DEF RuntimeNext, allVars, lifecycleVars, Audited!vars
<1> QED
  BY <1>1, <1>3, PTL DEF Audited!Spec, RuntimeSpec

\* The constants of MCRuntime fit the module of runs and audit spans.
LEMMA AuditedConstants == Audited!ConstantsFit
BY LifecycleConstants DEF Audited!ConstantsFit, Lifecycle!ConstantsFit

\* Of every invocation whose RunStarted is at the audit sink without its
\* RunStopped, the run still holds the fence or the record that owes it.
THEOREM OpenSpansAreFenced == RuntimeSpec => []OpenSpanIsFenced
<1>1. Audited!OpenSpanIsFenced => OpenSpanIsFenced
  BY DEF Audited!OpenSpanIsFenced, OpenSpanIsFenced, Lifecycle!OpenSpanIsFenced,
         Audited!SpanIsOpen, Lifecycle!SpanIsOpen
<1> QED
  BY <1>1, RuntimeIsAudited, AuditedConstants, Audited!OpenSpansAreFenced, PTL

\* No record of a span reaches the sink twice, and no provider request or tool
\* call takes effect twice, over all the invocations that resume a run.
THEOREM EverythingHappensOnce == RuntimeSpec => []NothingTwice
<1>1. Audited!NothingTwice => NothingTwice
  BY DEF Audited!NothingTwice, NothingTwice, Lifecycle!NothingTwice, Audited!Step, Lifecycle!Step
<1> QED
  BY <1>1, RuntimeIsAudited, AuditedConstants, Audited!EverythingHappensOnce, PTL

\* A run that finalize_run_stopped_receipt or cancel_run made terminal has no
\* open span at the sink, nobody who acts for it, and no receipt in doubt.
THEOREM TerminalRunsAreSettled == RuntimeSpec => []TerminalIsSettled
<1>1. Audited!TerminalIsSettled => TerminalIsSettled
  BY DEF Audited!TerminalIsSettled, TerminalIsSettled, Lifecycle!TerminalIsSettled,
         Audited!SpanIsOpen, Lifecycle!SpanIsOpen, Audited!Terminal, Lifecycle!Terminal
<1> QED
  BY <1>1, RuntimeIsAudited, AuditedConstants, Audited!TerminalRunsAreSettled, PTL

-----------------------------------------------------------------------------
(* The calls that share a budget. *)

\* The budget adds up the same.
LEMMA SameBudget ==
    /\ Budget!Resource = Charged!Resource /\ Budget!Limit = Charged!Limit
    /\ Budget!Usage = Charged!Usage /\ Budget!NoUsage = Charged!NoUsage
    /\ Budget!WorstCase = Charged!WorstCase
    /\ \A n : Budget!Saturated(n) = Charged!Saturated(n)
    /\ \A u, v : Budget!AddUsage(u, v) = Charged!AddUsage(u, v)
    /\ \A u : Budget!CostMicroUsd(u) = Charged!CostMicroUsd(u)
    /\ \A u : Budget!CostFits(u) <=> Charged!CostFits(u)
    /\ \A u : Budget!Amounts(u) = Charged!Amounts(u)
    /\ \A amounts, r : Budget!Total(amounts, r) = Charged!Total(amounts, r)
    /\ \A r : Budget!Held(r) = Charged!Held(r)
    /\ Budget!Admitted <=> Charged!Admitted
    /\ Budget!Billable = Charged!Billable
    /\ \A S : Budget!Cardinality(S) = Charged!Cardinality(S)
<1> USE DEF Budget!Resource, Charged!Resource, Budget!Limit, Charged!Limit, Budget!Usage,
            Charged!Usage, Budget!NoUsage, Charged!NoUsage, Budget!WorstCase,
            Charged!WorstCase, Budget!Saturated, Charged!Saturated, Budget!AddUsage,
            Charged!AddUsage, Budget!CostMicroUsd, Charged!CostMicroUsd, Budget!CostFits,
            Charged!CostFits, Budget!Amounts, Charged!Amounts, Budget!Total, Charged!Total,
            Budget!MapThenSumSet, Charged!MapThenSumSet, Budget!MapThenFoldSet,
            Charged!MapThenFoldSet, Budget!Held, Charged!Held
<1>1. Budget!Admitted <=> Charged!Admitted
  BY Zenon DEF Budget!Admitted, Charged!Admitted, Budget!Within, Charged!Within,
               Budget!Requested, Charged!Requested
<1>2. Budget!Billable = Charged!Billable
  BY Zenon DEF Budget!Billable, Charged!Billable
<1>3. \A S : Budget!Cardinality(S) = Charged!Cardinality(S)
  BY Zenon DEF Budget!Cardinality, Charged!Cardinality, Budget!IsFiniteSet, Charged!IsFiniteSet
<1>4. \A r : Budget!Held(r) = Charged!Held(r)
  BY Zenon
<1>5. \A amounts, r : Budget!Total(amounts, r) = Charged!Total(amounts, r)
  BY Zenon
<1> QED
  BY <1>1, <1>2, <1>3, <1>4, <1>5, Zenon

\* Every behaviour of the runtime is one of BudgetLedger.
LEMMA RuntimeIsCharged == RuntimeSpec => Charged!Spec
<1>1. RuntimeInit => Charged!Init
  BY SameBudget, Zenon DEF RuntimeInit, Budget!Init, Charged!Init
<1>2. Budget!Next => Charged!Next
  <2> USE SameBudget DEF Budget!Goto, Charged!Goto, Budget!Commit, Charged!Commit,
          Budget!DropReservation, Charged!DropReservation
  <2>1. ASSUME NEW c \in Call, Budget!CheckWallTime(c) \/ Budget!Open(c)
        PROVE  Charged!CheckWallTime(c) \/ Charged!Open(c)
    BY <2>1, Zenon DEF Budget!CheckWallTime, Charged!CheckWallTime, Budget!Open, Charged!Open
  <2>2. ASSUME NEW c \in Call, Budget!ReserveModelCall(c) PROVE Charged!ReserveModelCall(c)
    BY <2>2, Zenon DEF Budget!ReserveModelCall, Charged!ReserveModelCall
  <2>3. ASSUME NEW c \in Call, Budget!MarkStarted(c) PROVE Charged!MarkStarted(c)
    BY <2>3, Zenon DEF Budget!MarkStarted, Charged!MarkStarted
  <2>4. ASSUME NEW c \in Call, Budget!ReceiveUsage(c) PROVE Charged!ReceiveUsage(c)
    BY <2>4, Zenon DEF Budget!ReceiveUsage, Charged!ReceiveUsage
  <2>5. ASSUME NEW c \in Call, Budget!Abandon(c) PROVE Charged!Abandon(c)
    BY <2>5, Zenon DEF Budget!Abandon, Charged!Abandon
  <2>6. ASSUME NEW c \in Call, Budget!EndStream(c) PROVE Charged!EndStream(c)
    BY <2>6, Zenon DEF Budget!EndStream, Charged!EndStream, Budget!Reconcile, Charged!Reconcile
  <2> QED
    BY <2>1, <2>2, <2>3, <2>4, <2>5, <2>6, Zenon
    DEF Budget!Next, Charged!Next, Budget!Expire, Charged!Expire
<1>3. [RuntimeNext]_allVars => [Charged!Next]_(Charged!vars)
  BY <1>2 DEF RuntimeNext, allVars, budgetVars, Charged!vars
<1> QED
  BY <1>1, <1>3, PTL DEF Charged!Spec, RuntimeSpec

\* The constants of MCRuntime fit the module of the budget.
LEMMA ChargedConstants == Charged!ConstantsFit
<1>1. Budget!ConstantsFit <=> Charged!ConstantsFit
  BY SameBudget, Zenon DEF Budget!ConstantsFit, Charged!ConstantsFit
<1> QED
  BY <1>1, BudgetConstants

\* There are not more calls than a counter holds.
CallsAreCountable == IsFiniteSet(Call) /\ Cardinality(Call) <= Top

\* A limit of Top, u64::MAX, is none: a saturated sum never exceeds it.
LimitsRefuse == \A r \in Budget!Resource : Budget!Limit[r] # Top

\* They are finite in the same sense.
LEMMA SameCalls ==
    /\ IsFiniteSet(Call) => Charged!IsFiniteSet(Call)
    /\ CallsAreCountable => Charged!CallsAreCountable
    /\ LimitsRefuse => Charged!LimitsRefuse
<1>1. IsFiniteSet(Call) => Charged!IsFiniteSet(Call)
  BY Zenon DEF IsFiniteSet, Charged!IsFiniteSet
<1>2. Cardinality(Call) = Charged!Cardinality(Call)
  BY Zenon DEF Cardinality, Charged!Cardinality, IsFiniteSet, Charged!IsFiniteSet
<1> QED
  BY <1>1, <1>2, SameBudget, Zenon
  DEF CallsAreCountable, Charged!CallsAreCountable, LimitsRefuse, Charged!LimitsRefuse

\* Every model call that reached the provider is counted exactly once, however
\* it ended (mark_started, reconcile, the Drop of its handle), and no other is.
THEOREM CallsAreCountedOnce == CallsAreCountable /\ RuntimeSpec => []CallsCountedOnce
<1> SUFFICES ASSUME CallsAreCountable PROVE RuntimeSpec => []CallsCountedOnce
  OBVIOUS
<1>1. Charged!CallsCountedOnce => CallsCountedOnce
  BY SameBudget, Zenon DEF Charged!CallsCountedOnce, CallsCountedOnce, Budget!CallsCountedOnce
<1> QED
  BY <1>1, RuntimeIsCharged, ChargedConstants, SameCalls, Charged!CallsAreCountedOnce, PTL

\* What providers bill beyond the reservations is all that the ledger can be
\* over a limit: reserve_model_call checks spent, reserved and requested amounts
\* under one lock, whatever the sibling calls do.
THEOREM OverspendingIsExcess ==
    IsFiniteSet(Call) /\ LimitsRefuse /\ RuntimeSpec => []OverspendIsExcess
<1> SUFFICES ASSUME IsFiniteSet(Call), LimitsRefuse PROVE RuntimeSpec => []OverspendIsExcess
  OBVIOUS
<1>1. \A c, r : Budget!Excess(c, r) = Charged!Excess(c, r)
  BY SameBudget, Zenon DEF Budget!Excess, Charged!Excess
<1>2. Charged!OverspendIsExcess => OverspendIsExcess
  <2> SUFFICES ASSUME Charged!OverspendIsExcess, NEW r \in Budget!Resource
               PROVE  \/ Budget!Limit[r] = None
                      \/ committed[r] + Budget!Held(r)
                             <= Budget!Limit[r]
                                + Budget!MapThenSumSet(LAMBDA c : Budget!Excess(c, r), Call)
    BY Zenon DEF OverspendIsExcess, Budget!OverspendIsExcess
  <2>1. \/ Charged!Limit[r] = None
        \/ committed[r] + Charged!Held(r)
               <= Charged!Limit[r]
                  + Charged!MapThenSumSet(LAMBDA c : Charged!Excess(c, r), Call)
    <3>1. r \in Charged!Resource
      BY SameBudget
    <3> QED
      BY <3>1, Zenon DEF Charged!OverspendIsExcess
  <2>2. Budget!Held(r) = Charged!Held(r) /\ Budget!Limit = Charged!Limit
    BY SameBudget, Zenon
  <2> DEFINE here == Budget!MapThenSumSet(LAMBDA c : Budget!Excess(c, r), Call)
             there == Charged!MapThenSumSet(LAMBDA c : Charged!Excess(c, r), Call)
  <2>3. here = there
    BY <1>1, Zenon DEF Budget!MapThenSumSet, Charged!MapThenSumSet, Budget!MapThenFoldSet,
                       Charged!MapThenFoldSet
  <2>4. \/ Charged!Limit[r] = None
        \/ committed[r] + Charged!Held(r) <= Charged!Limit[r] + there
    BY <2>1
  <2> HIDE DEF here, there
  <2>5. \/ Budget!Limit[r] = None
        \/ committed[r] + Budget!Held(r) <= Budget!Limit[r] + here
    BY <2>2, <2>3, <2>4
  <2> QED
    BY <2>5, Zenon DEF here
<1> QED
  BY <1>2, RuntimeIsCharged, ChargedConstants, SameCalls, Charged!OverspendingIsExcess, PTL

\* The ledger never holds less than what is due for the calls that ended, in
\* whatever way they did: told usage, no usage, cancelled, failed.
THEOREM ChargesCoverBills == IsFiniteSet(Call) /\ RuntimeSpec => []ChargeCoversBill
<1> SUFFICES ASSUME IsFiniteSet(Call) PROVE RuntimeSpec => []ChargeCoversBill
  OBVIOUS
<1>1. Charged!ChargeCoversBill => ChargeCoversBill
  BY SameBudget, Zenon
  DEF Charged!ChargeCoversBill, ChargeCoversBill, Budget!ChargeCoversBill, Budget!Due,
      Charged!Due
<1> QED
  BY <1>1, RuntimeIsCharged, ChargedConstants, SameCalls, Charged!ChargesCoverBills, PTL


-----------------------------------------------------------------------------
(* The session store that inherits its lease operations. *)

\* What a call found when it loaded the session: a lease that has expired, or its
\* own, in the copy that it is about to swap.
FoundLease ==
    \A c \in Fallback!Claim :
        /\ fCall[c].pc \in {"recovering", "clearing"} => fCall[c].base.lease \in fLapsed
        /\ fCall[c].pc \in {"committing", "releasing"} => fCall[c].base.lease = c

\* The inductive invariant.
FallbackInv == Fallback!TypeOK /\ Fallback!RevisionIdentifies /\ FoundLease

\* Copies stay copies when the session is kept or replaced by a newer one.
LEMMA CopiesKeep ==
    ASSUME fSession \in Fallback!Session, NEW new \in Fallback!Session, fSession' = new,
           new = fSession \/ new.revision = fSession.revision + 1
    PROVE  \A base \in Fallback!Session : Fallback!Copy(base) => Fallback!Copy(base)'
BY DEF Fallback!Session, Fallback!Copy

\* A call moves on with a copy of the session; the session is kept, or it is
\* replaced by a newer one.
LEMMA CallKeeps ==
    ASSUME FallbackInv, NEW c \in Fallback!Claim, NEW pc \in Fallback!Pc,
           NEW base \in Fallback!Session,
           NEW new \in Fallback!Session, fSession' = new,
           new = fSession \/ new.revision = fSession.revision + 1,
           Fallback!Becomes(c, pc, base), UNCHANGED <<fLapsed, fWrite>>,
           Fallback!Copy(base) \/ base = new,
           pc \in {"recovering", "clearing"} => base.lease \in fLapsed,
           pc \in {"committing", "releasing"} => base.lease = c
    PROVE  FallbackInv'
<1>1. /\ fCall' \in [Fallback!Claim -> [pc: Fallback!Pc, base: Fallback!Session]]
      /\ fCall'[c].pc = pc /\ fCall'[c].base = base
      /\ \A d \in Fallback!Claim \ {c} : fCall'[d] = fCall[d]
  BY DEF Fallback!Becomes, FallbackInv, Fallback!TypeOK
<1>2. Fallback!TypeOK'
  BY <1>1 DEF FallbackInv, Fallback!TypeOK
<1>3. \A b \in Fallback!Session : Fallback!Copy(b) => Fallback!Copy(b)'
  BY CopiesKeep DEF FallbackInv, Fallback!TypeOK
<1>4. Fallback!Copy(base)'
  <2>1. Fallback!Copy(new)'
    BY DEF Fallback!Copy, Fallback!Session
  <2> QED
    BY <1>3, <2>1
<1>5. Fallback!RevisionIdentifies'
  <2>1. Fallback!NoSession \in Fallback!Session /\ Fallback!Copy(Fallback!NoSession)
    BY DEF FallbackInv, Fallback!RevisionIdentifies, Fallback!NoSession, Fallback!Session
  <2>2. Fallback!Copy(Fallback!NoSession)'
    BY <1>3, <2>1
  <2>3. ASSUME NEW d \in Fallback!Claim PROVE Fallback!Copy(fCall[d].base)'
    <3>1. CASE d = c
      BY <1>1, <1>4, <3>1
    <3>2. CASE d # c
      <4>1. fCall[d].base \in Fallback!Session /\ Fallback!Copy(fCall[d].base)
        BY DEF FallbackInv, Fallback!TypeOK, Fallback!RevisionIdentifies
      <4>2. fCall'[d].base = fCall[d].base
        BY <1>1, <3>2
      <4> QED
        BY <4>1, <4>2, CopiesKeep DEF FallbackInv, Fallback!TypeOK, Fallback!Copy,
           Fallback!Session
    <3> QED
      BY <3>1, <3>2
  <2>4. ASSUME NEW w \in Writer PROVE Fallback!Copy(fWrite[w].base)'
    <3>1. fWrite[w].base \in Fallback!Session /\ Fallback!Copy(fWrite[w].base)
          /\ fWrite' = fWrite
      BY DEF FallbackInv, Fallback!TypeOK, Fallback!RevisionIdentifies
    <3> QED
      BY <3>1 DEF FallbackInv, Fallback!TypeOK, Fallback!Copy, Fallback!Session
  <2> QED
    BY <2>2, <2>3, <2>4 DEF Fallback!RevisionIdentifies
<1>6. FoundLease'
  BY <1>1 DEF FallbackInv, FoundLease
<1> QED
  BY <1>2, <1>5, <1>6 DEF FallbackInv

\* What compare_and_swap does with a copy: it writes on top of what is stored, or
\* nothing.
LEMMA CasKeeps ==
    ASSUME FallbackInv, NEW c \in Fallback!Claim,
           NEW content \in SUBSET (Fallback!Claim \cup Writer),
           NEW holder \in Fallback!Claim \cup {Nobody}, NEW pc \in Fallback!Pc,
           pc \notin {"recovering", "clearing", "committing", "releasing"},
           Fallback!Cas(c, fCall[c].base, content, holder, pc)
    PROVE  /\ FallbackInv'
           /\ \/ /\ fCall[c].base = fSession /\ fSession'.content = content
                 /\ fSession'.lease = holder
                 /\ fCall' = [fCall EXCEPT ![c] = [pc |-> pc, base |-> fSession']]
              \/ /\ fSession' = fSession
                 /\ fCall' = [fCall EXCEPT ![c] = [pc |-> "failed", base |-> fCall[c].base]]
<1> DEFINE new == [revision |-> fSession.revision + 1, content |-> content, lease |-> holder]
<1>1. fCall[c].base \in Fallback!Session /\ Fallback!Copy(fCall[c].base)
      /\ fSession \in Fallback!Session
  BY DEF FallbackInv, Fallback!TypeOK, Fallback!RevisionIdentifies
<1>2. new \in Fallback!Session /\ new.revision = fSession.revision + 1
      /\ new.content = content /\ new.lease = holder
  BY <1>1 DEF Fallback!Session
<1>3. "failed" \in Fallback!Pc
  BY DEF Fallback!Pc
<1>4. UNCHANGED <<fLapsed, fWrite>>
  BY DEF Fallback!Cas
<1>5. CASE fCall[c].base.revision = fSession.revision
  <2>1. fSession' = new /\ Fallback!Becomes(c, pc, new)
    BY <1>5, Zenon DEF Fallback!Cas
  <2> HIDE DEF new
  <2>2. FallbackInv'
    BY <1>2, <1>4, <2>1, CallKeeps
  <2>3. fCall[c].base = fSession
    BY <1>1, <1>5 DEF Fallback!Copy
  <2> QED
    BY <1>2, <2>1, <2>2, <2>3 DEF Fallback!Becomes
<1>6. CASE fCall[c].base.revision # fSession.revision
  <2>1. fSession' = fSession /\ Fallback!Becomes(c, "failed", fCall[c].base)
    BY <1>6 DEF Fallback!Cas
  <2>2. FallbackInv'
    BY <1>1, <1>3, <1>4, <2>1, CallKeeps
  <2> QED
    BY <2>1, <2>2 DEF Fallback!Becomes
<1> QED
  BY <1>5, <1>6

-----------------------------------------------------------------------------
\* Whom a step adds to the calls that have asked for a claim.
LEMMA Issues ==
    ASSUME Fallback!TypeOK, NEW c \in Fallback!Claim, NEW pc, NEW base,
           fCall' = [fCall EXCEPT ![c] = [pc |-> pc, base |-> base]]
    PROVE  Fallback!Issued' = IF pc \in {"start", "loaded", "recovering", "clearing"}
                     THEN Fallback!Issued \ {c} ELSE Fallback!Issued \cup {c}
BY DEF Fallback!TypeOK, Fallback!Issued

\* A call that compares and swaps refuses, or changes the claim as it should.
LEMMA CasRefines ==
    ASSUME FallbackInv, NEW c \in Fallback!Claim,
           Fallback!Acquire(c) \/ Fallback!RecoverCas(c) \/ Fallback!ClearCas(c)
           \/ Fallback!CommitCas(c) \/ Fallback!ReleaseCas(c)
    PROVE  FallbackInv' /\ [Fallback!Promise!Next]_(Fallback!Promise!vars)
<1> USE DEF Fallback!Promise!vars
<1>1. /\ fCall[c].base \in Fallback!Session
      /\ fCall[c].base.content \in SUBSET (Fallback!Claim \cup Writer)
      /\ fCall[c].base.content \cup {c} \in SUBSET (Fallback!Claim \cup Writer)
      /\ Fallback!TypeOK /\ fSession.lease \in Fallback!Claim \cup {Nobody}
  BY DEF FallbackInv, Fallback!TypeOK, Fallback!Session
<1>2. {"running", "done", "failed"} \subseteq Fallback!Pc
  BY DEF Fallback!Pc
<1>3. CASE Fallback!Acquire(c)
  <2>1. /\ fCall[c].pc = "loaded" /\ c \notin Fallback!Issued
        /\ \/ /\ fCall[c].base.lease = Nobody
              /\ Fallback!Cas(c, fCall[c].base, fCall[c].base.content, c, "running")
           \/ Fallback!Proceed(c, FALSE, "failed", fCall[c].base)
    BY <1>3 DEF Fallback!Acquire, Fallback!Issued
  <2>2. CASE Fallback!Proceed(c, FALSE, "failed", fCall[c].base)
    <3>1. /\ UNCHANGED <<fSession, fLapsed, fWrite>>
          /\ Fallback!Becomes(c, "failed", fCall[c].base)
      BY <2>2 DEF Fallback!Proceed
    <3>2. FallbackInv'
      BY <1>1, <1>2, <3>1, CallKeeps DEF FallbackInv, Fallback!RevisionIdentifies,
         Fallback!TypeOK
    <3>3. Fallback!Issued' = Fallback!Issued \cup {c}
      BY <1>1, <3>1, Issues DEF Fallback!Becomes
    <3>4. Fallback!Promise!Refuse(c)
      BY <2>1, <3>1, <3>3 DEF Fallback!Promise!Refuse
    <3> QED
      BY <3>2, <3>4 DEF Fallback!Promise!Next
  <2>3. CASE /\ fCall[c].base.lease = Nobody
             /\ Fallback!Cas(c, fCall[c].base, fCall[c].base.content, c, "running")
    <3>1. /\ FallbackInv' /\ UNCHANGED fLapsed
          /\ \/ /\ fCall[c].base = fSession /\ fSession'.content = fSession.content
                /\ fSession'.lease = c
                /\ fCall' = [fCall EXCEPT ![c] = [pc |-> "running", base |-> fSession']]
             \/ /\ fSession' = fSession
                /\ fCall' = [fCall EXCEPT ![c] = [pc |-> "failed", base |-> fCall[c].base]]
      BY <1>1, <1>2, <2>3, CasKeeps DEF Fallback!Cas
    <3>2. Fallback!Issued' = Fallback!Issued \cup {c}
      BY <1>1, <3>1, Issues
    <3>3. Fallback!Promise!Acquire(c) \/ Fallback!Promise!Refuse(c)
      BY <2>1, <2>3, <3>1, <3>2 DEF Fallback!Promise!Acquire, Fallback!Promise!Refuse
    <3> QED
      BY <3>1, <3>3 DEF Fallback!Promise!Next
  <2> QED
    BY <2>1, <2>2, <2>3
<1>4. CASE Fallback!RecoverCas(c) \/ Fallback!ClearCas(c)
  <2>1. /\ fCall[c].pc \in {"recovering", "clearing"} /\ c \notin Fallback!Issued
        /\ fCall[c].base.lease \in fLapsed
    BY <1>4 DEF Fallback!RecoverCas, Fallback!ClearCas, Fallback!Issued, FallbackInv,
       FoundLease
  <2>2. PICK holder \in {c, Nobody}, pc \in {"running", "done"} :
            Fallback!Cas(c, fCall[c].base, fCall[c].base.content, holder, pc)
    BY <1>4 DEF Fallback!RecoverCas, Fallback!ClearCas
  <2>3. /\ FallbackInv' /\ UNCHANGED fLapsed
        /\ \/ /\ fCall[c].base = fSession /\ fSession'.content = fSession.content
              /\ fSession'.lease = holder
              /\ fCall' = [fCall EXCEPT ![c] = [pc |-> pc, base |-> fSession']]
           \/ /\ fSession' = fSession
              /\ fCall' = [fCall EXCEPT ![c] = [pc |-> "failed", base |-> fCall[c].base]]
    BY <1>1, <1>2, <2>2, CasKeeps DEF Fallback!Cas
  <2>4. Fallback!Issued' = Fallback!Issued \cup {c}
    BY <1>1, <2>3, Issues
  <2>5. Fallback!Promise!TakeOver(c) \/ Fallback!Promise!Clear(c)
        \/ Fallback!Promise!Refuse(c)
    BY <2>1, <2>3, <2>4 DEF Fallback!Promise!TakeOver, Fallback!Promise!Clear,
       Fallback!Promise!Refuse
  <2> QED
    BY <2>3, <2>5 DEF Fallback!Promise!Next
<1>5. CASE Fallback!CommitCas(c) \/ Fallback!ReleaseCas(c)
  <2>1. fCall[c].pc \in {"committing", "releasing"} /\ c \in Fallback!Issued
        /\ fCall[c].base.lease = c
    BY <1>5 DEF Fallback!CommitCas, Fallback!ReleaseCas, Fallback!Issued, FallbackInv,
       FoundLease
  <2>2. PICK content \in {fCall[c].base.content, fCall[c].base.content \cup {c}} :
            Fallback!Cas(c, fCall[c].base, content, Nobody, "done")
    BY <1>5 DEF Fallback!CommitCas, Fallback!ReleaseCas
  <2>3. /\ FallbackInv' /\ UNCHANGED fLapsed
        /\ \/ /\ fCall[c].base = fSession /\ fSession'.content = content
              /\ fSession'.lease = Nobody
              /\ fCall' = [fCall EXCEPT ![c] = [pc |-> "done", base |-> fSession']]
           \/ /\ fSession' = fSession
              /\ fCall' = [fCall EXCEPT ![c] = [pc |-> "failed", base |-> fCall[c].base]]
    BY <1>1, <1>2, <2>2, CasKeeps DEF Fallback!Cas
  <2>4. Fallback!Issued' = Fallback!Issued
    <3>1. Fallback!Issued' = Fallback!Issued \cup {c}
      BY <1>1, <2>3, Issues
    <3> QED
      BY <2>1, <3>1
  <2>5. \/ Fallback!Promise!Commit(c) \/ Fallback!Promise!Forfeit(c)
        \/ UNCHANGED Fallback!Promise!vars
    BY <2>1, <2>2, <2>3, <2>4 DEF Fallback!Promise!Commit, Fallback!Promise!Forfeit
  <2> QED
    BY <2>3, <2>5 DEF Fallback!Promise!Next
<1> QED
  BY <1>3, <1>4, <1>5

\* A call that loads the session, or ends, changes no claim.
LEMMA LoadRefines ==
    ASSUME FallbackInv, NEW c \in Fallback!Claim,
           Fallback!Begin(c) \/ Fallback!RecoverLoad(c) \/ Fallback!ClearLoad(c)
           \/ Fallback!CommitLoad(c) \/ Fallback!ReleaseLoad(c) \/ Fallback!Crash(c)
    PROVE  FallbackInv' /\ [Fallback!Promise!Next]_(Fallback!Promise!vars)
<1>1. /\ Fallback!TypeOK /\ fSession \in Fallback!Session
      /\ fCall[c].base \in Fallback!Session
      /\ Fallback!Copy(fCall[c].base) /\ Fallback!Copy(fSession)
      /\ Fallback!Copy(Fallback!NoSession) /\ Fallback!NoSession \in Fallback!Session
  BY DEF FallbackInv, Fallback!TypeOK, Fallback!RevisionIdentifies, Fallback!Copy,
     Fallback!NoSession, Fallback!Session
<1>2. PICK pc \in Fallback!Pc, base \in {fSession, fCall[c].base, Fallback!NoSession} :
          /\ UNCHANGED <<fSession, fLapsed, fWrite>> /\ Fallback!Becomes(c, pc, base)
          /\ pc \in {"recovering", "clearing"} => base.lease \in fLapsed
          /\ pc \in {"committing", "releasing"} => base.lease = c
          /\ c \in Fallback!Issued
             => pc \notin {"start", "loaded", "recovering", "clearing"}
  <2>1. CASE Fallback!Begin(c)
    BY <2>1 DEF Fallback!Begin, Fallback!Proceed, Fallback!Pc, Fallback!Issued
  <2>2. CASE Fallback!RecoverLoad(c)
    BY <2>2 DEF Fallback!RecoverLoad, Fallback!Proceed, Fallback!Expired, Fallback!Pc,
       Fallback!Issued
  <2>3. CASE Fallback!ClearLoad(c)
    BY <2>3 DEF Fallback!ClearLoad, Fallback!Proceed, Fallback!Expired, Fallback!Pc,
       Fallback!Issued
  <2>4. CASE Fallback!CommitLoad(c) \/ Fallback!ReleaseLoad(c)
    <3>1. Fallback!StillHeld(c) => fCall[c].base.lease = c
      BY <1>1 DEF Fallback!StillHeld, Fallback!Copy
    <3> QED
      BY <2>4, <3>1 DEF Fallback!CommitLoad, Fallback!ReleaseLoad, Fallback!Proceed,
         Fallback!Pc
  <2>5. CASE Fallback!Crash(c)
    BY <2>5 DEF Fallback!Crash, Fallback!Proceed, Fallback!Pc
  <2> QED
    BY <2>1, <2>2, <2>3, <2>4, <2>5
<1>3. FallbackInv'
  BY <1>1, <1>2, CallKeeps
<1>4. \/ Fallback!Issued' = Fallback!Issued
      \/ /\ c \notin Fallback!Issued
         /\ Fallback!Issued' = Fallback!Issued \cup {c}
  <2>1. Fallback!Issued' = IF pc \in {"start", "loaded", "recovering", "clearing"}
                  THEN Fallback!Issued \ {c} ELSE Fallback!Issued \cup {c}
    BY <1>1, <1>2, Issues DEF Fallback!Becomes
  <2>2. CASE c \in Fallback!Issued
    BY <1>2, <2>1, <2>2
  <2>3. CASE c \notin Fallback!Issued
    <3>1. Fallback!Issued \ {c} = Fallback!Issued
      BY <2>3
    <3> QED
      BY <2>1, <2>3, <3>1
  <2> QED
    BY <2>2, <2>3
<1>5. Fallback!Promise!Refuse(c) \/ UNCHANGED Fallback!Promise!vars
  BY <1>2, <1>4 DEF Fallback!Promise!Refuse, Fallback!Promise!vars
<1> QED
  BY <1>3, <1>5 DEF Fallback!Promise!Next

\* A writer keeps the lease that it found; time takes nothing away.
LEMMA OthersRefine ==
    ASSUME FallbackInv,
           \/ Fallback!Lapse
           \/ \E w \in Writer : Fallback!WriteLoad(w) \/ Fallback!WriteCas(w)
    PROVE  FallbackInv' /\ [Fallback!Promise!Next]_(Fallback!Promise!vars)
<1>1. Fallback!TypeOK /\ fSession \in Fallback!Session
      /\ fSession.lease \in Fallback!Claim \cup {Nobody}
      /\ fCall \in [Fallback!Claim -> [pc: Fallback!Pc, base: Fallback!Session]]
  BY DEF FallbackInv, Fallback!TypeOK, Fallback!Session
<1>2. CASE Fallback!Lapse
  <2>1. /\ UNCHANGED <<fSession, fCall, fWrite>> /\ fLapsed' = fLapsed \cup {fSession.lease}
        /\ fSession.lease \in Fallback!Claim
    BY <1>1, <1>2 DEF Fallback!Lapse
  <2>2. FallbackInv'
    BY <2>1 DEF FallbackInv, Fallback!TypeOK, Fallback!RevisionIdentifies, Fallback!Copy,
       FoundLease
  <2>3. Fallback!Promise!Lapse(fSession.lease)
    BY <2>1 DEF Fallback!Promise!Lapse, Fallback!Issued
  <2> QED
    BY <2>1, <2>2, <2>3 DEF Fallback!Promise!Next
<1>3. ASSUME NEW w \in Writer, Fallback!WriteLoad(w)
      PROVE  FallbackInv' /\ UNCHANGED Fallback!Promise!vars
  <2>1. /\ UNCHANGED <<fSession, fLapsed, fCall>>
        /\ fWrite' = [fWrite EXCEPT ![w] = [pc |-> "loaded", base |-> fSession]]
    BY <1>3 DEF Fallback!WriteLoad
  <2>2. /\ fWrite' \in [Writer -> [pc: Fallback!Pc, base: Fallback!Session]]
        /\ \A x \in Writer : fWrite'[x].base = fSession \/ fWrite'[x].base = fWrite[x].base
    BY <1>1, <2>1 DEF Fallback!TypeOK, Fallback!Pc
  <2>3. FallbackInv'
    BY <1>1, <2>1, <2>2 DEF FallbackInv, Fallback!TypeOK, Fallback!RevisionIdentifies,
       Fallback!Copy, FoundLease, Fallback!Session
  <2> QED
    BY <2>1, <2>3 DEF Fallback!Promise!vars, Fallback!Issued
<1>4. ASSUME NEW w \in Writer, Fallback!WriteCas(w)
      PROVE  FallbackInv' /\ (Fallback!Promise!Write(w) \/ UNCHANGED Fallback!Promise!vars)
  <2> DEFINE base == fWrite[w].base
  <2>1. /\ UNCHANGED <<fLapsed, fCall>> /\ base \in Fallback!Session /\ Fallback!Copy(base)
        /\ fWrite \in [Writer -> [pc: Fallback!Pc, base: Fallback!Session]]
    BY <1>4 DEF Fallback!WriteCas, FallbackInv, Fallback!TypeOK, Fallback!RevisionIdentifies
  <2>2. PICK pc \in Fallback!Pc : fWrite' = [fWrite EXCEPT ![w].pc = pc]
    BY <1>4 DEF Fallback!WriteCas, Fallback!Pc
  <2>3. /\ fWrite' \in [Writer -> [pc: Fallback!Pc, base: Fallback!Session]]
        /\ \A x \in Writer : fWrite'[x].base = fWrite[x].base
    BY <2>1, <2>2
  <2>4. \/ fSession' = fSession
        \/ /\ base = fSession /\ fSession' \in Fallback!Session
           /\ fSession'.revision = fSession.revision + 1
           /\ fSession'.content \in {{w}, fSession.content \cup {w}}
           /\ fSession'.lease = fSession.lease
    <3>1. CASE base.revision # fSession.revision
      BY <1>4, <3>1 DEF Fallback!WriteCas
    <3>2. CASE base.revision = fSession.revision
      <4>1. base = fSession
        BY <2>1, <3>2 DEF Fallback!Copy
      <4>2. PICK content \in {{w}, fSession.content \cup {w}} :
                fSession' = [revision |-> fSession.revision + 1, content |-> content,
                            lease |-> fSession.lease]
        BY <1>4, <3>2, <4>1 DEF Fallback!WriteCas
      <4> QED
        BY <1>1, <4>1, <4>2 DEF Fallback!Session
    <3> QED
      BY <3>1, <3>2
  <2>5. Fallback!TypeOK'
    BY <1>1, <2>1, <2>3, <2>4 DEF Fallback!TypeOK
  <2>6. Fallback!RevisionIdentifies'
    <3>1. \A b \in Fallback!Session : Fallback!Copy(b) =>
              /\ b.revision <= fSession'.revision
              /\ b.revision = fSession'.revision => b = fSession'
      BY <1>1, <2>4 DEF Fallback!Copy, Fallback!Session
    <3>2. Fallback!NoSession \in Fallback!Session
      BY DEF Fallback!NoSession, Fallback!Session
    <3> QED
      BY <1>1, <2>1, <2>3, <3>1, <3>2 DEF FallbackInv, Fallback!TypeOK,
         Fallback!RevisionIdentifies, Fallback!Copy
  <2>7. FoundLease'
    BY <2>1 DEF FallbackInv, FoundLease
  <2>8. Fallback!Promise!Write(w) \/ UNCHANGED Fallback!Promise!vars
    BY <2>1, <2>4 DEF Fallback!Promise!Write, Fallback!Promise!vars, Fallback!Issued
  <2> QED
    BY <2>5, <2>6, <2>7, <2>8 DEF FallbackInv
<1> QED
  BY <1>2, <1>3, <1>4 DEF Fallback!Promise!Next

\* At the start nobody has a copy, a lease or a claim.
LEMMA FallbackBegins == ASSUME Fallback!Init PROVE FallbackInv /\ Fallback!Promise!Init
<1>1. Fallback!NoSession \in Fallback!Session /\ "start" \in Fallback!Pc
  BY DEF Fallback!NoSession, Fallback!Session, Fallback!Pc
<1>2. Fallback!TypeOK /\ FoundLease /\ Fallback!RevisionIdentifies
  <2>1. /\ fSession = Fallback!NoSession /\ fLapsed = {}
        /\ \A c \in Fallback!Claim :
              /\ fCall[c].pc = "start"
              /\ fCall[c].base = Fallback!NoSession
        /\ \A w \in Writer : fWrite[w].base = Fallback!NoSession
        /\ fCall \in [Fallback!Claim -> [pc: Fallback!Pc, base: Fallback!Session]]
        /\ fWrite \in [Writer -> [pc: Fallback!Pc, base: Fallback!Session]]
    BY <1>1 DEF Fallback!Init
  <2>2. Fallback!Copy(Fallback!NoSession)
    BY <2>1 DEF Fallback!Copy, Fallback!NoSession
  <2> QED
    BY <1>1, <2>1, <2>2 DEF Fallback!TypeOK, FoundLease, Fallback!RevisionIdentifies
<1>3. Fallback!Promise!Init
  BY DEF Fallback!Init, Fallback!Promise!Init, Fallback!Issued, Fallback!NoSession
<1> QED
  BY <1>2, <1>3 DEF FallbackInv

\* Each step is one of the promise, or none.
LEMMA FallbackSteps ==
    ASSUME FallbackInv, [Fallback!Next]_(Fallback!vars)
    PROVE  FallbackInv' /\ [Fallback!Promise!Next]_(Fallback!Promise!vars)
<1>1. CASE UNCHANGED Fallback!vars
  BY <1>1 DEF Fallback!vars, FallbackInv, Fallback!TypeOK, Fallback!RevisionIdentifies,
     Fallback!Copy, FoundLease, Fallback!Promise!vars,
              Fallback!Issued
<1>2. CASE Fallback!Next
  BY <1>2, CasRefines, LoadRefines, OthersRefine DEF Fallback!Next
<1> QED
  BY <1>1, <1>2

\* Every behaviour of the runtime is one of SessionFallback.
LEMMA RuntimeFallsBack == RuntimeSpec => Fallback!Spec
<1>1. RuntimeInit => Fallback!Init
  BY DEF RuntimeInit
<1>2. [RuntimeNext]_allVars => [Fallback!Next]_(Fallback!vars)
  BY DEF RuntimeNext, allVars, fallbackVars, Fallback!vars
<1> QED
  BY <1>1, <1>2, PTL DEF Fallback!Spec, RuntimeSpec

\* The lease operations that the trait provides, each a load and a
\* compare-and-swap between which anybody may write, keep the promise of a session
\* claim; and two copies with one revision are one session.
THEOREM FallbackKeepsPromise == RuntimeSpec => FallbackImplementsClaim
<1>1. Fallback!Init => FallbackInv /\ Fallback!Promise!Init
  BY FallbackBegins
<1>2. FallbackInv /\ [Fallback!Next]_(Fallback!vars)
          => FallbackInv' /\ [Fallback!Promise!Next]_(Fallback!Promise!vars)
  BY FallbackSteps
<1>3. FallbackInv => Fallback!RevisionIdentifies
  BY DEF FallbackInv
<1> QED
  BY <1>1, <1>2, <1>3, RuntimeFallsBack, PTL
  DEF Fallback!Spec, Fallback!ImplementsClaim, Fallback!Promise!Spec,
  FallbackImplementsClaim

-----------------------------------------------------------------------------
(* The session store with a lock. *)

\* The inductive invariant.
Inv == TypeOK /\ RevisionIdentifies

\* What one of the operations on the store, by the call c, may do: replace the
\* session by a newer one or keep it, set the lease, and move c on.
StoreStep(c) == /\ session' = session \/ session' \in {s \in Session : s.revision = session.revision + 1}
                /\ lease' \in Claim \cup {Nobody}
                /\ lapsed' = lapsed /\ write' = write
                /\ \E pc \in Pc : call' = [call EXCEPT ![c].pc = pc]
                /\ faults' \in 0..MaxFaults
                /\ rash' \in SUBSET Operator

\* Store writes what it is given or nothing.
LEMMA StoreIsAStep ==
    ASSUME Inv, NEW c \in Claim, NEW s, NEW l \in Claim \cup {Nobody}, NEW pc \in Pc,
           s = session \/ (s \in Session /\ s.revision = session.revision + 1),
           Store(c, s, l, pc), UNCHANGED <<lapsed, write>>,
           rash' \in SUBSET Operator
    PROVE  StoreStep(c)
<1>1. "unsure" \in Pc
  BY DEF Pc
<1>2. faults \in 0..MaxFaults /\ (faults < MaxFaults => faults + 1 \in 0..MaxFaults)
  BY SessionBounds DEF Inv, TypeOK
<1>3. lease \in Claim \cup {Nobody}
  BY DEF Inv, TypeOK
<1> QED BY <1>1, <1>2, <1>3 DEF Store, Goto, StoreStep

\* Reject moves the call on and nothing else.
LEMMA RejectIsAStep ==
    ASSUME Inv, NEW c \in Claim, Reject(c), UNCHANGED <<lapsed, write, rash>>
    PROVE  StoreStep(c)
BY DEF Reject, Goto, StoreStep, Inv, TypeOK, Pc

\* The replacement of the stored session is a session, one revision later.
LEMMA ReplacementType ==
    ASSUME Inv, NEW content \in SUBSET (Claim \cup Writer)
    PROVE  /\ Replacement(content) \in Session
           /\ Replacement(content).revision = session.revision + 1
           /\ Replacement(content).content = content
BY DEF Inv, TypeOK, Session, Replacement

\* Copies stay copies when the session is kept or replaced by a newer one.
LEMMA CopiesStay ==
    ASSUME session \in Session,
           session' = session \/ (session' \in Session /\ session'.revision = session.revision + 1),
           NEW base \in Session, Copy(base)
    PROVE  /\ base.revision <= session'.revision
           /\ base.revision = session'.revision => base = session'
BY DEF Copy, Session

\* A step on the store preserves the inductive invariant.
LEMMA StoreStepInv == ASSUME Inv, NEW c \in Claim, StoreStep(c) PROVE Inv'
<1>1. PICK pc \in Pc : call' = [call EXCEPT ![c].pc = pc]
  BY DEF StoreStep
<1>2. call \in [Claim -> [pc: Pc, base: Session]] /\ write \in [Writer -> [pc: Pc, base: Session]]
  BY DEF Inv, TypeOK
<1>3. /\ call' \in [Claim -> [pc: Pc, base: Session]]
      /\ \A d \in Claim : call'[d].base = call[d].base
  BY <1>1, <1>2
<1>4. session \in Session /\ session' \in Session
  BY DEF StoreStep, Inv, TypeOK
<1>5. TypeOK'
  BY <1>2, <1>3, <1>4 DEF StoreStep, Inv, TypeOK
<1>6. session' = session \/ (session' \in Session /\ session'.revision = session.revision + 1)
  BY DEF StoreStep
<1>9. Copy(NoSession)'
  <2>1. NoSession \in Session /\ Copy(NoSession)
    BY DEF NoSession, Session, Inv, RevisionIdentifies
  <2>2. /\ NoSession.revision <= session'.revision
        /\ NoSession.revision = session'.revision => NoSession = session'
    BY <1>4, <1>6, <2>1, CopiesStay
  <2> QED BY <2>2 DEF Copy
<1>7. ASSUME NEW d \in Claim PROVE Copy(call[d].base)'
  <2>1. call[d].base \in Session /\ Copy(call[d].base)
    BY <1>2 DEF Inv, RevisionIdentifies
  <2>2. /\ call[d].base.revision <= session'.revision
        /\ call[d].base.revision = session'.revision => call[d].base = session'
    BY <1>4, <1>6, <2>1, CopiesStay
  <2> QED BY <1>3, <2>2 DEF Copy
<1>8. ASSUME NEW w \in Writer PROVE Copy(write[w].base)'
  <2>1. write[w].base \in Session /\ Copy(write[w].base)
    BY <1>2 DEF Inv, RevisionIdentifies
  <2>2. /\ write[w].base.revision <= session'.revision
        /\ write[w].base.revision = session'.revision => write[w].base = session'
    BY <1>4, <1>6, <2>1, CopiesStay
  <2> QED BY <2>2 DEF Copy, StoreStep
<1> QED BY <1>5, <1>7, <1>8, <1>9 DEF Inv, RevisionIdentifies

\* The operations of claims and operators are steps on the store.
LEMMA ClaimOperations ==
    ASSUME Inv, NEW c \in Claim,
           Acquire(c) \/ Recover(c) \/ ClearExpired(c) \/ Commit(c) \/ Release(c) \/ Crash(c)
    PROVE  StoreStep(c)
<1>1. /\ "running" \in Pc /\ "done" \in Pc /\ "failed" \in Pc /\ "crashed" \in Pc
      /\ c \in Claim \cup {Nobody} /\ Nobody \in Claim \cup {Nobody}
  BY DEF Pc
<1>8. rash \in SUBSET Operator
  BY DEF Inv, TypeOK
<1>2. CASE Acquire(c)
  BY <1>1, <1>2, <1>8, StoreIsAStep, RejectIsAStep DEF Acquire
<1>3. CASE Recover(c)
  BY <1>1, <1>3, <1>8, StoreIsAStep, RejectIsAStep DEF Recover, TakeExpired
<1>4. CASE ClearExpired(c)
  BY <1>1, <1>4, <1>8, StoreIsAStep, RejectIsAStep DEF ClearExpired, TakeExpired
<1>5. CASE Commit(c)
  <2> DEFINE new == Replacement(call[c].base.content \cup {c})
  <2>1. call[c].base.content \cup {c} \in SUBSET (Claim \cup Writer)
    BY DEF Inv, TypeOK, Session
  <2>2. new \in Session /\ new.revision = session.revision + 1
    BY <2>1, ReplacementType
  <2>3. Reject(c) \/ Store(c, session, Nobody, "failed") \/ Store(c, new, Nobody, "done")
    BY <1>5 DEF Commit
  <2> HIDE DEF new
  <2> QED BY <1>1, <1>5, <1>8, <2>2, <2>3, StoreIsAStep, RejectIsAStep DEF Commit
<1>6. CASE Release(c)
  BY <1>1, <1>6, <1>8, StoreIsAStep, RejectIsAStep DEF Release
<1>7. CASE Crash(c)
  BY <1>1, <1>7 DEF Crash, Goto, StoreStep, Inv, TypeOK
<1> QED BY <1>2, <1>3, <1>4, <1>5, <1>6, <1>7

\* The inductive invariant holds initially.
LEMMA InitInv == Init => Inv
<1> SUFFICES ASSUME Init PROVE Inv
  OBVIOUS
<1>1. NoSession \in Session /\ "start" \in Pc
  BY DEF NoSession, Session, Pc
<1>2. /\ call \in [Claim -> [pc: Pc, base: Session]]
      /\ write \in [Writer -> [pc: Pc, base: Session]]
      /\ \A c \in Claim : call[c].base = NoSession
      /\ \A w \in Writer : write[w].base = NoSession
  BY <1>1 DEF Init
<1>3. TypeOK
  BY <1>1, <1>2, SessionBounds DEF Init, TypeOK
<1>4. Copy(NoSession)
  BY DEF Init, Copy, NoSession
<1> QED BY <1>2, <1>3, <1>4 DEF Inv, RevisionIdentifies

\* Loading a copy preserves the inductive invariant.
LEMMA BeginInv == ASSUME Inv, NEW c \in Claim, Begin(c) PROVE Inv'
<1>1. /\ session \in Session /\ session.revision \in Nat
      /\ call \in [Claim -> [pc: Pc, base: Session]]
  BY DEF Inv, TypeOK, Session
<1>2. PICK base \in {session, NoSession} :
          call' = [call EXCEPT ![c] = [pc |-> "loaded", base |-> base]]
  BY DEF Begin
<1>3. NoSession \in Session /\ Copy(session) /\ Copy(NoSession)
  BY <1>1 DEF Inv, RevisionIdentifies, Copy, NoSession, Session
<1>4. base \in Session /\ Copy(base) /\ "loaded" \in Pc
  BY <1>1, <1>3 DEF Pc
<1> QED BY <1>1, <1>2, <1>4 DEF Begin, Inv, TypeOK, RevisionIdentifies, Copy

\* So does a load by a writer.
LEMMA WriteLoadInv == ASSUME Inv, NEW w \in Writer, WriteLoad(w) PROVE Inv'
<1>1. /\ session \in Session /\ session.revision \in Nat
      /\ write \in [Writer -> [pc: Pc, base: Session]]
  BY DEF Inv, TypeOK, Session
<1>2. Copy(session) /\ "loaded" \in Pc
  BY <1>1 DEF Copy, Pc
<1> QED BY <1>1, <1>2 DEF WriteLoad, Inv, TypeOK, RevisionIdentifies, Copy

\* What a writer stores is a session of the next revision, made of its own
\* contribution and, perhaps, of what is stored.
LEMMA WriteCasEffect ==
    ASSUME Inv, NEW w \in Writer, WriteCas(w)
    PROVE  /\ \/ session' = session
              \/ /\ session' \in Session /\ session'.revision = session.revision + 1
                 /\ session'.content \in {{w}, session.content \cup {w}}
           /\ UNCHANGED <<lease, lapsed, call, faults, rash>>
           /\ \E pc \in Pc : write' = [write EXCEPT ![w].pc = pc]
<1>1. write[w].base \in Session /\ Copy(write[w].base)
  BY DEF Inv, TypeOK, RevisionIdentifies
<1>2. "done" \in Pc /\ "start" \in Pc
  BY DEF Pc
<1>3. CASE Current(write[w].base)
  <2>1. write[w].base = session
    BY <1>1, <1>3 DEF Current, Copy
  <2>2. PICK content \in {{w}, session.content \cup {w}} : session' = Replacement(content)
    BY <1>3, <2>1 DEF WriteCas
  <2>3. content \in SUBSET (Claim \cup Writer)
    BY <2>2 DEF Inv, TypeOK, Session
  <2> QED BY <1>2, <1>3, <2>2, <2>3, ReplacementType DEF WriteCas
<1>4. CASE ~Current(write[w].base)
  BY <1>2, <1>4 DEF WriteCas
<1> QED BY <1>3, <1>4

\* So does the compare-and-swap of a writer.
LEMMA WriteCasInv == ASSUME Inv, NEW w \in Writer, WriteCas(w) PROVE Inv'
<1>1. PICK pc \in Pc : write' = [write EXCEPT ![w].pc = pc]
  BY WriteCasEffect
<1>2. call \in [Claim -> [pc: Pc, base: Session]] /\ write \in [Writer -> [pc: Pc, base: Session]]
  BY DEF Inv, TypeOK
<1>3. /\ write' \in [Writer -> [pc: Pc, base: Session]]
      /\ \A v \in Writer : write'[v].base = write[v].base
  BY <1>1, <1>2
<1>4. /\ session \in Session /\ session' \in Session
      /\ session' = session \/ (session' \in Session /\ session'.revision = session.revision + 1)
      /\ UNCHANGED <<lease, lapsed, call, faults, rash>>
  BY WriteCasEffect DEF Inv, TypeOK
<1>5. TypeOK'
  BY <1>2, <1>3, <1>4 DEF Inv, TypeOK
<1>6. ASSUME NEW base \in Session, Copy(base)
      PROVE  /\ base.revision <= session'.revision
             /\ base.revision = session'.revision => base = session'
  BY <1>4, <1>6, CopiesStay
<1>7. NoSession \in Session /\ Copy(NoSession)
  BY DEF NoSession, Session, Inv, RevisionIdentifies
<1>8. Copy(NoSession)'
  BY <1>6, <1>7 DEF Copy
<1>9. ASSUME NEW d \in Claim PROVE Copy(call[d].base)'
  BY <1>2, <1>4, <1>6 DEF Copy, Inv, RevisionIdentifies
<1>10. ASSUME NEW v \in Writer PROVE Copy(write[v].base)'
  BY <1>2, <1>3, <1>6 DEF Copy, Inv, RevisionIdentifies
<1> QED BY <1>5, <1>8, <1>9, <1>10 DEF Inv, RevisionIdentifies

\* Every step preserves the inductive invariant.
LEMMA NextInv == Inv /\ [Next]_vars => Inv'
<1> SUFFICES ASSUME Inv, [Next]_vars PROVE Inv'
  OBVIOUS
<1>1. CASE Lapse
  BY <1>1 DEF Lapse, Inv, TypeOK, RevisionIdentifies, Copy
<1>2. CASE UNCHANGED vars
  BY <1>2 DEF vars, Inv, TypeOK, RevisionIdentifies, Copy
<1>3. ASSUME NEW c \in Claim,
             \/ Begin(c) \/ Acquire(c) \/ Recover(c) \/ ClearExpired(c)
             \/ Commit(c) \/ Release(c) \/ Crash(c)
      PROVE  Inv'
  BY <1>3, BeginInv, ClaimOperations, StoreStepInv
<1>4. ASSUME NEW w \in Writer, WriteLoad(w) \/ WriteCas(w) PROVE Inv'
  BY <1>4, WriteLoadInv, WriteCasInv
<1> QED BY <1>1, <1>2, <1>3, <1>4 DEF Next

\* The inductive invariant holds in every behaviour.
LEMMA InvHolds == Spec => []Inv
BY InitInv, NextInv, PTL DEF Spec

\* A comparison of revisions stands for a comparison of sessions, however long
\* ago the caller loaded its copy and whoever wrote in between.
THEOREM RevisionsIdentifySessions == Spec => []RevisionIdentifies
<1>1. Inv => RevisionIdentifies
  BY DEF Inv
<1> QED BY <1>1, InvHolds, PTL

-----------------------------------------------------------------------------
(* The refinement. *)

\* A call that moves on, past its request for a claim, is from then on one of
\* those that have asked.
LEMMA Asks ==
    ASSUME Inv, NEW c \in Claim, NEW pc \in Pc \ {"start", "loaded"}, Goto(c, pc)
    PROVE  /\ Issued' = Issued \cup {c}
           /\ call[c].pc = "loaded" => c \notin Issued
           /\ call[c].pc = "running" => c \in Issued
<1>1. call \in [Claim -> [pc: Pc, base: Session]]
  BY DEF Inv, TypeOK
<1>2. \A d \in Claim : call'[d].pc = IF d = c THEN pc ELSE call[d].pc
  BY <1>1 DEF Goto
<1> QED BY <1>2 DEF Issued

\* What Store does to the abstract state: all of it or none of it, and the
\* call has asked.
LEMMA StoreAsks ==
    ASSUME Inv, NEW c \in Claim, NEW s, NEW l, NEW pc \in Pc \ {"start", "loaded"},
           Store(c, s, l, pc)
    PROVE  /\ \/ session' = s /\ lease' = l
              \/ session' = session /\ lease' = lease
           /\ Issued' = Issued \cup {c}
           /\ call[c].pc = "loaded" => c \notin Issued
           /\ call[c].pc = "running" => c \in Issued
<1>1. "unsure" \in Pc \ {"start", "loaded"}
  BY DEF Pc
<1> QED BY <1>1, Asks DEF Store

\* The same of a rejection.
LEMMA RejectAsks ==
    ASSUME Inv, NEW c \in Claim, Reject(c)
    PROVE  /\ session' = session /\ lease' = lease
           /\ Issued' = Issued \cup {c}
           /\ call[c].pc = "loaded" => c \notin Issued
           /\ call[c].pc = "running" => c \in Issued
<1>1. "failed" \in Pc \ {"start", "loaded"}
  BY DEF Pc
<1> QED BY <1>1, Asks DEF Reject

\* Each request for a claim is granted or refused as the promise allows.
LEMMA RequestRefines ==
    ASSUME Inv, NEW c \in Claim, Acquire(c) \/ Recover(c) \/ ClearExpired(c)
    PROVE  Promise!Next
<1>1. "running" \in Pc \ {"start", "loaded"} /\ "done" \in Pc \ {"start", "loaded"}
  BY DEF Pc
<1>2. CASE Acquire(c)
  <2>1. Promise!Acquire(c) \/ Promise!Refuse(c)
    BY <1>1, <1>2, StoreAsks, RejectAsks DEF Acquire, Promise!Acquire, Promise!Refuse
  <2> QED BY <2>1 DEF Promise!Next
<1>3. CASE Recover(c)
  <2>1. Promise!TakeOver(c) \/ Promise!Refuse(c)
    BY <1>1, <1>3, StoreAsks, RejectAsks DEF Recover, TakeExpired, Promise!TakeOver, Promise!Refuse
  <2> QED BY <2>1 DEF Promise!Next
<1>4. CASE ClearExpired(c)
  <2>1. Promise!Clear(c) \/ Promise!Refuse(c)
    BY <1>1, <1>4, StoreAsks, RejectAsks DEF ClearExpired, TakeExpired, Promise!Clear, Promise!Refuse
  <2> QED BY <2>1 DEF Promise!Next
<1> QED BY <1>2, <1>3, <1>4

\* The end of a claim commits on top of what is stored, forfeits the claim, or
\* changes nothing.
LEMMA EndRefines ==
    ASSUME Inv, NEW c \in Claim, Commit(c) \/ Release(c)
    PROVE  Promise!Next \/ UNCHANGED Promise!vars
<1>1. "failed" \in Pc \ {"start", "loaded"} /\ "done" \in Pc \ {"start", "loaded"}
  BY DEF Pc
<1>2. CASE Commit(c)
  <2>1. CASE Reject(c)
    BY <1>2, <2>1, RejectAsks DEF Commit, Promise!vars
  <2>2. CASE lease = c /\ Store(c, session, Nobody, "failed")
    <3>1. Promise!Forfeit(c) \/ UNCHANGED Promise!vars
      BY <1>1, <1>2, <2>2, StoreAsks DEF Commit, Promise!Forfeit, Promise!vars
    <3> QED BY <3>1 DEF Promise!Next
  <2>3. CASE /\ lease = c /\ Current(call[c].base)
             /\ Store(c, Replacement(call[c].base.content \cup {c}), Nobody, "done")
    <3>1. call[c].base = session
      BY <2>3 DEF Inv, RevisionIdentifies, Copy, Current
    <3>2. Replacement(session.content \cup {c}).content = session.content \cup {c}
      BY DEF Replacement
    <3>3. \/ session'.content = session.content \cup {c} /\ lease' = Nobody
          \/ session' = session /\ lease' = lease
      BY <1>1, <2>3, <3>1, <3>2, StoreAsks
    <3>4. Issued' = Issued /\ lapsed' = lapsed
      BY <1>1, <1>2, <2>3, StoreAsks DEF Commit
    <3>5. Promise!Commit(c) \/ UNCHANGED Promise!vars
      BY <2>3, <3>3, <3>4 DEF Promise!Commit, Promise!vars
    <3> QED BY <3>5 DEF Promise!Next
  <2> QED BY <1>2, <2>1, <2>2, <2>3 DEF Commit
<1>3. CASE Release(c)
  <2>1. Promise!Forfeit(c) \/ UNCHANGED Promise!vars
    BY <1>1, <1>3, StoreAsks, RejectAsks DEF Release, Promise!Forfeit, Promise!vars
  <2> QED BY <2>1 DEF Promise!Next
<1> QED BY <1>2, <1>3

\* Loads and crashes change nothing that the promise speaks of.
LEMMA LocalRefines ==
    ASSUME Inv, NEW c \in Claim, Begin(c) \/ Crash(c)
    PROVE  UNCHANGED Promise!vars
<1>1. call \in [Claim -> [pc: Pc, base: Session]]
  BY DEF Inv, TypeOK
<1>2. CASE Begin(c)
  <2>1. \A d \in Claim : call'[d].pc = IF d = c THEN "loaded" ELSE call[d].pc
    BY <1>1, <1>2 DEF Begin
  <2>2. Issued' = Issued
    BY <1>2, <2>1 DEF Issued, Begin
  <2> QED BY <1>2, <2>2 DEF Begin, Promise!vars
<1>3. CASE Crash(c)
  <2>1. "crashed" \in Pc \ {"start", "loaded"}
    BY DEF Pc
  <2>2. Issued' = Issued
    BY <1>3, <2>1, Asks DEF Crash
  <2> QED BY <1>3, <2>2 DEF Crash, Promise!vars
<1> QED BY <1>2, <1>3

\* A writer without a claim leaves the claim alone.
LEMMA WriterRefines ==
    ASSUME Inv, NEW w \in Writer, WriteLoad(w) \/ WriteCas(w)
    PROVE  Promise!Next \/ UNCHANGED Promise!vars
<1>1. CASE WriteLoad(w)
  BY <1>1 DEF WriteLoad, Promise!vars, Issued
<1>2. CASE WriteCas(w)
  <2>1. UNCHANGED <<lease, lapsed, call>> /\ Issued' = Issued
    BY <1>2 DEF WriteCas, Issued
  <2>2. session' = session \/ session'.content \in {{w}, session.content \cup {w}}
    BY <1>2, WriteCasEffect
  <2>3. Promise!Write(w) \/ UNCHANGED Promise!vars
    BY <2>1, <2>2 DEF Promise!Write, Promise!vars
  <2> QED BY <2>3 DEF Promise!Next
<1> QED BY <1>1, <1>2

\* The store in its initial state is a free session.
LEMMA InitRefines == Init => Promise!Init
<1> SUFFICES ASSUME Init PROVE Promise!Init
  OBVIOUS
<1>1. \A c \in Claim : call[c].pc = "start"
  BY DEF Init
<1>2. Issued = {}
  BY <1>1 DEF Issued
<1> QED BY <1>2 DEF Init, Promise!Init, NoSession

\* Every step of the store is a step of the promise or changes nothing of it.
LEMMA NextRefines == Inv /\ [Next]_vars => [Promise!Next]_Promise!vars
<1> SUFFICES ASSUME Inv, [Next]_vars PROVE Promise!Next \/ UNCHANGED Promise!vars
  OBVIOUS
<1>1. CASE Lapse
  <2>1. lease \in Claim /\ Promise!Lapse(lease)
    BY <1>1 DEF Inv, TypeOK, Lapse, Promise!Lapse, Issued
  <2> QED BY <2>1 DEF Promise!Next
<1>2. CASE UNCHANGED vars
  BY <1>2 DEF vars, Promise!vars, Issued
<1>3. ASSUME NEW c \in Claim,
             \/ Begin(c) \/ Acquire(c) \/ Recover(c) \/ ClearExpired(c)
             \/ Commit(c) \/ Release(c) \/ Crash(c)
      PROVE  Promise!Next \/ UNCHANGED Promise!vars
  BY <1>3, LocalRefines, RequestRefines, EndRefines
<1>4. ASSUME NEW w \in Writer, WriteLoad(w) \/ WriteCas(w)
      PROVE  Promise!Next \/ UNCHANGED Promise!vars
  BY <1>4, WriterRefines
<1> QED BY <1>1, <1>2, <1>3, <1>4 DEF Next

\* A session store with one lock keeps the promise of a session claim for any
\* number of runs, operators, writers and I/O errors: no two claims hold the
\* session, a superseded claim stores nothing, and a result is stored on top
\* of the messages it was based on.
THEOREM LockedStoreImplementsClaim == Spec => ImplementsClaim
BY InitRefines, NextRefines, InvHolds, PTL DEF Spec, ImplementsClaim, Promise!Spec

-----------------------------------------------------------------------------
(* What holds of the calls. *)

\* Unless an operator was rash, a call that runs holds the lease.
RunningHolds == rash = {} => \A c \in Claim : call[c].pc = "running" => lease = c

\* Neither property is inductive alone: that an operation by c cannot find c's
\* own lease before c has one takes NoLeaseLeftBehind.
Guarded == NoLeaseLeftBehind /\ RunningHolds

\* What an operation by c leaves of the calls: only c moves.
LEMMA OnlyOneMoves ==
    ASSUME Inv, NEW c \in Claim, NEW pc \in Pc, Goto(c, pc)
    PROVE  \A d \in Claim : call'[d].pc = IF d = c THEN pc ELSE call[d].pc
BY DEF Inv, TypeOK, Goto

\* An operation that writes preserves both, when what it writes does.
LEMMA StoreGuarded ==
    ASSUME Inv, Guarded, NEW c \in Claim, NEW s, NEW l \in {c, Nobody}, NEW pc \in Pc,
           Store(c, s, l, pc),
           l = c => pc = "running",
           pc = "running" => l = c,
           rash' = {} => rash = {} /\ \A d \in Claim \ {c} : call[d].pc # "running"
    PROVE  Guarded'
<1>1. "unsure" \in Pc
  BY DEF Pc
<1>2. \A d \in Claim : d # Nobody
  BY NobodyIsNoClaim
<1>3. PICK q \in {pc, "unsure"} : /\ Goto(c, q)
                                 /\ \/ lease' = l
                                    \/ lease' = lease /\ q = "unsure"
  BY DEF Store
<1>4. \A d \in Claim : call'[d].pc = IF d = c THEN q ELSE call[d].pc
  BY <1>1, <1>3, OnlyOneMoves
<1>5. NoLeaseLeftBehind'
  BY <1>2, <1>3, <1>4 DEF Guarded, NoLeaseLeftBehind
<1>6. RunningHolds'
  BY <1>3, <1>4 DEF Guarded, RunningHolds
<1> QED BY <1>5, <1>6 DEF Guarded

\* A call that stops without a write preserves both, unless it held the lease.
LEMMA StopGuarded ==
    ASSUME Inv, Guarded, NEW c \in Claim, NEW pc \in Pc \ {"running"}, Goto(c, pc),
           lease' = lease, rash' = rash, lease # c \/ pc = "crashed"
    PROVE  Guarded'
<1>1. \A d \in Claim : call'[d].pc = IF d = c THEN pc ELSE call[d].pc
  BY OnlyOneMoves
<1> QED BY <1>1 DEF Guarded, NoLeaseLeftBehind, RunningHolds

\* Every step preserves both.
LEMMA NextGuarded == Inv /\ Guarded /\ [Next]_vars => Guarded'
<1> SUFFICES ASSUME Inv, Guarded, [Next]_vars PROVE Guarded'
  OBVIOUS
<1>1. CASE UNCHANGED vars
  BY <1>1 DEF vars, Guarded, NoLeaseLeftBehind, RunningHolds
<1>2. CASE Lapse
  BY <1>2 DEF Lapse, Guarded, NoLeaseLeftBehind, RunningHolds
<1>3. ASSUME NEW w \in Writer, WriteLoad(w) \/ WriteCas(w) PROVE Guarded'
  BY <1>3 DEF WriteLoad, WriteCas, Guarded, NoLeaseLeftBehind, RunningHolds
<1>4. {"running", "done", "failed", "crashed", "loaded"} \subseteq Pc
  BY DEF Pc
<1>5. ASSUME NEW c \in Claim, Reject(c), rash' = rash, call[c].pc = "loaded" \/ lease # c PROVE Guarded'
  BY <1>4, <1>5, StopGuarded DEF Reject, Guarded, NoLeaseLeftBehind
<1>6. ASSUME NEW c \in Claim, Begin(c) PROVE Guarded'
  <2>1. \A d \in Claim : call'[d].pc = IF d = c THEN "loaded" ELSE call[d].pc
    BY <1>6 DEF Begin, Inv, TypeOK
  <2>2. lease' = lease /\ rash' = rash /\ call[c].pc = "start"
    BY <1>6 DEF Begin
  <2> QED BY <2>1, <2>2 DEF Guarded, NoLeaseLeftBehind, RunningHolds
<1>7. ASSUME NEW c \in Claim, Acquire(c) PROVE Guarded'
  <2>1. CASE lease = Nobody /\ Store(c, session, c, "running")
    <3>1. rash = {} => \A d \in Claim : call[d].pc # "running"
      BY <2>1, NobodyIsNoClaim DEF Guarded, RunningHolds
    <3> QED BY <1>4, <1>7, <2>1, <3>1, StoreGuarded DEF Acquire
  <2> QED BY <1>5, <1>7, <2>1 DEF Acquire
<1>8. ASSUME NEW c \in Claim, Recover(c) \/ ClearExpired(c) PROVE Guarded'
  <2>1. PICK l \in {c, Nobody}, pc \in {"running", "done"} :
            TakeExpired(c, l, pc) /\ (l = c <=> pc = "running")
    BY <1>8, NobodyIsNoClaim DEF Recover, ClearExpired
  <2>2. call[c].pc = "loaded"
    BY <2>1 DEF TakeExpired
  <2>3. CASE Reject(c) /\ rash' = rash
    BY <1>5, <2>2, <2>3
  <2>4. CASE /\ Store(c, session, l, pc)
             /\ rash' = IF OwnerIsGone THEN rash ELSE rash \cup {c}
    <3>1. rash' = {} => rash = {} /\ OwnerIsGone
      BY <2>4
    <3>2. rash' = {} => \A d \in Claim : call[d].pc # "running"
      BY <3>1 DEF OwnerIsGone, Guarded, RunningHolds
    <3> QED BY <1>4, <2>1, <2>4, <3>1, <3>2, StoreGuarded
  <2> QED BY <2>1, <2>3, <2>4 DEF TakeExpired
<1>9. ASSUME NEW c \in Claim, Commit(c) \/ Release(c) PROVE Guarded'
  <2>1. CASE lease = c
    <3>1. rash = {} => \A d \in Claim \ {c} : call[d].pc # "running"
      BY <2>1 DEF Guarded, RunningHolds
    <3>2. /\ rash' = rash
          /\ \E s : Store(c, s, Nobody, "failed") \/ Store(c, s, Nobody, "done")
      BY <1>9, <2>1 DEF Commit, Release
    <3> QED BY <1>4, <2>1, <3>1, <3>2, NobodyIsNoClaim, StoreGuarded
  <2>2. CASE lease # c
    BY <1>5, <1>9, <2>2 DEF Commit, Release
  <2> QED BY <2>1, <2>2
<1>10. ASSUME NEW c \in Claim, Crash(c) PROVE Guarded'
  BY <1>4, <1>10, StopGuarded DEF Crash
<1> QED BY <1>1, <1>2, <1>3, <1>6, <1>7, <1>8, <1>9, <1>10 DEF Next

\* Both hold in every behaviour.
LEMMA GuardedHolds == Spec => []Guarded
<1>1. Init => Guarded
  BY NobodyIsNoClaim DEF Init, Guarded, NoLeaseLeftBehind, RunningHolds
<1> QED BY <1>1, NextGuarded, InvHolds, PTL DEF Spec

\* A call that returned, with a result, a rejection or a conflict, left no lease.
THEOREM EndedCallsHoldNothing == Spec => []NoLeaseLeftBehind
<1>1. Guarded => NoLeaseLeftBehind
  BY DEF Guarded
<1> QED BY <1>1, GuardedHolds, PTL

\* At most one call acts for the session, whatever writers, crashes and I/O
\* errors do, as long as operators recover a lease only when its owner is gone.
THEOREM CarefulOperatorsExclude == Spec => []OneAtATime
<1>1. Guarded => OneAtATime
  BY DEF Guarded, RunningHolds, OneAtATime
<1> QED BY <1>1, GuardedHolds, PTL
=============================================================================
