------------------------ MODULE RunLifecycleProofs ------------------------
(***************************************************************************)
(* Proofs about RunLifecycle, for any number of invocations, drivers and   *)
(* errors of the store and of the audit sink.                              *)
(*                                                                         *)
(* A driver writes only where its copy is the run, so what it may do is    *)
(* what the run says; what others did in between counts only through the   *)
(* run.  An invocation that announced itself keeps its fence open until    *)
(* its end was delivered, and an attempt or a delivery that is under way   *)
(* keeps its record in the run undecided, so nobody makes it again.        *)
(***************************************************************************)
EXTENDS RunLifecycle, TLAPS

-----------------------------------------------------------------------------
(* The inductive invariant. *)

\* An attempt that nobody has decided about.
Undone == {"running", "ambiguous"}

\* Before the fence; before RunStarted; before the terminal audit.
Unfenced == {"idle", "claimed", "fencing"}

Unannounced == Unfenced \cup {"rechecking", "starting"}

Unsealed == Unannounced \cup Doing \cup {"unstarted", "asking", "governed", "stopping"}

\* Where RunStopped of its own span is delivered, and that of another again.
DeliversOwn == {"emitting", "sealing", "unsealing"}

DeliversAgain == {"reemitting", "resealing", "reopening"}

Delivers == DeliversOwn \cup DeliversAgain

Fenced == (Unsealed \ Unfenced) \cup DeliversOwn

\* The fence of an invocation goes with where it is and what it sent.
FenceFacts(i) ==
    /\ inv[i].pc \in Unfenced => run.fence[i] = "none"
    /\ inv[i].pc \in Fenced => run.fence[i] \in Undone
    /\ inv[i].pc \in Unannounced => started[i] = 0
    /\ inv[i].pc \in Unsealed => stopped[i] = 0 /\ run.audit.by # i
    /\ run.fence[i] = "none" => started[i] = 0
    /\ run.fence[i] = "closed" => stopped[i] > 0 \/ i \in byHand
    /\ run.fence[i] = "authorized" => run.audit.by = i /\ run.audit.state # "none"
    /\ started[i] <= 1 /\ stopped[i] <= 1

\* The terminal audit record tells what the sink has of its span.
AuditFacts ==
    /\ run.audit.state # "failed"
    /\ run.audit.state # "none" => run.audit.by \in Invocation
    /\ run.audit.state = "retryable" => stopped[run.audit.by] = 0
    /\ run.audit.state = "completed" => stopped[run.audit.by] = 1

\* Who delivers RunStopped is alone, and the record waits for it.
DeliveryFacts(i) ==
    /\ inv[i].pc \in Delivers =>
           /\ run.audit.state \in Undone
           /\ \A j \in Invocation : inv[j].pc \in Delivers => j = i
    /\ inv[i].pc \in DeliversOwn => run.audit.by = i
    /\ inv[i].pc \in DeliversAgain => Copy(i).audit.by = run.audit.by
    /\ inv[i].pc \in {"emitting", "reemitting"} => stopped[run.audit.by] = 0
    /\ inv[i].pc \in {"sealing", "resealing"} => stopped[run.audit.by] = 1

\* Who works on an attempt is alone, and the attempt waits for it.
AttemptFacts(i) ==
    /\ inv[i].pc \in Doing =>
           /\ run.activity[StepOf(i)] \in Undone
           /\ \A j \in Invocation : inv[j].pc \in Doing /\ StepOf(j) = StepOf(i) => j = i
    /\ inv[i].pc \in {"streaming", "dispatched", "executing"} => effects[StepOf(i)] = 0

\* What may start has had no effect.
EffectFacts(s) ==
    /\ run.activity[s] \in {"none", "retryable"} => effects[s] = 0
    /\ effects[s] <= 1

\* A terminal run has no open fence and no undecided record.
Settled(r) ==
    r.status \in Terminal =>
        /\ \A i \in Invocation : r.fence[i] \notin Undone
        /\ r.audit.state \in {"none", "completed"}

LifecycleInv == /\ TypeOK
                /\ AuditFacts
                /\ Settled(run)
                /\ \A i \in Invocation : FenceFacts(i) /\ DeliveryFacts(i) /\ AttemptFacts(i)
                /\ \A s \in Step : EffectFacts(s)

-----------------------------------------------------------------------------
(* What a transition of a driver does to the run. *)

Bumped(r) == [r EXCEPT !.version = @ + 1]

\* The part of Transition that does not depend on the answer.
Swaps(i, next) ==
    /\ \/ /\ Copy(i) = run /\ run' = Bumped(next)
          /\ driver' \in {[driver EXCEPT ![Home[i]].copy = run'],
                          [driver EXCEPT ![Home[i]].poisoned = TRUE]}
       \/ /\ run' = run
          /\ driver' \in {driver, [driver EXCEPT ![Home[i]].poisoned = TRUE]}
    /\ \/ errors' = errors
       \/ errors < MaxFaults /\ errors' = errors + 1

\* Two states of the run that differ in their version only.
Alike(r, q) == /\ r.status = q.status /\ r.activity = q.activity
               /\ r.fence = q.fence /\ r.audit = q.audit

\* A driver's copy stays as it is or becomes the run.
CopiesFollow == \A d \in Driver : driver'[d].copy \in {driver[d].copy, run'}

DriverTypes == [Driver -> [copy: Run, poisoned: BOOLEAN]]

\* Raising the version of a run changes none of its contents.
LEMMA BumpedIsAlike ==
    ASSUME NEW r \in Run PROVE Bumped(r) \in Run /\ Alike(Bumped(r), r)
BY DEF Bumped, Alike, Run

\* What a transition of a driver does to the store and to the copies.
LEMMA SwapFacts ==
    ASSUME ConstantsFit, TypeOK, NEW i \in Invocation, NEW next, Swaps(i, next),
           Copy(i) = run => next \in Run
    PROVE  /\ run' \in Run /\ driver' \in DriverTypes /\ CopiesFollow
           /\ errors' \in 0..MaxFaults
           /\ run' = run \/ (Copy(i) = run /\ Alike(run', next))
<1>1. Home[i] \in Driver /\ driver \in DriverTypes /\ run \in Run
  BY DEF ConstantsFit, TypeOK, DriverTypes
<1>2. Copy(i) = run => Bumped(next) \in Run /\ Alike(Bumped(next), next)
  BY BumpedIsAlike
<1>3. errors' \in 0..MaxFaults
  BY DEF Swaps, TypeOK, ConstantsFit
<1>4. run' \in Run /\ (run' = run \/ (Copy(i) = run /\ Alike(run', next)))
  BY <1>1, <1>2 DEF Swaps
<1>5. driver' \in DriverTypes /\ CopiesFollow
  <2>1. \/ driver' = driver
        \/ driver' = [driver EXCEPT ![Home[i]] = [@ EXCEPT !.copy = run']]
        \/ driver' = [driver EXCEPT ![Home[i]] = [@ EXCEPT !.poisoned = TRUE]]
    BY DEF Swaps
  <2>2. \A d \in Driver : driver[d] \in [copy: Run, poisoned: BOOLEAN]
    BY <1>1 DEF DriverTypes
  <2>3. ASSUME NEW d \in Driver
        PROVE  /\ [driver[d] EXCEPT !.copy = run'] \in [copy: Run, poisoned: BOOLEAN]
               /\ [driver[d] EXCEPT !.poisoned = TRUE] \in [copy: Run, poisoned: BOOLEAN]
               /\ [driver[d] EXCEPT !.copy = run'].copy = run'
               /\ [driver[d] EXCEPT !.poisoned = TRUE].copy = driver[d].copy
    BY <1>4, <2>2
  <2>4. CASE driver' = driver
    BY <1>1, <2>4 DEF CopiesFollow
  <2>5. CASE driver' = [driver EXCEPT ![Home[i]] = [@ EXCEPT !.copy = run']]
    BY <1>1, <2>3, <2>5 DEF DriverTypes, CopiesFollow
  <2>6. CASE driver' = [driver EXCEPT ![Home[i]] = [@ EXCEPT !.poisoned = TRUE]]
    BY <1>1, <2>3, <2>6 DEF DriverTypes, CopiesFollow
  <2> QED
    BY <2>1, <2>4, <2>5, <2>6
<1> QED
  BY <1>3, <1>4, <1>5

\* The invocation moves to one of these places and the others stay.
MovesTo(i, pcs) == /\ inv' \in [Invocation -> [pc: Pc, reason: Reason]]
                   /\ inv'[i].pc \in pcs
                   /\ \A j \in Invocation \ {i} : inv'[j] = inv[j]

\* Goto moves one invocation and nothing else of it.
LEMMA GotoMoves ==
    ASSUME TypeOK, NEW i \in Invocation, NEW pc \in Pc, Goto(i, pc)
    PROVE  MovesTo(i, {pc})
BY DEF TypeOK, Goto, MovesTo

\* An invocation that stops leaves its stream.
LEMMA StopMoves ==
    ASSUME TypeOK, NEW i \in Invocation, NEW reason \in Reason, StopBecause(i, reason)
    PROVE  MovesTo(i, {"stopping"})
BY DEF TypeOK, StopBecause, MovesTo, Pc

-----------------------------------------------------------------------------
(* When the invariant is kept. *)

\* An invocation is in S only if it was there before.
Stays(j, S) == inv'[j].pc \in S => inv[j].pc \in S

\* Where an invocation goes obliges the run to nothing new.
Retreats(j) ==
    /\ Stays(j, Unfenced) /\ Stays(j, Fenced) /\ Stays(j, Unannounced) /\ Stays(j, Unsealed)
    /\ Stays(j, DeliversOwn) /\ Stays(j, DeliversAgain)
    /\ Stays(j, {"emitting", "reemitting"}) /\ Stays(j, {"sealing", "resealing"})
    /\ Stays(j, {"streaming", "answered"}) /\ Stays(j, Doing \ {"streaming", "answered"})
    /\ Stays(j, {"streaming", "dispatched", "executing"})

\* Only the pc is looked at.
LEMMA StayingRetreats ==
    ASSUME NEW j \in Invocation, inv'[j].pc = inv[j].pc PROVE Retreats(j)
BY DEF Retreats, Stays

\* The errors, the drivers and the places have their types after the step.
Housekeeping == /\ driver' \in DriverTypes /\ CopiesFollow
                /\ inv' \in [Invocation -> [pc: Pc, reason: Reason]]
                /\ errors' \in 0..MaxFaults

SameOrUndone(state, new) == new = state \/ (state \in Undone /\ new \in Undone)

\* Nothing in the run is decided or begun; what is undone may become ambiguous.
DecaysTo(r) == /\ r \in Run
               /\ \A j \in Invocation : SameOrUndone(run.fence[j], r.fence[j])
               /\ \A s \in Step : SameOrUndone(run.activity[s], r.activity[s])
               /\ SameOrUndone(run.audit.state, r.audit.state) /\ r.audit.by = run.audit.by

\* A change that only gives up knowledge keeps the invariant.
LEMMA DecayKeeps ==
    ASSUME ConstantsFit, LifecycleInv, DecaysTo(run'), Settled(run'), NoOutsideEffect, Housekeeping,
           \A j \in Invocation : Retreats(j)
    PROVE  LifecycleInv'
<1>1. TypeOK'
  BY DEF LifecycleInv, TypeOK, NoOutsideEffect, Housekeeping, DriverTypes, DecaysTo
<1>2. AuditFacts'
  BY DEF LifecycleInv, AuditFacts, NoOutsideEffect, DecaysTo, SameOrUndone, Undone
<1>3. ASSUME NEW s \in Step PROVE EffectFacts(s)'
  BY DEF LifecycleInv, EffectFacts, NoOutsideEffect, DecaysTo, SameOrUndone, Undone
<1>4. ASSUME NEW i \in Invocation PROVE FenceFacts(i)'
  <2>1. FenceFacts(i) /\ Retreats(i) /\ SameOrUndone(run.fence[i], run'.fence[i])
    BY DEF LifecycleInv, DecaysTo
  <2>2. run.audit.state # "none" => run'.audit.state # "none"
    BY DEF DecaysTo, SameOrUndone, Undone
  <2> QED
    BY <2>1, <2>2 DEF FenceFacts, NoOutsideEffect, Retreats, Stays, DecaysTo, SameOrUndone, Undone
<1>5. ASSUME NEW i \in Invocation PROVE DeliveryFacts(i)'
  <2>1. \A j \in Invocation : Stays(j, Delivers)
    BY DEF Retreats, Stays, Delivers
  <2>2. Copy(i)' \in {Copy(i), run'} /\ stopped' = stopped
    BY DEF ConstantsFit, Housekeeping, CopiesFollow, Copy, NoOutsideEffect
  <2>3. DeliveryFacts(i) /\ Retreats(i) /\ SameOrUndone(run.audit.state, run'.audit.state)
        /\ run'.audit.by = run.audit.by
    BY DEF LifecycleInv, DecaysTo
  <2>4. inv'[i].pc \in Delivers => /\ run'.audit.state \in Undone
                                  /\ \A j \in Invocation : inv'[j].pc \in Delivers => j = i
    BY <2>1, <2>3 DEF DeliveryFacts, SameOrUndone, Stays
  <2> QED
    BY <2>2, <2>3, <2>4 DEF DeliveryFacts, Retreats, Stays
<1>6. ASSUME NEW i \in Invocation PROVE AttemptFacts(i)'
  <2>1. \A j \in Invocation : /\ inv'[j].pc \in Doing => /\ inv[j].pc \in Doing
                                                        /\ StepOf(j)' = StepOf(j)
                              /\ StepOf(j) \in Step
    BY DEF Retreats, Stays, Doing, StepOf, Step
  <2>2. AttemptFacts(i) /\ Retreats(i)
    BY DEF LifecycleInv
  <2>3. run.activity[StepOf(i)] \in Undone => run'.activity[StepOf(i)] \in Undone
    BY <2>1 DEF DecaysTo, SameOrUndone
  <2>4. inv'[i].pc \in {"streaming", "dispatched", "executing"} =>
            inv[i].pc \in {"streaming", "dispatched", "executing"} /\ inv'[i].pc \in Doing
    BY <2>2 DEF Retreats, Stays, Doing
  <2> QED
    BY <2>1, <2>2, <2>3, <2>4 DEF AttemptFacts, NoOutsideEffect
<1> QED
  BY <1>1, <1>2, <1>3, <1>4, <1>5, <1>6 DEF LifecycleInv

\* A step that moves invocations only backwards keeps the invariant.
LEMMA Yields ==
    ASSUME ConstantsFit, LifecycleInv, run' = run, NoOutsideEffect, Housekeeping,
           \A j \in Invocation : Retreats(j)
    PROVE  LifecycleInv'
<1>1. DecaysTo(run') /\ Settled(run')
  BY DEF LifecycleInv, TypeOK, DecaysTo, SameOrUndone, Settled
<1> QED
  BY <1>1, DecayKeeps

\* What invocation i does to the run leaves others what they rely on.
Spares(i) ==
    /\ \A j \in Invocation \ {i} : SameOrUndone(run.fence[j], run'.fence[j])
    /\ \/ run'.audit.by = run.audit.by
       \/ run.audit.state = "none" /\ run'.audit.by = i
    /\ run.audit.state # "none" => run'.audit.state # "none"
    /\ run.audit.state \in Undone /\ inv[i].pc \notin Delivers => run'.audit.state \in Undone
    /\ \A s \in Step :
           run.activity[s] \in Undone /\ ~(inv[i].pc \in Doing /\ StepOf(i) = s)
               => run'.activity[s] \in Undone

\* A transition of one invocation that leaves what the others know keeps the invariant.
LEMMA Writes ==
    ASSUME ConstantsFit, LifecycleInv, NoOutsideEffect, Housekeeping, run' \in Run,
           NEW i \in Invocation, Spares(i), \A j \in Invocation \ {i} : inv'[j] = inv[j],
           FenceFacts(i)', DeliveryFacts(i)', AttemptFacts(i)',
           AuditFacts', Settled(run'), \A s \in Step : EffectFacts(s)'
    PROVE  LifecycleInv'
<1>1. TypeOK'
  BY DEF LifecycleInv, TypeOK, NoOutsideEffect, Housekeeping, DriverTypes
<1>2. ASSUME NEW j \in Invocation, j # i PROVE FenceFacts(j)'
  BY <1>2 DEF LifecycleInv, FenceFacts, NoOutsideEffect, Spares, SameOrUndone, Undone
<1>3. ASSUME NEW j \in Invocation, j # i PROVE DeliveryFacts(j)'
  <2>1. inv[j].pc \in Delivers =>
            run'.audit.state \in Undone /\ run'.audit.by = run.audit.by
    BY <1>3 DEF LifecycleInv, DeliveryFacts, Spares, Undone
  <2>2. Home[j] \in Driver /\ inv'[j] = inv[j]
    BY <1>3 DEF ConstantsFit
  <2>3. DeliveryFacts(j) /\ DeliveryFacts(i)'
    BY DEF LifecycleInv
  <2>4. Copy(j)' \in {Copy(j), run'} /\ stopped' = stopped
    BY <2>2 DEF Housekeeping, CopiesFollow, Copy, NoOutsideEffect
  <2>5. inv[j].pc \in Delivers => \A k \in Invocation : inv'[k].pc \in Delivers => k = j
    BY <1>3, <2>2, <2>3 DEF DeliveryFacts
  <2> QED
    BY <2>1, <2>2, <2>3, <2>4, <2>5 DEF DeliveryFacts, Delivers, DeliversOwn, DeliversAgain
<1>4. ASSUME NEW j \in Invocation, j # i PROVE AttemptFacts(j)'
  <2>1. inv'[j] = inv[j] /\ StepOf(j)' = StepOf(j) /\ StepOf(j) \in Step
    BY <1>4 DEF StepOf, Step
  <2>2. AttemptFacts(j) /\ AttemptFacts(i)'
    BY DEF LifecycleInv
  <2>3. inv[j].pc \in Doing =>
            /\ run'.activity[StepOf(j)] \in Undone
            /\ \A k \in Invocation : inv'[k].pc \in Doing /\ StepOf(k)' = StepOf(j) => k = j
    <3> SUFFICES ASSUME inv[j].pc \in Doing
                 PROVE  /\ run'.activity[StepOf(j)] \in Undone
                        /\ \A k \in Invocation :
                               inv'[k].pc \in Doing /\ StepOf(k)' = StepOf(j) => k = j
      OBVIOUS
    <3>1. run'.activity[StepOf(j)] \in Undone
      BY <1>4, <2>1, <2>2 DEF AttemptFacts, Spares
    <3>2. \A k \in Invocation \ {i} : inv'[k] = inv[k] /\ StepOf(k)' = StepOf(k)
      BY DEF StepOf
    <3> QED
      BY <1>4, <2>1, <2>2, <3>1, <3>2 DEF AttemptFacts
  <2> QED
    BY <2>1, <2>2, <2>3 DEF AttemptFacts, NoOutsideEffect, Doing
<1> QED
  BY <1>1, <1>2, <1>3, <1>4 DEF LifecycleInv

\* An invocation goes on, or gives up, and the run stays as it is.
LEMMA GoesOn ==
    ASSUME ConstantsFit, LifecycleInv, run' = run, NoOutsideEffect,
           driver' \in DriverTypes, CopiesFollow, errors' \in 0..MaxFaults,
           NEW i \in Invocation, NEW pcs, MovesTo(i, pcs), Retreats(i)
    PROVE  LifecycleInv'
<1>1. \A j \in Invocation : Retreats(j)
  BY StayingRetreats DEF MovesTo
<1> QED
  BY <1>1, Yields DEF MovesTo, Housekeeping

\* The same, of a step that no driver makes.
LEMMA MovesAlone ==
    ASSUME ConstantsFit, LifecycleInv, UNCHANGED <<run, driver, errors>>, NoOutsideEffect,
           NEW i \in Invocation, NEW pcs, MovesTo(i, pcs), Retreats(i)
    PROVE  LifecycleInv'
<1>1. driver' \in DriverTypes /\ CopiesFollow /\ errors' \in 0..MaxFaults
  BY DEF LifecycleInv, TypeOK, DriverTypes, CopiesFollow
<1> QED
  BY <1>1, GoesOn

\* Who returns or stops working on an attempt is obliged to nothing new.
LEMMA ReturningRetreats ==
    ASSUME NEW i \in Invocation, MovesTo(i, {"returned"}) PROVE Retreats(i)
BY DEF MovesTo, Retreats, Stays, Fenced, Unsealed, Unfenced, Unannounced, Doing, DeliversOwn,
       DeliversAgain

\* The step after which an invocation stops only gives up knowledge.
LEMMA StoppingRetreats ==
    ASSUME NEW i \in Invocation, MovesTo(i, {"stopping"}),
           inv[i].pc \in Doing \cup {"unstarted", "asking", "governed", "stopping"}
    PROVE Retreats(i)
BY DEF MovesTo, Retreats, Stays, Fenced, Unsealed, Unfenced, Unannounced, Doing, DeliversOwn,
       DeliversAgain

-----------------------------------------------------------------------------
(* Opening the span. *)

\* Claiming an invocation keeps the invariant.
LEMMA ClaimInvocationKeeps ==
    ASSUME ConstantsFit, LifecycleInv, NEW i \in Invocation, ClaimInvocation(i)
    PROVE  LifecycleInv'
<1>1. Goto(i, "claimed") \/ Goto(i, "returned")
  BY DEF ClaimInvocation
<1>2. CASE Goto(i, "claimed")
  <2>1. MovesTo(i, {"claimed"})
    BY <1>2, GotoMoves DEF LifecycleInv, Pc
  <2>2. Retreats(i)
    BY <2>1
    DEF ClaimInvocation, At, MovesTo, Retreats, Stays, Fenced, Unsealed, Unfenced, Unannounced,
        Doing, DeliversOwn, DeliversAgain
  <2> QED
    BY <2>1, <2>2, MovesAlone DEF ClaimInvocation
<1>3. CASE Goto(i, "returned")
  <2>1. MovesTo(i, {"returned"})
    BY <1>3, GotoMoves DEF LifecycleInv, Pc, Idle
  <2> QED
    BY <2>1, ReturningRetreats, MovesAlone DEF ClaimInvocation
<1> QED
  BY <1>1, <1>2, <1>3

-----------------------------------------------------------------------------
(* Steps that decide nothing. *)

\* A transition after which what was undone is undone.
LEMMA DecayingSwap ==
    ASSUME ConstantsFit, LifecycleInv, NoOutsideEffect,
           NEW i \in Invocation, NEW next, Swaps(i, next),
           Copy(i) = run => DecaysTo(next) /\ Settled(next),
           NEW pcs, MovesTo(i, pcs), Retreats(i)
    PROVE  LifecycleInv'
<1>1. /\ run' \in Run /\ driver' \in DriverTypes /\ CopiesFollow /\ errors' \in 0..MaxFaults
      /\ run' = run \/ (Copy(i) = run /\ Alike(run', next))
  BY SwapFacts DEF LifecycleInv, DecaysTo
<1>2. CASE run' = run
  BY <1>1, <1>2, GoesOn
<1>3. CASE Copy(i) = run /\ Alike(run', next)
  <2>1. DecaysTo(run') /\ Settled(run')
    BY <1>1, <1>3 DEF Alike, DecaysTo, Settled
  <2>2. \A j \in Invocation : Retreats(j)
    BY StayingRetreats DEF MovesTo
  <2> QED
    BY <1>1, <2>1, <2>2, DecayKeeps DEF MovesTo, Housekeeping
<1> QED
  BY <1>1, <1>2, <1>3

\* Quarantining what a dead process left only gives up knowledge.
LEMMA QuarantineDecays ==
    ASSUME NEW me \in Invocation \cup {Nobody}, LifecycleInv
    PROVE  DecaysTo(Quarantined(run, me)) /\ Settled(Quarantined(run, me))
<1> DEFINE q == [run EXCEPT !.activity = [s \in Step |-> Interrupted(run.activity[s])],
                            !.fence = [i \in Invocation |-> IF i = me THEN run.fence[i]
                                                            ELSE Interrupted(run.fence[i])],
                            !.audit.state = InterruptedAudit(run.audit.state)]
<1>1. run \in Run /\ Settled(run)
  BY DEF LifecycleInv, TypeOK
<1>2. /\ q.activity = [s \in Step |-> Interrupted(run.activity[s])]
      /\ q.fence = [i \in Invocation |-> IF i = me THEN run.fence[i]
                                         ELSE Interrupted(run.fence[i])]
      /\ q.audit.state = Interrupted(run.audit.state) /\ q.audit.by = run.audit.by
      /\ q.status = run.status
  BY <1>1 DEF Run, InterruptedAudit
<1>3. \A state \in Activity \cup Fence : SameOrUndone(state, Interrupted(state))
  BY DEF SameOrUndone, Interrupted, Undone
<1>4. q \in Run
  BY <1>1 DEF Run, Interrupted, InterruptedAudit, Activity, Fence
<1> HIDE DEF q
<1>5. DecaysTo(q)
  BY <1>1, <1>2, <1>3, <1>4 DEF DecaysTo, Run, SameOrUndone
<1>6. Settled(q)
  BY <1>1, <1>2, <1>3 DEF Settled, Run, SameOrUndone, Undone, Interrupted
<1>7. Quarantined(run, me) \in {q, Ambiguous(q)}
  BY DEF Quarantined, q
<1>8. DecaysTo(Ambiguous(q)) /\ Settled(Ambiguous(q))
  BY <1>4, <1>5 DEF Ambiguous, DecaysTo, Settled, Run, Terminal
<1> QED
  BY <1>5, <1>6, <1>7, <1>8

\* The disposition at the start of an invocation keeps the invariant.
LEMMA InvocationDispositionKeeps ==
    ASSUME ConstantsFit, LifecycleInv, NEW i \in Invocation, InvocationDisposition(i)
    PROVE  LifecycleInv'
<1> DEFINE next == Quarantined(Copy(i), Nobody)
           places == {"fencing", "retrying", "finalizing", "returned"}
<1>1. Swaps(i, next) /\ NoOutsideEffect /\ inv[i].pc = "claimed"
  BY DEF InvocationDisposition, Transition, Swaps, Bumped, Poison, Copy, At
<1>2. \E pc \in places : Goto(i, pc)
  BY DEF InvocationDisposition, Transition
<1>3. MovesTo(i, places)
  BY <1>2, GotoMoves DEF LifecycleInv, Pc, Idle, MovesTo
<1>4. Retreats(i)
  BY <1>1, <1>3 DEF MovesTo, Retreats, Stays, Fenced, Unsealed, Unfenced, Unannounced, Doing,
                    DeliversOwn, DeliversAgain
<1>5. Copy(i) = run => DecaysTo(next) /\ Settled(next)
  BY QuarantineDecays
<1> QED
  BY <1>1, <1>3, <1>4, <1>5, DecayingSwap

\* The second look at the run keeps the invariant.
LEMMA RecheckKeeps ==
    ASSUME ConstantsFit, LifecycleInv, NEW i \in Invocation, Recheck(i)
    PROVE  LifecycleInv'
<1> DEFINE next == Quarantined(Copy(i), i)
           places == {"starting", "returned"}
<1>1. Swaps(i, next) /\ NoOutsideEffect /\ inv[i].pc = "rechecking"
  BY DEF Recheck, Transition, Swaps, Bumped, Poison, Copy, At
<1>2. \E pc \in places : Goto(i, pc)
  BY DEF Recheck, Transition
<1>3. MovesTo(i, places)
  BY <1>2, GotoMoves DEF LifecycleInv, Pc, Idle, MovesTo
<1>4. Retreats(i)
  BY <1>1, <1>3 DEF MovesTo, Retreats, Stays, Fenced, Unsealed, Unfenced, Unannounced, Doing,
                    DeliversOwn, DeliversAgain
<1>5. Copy(i) = run => DecaysTo(next) /\ Settled(next)
  BY QuarantineDecays
<1> QED
  BY <1>1, <1>3, <1>4, <1>5, DecayingSwap

\* Closing the fence of an invocation that never began keeps the invariant.
LEMMA FailInvocationLifecycleKeeps ==
    ASSUME ConstantsFit, LifecycleInv, NEW i \in Invocation, FailInvocationLifecycle(i)
    PROVE  LifecycleInv'
<1> DEFINE next == Ambiguous([Copy(i) EXCEPT !.fence[i] = "ambiguous"])
<1>1. Swaps(i, next) /\ NoOutsideEffect /\ inv[i].pc = "unstarted"
  BY DEF FailInvocationLifecycle, Transition, Swaps, Bumped, Poison, Copy, At
<1>2. \E reason \in Reason : StopBecause(i, reason)
  BY DEF FailInvocationLifecycle, Transition, Reason
<1>3. MovesTo(i, {"stopping"})
  BY <1>2, StopMoves DEF LifecycleInv
<1>4. run \in Run /\ run.fence[i] \in Undone
  BY <1>1 DEF LifecycleInv, TypeOK, FenceFacts, Fenced, Unsealed, Unfenced, Unannounced
<1>5. Copy(i) = run => DecaysTo(next) /\ Settled(next)
  BY <1>4 DEF DecaysTo, Settled, SameOrUndone, Undone, Ambiguous, Run, Fence, Terminal
<1> QED
  BY <1>1, <1>3, <1>5, StoppingRetreats, DecayingSwap

\* Failing a step whose outcome is unknown keeps the invariant.
LEMMA FailAmbiguouslyKeeps ==
    ASSUME ConstantsFit, LifecycleInv, NEW i \in Invocation, FailAmbiguously(i)
    PROVE  LifecycleInv'
<1> DEFINE next == Ambiguous([Copy(i) EXCEPT !.activity[StepOf(i)] = "ambiguous"])
<1>1. Swaps(i, next) /\ NoOutsideEffect /\ inv[i].pc \in Doing
  BY DEF FailAmbiguously, FinishActivity, Transition, Swaps, Bumped, Poison, Copy
<1>2. \E reason \in Reason : StopBecause(i, reason)
  BY DEF FailAmbiguously, FinishActivity, Transition, Reason
<1>3. MovesTo(i, {"stopping"})
  BY <1>2, StopMoves DEF LifecycleInv
<1>4. run \in Run /\ run.activity[StepOf(i)] \in Undone /\ StepOf(i) \in Step
  BY <1>1 DEF LifecycleInv, TypeOK, AttemptFacts, StepOf, Step
<1> HIDE DEF Swaps
<1>5. Copy(i) = run => DecaysTo(next) /\ Settled(next)
  BY <1>4 DEF DecaysTo, Settled, SameOrUndone, Undone, Ambiguous, Run, Activity, Terminal
<1> QED
  BY <1>1, <1>3, <1>5, StoppingRetreats, DecayingSwap

\* Failing the record and the fence together keeps the invariant.
LEMMA FailAuditAndLifecycleKeeps ==
    ASSUME ConstantsFit, LifecycleInv, NEW i \in Invocation, FailAuditAndLifecycle(i)
    PROVE  LifecycleInv'
<1> DEFINE next == Ambiguous([Copy(i) EXCEPT !.audit.state = "ambiguous",
                                             !.fence[i] = "ambiguous"])
<1>1. Swaps(i, next) /\ NoOutsideEffect /\ inv[i].pc = "unsealing"
  BY DEF FailAuditAndLifecycle, Transition, Swaps, Bumped, Poison, Copy, At
<1>2. Goto(i, "returned")
  BY DEF FailAuditAndLifecycle, Transition
<1>3. MovesTo(i, {"returned"})
  BY <1>2, GotoMoves DEF LifecycleInv, Pc, Idle
<1>4. run \in Run /\ run.fence[i] \in Undone /\ run.audit.state \in Undone
  BY <1>1 DEF LifecycleInv, TypeOK, FenceFacts, Fenced, DeliveryFacts, Delivers, DeliversOwn
<1>5. Copy(i) = run => DecaysTo(next) /\ Settled(next)
  BY <1>4 DEF DecaysTo, Settled, SameOrUndone, Undone, Ambiguous, Run, Fence, Activity, Terminal
<1> QED
  BY <1>1, <1>3, <1>5, ReturningRetreats, DecayingSwap

\* Failing a redelivery keeps the invariant.
LEMMA FailAuditRetryKeeps ==
    ASSUME ConstantsFit, LifecycleInv, NEW i \in Invocation, FailAuditRetry(i)
    PROVE  LifecycleInv'
<1> DEFINE next == Ambiguous([Copy(i) EXCEPT !.audit.state = "ambiguous"])
<1>1. Swaps(i, next) /\ NoOutsideEffect /\ inv[i].pc = "reopening"
  BY DEF FailAuditRetry, Transition, Swaps, Bumped, Poison, Copy, At
<1>2. Goto(i, "returned")
  BY DEF FailAuditRetry, Transition
<1>3. MovesTo(i, {"returned"})
  BY <1>2, GotoMoves DEF LifecycleInv, Pc, Idle
<1>4. run \in Run /\ run.audit.state \in Undone
  BY <1>1 DEF LifecycleInv, TypeOK, DeliveryFacts, Delivers, DeliversAgain
<1>5. Copy(i) = run => DecaysTo(next) /\ Settled(next)
  BY <1>4 DEF DecaysTo, Settled, SameOrUndone, Undone, Ambiguous, Run, Activity, Terminal
<1> QED
  BY <1>1, <1>3, <1>5, ReturningRetreats, DecayingSwap

\* The terminal status is written where nothing is open, or was there before.
LEMMA FinalizeReceiptKeeps ==
    ASSUME ConstantsFit, LifecycleInv, NEW i \in Invocation, FinalizeReceipt(i)
    PROVE  LifecycleInv'
<1> DEFINE expected == StatusOf(Copy(i).audit.reason)
           next == [Copy(i) EXCEPT !.status = expected]
<1>1. /\ Swaps(i, next)
      /\ \/ run' = run
         \/ Copy(i) = run /\ (run.status = expected \/ MayBecomeTerminal(run))
  BY DEF FinalizeReceipt, Transition, Swaps, Bumped, Poison, Copy
<1>2. NoOutsideEffect /\ Goto(i, "returned")
  BY DEF FinalizeReceipt, Transition
<1>3. MovesTo(i, {"returned"})
  BY <1>2, GotoMoves DEF LifecycleInv, Pc, Idle
<1>4. run \in Run /\ Settled(run)
  BY DEF LifecycleInv, TypeOK
<1>5. Copy(i) = run => next \in Run
  BY <1>4 DEF Run, StatusOf, Terminal
<1>6. CASE run' = run
  BY <1>1, <1>2, <1>3, <1>5, <1>6, SwapFacts, ReturningRetreats, GoesOn DEF LifecycleInv
<1>7. CASE Copy(i) = run /\ (run.status = expected \/ MayBecomeTerminal(run))
  <2>1. DecaysTo(next)
    BY <1>4, <1>5, <1>7 DEF DecaysTo, SameOrUndone, Run
  <2>2. Settled(next)
    BY <1>4, <1>7 DEF Settled, MayBecomeTerminal, Undone, Run
  <2> QED
    BY <1>1, <1>2, <1>3, <2>1, <2>2, ReturningRetreats, DecayingSwap
<1> QED
  BY <1>1, <1>6, <1>7

\* A step of the host that leaves the invocations and the drivers alone.
LEMMA HostDecays ==
    ASSUME ConstantsFit, LifecycleInv, NoOutsideEffect, UNCHANGED <<driver, inv, errors>>,
           NEW next, Written(next), DecaysTo(next), Settled(next)
    PROVE  LifecycleInv'
<1>1. run' \in Run /\ Alike(run', next)
  BY BumpedIsAlike DEF Written, Bumped, DecaysTo
<1>2. DecaysTo(run') /\ Settled(run')
  BY <1>1 DEF Alike, DecaysTo, Settled
<1>3. Housekeeping
  BY DEF LifecycleInv, TypeOK, Housekeeping, DriverTypes, CopiesFollow
<1> QED
  BY <1>2, <1>3, StayingRetreats, DecayKeeps

\* Resuming the run keeps the invariant.
LEMMA ResumeKeeps == ASSUME ConstantsFit, LifecycleInv, Resume PROVE LifecycleInv'
<1> DEFINE next == [run EXCEPT !.status = "running"]
<1>1. run \in Run
  BY DEF LifecycleInv, TypeOK
<1>2. DecaysTo(next) /\ Settled(next)
  BY <1>1 DEF DecaysTo, SameOrUndone, Settled, Run, Terminal
<1> QED
  BY <1>2, HostDecays DEF Resume

\* Cancelling the run keeps the invariant.
LEMMA CancelRunKeeps == ASSUME ConstantsFit, LifecycleInv, CancelRun PROVE LifecycleInv'
<1> DEFINE next == [run EXCEPT !.status = "cancelled"]
<1>1. run \in Run
  BY DEF LifecycleInv, TypeOK
<1>2. DecaysTo(next) /\ Settled(next)
  BY <1>1 DEF CancelRun, MayBecomeTerminal, DecaysTo, SameOrUndone, Settled, Run, Terminal, Undone
<1> QED
  BY <1>2, HostDecays DEF CancelRun

\* Dropping a stream keeps the invariant.
LEMMA DropStreamKeeps ==
    ASSUME ConstantsFit, LifecycleInv, NEW i \in Invocation, DropStream(i) PROVE LifecycleInv'
<1>1. MovesTo(i, {"returned"})
  BY GotoMoves DEF LifecycleInv, DropStream, Pc, Idle
<1> QED
  BY <1>1, ReturningRetreats, MovesAlone DEF DropStream

\* The steps by which an invocation stops keep the invariant.
LEMMA StopsKeep ==
    ASSUME ConstantsFit, LifecycleInv, NEW i \in Invocation,
           StopBeforeRequest(i) \/ StopAfterAnswer(i)
    PROVE  LifecycleInv'
<1>1. MovesTo(i, {"stopping"}) /\ inv[i].pc \in {"asking", "governed"}
  BY StopMoves DEF LifecycleInv, StopBeforeRequest, StopAfterAnswer, Reason, At
<1> QED
  BY <1>1, StoppingRetreats, MovesAlone DEF StopBeforeRequest, StopAfterAnswer

\* Announcing a tool call keeps the invariant.
LEMMA ToolStartedKeeps ==
    ASSUME ConstantsFit, LifecycleInv, NEW i \in Invocation, ToolStarted(i) PROVE LifecycleInv'
<1>1. MovesTo(i, {"executing"}) /\ inv[i].pc = "dispatched"
  BY GotoMoves DEF LifecycleInv, ToolStarted, Pc, At
<1>2. Retreats(i)
  BY <1>1 DEF MovesTo, Retreats, Stays, Fenced, Unsealed, Unfenced, Unannounced, Doing,
                    DeliversOwn, DeliversAgain
<1> QED
  BY <1>1, <1>2, MovesAlone DEF ToolStarted

\* The crash of a process keeps the invariant.
LEMMA CrashKeeps ==
    ASSUME ConstantsFit, LifecycleInv, NEW d \in Driver, Crash(d) PROVE LifecycleInv'
<1>1. inv \in [Invocation -> [pc: Pc, reason: Reason]] /\ driver \in DriverTypes
  BY DEF LifecycleInv, TypeOK, DriverTypes
<1>2. inv' \in [Invocation -> [pc: Pc, reason: Reason]]
  BY <1>1 DEF Crash, Pc, Idle
<1>3. ASSUME NEW j \in Invocation PROVE inv'[j].pc \in {inv[j].pc, "crashed"}
  BY <1>1 DEF Crash
<1>4. ASSUME NEW j \in Invocation PROVE Retreats(j)
  BY <1>3 DEF Retreats, Stays, Fenced, Unsealed, Unfenced, Unannounced, Doing, DeliversOwn,
              DeliversAgain
<1>5. driver' \in DriverTypes /\ CopiesFollow
  <2>1. [driver[d] EXCEPT !.poisoned = TRUE] \in [copy: Run, poisoned: BOOLEAN]
        /\ [driver[d] EXCEPT !.poisoned = TRUE].copy = driver[d].copy
    BY <1>1 DEF DriverTypes
  <2>2. driver' = [driver EXCEPT ![d] = [@ EXCEPT !.poisoned = TRUE]]
    BY DEF Crash
  <2> QED
    BY <1>1, <2>1, <2>2 DEF DriverTypes, CopiesFollow
<1> QED
  BY <1>2, <1>4, <1>5, Yields DEF Crash, Housekeeping, LifecycleInv, TypeOK

\* Opening a driver keeps the invariant.
LEMMA OpenDriverKeeps ==
    ASSUME ConstantsFit, LifecycleInv, NEW d \in Driver, OpenDriver(d) PROVE LifecycleInv'
<1>1. driver' \in DriverTypes /\ CopiesFollow
  BY DEF OpenDriver, LifecycleInv, TypeOK, DriverTypes, CopiesFollow
<1> QED
  BY <1>1, StayingRetreats, Yields DEF OpenDriver, Housekeeping, LifecycleInv, TypeOK

-----------------------------------------------------------------------------
(* Records at the sink, and effects. *)

\* Only RunStarted records and the place of i change.
LEMMA EmitRunStartedKeeps ==
    ASSUME ConstantsFit, LifecycleInv, NEW i \in Invocation, EmitRunStarted(i)
    PROVE  LifecycleInv'
<1>1. /\ inv[i].pc = "starting" /\ started[i] = 0
      /\ started \in [Invocation -> Nat] /\ FenceFacts(i)
  BY DEF EmitRunStarted, At, LifecycleInv, TypeOK, FenceFacts, Unannounced
<1>2. started' \in {started, [started EXCEPT ![i] = 1]} /\ errors' \in 0..MaxFaults
  BY <1>1 DEF EmitRunStarted, Emit, ConstantsFit, LifecycleInv, TypeOK
<1>3. UNCHANGED <<run, driver, stopped, byHand, effects>>
  BY DEF EmitRunStarted
<1>4. MovesTo(i, {"asking", "unstarted"})
  BY GotoMoves DEF EmitRunStarted, Emit, LifecycleInv, Pc, MovesTo
<1>5. /\ started' \in [Invocation -> Nat] /\ started'[i] \in {0, 1}
      /\ \A j \in Invocation \ {i} : started'[j] = started[j]
  BY <1>1, <1>2
<1>6. TypeOK'
  BY <1>2, <1>3, <1>4, <1>5 DEF LifecycleInv, TypeOK, MovesTo
<1>7. AuditFacts' /\ Settled(run') /\ \A s \in Step : EffectFacts(s)'
  BY <1>3 DEF LifecycleInv, AuditFacts, EffectFacts
<1>8. FenceFacts(i)'
  BY <1>1, <1>3, <1>4, <1>5
  DEF FenceFacts, MovesTo, Unannounced, Unfenced, Unsealed, Fenced, Undone, Doing, DeliversOwn
<1>9. \A j \in Invocation \ {i} : FenceFacts(j)'
  BY <1>3, <1>4, <1>5 DEF LifecycleInv, FenceFacts, MovesTo
<1>10. \A j \in Invocation : DeliveryFacts(j)'
  BY <1>3, <1>4 DEF LifecycleInv, DeliveryFacts, MovesTo, Copy, Delivers, DeliversOwn, DeliversAgain
<1>11. \A j \in Invocation : AttemptFacts(j)'
  BY <1>3, <1>4 DEF LifecycleInv, AttemptFacts, MovesTo, StepOf, Doing
<1> QED
  BY <1>6, <1>7, <1>8, <1>9, <1>10, <1>11 DEF LifecycleInv

\* RunStopped of the span of k is sent, for the first time, by i.
Sends(i, k, Accepted, Rejected) ==
    /\ UNCHANGED <<run, driver, started, byHand, effects>>
    /\ stopped[k] = 0 /\ stopped' \in {stopped, [stopped EXCEPT ![k] = 1]}
    /\ errors' \in 0..MaxFaults
    /\ \/ MovesTo(i, Accepted) /\ stopped' = [stopped EXCEPT ![k] = 1]
       \/ MovesTo(i, Rejected)

\* An emission of RunStopped reaches the sink or is reported as an error.
LEMMA EmissionSends ==
    ASSUME ConstantsFit, TypeOK, NEW i \in Invocation, NEW k \in Invocation, stopped[k] = 0,
           NEW accepted \in Pc, NEW rejected \in Pc,
           Emit(stopped, k, Goto(i, accepted), Goto(i, rejected)),
           UNCHANGED <<run, driver, started, byHand, effects>>
    PROVE  Sends(i, k, {accepted}, {rejected})
<1>1. errors' \in 0..MaxFaults
  BY DEF Emit, TypeOK, ConstantsFit
<1>2. stopped' \in {stopped, [stopped EXCEPT ![k] = 1]}
  BY DEF Emit
<1>3. \/ Goto(i, accepted) /\ stopped' = [stopped EXCEPT ![k] = 1]
      \/ Goto(i, rejected)
  BY DEF Emit
<1> QED
  BY <1>1, <1>2, <1>3, GotoMoves DEF Sends

\* Sending RunStopped without a record keeps the invariant.
LEMMA EmitDirectKeeps ==
    ASSUME ConstantsFit, LifecycleInv, NEW i \in Invocation, EmitDirect(i)
    PROVE  LifecycleInv'
<1>1. inv[i].pc = "stopping" /\ FenceFacts(i) /\ TypeOK
  BY DEF EmitDirect, At, LifecycleInv
<1>2. stopped[i] = 0 /\ run.audit.by # i /\ stopped \in [Invocation -> Nat]
  BY <1>1 DEF FenceFacts, Unsealed, TypeOK
<1>3. Sends(i, i, {"returned"}, {"returned"})
  BY <1>1, <1>2, EmissionSends DEF EmitDirect, Pc, Idle
<1>4. /\ UNCHANGED <<run, driver, started, byHand, effects>> /\ errors' \in 0..MaxFaults
      /\ MovesTo(i, {"returned"}) /\ stopped' \in {stopped, [stopped EXCEPT ![i] = 1]}
  BY <1>3 DEF Sends
<1>5. /\ stopped' \in [Invocation -> Nat] /\ stopped'[i] \in {0, 1}
      /\ \A j \in Invocation \ {i} : stopped'[j] = stopped[j]
  BY <1>2, <1>4
<1>6. TypeOK'
  BY <1>1, <1>4, <1>5 DEF TypeOK, MovesTo
<1>7. AuditFacts' /\ Settled(run') /\ \A s \in Step : EffectFacts(s)'
  BY <1>2, <1>4, <1>5 DEF LifecycleInv, AuditFacts, EffectFacts
<1>8. FenceFacts(i)'
  BY <1>1, <1>4, <1>5
  DEF FenceFacts, MovesTo, Unannounced, Unfenced, Unsealed, Fenced, Undone, Doing, DeliversOwn
<1>9. \A j \in Invocation \ {i} : FenceFacts(j)'
  BY <1>4, <1>5 DEF LifecycleInv, FenceFacts, MovesTo
<1>10. ASSUME NEW j \in Invocation PROVE DeliveryFacts(j)'
  <2>1. inv'[j].pc \in Delivers => j # i /\ run.audit.by \in Invocation \ {i}
    BY <1>2, <1>4
    DEF LifecycleInv, DeliveryFacts, AuditFacts, MovesTo, Delivers, DeliversOwn, DeliversAgain,
        Undone
  <2> QED
    BY <1>4, <1>5, <2>1
    DEF LifecycleInv, DeliveryFacts, MovesTo, Copy, Delivers, DeliversOwn, DeliversAgain
<1>11. \A j \in Invocation : AttemptFacts(j)'
  BY <1>4 DEF LifecycleInv, AttemptFacts, MovesTo, StepOf, Doing
<1> QED
  BY <1>6, <1>7, <1>8, <1>9, <1>10, <1>11 DEF LifecycleInv

\* A delivery that the terminal audit record announced.
LEMMA DeliveryKeeps ==
    ASSUME ConstantsFit, LifecycleInv, NEW i \in Invocation, NEW k \in Invocation,
           k = run.audit.by,
           \/ /\ inv[i].pc = "emitting" /\ k = i
              /\ Sends(i, k, {"sealing"}, {"unsealing"})
           \/ /\ inv[i].pc = "reemitting"
              /\ Sends(i, k, {"resealing"}, {"reopening"})
    PROVE  LifecycleInv'
<1>1. /\ inv[i].pc \in {"emitting", "reemitting"} /\ inv[i].pc \in Delivers
      /\ DeliveryFacts(i) /\ TypeOK
  BY DEF LifecycleInv, Delivers, DeliversOwn, DeliversAgain
<1>2. /\ UNCHANGED <<run, driver, started, byHand, effects>> /\ errors' \in 0..MaxFaults
      /\ stopped[k] = 0 /\ stopped' \in {stopped, [stopped EXCEPT ![k] = 1]}
  BY DEF Sends
<1>3. \/ /\ inv[i].pc = "emitting" /\ k = i
         /\ MovesTo(i, {"sealing", "unsealing"})
      \/ /\ inv[i].pc = "reemitting"
         /\ MovesTo(i, {"resealing", "reopening"})
  BY DEF Sends, MovesTo
<1>4. /\ stopped' \in [Invocation -> Nat] /\ stopped'[k] \in {0, 1}
      /\ \A j \in Invocation \ {k} : stopped'[j] = stopped[j]
  BY <1>1, <1>2 DEF TypeOK
<1>5. inv'[i].pc \in {"sealing", "resealing"} => stopped'[k] = 1
  BY <1>1, <1>2 DEF Sends, MovesTo, TypeOK
<1>6. TypeOK'
  BY <1>1, <1>2, <1>3, <1>4 DEF TypeOK, MovesTo
<1>7. run.audit.state \in Undone /\ \A j \in Invocation : inv[j].pc \in Delivers => j = i
  BY <1>1 DEF DeliveryFacts
<1>8. AuditFacts' /\ Settled(run') /\ \A s \in Step : EffectFacts(s)'
  BY <1>2, <1>7 DEF LifecycleInv, AuditFacts, EffectFacts, Undone
<1>9. ASSUME NEW j \in Invocation PROVE FenceFacts(j)'
  <2>1. FenceFacts(j) /\ (inv[j].pc \in Unsealed => j # k)
    BY DEF LifecycleInv, FenceFacts
  <2>2. CASE j = i
    BY <1>2, <1>3, <1>4, <2>1, <2>2
    DEF FenceFacts, MovesTo, Unannounced, Unfenced, Unsealed, Fenced, Doing, DeliversOwn
  <2>3. CASE j # i
    BY <1>2, <1>3, <1>4, <2>1, <2>3 DEF FenceFacts, MovesTo
  <2> QED
    BY <2>2, <2>3
<1>10. ASSUME NEW j \in Invocation PROVE DeliveryFacts(j)'
  <2>1. CASE j = i
    <3>1. \A l \in Invocation : inv'[l].pc \in Delivers => l = i
      BY <1>3, <1>7 DEF MovesTo
    <3> QED
      BY <1>1, <1>2, <1>3, <1>5, <1>7, <2>1, <3>1
      DEF DeliveryFacts, MovesTo, Copy, Delivers, DeliversOwn, DeliversAgain
  <2>2. CASE j # i
    <3>1. inv'[j].pc \notin Delivers
      BY <1>3, <1>7, <2>2 DEF MovesTo
    <3> QED
      BY <3>1 DEF DeliveryFacts, Delivers, DeliversOwn, DeliversAgain
  <2> QED
    BY <2>1, <2>2
<1>11. \A j \in Invocation : AttemptFacts(j)'
  BY <1>2, <1>3 DEF LifecycleInv, AttemptFacts, MovesTo, StepOf, Doing
<1> QED
  BY <1>6, <1>8, <1>9, <1>10, <1>11 DEF LifecycleInv

\* Closing the span at the sink keeps the invariant.
LEMMA EmitRunStoppedKeeps ==
    ASSUME ConstantsFit, LifecycleInv, NEW i \in Invocation, EmitRunStopped(i)
    PROVE  LifecycleInv'
<1>1. inv[i].pc = "emitting" /\ run.audit.by = i /\ stopped[i] = 0 /\ TypeOK
  BY DEF EmitRunStopped, At, LifecycleInv, DeliveryFacts, DeliversOwn
<1>2. Sends(i, i, {"sealing"}, {"unsealing"})
  BY <1>1, EmissionSends DEF EmitRunStopped, Pc
<1> QED
  BY <1>1, <1>2, DeliveryKeeps

\* Redelivering the terminal record keeps the invariant.
LEMMA EmitRetryKeeps ==
    ASSUME ConstantsFit, LifecycleInv, NEW i \in Invocation, EmitRetry(i)
    PROVE  LifecycleInv'
<1> DEFINE k == run.audit.by
<1>1. /\ inv[i].pc = "reemitting" /\ Copy(i).audit.by = k /\ stopped[k] = 0 /\ TypeOK
      /\ run.audit.state \in Undone
  BY DEF EmitRetry, At, LifecycleInv, DeliveryFacts, DeliversAgain, Delivers
<1>2. k \in Invocation
  BY <1>1 DEF LifecycleInv, AuditFacts, Undone
<1>3. Sends(i, k, {"resealing"}, {"reopening"})
  BY <1>1, <1>2, EmissionSends DEF EmitRetry, Pc
<1> QED
  BY <1>1, <1>2, <1>3, DeliveryKeeps

\* The one that works on the attempt lets its effect happen.
LEMMA TakesEffectKeeps ==
    ASSUME ConstantsFit, LifecycleInv, NEW i \in Invocation,
           ProviderAnswers(i) \/ ToolExecutes(i)
    PROVE  LifecycleInv'
<1>1. PICK s \in Step, pc \in {"answered", "executed"} :
          /\ TakesEffect(i, s, pc) /\ StepOf(i) = s
          /\ inv[i].pc \in {"streaming", "executing"}
          /\ (pc = "answered") <=> (inv[i].pc = "streaming")
  BY DEF ProviderAnswers, ToolExecutes, StepOf, Step, At
<1>2. /\ TypeOK /\ effects \in [Step -> Nat] /\ inv[i].pc \in Doing
  BY <1>1 DEF LifecycleInv, TypeOK, Doing
<1>3. MovesTo(i, {pc})
  BY <1>1, <1>2, GotoMoves DEF TakesEffect, Pc
<1>4. /\ UNCHANGED <<run, driver, started, stopped, byHand, errors>>
      /\ effects' = [effects EXCEPT ![s] = @ + 1]
  BY <1>1 DEF TakesEffect
<1>5. /\ effects[s] = 0 /\ run.activity[s] \in Undone
      /\ \A j \in Invocation : inv[j].pc \in Doing /\ StepOf(j) = s => j = i
  BY <1>1, <1>2 DEF LifecycleInv, AttemptFacts
<1>6. effects' \in [Step -> Nat] /\ effects'[s] = 1
      /\ \A t \in Step \ {s} : effects'[t] = effects[t]
  BY <1>2, <1>4, <1>5
<1>7. TypeOK'
  BY <1>2, <1>3, <1>4, <1>6 DEF TypeOK, MovesTo
<1>8. AuditFacts' /\ Settled(run')
  BY <1>4 DEF LifecycleInv, AuditFacts
<1>9. \A t \in Step : EffectFacts(t)'
  BY <1>4, <1>5, <1>6 DEF LifecycleInv, EffectFacts, Undone
<1>10. ASSUME NEW j \in Invocation PROVE FenceFacts(j)' /\ DeliveryFacts(j)'
  <2>1. FenceFacts(j) /\ \A l \in Invocation : DeliveryFacts(l)
    BY DEF LifecycleInv
  <2> QED
    BY <1>1, <1>3, <1>4, <2>1
    DEF FenceFacts, DeliveryFacts, MovesTo, Copy, Unannounced, Unfenced, Unsealed, Fenced, Doing,
        Delivers, DeliversOwn, DeliversAgain
<1>11. ASSUME NEW j \in Invocation PROVE AttemptFacts(j)'
  <2>1. \A l \in Invocation : /\ (inv'[l].pc \in Doing) <=> (inv[l].pc \in Doing)
                              /\ StepOf(l)' = StepOf(l) /\ StepOf(l) \in Step
    BY <1>1, <1>2, <1>3 DEF MovesTo, StepOf, Doing, Step
  <2>2. AttemptFacts(j)
    BY DEF LifecycleInv
  <2>3. inv'[j].pc \in {"streaming", "dispatched", "executing"} =>
            /\ j # i /\ inv'[j] = inv[j] /\ inv[j].pc \in Doing
    BY <1>3 DEF MovesTo, Doing
  <2>4. inv'[j].pc \in {"streaming", "dispatched", "executing"} => effects'[StepOf(j)] = 0
    BY <1>5, <1>6, <2>1, <2>2, <2>3 DEF AttemptFacts
  <2> QED
    BY <1>4, <2>1, <2>2, <2>4 DEF AttemptFacts
<1> QED
  BY <1>7, <1>8, <1>9, <1>10, <1>11 DEF LifecycleInv

-----------------------------------------------------------------------------
(* Transitions that open or decide something. *)

\* What is known after a transition of i that has to do with next.
LEMMA SwapTypes ==
    ASSUME ConstantsFit, LifecycleInv, NEW i \in Invocation, NEW next, Swaps(i, next),
           Copy(i) = run => next \in Run, NEW pcs, MovesTo(i, pcs)
    PROVE  /\ run' \in Run /\ run \in Run /\ Housekeeping
           /\ driver' \in DriverTypes /\ CopiesFollow /\ errors' \in 0..MaxFaults
BY SwapFacts DEF LifecycleInv, TypeOK, MovesTo, Housekeeping

\* The terminal audit record announces RunStopped of i.
LEMMA BeginRunStoppedAuditKeeps ==
    ASSUME ConstantsFit, LifecycleInv, NEW i \in Invocation, BeginRunStoppedAudit(i)
    PROVE  LifecycleInv'
<1> DEFINE next == [Copy(i) EXCEPT !.audit = [state |-> "running", by |-> i,
                                              reason |-> inv[i].reason]]
<1>1. Swaps(i, next) /\ NoOutsideEffect /\ inv[i].pc = "stopping"
  BY DEF BeginRunStoppedAudit, Transition, Swaps, Bumped, Poison, Copy, At
<1>2. \/ run' = run /\ Goto(i, "returned")
      \/ /\ Copy(i) = run /\ run' \in {next, Bumped(next)}
         /\ run.status = "running" /\ run.audit.state = "none"
         /\ Goto(i, "emitting") \/ Goto(i, "returned")
  BY DEF BeginRunStoppedAudit, Transition, Copy, Bumped
<1>3. run \in Run /\ inv[i].reason \in Reason /\ FenceFacts(i) /\ Settled(run)
  BY DEF LifecycleInv, TypeOK
<1>4. Copy(i) = run => next \in Run
  BY <1>3 DEF Run, Activity
<1>5. MovesTo(i, {"emitting", "returned"})
  BY <1>2, GotoMoves DEF LifecycleInv, Pc, Idle, MovesTo
<1>6. run' \in Run /\ Housekeeping /\ driver' \in DriverTypes /\ CopiesFollow
      /\ errors' \in 0..MaxFaults
  BY <1>1, <1>4, <1>5, SwapTypes
<1>7. CASE run' = run /\ Goto(i, "returned")
  <2>1. MovesTo(i, {"returned"})
    BY <1>7, GotoMoves DEF LifecycleInv, Pc, Idle
  <2> QED
    BY <1>1, <1>6, <1>7, <2>1, ReturningRetreats, GoesOn
<1>8. CASE /\ Copy(i) = run /\ run' \in {next, Bumped(next)}
           /\ run.status = "running" /\ run.audit.state = "none"
  <2>1. /\ run'.status = "running" /\ run'.fence = run.fence /\ run'.activity = run.activity
        /\ run'.audit.state = "running" /\ run'.audit.by = i
    BY <1>3, <1>4, <1>8, BumpedIsAlike DEF Alike, Run
  <2>2. stopped[i] = 0 /\ run.fence[i] \in Undone
    BY <1>1, <1>3 DEF FenceFacts, Unsealed, Fenced, Unfenced, Unannounced
  <2>3. run.audit.state = "none" /\ \A j \in Invocation : inv[j].pc \notin Delivers
    BY <1>8 DEF LifecycleInv, DeliveryFacts, Undone
  <2>4. Spares(i)
    BY <2>1, <2>3 DEF Spares, SameOrUndone, Undone
  <2>5. AuditFacts' /\ Settled(run') /\ \A s \in Step : EffectFacts(s)'
    BY <1>1, <2>1 DEF LifecycleInv, AuditFacts, Settled, Terminal, EffectFacts, NoOutsideEffect
  <2>6. FenceFacts(i)'
    BY <1>1, <1>3, <1>5, <2>1, <2>2
    DEF FenceFacts, NoOutsideEffect, MovesTo, Fenced, Unsealed, Unfenced, Unannounced, Doing,
        DeliversOwn, Undone
  <2>7. DeliveryFacts(i)'
    BY <1>1, <1>5, <2>1, <2>2, <2>3
    DEF DeliveryFacts, NoOutsideEffect, MovesTo, Delivers, DeliversOwn, DeliversAgain, Undone
  <2>8. AttemptFacts(i)'
    BY <1>5 DEF AttemptFacts, MovesTo, Doing
  <2> QED
    BY <1>1, <1>5, <1>6, <2>4, <2>5, <2>6, <2>7, <2>8, Writes DEF MovesTo
<1> QED
  BY <1>2, <1>7, <1>8

\* RunStopped was accepted: receipt and fence are completed together.
LEMMA CompleteAuditAndLifecycleKeeps ==
    ASSUME ConstantsFit, LifecycleInv, NEW i \in Invocation, CompleteAuditAndLifecycle(i)
    PROVE  LifecycleInv'
<1> DEFINE next == [Copy(i) EXCEPT !.audit.state = "completed", !.fence[i] = "closed"]
<1>1. Swaps(i, next) /\ NoOutsideEffect /\ inv[i].pc = "sealing"
  BY DEF CompleteAuditAndLifecycle, Transition, Swaps, Bumped, Poison, Copy, At
<1>2. \/ run' = run /\ Goto(i, "returned")
      \/ /\ Copy(i) = run /\ run' \in {next, Bumped(next)}
         /\ Goto(i, "finalizing") \/ Goto(i, "returned")
  BY DEF CompleteAuditAndLifecycle, Transition, Copy, Bumped
<1>3. run \in Run /\ FenceFacts(i) /\ DeliveryFacts(i) /\ Settled(run)
  BY DEF LifecycleInv, TypeOK
<1>4. Copy(i) = run => next \in Run
  BY <1>3 DEF Run, Activity, Fence
<1>5. MovesTo(i, {"finalizing", "returned"})
  BY <1>2, GotoMoves DEF LifecycleInv, Pc, Idle, MovesTo
<1>6. run' \in Run /\ Housekeeping /\ driver' \in DriverTypes /\ CopiesFollow
      /\ errors' \in 0..MaxFaults
  BY <1>1, <1>4, <1>5, SwapTypes
<1>7. CASE run' = run /\ Goto(i, "returned")
  <2>1. MovesTo(i, {"returned"})
    BY <1>7, GotoMoves DEF LifecycleInv, Pc, Idle
  <2> QED
    BY <1>1, <1>6, <1>7, <2>1, ReturningRetreats, GoesOn
<1>8. CASE Copy(i) = run /\ run' \in {next, Bumped(next)}
  <2>1. /\ run'.status = run.status /\ run'.activity = run.activity
        /\ run'.fence = [run.fence EXCEPT ![i] = "closed"]
        /\ run'.audit.state = "completed" /\ run'.audit.by = run.audit.by
    <3>1. Alike(run', [run EXCEPT !.audit.state = "completed", !.fence[i] = "closed"])
      BY <1>3, <1>4, <1>8, BumpedIsAlike DEF Alike
    <3> QED
      BY <1>3, <3>1 DEF Alike, Run
  <2>2. /\ stopped[i] = 1 /\ run.audit.by = i /\ inv[i].pc \in Delivers
        /\ run.audit.state \in Undone /\ run.fence \in [Invocation -> Fence]
        /\ started[i] <= 1
    BY <1>1, <1>3 DEF FenceFacts, DeliveryFacts, Delivers, DeliversOwn, Run
  <2>3. /\ run'.fence[i] = "closed"
        /\ \A j \in Invocation \ {i} : run'.fence[j] = run.fence[j]
    BY <2>1, <2>2
  <2>4. Spares(i)
    BY <2>1, <2>2, <2>3 DEF Spares, SameOrUndone, Undone
  <2>5. AuditFacts' /\ Settled(run') /\ \A s \in Step : EffectFacts(s)'
    BY <1>1, <1>3, <2>1, <2>2, <2>3
    DEF LifecycleInv, AuditFacts, Settled, Undone, EffectFacts, NoOutsideEffect
  <2>6. FenceFacts(i)'
    BY <1>1, <1>5, <2>1, <2>2, <2>3
    DEF FenceFacts, NoOutsideEffect, MovesTo, Fenced, Unsealed, Unfenced, Unannounced, Doing,
        DeliversOwn
  <2>7. DeliveryFacts(i)' /\ AttemptFacts(i)'
    BY <1>5
    DEF DeliveryFacts, AttemptFacts, MovesTo, Delivers, DeliversOwn, DeliversAgain, Doing
  <2> QED
    BY <1>1, <1>5, <1>6, <2>4, <2>5, <2>6, <2>7, Writes DEF MovesTo
<1> QED
  BY <1>2, <1>7, <1>8

\* An operator found that RunStopped never arrived; it is announced again.
LEMMA BeginAuditRetryKeeps ==
    ASSUME ConstantsFit, LifecycleInv, NEW i \in Invocation, BeginAuditRetry(i)
    PROVE  LifecycleInv'
<1> DEFINE next == [Copy(i) EXCEPT !.audit.state = "running"]
<1>1. Swaps(i, next) /\ NoOutsideEffect /\ inv[i].pc = "retrying"
  BY DEF BeginAuditRetry, Transition, Swaps, Bumped, Poison, Copy, At
<1>2. \/ run' = run /\ Goto(i, "returned")
      \/ /\ Copy(i) = run /\ run' \in {next, Bumped(next)}
         /\ run.status = "running" /\ run.audit.state = "retryable"
         /\ Goto(i, "reemitting") \/ Goto(i, "returned")
  BY DEF BeginAuditRetry, Transition, Copy, Bumped
<1>3. run \in Run /\ FenceFacts(i) /\ AuditFacts
  BY DEF LifecycleInv, TypeOK
<1>4. Copy(i) = run => next \in Run
  BY <1>3 DEF Run, Activity
<1>5. MovesTo(i, {"reemitting", "returned"})
  BY <1>2, GotoMoves DEF LifecycleInv, Pc, Idle, MovesTo
<1>6. run' \in Run /\ Housekeeping /\ driver' \in DriverTypes /\ CopiesFollow
      /\ errors' \in 0..MaxFaults
  BY <1>1, <1>4, <1>5, SwapTypes
<1>7. CASE run' = run /\ Goto(i, "returned")
  <2>1. MovesTo(i, {"returned"})
    BY <1>7, GotoMoves DEF LifecycleInv, Pc, Idle
  <2> QED
    BY <1>1, <1>6, <1>7, <2>1, ReturningRetreats, GoesOn
<1>8. CASE /\ Copy(i) = run /\ run' \in {next, Bumped(next)}
           /\ run.status = "running" /\ run.audit.state = "retryable"
  <2>1. /\ run'.status = "running" /\ run'.activity = run.activity /\ run'.fence = run.fence
        /\ run'.audit.state = "running" /\ run'.audit.by = run.audit.by
    BY <1>3, <1>4, <1>8, BumpedIsAlike DEF Alike, Run
  <2>2. /\ stopped[run.audit.by] = 0 /\ run.audit.by \in Invocation
        /\ run.audit.state = "retryable"
        /\ \A j \in Invocation : inv[j].pc \notin Delivers
    BY <1>3, <1>8 DEF AuditFacts, LifecycleInv, DeliveryFacts, Undone
  <2>3. Spares(i)
    BY <2>1, <2>2 DEF Spares, SameOrUndone, Undone
  <2>4. AuditFacts' /\ Settled(run') /\ \A s \in Step : EffectFacts(s)'
    BY <1>1, <2>1, <2>2
    DEF LifecycleInv, AuditFacts, Settled, Terminal, EffectFacts, NoOutsideEffect
  <2>5. FenceFacts(i)'
    BY <1>1, <1>3, <1>5, <2>1, <2>2
    DEF FenceFacts, NoOutsideEffect, MovesTo, Fenced, Unsealed, Unfenced, Unannounced, Doing,
        DeliversOwn
  <2>6. Copy(i)' \in {run, run'}
    BY <1>6, <1>8 DEF CopiesFollow, ConstantsFit, Copy
  <2>7. DeliveryFacts(i)'
    BY <1>1, <1>5, <2>1, <2>2, <2>6
    DEF DeliveryFacts, NoOutsideEffect, MovesTo, Delivers, DeliversOwn, DeliversAgain, Undone
  <2>8. AttemptFacts(i)'
    BY <1>5 DEF AttemptFacts, MovesTo, Doing
  <2> QED
    BY <1>1, <1>5, <1>6, <2>3, <2>4, <2>5, <2>7, <2>8, Writes DEF MovesTo
<1> QED
  BY <1>2, <1>7, <1>8

\* Recording a redelivery keeps the invariant.
LEMMA CompleteAuditRetryKeeps ==
    ASSUME ConstantsFit, LifecycleInv, NEW i \in Invocation, CompleteAuditRetry(i)
    PROVE  LifecycleInv'
<1> DEFINE next == [Copy(i) EXCEPT !.audit.state = "completed"]
<1>1. Swaps(i, next) /\ NoOutsideEffect /\ inv[i].pc = "resealing"
  BY DEF CompleteAuditRetry, Transition, Swaps, Bumped, Poison, Copy, At
<1>2. \/ run' = run /\ Goto(i, "returned")
      \/ /\ Copy(i) = run /\ run' \in {next, Bumped(next)}
         /\ Goto(i, "finalizing") \/ Goto(i, "returned")
  BY DEF CompleteAuditRetry, Transition, Copy, Bumped
<1>3. run \in Run /\ FenceFacts(i) /\ DeliveryFacts(i) /\ Settled(run)
  BY DEF LifecycleInv, TypeOK
<1>4. Copy(i) = run => next \in Run
  BY <1>3 DEF Run, Activity
<1>5. MovesTo(i, {"finalizing", "returned"})
  BY <1>2, GotoMoves DEF LifecycleInv, Pc, Idle, MovesTo
<1>6. run' \in Run /\ Housekeeping /\ driver' \in DriverTypes /\ CopiesFollow
      /\ errors' \in 0..MaxFaults
  BY <1>1, <1>4, <1>5, SwapTypes
<1>7. CASE run' = run /\ Goto(i, "returned")
  <2>1. MovesTo(i, {"returned"})
    BY <1>7, GotoMoves DEF LifecycleInv, Pc, Idle
  <2> QED
    BY <1>1, <1>6, <1>7, <2>1, ReturningRetreats, GoesOn
<1>8. CASE Copy(i) = run /\ run' \in {next, Bumped(next)}
  <2>1. /\ run'.status = run.status /\ run'.activity = run.activity /\ run'.fence = run.fence
        /\ run'.audit.state = "completed" /\ run'.audit.by = run.audit.by
    BY <1>3, <1>4, <1>8, BumpedIsAlike DEF Alike, Run
  <2>2. /\ stopped[run.audit.by] = 1 /\ inv[i].pc \in Delivers
        /\ run.audit.state \in Undone
    BY <1>1, <1>3 DEF DeliveryFacts, Delivers, DeliversAgain
  <2>3. Spares(i)
    BY <2>1, <2>2 DEF Spares, SameOrUndone, Undone
  <2>4. AuditFacts' /\ Settled(run') /\ \A s \in Step : EffectFacts(s)'
    BY <1>1, <1>3, <2>1, <2>2
    DEF LifecycleInv, AuditFacts, Settled, Undone, EffectFacts, NoOutsideEffect
  <2>5. FenceFacts(i)'
    BY <1>1, <1>3, <1>5, <2>1
    DEF FenceFacts, NoOutsideEffect, MovesTo, Fenced, Unsealed, Unfenced, Unannounced, Doing,
        DeliversOwn
  <2>6. DeliveryFacts(i)' /\ AttemptFacts(i)'
    BY <1>5
    DEF DeliveryFacts, AttemptFacts, MovesTo, Delivers, DeliversOwn, DeliversAgain, Doing
  <2> QED
    BY <1>1, <1>5, <1>6, <2>3, <2>4, <2>5, <2>6, Writes DEF MovesTo
<1> QED
  BY <1>2, <1>7, <1>8

\* The fence of i opens before RunStarted may be sent.
LEMMA BeginInvocationLifecycleKeeps ==
    ASSUME ConstantsFit, LifecycleInv, NEW i \in Invocation, BeginInvocationLifecycle(i)
    PROVE  LifecycleInv'
<1> DEFINE next == [Copy(i) EXCEPT !.fence[i] = "running"]
<1>1. Swaps(i, next) /\ NoOutsideEffect /\ inv[i].pc = "fencing"
  BY DEF BeginInvocationLifecycle, Transition, Swaps, Bumped, Poison, Copy, At
<1>2. \/ run' = run /\ Goto(i, "returned")
      \/ /\ Copy(i) = run /\ run' \in {next, Bumped(next)} /\ run.status = "running"
         /\ Goto(i, "rechecking") \/ Goto(i, "returned")
  BY DEF BeginInvocationLifecycle, Transition, Copy, Bumped
<1>3. run \in Run /\ FenceFacts(i)
  BY DEF LifecycleInv, TypeOK
<1>4. Copy(i) = run => next \in Run
  BY <1>3 DEF Run, Fence
<1>5. MovesTo(i, {"rechecking", "returned"})
  BY <1>2, GotoMoves DEF LifecycleInv, Pc, Idle, MovesTo
<1>6. run' \in Run /\ Housekeeping /\ driver' \in DriverTypes /\ CopiesFollow
      /\ errors' \in 0..MaxFaults
  BY <1>1, <1>4, <1>5, SwapTypes
<1>7. CASE run' = run /\ Goto(i, "returned")
  <2>1. MovesTo(i, {"returned"})
    BY <1>7, GotoMoves DEF LifecycleInv, Pc, Idle
  <2> QED
    BY <1>1, <1>6, <1>7, <2>1, ReturningRetreats, GoesOn
<1>8. CASE Copy(i) = run /\ run' \in {next, Bumped(next)} /\ run.status = "running"
  <2>1. Alike(run', [run EXCEPT !.fence[i] = "running"]) /\ run.status = "running"
    BY <1>3, <1>4, <1>8, BumpedIsAlike DEF Alike
  <2>2. /\ run'.status = "running" /\ run'.activity = run.activity /\ run'.audit = run.audit
        /\ run'.fence[i] = "running"
        /\ \A j \in Invocation \ {i} : run'.fence[j] = run.fence[j]
    BY <1>3, <2>1 DEF Alike, Run
  <2>3. started[i] = 0 /\ stopped[i] = 0 /\ run.audit.by # i
    BY <1>1, <1>3 DEF FenceFacts, Unfenced, Unannounced, Unsealed
  <2>4. Spares(i)
    BY <2>2 DEF Spares, SameOrUndone
  <2>5. AuditFacts' /\ Settled(run') /\ \A s \in Step : EffectFacts(s)'
    BY <1>1, <2>2 DEF LifecycleInv, AuditFacts, Settled, Terminal, EffectFacts, NoOutsideEffect
  <2>6. FenceFacts(i)'
    BY <1>1, <1>5, <2>2, <2>3
    DEF FenceFacts, NoOutsideEffect, MovesTo, Unfenced, Undone
  <2>7. DeliveryFacts(i)' /\ AttemptFacts(i)'
    BY <1>5
    DEF DeliveryFacts, AttemptFacts, MovesTo, Delivers, DeliversOwn, DeliversAgain, Doing
  <2> QED
    BY <1>1, <1>5, <1>6, <2>4, <2>5, <2>6, <2>7, Writes DEF MovesTo
<1> QED
  BY <1>2, <1>7, <1>8

\* What was not begun or may be tried again is begun; a record is reused.
LEMMA BeginActivityKeeps ==
    ASSUME ConstantsFit, LifecycleInv, NEW i \in Invocation,
           BeginProvider(i) \/ BeginTool(i)
    PROVE  LifecycleInv'
<1>1. PICK s \in Step, executes \in {"streaming", "dispatched"}, reuses \in {"governed", "stopping"} :
          /\ BeginActivity(i, s, executes, reuses)
          /\ (s = "provider") <=> (executes = "streaming")
          /\ inv[i].pc \in {"asking", "governed"}
  BY DEF BeginProvider, BeginTool, At, Step
<1> DEFINE next == [Copy(i) EXCEPT !.activity[s] = "running"]
<1>2. NoOutsideEffect
  BY DEF BeginProvider, BeginTool
<1>3. Swaps(i, next)
  BY <1>1 DEF BeginActivity, Transition, Swaps, Bumped, Poison, Copy
<1>4. \/ run' = run /\ (Goto(i, reuses) \/ StopBecause(i, "failure"))
      \/ /\ Copy(i) = run /\ run' \in {next, Bumped(next)}
         /\ run.status = "running" /\ run.activity[s] \in {"none", "retryable"}
         /\ Goto(i, executes) \/ StopBecause(i, "failure")
  BY <1>1 DEF BeginActivity, Transition, Copy, Bumped
<1>5. run \in Run /\ FenceFacts(i) /\ TypeOK /\ executes \in Pc /\ reuses \in Pc
      /\ "failure" \in Reason
  BY DEF LifecycleInv, TypeOK, Pc, Reason
<1>6. Copy(i) = run => next \in Run
  BY <1>5 DEF Run, Activity
<1>7. MovesTo(i, {executes, reuses, "stopping"})
  BY <1>4, <1>5, GotoMoves, StopMoves DEF MovesTo
<1>8. run' \in Run /\ Housekeeping /\ driver' \in DriverTypes /\ CopiesFollow
      /\ errors' \in 0..MaxFaults
  BY <1>3, <1>6, <1>7, SwapTypes
<1>9. CASE run' = run /\ (Goto(i, reuses) \/ StopBecause(i, "failure"))
  <2>1. MovesTo(i, {"governed", "stopping"})
    BY <1>5, <1>9, GotoMoves, StopMoves DEF MovesTo
  <2>2. Retreats(i)
    BY <1>1, <2>1 DEF MovesTo, Retreats, Stays, Fenced, Unsealed, Unfenced, Unannounced, Doing,
                      DeliversOwn, DeliversAgain
  <2> QED
    BY <1>2, <1>8, <1>9, <2>1, <2>2, GoesOn
<1>10. CASE /\ Copy(i) = run /\ run' \in {next, Bumped(next)}
            /\ run.status = "running" /\ run.activity[s] \in {"none", "retryable"}
            /\ Goto(i, executes) \/ StopBecause(i, "failure")
  <2>1. /\ Alike(run', [run EXCEPT !.activity[s] = "running"]) /\ run.status = "running"
        /\ run.activity[s] \in {"none", "retryable"}
    BY <1>5, <1>6, <1>10, BumpedIsAlike DEF Alike
  <2>2. /\ run'.status = "running" /\ run'.fence = run.fence /\ run'.audit = run.audit
        /\ run'.activity[s] = "running"
        /\ \A t \in Step \ {s} : run'.activity[t] = run.activity[t]
    BY <1>5, <2>1 DEF Alike, Run
  <2>3. MovesTo(i, {executes, "stopping"})
    BY <1>5, <1>10, GotoMoves, StopMoves DEF MovesTo
  <2>4. effects[s] = 0 /\ \A j \in Invocation : ~(inv[j].pc \in Doing /\ StepOf(j) = s)
    BY <2>1 DEF LifecycleInv, EffectFacts, AttemptFacts, Undone
  <2>5. Spares(i)
    BY <1>1, <2>1, <2>2 DEF Spares, SameOrUndone, Undone
  <2>6. AuditFacts' /\ Settled(run') /\ \A t \in Step : EffectFacts(t)'
    BY <1>2, <2>2, <2>4
    DEF LifecycleInv, AuditFacts, Settled, Terminal, EffectFacts, NoOutsideEffect
  <2>7. FenceFacts(i)'
    BY <1>1, <1>2, <1>5, <2>2, <2>3
    DEF FenceFacts, NoOutsideEffect, MovesTo, Fenced, Unsealed, Unfenced, Unannounced, Doing,
        DeliversOwn
  <2>8. DeliveryFacts(i)'
    BY <2>3 DEF DeliveryFacts, MovesTo, Delivers, DeliversOwn, DeliversAgain
  <2>9. AttemptFacts(i)'
    <3>1. inv'[i].pc \in Doing => StepOf(i)' = s
      BY <1>1, <2>3 DEF MovesTo, Doing, StepOf, Step
    <3>2. \A j \in Invocation \ {i} : inv'[j] = inv[j] /\ StepOf(j)' = StepOf(j)
      BY <2>3 DEF MovesTo, StepOf
    <3> QED
      BY <1>2, <2>2, <2>4, <3>1, <3>2 DEF AttemptFacts, NoOutsideEffect, Undone, Doing
  <2> QED
    BY <1>2, <1>7, <1>8, <2>5, <2>6, <2>7, <2>8, <2>9, Writes DEF MovesTo
<1> QED
  BY <1>4, <1>9, <1>10

\* The one that works on an attempt says how it ended.
LEMMA AttemptEnds ==
    ASSUME ConstantsFit, LifecycleInv, NoOutsideEffect,
           NEW i \in Invocation, inv[i].pc \in Doing, NEW end \in {"completed", "failed"},
           Swaps(i, [Copy(i) EXCEPT !.activity[StepOf(i)] = end]),
           MovesTo(i, {"governed", "stopping"})
    PROVE  LifecycleInv'
<1> DEFINE s    == StepOf(i)
           next == [Copy(i) EXCEPT !.activity[s] = end]
<1>1. run \in Run /\ FenceFacts(i) /\ AttemptFacts(i) /\ Settled(run) /\ s \in Step
  BY DEF LifecycleInv, TypeOK, StepOf, Step
<1>2. Copy(i) = run => next \in Run
  BY <1>1 DEF Run, Activity
<1>3. run' \in Run /\ Housekeeping /\ driver' \in DriverTypes /\ CopiesFollow
      /\ errors' \in 0..MaxFaults /\ (run' = run \/ (Copy(i) = run /\ Alike(run', next)))
  BY <1>2, SwapTypes, SwapFacts DEF LifecycleInv
<1>4. CASE run' = run
  <2>1. Retreats(i)
    BY DEF MovesTo, Retreats, Stays, Fenced, Unsealed, Unfenced, Unannounced, Doing,
           DeliversOwn, DeliversAgain
  <2> QED
    BY <1>3, <1>4, <2>1, GoesOn
<1>5. CASE Copy(i) = run /\ Alike(run', next)
  <2>1. /\ run'.status = run.status /\ run'.fence = run.fence /\ run'.audit = run.audit
        /\ run'.activity = [run.activity EXCEPT ![s] = end]
    BY <1>1, <1>5 DEF Alike, Run
  <2>2. /\ run'.activity[s] = end
        /\ \A t \in Step \ {s} : run'.activity[t] = run.activity[t]
    BY <1>1, <2>1 DEF Run
  <2>3. Spares(i)
    BY <2>1, <2>2 DEF Spares, SameOrUndone, Undone
  <2>4. AuditFacts' /\ Settled(run') /\ \A t \in Step : EffectFacts(t)'
    BY <2>1, <2>2 DEF LifecycleInv, AuditFacts, Settled, EffectFacts, NoOutsideEffect
  <2>5. FenceFacts(i)'
    BY <1>1, <2>1
    DEF FenceFacts, NoOutsideEffect, MovesTo, Fenced, Unsealed, Unfenced, Unannounced, Doing,
        DeliversOwn
  <2>6. DeliveryFacts(i)' /\ AttemptFacts(i)'
    BY DEF DeliveryFacts, AttemptFacts, MovesTo, Delivers, DeliversOwn, DeliversAgain, Doing
  <2> QED
    BY <1>3, <2>3, <2>4, <2>5, <2>6, Writes DEF MovesTo
<1> QED
  BY <1>3, <1>4, <1>5

\* Recording how a provider or a tool call ended keeps the invariant.
LEMMA CompletionsKeep ==
    ASSUME ConstantsFit, LifecycleInv, NEW i \in Invocation,
           CompleteProvider(i) \/ CompleteTool(i) \/ ToolNotStarted(i)
    PROVE  LifecycleInv'
<1>1. NoOutsideEffect /\ inv[i].pc \in Doing
  BY DEF CompleteProvider, CompleteTool, ToolNotStarted, FinishActivity, At, Doing
<1>2. PICK end \in {"completed", "failed"} :
          Swaps(i, [Copy(i) EXCEPT !.activity[StepOf(i)] = end])
  BY DEF CompleteProvider, CompleteTool, ToolNotStarted, FinishActivity, At, StepOf, Transition,
         Swaps, Bumped, Poison, Copy
<1>3. \/ Goto(i, "governed")
      \/ \E reason \in Reason : StopBecause(i, reason)
  BY DEF CompleteProvider, CompleteTool, ToolNotStarted, FinishActivity, Transition, Reason
<1>4. MovesTo(i, {"governed", "stopping"})
  BY <1>3, GotoMoves, StopMoves DEF LifecycleInv, Pc, MovesTo
<1> QED
  BY <1>1, <1>2, <1>4, AttemptEnds

-----------------------------------------------------------------------------
(* Operators. *)

\* A reconciliation of r writes r, perhaps paused.
LEMMA ReconciledFacts ==
    ASSUME NEW r \in Run, Reconciled(r)
    PROVE  /\ run' \in Run /\ run'.status \in {r.status, "paused"}
           /\ run'.activity = r.activity /\ run'.fence = r.fence /\ run'.audit = r.audit
<1>1. [r EXCEPT !.status = "paused"] \in Run
  BY DEF Run
<1>2. \E q \in {r, [r EXCEPT !.status = "paused"]} : run' = Bumped(q)
  BY DEF Reconciled, Written, Bumped
<1> QED
  BY <1>1, <1>2, BumpedIsAlike DEF Alike, Run

\* An operator decides about an attempt that nobody works on.
LEMMA ReconcileStepKeeps ==
    ASSUME ConstantsFit, LifecycleInv, NEW s \in Step, ReconcileStep(s) PROVE LifecycleInv'
<1> DEFINE end == IF effects[s] > 0 THEN "completed" ELSE "retryable"
<1>1. TypeOK /\ run \in Run /\ Settled(run) /\ effects[s] \in Nat
  BY DEF LifecycleInv, TypeOK
<1>2. [run EXCEPT !.activity[s] = end] \in Run
  BY <1>1 DEF Run, Activity
<1>3. /\ run' \in Run /\ run'.status \in {run.status, "paused"}
      /\ run'.activity = [run.activity EXCEPT ![s] = end]
      /\ run'.fence = run.fence /\ run'.audit = run.audit
  BY <1>1, <1>2, ReconciledFacts DEF ReconcileStep, Run
<1>4. /\ UNCHANGED <<driver, inv, errors, started, stopped, byHand, effects>>
      /\ \A i \in Invocation : inv[i].pc \in Doing => StepOf(i) # s
  BY DEF ReconcileStep, NoOutsideEffect
<1>5. run'.activity[s] = end /\ \A t \in Step \ {s} : run'.activity[t] = run.activity[t]
  BY <1>1, <1>3 DEF Run
<1>6. TypeOK'
  BY <1>1, <1>3, <1>4 DEF TypeOK
<1>7. AuditFacts' /\ Settled(run')
  BY <1>1, <1>3, <1>4 DEF LifecycleInv, AuditFacts, Settled, Terminal
<1>8. ASSUME NEW t \in Step PROVE EffectFacts(t)'
  BY <1>1, <1>4, <1>5 DEF LifecycleInv, EffectFacts
<1>9. ASSUME NEW i \in Invocation PROVE FenceFacts(i)' /\ DeliveryFacts(i)'
  BY <1>3, <1>4 DEF LifecycleInv, FenceFacts, DeliveryFacts, Copy
<1>10. ASSUME NEW i \in Invocation PROVE AttemptFacts(i)'
  <2>1. \A j \in Invocation : StepOf(j)' = StepOf(j) /\ StepOf(j) \in Step
    BY <1>4 DEF StepOf, Step
  <2>2. AttemptFacts(i)
    BY DEF LifecycleInv
  <2>3. {"streaming", "dispatched", "executing"} \subseteq Doing
    BY DEF Doing
  <2> QED
    BY <1>4, <1>5, <2>1, <2>2, <2>3 DEF AttemptFacts
<1> QED
  BY <1>6, <1>7, <1>8, <1>9, <1>10 DEF LifecycleInv

\* An operator looks whether RunStopped arrived, when nobody delivers it.
LEMMA ReconcileAuditKeeps ==
    ASSUME ConstantsFit, LifecycleInv, ReconcileAudit PROVE LifecycleInv'
<1> DEFINE end == IF stopped[run.audit.by] > 0 THEN "completed" ELSE "retryable"
           k   == run.audit.by
<1>1. TypeOK /\ run \in Run /\ Settled(run) /\ AuditFacts /\ run.audit.state = "ambiguous"
  BY DEF LifecycleInv, TypeOK, ReconcileAudit
<1>2. k \in Invocation /\ stopped[k] \in {0, 1}
  <2>1. k \in Invocation
    BY <1>1 DEF AuditFacts
  <2>2. stopped[k] \in Nat /\ stopped[k] <= 1
    BY <1>1, <2>1 DEF LifecycleInv, FenceFacts, TypeOK
  <2> QED
    BY <2>1, <2>2
<1>3. [run EXCEPT !.audit.state = end] \in Run
  BY <1>1 DEF Run, Activity
<1>4. /\ run' \in Run /\ run'.status \in {run.status, "paused"}
      /\ run'.activity = run.activity /\ run'.fence = run.fence
      /\ run'.audit.state = end /\ run'.audit.by = k
  BY <1>1, <1>3, ReconciledFacts DEF ReconcileAudit, Run
<1>5. /\ UNCHANGED <<driver, inv, errors, started, stopped, byHand, effects>>
      /\ \A i \in Invocation : inv[i].pc \notin Delivers
  BY DEF ReconcileAudit, NoOutsideEffect, Delivers, DeliversOwn, DeliversAgain
<1>6. TypeOK'
  BY <1>1, <1>4, <1>5 DEF TypeOK
<1>7. AuditFacts' /\ Settled(run')
  BY <1>1, <1>2, <1>4, <1>5 DEF AuditFacts, Settled, Terminal
<1>8. ASSUME NEW t \in Step PROVE EffectFacts(t)'
  BY <1>4, <1>5 DEF LifecycleInv, EffectFacts
<1>9. ASSUME NEW i \in Invocation PROVE FenceFacts(i)'
  BY <1>4, <1>5 DEF LifecycleInv, FenceFacts
<1>10. ASSUME NEW i \in Invocation PROVE DeliveryFacts(i)'
  BY <1>5 DEF DeliveryFacts, Delivers, DeliversOwn, DeliversAgain
<1>11. ASSUME NEW i \in Invocation PROVE AttemptFacts(i)'
  BY <1>4, <1>5 DEF LifecycleInv, AttemptFacts, StepOf
<1> QED
  BY <1>6, <1>7, <1>8, <1>9, <1>10, <1>11 DEF LifecycleInv

\* An operator closes the fence of an invocation that is over, on the word of
\* the terminal audit record or, for any other, by seeing to the span.
LEMMA ReconcileFenceKeeps ==
    ASSUME ConstantsFit, LifecycleInv, NEW i \in Invocation, ReconcileFence(i)
    PROVE  LifecycleInv'
<1>1. PICK end \in {"closed", "authorized"} :
          /\ Reconciled([run EXCEPT !.fence[i] = end])
          /\ run.audit.by = i =>
                 /\ run.audit.state = (IF end = "closed" THEN "completed" ELSE "retryable")
                 /\ byHand' = byHand
          /\ run.audit.by # i => /\ end = "closed"
                                 /\ byHand' = IF stopped[i] = 0 THEN byHand \cup {i} ELSE byHand
  BY DEF ReconcileFence
<1>2. /\ TypeOK /\ run \in Run /\ Settled(run) /\ AuditFacts /\ FenceFacts(i)
      /\ run.fence[i] = "ambiguous"
  BY DEF LifecycleInv, TypeOK, ReconcileFence
<1>3. [run EXCEPT !.fence[i] = end] \in Run
  BY <1>2 DEF Run, Fence
<1>4. /\ run' \in Run /\ run'.status \in {run.status, "paused"}
      /\ run'.activity = run.activity /\ run'.audit = run.audit
      /\ run'.fence[i] = end /\ \A j \in Invocation \ {i} : run'.fence[j] = run.fence[j]
  BY <1>1, <1>2, <1>3, ReconciledFacts DEF Run
<1>5. UNCHANGED <<driver, inv, errors, started, stopped, effects>>
  BY DEF ReconcileFence
<1>6. /\ byHand' \in SUBSET Invocation /\ byHand \subseteq byHand' /\ byHand' \subseteq byHand \cup {i}
      /\ run.audit.by # i => stopped[i] > 0 \/ i \in byHand'
  BY <1>1, <1>2 DEF TypeOK
<1>7. TypeOK'
  BY <1>2, <1>4, <1>5, <1>6 DEF TypeOK
<1>8. AuditFacts' /\ Settled(run')
  BY <1>2, <1>4, <1>5 DEF AuditFacts, Settled, Terminal, Undone
<1>9. ASSUME NEW t \in Step PROVE EffectFacts(t)'
  BY <1>4, <1>5 DEF LifecycleInv, EffectFacts
<1>10. FenceFacts(i)'
  <2>1. inv[i].pc \in Idle
    BY DEF ReconcileFence, Active
  <2>2. inv[i].pc \notin Unfenced \cup Fenced \cup Unannounced \cup Unsealed
    BY <1>2, <2>1
    DEF FenceFacts, Idle, Unfenced, Fenced, Unannounced, Unsealed, Doing, DeliversOwn
  <2>3. end = "closed" => stopped[i] > 0 \/ i \in byHand'
    BY <1>1, <1>2, <1>6 DEF AuditFacts
  <2>4. end = "authorized" => run.audit.by = i /\ run.audit.state # "none"
    BY <1>1
  <2> QED
    BY <1>2, <1>4, <1>5, <2>2, <2>3, <2>4 DEF FenceFacts
<1>11. ASSUME NEW j \in Invocation, j # i PROVE FenceFacts(j)'
  BY <1>4, <1>5, <1>6, <1>11 DEF LifecycleInv, FenceFacts
<1>12. ASSUME NEW j \in Invocation PROVE DeliveryFacts(j)'
  BY <1>4, <1>5 DEF LifecycleInv, DeliveryFacts, Copy
<1>13. ASSUME NEW j \in Invocation PROVE AttemptFacts(j)'
  BY <1>4, <1>5 DEF LifecycleInv, AttemptFacts, StepOf
<1> QED
  BY <1>7, <1>8, <1>9, <1>10, <1>11, <1>12, <1>13 DEF LifecycleInv

-----------------------------------------------------------------------------
(* The theorems. *)

\* The invariant holds at the start.
LEMMA LifecycleInvInit == ConstantsFit /\ Init => LifecycleInv
<1> SUFFICES ASSUME ConstantsFit, Init PROVE LifecycleInv
  OBVIOUS
<1>1. NewRun \in Run
  BY DEF NewRun, Run, Activity, Fence, Reason
<1>2. TypeOK
  BY <1>1 DEF ConstantsFit, Init, TypeOK, Pc, Idle, Reason
<1>3. AuditFacts /\ Settled(run) /\ \A s \in Step : EffectFacts(s)
  BY DEF Init, NewRun, AuditFacts, Settled, Terminal, EffectFacts
<1>4. ASSUME NEW i \in Invocation PROVE FenceFacts(i)
  BY DEF ConstantsFit, Init, NewRun, FenceFacts, Unfenced, Fenced, Unannounced, Unsealed, Doing,
         DeliversOwn
<1>5. ASSUME NEW i \in Invocation PROVE DeliveryFacts(i) /\ AttemptFacts(i)
  BY DEF Init, DeliveryFacts, AttemptFacts, Delivers, DeliversOwn, DeliversAgain, Doing
<1> QED
  BY <1>2, <1>3, <1>4, <1>5 DEF LifecycleInv

\* Every step keeps the invariant.
LEMMA LifecycleInvStep ==
    ASSUME ConstantsFit, LifecycleInv, [Next]_vars PROVE LifecycleInv'
<1>1. ASSUME NEW i \in Invocation, Opening(i) PROVE LifecycleInv'
  BY <1>1, ClaimInvocationKeeps, InvocationDispositionKeeps, BeginInvocationLifecycleKeeps,
     RecheckKeeps, EmitRunStartedKeeps, FailInvocationLifecycleKeeps DEF Opening
<1>2. ASSUME NEW i \in Invocation, Turn(i) PROVE LifecycleInv'
  BY <1>2, BeginActivityKeeps, StopsKeep, TakesEffectKeeps, CompletionsKeep,
     FailAmbiguouslyKeeps, ToolStartedKeeps DEF Turn
<1>3. ASSUME NEW i \in Invocation, Closing(i) PROVE LifecycleInv'
  BY <1>3, EmitDirectKeeps, BeginRunStoppedAuditKeeps, EmitRunStoppedKeeps,
     CompleteAuditAndLifecycleKeeps, FailAuditAndLifecycleKeeps, FinalizeReceiptKeeps,
     BeginAuditRetryKeeps, EmitRetryKeeps, CompleteAuditRetryKeeps, FailAuditRetryKeeps
  DEF Closing
<1>4. CASE UNCHANGED vars
  <2>1. Housekeeping
    BY <1>4 DEF vars, LifecycleInv, TypeOK, Housekeeping, DriverTypes, CopiesFollow
  <2> QED
    BY <1>4, <2>1, StayingRetreats, Yields DEF vars, NoOutsideEffect
<1> QED
  BY <1>1, <1>2, <1>3, <1>4, DropStreamKeeps, ReconcileFenceKeeps, CrashKeeps, OpenDriverKeeps,
     ReconcileStepKeeps, ReconcileAuditKeeps, ResumeKeeps, CancelRunKeeps DEF Next

\* LifecycleInv holds in every reachable state.
THEOREM LifecycleInvariant == ConstantsFit /\ Spec => []LifecycleInv
<1> SUFFICES ASSUME ConstantsFit PROVE Spec => []LifecycleInv
  OBVIOUS
<1>1. Init => LifecycleInv
  BY LifecycleInvInit
<1>2. LifecycleInv /\ [Next]_vars => LifecycleInv'
  BY LifecycleInvStep
<1> QED
  BY <1>1, <1>2, PTL DEF Spec

\* What the invariant says of a run.
LEMMA InvImplies ==
    ASSUME LifecycleInv PROVE OpenSpanIsFenced /\ NothingTwice /\ TerminalIsSettled
<1>1. /\ TypeOK /\ AuditFacts /\ Settled(run) /\ run \in Run
      /\ \A i \in Invocation : FenceFacts(i) /\ AttemptFacts(i)
      /\ \A s \in Step : EffectFacts(s)
  BY DEF LifecycleInv, TypeOK
<1>2. OpenSpanIsFenced
  <2> SUFFICES ASSUME NEW i \in Invocation, SpanIsOpen(i)
               PROVE  \/ run.fence[i] \in {"running", "ambiguous"}
                      \/ /\ run.fence[i] = "authorized" /\ run.audit.by = i
                         /\ run.audit.state \in {"running", "ambiguous", "retryable"}
    BY DEF OpenSpanIsFenced
  <2>1. started[i] > 0 /\ stopped[i] = 0 /\ i \notin byHand /\ FenceFacts(i)
    BY <1>1 DEF SpanIsOpen
  <2>2. run.fence[i] \in {"running", "ambiguous", "authorized"}
    BY <1>1, <2>1 DEF FenceFacts, Run, Fence, TypeOK
  <2>3. run.audit.by = i => run.audit.state \in {"none", "running", "ambiguous", "retryable"}
    BY <1>1, <2>1 DEF AuditFacts, Run, Activity
  <2> QED
    BY <2>1, <2>2, <2>3 DEF FenceFacts
<1>3. NothingTwice
  BY <1>1 DEF NothingTwice, FenceFacts, EffectFacts
<1>4. TerminalIsSettled
  <2> SUFFICES ASSUME run.status \in Terminal
               PROVE  /\ \A i \in Invocation : ~SpanIsOpen(i)
                      /\ \A i \in Invocation :
                            inv[i].pc \notin {"starting", "streaming", "dispatched", "executing"}
                      /\ run.audit.state = "completed" => stopped[run.audit.by] = 1
    BY DEF TerminalIsSettled
  <2>1. \A i \in Invocation : run.fence[i] \notin Undone
    BY <1>1 DEF Settled
  <2>2. \A i \in Invocation : ~SpanIsOpen(i)
    BY <1>1, <1>2, <2>1 DEF OpenSpanIsFenced, Settled, Undone
  <2>3. {"starting", "streaming", "dispatched", "executing"} \subseteq Fenced
    BY DEF Fenced, Unsealed, Unannounced, Unfenced, Doing
  <2> QED
    BY <1>1, <2>1, <2>2, <2>3 DEF FenceFacts, AuditFacts
<1> QED
  BY <1>2, <1>3, <1>4

\* Once RunStarted is at the audit sink, run_agent never forgets it: until the
\* sink or an operator closed the span, its fence is in the run, or the terminal
\* audit record that still owes its RunStopped.
THEOREM OpenSpansAreFenced == ConstantsFit /\ Spec => []OpenSpanIsFenced
BY LifecycleInvariant, InvImplies, PTL

\* No record of a span is emitted twice and no provider request or tool call
\* takes effect twice, however many invocations, processes, hidden commits and
\* reconciliations the run goes through.
THEOREM EverythingHappensOnce == ConstantsFit /\ Spec => []NothingTwice
BY LifecycleInvariant, InvImplies, PTL

\* finalize_run_stopped_receipt and cancel_run make a run terminal only when no
\* span is open at the sink and nobody acts or is about to act for it.
THEOREM TerminalRunsAreSettled == ConstantsFit /\ Spec => []TerminalIsSettled
BY LifecycleInvariant, InvImplies, PTL

=============================================================================
