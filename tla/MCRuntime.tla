----------------------------- MODULE MCRuntime -----------------------------
(***************************************************************************)
(* What the runs of one application share, on small instances: a session   *)
(* store of either kind (SessionLocked, SessionFallback), the budget       *)
(* (BudgetLedger), the targets of a model call (Resilience) and a durable  *)
(* run with its audit spans (RunLifecycle).  None of these parts reads the *)
(* state of another, so a behaviour shows one of them, the one that part   *)
(* names; the variables of the others stay as they are.                    *)
(***************************************************************************)
EXTENDS SessionLocked, TLC

CONSTANTS
    Call,                                             \* calls on the budget
    None, MaxModelCalls, MaxInputTokens, MaxOutputTokens, MaxCost, Top,
    Priced, PriceScale, InputPrice, OutputPrice, CacheReadPrice, CacheWritePrice,
    EstimatedInput, MaxTokens, MaxCacheWrites, MaxExcess,
    Targets, Attempts, MaxPrefix,
    d1, d2, i1, i2, i3, Invocation, Driver, Home      \* invocations of a run

VARIABLES
    part,                                             \* the part in view
    fSession, fLapsed, fCall, fWrite,
    committed, held, bCall, expired, used,
    sticky, rCall, asked, spoke, heard, overlap,
    run, driver, inv, started, stopped, byHand, effects, errors

Fallback == INSTANCE SessionFallback
            WITH session <- fSession, lapsed <- fLapsed, call <- fCall, write <- fWrite

Budget == INSTANCE BudgetLedger WITH call <- bCall

\* One call of each run.
Resilient == INSTANCE Resilience WITH call <- rCall, Call <- Runner

Lifecycle == INSTANCE RunLifecycle

ASSUME BudgetConstants == Budget!ConstantsFit

ASSUME ResilientConstants == Resilient!ConstantsFit

ASSUME LifecycleConstants == Lifecycle!ConstantsFit

-----------------------------------------------------------------------------
\* Two invocations in one process and one in another.
MCHome == (i1 :> d1) @@ (i2 :> d2) @@ (i3 :> d1)

\* Calls on the budget, and the invocations of one process, are interchangeable.
Interchangeable == Permutations(Call) \cup Permutations({i1, i3})

fallbackVars == <<fSession, fLapsed, fCall, fWrite>>

budgetVars == <<committed, held, bCall, expired, used>>

resilientVars == <<sticky, rCall, asked, spoke, heard, overlap>>

lifecycleVars == <<run, driver, inv, started, stopped, byHand, effects, errors>>

allVars == <<part, vars, fallbackVars, budgetVars, resilientVars, lifecycleVars>>

RuntimeInit ==
    /\ part \in {"locked", "fallback", "budget", "resilient", "lifecycle"}
    /\ Init /\ Fallback!Init /\ Budget!Init /\ Resilient!Init /\ Lifecycle!Init

RuntimeNext ==
    /\ \/ /\ part = "locked" /\ Next
          /\ UNCHANGED <<fallbackVars, budgetVars, resilientVars, lifecycleVars>>
       \/ /\ part = "fallback" /\ Fallback!Next
          /\ UNCHANGED <<vars, budgetVars, resilientVars, lifecycleVars>>
       \/ /\ part = "budget" /\ Budget!Next
          /\ UNCHANGED <<vars, fallbackVars, resilientVars, lifecycleVars>>
       \/ /\ part = "resilient" /\ Resilient!Next
          /\ UNCHANGED <<vars, fallbackVars, budgetVars, lifecycleVars>>
       \/ /\ part = "lifecycle" /\ Lifecycle!Next
          /\ UNCHANGED <<vars, fallbackVars, budgetVars, resilientVars>>
    /\ UNCHANGED part

RuntimeSpec == RuntimeInit /\ [][RuntimeNext]_allVars

-----------------------------------------------------------------------------
(* Properties, as the parts state them, each in the behaviours of its part. *)

\* The lease operations that the trait provides keep the promise of a session
\* claim, although each is a load and a compare-and-swap; and comparing two
\* revisions stands for comparing two sessions.
FallbackImplementsClaim == Fallback!ImplementsClaim /\ []Fallback!RevisionIdentifies

\* A provider that bills beyond the reservation costs the shared budget that
\* excess and no more; the reservations of sibling calls never add to it.
OverspendIsExcess == part = "budget" => Budget!OverspendIsExcess

\* Every model call that reached the provider is counted exactly once, however
\* it ended, and no other is counted.
CallsCountedOnce == part = "budget" => Budget!CallsCountedOnce

\* Cancelling, failing or breaking off a model call never leaves the ledger
\* with less than what is due for it.
ChargeCoversBill == part = "budget" => Budget!ChargeCoversBill

\* A caller hears one attempt of a call only, and nobody is asked again once a
\* provider has sent output or billed usage.
OneVoice == part = "resilient" => Resilient!OneVoice

\* The sticky target moves back only by a call that overlaps with the one that
\* moved it on.
RetreatNeedsOverlap == Resilient!RetreatNeedsOverlap

\* A span that is open at the audit sink is on record in the run, through
\* crashes, hidden commits and rejected records.
OpenSpanIsFenced == part = "lifecycle" => Lifecycle!OpenSpanIsFenced

\* Over all invocations that resume a run, no span is announced or closed
\* twice, and no request or tool call takes effect twice.
NothingTwice == part = "lifecycle" => Lifecycle!NothingTwice

\* A terminal run has no span open at the sink, nobody about to act for it,
\* and no receipt in doubt.
TerminalIsSettled == part = "lifecycle" => Lifecycle!TerminalIsSettled
=============================================================================
