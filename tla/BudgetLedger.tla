---------------------------- MODULE BudgetLedger ----------------------------
(***************************************************************************)
(* The budget that sibling agents share (BudgetLedger in budget.rs) and    *)
(* the provider decorator that spends it (BudgetedProvider in              *)
(* orchestration.rs).                                                      *)
(*                                                                         *)
(* Each member of Call is one BudgetedProvider::stream: it reads the       *)
(* deadline, reserves the worst case under the ledger's mutex, starts the  *)
(* provider, consumes the stream, and reconciles the reservation with the  *)
(* usage the stream reported; or its handle is dropped on the way, by a    *)
(* cancellation or an error.  The ghost variable used is what the provider *)
(* really bills.  Reasoning tokens, which cost nothing here, are left out. *)
(***************************************************************************)
EXTENDS Naturals, FiniteSets, FiniteSetsExt

CONSTANTS
    Call,            \* provider calls that share the ledger
    None,            \* a limit that is not configured; no reservation
    MaxModelCalls,   \* max_model_calls
    MaxInputTokens,  \* max_input_tokens
    MaxOutputTokens, \* max_output_tokens
    MaxCost,         \* max_cost_micro_usd
    Top,             \* u64::MAX, where counters saturate
    Priced,          \* TRUE: the caller knows the model's pricing
    PriceScale,      \* prices are in 1/PriceScale micro-USD per token
    InputPrice, OutputPrice, CacheReadPrice, CacheWritePrice,
    EstimatedInput,  \* estimated_input_tokens of a call
    MaxTokens,       \* max_tokens of its request
    MaxCacheWrites,  \* bound: cache_creation_input_tokens of a call
    MaxExcess        \* bound: tokens of a kind billed beyond what was reserved

Resource == {"calls", "input", "output", "cost"}

Limit == [calls |-> MaxModelCalls, input |-> MaxInputTokens,
          output |-> MaxOutputTokens, cost |-> MaxCost]

VARIABLES
    committed,  \* the committed_* counters
    held,       \* the reservations: values and state of each, or None
    call,       \* where each call is, and the usage its stream reported
    expired,    \* the wall-time deadline has passed
    used        \* ghost: what the provider bills for the call

vars == <<committed, held, call, expired, used>>

-----------------------------------------------------------------------------
Usage == [input: Nat, output: Nat, read: Nat, write: Nat]

NoUsage == [input |-> 0, output |-> 0, read |-> 0, write |-> 0]

\* What the constants must be: limits are optional, one call is allowed, prices
\* and token counts are not negative, and None is no count and no reservation.
ConstantsFit ==
    /\ Top \in Nat /\ \A r \in Resource : Limit[r] \in (0..Top) \cup {None}
    /\ MaxModelCalls # 0
    /\ PriceScale \in Nat \ {0}
    /\ {InputPrice, OutputPrice, CacheReadPrice, CacheWritePrice} \subseteq Nat
    /\ {EstimatedInput, MaxTokens, MaxCacheWrites, MaxExcess} \subseteq Nat
    /\ None \notin Usage \cup [Resource -> Nat]
                       \cup [values: [Resource -> Nat], started: BOOLEAN]

Saturated(n) == IF n > Top THEN Top ELSE n

\* add_usage.
AddUsage(u, v) == [k \in DOMAIN u |-> Saturated(u[k] + v[k])]

\* cost_micro_usd: rounded up to a whole micro-USD.
CostMicroUsd(u) ==
    LET uncached == IF u.input > u.read THEN u.input - u.read ELSE 0
        price == uncached * InputPrice + u.output * OutputPrice
                 + u.read * CacheReadPrice + u.write * CacheWritePrice
    IN  (price + PriceScale - 1) \div PriceScale

\* The cost is an error when it does not fit.
CostFits(u) == Priced => CostMicroUsd(u) <= Top

\* What a call with usage u takes of every resource.
Amounts(u) == [calls |-> 1, input |-> u.input, output |-> u.output,
               cost |-> IF Priced THEN CostMicroUsd(u) ELSE 0]

WorstCase == [NoUsage EXCEPT !.input = EstimatedInput, !.output = MaxTokens]

Total(amounts, r) ==
    MapThenSumSet(LAMBDA c : IF amounts[c] = None THEN 0 ELSE amounts[c][r], Call)

\* reservation_totals.
Held(r) ==
    Saturated(Total([c \in Call |-> IF held[c] = None THEN None ELSE held[c].values], r))

Within(r, n) == Limit[r] = None \/ n <= Limit[r]

\* Fault of Requested: what the siblings reserved is not counted.
IgnoresSiblings(r) == Saturated(committed[r] + Amounts(WorstCase)[r])

\* What would be spent and reserved with one more call.
Requested(r) == Saturated(committed[r] + Held(r) + Amounts(WorstCase)[r])

Admitted == /\ Limit["cost"] = None \/ Priced
            /\ CostFits(WorstCase)
            /\ \A r \in Resource : Within(r, Requested(r))

Commit(amounts) == committed' = [r \in Resource |-> Saturated(committed[r] + amounts[r])]

-----------------------------------------------------------------------------
Pc == {"idle", "checked", "refused", "reserved", "started", "streaming", "over"}

Goto(c, pc) == call' = [call EXCEPT ![c].pc = pc]

\* reserve_model_call reads the deadline before it takes the lock ...
CheckWallTime(c) ==
    /\ call[c].pc = "idle"
    /\ Goto(c, IF expired THEN "refused" ELSE "checked")
    /\ UNCHANGED <<committed, held, expired, used>>

\* ... under which it checks all limits and records the reservation.
ReserveModelCall(c) ==
    /\ call[c].pc = "checked"
    /\ Goto(c, IF Admitted THEN "reserved" ELSE "refused")
    /\ held' = IF Admitted
               THEN [held EXCEPT ![c] = [values |-> Amounts(WorstCase), started |-> FALSE]]
               ELSE held
    /\ UNCHANGED <<committed, expired, used>>

\* What the provider may bill for one call: of the prompt's tokens some are
\* read from its cache and some are written to it.
Billable == {u \in [input: 0..(EstimatedInput + MaxExcess), output: 0..(MaxTokens + MaxExcess),
                    read: 0..EstimatedInput, write: 0..MaxCacheWrites] :
                /\ u.read <= u.input
                /\ u.input + u.write <= EstimatedInput + MaxExcess}

\* The provider's future is polled right after; from here on it may bill.
MarkStarted(c) ==
    /\ call[c].pc = "reserved"
    /\ Goto(c, "started")
    /\ held' = [held EXCEPT ![c].started = TRUE]
    /\ \E u \in Billable : used' = [used EXCEPT ![c] = u]
    /\ UNCHANGED <<committed, expired>>

Open(c) == /\ call[c].pc = "started"
           /\ Goto(c, "streaming")
           /\ UNCHANGED <<committed, held, expired, used>>

\* A usage delta: the whole bill or, of a broken stream, the part known so far.
ReceiveUsage(c) ==
    /\ call[c].pc = "streaming" /\ call[c].usage = NoUsage
    /\ \E u \in {used[c], [used[c] EXCEPT !.output = 0]} :
           call' = [call EXCEPT ![c].usage = AddUsage(@, u)]
    /\ UNCHANGED <<committed, held, expired, used>>

\* Fault of DropReservation: a started call is freed like a reserved one.
FreesStarted(c) ==
    /\ held' = [held EXCEPT ![c] = None]
    /\ UNCHANGED committed

\* Drop: a started call is charged its whole reservation.
DropReservation(c) ==
    /\ held' = [held EXCEPT ![c] = None]
    /\ IF held[c].started THEN Commit(held[c].values) ELSE UNCHANGED committed

\* The caller is cancelled or the provider fails.
Abandon(c) ==
    /\ call[c].pc \in {"reserved", "started", "streaming"}
    /\ Goto(c, "over")
    /\ DropReservation(c)
    /\ UNCHANGED <<expired, used>>

\* Fault of Reconcile: the reservation stays in the table.
KeepsReservation(c) ==
    IF CostFits(call[c].usage)
    THEN /\ UNCHANGED held
         /\ Commit(Amounts(call[c].usage))
    ELSE DropReservation(c)

\* reconcile: the real usage takes the place of the reservation.  A cost that
\* does not fit is an error, on which the reservation is dropped.  Going over a
\* limit is reported after the usage was committed.
Reconcile(c) ==
    IF CostFits(call[c].usage)
    THEN /\ held' = [held EXCEPT ![c] = None]
         /\ Commit(Amounts(call[c].usage))
    ELSE DropReservation(c)

\* The stream ends; one that reported no usage is not taken for a free call.
EndStream(c) ==
    /\ call[c].pc = "streaming"
    /\ Goto(c, "over")
    /\ IF call[c].usage # NoUsage THEN Reconcile(c) ELSE DropReservation(c)
    /\ UNCHANGED <<expired, used>>

Expire == /\ ~expired /\ expired' = TRUE
          /\ UNCHANGED <<committed, held, call, used>>

Init == /\ committed = [r \in Resource |-> 0]
        /\ held = [c \in Call |-> None]
        /\ call = [c \in Call |-> [pc |-> "idle", usage |-> NoUsage]]
        /\ expired = FALSE
        /\ used = [c \in Call |-> None]

Next == \/ \E c \in Call :
              \/ CheckWallTime(c) \/ ReserveModelCall(c) \/ MarkStarted(c)
              \/ Open(c) \/ ReceiveUsage(c) \/ Abandon(c) \/ EndStream(c)
        \/ Expire

Spec == Init /\ [][Next]_vars

-----------------------------------------------------------------------------
(* Properties. *)

\* Every variable stays in its type; the counters fit in 64 bits.
TypeOK == /\ committed \in [Resource -> 0..Top]
          /\ held \in [Call -> [values: [Resource -> 0..Top], started: BOOLEAN] \cup {None}]
          /\ call \in [Call -> [pc: Pc, usage: Usage]]
          /\ expired \in BOOLEAN
          /\ used \in [Call -> Usage \cup {None}]

\* Whatever the siblings do at the same time, what is spent and what is
\* reserved never exceeds a limit, as long as no provider bills more tokens than
\* were reserved for the call.
WithinLimits == \A r \in Resource : Within(r, committed[r] + Held(r))

\* What a call bills beyond what was reserved for it.
Excess(c, r) ==
    IF used[c] # None /\ Amounts(used[c])[r] > Amounts(WorstCase)[r]
    THEN Amounts(used[c])[r] - Amounts(WorstCase)[r]
    ELSE 0

\* Billing beyond the reservation costs the ledger that excess and no more:
\* the reservations of siblings never add to it.
OverspendIsExcess ==
    \A r \in Resource :
        Limit[r] = None \/
        committed[r] + Held(r) <= Limit[r] + MapThenSumSet(LAMBDA c : Excess(c, r), Call)

\* Every call that reached the provider is counted exactly once, however it
\* ended, and one that did not is not counted.
CallsCountedOnce ==
    committed["calls"] + Cardinality({c \in Call : held[c] # None /\ held[c].started})
        = Cardinality({c \in Call : used[c] # None})

\* What a call that is over must have cost: what its stream reported or, when
\* it reported nothing, what the provider bills; never more than was reserved.
Due(c) ==
    IF call[c].pc # "over" \/ used[c] = None THEN None
    ELSE LET told == Amounts(IF call[c].usage = NoUsage THEN used[c] ELSE call[c].usage)
             kept == Amounts(WorstCase)
         IN  [r \in Resource |-> IF told[r] < kept[r] THEN told[r] ELSE kept[r]]

\* No call is cheaper than what is due for it: cancelling, failing or breaking
\* off a call never leaves the ledger with less.
ChargeCoversBill ==
    \A r \in Resource : committed[r] >= Saturated(Total([c \in Call |-> Due(c)], r))
=============================================================================
