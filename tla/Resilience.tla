----------------------------- MODULE Resilience -----------------------------
(***************************************************************************)
(* Retries and fallback targets of a model call (ResilientProvider in      *)
(* resilience.rs).                                                         *)
(*                                                                         *)
(* Each member of Call is one ResilientProvider::stream.  It asks the      *)
(* targets of the plan in their order, each several times, until one of    *)
(* them sends output, and makes that target the first one of later calls.  *)
(* Calls that overlap share only the sticky target; between two awaits     *)
(* they run on different threads.  What precedes the output is kept back,  *)
(* so that an attempt can be given up without a trace.  Delays, and which  *)
(* of the retryable errors occurred, are left out.                         *)
(***************************************************************************)
EXTENDS Naturals, Sequences

CONSTANTS
    Call,        \* calls that share the provider
    Targets,     \* number of targets in the plan
    Attempts,    \* attempts() of the retry policy
    MaxPrefix    \* deltas that SafePrefixBudget retains

\* What the constants must be.
ConstantsFit == Targets \in Nat \ {0} /\ Attempts \in Nat \ {0} /\ MaxPrefix \in Nat

VARIABLES
    sticky,   \* sticky_target
    call,     \* where each call is, its attempt and the deltas it keeps back
    asked,    \* ghost: the attempts of a call that reached a provider
    spoke,    \* ghost: the attempts of a call that sent output
    heard,    \* ghost: the attempts whose deltas the caller of a call received
    overlap   \* ghost: calls under way when the sticky target was last stored

vars == <<sticky, call, asked, spoke, heard, overlap>>

-----------------------------------------------------------------------------
Attempt == [target: 1..Targets, number: 1..Attempts]

Over == {"released", "failed", "exhausted", "dropped"}

Pc == Over \cup {"idle", "starting", "opening", "listening", "committing", "recorded"}

Busy == {c \in Call : call[c].pc \notin Over \cup {"idle"}}

Goto(c, pc) == call' = [call EXCEPT ![c].pc = pc]

OthersKeep == UNCHANGED <<sticky, asked, spoke, heard, overlap>>

\* record: an audit sink that rejects the record ends the call.
Recorded(c, Accepted) == OthersKeep /\ (Accepted \/ Goto(c, "failed"))

\* Fault of Again: the deltas of the attempt that failed are kept.
KeepsPrefix(c) ==
    LET last == call[c].attempt IN
    IF last.number < Attempts
    THEN call' = [call EXCEPT ![c].pc = "starting", ![c].attempt.number = @ + 1]
    ELSE IF last.target < Targets
    THEN call' = [call EXCEPT ![c].pc = "starting",
                              ![c].attempt = [target |-> last.target + 1, number |-> 1]]
    ELSE Goto(c, "exhausted")

\* The next attempt: of the same target or, when it has had all of its own, of
\* the target after it.
Again(c) ==
    LET last == call[c].attempt
        With(next) == call' = [call EXCEPT ![c] = [pc |-> "starting", attempt |-> next,
                                                   prefix |-> <<>>]]
    IN  \/ last.number < Attempts /\ With([last EXCEPT !.number = @ + 1])
        \/ /\ last.number = Attempts /\ last.target < Targets
           /\ With([target |-> last.target + 1, number |-> 1])
        \/ /\ last = [target |-> Targets, number |-> Attempts]
           /\ Goto(c, "exhausted")

-----------------------------------------------------------------------------
\* Fault of Begin: every call starts with the primary target.
BeginsAtPrimary(c) ==
    /\ call[c].pc = "idle"
    /\ call' = [call EXCEPT ![c].pc = "starting"]
    /\ OthersKeep

Begin(c) ==
    /\ call[c].pc = "idle"
    /\ call' = [call EXCEPT ![c].pc = "starting", ![c].attempt.target = sticky]
    /\ OthersKeep

\* The attempt is recorded as started before the provider is asked.
StartAttempt(c) ==
    /\ call[c].pc = "starting"
    /\ \/ /\ Goto(c, "opening")
          /\ asked' = [asked EXCEPT ![c] = Append(@, call[c].attempt)]
       \/ Goto(c, "failed") /\ UNCHANGED asked
    /\ UNCHANGED <<sticky, spoke, heard, overlap>>

Open(c) == call[c].pc = "opening" /\ Goto(c, "listening") /\ OthersKeep

\* A retryable error instead of a stream or in it, or the deadline, which
\* opening and prefix share.
GiveUp(c) == /\ call[c].pc \in {"opening", "listening"}
             /\ Recorded(c, Again(c))

\* Any other error instead of a stream; or a stream that ends before output,
\* or whose prefix is too long.
Fail(c) == /\ call[c].pc \in {"opening", "listening"}
           /\ Goto(c, "failed")
           /\ OthersKeep

\* A start, metadata, a warning or an empty usage report is kept back.
KeepBack(c) ==
    /\ call[c].pc = "listening" /\ Len(call[c].prefix) < MaxPrefix
    /\ call' = [call EXCEPT ![c].prefix = Append(@, call[c].attempt)]
    /\ OthersKeep

\* commits_provider_output: content, usage that is billed, the end of the
\* message or an error that is not retryable.
Speak(c) ==
    /\ call[c].pc = "listening"
    /\ Goto(c, "committing")
    /\ spoke' = [spoke EXCEPT ![c] = @ \cup {call[c].attempt}]
    /\ UNCHANGED <<sticky, asked, heard, overlap>>

RecordFirstDelta(c) == call[c].pc = "committing" /\ Recorded(c, Goto(c, "recorded"))

Release(c) ==
    /\ call[c].pc = "recorded"
    /\ Goto(c, "released")
    /\ sticky' = call[c].attempt.target
    /\ heard' = [heard EXCEPT ![c] = Append(call[c].prefix, call[c].attempt)]
    /\ overlap' = Busy \ {c}
    /\ UNCHANGED <<asked, spoke>>

\* The caller drops the future where it awaits.
Drop(c) == /\ call[c].pc \in {"starting", "opening", "listening"}
           /\ Goto(c, "dropped")
           /\ OthersKeep

Init == /\ sticky = 1
        /\ call = [c \in Call |-> [pc |-> "idle", prefix |-> <<>>,
                                   attempt |-> [target |-> 1, number |-> 1]]]
        /\ asked = [c \in Call |-> <<>>]
        /\ spoke = [c \in Call |-> {}]
        /\ heard = [c \in Call |-> <<>>]
        /\ overlap = {}

Next == \E c \in Call :
            \/ Begin(c) \/ StartAttempt(c) \/ Open(c) \/ GiveUp(c) \/ Fail(c)
            \/ KeepBack(c) \/ Speak(c) \/ RecordFirstDelta(c) \/ Release(c) \/ Drop(c)

Spec == Init /\ [][Next]_vars

-----------------------------------------------------------------------------
(* Properties. *)

\* The variables have their types.
TypeOK == /\ sticky \in 1..Targets
          /\ call \in [Call -> [pc: Pc, attempt: Attempt, prefix: Seq(Attempt)]]
          /\ asked \in [Call -> Seq(Attempt)]
          /\ spoke \in [Call -> SUBSET Attempt]
          /\ heard \in [Call -> Seq(Attempt)]
          /\ overlap \subseteq Call

\* A caller hears one attempt only, the last one that was asked: nothing of an
\* attempt that was given up leaks into the stream, and nobody is asked again
\* once a provider has sent output, or usage that it bills.
OneVoice ==
    \A c \in Call :
        /\ \A k \in 1..Len(heard[c]) : heard[c][k] = asked[c][Len(asked[c])]
        /\ \A k \in 1..Len(asked[c]) : asked[c][k] \in spoke[c] => k = Len(asked[c])

\* The sticky target goes back to an earlier one only by a call that overlaps
\* with the one that moved it on: calls made one after the other never return
\* to a target that one of them has left.
RetreatNeedsOverlap ==
    [][sticky' < sticky =>
           \E c \in overlap : call[c].pc = "recorded" /\ call'[c].pc = "released"]_vars
=============================================================================
