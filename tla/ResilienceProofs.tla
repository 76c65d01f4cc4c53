-------------------------- MODULE ResilienceProofs --------------------------
(***************************************************************************)
(* Proofs about Resilience, for any number of calls, targets and attempts. *)
(*                                                                         *)
(* That a caller hears one attempt only rests on the order of attempts: a  *)
(* call never asks the same one twice, since each is after all earlier     *)
(* ones.  That the sticky target needs an overlap to go back rests on what *)
(* the other calls know: who began after it was stored began at it.        *)
(***************************************************************************)
EXTENDS Resilience, TLAPS

-----------------------------------------------------------------------------
(* Types. *)

\* Appending an element to a sequence over a set.
LEMMA Appends ==
    ASSUME NEW s \in Seq(Attempt), NEW a \in Attempt
    PROVE  /\ Append(s, a) \in Seq(Attempt)
           /\ Len(s) \in Nat /\ Len(Append(s, a)) = Len(s) + 1
           /\ Append(s, a)[Len(s) + 1] = a
           /\ \A k \in 1..Len(s) : Append(s, a)[k] = s[k]
OBVIOUS

Memory == [pc: Pc, attempt: Attempt, prefix: Seq(Attempt)]

\* A call that goes to another place keeps its attempt and its prefix.
LEMMA GotoMoves ==
    ASSUME TypeOK, NEW c \in Call, NEW pc \in Pc, Goto(c, pc)
    PROVE  /\ call' \in [Call -> Memory]
           /\ call'[c].pc = pc
           /\ call'[c].attempt = call[c].attempt /\ call'[c].prefix = call[c].prefix
           /\ \A d \in Call \ {c} : call'[d] = call[d]
BY DEF TypeOK, Goto, Memory

\* Attempts in the order in which a call makes them.
Before(a, b) == a.target < b.target \/ (a.target = b.target /\ a.number < b.number)

Restarted(c, next) ==
    call' = [call EXCEPT ![c] = [pc |-> "starting", attempt |-> next, prefix |-> <<>>]]

\* Giving up an attempt, a call goes on with a later one or ends.
LEMMA AgainGoesOn ==
    ASSUME ConstantsFit, TypeOK, NEW c \in Call, Again(c)
    PROVE  \/ \E next \in Attempt : Before(call[c].attempt, next) /\ Restarted(c, next)
           \/ Goto(c, "exhausted")
<1> DEFINE last == call[c].attempt
<1>1. /\ last \in Attempt /\ last.target \in 1..Targets /\ last.number \in 1..Attempts
      /\ last = [target |-> last.target, number |-> last.number]
  BY DEF TypeOK, Attempt
<1>2. CASE last.number < Attempts /\ Restarted(c, [last EXCEPT !.number = @ + 1])
  <2> DEFINE next == [last EXCEPT !.number = @ + 1]
  <2>1. next \in Attempt /\ Before(last, next)
    BY <1>1, <1>2 DEF ConstantsFit, Attempt, Before
  <2> QED
    BY <1>2, <2>1
<1>3. CASE /\ last.number = Attempts /\ last.target < Targets
           /\ Restarted(c, [target |-> last.target + 1, number |-> 1])
  <2> DEFINE next == [target |-> last.target + 1, number |-> 1]
  <2>1. next \in Attempt /\ Before(last, next)
    BY <1>1, <1>3 DEF ConstantsFit, Attempt, Before
  <2> QED
    BY <1>3, <2>1
<1> QED
  BY <1>2, <1>3 DEF Again, Restarted

\* Every step keeps the types.
LEMMA TypeStep == ASSUME ConstantsFit, TypeOK, [Next]_vars PROVE TypeOK'
<1>1. CASE UNCHANGED vars
  BY <1>1 DEF TypeOK, vars
<1>2. ASSUME NEW c \in Call, Begin(c) PROVE TypeOK'
  <2> DEFINE new == [call[c] EXCEPT !.pc = "starting", !.attempt.target = sticky]
  <2>1. call[c] \in Memory /\ sticky \in 1..Targets
    BY DEF TypeOK, Memory
  <2>2. [call[c].attempt EXCEPT !.target = sticky] \in Attempt
    BY <2>1 DEF Memory, Attempt
  <2>3. new \in Memory
    BY <2>1, <2>2 DEF Memory, Pc
  <2>4. call' = [call EXCEPT ![c] = new]
    BY <1>2 DEF Begin
  <2> QED
    BY <1>2, <2>3, <2>4 DEF TypeOK, Memory, Begin, OthersKeep
<1>3. ASSUME NEW c \in Call, StartAttempt(c) PROVE TypeOK'
  <2>1. \A pc \in Pc : Goto(c, pc) => call' \in [Call -> Memory]
    BY GotoMoves
  <2>2. call' \in [Call -> Memory]
    BY <1>3, <2>1 DEF StartAttempt, Pc, Over
  <2>3. call[c].attempt \in Attempt /\ asked[c] \in Seq(Attempt)
    BY DEF TypeOK
  <2>4. Append(asked[c], call[c].attempt) \in Seq(Attempt)
    BY <2>3, Appends
  <2>5. asked' \in [Call -> Seq(Attempt)]
    BY <1>3, <2>4 DEF TypeOK, StartAttempt
  <2> QED
    BY <1>3, <2>2, <2>5 DEF TypeOK, Memory, StartAttempt
<1>4. ASSUME NEW c \in Call, Open(c) \/ Fail(c) \/ Drop(c) PROVE TypeOK'
  <2>1. \E pc \in Pc : Goto(c, pc)
    BY <1>4 DEF Open, Fail, Drop, Pc, Over
  <2>2. call' \in [Call -> Memory]
    BY <2>1, GotoMoves
  <2> QED
    BY <1>4, <2>2 DEF TypeOK, Memory, Open, Fail, Drop, OthersKeep
<1>5. ASSUME NEW c \in Call, GiveUp(c) PROVE TypeOK'
  <2>1. CASE \E next \in Attempt : Restarted(c, next)
    BY <1>5, <2>1 DEF TypeOK, GiveUp, Recorded, Restarted, OthersKeep, Pc, Over
  <2>2. CASE Goto(c, "exhausted") \/ Goto(c, "failed")
    <3>1. \E pc \in Pc : Goto(c, pc)
      BY <2>2 DEF Pc, Over
    <3>2. call' \in [Call -> Memory]
      BY <3>1, GotoMoves
    <3> QED
      BY <1>5, <3>2 DEF TypeOK, Memory, GiveUp, Recorded, OthersKeep
  <2> QED
    BY <1>5, <2>1, <2>2, AgainGoesOn DEF GiveUp, Recorded
<1>6. ASSUME NEW c \in Call, KeepBack(c) PROVE TypeOK'
  <2>1. call[c].attempt \in Attempt /\ call[c].prefix \in Seq(Attempt)
    BY DEF TypeOK
  <2>2. Append(call[c].prefix, call[c].attempt) \in Seq(Attempt)
    BY <2>1, Appends
  <2>3. call' \in [Call -> Memory]
    BY <1>6, <2>2 DEF TypeOK, Memory, KeepBack
  <2> QED
    BY <1>6, <2>3 DEF TypeOK, Memory, KeepBack, OthersKeep
<1>7. ASSUME NEW c \in Call, Speak(c) PROVE TypeOK'
  <2>1. call' \in [Call -> Memory]
    BY <1>7, GotoMoves DEF Speak, Pc
  <2>2. call[c].attempt \in Attempt
    BY DEF TypeOK
  <2> QED
    BY <1>7, <2>1, <2>2 DEF TypeOK, Memory, Speak
<1>8. ASSUME NEW c \in Call, RecordFirstDelta(c) PROVE TypeOK'
  <2>1. \E pc \in Pc : Goto(c, pc)
    BY <1>8 DEF RecordFirstDelta, Recorded, Pc, Over
  <2>2. call' \in [Call -> Memory]
    BY <2>1, GotoMoves
  <2> QED
    BY <1>8, <2>2 DEF TypeOK, Memory, RecordFirstDelta, Recorded, OthersKeep
<1>9. ASSUME NEW c \in Call, Release(c) PROVE TypeOK'
  <2>1. call[c].attempt \in Attempt /\ call[c].prefix \in Seq(Attempt)
    BY DEF TypeOK
  <2>2. sticky' \in 1..Targets
    BY <1>9, <2>1 DEF Release, Attempt
  <2>3. call' \in [Call -> Memory]
    BY <1>9, GotoMoves DEF Release, Pc, Over
  <2>4. heard' \in [Call -> Seq(Attempt)]
    <3>1. Append(call[c].prefix, call[c].attempt) \in Seq(Attempt)
      BY <2>1, Appends
    <3> QED
      BY <1>9, <3>1 DEF TypeOK, Release
  <2> QED
    BY <1>9, <2>2, <2>3, <2>4 DEF TypeOK, Memory, Release, Busy
<1> QED
  BY <1>1, <1>2, <1>3, <1>4, <1>5, <1>6, <1>7, <1>8, <1>9 DEF Next

\* The variables keep their types.
THEOREM TypeCorrect == ConstantsFit /\ Spec => []TypeOK
<1> SUFFICES ASSUME ConstantsFit PROVE Spec => []TypeOK
  OBVIOUS
<1>1. Init => TypeOK
  BY DEF ConstantsFit, Init, TypeOK, Pc, Over, Attempt
<1>2. TypeOK /\ [Next]_vars => TypeOK'
  BY TypeStep
<1> QED
  BY <1>1, <1>2, PTL DEF Spec

-----------------------------------------------------------------------------
(* One voice. *)

Last(c) == asked[c][Len(asked[c])]

\* What was asked before the current attempt, the one at position n on.
AskedBefore(c, n) == \A k \in 1..Len(asked[c]) : k < n => Before(asked[c][k], call[c].attempt)

IsAsked(c) == /\ Len(asked[c]) > 0 /\ Last(c) = call[c].attempt
              /\ AskedBefore(c, Len(asked[c]))
              /\ heard[c] = <<>>
              /\ \A k \in 1..Len(call[c].prefix) : call[c].prefix[k] = call[c].attempt

VoiceOf(c) ==
    /\ \A k \in 1..Len(heard[c]) : heard[c][k] = Last(c)
    /\ \A k \in 1..Len(asked[c]) : asked[c][k] \in spoke[c] => k = Len(asked[c])

\* What is known of a call where it is.
CallInv(c) ==
    /\ VoiceOf(c)
    /\ call[c].pc = "idle" => /\ asked[c] = <<>> /\ call[c].attempt.number = 1
    /\ call[c].pc \in {"idle", "starting"} =>
           /\ AskedBefore(c, Len(asked[c]) + 1)
           /\ heard[c] = <<>> /\ spoke[c] = {} /\ call[c].prefix = <<>>
    /\ call[c].pc \in {"opening", "listening"} => IsAsked(c) /\ spoke[c] = {}
    /\ call[c].pc \in {"committing", "recorded"} => IsAsked(c) /\ spoke[c] = {call[c].attempt}

VoiceInv == TypeOK /\ \A c \in Call : CallInv(c)

\* The order in which attempts are made is strict.
LEMMA OrderIsStrict ==
    ASSUME NEW a \in Attempt, NEW b \in Attempt, NEW d \in Attempt
    PROVE  ~Before(a, a) /\ (Before(a, b) /\ Before(b, d) => Before(a, d))
BY DEF Before, Attempt

\* A step of one call leaves what is known of the others.
LEMMA OthersKeepTheirs ==
    ASSUME NEW c \in Call, CallInv(c), call'[c] = call[c],
           asked'[c] = asked[c], spoke'[c] = spoke[c], heard'[c] = heard[c]
    PROVE  CallInv(c)'
BY DEF CallInv, VoiceOf, IsAsked, AskedBefore, Last

\* What holds of a call that has ended or stays silent while it moves on.
LEMMA EndKeeps ==
    ASSUME NEW c \in Call, CallInv(c), call'[c].pc \in Over,
           asked'[c] = asked[c], spoke'[c] = spoke[c], heard'[c] = heard[c]
    PROVE  CallInv(c)'
BY DEF CallInv, VoiceOf, Last, Over

\* A step of one call keeps what is said of its attempts.
LEMMA VoiceStep ==
    ASSUME ConstantsFit, VoiceInv, NEW c \in Call,
           \/ Begin(c) \/ StartAttempt(c) \/ Open(c) \/ GiveUp(c) \/ Fail(c)
           \/ KeepBack(c) \/ Speak(c) \/ RecordFirstDelta(c) \/ Release(c) \/ Drop(c)
    PROVE  CallInv(c)'
<1> USE DEF VoiceInv
<1> DEFINE me == call[c]
<1>0. /\ me \in Memory /\ me.attempt \in Attempt /\ me.prefix \in Seq(Attempt)
      /\ asked[c] \in Seq(Attempt) /\ Len(asked[c]) \in Nat
      /\ heard[c] \in Seq(Attempt) /\ sticky \in 1..Targets
      /\ asked \in [Call -> Seq(Attempt)] /\ heard \in [Call -> Seq(Attempt)]
      /\ call \in [Call -> Memory] /\ spoke \in [Call -> SUBSET Attempt]
      /\ CallInv(c)
  BY DEF TypeOK, Memory
<1>1. CASE Begin(c)
  <2>1. /\ call'[c].pc = "starting" /\ call'[c].prefix = me.prefix
        /\ asked' = asked /\ spoke' = spoke /\ heard' = heard
    BY <1>0, <1>1 DEF Begin, OthersKeep, Memory
  <2>2. asked[c] = <<>> /\ spoke[c] = {} /\ heard[c] = <<>> /\ me.prefix = <<>>
    BY <1>0, <1>1 DEF Begin, CallInv
  <2> QED
    BY <2>1, <2>2 DEF CallInv, VoiceOf, AskedBefore
<1>2. CASE StartAttempt(c)
  <2>1. AskedBefore(c, Len(asked[c]) + 1) /\ heard[c] = <<>> /\ spoke[c] = {} /\ me.prefix = <<>>
    BY <1>0, <1>2 DEF StartAttempt, CallInv
  <2>2. CASE Goto(c, "failed") /\ asked' = asked
    <3>1. call'[c].pc = "failed"
      BY <1>0, <2>2 DEF Goto, Memory
    <3> QED
      BY <1>0, <1>2, <2>2, <3>1, EndKeeps DEF StartAttempt, Over
  <2>3. CASE Goto(c, "opening") /\ asked' = [asked EXCEPT ![c] = Append(@, me.attempt)]
    <3>1. /\ call'[c].pc = "opening" /\ call'[c].attempt = me.attempt
          /\ call'[c].prefix = <<>> /\ heard'[c] = <<>> /\ spoke'[c] = {}
          /\ asked'[c] = Append(asked[c], me.attempt)
      BY <1>0, <1>2, <2>1, <2>3 DEF Goto, Memory, StartAttempt
    <3>2. /\ Len(asked'[c]) = Len(asked[c]) + 1
          /\ asked'[c][Len(asked[c]) + 1] = me.attempt
          /\ \A k \in 1..Len(asked[c]) : asked'[c][k] = asked[c][k]
      BY <1>0, <3>1, Appends
    <3>3. AskedBefore(c, Len(asked[c]))'
      BY <1>0, <2>1, <3>1, <3>2 DEF AskedBefore
    <3>4. IsAsked(c)'
      BY <1>0, <3>1, <3>2, <3>3 DEF IsAsked, Last
    <3> QED
      BY <3>1, <3>4 DEF CallInv, VoiceOf
  <2> QED
    BY <1>2, <2>2, <2>3 DEF StartAttempt
<1>3. CASE Open(c)
  <2>1. /\ call'[c].pc = "listening" /\ call'[c].attempt = me.attempt
        /\ call'[c].prefix = me.prefix /\ asked' = asked /\ spoke' = spoke /\ heard' = heard
    BY <1>0, <1>3 DEF Open, Goto, OthersKeep, Memory
  <2> QED
    BY <1>0, <1>3, <2>1 DEF Open, CallInv, VoiceOf, IsAsked, AskedBefore, Last
<1>4. CASE Fail(c) \/ Drop(c)
  <2>1. call'[c].pc \in Over /\ asked' = asked /\ spoke' = spoke /\ heard' = heard
    BY <1>0, <1>4 DEF Fail, Drop, Goto, OthersKeep, Memory, Over
  <2> QED
    BY <1>0, <2>1, EndKeeps
<1>5. CASE GiveUp(c)
  <2>1. /\ asked' = asked /\ spoke' = spoke /\ heard' = heard
        /\ IsAsked(c) /\ spoke[c] = {}
    BY <1>0, <1>5 DEF GiveUp, Recorded, OthersKeep, CallInv
  <2>2. CASE Goto(c, "exhausted") \/ Goto(c, "failed")
    <3>1. call'[c].pc \in Over
      BY <1>0, <2>2 DEF Goto, Memory, Over
    <3> QED
      BY <1>0, <2>1, <3>1, EndKeeps
  <2>3. ASSUME NEW next \in Attempt, Before(me.attempt, next), Restarted(c, next)
        PROVE  CallInv(c)'
    <3>1. /\ call'[c].pc = "starting" /\ call'[c].attempt = next /\ call'[c].prefix = <<>>
      BY <1>0, <2>3 DEF Restarted
    <3>2. ASSUME NEW k \in 1..Len(asked[c]) PROVE Before(asked[c][k], next)
      <4>1. asked[c][k] \in Attempt
        BY <1>0
      <4>2. CASE k = Len(asked[c])
        BY <2>1, <2>3, <4>2 DEF IsAsked, Last
      <4>3. CASE k < Len(asked[c])
        <5>1. Before(asked[c][k], me.attempt)
          BY <2>1, <4>3 DEF IsAsked, AskedBefore
        <5> QED
          BY <1>0, <2>3, <4>1, <5>1, OrderIsStrict
      <4> QED
        BY <1>0, <4>2, <4>3
    <3> QED
      BY <2>1, <3>1, <3>2 DEF CallInv, VoiceOf, AskedBefore, IsAsked
  <2> QED
    BY <1>5, <2>2, <2>3, AgainGoesOn DEF GiveUp, Recorded
<1>6. CASE KeepBack(c)
  <2>1. /\ call'[c].pc = "listening" /\ call'[c].attempt = me.attempt
        /\ call'[c].prefix = Append(me.prefix, me.attempt)
        /\ asked' = asked /\ spoke' = spoke /\ heard' = heard
    BY <1>0, <1>6 DEF KeepBack, OthersKeep, Memory
  <2>2. IsAsked(c) /\ spoke[c] = {}
    BY <1>0, <1>6 DEF KeepBack, CallInv
  <2>3. \A k \in 1..Len(call'[c].prefix) : call'[c].prefix[k] = me.attempt
    BY <1>0, <2>1, <2>2, Appends DEF IsAsked
  <2> QED
    BY <1>0, <2>1, <2>2, <2>3 DEF CallInv, VoiceOf, IsAsked, AskedBefore, Last
<1>7. CASE Speak(c)
  <2>1. /\ call'[c].pc = "committing" /\ call'[c].attempt = me.attempt
        /\ call'[c].prefix = me.prefix /\ asked' = asked /\ heard' = heard
        /\ spoke'[c] = spoke[c] \cup {me.attempt}
    BY <1>0, <1>7 DEF Speak, Goto, Memory
  <2>2. IsAsked(c) /\ spoke[c] = {}
    BY <1>0, <1>7 DEF Speak, CallInv
  <2>3. IsAsked(c)' /\ spoke'[c] = {me.attempt}
    BY <2>1, <2>2 DEF IsAsked, AskedBefore, Last
  <2>4. ASSUME NEW k \in 1..Len(asked[c]), asked[c][k] = me.attempt PROVE k = Len(asked[c])
    BY <1>0, <2>2, <2>4, OrderIsStrict DEF IsAsked, AskedBefore
  <2> QED
    BY <2>1, <2>2, <2>3, <2>4 DEF CallInv, VoiceOf, IsAsked
<1>8. CASE RecordFirstDelta(c)
  <2>1. /\ call'[c].attempt = me.attempt /\ call'[c].prefix = me.prefix
        /\ call'[c].pc \in {"recorded", "failed"}
        /\ asked' = asked /\ spoke' = spoke /\ heard' = heard
    BY <1>0, <1>8 DEF RecordFirstDelta, Recorded, Goto, OthersKeep, Memory
  <2> QED
    BY <1>0, <1>8, <2>1 DEF RecordFirstDelta, CallInv, VoiceOf, IsAsked, AskedBefore, Last
<1>9. CASE Release(c)
  <2>1. /\ call'[c].pc = "released" /\ asked' = asked /\ spoke' = spoke
        /\ heard'[c] = Append(me.prefix, me.attempt)
    BY <1>0, <1>9 DEF Release, Goto, Memory
  <2>2. IsAsked(c)
    BY <1>0, <1>9 DEF Release, CallInv
  <2>3. \A k \in 1..Len(heard'[c]) : heard'[c][k] = me.attempt
    BY <1>0, <2>1, <2>2, Appends DEF IsAsked
  <2> QED
    BY <1>0, <2>1, <2>2, <2>3 DEF CallInv, VoiceOf, IsAsked, Last
<1> QED
  BY <1>1, <1>2, <1>3, <1>4, <1>5, <1>6, <1>7, <1>8, <1>9

\* Every step keeps VoiceInv.
LEMMA VoiceInvStep == ASSUME ConstantsFit, VoiceInv, [Next]_vars PROVE VoiceInv'
<1>1. TypeOK'
  BY TypeStep DEF VoiceInv
<1>2. CASE UNCHANGED vars
  BY <1>1, <1>2, OthersKeepTheirs DEF VoiceInv, vars
<1>3. ASSUME NEW c \in Call,
             \/ Begin(c) \/ StartAttempt(c) \/ Open(c) \/ GiveUp(c) \/ Fail(c)
             \/ KeepBack(c) \/ Speak(c) \/ RecordFirstDelta(c) \/ Release(c) \/ Drop(c)
      PROVE  VoiceInv'
  <2>1. CallInv(c)'
    BY <1>3, VoiceStep
  <2>2. ASSUME NEW d \in Call \ {c} PROVE CallInv(d)'
    <3>1. /\ call'[d] = call[d] /\ asked'[d] = asked[d]
          /\ spoke'[d] = spoke[d] /\ heard'[d] = heard[d]
      BY <1>3 DEF VoiceInv, TypeOK, Begin, StartAttempt, Open, GiveUp, Fail, KeepBack, Speak,
                  RecordFirstDelta, Release, Drop, Recorded, Again, Goto, OthersKeep
    <3> QED
      BY <3>1, OthersKeepTheirs DEF VoiceInv
  <2> QED
    BY <1>1, <2>1, <2>2 DEF VoiceInv
<1> QED
  BY <1>2, <1>3 DEF Next

\* A caller of the resilient provider hears one attempt only, and nobody is
\* asked again once a provider has sent output or billed usage, however many
\* targets, attempts and calls there are.
THEOREM CallersHearOneVoice == ConstantsFit /\ Spec => []OneVoice
<1> SUFFICES ASSUME ConstantsFit PROVE Spec => []OneVoice
  OBVIOUS
<1>1. Init => VoiceInv
  <2> SUFFICES ASSUME Init PROVE VoiceInv
    OBVIOUS
  <2>1. TypeOK
    BY DEF ConstantsFit, Init, TypeOK, Pc, Over, Attempt
  <2>2. ASSUME NEW c \in Call PROVE CallInv(c)
    BY DEF Init, CallInv, VoiceOf, AskedBefore
  <2> QED
    BY <2>1, <2>2 DEF VoiceInv
<1>2. VoiceInv /\ [Next]_vars => VoiceInv'
  BY VoiceInvStep
<1>3. VoiceInv => OneVoice
  BY DEF VoiceInv, CallInv, VoiceOf, Last, OneVoice
<1> QED
  BY <1>1, <1>2, <1>3, PTL DEF Spec

-----------------------------------------------------------------------------
(* The sticky target. *)

\* Who began after the sticky target was stored is not before it.
StickyInv ==
    /\ TypeOK
    /\ \A c \in Busy \ overlap : call[c].attempt.target >= sticky

\* Every step keeps StickyInv.
LEMMA StickyStep == ASSUME ConstantsFit, StickyInv, [Next]_vars PROVE StickyInv'
<1> USE DEF StickyInv
<1>1. TypeOK' /\ call \in [Call -> Memory] /\ sticky \in Nat
  BY TypeStep DEF TypeOK, Memory, ConstantsFit
<1>2. CASE UNCHANGED vars
  BY <1>1, <1>2 DEF vars, Busy
<1>3. ASSUME NEW c \in Call,
             \/ Begin(c) \/ StartAttempt(c) \/ Open(c) \/ GiveUp(c) \/ Fail(c)
             \/ KeepBack(c) \/ Speak(c) \/ RecordFirstDelta(c) \/ Drop(c)
      PROVE  StickyInv'
  <2>1. sticky' = sticky /\ overlap' = overlap /\ \A d \in Call \ {c} : call'[d] = call[d]
    BY <1>1, <1>3 DEF Begin, StartAttempt, Open, GiveUp, Fail, KeepBack, Speak,
                      RecordFirstDelta, Drop, Recorded, Again, Goto, OthersKeep
  <2>2. ASSUME c \in Busy' \ overlap PROVE call'[c].attempt.target >= sticky
    <3>1. CASE Begin(c)
      BY <1>1, <3>1 DEF Begin, Memory, Attempt
    <3>2. CASE ~Begin(c)
      <4>1. call[c].pc \notin Over \cup {"idle"} /\ call[c].attempt.target >= sticky
        BY <1>1, <1>3, <2>1, <2>2, <3>2
        DEF StartAttempt, Open, GiveUp, Fail, KeepBack, Speak, RecordFirstDelta, Drop, Busy, Over
      <4>2. CASE \E next \in Attempt : Before(call[c].attempt, next) /\ Restarted(c, next)
        BY <1>1, <4>1, <4>2 DEF Before, Restarted, Memory, Attempt
      <4>3. CASE \E pc \in Pc : Goto(c, pc)
        BY <1>1, <4>1, <4>3, GotoMoves
      <4>4. CASE KeepBack(c)
        BY <1>1, <4>1, <4>4 DEF KeepBack, Memory
      <4> QED
        BY <1>3, <3>2, <4>2, <4>3, <4>4, AgainGoesOn
        DEF StartAttempt, Open, GiveUp, Fail, Speak, RecordFirstDelta, Drop, Recorded, Pc, Over
    <3> QED
      BY <3>1, <3>2
  <2> QED
    BY <1>1, <2>1, <2>2 DEF Busy
<1>4. ASSUME NEW c \in Call, Release(c) PROVE StickyInv'
  <2>1. overlap' = Busy \ {c} /\ call'[c].pc = "released" /\ \A d \in Call \ {c} : call'[d] = call[d]
    BY <1>1, <1>4 DEF Release, Goto, Memory
  <2>2. Busy' \ overlap' = {}
    BY <2>1 DEF Busy, Over
  <2> QED
    BY <1>1, <2>2
<1> QED
  BY <1>2, <1>3, <1>4 DEF Next

\* The sticky target goes back to an earlier one only by a call that overlaps
\* with the one that moved it on, however many calls share the provider.
THEOREM OnlyOverlapRetreats == ConstantsFit /\ Spec => RetreatNeedsOverlap
<1> SUFFICES ASSUME ConstantsFit PROVE Spec => RetreatNeedsOverlap
  OBVIOUS
<1> DEFINE Excused == sticky' < sticky =>
                          \E c \in overlap : call[c].pc = "recorded" /\ call'[c].pc = "released"
<1>1. Init => StickyInv
  <2> SUFFICES ASSUME Init PROVE StickyInv
    OBVIOUS
  <2>1. TypeOK
    BY DEF ConstantsFit, Init, TypeOK, Pc, Over, Attempt
  <2> QED
    BY <2>1 DEF Init, StickyInv, Busy
<1>2. StickyInv /\ [Next]_vars => StickyInv'
  BY StickyStep
<1>3. StickyInv /\ [Next]_vars => [Excused]_vars
  <2> SUFFICES ASSUME StickyInv, [Next]_vars, sticky' < sticky PROVE Excused
    BY DEF vars
  <2>1. call \in [Call -> Memory] /\ sticky \in Nat
    BY DEF StickyInv, TypeOK, Memory, ConstantsFit
  <2>0. sticky' # sticky
    BY <2>1
  <2>2. PICK c \in Call : Release(c)
    BY <2>0 DEF Next, vars, Begin, StartAttempt, Open, GiveUp, Fail, KeepBack, Speak,
                RecordFirstDelta, Drop, Recorded, OthersKeep
  <2>3. call[c].pc = "recorded" /\ call'[c].pc = "released" /\ sticky' = call[c].attempt.target
    BY <2>1, <2>2 DEF Release, Goto, Memory
  <2>4. call[c].attempt.target \in Nat
    BY <2>1 DEF Memory, Attempt
  <2>5. c \in overlap
    <3>1. c \in Busy
      BY <2>3 DEF Busy, Over
    <3>2. ~(sticky' >= sticky)
      BY <2>1, <2>3, <2>4
    <3> QED
      BY <2>3, <3>1, <3>2 DEF StickyInv
  <2> QED
    BY <2>3, <2>5
<1> QED
  BY <1>1, <1>2, <1>3, PTL DEF Spec, RetreatNeedsOverlap
=============================================================================
