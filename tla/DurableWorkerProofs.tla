------------------------ MODULE DurableWorkerProofs ------------------------
(***************************************************************************)
(* Proofs about DurableWorker, for any number of calls, clocks that may be *)
(* set back, I/O errors that hide a committed swap, crashes and cancelled  *)
(* calls.                                                                  *)
(*                                                                         *)
(* The core is what an optimistic transition on a copy of the run amounts  *)
(* to: a driver's copy is the beginning of the stored log, and all of the  *)
(* run where it has the same length; so a swap that passes the comparison  *)
(* of lengths appends exactly one event to the stored run.  The rest is    *)
(* who can put which event there: only the call itself makes the lease its *)
(* own, and nobody takes it away before its expiry.  From that follows     *)
(* that the effect of the unsafe activity happens once, where operators    *)
(* take turns.                                                             *)
(***************************************************************************)
EXTENDS DurableWorker, TLAPS

-----------------------------------------------------------------------------
(* The inductive invariant. *)

\* A copy of the run is the beginning of the store, or all of it.
Behind(r, st) == /\ AppendOnly(r, st)
                 /\ Len(r.log) = Len(st.log) => r = st

\* The events a main task may have proposed, by where it is.
MainKinds(pc) == CASE pc = "claiming" -> {"claim"}
                   [] pc = "disposing" -> {"quarantine"}
                   [] pc = "reconciling" -> {"completed", "safe_to_retry"}
                   [] pc = "executing" -> {"begin", "end", "finish"}
                   [] pc = "releasing" -> {"release"}
                   [] OTHER -> {}

BeforeClaim == {"deciding", "polling", "loaded", "claiming"}

Unthreaded == BeforeClaim \cup {"claimed", "disposing", "reconciling", "crashed"}

\* Where a call works under the lease that its copy shows.
Holding == {"claimed", "disposing", "reconciling", "readying", "executing", "blocked", "stopping"}

\* Who has proposed what; the heartbeat runs only while the lease is held.
TxFacts(c, m) ==
    /\ m.tx.by = "main" => m.tx.event.kind \in MainKinds(m.pc) /\ m.tx.event.by = c
    /\ m.tx.by = "heartbeat" =>
           /\ m.heartbeat \in {"starting", "beating"}
           /\ m.tx.event.kind = "renew" /\ m.tx.event.by = c
           /\ m.tx.event.until > m.view.lease.expires
    /\ m.tx.by = "none" => m.tx = NoTx
    /\ m.pc \in Unthreaded => m.heartbeat = "off"
    /\ m.pc = "releasing" => m.heartbeat \in {"off", "failed", "stopped"}

\* A call has the lease only by its own claim, and gives it back before it
\* returns or reports it lost; unless it never learned what became of its claim.
OwnFacts(c, m, st) ==
    /\ Behind(m.view, st)
    /\ m.pc \in BeforeClaim =>
           st.lease.id # c /\ ~Claimed(c, st) /\ ~Claimed(c, m.view)
    /\ m.pc = "returned" /\ m.outcome # "lost" =>
           st.lease.id # c \/ (m.outcome = "io" /\ ~Claimed(c, m.view))
    /\ m.pc \in Holding => m.view.lease.id = c
    /\ m.pc \in {"deciding", "polling"} => m.polls < MaxPollAttempts

\* The lease a call knows of is in the store, perhaps renewed, or it is over.
KnownFacts(c, m, st, now) ==
    m.pc \in Holding => \/ st.lease.id = c /\ m.view.lease.expires <= st.lease.expires
                        \/ m.view.lease.expires <= now

\* What is known of the memory of a call; back: the store's clock may be set back.
MemoryFacts(c, m, st, now, back) ==
    TxFacts(c, m) /\ OwnFacts(c, m, st) /\ (back \/ KnownFacts(c, m, st, now))

\* Between its steps, a call that is about to swap has proposed something.
CallFacts(c, m, st, now, back) ==
    /\ MemoryFacts(c, m, st, now, back)
    /\ m.pc \in {"claiming", "disposing"} => m.tx.by = "main"

WorkerInv == /\ TypeOK
             /\ Behind(NewRun, store)
             /\ Behind(host, store) /\ host.lease = NoLease
             /\ \A c \in Call : CallFacts(c, call[c], store, clock, setting.stepsBack)

-----------------------------------------------------------------------------
(* Runs and copies of them. *)

\* What the appended events of each kind are.
LEMMA EventTypes ==
    /\ \A kind \in Kind, c \in Call \cup {Nobody} : WorkEvent(kind, c) \in Event
    /\ \A kind \in Kind, c \in Call, at \in Nat, until \in Nat :
           LeaseEvent(kind, c, at, until) \in Event
BY DEF WorkEvent, LeaseEvent, Event, Time

\* An event appends itself to the log, and makes the lease that of its author,
\* renews it, gives it back, or leaves it alone.
LEMMA ApplyAppends ==
    ASSUME NEW r \in Run, NEW e \in Event
    PROVE  /\ Apply(r, e) \in Run
           /\ Len(Apply(r, e).log) = Len(r.log) + 1 /\ Len(r.log) \in Nat
           /\ Apply(r, e).log = Append(r.log, e)
           /\ Apply(r, e).lease = LeaseAfter(r.lease, e)
<1>1. r.log \in Seq(Event) /\ r.lease \in Lease /\ r.phase \in Phase /\ r.done \in BOOLEAN
  BY DEF Run
<1>2. Append(r.log, e) \in Seq(Event) /\ Len(r.log) \in Nat
      /\ Len(Append(r.log, e)) = Len(r.log) + 1
  BY <1>1
<1>3. LeaseAfter(r.lease, e) \in Lease
  BY <1>1 DEF LeaseAfter, Lease, NoLease, Event, Time
<1>4. PhaseAfter(r.phase, e) \in Phase
  BY <1>1 DEF PhaseAfter, Phase
<1>5. (r.done \/ e.kind \in {"end", "completed"}) \in BOOLEAN
  OBVIOUS
<1> QED
  BY <1>2, <1>3, <1>4, <1>5 DEF Apply, Run

\* The lease after an event is a lease or none.
LEMMA LeaseAfterEvent ==
    ASSUME NEW lease \in Lease, NEW e \in Event
    PROVE  /\ LeaseAfter(lease, e) \in Lease
           /\ LeaseAfter(lease, e).id \in {lease.id, e.by, Nobody}
           /\ e.kind = "claim" => /\ LeaseAfter(lease, e).id = e.by
                                  /\ LeaseAfter(lease, e).expires = e.until
           /\ e.kind = "renew" => /\ LeaseAfter(lease, e).id = lease.id
                                  /\ LeaseAfter(lease, e).expires = e.until
           /\ e.kind = "release" => LeaseAfter(lease, e) = NoLease
           /\ e.kind \notin {"claim", "renew", "release"} => LeaseAfter(lease, e) = lease
           /\ e.kind # "claim" => LeaseAfter(lease, e).id \in {lease.id, Nobody}
BY DEF LeaseAfter, Lease, NoLease, Event, Time

\* A claim shows in a run from the event that makes it.
LEMMA ClaimedAfter ==
    ASSUME NEW c, NEW r \in Run, NEW e \in Event
    PROVE  Claimed(c, Apply(r, e)) <=> Claimed(c, r) \/ (e.kind = "claim" /\ e.by = c)
<1>1. r.log \in Seq(Event) /\ Apply(r, e).log = Append(r.log, e)
  BY ApplyAppends DEF Run
<1>2. /\ Len(r.log) \in Nat /\ DOMAIN r.log = 1..Len(r.log)
      /\ DOMAIN Append(r.log, e) = 1..(Len(r.log) + 1)
      /\ Append(r.log, e)[Len(r.log) + 1] = e
      /\ \A i \in 1..Len(r.log) : Append(r.log, e)[i] = r.log[i]
  BY <1>1
<1>3. \A i \in 1..(Len(r.log) + 1) : i \in 1..Len(r.log) \/ i = Len(r.log) + 1
  BY <1>2
<1>4. 1..Len(r.log) \subseteq 1..(Len(r.log) + 1) /\ Len(r.log) + 1 \in 1..(Len(r.log) + 1)
  BY <1>2
<1> QED
  BY <1>1, <1>2, <1>3, <1>4 DEF Claimed

\* Nobody has claimed a lease of the run that a worker finds first.
LEMMA UnclaimedAtFirst == ASSUME NEW c PROVE ~Claimed(c, NewRun)
BY DEF Claimed, NewRun, WorkEvent, LeaseEvent

\* The run a worker finds first is well formed.
LEMMA FreshRun ==
    /\ NewRun \in Run /\ NewRun.lease = NoLease /\ NoLease \in Lease
    /\ NoTx \in Tx /\ NoTx.by = "none"
<1>1. NoLease \in Lease
  BY DEF NoLease, Lease, Time
<1>2. WorkEvent("start", Nobody) \in Event
  BY EventTypes DEF Kind
<1>3. <<WorkEvent("start", Nobody)>> \in Seq(Event)
  BY <1>2
<1>4. NewRun \in Run /\ NewRun.lease = NoLease
  BY <1>1, <1>3 DEF NewRun, Run, Phase
<1>5. NoTx \in Tx /\ NoTx.by = "none"
  BY <1>2 DEF NoTx, Tx
<1> QED
  BY <1>1, <1>4, <1>5

\* The memory of a call that has not begun is well formed.
LEMMA FreshMemory ==
    ASSUME NEW c \in Call
    PROVE  /\ Fresh(c) \in Memory /\ NewRun \in Run /\ NoTx \in Tx /\ NoTx.by = "none"
           /\ NoLease \in Lease /\ NewRun.lease = NoLease
<1>1. 0 \in 0..MaxPollAttempts
  BY PollsAreBounded
<1> QED
  BY <1>1, FreshRun DEF Fresh, Memory, Pc, Outcome, Heartbeat, Doing, Decision

\* The same run is behind itself, and stays behind when one event is appended.
LEMMA BehindItself ==
    ASSUME NEW r \in Run PROVE Behind(r, r)
<1>1. r.log \in Seq(Event) /\ Len(r.log) \in Nat
  BY DEF Run
<1>2. SubSeq(r.log, 1, Len(r.log)) = r.log
  BY <1>1
<1> QED
  BY <1>1, <1>2 DEF Behind, AppendOnly

\* A copy that was behind the store is behind it after an append.
LEMMA BehindAppended ==
    ASSUME NEW r \in Run, NEW st \in Run, NEW e \in Event, Behind(r, st)
    PROVE  Behind(r, Apply(st, e))
<1>1. /\ st.log \in Seq(Event) /\ r.log \in Seq(Event)
      /\ Len(r.log) \in Nat /\ Len(st.log) \in Nat
  BY DEF Run
<1>2. Len(st.log) >= Len(r.log) /\ SubSeq(st.log, 1, Len(r.log)) = r.log
  BY DEF Behind, AppendOnly
<1>3. SubSeq(Append(st.log, e), 1, Len(r.log)) = SubSeq(st.log, 1, Len(r.log))
  BY <1>1, <1>2
<1>4. Apply(st, e).log = Append(st.log, e) /\ Len(Apply(st, e).log) = Len(st.log) + 1
  BY ApplyAppends
<1> QED
  BY <1>1, <1>2, <1>3, <1>4 DEF Behind, AppendOnly

-----------------------------------------------------------------------------
(* Writing to the store. *)

\* Every compare-and-swap leaves the store as it is or appends its event to it,
\* past the fence; it says ok only if it did.
LEMMA CasAppends ==
    ASSUME TypeOK, NEW expected \in Run, NEW e \in Event, Behind(expected, store),
           NEW authority, NEW r \in CasResults(expected, Apply(expected, e), authority)
    PROVE  /\ \/ r.store = store
              \/ /\ r.store = Apply(store, e) /\ expected = store
                 /\ Fence(store, Apply(store, e), authority, clock)
           /\ r.told = "ok" => r.store = Apply(store, e) /\ expected = store
           /\ r.told \notin {"ok", "io"} => r.store = store
           /\ r.told \in {"ok", "io", "conflict", "refused", "invalid"}
           /\ r.faults \in 0..setting.maxFaults
<1> DEFINE new     == Apply(expected, e)
           verdict == Verdict(expected, new, authority)
           written == IF verdict = "ok" THEN new ELSE store
<1>1. verdict = "ok" => /\ expected = store
                        /\ Fence(store, new, authority, clock)
  BY DEF Verdict, Behind
<1>2. verdict \in {"ok", "conflict", "refused", "invalid"}
  BY DEF Verdict
<1>3. setting \in Setting /\ setting.maxFaults \in Nat /\ faults \in 0..setting.maxFaults
  BY SettingsFit DEF TypeOK
<1>4. \/ r = [store |-> written, told |-> verdict, faults |-> faults]
      \/ /\ faults < setting.maxFaults
         /\ \E s \in {store, written} :
                r = [store |-> s, told |-> "io", faults |-> faults + 1]
  BY DEF CasResults
<1> HIDE DEF verdict
<1>5. r.faults \in 0..setting.maxFaults
  BY <1>3, <1>4
<1> QED
  BY <1>1, <1>2, <1>4, <1>5

\* What a step may make of the store: an event of c, or of the host, in the name
\* of an authority.
Writes(c, e, authority, st) ==
    \/ st = store
    \/ st = Apply(store, e) /\ Fence(store, Apply(store, e), authority, clock)

\* A write of one call leaves what is known of another.
LEMMA OthersKeep ==
    ASSUME TypeOK, NEW other \in Call, NEW m \in Memory,
           NEW c \in Call \cup {Nobody}, c # other,
           NEW e \in Event, e.by = c, NEW authority \in {c, Nobody},
           NEW st, Writes(c, e, authority, st),
           CallFacts(other, m, store, clock, setting.stepsBack)
    PROVE  CallFacts(other, m, st, clock, setting.stepsBack)
<1>1. CASE st = store
  BY <1>1
<1>2. CASE st = Apply(store, e) /\ Fence(store, Apply(store, e), authority, clock)
  <2>1. store \in Run /\ m.view \in Run /\ store.lease \in Lease /\ other # Nobody
    BY NobodyIsNoCall DEF TypeOK, Memory, Run
  <2>2. Behind(m.view, st)
    BY <1>2, <2>1, BehindAppended DEF CallFacts, MemoryFacts, OwnFacts
  <2>3. st.lease = LeaseAfter(store.lease, e) /\ st.lease.id \in {store.lease.id, c, Nobody}
    BY <1>2, <2>1, ApplyAppends, LeaseAfterEvent
  <2>4. store.lease.id # other => st.lease.id # other
    BY <2>1, <2>3
  <2>5. OwnFacts(other, m, st)
    <3>1. ~Claimed(other, store) => ~Claimed(other, st)
      BY <1>2, <2>1, ClaimedAfter
    <3> QED
      BY <2>2, <2>4, <3>1 DEF CallFacts, MemoryFacts, OwnFacts
  <2>6. m.view.lease.expires \in Nat /\ store.lease.expires \in Nat /\ clock \in Nat
    BY <2>1, SettingsFit DEF Run, Lease, Time, TypeOK
  <2>7. store.lease.id = other => store.lease.expires <= clock
    BY <1>2, <2>1, <2>6 DEF Fence, Active, NoLease
  <2>8. KnownFacts(other, m, store, clock) => KnownFacts(other, m, st, clock)
    BY <2>3, <2>4, <2>6, <2>7 DEF KnownFacts
  <2> QED
    BY <2>5, <2>8 DEF CallFacts, MemoryFacts
<1> QED
  BY <1>1, <1>2 DEF Writes

\* A step of a call that writes an event of its own, or nothing.
LEMMA WriteKeeps ==
    ASSUME WorkerInv, NEW c \in Call, NEW m \in Memory,
           NEW e \in Event, e.by = c, NEW authority \in {c, Nobody},
           Writes(c, e, authority, store'),
           call' = [call EXCEPT ![c] = m],
           UNCHANGED <<setting, clock, host>>,
           effects' \in Nat, faults' \in 0..setting.maxFaults,
           CallFacts(c, m, store', clock, setting.stepsBack)
    PROVE  WorkerInv'
<1>1. /\ TypeOK /\ store \in Run /\ host \in Run /\ call \in [Call -> Memory]
      /\ c \in Call \cup {Nobody}
  BY DEF WorkerInv, TypeOK
<1>2. store' \in Run /\ Behind(host, store') /\ Behind(NewRun, store')
  BY <1>1, ApplyAppends, BehindAppended, FreshMemory DEF Writes, WorkerInv
<1>3. /\ call' \in [Call -> Memory] /\ call'[c] = m
      /\ \A other \in Call \ {c} : call'[other] = call[other]
  BY <1>1
<1>4. TypeOK'
  BY <1>1, <1>2, <1>3 DEF TypeOK
<1>5. ASSUME NEW other \in Call
      PROVE  CallFacts(other, call'[other], store', clock, setting.stepsBack)
  <2>1. CASE other = c
    BY <1>3, <2>1
  <2>2. CASE other # c
    <3>1. call[other] \in Memory /\ call'[other] = call[other]
      BY <1>1, <1>3, <2>2
    <3>2. CallFacts(other, call[other], store, clock, setting.stepsBack)
      BY DEF WorkerInv
    <3> QED
      BY <1>1, <2>2, <3>1, <3>2, OthersKeep
  <2> QED
    BY <2>1, <2>2
<1> QED
  BY <1>2, <1>4, <1>5 DEF WorkerInv

\* A step of a call that writes nothing.
LEMMA MemoryKeeps ==
    ASSUME WorkerInv, NEW c \in Call, NEW m \in Memory,
           call' = [call EXCEPT ![c] = m],
           UNCHANGED <<setting, clock, store, host, faults>>, effects' \in Nat,
           CallFacts(c, m, store, clock, setting.stepsBack)
    PROVE  WorkerInv'
<1>1. WorkEvent("start", c) \in Event /\ WorkEvent("start", c).by = c
  BY EventTypes DEF Kind, WorkEvent, LeaseEvent
<1>2. Writes(c, WorkEvent("start", c), c, store') /\ faults' \in 0..setting.maxFaults
  BY DEF Writes, WorkerInv, TypeOK
<1> QED
  BY <1>1, <1>2, WriteKeeps

\* A step that changes only the memory of its call keeps the invariant.
LEMMA BecomesKeeps ==
    ASSUME WorkerInv, NEW c \in Call, NEW m \in Memory, Becomes(c, m),
           CallFacts(c, m, store, clock, setting.stepsBack)
    PROVE  WorkerInv'
<1>1. effects' \in Nat
  BY DEF Becomes, WorkerInv, TypeOK
<1> QED
  BY <1>1, MemoryKeeps DEF Becomes

\* What is known of a call.
LEMMA CallKnown ==
    ASSUME WorkerInv, NEW c \in Call
    PROVE  /\ call[c] \in Memory /\ store \in Run /\ clock \in Nat /\ clock + LeaseTtl \in Nat
           /\ call[c].view \in Run /\ store.lease \in Lease /\ call[c].view.lease \in Lease
           /\ call[c].tx \in Tx
           /\ CallFacts(c, call[c], store, clock, setting.stepsBack)
           /\ MemoryFacts(c, call[c], store, clock, setting.stepsBack)
           /\ c # Nobody
<1>1. call[c] \in Memory /\ store \in Run
  BY DEF WorkerInv, TypeOK
<1>2. clock \in Nat
  BY SettingsFit DEF WorkerInv, TypeOK
<1> QED
  BY <1>1, <1>2, LeaseTtlIsPositive, NobodyIsNoCall
  DEF WorkerInv, CallFacts, Memory, Run

-----------------------------------------------------------------------------
(* What a call may do to its memory. *)

\* Flags that say nothing about lease and transaction.
Agree(m, n) == /\ n.pc = m.pc /\ n.view = m.view /\ n.tx = m.tx /\ n.outcome = m.outcome
               /\ n.heartbeat = m.heartbeat /\ n.polls = m.polls

\* What is known of a call depends only on the fields in which the memories agree.
LEMMA AgreeFacts ==
    ASSUME NEW c, NEW m, NEW n, NEW st, NEW now, NEW back,
           Agree(m, n), CallFacts(c, m, st, now, back)
    PROVE  CallFacts(c, n, st, now, back)
BY DEF Agree, CallFacts, MemoryFacts, TxFacts, OwnFacts, KnownFacts

\* The call is poisoned or cancelled, or its effect moves on.
LEMMA FlagFacts ==
    ASSUME NEW c, NEW m \in Memory, NEW st, NEW now, NEW back,
           CallFacts(c, m, st, now, back), NEW doing \in Doing, NEW b \in BOOLEAN
    PROVE  /\ Poison(m) \in Memory /\ Agree(m, Poison(m))
           /\ CallFacts(c, Poison(m), st, now, back)
           /\ [m EXCEPT !.cancelled = TRUE] \in Memory
           /\ Agree(m, [m EXCEPT !.cancelled = TRUE])
           /\ CallFacts(c, [m EXCEPT !.cancelled = TRUE], st, now, back)
           /\ [m EXCEPT !.doing = doing] \in Memory
           /\ CallFacts(c, [m EXCEPT !.doing = doing], st, now, back)
<1> DEFINE poisoned  == Poison(m)
           cancelled == [m EXCEPT !.cancelled = TRUE]
           does      == [m EXCEPT !.doing = doing]
<1>1. poisoned \in Memory /\ Agree(m, poisoned)
  BY DEF Poison, Memory, Agree
<1>2. cancelled \in Memory /\ Agree(m, cancelled)
  BY DEF Memory, Agree
<1>3. does \in Memory /\ Agree(m, does)
  BY DEF Memory, Agree
<1> HIDE DEF poisoned, cancelled, does
<1>4. /\ CallFacts(c, poisoned, st, now, back) /\ CallFacts(c, cancelled, st, now, back)
      /\ CallFacts(c, does, st, now, back)
  BY <1>1, <1>2, <1>3, AgreeFacts
<1> QED
  BY <1>1, <1>2, <1>3, <1>4 DEF poisoned, cancelled, does

\* The call returns, with its lease reported lost or never held.
LEMMA ReturnFacts ==
    ASSUME NEW c, NEW m \in Memory, NEW st, NEW now, NEW back,
           MemoryFacts(c, m, st, now, back), NEW outcome \in Outcome, m.tx.by # "main",
           outcome = "lost" \/ m.pc \in BeforeClaim \/ st.lease.id # c
    PROVE  /\ Return(m, outcome) \in Memory
           /\ CallFacts(c, Return(m, outcome), st, now, back)
<1> DEFINE n == Return(m, outcome)
<1>1. /\ n \in Memory /\ n.pc = "returned" /\ n.outcome = outcome
      /\ n.view = m.view /\ n.tx = m.tx /\ n.heartbeat = m.heartbeat
  BY DEF Return, Memory, Pc
<1> HIDE DEF n
<1>2. CallFacts(c, n, st, now, back)
  BY <1>1 DEF CallFacts, MemoryFacts, TxFacts, OwnFacts, KnownFacts, Unthreaded, BeforeClaim, Holding
<1> QED
  BY <1>1, <1>2 DEF n

\* The call goes to release its lease.
LEMMA FinishFacts ==
    ASSUME NEW c, NEW m \in Memory, NEW st, NEW now, NEW back,
           MemoryFacts(c, m, st, now, back), NEW outcome \in Outcome, m.tx.by = "none",
           m.heartbeat \in {"off", "failed", "stopped"}
    PROVE  /\ FinishClaim(m, outcome) \in Memory
           /\ CallFacts(c, FinishClaim(m, outcome), st, now, back)
<1> DEFINE n == FinishClaim(m, outcome)
<1>1. /\ n \in Memory /\ n.pc = "releasing" /\ n.view = m.view /\ n.tx = m.tx
      /\ n.heartbeat = m.heartbeat
  BY DEF FinishClaim, Memory, Pc
<1> HIDE DEF n
<1>2. CallFacts(c, n, st, now, back)
  BY <1>1 DEF CallFacts, MemoryFacts, TxFacts, OwnFacts, KnownFacts, Unthreaded, BeforeClaim, Holding
<1> QED
  BY <1>1, <1>2 DEF n

\* The call stays under its lease, elsewhere, with no proposal of the main task.
LEMMA MoveFacts ==
    ASSUME NEW c, NEW m \in Memory, NEW n \in Memory, NEW st, NEW now, NEW back,
           MemoryFacts(c, m, st, now, back), m.tx.by # "main",
           n.tx = m.tx, n.view = m.view, m.pc \in Holding,
           n.pc \in Holding \ {"claimed", "disposing"},
           m.tx.by = "heartbeat" => n.heartbeat \in {"starting", "beating"},
           n.pc = "reconciling" => n.heartbeat = "off"
    PROVE  CallFacts(c, n, st, now, back)
BY DEF CallFacts, MemoryFacts, TxFacts, OwnFacts, KnownFacts, Unthreaded, BeforeClaim, Holding

\* The main task proposes an event of its own.
LEMMA ProposedFacts ==
    ASSUME NEW c, NEW m \in Memory, NEW st, NEW now, NEW back, NEW pc \in Pc,
           CallFacts(c, m, st, now, back), m.tx.by = "none",
           NEW e \in Event, e.kind \in MainKinds(pc), e.by = c,
           \/ pc = m.pc
           \/ m.pc \in BeforeClaim /\ pc = "claiming"
           \/ m.pc = "claimed" /\ pc = "disposing"
    PROVE  /\ [Proposed(m, "main", e) EXCEPT !.pc = pc] \in Memory
           /\ CallFacts(c, [Proposed(m, "main", e) EXCEPT !.pc = pc], st, now, back)
<1> DEFINE n == [Proposed(m, "main", e) EXCEPT !.pc = pc]
<1>1. [by |-> "main", event |-> e] \in Tx
  BY DEF Tx
<1>2. /\ n \in Memory /\ n.pc = pc /\ n.view = m.view /\ n.outcome = m.outcome
      /\ n.heartbeat = m.heartbeat /\ n.polls = m.polls
      /\ n.tx.by = "main" /\ n.tx.event = e
  BY <1>1 DEF Proposed, Memory
<1> HIDE DEF n
<1>3. TxFacts(c, n)
  BY <1>2 DEF CallFacts, MemoryFacts, TxFacts, Unthreaded, BeforeClaim
<1>4. OwnFacts(c, n, st) /\ (back \/ KnownFacts(c, n, st, now))
  BY <1>2 DEF CallFacts, MemoryFacts, OwnFacts, KnownFacts, BeforeClaim, Holding
<1> QED
  BY <1>2, <1>3, <1>4 DEF CallFacts, MemoryFacts, n

\* A proposal moves no program counter but its own.
LEMMA ProposedKeepsPc ==
    ASSUME NEW m \in Memory, NEW by, NEW e
    PROVE  [Proposed(m, by, e) EXCEPT !.pc = m.pc] = Proposed(m, by, e)
BY DEF Proposed, Memory

-----------------------------------------------------------------------------
(* The steps of acquire. *)

\* Loading the run into the driver keeps the invariant.
LEMMA LoadKeeps ==
    ASSUME WorkerInv, NEW c \in Call, Load(c) PROVE WorkerInv'
<1>1. /\ call[c].pc = "polling" /\ call[c].tx.by = "none" /\ call[c].polls < MaxPollAttempts
      /\ call[c].heartbeat = "off" /\ store.lease.id # c /\ call[c].tx = NoTx
      /\ call[c].polls \in 0..MaxPollAttempts
  BY CallKnown DEF Load, CallFacts, MemoryFacts, OwnFacts, TxFacts, MainKinds, Unthreaded, BeforeClaim,
                   Tx, Memory
<1>2. CASE call[c].cancelled
  BY <1>1, <1>2, CallKnown, ReturnFacts, BecomesKeeps DEF Load, Outcome, BeforeClaim
<1>3. CASE ~call[c].cancelled
  <2> DEFINE m == [call[c] EXCEPT !.pc = "loaded", !.polls = @ + 1,
                                  !.view = store, !.poisoned = FALSE]
  <2>1. call[c].polls + 1 \in 0..MaxPollAttempts
    BY <1>1, PollsAreBounded
  <2>2. /\ m \in Memory /\ m.pc = "loaded" /\ m.view = store /\ m.tx = NoTx
        /\ m.heartbeat = "off"
    BY <1>1, <2>1, CallKnown DEF Memory, Pc
  <2>3. Becomes(c, m)
    BY <1>3 DEF Load
  <2> HIDE DEF m
  <2>4. CallFacts(c, m, store, clock, setting.stepsBack)
    BY <1>1, <2>2, CallKnown, BehindItself, FreshMemory
    DEF CallFacts, MemoryFacts, TxFacts, OwnFacts, KnownFacts, Holding, BeforeClaim
  <2> QED
    BY <2>2, <2>3, <2>4, BecomesKeeps
<1> QED
  BY <1>2, <1>3

\* A poll that found nothing to claim.
LEMMA PollFacts ==
    ASSUME NEW c, NEW m \in Memory, NEW st, NEW now, NEW back,
           MemoryFacts(c, m, st, now, back), m.pc \in {"loaded", "claiming"},
           m.tx.by = "none", m.heartbeat = "off"
    PROVE  PollAgain(m) \in Memory /\ CallFacts(c, PollAgain(m), st, now, back)
<1>1. CASE m.polls = MaxPollAttempts
  BY <1>1, ReturnFacts DEF PollAgain, Outcome, BeforeClaim
<1>2. CASE m.polls # MaxPollAttempts
  <2> DEFINE n == [m EXCEPT !.pc = "polling"]
  <2>1. m.polls < MaxPollAttempts
    BY <1>2, PollsAreBounded DEF Memory
  <2>2. /\ n \in Memory /\ n.pc = "polling" /\ n.view = m.view /\ n.tx = m.tx
        /\ n.heartbeat = m.heartbeat /\ n.polls = m.polls
    BY DEF Memory, Pc
  <2>3. n = PollAgain(m)
    BY <1>2 DEF PollAgain
  <2> HIDE DEF n
  <2>4. CallFacts(c, n, st, now, back)
    BY <2>1, <2>2
    DEF CallFacts, MemoryFacts, TxFacts, OwnFacts, KnownFacts, Unthreaded, BeforeClaim, Holding
  <2> QED
    BY <2>2, <2>3, <2>4
<1> QED
  BY <1>1, <1>2

\* Proposing a claim keeps the invariant.
LEMMA ClaimKeeps ==
    ASSUME WorkerInv, NEW c \in Call, Claim(c) PROVE WorkerInv'
<1>1. call[c].pc = "loaded" /\ call[c].tx.by = "none" /\ call[c].heartbeat = "off"
  BY CallKnown DEF Claim, CallFacts, MemoryFacts, TxFacts, MainKinds, Unthreaded, BeforeClaim, Tx, Memory
<1>2. CASE Becomes(c, PollAgain(call[c]))
  BY <1>1, <1>2, CallKnown, PollFacts, BecomesKeeps
<1> DEFINE e == LeaseEvent("claim", c, clock, clock + LeaseTtl)
           m == [Proposed(call[c], "main", e) EXCEPT !.pc = "claiming"]
<1>3. CASE Becomes(c, m)
  <2>1. e \in Event /\ e.by = c /\ e.kind \in MainKinds("claiming")
    BY CallKnown, EventTypes DEF Kind, LeaseEvent, MainKinds
  <2> HIDE DEF e
  <2>2. m \in Memory /\ CallFacts(c, m, store, clock, setting.stepsBack)
    BY <1>1, <2>1, CallKnown, ProposedFacts DEF Pc, BeforeClaim
  <2> HIDE DEF m
  <2> QED
    BY <1>3, <2>2, BecomesKeeps
<1> QED
  BY <1>2, <1>3 DEF Claim

-----------------------------------------------------------------------------
(* What a call knows after a compare-and-swap. *)

\* The driver's state is the store's when it was told ok, and is still behind it
\* otherwise.
LEMMA SettleFacts ==
    ASSUME WorkerInv, NEW c \in Call, NEW authority,
           NEW r \in CasResults(call[c].view, Apply(call[c].view, call[c].tx.event), authority)
    PROVE  /\ Settle(call[c], r.told) \in Memory
           /\ Settle(call[c], r.told).tx = NoTx /\ NoTx.by = "none"
           /\ Settle(call[c], r.told).pc = call[c].pc
           /\ Settle(call[c], r.told).heartbeat = call[c].heartbeat
           /\ Settle(call[c], r.told).polls = call[c].polls
           /\ Settle(call[c], r.told).outcome = call[c].outcome
           /\ Settle(call[c], r.told).view \in Run
           /\ r.told = "ok" => Settle(call[c], r.told).view = r.store
           /\ r.told # "ok" => Settle(call[c], r.told).view = call[c].view
           /\ Behind(Settle(call[c], r.told).view, r.store)
           /\ r.store \in Run /\ r.store.lease \in Lease
           /\ call[c].tx.event \in Event
<1> DEFINE s == Settle(call[c], r.told)
           e == call[c].tx.event
<1>1. e \in Event /\ TypeOK /\ Behind(call[c].view, store)
  BY CallKnown DEF Tx, WorkerInv, CallFacts, MemoryFacts, OwnFacts
<1>2. /\ r.store = store \/ (r.store = Apply(store, e) /\ call[c].view = store)
      /\ r.told = "ok" => r.store = Apply(store, e) /\ call[c].view = store
  BY <1>1, CallKnown, CasAppends
<1>3. Apply(call[c].view, e) \in Run /\ Apply(store, e) \in Run
  BY <1>1, CallKnown, ApplyAppends
<1>4. r.store \in Run /\ r.store.lease \in Lease
  BY <1>2, <1>3, CallKnown DEF Run
<1>5. NoTx \in Tx /\ NoTx.by = "none"
  BY FreshMemory
<1>6. /\ s \in Memory /\ s.tx = NoTx /\ s.pc = call[c].pc /\ s.heartbeat = call[c].heartbeat
      /\ s.polls = call[c].polls /\ s.outcome = call[c].outcome /\ s.view \in Run
      /\ s.view = IF r.told = "ok" THEN Apply(call[c].view, e) ELSE call[c].view
  BY <1>3, <1>5, CallKnown DEF Settle, Unlock, Poison, Memory
<1>7. Behind(s.view, r.store)
  BY <1>1, <1>2, <1>4, <1>6, CallKnown, BehindItself, BehindAppended
<1> QED
  BY <1>1, <1>2, <1>4, <1>5, <1>6, <1>7

\* A step that ends in a compare-and-swap.
LEMMA SwapKeeps ==
    ASSUME WorkerInv, NEW c \in Call, NEW authority \in {c, Nobody}, call[c].tx.by # "none",
           NEW r \in CasResults(call[c].view, Apply(call[c].view, call[c].tx.event), authority),
           store' = r.store, faults' = r.faults,
           NEW m \in Memory, call' = [call EXCEPT ![c] = m],
           UNCHANGED <<setting, clock, host, effects>>,
           CallFacts(c, m, r.store, clock, setting.stepsBack)
    PROVE  WorkerInv'
<1> DEFINE e == call[c].tx.event
<1>1. /\ e \in Event /\ TypeOK /\ Behind(call[c].view, store) /\ effects' \in Nat
  BY CallKnown DEF Tx, WorkerInv, CallFacts, MemoryFacts, OwnFacts, TypeOK
<1>2. e.by = c
  BY CallKnown DEF Tx, CallFacts, MemoryFacts, TxFacts
<1>3. Writes(c, e, authority, store') /\ faults' \in 0..setting.maxFaults
  BY <1>1, CallKnown, CasAppends DEF Writes
<1> HIDE DEF e
<1> QED
  BY <1>1, <1>2, <1>3, WriteKeeps

\* The swap of a call that holds the lease: work and renewals leave the lease
\* where it is.
LEMMA HeldSwapFacts ==
    ASSUME WorkerInv, NEW c \in Call, call[c].pc \in Holding \/ call[c].pc = "returned",
           call[c].tx.by # "none", NEW authority,
           NEW r \in CasResults(call[c].view, Apply(call[c].view, call[c].tx.event), authority)
    PROVE  MemoryFacts(c, Settle(call[c], r.told), r.store, clock, setting.stepsBack)
<1> DEFINE s == Settle(call[c], r.told)
           e == call[c].tx.event
<1>1. /\ s \in Memory /\ s.tx = NoTx /\ s.tx.by = "none" /\ s.pc = call[c].pc
      /\ s.heartbeat = call[c].heartbeat /\ s.outcome = call[c].outcome
      /\ s.view \in Run /\ e \in Event /\ Behind(s.view, r.store)
      /\ r.store.lease \in Lease
      /\ r.told = "ok" => s.view = r.store
      /\ r.told # "ok" => s.view = call[c].view
  BY SettleFacts
<1>2. /\ TypeOK /\ Behind(call[c].view, store)
      /\ e.kind \notin {"claim", "release"}
      /\ e.kind = "renew" => e.until > call[c].view.lease.expires
  BY CallKnown
  DEF Holding, CallFacts, MemoryFacts, TxFacts, OwnFacts, MainKinds, Tx, Memory, WorkerInv
<1>3. \/ r.store = store /\ r.told # "ok"
      \/ r.store = Apply(store, e) /\ call[c].view = store
  BY <1>1, <1>2, CallKnown, CasAppends
<1>4. r.store = Apply(store, e) => r.store.lease = LeaseAfter(store.lease, e)
  BY <1>1, CallKnown, ApplyAppends
<1>5. /\ store.lease.expires \in Nat /\ call[c].view.lease.expires \in Nat
      /\ e.until \in Nat /\ clock \in Nat /\ r.store.lease.expires \in Nat
  BY <1>1, CallKnown DEF Lease, Event, Time
<1>6. r.store.lease.id = store.lease.id /\ store.lease.expires <= r.store.lease.expires
  <2>1. CASE r.store = store
    BY <1>5, <2>1
  <2>2. CASE r.store = Apply(store, e) /\ call[c].view = store
    <3>1. CASE e.kind = "renew"
      BY <1>1, <1>2, <1>4, <1>5, <2>2, <3>1, CallKnown, LeaseAfterEvent
    <3>2. CASE e.kind # "renew"
      BY <1>1, <1>2, <1>4, <1>5, <2>2, <3>2, CallKnown, LeaseAfterEvent
    <3> QED
      BY <3>1, <3>2
  <2> QED
    BY <1>3, <2>1, <2>2
<1>7. OwnFacts(c, s, r.store)
  <2>1. Claimed(c, s.view) => Claimed(c, call[c].view)
    BY <1>1, <1>2, <1>3, CallKnown, ClaimedAfter
  <2> QED
    BY <1>1, <1>3, <1>6, <2>1, CallKnown
    DEF CallFacts, MemoryFacts, OwnFacts, BeforeClaim, Holding
<1>8. KnownFacts(c, call[c], store, clock) => KnownFacts(c, s, r.store, clock)
  BY <1>1, <1>3, <1>5, <1>6, CallKnown DEF CallFacts, MemoryFacts, OwnFacts, KnownFacts
<1>9. TxFacts(c, s)
  BY <1>1, CallKnown DEF CallFacts, MemoryFacts, TxFacts, Holding, Unthreaded, BeforeClaim
<1> QED
  BY <1>7, <1>8, <1>9, CallKnown DEF CallFacts, MemoryFacts

-----------------------------------------------------------------------------
(* The compare-and-swaps. *)

\* The swap of a claim keeps the invariant.
LEMMA ClaimCasKeeps ==
    ASSUME WorkerInv, NEW c \in Call, ClaimCas(c) PROVE WorkerInv'
<1> DEFINE e == call[c].tx.event
           back == setting.stepsBack
<1>1. /\ call[c].pc = "claiming" /\ call[c].tx.by = "main" /\ e.kind = "claim" /\ e.by = c
      /\ call[c].heartbeat = "off" /\ store.lease.id # c /\ Behind(call[c].view, store)
      /\ ~Claimed(c, store) /\ ~Claimed(c, call[c].view)
      /\ TypeOK /\ UNCHANGED <<setting, clock, host, effects>>
  BY CallKnown
  DEF ClaimCas, Cas, CallFacts, MemoryFacts, TxFacts, OwnFacts, MainKinds, Unthreaded,
      BeforeClaim, WorkerInv
<1>2. PICK r \in CasResults(call[c].view, Apply(call[c].view, e), Nobody) :
          /\ store' = r.store /\ faults' = r.faults
          /\ \/ /\ r.told = "ok"
                /\ call' = [call EXCEPT ![c] = [Settle(call[c], r.told) EXCEPT !.pc = "claimed"]]
             \/ /\ r.told = "conflict"
                /\ call' = [call EXCEPT ![c] = PollAgain(Settle(call[c], r.told))]
             \/ /\ r.told \notin {"ok", "conflict"}
                /\ call' = [call EXCEPT ![c] = Return(Settle(call[c], r.told),
                                                      ErrorOf(r.told))]
  BY DEF ClaimCas, Cas
<1> DEFINE s == Settle(call[c], r.told)
<1>3. /\ s \in Memory /\ s.tx = NoTx /\ s.tx.by = "none" /\ s.pc = "claiming"
      /\ s.heartbeat = "off" /\ Behind(s.view, r.store) /\ e \in Event
      /\ r.told = "ok" => s.view = r.store
      /\ r.told # "ok" => s.view = call[c].view
      /\ r.store.lease \in Lease /\ r.store \in Run
  BY <1>1, <1>2, SettleFacts
<1>4. /\ r.told = "ok" => r.store = Apply(store, e)
      /\ r.told \notin {"ok", "io"} => r.store = store
  BY <1>1, <1>2, <1>3, CallKnown, CasAppends
<1> HIDE DEF s
<1>5. CASE r.told = "ok"
  <2> DEFINE m == [s EXCEPT !.pc = "claimed"]
  <2>1. /\ m \in Memory /\ m.pc = "claimed" /\ m.tx = NoTx /\ m.tx.by = "none"
        /\ m.heartbeat = "off" /\ m.view = r.store
    BY <1>3, <1>5 DEF Memory, Pc
  <2>2. r.store.lease.id = c
    BY <1>1, <1>3, <1>4, <1>5, CallKnown, ApplyAppends, LeaseAfterEvent
  <2>3. r.store.lease.expires \in Nat
    BY <1>3 DEF Lease, Time
  <2>4. call' = [call EXCEPT ![c] = m]
    BY <1>2, <1>5 DEF s
  <2> HIDE DEF m
  <2>5. CallFacts(c, m, r.store, clock, back)
    BY <1>3, <2>1, <2>2, <2>3, BehindItself
    DEF CallFacts, MemoryFacts, TxFacts, OwnFacts, KnownFacts, Unthreaded, BeforeClaim
  <2> QED
    BY <1>1, <1>2, <2>1, <2>4, <2>5, SwapKeeps
<1>6. CASE r.told = "io"
  <2> DEFINE m == Return(s, "io")
  <2>1. /\ m \in Memory /\ m.pc = "returned" /\ m.outcome = "io" /\ m.tx = NoTx
        /\ m.tx.by = "none" /\ m.view = s.view /\ ~Claimed(c, m.view)
    BY <1>1, <1>3, <1>6 DEF Memory, Pc, Return, Outcome
  <2>2. call' = [call EXCEPT ![c] = m]
    BY <1>2, <1>6 DEF s, ErrorOf
  <2> HIDE DEF m
  <2>3. CallFacts(c, m, r.store, clock, back)
    BY <1>3, <2>1
    DEF CallFacts, MemoryFacts, TxFacts, OwnFacts, KnownFacts, Unthreaded, BeforeClaim, Holding
  <2> QED
    BY <1>1, <1>2, <2>1, <2>2, <2>3, SwapKeeps
<1>7. CASE r.told \notin {"ok", "io"}
  <2>1. MemoryFacts(c, s, r.store, clock, back)
    BY <1>1, <1>3, <1>4, <1>7
    DEF MemoryFacts, TxFacts, OwnFacts, KnownFacts, Unthreaded, BeforeClaim, Holding
  <2>2. CASE r.told = "conflict"
    <3>1. PollAgain(s) \in Memory /\ CallFacts(c, PollAgain(s), r.store, clock, back)
      BY <1>3, <2>1, PollFacts
    <3>2. call' = [call EXCEPT ![c] = PollAgain(s)]
      BY <1>2, <2>2 DEF s
    <3> QED
      BY <1>1, <1>2, <3>1, <3>2, SwapKeeps
  <2>3. CASE r.told # "conflict"
    <3>1. /\ Return(s, "error") \in Memory
          /\ CallFacts(c, Return(s, "error"), r.store, clock, back)
      BY <1>3, <2>1, ReturnFacts DEF Outcome, BeforeClaim
    <3>2. call' = [call EXCEPT ![c] = Return(s, "error")]
      BY <1>2, <1>7, <2>3 DEF s, ErrorOf
    <3> QED
      BY <1>1, <1>2, <3>1, <3>2, SwapKeeps
  <2> QED
    BY <2>2, <2>3
<1> QED
  BY <1>5, <1>6, <1>7

\* What a call does once it knows the disposition.
LEMMA DisposedFacts ==
    ASSUME NEW c, NEW m \in Memory, NEW st, NEW now, NEW back,
           MemoryFacts(c, m, st, now, back), m.pc \in {"claimed", "disposing"},
           m.tx.by = "none", m.heartbeat = "off"
    PROVE  Disposed(c, m) \in Memory /\ CallFacts(c, Disposed(c, m), st, now, back)
<1>1. \/ Disposed(c, m) = [m EXCEPT !.pc = "reconciling"]
      \/ Disposed(c, m) = [m EXCEPT !.pc = "readying", !.heartbeat = "starting"]
      \/ \E outcome \in Outcome : Disposed(c, m) = FinishClaim(m, outcome)
  BY DEF Disposed, Outcome
<1>2. CASE Disposed(c, m) = [m EXCEPT !.pc = "reconciling"]
  <2> DEFINE n == [m EXCEPT !.pc = "reconciling"]
  <2>1. /\ n \in Memory /\ n.pc = "reconciling" /\ n.tx = m.tx /\ n.view = m.view
        /\ n.heartbeat = "off"
    BY DEF Memory, Pc
  <2> HIDE DEF n
  <2>2. CallFacts(c, n, st, now, back)
    BY <2>1, MoveFacts DEF Holding
  <2> QED
    BY <1>2, <2>1, <2>2 DEF n
<1>3. CASE Disposed(c, m) = [m EXCEPT !.pc = "readying", !.heartbeat = "starting"]
  <2> DEFINE n == [m EXCEPT !.pc = "readying", !.heartbeat = "starting"]
  <2>1. /\ n \in Memory /\ n.pc = "readying" /\ n.tx = m.tx /\ n.view = m.view
    BY DEF Memory, Pc, Heartbeat
  <2> HIDE DEF n
  <2>2. CallFacts(c, n, st, now, back)
    BY <2>1, MoveFacts DEF Holding
  <2> QED
    BY <1>3, <2>1, <2>2 DEF n
<1> QED
  BY <1>1, <1>2, <1>3, FinishFacts

\* Reading the disposition of the run keeps the invariant.
LEMMA DisposeKeeps ==
    ASSUME WorkerInv, NEW c \in Call, Dispose(c) PROVE WorkerInv'
<1>1. call[c].pc = "claimed" /\ call[c].tx.by = "none" /\ call[c].heartbeat = "off"
  BY CallKnown
  DEF Dispose, CallFacts, MemoryFacts, TxFacts, MainKinds, Unthreaded, Tx, Memory
<1>2. ASSUME NEW outcome \in Outcome, Becomes(c, FinishClaim(call[c], outcome))
      PROVE  WorkerInv'
  BY <1>1, <1>2, CallKnown, FinishFacts, BecomesKeeps
<1>3. CASE Becomes(c, FinishClaim(Poison(call[c]), "error"))
  <2> DEFINE m == Poison(call[c])
  <2>1. m \in Memory /\ Agree(call[c], m) /\ CallFacts(c, m, store, clock, setting.stepsBack)
    BY CallKnown, FlagFacts DEF Doing
  <2> HIDE DEF m
  <2>2. /\ FinishClaim(m, "error") \in Memory
        /\ CallFacts(c, FinishClaim(m, "error"), store, clock, setting.stepsBack)
    BY <1>1, <2>1, FinishFacts DEF Agree, CallFacts, Outcome
  <2> QED
    BY <1>3, <2>2, BecomesKeeps DEF m
<1> DEFINE e == WorkEvent("quarantine", c)
           p == [Proposed(call[c], "main", e) EXCEPT !.pc = "disposing"]
<1>4. CASE Becomes(c, p)
  <2>1. e \in Event /\ e.by = c /\ e.kind \in MainKinds("disposing")
    BY EventTypes DEF Kind, WorkEvent, LeaseEvent, MainKinds
  <2> HIDE DEF e
  <2>2. p \in Memory /\ CallFacts(c, p, store, clock, setting.stepsBack)
    BY <1>1, <2>1, CallKnown, ProposedFacts DEF Pc
  <2> HIDE DEF p
  <2> QED
    BY <1>4, <2>2, BecomesKeeps
<1>5. CASE Becomes(c, Disposed(c, call[c]))
  BY <1>1, <1>5, CallKnown, DisposedFacts, BecomesKeeps
<1> QED
  BY <1>2, <1>3, <1>4, <1>5 DEF Dispose, Outcome

\* The swaps of a call under its lease, up to what it makes of the answer.
LEMMA DisposeCasKeeps ==
    ASSUME WorkerInv, NEW c \in Call, DisposeCas(c) PROVE WorkerInv'
<1>1. /\ call[c].pc = "disposing" /\ call[c].tx.by = "main" /\ call[c].heartbeat = "off"
      /\ UNCHANGED <<setting, clock, host, effects>>
  BY CallKnown DEF DisposeCas, Cas, CallFacts, MemoryFacts, TxFacts, Unthreaded
<1>2. PICK r \in CasResults(call[c].view, Apply(call[c].view, call[c].tx.event), c) :
          /\ store' = r.store /\ faults' = r.faults
          /\ \/ call' = [call EXCEPT ![c] = Disposed(c, Settle(call[c], r.told))]
             \/ \E outcome \in Outcome :
                    call' = [call EXCEPT ![c] = FinishClaim(Settle(call[c], r.told), outcome)]
  BY DEF DisposeCas, Cas, ErrorOf, Outcome
<1> DEFINE s == Settle(call[c], r.told)
<1>3. s \in Memory /\ s.tx.by = "none" /\ s.pc = "disposing" /\ s.heartbeat = "off"
  BY <1>1, <1>2, SettleFacts
<1>4. MemoryFacts(c, s, r.store, clock, setting.stepsBack)
  BY <1>1, <1>2, HeldSwapFacts DEF Holding
<1> HIDE DEF s
<1>5. CASE call' = [call EXCEPT ![c] = Disposed(c, s)]
  BY <1>1, <1>2, <1>3, <1>4, <1>5, DisposedFacts, SwapKeeps
<1>6. ASSUME NEW outcome \in Outcome, call' = [call EXCEPT ![c] = FinishClaim(s, outcome)]
      PROVE  WorkerInv'
  <2>1. /\ FinishClaim(s, outcome) \in Memory
        /\ CallFacts(c, FinishClaim(s, outcome), r.store, clock, setting.stepsBack)
    BY <1>3, <1>4, FinishFacts
  <2> QED
    BY <1>1, <1>2, <1>6, <2>1, SwapKeeps
<1> QED
  BY <1>2, <1>5, <1>6 DEF s

\* The swap of an operator's decision keeps the invariant.
LEMMA ReconcileCasKeeps ==
    ASSUME WorkerInv, NEW c \in Call, ReconcileCas(c) PROVE WorkerInv'
<1>1. /\ call[c].pc = "reconciling" /\ call[c].tx.by = "main" /\ call[c].heartbeat = "off"
      /\ UNCHANGED <<setting, clock, host, effects>>
  BY CallKnown DEF ReconcileCas, Cas, CallFacts, MemoryFacts, TxFacts, Unthreaded
<1>2. PICK r \in CasResults(call[c].view, Apply(call[c].view, call[c].tx.event), c) :
          /\ store' = r.store /\ faults' = r.faults
          /\ \E outcome \in Outcome :
                 call' = [call EXCEPT ![c] = FinishClaim(Settle(call[c], r.told), outcome)]
  BY DEF ReconcileCas, Cas, Outcome, ErrorOf
<1> DEFINE s == Settle(call[c], r.told)
<1>3. s \in Memory /\ s.tx.by = "none" /\ s.heartbeat = "off"
  BY <1>1, <1>2, SettleFacts
<1>4. MemoryFacts(c, s, r.store, clock, setting.stepsBack)
  BY <1>1, <1>2, HeldSwapFacts DEF Holding
<1>5. PICK outcome \in Outcome : call' = [call EXCEPT ![c] = FinishClaim(s, outcome)]
  BY <1>2
<1> HIDE DEF s
<1>6. /\ FinishClaim(s, outcome) \in Memory
      /\ CallFacts(c, FinishClaim(s, outcome), r.store, clock, setting.stepsBack)
  BY <1>3, <1>4, FinishFacts
<1> QED
  BY <1>1, <1>2, <1>5, <1>6, SwapKeeps

\* The swaps of the main task keep the invariant.
LEMMA WorkCasKeeps ==
    ASSUME WorkerInv, NEW c \in Call, WorkCas(c) PROVE WorkerInv'
<1>1. /\ call[c].pc = "executing" /\ call[c].tx.by = "main"
      /\ UNCHANGED <<setting, clock, host, effects>>
  BY DEF WorkCas, Cas
<1>2. PICK r \in CasResults(call[c].view, Apply(call[c].view, call[c].tx.event), c) :
          /\ store' = r.store /\ faults' = r.faults
          /\ \/ call' = [call EXCEPT ![c] = Settle(call[c], r.told)]
             \/ \E doing \in {"acting", "none", Settle(call[c], r.told).doing} :
                    call' = [call EXCEPT ![c] = [Settle(call[c], r.told) EXCEPT !.doing = doing]]
  BY DEF WorkCas, Cas
<1> DEFINE s == Settle(call[c], r.told)
<1>3. s \in Memory /\ s.pc = "executing"
  BY <1>1, <1>2, SettleFacts
<1>4. CallFacts(c, s, r.store, clock, setting.stepsBack)
  BY <1>1, <1>2, <1>3, HeldSwapFacts DEF Holding, CallFacts
<1>5. {"acting", "none", s.doing} \subseteq Doing
  BY <1>3 DEF Memory, Doing
<1> HIDE DEF s
<1>6. \A doing \in {"acting", "none", s.doing} :
          /\ [s EXCEPT !.doing = doing] \in Memory
          /\ CallFacts(c, [s EXCEPT !.doing = doing], r.store, clock, setting.stepsBack)
  BY <1>3, <1>4, <1>5, FlagFacts
<1>7. \E m \in Memory : /\ call' = [call EXCEPT ![c] = m]
                        /\ CallFacts(c, m, r.store, clock, setting.stepsBack)
  BY <1>2, <1>3, <1>4, <1>6 DEF s
<1> QED
  BY <1>1, <1>2, <1>7, SwapKeeps

\* The swap of a renewal keeps the invariant.
LEMMA BeatCasKeeps ==
    ASSUME WorkerInv, NEW c \in Call, BeatCas(c) PROVE WorkerInv'
<1>1. /\ call[c].tx.by = "heartbeat" /\ call[c].heartbeat \in {"starting", "beating"}
      /\ call[c].pc \in {"readying", "executing", "blocked", "stopping", "returned"}
      /\ UNCHANGED <<setting, clock, host, effects>>
  BY CallKnown
  DEF BeatCas, Cas, CallFacts, MemoryFacts, TxFacts, Unthreaded, BeforeClaim, Memory, Pc
<1>2. PICK r \in CasResults(call[c].view, Apply(call[c].view, call[c].tx.event), c) :
          /\ store' = r.store /\ faults' = r.faults
          /\ \/ call' = [call EXCEPT ![c] = [Settle(call[c], r.told) EXCEPT !.heartbeat = "beating"]]
             \/ call' = [call EXCEPT ![c] = [Settle(call[c], r.told) EXCEPT !.heartbeat = "failed",
                            !.cancelled = call[c].cancelled \/ call[c].heartbeat = "beating"]]
  BY DEF BeatCas, Cas
<1> DEFINE s == Settle(call[c], r.told)
<1>3. s \in Memory /\ s.pc = call[c].pc /\ s.tx = NoTx /\ s.tx.by = "none"
  BY <1>2, SettleFacts
<1>4. MemoryFacts(c, s, r.store, clock, setting.stepsBack)
  BY <1>1, <1>2, HeldSwapFacts DEF Holding
<1> HIDE DEF s
<1>5. ASSUME NEW m \in Memory, m.pc = s.pc, m.view = s.view, m.tx = s.tx,
             m.outcome = s.outcome, call' = [call EXCEPT ![c] = m]
      PROVE  WorkerInv'
  <2>1. CallFacts(c, m, r.store, clock, setting.stepsBack)
    BY <1>1, <1>3, <1>4, <1>5
    DEF CallFacts, MemoryFacts, TxFacts, OwnFacts, KnownFacts, Unthreaded, BeforeClaim
  <2> QED
    BY <1>1, <1>2, <1>5, <2>1, SwapKeeps
<1>6. CASE call' = [call EXCEPT ![c] = [s EXCEPT !.heartbeat = "beating"]]
  <2> DEFINE m == [s EXCEPT !.heartbeat = "beating"]
  <2>1. /\ m \in Memory /\ m.pc = s.pc /\ m.view = s.view /\ m.tx = s.tx
        /\ m.outcome = s.outcome
    BY <1>3 DEF Memory, Heartbeat
  <2> HIDE DEF m
  <2> QED
    BY <1>5, <1>6, <2>1 DEF m
<1>7. CASE call' = [call EXCEPT ![c] = [s EXCEPT !.heartbeat = "failed",
                        !.cancelled = call[c].cancelled \/ call[c].heartbeat = "beating"]]
  <2> DEFINE m == [s EXCEPT !.heartbeat = "failed",
                        !.cancelled = call[c].cancelled \/ call[c].heartbeat = "beating"]
  <2>1. /\ m \in Memory /\ m.pc = s.pc /\ m.view = s.view /\ m.tx = s.tx
        /\ m.outcome = s.outcome
    BY <1>3, CallKnown DEF Memory, Heartbeat
  <2> HIDE DEF m
  <2> QED
    BY <1>5, <1>7, <2>1 DEF m
<1> QED
  BY <1>2, <1>6, <1>7 DEF s

\* The swap that gives the lease back keeps the invariant.
LEMMA ReleaseCasKeeps ==
    ASSUME WorkerInv, NEW c \in Call, ReleaseCas(c) PROVE WorkerInv'
<1> DEFINE e == call[c].tx.event
<1>1. /\ call[c].pc = "releasing" /\ call[c].tx.by = "main" /\ e.kind = "release"
      /\ Behind(call[c].view, store) /\ TypeOK
      /\ UNCHANGED <<setting, clock, host, effects>>
  BY CallKnown
  DEF ReleaseCas, Cas, CallFacts, MemoryFacts, TxFacts, OwnFacts, MainKinds, WorkerInv
<1>2. PICK r \in CasResults(call[c].view, Apply(call[c].view, e), c) :
          /\ store' = r.store /\ faults' = r.faults
          /\ call' = [call EXCEPT ![c] = Return(Settle(call[c], r.told),
                                             IF r.told = "ok" THEN call[c].outcome ELSE "lost")]
  BY DEF ReleaseCas, Cas
<1> DEFINE s == Settle(call[c], r.told)
           outcome == IF r.told = "ok" THEN call[c].outcome ELSE "lost"
<1>3. /\ s \in Memory /\ s.tx = NoTx /\ s.tx.by = "none" /\ s.pc = "releasing"
      /\ s.heartbeat = call[c].heartbeat /\ Behind(s.view, r.store) /\ e \in Event
      /\ r.store.lease \in Lease
  BY <1>1, <1>2, SettleFacts
<1>4. r.told = "ok" => r.store = Apply(store, e)
  BY <1>1, <1>2, <1>3, CallKnown, CasAppends
<1>5. r.told = "ok" => r.store.lease.id # c
  <2>1. r.told = "ok" => r.store.lease = NoLease
    BY <1>1, <1>3, <1>4, CallKnown, ApplyAppends, LeaseAfterEvent
  <2> QED
    BY <2>1, CallKnown DEF NoLease
<1>6. MemoryFacts(c, s, r.store, clock, setting.stepsBack)
  BY <1>1, <1>3, CallKnown
  DEF CallFacts, MemoryFacts, TxFacts, OwnFacts, KnownFacts, Unthreaded, BeforeClaim, Holding
<1>7. outcome \in Outcome /\ (outcome = "lost" \/ r.store.lease.id # c)
  BY <1>5, CallKnown DEF Memory, Outcome
<1>8. call' = [call EXCEPT ![c] = Return(s, outcome)]
  BY <1>2
<1> HIDE DEF s, outcome, e
<1>9. /\ Return(s, outcome) \in Memory
      /\ CallFacts(c, Return(s, outcome), r.store, clock, setting.stepsBack)
  BY <1>3, <1>6, <1>7, ReturnFacts
<1> QED
  BY <1>1, <1>2, <1>8, <1>9, SwapKeeps DEF e

-----------------------------------------------------------------------------
(* The heartbeat thread. *)

\* Proposing a renewal keeps the invariant.
LEMMA BeatKeeps ==
    ASSUME WorkerInv, NEW c \in Call, Beat(c) PROVE WorkerInv'
<1> DEFINE e == LeaseEvent("renew", c, clock, clock + LeaseTtl)
           tooSoon == e.until <= call[c].view.lease.expires
<1>1. /\ call[c].heartbeat \in {"starting", "beating"} /\ call[c].tx = NoTx
      /\ call[c].tx.by = "none"
      /\ call[c].pc \notin Unthreaded \cup {"releasing"}
  BY CallKnown, FreshMemory DEF Beat, CallFacts, MemoryFacts, TxFacts
<1>2. ASSUME NEW cancelled \in BOOLEAN, NEW poisoned \in BOOLEAN,
             Becomes(c, [call[c] EXCEPT !.heartbeat = "failed", !.cancelled = cancelled,
                                        !.poisoned = poisoned])
      PROVE  WorkerInv'
  <2> DEFINE m == [call[c] EXCEPT !.heartbeat = "failed", !.cancelled = cancelled,
                                  !.poisoned = poisoned]
  <2>1. /\ m \in Memory /\ m.pc = call[c].pc /\ m.view = call[c].view /\ m.tx = NoTx
        /\ m.tx.by = "none" /\ m.outcome = call[c].outcome /\ m.polls = call[c].polls
    BY <1>1, CallKnown DEF Memory, Heartbeat
  <2> HIDE DEF m
  <2>2. CallFacts(c, m, store, clock, setting.stepsBack)
    BY <1>1, <2>1, CallKnown
    DEF CallFacts, MemoryFacts, TxFacts, OwnFacts, KnownFacts, Unthreaded, BeforeClaim
  <2> QED
    BY <1>2, <2>1, <2>2, BecomesKeeps DEF m
<1>3. CASE ~tooSoon /\ Becomes(c, Proposed(call[c], "heartbeat", e))
  <2> DEFINE m == Proposed(call[c], "heartbeat", e)
  <2>1. e \in Event /\ e.by = c /\ e.kind = "renew"
    BY CallKnown, EventTypes DEF Kind, LeaseEvent
  <2>2. e.until > call[c].view.lease.expires
    BY <1>3, CallKnown DEF LeaseEvent, Lease, Time
  <2> HIDE DEF e
  <2>3. [by |-> "heartbeat", event |-> e] \in Tx
    BY <2>1 DEF Tx
  <2>4. /\ m \in Memory /\ m.pc = call[c].pc /\ m.view = call[c].view
        /\ m.tx.by = "heartbeat" /\ m.tx.event = e /\ m.heartbeat = call[c].heartbeat
        /\ m.outcome = call[c].outcome /\ m.polls = call[c].polls
    BY <2>3, CallKnown DEF Proposed, Memory
  <2> HIDE DEF m
  <2>5. CallFacts(c, m, store, clock, setting.stepsBack)
    BY <1>1, <2>1, <2>2, <2>4, CallKnown
    DEF CallFacts, MemoryFacts, TxFacts, OwnFacts, KnownFacts, Unthreaded, BeforeClaim
  <2> QED
    BY <1>3, <2>4, <2>5, BecomesKeeps DEF m
<1>4. call[c].cancelled \in BOOLEAN /\ call[c].poisoned \in BOOLEAN
  BY CallKnown DEF Memory
<1>5. \/ ~tooSoon /\ Becomes(c, Proposed(call[c], "heartbeat", e))
      \/ \E cancelled \in BOOLEAN, poisoned \in BOOLEAN :
             Becomes(c, [call[c] EXCEPT !.heartbeat = "failed", !.cancelled = cancelled,
                                        !.poisoned = poisoned])
  BY <1>4 DEF Beat
<1> QED
  BY <1>2, <1>3, <1>5

\* The end of the heartbeat thread keeps the invariant.
LEMMA BeatStopKeeps ==
    ASSUME WorkerInv, NEW c \in Call, BeatStop(c) PROVE WorkerInv'
<1> DEFINE m == [call[c] EXCEPT !.heartbeat = "stopped"]
<1>1. /\ m \in Memory /\ m.pc = call[c].pc /\ m.view = call[c].view /\ m.tx = call[c].tx
      /\ m.outcome = call[c].outcome
  BY CallKnown DEF Memory, Heartbeat
<1>2. call[c].tx.by # "heartbeat" /\ call[c].pc \in {"stopping", "returned"} /\ Becomes(c, m)
  BY DEF BeatStop
<1> HIDE DEF m
<1>3. CallFacts(c, m, store, clock, setting.stepsBack)
  BY <1>1, <1>2, CallKnown
  DEF CallFacts, MemoryFacts, TxFacts, OwnFacts, KnownFacts, Unthreaded, BeforeClaim
<1> QED
  BY <1>1, <1>2, <1>3, BecomesKeeps

-----------------------------------------------------------------------------
(* The callback and its end. *)

\* Under the lease, the main task has no proposal of its own where the callback
\* waits for it or is not running.
LEMMA NotProposing ==
    ASSUME WorkerInv, NEW c \in Call, call[c].pc \in {"readying", "stopping"}
    PROVE  call[c].tx.by # "main"
BY CallKnown DEF CallFacts, MemoryFacts, TxFacts, MainKinds

\* The call gives up its lease without releasing it.
LEMMA LostKeeps ==
    ASSUME WorkerInv, NEW c \in Call, call[c].tx.by # "main",
           \/ Becomes(c, Return(call[c], "lost"))
           \/ Becomes(c, Return([call[c] EXCEPT !.cancelled = TRUE], "lost"))
    PROVE  WorkerInv'
<1> DEFINE m == [call[c] EXCEPT !.cancelled = TRUE]
<1>1. m \in Memory /\ Agree(call[c], m) /\ CallFacts(c, m, store, clock, setting.stepsBack)
  BY CallKnown, FlagFacts DEF Doing
<1> HIDE DEF m
<1>2. /\ Return(m, "lost") \in Memory
      /\ CallFacts(c, Return(m, "lost"), store, clock, setting.stepsBack)
  BY <1>1, ReturnFacts DEF CallFacts, Agree, Outcome
<1>3. /\ Return(call[c], "lost") \in Memory
      /\ CallFacts(c, Return(call[c], "lost"), store, clock, setting.stepsBack)
  BY CallKnown, ReturnFacts DEF Outcome
<1> QED
  BY <1>2, <1>3, BecomesKeeps DEF m

\* The call goes elsewhere under its lease.
LEMMA MoveKeeps ==
    ASSUME WorkerInv, NEW c \in Call, NEW pc \in {"executing", "blocked", "stopping"},
           NEW outcome \in Outcome, call[c].tx.by # "main", call[c].pc \in Holding,
           Becomes(c, [call[c] EXCEPT !.pc = pc, !.outcome = outcome])
    PROVE  WorkerInv'
<1> DEFINE m == [call[c] EXCEPT !.pc = pc, !.outcome = outcome]
<1>1. /\ m \in Memory /\ m.pc = pc /\ m.view = call[c].view /\ m.tx = call[c].tx
      /\ m.heartbeat = call[c].heartbeat
  BY CallKnown DEF Memory, Pc
<1>2. call[c].tx.by = "heartbeat" => m.heartbeat \in {"starting", "beating"}
  BY <1>1, CallKnown DEF CallFacts, MemoryFacts, TxFacts
<1> HIDE DEF m
<1>3. CallFacts(c, m, store, clock, setting.stepsBack)
  BY <1>1, <1>2, CallKnown, MoveFacts DEF Holding
<1> QED
  BY <1>1, <1>3, BecomesKeeps DEF m

\* Waiting for the first renewal before the callback keeps the invariant.
LEMMA ReadyKeeps ==
    ASSUME WorkerInv, NEW c \in Call, Ready(c) PROVE WorkerInv'
<1>1. call[c].pc \in Holding /\ call[c].tx.by # "main"
  BY NotProposing DEF Ready, Holding
<1>2. /\ call[c].outcome \in Outcome
      /\ [call[c] EXCEPT !.pc = "executing"]
             = [call[c] EXCEPT !.pc = "executing", !.outcome = call[c].outcome]
  BY CallKnown DEF Memory
<1> QED
  BY <1>1, <1>2, LostKeeps, MoveKeeps DEF Ready, Outcome

\* Waiting for the driver's mutex keeps the invariant.
LEMMA WaitKeeps ==
    ASSUME WorkerInv, NEW c \in Call, Block(c) \/ Unblock(c) PROVE WorkerInv'
<1>1. call[c].pc \in Holding /\ call[c].tx.by # "main"
  BY FreshMemory DEF Block, Unblock, Holding
<1>2. /\ call[c].outcome \in Outcome
      /\ \A pc : [call[c] EXCEPT !.pc = pc]
                   = [call[c] EXCEPT !.pc = pc, !.outcome = call[c].outcome]
  BY CallKnown DEF Memory
<1> QED
  BY <1>1, <1>2, MoveKeeps DEF Block, Unblock

\* The end of an execution keeps the invariant, whatever ends it.
LEMMA ExecutionEnds ==
    ASSUME WorkerInv, NEW c \in Call,
           CallbackReturns(c) \/ LeaseLost(c) \/ GraceExpires(c)
    PROVE  WorkerInv'
<1>1. call[c].pc \in Holding /\ call[c].tx.by # "main"
  BY DEF CallbackReturns, LeaseLost, GraceExpires, Holding
<1> QED
  BY <1>1, LostKeeps, MoveKeeps DEF CallbackReturns, LeaseLost, GraceExpires, Outcome

\* Stopping the heartbeat keeps the invariant.
LEMMA StopHeartbeatKeeps ==
    ASSUME WorkerInv, NEW c \in Call, StopHeartbeat(c) PROVE WorkerInv'
<1>1. call[c].tx.by # "main"
  BY NotProposing DEF StopHeartbeat
<1>2. CASE /\ call[c].heartbeat \in {"failed", "stopped"}
           /\ Becomes(c, FinishClaim(call[c], call[c].outcome))
  <2>1. call[c].tx.by = "none" /\ call[c].outcome \in Outcome
    BY <1>1, <1>2, CallKnown DEF CallFacts, MemoryFacts, TxFacts, Tx, Memory
  <2> QED
    BY <1>2, <2>1, CallKnown, FinishFacts, BecomesKeeps
<1> QED
  BY <1>1, <1>2, LostKeeps DEF StopHeartbeat

\* A transition of the callback is refused, poisons the driver or is proposed.
LEMMA ProposeKeeps ==
    ASSUME WorkerInv, NEW c \in Call, NEW kind \in {"begin", "end", "finish"},
           NEW doing, Propose(c, kind, doing)
    PROVE  WorkerInv'
<1> DEFINE e == WorkEvent(kind, c)
<1>1. call[c].pc = "executing" /\ call[c].tx.by = "none"
  BY FreshMemory DEF Propose, Healthy
<1>2. CASE Becomes(c, Poison(call[c]))
  BY <1>2, CallKnown, FlagFacts, BecomesKeeps DEF Doing
<1>3. CASE Becomes(c, call[c])
  BY <1>3, CallKnown, BecomesKeeps
<1>4. CASE Becomes(c, Proposed(call[c], "main", e))
  <2>1. e \in Event /\ e.by = c /\ e.kind \in MainKinds(call[c].pc) /\ call[c].pc \in Pc
    BY <1>1, EventTypes DEF Kind, WorkEvent, LeaseEvent, MainKinds, Pc
  <2> HIDE DEF e
  <2>2. /\ Proposed(call[c], "main", e) \in Memory
        /\ CallFacts(c, Proposed(call[c], "main", e), store, clock, setting.stepsBack)
    BY <1>1, <2>1, CallKnown, ProposedFacts, ProposedKeepsPc
  <2> QED
    BY <1>4, <2>2, BecomesKeeps
<1> QED
  BY <1>2, <1>3, <1>4 DEF Propose

\* The effect of a callback keeps the invariant.
LEMMA EffectKeeps ==
    ASSUME WorkerInv, NEW c \in Call, Act(c) \/ Fizzle(c) PROVE WorkerInv'
<1>1. effects \in Nat
  BY DEF WorkerInv, TypeOK
<1> DEFINE acted == [call[c] EXCEPT !.doing = "acted"]
           none  == [call[c] EXCEPT !.doing = "none"]
<1>2. /\ acted \in Memory /\ CallFacts(c, acted, store, clock, setting.stepsBack)
      /\ none \in Memory /\ CallFacts(c, none, store, clock, setting.stepsBack)
  BY CallKnown, FlagFacts DEF Doing
<1>3. CASE Act(c)
  <2>1. /\ call' = [call EXCEPT ![c] = acted] /\ effects' \in Nat
        /\ UNCHANGED <<setting, clock, store, host, faults>>
    BY <1>1, <1>3 DEF Act
  <2> HIDE DEF acted
  <2> QED
    BY <1>2, <2>1, MemoryKeeps
<1>4. CASE Fizzle(c)
  <2>1. Becomes(c, none)
    BY <1>4 DEF Fizzle
  <2> HIDE DEF none
  <2> QED
    BY <1>2, <2>1, BecomesKeeps
<1> QED
  BY <1>3, <1>4

-----------------------------------------------------------------------------
(* Operators, and the release of the lease. *)

\* Deciding how the call ends keeps the invariant.
LEMMA DecideKeeps ==
    ASSUME WorkerInv, NEW c \in Call, Decide(c) PROVE WorkerInv'
<1>1. PICK decision \in Decision :
          Becomes(c, [call[c] EXCEPT !.pc = "polling", !.decision = decision])
  BY DEF Decide, Decision
<1> DEFINE m == [call[c] EXCEPT !.pc = "polling", !.decision = decision]
<1>2. /\ m \in Memory /\ m.pc = "polling" /\ m.view = call[c].view /\ m.tx = call[c].tx
      /\ m.heartbeat = call[c].heartbeat /\ m.polls = call[c].polls
  BY CallKnown DEF Memory, Pc
<1>3. call[c].pc = "deciding"
  BY DEF Decide
<1> HIDE DEF m
<1>4. CallFacts(c, m, store, clock, setting.stepsBack)
  BY <1>2, <1>3, CallKnown
  DEF CallFacts, MemoryFacts, TxFacts, OwnFacts, KnownFacts, MainKinds, Unthreaded,
      BeforeClaim, Holding
<1> QED
  BY <1>1, <1>2, <1>4, BecomesKeeps DEF m

\* Proposing an operator's decision keeps the invariant.
LEMMA ReconcileKeeps ==
    ASSUME WorkerInv, NEW c \in Call, Reconcile(c) PROVE WorkerInv'
<1> DEFINE e == WorkEvent(call[c].decision, c)
<1>1. call[c].pc = "reconciling" /\ call[c].tx.by = "none" /\ call[c].heartbeat = "off"
  BY CallKnown, FreshMemory DEF Reconcile, CallFacts, MemoryFacts, TxFacts, Unthreaded
<1>2. CASE Becomes(c, FinishClaim(call[c], "error"))
  BY <1>1, <1>2, CallKnown, FinishFacts, BecomesKeeps DEF Outcome
<1>3. CASE Becomes(c, FinishClaim(Poison(call[c]), "error"))
  <2> DEFINE m == Poison(call[c])
  <2>1. m \in Memory /\ Agree(call[c], m) /\ CallFacts(c, m, store, clock, setting.stepsBack)
    BY CallKnown, FlagFacts DEF Doing
  <2> HIDE DEF m
  <2>2. /\ FinishClaim(m, "error") \in Memory
        /\ CallFacts(c, FinishClaim(m, "error"), store, clock, setting.stepsBack)
    BY <1>1, <2>1, FinishFacts DEF Agree, CallFacts, Outcome
  <2> QED
    BY <1>3, <2>2, BecomesKeeps DEF m
<1>4. CASE Legal(call[c].view, e) /\ Becomes(c, Proposed(call[c], "main", e))
  <2>1. call[c].decision \in {"completed", "safe_to_retry"}
    BY <1>4, CallKnown DEF Legal, WorkEvent, LeaseEvent, Memory, Decision
  <2>2. e \in Event /\ e.by = c /\ e.kind \in MainKinds(call[c].pc) /\ call[c].pc \in Pc
    BY <1>1, <2>1, EventTypes DEF Kind, WorkEvent, LeaseEvent, MainKinds, Pc
  <2> HIDE DEF e
  <2>3. /\ Proposed(call[c], "main", e) \in Memory
        /\ CallFacts(c, Proposed(call[c], "main", e), store, clock, setting.stepsBack)
    BY <1>1, <2>2, CallKnown, ProposedFacts, ProposedKeepsPc
  <2> QED
    BY <1>4, <2>3, BecomesKeeps
<1> QED
  BY <1>2, <1>3, <1>4 DEF Reconcile

\* Proposing to give the lease back keeps the invariant.
LEMMA ReleaseKeeps ==
    ASSUME WorkerInv, NEW c \in Call, Release(c) PROVE WorkerInv'
<1> DEFINE m == [call[c] EXCEPT !.view = store, !.poisoned = FALSE]
           e == LeaseEvent("release", c, clock, clock)
<1>1. call[c].pc = "releasing" /\ call[c].tx.by = "none" /\ call[c].tx = NoTx
  BY FreshMemory DEF Release
<1>2. CASE Becomes(c, Return(call[c], "lost"))
  BY <1>1, <1>2, LostKeeps
<1>3. CASE Becomes(c, Proposed(m, "main", e))
  <2>1. /\ m \in Memory /\ m.pc = "releasing" /\ m.view = store /\ m.tx = NoTx
        /\ m.tx.by = "none" /\ m.heartbeat = call[c].heartbeat
    BY <1>1, CallKnown DEF Memory
  <2>2. e \in Event /\ e.by = c /\ e.kind \in MainKinds("releasing")
    BY CallKnown, EventTypes DEF Kind, LeaseEvent, MainKinds
  <2> HIDE DEF m, e
  <2>3. CallFacts(c, m, store, clock, setting.stepsBack)
    BY <1>1, <2>1, CallKnown, BehindItself
    DEF CallFacts, MemoryFacts, TxFacts, OwnFacts, KnownFacts, Unthreaded, BeforeClaim, Holding
  <2>4. "releasing" \in Pc
    BY DEF Pc
  <2>5. /\ [Proposed(m, "main", e) EXCEPT !.pc = "releasing"] \in Memory
        /\ CallFacts(c, [Proposed(m, "main", e) EXCEPT !.pc = "releasing"],
                     store, clock, setting.stepsBack)
    BY <2>1, <2>2, <2>3, <2>4, ProposedFacts
  <2>6. [Proposed(m, "main", e) EXCEPT !.pc = "releasing"] = Proposed(m, "main", e)
    BY <2>1, ProposedKeepsPc
  <2> QED
    BY <1>3, <2>5, <2>6, BecomesKeeps DEF m, e
<1> QED
  BY <1>2, <1>3 DEF Release

-----------------------------------------------------------------------------
(* The environment. *)

\* A crash keeps the invariant.
LEMMA CrashKeeps ==
    ASSUME WorkerInv, NEW c \in Call, Crash(c) PROVE WorkerInv'
<1> DEFINE m == [Fresh(c) EXCEPT !.pc = "crashed", !.doing = call[c].doing]
<1>1. m \in Memory
  BY CallKnown, FreshMemory DEF Memory, Pc
<1>2. m.pc = "crashed" /\ m.view = NewRun /\ m.tx = NoTx /\ m.heartbeat = "off"
  BY DEF Fresh
<1>3. Behind(NewRun, store) /\ NoTx.by = "none" /\ Becomes(c, m)
  BY FreshMemory DEF WorkerInv, Crash
<1> HIDE DEF m
<1>4. CallFacts(c, m, store, clock, setting.stepsBack)
  BY <1>2, <1>3
  DEF CallFacts, MemoryFacts, TxFacts, OwnFacts, KnownFacts, BeforeClaim, Holding
<1> QED
  BY <1>1, <1>3, <1>4, BecomesKeeps

\* The unleased host appends its event where nobody holds the lease, or nothing.
LEMMA HostKeeps ==
    ASSUME WorkerInv, HostLoad \/ HostCas PROVE WorkerInv'
<1>1. TypeOK /\ store \in Run /\ host \in Run /\ NewRun \in Run /\ NewRun.lease = NoLease
  BY FreshRun DEF WorkerInv, TypeOK
<1>2. CASE HostLoad
  <2>1. Behind(store, store)
    BY <1>1, BehindItself
  <2> QED
    BY <1>1, <1>2, <2>1 DEF HostLoad, WorkerInv, TypeOK
<1>3. CASE HostCas
  <2> DEFINE e == WorkEvent("resume", Nobody)
  <2>1. e \in Event /\ e.by = Nobody
    BY EventTypes DEF Kind, WorkEvent, LeaseEvent
  <2>2. PICK r \in CasResults(host, Apply(host, e), Nobody) :
            store' = r.store /\ faults' = r.faults
    BY <1>3 DEF HostCas
  <2>3. host' = NewRun /\ UNCHANGED <<setting, clock, call, effects>>
    BY <1>3 DEF HostCas
  <2> HIDE DEF e
  <2>4. Writes(Nobody, e, Nobody, store') /\ faults' \in 0..setting.maxFaults
    BY <1>1, <2>1, <2>2, CasAppends DEF Writes, WorkerInv
  <2>5. store' \in Run /\ Behind(NewRun, store')
    BY <1>1, <2>1, <2>4, ApplyAppends, BehindAppended DEF Writes, WorkerInv
  <2>6. ASSUME NEW c \in Call
        PROVE  CallFacts(c, call[c], store', clock, setting.stepsBack)
    <3>1. CallFacts(c, call[c], store, clock, setting.stepsBack) /\ call[c] \in Memory
      BY CallKnown
    <3> QED
      BY <1>1, <2>1, <2>4, <3>1, NobodyIsNoCall, OthersKeep
  <2>7. TypeOK'
    BY <1>1, <2>3, <2>4, <2>5 DEF TypeOK
  <2> QED
    BY <1>1, <2>3, <2>5, <2>6, <2>7 DEF WorkerInv
<1> QED
  BY <1>2, <1>3

\* Only where the clock may be set back may it fall behind an expiry again.
LEMMA TickKeeps == ASSUME WorkerInv, Tick PROVE WorkerInv'
<1>1. /\ setting \in Setting /\ setting.maxTime \in Nat /\ clock \in 0..setting.maxTime
  BY SettingsFit DEF WorkerInv, TypeOK
<1>2. clock' \in 0..setting.maxTime /\ (setting.stepsBack \/ clock <= clock')
  BY <1>1 DEF Tick
<1>3. ASSUME NEW c \in Call
      PROVE  CallFacts(c, call[c], store, clock', setting.stepsBack)
  <2>1. call[c].view.lease.expires \in Nat
    BY CallKnown DEF Lease, Time
  <2>2. ~setting.stepsBack /\ KnownFacts(c, call[c], store, clock)
            => KnownFacts(c, call[c], store, clock')
    BY <1>1, <1>2, <2>1 DEF KnownFacts
  <2> QED
    BY <2>2, CallKnown DEF CallFacts, MemoryFacts
<1> QED
  BY <1>2, <1>3 DEF Tick, WorkerInv, TypeOK

-----------------------------------------------------------------------------
(* The theorems. *)

\* Every step keeps the invariant.
LEMMA WorkerInvStep == ASSUME WorkerInv, [Next]_vars PROVE WorkerInv'
<1>1. CASE UNCHANGED vars
  BY <1>1 DEF vars, WorkerInv, TypeOK
<1>2. ASSUME NEW c \in Call, MainStep(c) PROVE WorkerInv'
  BY <1>2, LoadKeeps, ClaimKeeps, ClaimCasKeeps, DisposeKeeps, DisposeCasKeeps, ReadyKeeps,
     ExecutionEnds, StopHeartbeatKeeps, ReconcileKeeps, ReconcileCasKeeps, ReleaseKeeps,
     ReleaseCasKeeps, WorkCasKeeps, WaitKeeps DEF MainStep
<1>3. ASSUME NEW c \in Call, Cancel(c) PROVE WorkerInv'
  BY <1>3, CallKnown, FlagFacts, BecomesKeeps DEF Cancel, Doing
<1>4. ASSUME NEW c \in Call, HeartbeatStep(c) PROVE WorkerInv'
  BY <1>4, BeatKeeps, BeatCasKeeps, BeatStopKeeps DEF HeartbeatStep
<1>5. ASSUME NEW c \in Call, CallbackStep(c) PROVE WorkerInv'
  BY <1>5, ProposeKeeps, EffectKeeps, ExecutionEnds, WaitKeeps DEF CallbackStep, Begin, End, FinishRun
<1> QED
  BY <1>1, <1>2, <1>3, <1>4, <1>5, CrashKeeps, DecideKeeps, HostKeeps, TickKeeps
  DEF Next, Call

\* The invariant holds at the start.
LEMMA WorkerInvInit == Init => WorkerInv
<1> SUFFICES ASSUME Init PROVE WorkerInv
  OBVIOUS
<1>1. /\ setting.maxTime \in Nat /\ setting.maxFaults \in Nat
  BY SettingsFit DEF Init
<1>2. TypeOK
  BY <1>1, FreshMemory, FreshRun DEF Init, TypeOK
<1>3. Behind(NewRun, NewRun) /\ NewRun.lease = NoLease
  BY FreshRun, BehindItself
<1>4. ASSUME NEW c \in Call PROVE CallFacts(c, Fresh(c), NewRun, clock, setting.stepsBack)
  <2>1. /\ Fresh(c).pc \in {"deciding", "polling"} /\ Fresh(c).view = NewRun
        /\ Fresh(c).tx = NoTx /\ Fresh(c).heartbeat = "off" /\ Fresh(c).polls = 0
    BY DEF Fresh
  <2>2. NewRun.lease.id # c
    BY <1>3, NobodyIsNoCall DEF NoLease
  <2> QED
    BY <1>3, <2>1, <2>2, FreshMemory, UnclaimedAtFirst, PollsAreBounded
    DEF CallFacts, MemoryFacts, TxFacts, OwnFacts, KnownFacts, BeforeClaim, Holding
<1> QED
  BY <1>2, <1>3, <1>4 DEF Init, WorkerInv

\* WorkerInv holds in every reachable state.
THEOREM WorkerInvariant == Spec => []WorkerInv
<1>1. WorkerInv /\ [Next]_vars => WorkerInv'
  BY WorkerInvStep
<1> QED
  BY <1>1, WorkerInvInit, PTL DEF Spec

\* What compare_and_swap acknowledged to a driver stays in the store: no other
\* call, host or hidden commit ever replaces it.
THEOREM AcknowledgedWorkStays == Spec => []DriverIsBehindStore
<1>1. WorkerInv => DriverIsBehindStore
  BY DEF WorkerInv, CallFacts, MemoryFacts, OwnFacts, Behind, DriverIsBehindStore
<1> QED
  BY <1>1, WorkerInvariant, PTL

\* A call that does not report its lease lost has given it back when it returns,
\* on every path through finish_claim and release_authority; only an I/O error of
\* the claim itself, returned before any of them, may leave a lease behind.
THEOREM LeasesAreGivenBack == Spec => []NoStrandedLease
<1>1. WorkerInv => NoStrandedLease
  BY DEF WorkerInv, CallFacts, MemoryFacts, OwnFacts, NoStrandedLease
<1> QED
  BY <1>1, WorkerInvariant, PTL

\* The store's clock is never set back.
ClockAdvances == \A s \in Setting : ~s.stepsBack

\* Where the store's clock only advances, a worker that still executes after its
\* lease was taken over is past the expiry that it knows of, whatever renewals of
\* it were committed without an answer.
THEOREM OverlapsAreExpired == ClockAdvances /\ Spec => []OverlapOnlyAfterExpiry
<1> SUFFICES ASSUME ClockAdvances PROVE Spec => []OverlapOnlyAfterExpiry
  OBVIOUS
<1>1. WorkerInv => OverlapOnlyAfterExpiry
  BY DEF ClockAdvances, WorkerInv, TypeOK, CallFacts, MemoryFacts, KnownFacts, Holding,
         OverlapOnlyAfterExpiry, Call
<1> QED
  BY <1>1, WorkerInvariant, PTL

\* A step leaves the store alone or is a compare-and-swap that appends one event.
LEMMA SwapOrNothing ==
    ASSUME WorkerInv, [Next]_vars
    PROVE  store' = store \/ \E e \in Event : store' = Apply(store, e)
<1>1. ASSUME NEW c \in Call, NEW authority,
             \E r \in CasResults(call[c].view, Apply(call[c].view, call[c].tx.event),
                                 authority) : store' = r.store
      PROVE  store' = store \/ \E e \in Event : store' = Apply(store, e)
  <2>1. /\ call[c].view \in Run /\ Behind(call[c].view, store) /\ call[c].tx.event \in Event
    BY CallKnown DEF CallFacts, MemoryFacts, OwnFacts, Memory, Tx
  <2>2. PICK r \in CasResults(call[c].view, Apply(call[c].view, call[c].tx.event), authority) :
            store' = r.store
    BY <1>1
  <2> QED
    BY <2>1, <2>2, CasAppends DEF WorkerInv
<1>2. ASSUME NEW c \in Call, MainStep(c)
      PROVE  store' = store \/ \E e \in Event : store' = Apply(store, e)
  BY <1>1, <1>2
  DEF MainStep, Load, Claim, ClaimCas, Dispose, DisposeCas, Ready, LeaseLost, GraceExpires,
      StopHeartbeat, Reconcile, ReconcileCas, Release, ReleaseCas, WorkCas, Unblock, Becomes, Cas
<1>3. ASSUME NEW c \in Call, HeartbeatStep(c)
      PROVE  store' = store \/ \E e \in Event : store' = Apply(store, e)
  BY <1>1, <1>3 DEF HeartbeatStep, Beat, BeatCas, BeatStop, Becomes, Cas
<1>4. CASE HostCas
  <2>1. WorkEvent("resume", Nobody) \in Event
    BY EventTypes DEF Kind
  <2>2. PICK r \in CasResults(host, Apply(host, WorkEvent("resume", Nobody)), Nobody) :
            store' = r.store
    BY <1>4 DEF HostCas
  <2> QED
    BY <2>1, <2>2, CasAppends DEF WorkerInv, TypeOK
<1> QED
  BY <1>2, <1>3, <1>4
  DEF Next, vars, Call, Cancel, Crash, Decide, CallbackStep, Begin, End, FinishRun, Propose,
      Block, Act, Fizzle, CallbackReturns, HostLoad, Tick, Becomes

\* The log of the run only grows, and by one event at a time: compare_and_swap
\* replaces nothing, whatever stale copy its caller worked on, and hides nothing
\* that an I/O error left committed.
THEOREM StoreIsAppendOnly == Spec => [][AppendOnly(store, store')]_vars
<1>1. WorkerInv /\ [Next]_vars => [AppendOnly(store, store')]_vars
  <2> SUFFICES ASSUME WorkerInv, [Next]_vars PROVE AppendOnly(store, store')
    OBVIOUS
  <2>1. store \in Run
    BY DEF WorkerInv, TypeOK
  <2>2. Behind(store, store)
    BY <2>1, BehindItself
  <2> QED
    BY <2>1, <2>2, SwapOrNothing, BehindAppended DEF Behind
<1> QED
  BY <1>1, WorkerInvariant, PTL DEF Spec

-----------------------------------------------------------------------------
(* The effect of the unsafe activity.  An operator's decision is about what *)
(* the operator saw, and reconcile_activity does not check that it still    *)
(* holds: operators have to take turns.                                     *)

\* Where an operator's call may still act on what it was called with.
Ongoing == {"polling", "loaded", "claiming", "claimed", "disposing", "reconciling"}

\* An operator decides while no other one is still acting on a decision.
OperatorsTakeTurns ==
    \A x, y \in Operator : call[x].pc \in Ongoing /\ call[y].pc \in Ongoing => x = y

\* The run holds the activity's outcome or an attempt nobody may repeat.
Accounted(r) == r.done \/ r.phase \in {"busy", "reconcile"}

\* The effect happened, or may be happening.
Touched == effects > 0 \/ \E c \in Call : call[c].doing = "acting"

\* What a call has proposed is what its copy of the run allows, and only
\* workers execute.
EffectFacts(c, m) ==
    /\ m.tx.by = "main" =>
           /\ m.tx.event.kind = "begin" => m.view.phase = "open" /\ ~m.view.done
           /\ m.tx.event.kind = "finish" => m.view.phase = "open"
           /\ m.tx.event.kind = "safe_to_retry" => m.decision = "safe_to_retry"
    /\ m.pc = "reconciling" => c \in Operator
    /\ c \in Operator => m.doing = "none" /\ m.pc \notin {"readying", "executing", "blocked"}

\* What an operator with pc and decision still relies on.
DecisionStands(pc, decision) ==
    pc \in Ongoing => /\ Accounted(store)
                      /\ decision = "safe_to_retry" => ~Touched

EffectInv ==
    /\ Touched => Accounted(store)
    /\ effects \in {0, 1}
    /\ \A c \in Call : call[c].doing = "acting" => effects = 0
    /\ \A c, d \in Call : call[c].doing = "acting" /\ call[d].doing = "acting" => c = d
    /\ \A c \in Call : EffectFacts(c, call[c])
    /\ \A o \in Operator : DecisionStands(call[o].pc, call[o].decision)
    /\ host # NewRun => host.phase = "paused"

\* An event other than the decision to retry keeps the activity accounted for.
LEMMA AccountedStays ==
    ASSUME NEW r \in Run, NEW e \in Event, Accounted(r), e.kind # "safe_to_retry",
           e.kind = "finish" => r.phase = "open",
           e.kind = "resume" => r.phase = "paused"
    PROVE  Accounted(Apply(r, e))
<1>1. /\ Apply(r, e).phase = PhaseAfter(r.phase, e)
      /\ Apply(r, e).done = (r.done \/ e.kind \in {"end", "completed"})
  BY DEF Apply
<1>2. CASE r.done \/ e.kind \in {"end", "completed"}
  BY <1>1, <1>2 DEF Accounted
<1>3. CASE ~r.done /\ e.kind \notin {"end", "completed"}
  <2>1. r.phase \in {"busy", "reconcile"} /\ e.kind \notin {"resume", "finish"}
    BY <1>3 DEF Accounted
  <2>2. PhaseAfter(r.phase, e) \in {"busy", "reconcile"}
    BY <1>3, <2>1 DEF PhaseAfter
  <2> QED
    BY <1>1, <2>2 DEF Accounted
<1> QED
  BY <1>2, <1>3

\* After an attempt begins, or an outcome is recorded, the activity is accounted for.
LEMMA AccountedFrom ==
    ASSUME NEW r \in Run, NEW e \in Event,
           e.kind \in {"begin", "end", "quarantine", "completed"}
    PROVE  Accounted(Apply(r, e))
BY DEF Accounted, Apply, PhaseAfter

\* A step of a call that begins no effect and writes nothing.
LEMMA EffectMemory ==
    ASSUME WorkerInv, EffectInv, NEW c \in Call, NEW m, Becomes(c, m),
           EffectFacts(c, m), m.doing \in {call[c].doing, "none"},
           c \in Operator => DecisionStands(m.pc, m.decision)
    PROVE  EffectInv'
<1>1. /\ call \in [Call -> Memory] /\ UNCHANGED <<store, host, effects>>
      /\ call' = [call EXCEPT ![c] = m]
  BY DEF WorkerInv, TypeOK, Becomes
<1>2. \A d \in Call : call'[d] = IF d = c THEN m ELSE call[d]
  BY <1>1
<1>3. \A d \in Call : call'[d].doing = "acting" => call[d].doing = "acting"
  BY <1>2
<1>4. Touched' => Touched
  BY <1>1, <1>3 DEF Touched
<1>5. \A d \in Call : EffectFacts(d, call'[d])
  BY <1>2 DEF EffectInv
<1>6. \A o \in Operator : DecisionStands(call'[o].pc, call'[o].decision)
  BY <1>2 DEF EffectInv, Call
<1>7. \A o \in Operator : DecisionStands(call[o].pc, call[o].decision)'
  BY <1>1, <1>4, <1>6 DEF DecisionStands
<1>8. \A d \in Call : EffectFacts(d, call[d])'
  BY <1>5 DEF EffectFacts
<1> QED
  BY <1>1, <1>3, <1>4, <1>7, <1>8 DEF EffectInv

\* A call that goes nowhere new relies on nothing new.
LEMMA EffectMoves ==
    ASSUME WorkerInv, EffectInv, NEW c \in Call, NEW m, Becomes(c, m),
           EffectFacts(c, m), m.doing \in {call[c].doing, "none"},
           m.pc \in Ongoing => call[c].pc \in Ongoing /\ m.decision = call[c].decision
    PROVE  EffectInv'
<1>1. c \in Operator => DecisionStands(m.pc, m.decision)
  BY DEF EffectInv, DecisionStands
<1> QED
  BY <1>1, EffectMemory

\* A swap that comes through appends what its call has proposed to the run that
\* the call knows.
Swapped(c, m) ==
    /\ call' = [call EXCEPT ![c] = m]
    /\ UNCHANGED <<host, effects>>
    /\ \/ store' = store
       \/ /\ store' = Apply(store, call[c].tx.event)
          /\ call[c].view = store /\ call[c].tx.by # "none"
    /\ \/ m.doing \in {call[c].doing, "none"}
       \/ /\ call[c].tx.by = "main" /\ call[c].tx.event.kind = "begin"
          /\ store' = Apply(store, call[c].tx.event)
          /\ call[c].view = store /\ c \in Worker

\* What a swap leaves of the account of the activity.
LEMMA SwapAccounts ==
    ASSUME WorkerInv, EffectInv, NEW c \in Call, NEW m, Swapped(c, m)
    PROVE  /\ Touched /\ Accounted(store) => Accounted(store')
           /\ call[c].tx.event.kind # "safe_to_retry" /\ Accounted(store) => Accounted(store')
           /\ store' # store /\ call[c].tx.event.kind = "safe_to_retry" =>
                  c \in Operator /\ call[c].pc = "reconciling"
<1> DEFINE e == call[c].tx.event
<1>1. /\ store \in Run /\ e \in Event /\ call[c].tx \in Tx
      /\ EffectFacts(c, call[c]) /\ TxFacts(c, call[c])
  BY CallKnown DEF EffectInv, CallFacts, MemoryFacts, Tx
<1>2. CASE store' = store
  BY <1>2
<1>3. CASE /\ store' = Apply(store, e) /\ call[c].view = store /\ call[c].tx.by # "none"
  <2>1. call[c].tx.by \in {"main", "heartbeat"}
    BY <1>1, <1>3 DEF Tx
  <2>2. /\ e.kind # "resume"
        /\ e.kind = "finish" => store.phase = "open"
        /\ e.kind = "safe_to_retry" =>
               call[c].decision = "safe_to_retry" /\ call[c].pc = "reconciling"
    BY <1>1, <1>3, <2>1 DEF EffectFacts, TxFacts, MainKinds
  <2>3. e.kind = "safe_to_retry" => c \in Operator /\ call[c].pc = "reconciling"
    BY <1>1, <2>2 DEF EffectFacts
  <2>4. e.kind = "safe_to_retry" => ~Touched
    BY <2>2, <2>3 DEF EffectInv, DecisionStands, Ongoing
  <2>5. e.kind # "safe_to_retry" /\ Accounted(store) => Accounted(store')
    BY <1>1, <1>3, <2>2, AccountedStays
  <2> QED
    BY <2>3, <2>4, <2>5
<1> QED
  BY <1>2, <1>3 DEF Swapped

\* A swap keeps the invariant.
LEMMA EffectSwap ==
    ASSUME WorkerInv, EffectInv, OperatorsTakeTurns, NEW c \in Call, NEW m,
           Swapped(c, m), EffectFacts(c, m),
           m.pc \in Ongoing =>
               /\ call[c].pc \in Ongoing /\ m.decision = call[c].decision
               /\ call[c].pc # "reconciling"
    PROVE  EffectInv'
<1> DEFINE e == call[c].tx.event
           starts == m.doing \notin {call[c].doing, "none"}
<1>1. /\ call \in [Call -> Memory] /\ store \in Run /\ e \in Event
  BY CallKnown DEF WorkerInv, TypeOK, Tx
<1>2. \A d \in Call : call'[d] = IF d = c THEN m ELSE call[d]
  BY <1>1 DEF Swapped
<1>3. \A d \in Call : EffectFacts(d, call[d])'
  BY <1>2 DEF EffectInv, EffectFacts
<1>4. host' # NewRun => host'.phase = "paused"
  BY DEF EffectInv, Swapped
<1>5. \A o \in Operator : call'[o].pc \in Ongoing =>
          /\ call[o].pc \in Ongoing /\ call'[o].decision = call[o].decision
          /\ Accounted(store)
          /\ call[o].decision = "safe_to_retry" => ~Touched
  BY <1>2 DEF EffectInv, DecisionStands, Call
<1>6. ASSUME NEW o \in Operator, call'[o].pc \in Ongoing
      PROVE  Accounted(store')
  <2>1. CASE store' # store /\ e.kind = "safe_to_retry"
    <3>1. c \in Operator /\ call[c].pc = "reconciling"
      BY <2>1, SwapAccounts
    <3>2. o = c
      BY <1>5, <1>6, <3>1 DEF OperatorsTakeTurns, Ongoing
    <3> QED
      BY <1>2, <1>6, <3>1, <3>2 DEF Call
  <2> QED
    BY <1>5, <1>6, <2>1, SwapAccounts
<1>7. CASE ~starts
  <2>1. \A d \in Call : call'[d].doing = "acting" => call[d].doing = "acting"
    BY <1>2, <1>7
  <2>2. Touched' => Touched
    BY <2>1 DEF Touched, Swapped
  <2>3. Touched' => Accounted(store)'
    BY <2>2, SwapAccounts DEF EffectInv, Accounted
  <2>4. \A o \in Operator : DecisionStands(call[o].pc, call[o].decision)'
    BY <1>5, <1>6, <2>2 DEF DecisionStands, Accounted
  <2> QED
    BY <1>3, <1>4, <2>1, <2>3, <2>4 DEF EffectInv, Swapped
<1>8. CASE starts
  <2>1. /\ call[c].tx.by = "main" /\ e.kind = "begin" /\ store' = Apply(store, e)
        /\ call[c].view = store /\ c \in Worker
    BY <1>8 DEF Swapped
  <2>2. store.phase = "open" /\ ~store.done
    BY <2>1 DEF EffectInv, EffectFacts
  <2>3. ~Accounted(store) /\ ~Touched
    BY <2>2 DEF EffectInv, Accounted
  <2>4. Accounted(store')
    BY <1>1, <2>1, AccountedFrom
  <2>5. \A d \in Call : call'[d].doing = "acting" => d = c
    BY <1>2, <2>3 DEF Touched
  <2>6. effects' = 0
    BY <2>3 DEF Touched, Swapped, EffectInv
  <2>7. \A o \in Operator : DecisionStands(call[o].pc, call[o].decision)'
    BY <1>5, <2>3 DEF DecisionStands
  <2> QED
    BY <1>3, <1>4, <2>4, <2>5, <2>6, <2>7 DEF EffectInv, Accounted
<1> QED
  BY <1>7, <1>8

\* What is known of the effect in a call's memory.
LEMMA EffectKnown ==
    ASSUME WorkerInv, EffectInv, NEW c \in Call
    PROVE  /\ call[c] \in Memory /\ EffectFacts(c, call[c]) /\ TxFacts(c, call[c])
           /\ call[c].tx \in Tx /\ (call[c].tx = NoTx => call[c].tx.by = "none")
BY CallKnown, FreshMemory DEF EffectInv, CallFacts, MemoryFacts

\* Steps that propose nothing and start no callback.
LEMMA EffectQuietSteps ==
    ASSUME WorkerInv, EffectInv, NEW c \in Call, NEW m, Becomes(c, m),
           m.tx.by # "main", m.doing = call[c].doing, m.decision = call[c].decision,
           m.pc = "reconciling" => c \in Operator,
           m.pc \in {"readying", "executing", "blocked"} => c \notin Operator,
           m.pc \in Ongoing => call[c].pc \in Ongoing
    PROVE  EffectInv'
<1>1. EffectFacts(c, m)
  BY EffectKnown DEF EffectFacts
<1> QED
  BY <1>1, EffectMoves

\* Acquiring the lease, and what Disposed makes of a call, are no effects.
LEMMA EffectAcquire ==
    ASSUME WorkerInv, EffectInv, NEW c \in Call, Load(c) \/ Claim(c) \/ Dispose(c)
    PROVE  EffectInv'
<1> DEFINE n == call[c]
<1>1. n \in Memory /\ TxFacts(c, n) /\ EffectFacts(c, n)
  BY EffectKnown
<1>2. n.pc \in {"polling", "loaded", "claimed"} /\ n.pc \in Ongoing /\ n.tx.by # "main"
  BY <1>1 DEF Load, Claim, Dispose, TxFacts, MainKinds, Ongoing
<1>3. CASE Load(c)
  <2>1. Becomes(c, Return(n, "cancelled")) \/
        Becomes(c, [n EXCEPT !.pc = "loaded", !.polls = @ + 1, !.view = store, !.poisoned = FALSE])
    BY <1>3 DEF Load
  <2>2. CASE Becomes(c, Return(n, "cancelled"))
    BY <1>1, <1>2, <2>2, EffectQuietSteps DEF Return, Memory, Ongoing
  <2>3. CASE Becomes(c, [n EXCEPT !.pc = "loaded", !.polls = @ + 1, !.view = store,
                                  !.poisoned = FALSE])
    BY <1>1, <1>2, <2>3, EffectQuietSteps DEF Memory, Ongoing
  <2> QED
    BY <2>1, <2>2, <2>3
<1>4. CASE Claim(c)
  <2> DEFINE e == LeaseEvent("claim", c, clock, clock + LeaseTtl)
             m == [Proposed(n, "main", e) EXCEPT !.pc = "claiming"]
  <2>1. Becomes(c, Return(n, "error")) \/ Becomes(c, [n EXCEPT !.pc = "polling"]) \/ Becomes(c, m)
    BY <1>4 DEF Claim, PollAgain
  <2>2. CASE Becomes(c, Return(n, "error"))
    BY <1>1, <1>2, <2>2, EffectQuietSteps DEF Return, Memory, Ongoing
  <2>3. CASE Becomes(c, [n EXCEPT !.pc = "polling"])
    BY <1>1, <1>2, <2>3, EffectQuietSteps DEF Memory, Ongoing
  <2>4. CASE Becomes(c, m)
    <3>1. /\ m.tx.event.kind = "claim" /\ m.pc = "claiming" /\ m.doing = n.doing
          /\ m.decision = n.decision
      BY <1>1 DEF Proposed, Memory, LeaseEvent
    <3> HIDE DEF m
    <3>2. EffectFacts(c, m)
      BY <1>1, <3>1 DEF EffectFacts
    <3> QED
      BY <1>2, <2>4, <3>1, <3>2, EffectMoves
  <2> QED
    BY <2>1, <2>2, <2>3, <2>4
<1>5. CASE Dispose(c)
  <2> DEFINE m == [Proposed(n, "main", WorkEvent("quarantine", c)) EXCEPT !.pc = "disposing"]
  <2>1. ASSUME NEW o \in Outcome, Becomes(c, FinishClaim(n, o)) PROVE EffectInv'
    BY <1>1, <1>2, <2>1, EffectQuietSteps DEF FinishClaim, Memory, Ongoing
  <2>2. CASE Becomes(c, FinishClaim(Poison(n), "error"))
    BY <1>1, <1>2, <2>2, EffectQuietSteps DEF FinishClaim, Poison, Memory, Ongoing
  <2>3. CASE Becomes(c, m)
    <3>1. /\ m.tx.event.kind = "quarantine" /\ m.pc = "disposing" /\ m.doing = n.doing
          /\ m.decision = n.decision
      BY <1>1 DEF Proposed, Memory, WorkEvent, LeaseEvent
    <3> HIDE DEF m
    <3>2. EffectFacts(c, m)
      BY <1>1, <3>1 DEF EffectFacts
    <3> QED
      BY <1>2, <2>3, <3>1, <3>2, EffectMoves
  <2>4. CASE c \in Operator /\ Becomes(c, [n EXCEPT !.pc = "reconciling"])
    BY <1>1, <1>2, <2>4, EffectQuietSteps DEF Memory, Ongoing
  <2>5. CASE c \notin Operator /\ Becomes(c, [n EXCEPT !.pc = "readying", !.heartbeat = "starting"])
    BY <1>1, <1>2, <2>5, EffectQuietSteps DEF Memory, Ongoing
  <2> QED
    BY <1>5, <2>1, <2>2, <2>3, <2>4, <2>5 DEF Dispose, Disposed, Outcome
<1> QED
  BY <1>3, <1>4, <1>5

\* Neither are the waits of an execution and the ways out of it.
LEMMA EffectEndings ==
    ASSUME WorkerInv, EffectInv, NEW c \in Call,
           \/ Ready(c) \/ LeaseLost(c) \/ GraceExpires(c) \/ CallbackReturns(c)
           \/ StopHeartbeat(c) \/ Block(c) \/ Unblock(c)
    PROVE  EffectInv'
<1> DEFINE n == call[c]
           d == [n EXCEPT !.cancelled = TRUE]
<1>1. n \in Memory /\ TxFacts(c, n) /\ EffectFacts(c, n)
  BY EffectKnown
<1>2. n.pc \in {"readying", "executing", "blocked", "stopping"} /\ n.tx.by # "main"
  BY <1>1, FreshMemory
  DEF Ready, LeaseLost, GraceExpires, CallbackReturns, StopHeartbeat, Block, Unblock, TxFacts,
      MainKinds
<1>3. ASSUME NEW m, Becomes(c, m), m.tx = n.tx, m.doing = n.doing, m.decision = n.decision,
             m.pc \in {"executing", "blocked", "stopping", "returned", "releasing"},
             m.pc \in {"executing", "blocked"} => n.pc \in {"readying", "executing", "blocked"}
      PROVE  EffectInv'
  <2>1. m.pc \in {"executing", "blocked"} => c \notin Operator
    BY <1>1, <1>3 DEF EffectFacts
  <2> QED
    BY <1>2, <1>3, <2>1, EffectQuietSteps DEF Ongoing
<1>4. ASSUME NEW o \in Outcome, Becomes(c, FinishClaim(n, o)) PROVE EffectInv'
  BY <1>1, <1>3, <1>4 DEF FinishClaim, Memory
<1>5. ASSUME NEW o \in Outcome, Becomes(c, Return(n, o)) PROVE EffectInv'
  BY <1>1, <1>3, <1>5 DEF Return, Memory
<1>6. ASSUME Becomes(c, Return(d, "lost")) PROVE EffectInv'
  BY <1>1, <1>3, <1>6 DEF Return, Memory
<1>7. ASSUME NEW o \in Outcome, Becomes(c, [n EXCEPT !.pc = "stopping", !.outcome = o])
      PROVE  EffectInv'
  BY <1>1, <1>3, <1>7 DEF Memory
<1>8. CASE Ready(c)
  <2>1. CASE n.pc = "readying" /\ Becomes(c, [n EXCEPT !.pc = "executing"])
    BY <1>1, <1>3, <2>1 DEF Memory
  <2> QED
    BY <1>6, <1>7, <1>8, <2>1 DEF Ready, Outcome
<1>9. CASE LeaseLost(c) \/ GraceExpires(c) \/ CallbackReturns(c)
  BY <1>6, <1>7, <1>9 DEF LeaseLost, GraceExpires, CallbackReturns, Outcome
<1>10. CASE StopHeartbeat(c)
  <2>1. n.outcome \in Outcome /\ "lost" \in Outcome
    BY <1>1 DEF Memory, Outcome
  <2> QED
    BY <1>4, <1>5, <1>10, <2>1 DEF StopHeartbeat
<1>11. CASE Block(c) \/ Unblock(c)
  <2>1. PICK pc \in {"executing", "blocked"} :
            n.pc \in {"executing", "blocked"} /\ Becomes(c, [n EXCEPT !.pc = pc])
    BY <1>11 DEF Block, Unblock
  <2> QED
    BY <1>1, <1>3, <2>1 DEF Memory
<1> QED
  BY <1>8, <1>9, <1>10, <1>11

\* A call that proposes what its copy allows begins no effect yet.
LEMMA EffectProposed ==
    ASSUME WorkerInv, EffectInv, NEW c \in Call, NEW e, call[c].tx.by # "main",
           Becomes(c, Proposed(call[c], "main", e)),
           e.kind = "begin" => call[c].view.phase = "open" /\ ~call[c].view.done,
           e.kind = "finish" => call[c].view.phase = "open",
           e.kind = "safe_to_retry" => call[c].decision = "safe_to_retry"
    PROVE  EffectInv'
<1> DEFINE m == Proposed(call[c], "main", e)
<1>1. /\ m.tx.event = e /\ m.pc = call[c].pc /\ m.doing = call[c].doing
      /\ m.decision = call[c].decision /\ m.view = call[c].view
  BY EffectKnown DEF Proposed, Memory
<1> HIDE DEF m
<1>2. EffectFacts(c, m)
  BY <1>1, EffectKnown DEF EffectFacts
<1> QED
  BY <1>1, <1>2, EffectMoves DEF m

\* The driver is poisoned, or the call cancelled, or nothing happens.
LEMMA EffectFlags ==
    ASSUME WorkerInv, EffectInv, NEW c \in Call,
           \/ Becomes(c, call[c]) \/ Becomes(c, Poison(call[c]))
           \/ Becomes(c, [call[c] EXCEPT !.cancelled = TRUE])
           \/ Becomes(c, [call[c] EXCEPT !.heartbeat = "stopped"])
    PROVE  EffectInv'
<1>1. PICK m : /\ Becomes(c, m) /\ m.tx = call[c].tx /\ m.doing = call[c].doing
               /\ m.decision = call[c].decision /\ m.pc = call[c].pc /\ m.view = call[c].view
  BY EffectKnown DEF Poison, Memory
<1>2. EffectFacts(c, m)
  BY <1>1, EffectKnown DEF EffectFacts
<1> QED
  BY <1>1, <1>2, EffectMoves

\* The callback's proposals.
LEMMA EffectPropose ==
    ASSUME WorkerInv, EffectInv, NEW c \in Call, NEW kind, NEW doing, Propose(c, kind, doing),
           kind \in {"begin", "end", "finish"}
    PROVE  EffectInv'
<1> DEFINE e == WorkEvent(kind, c)
<1>1. call[c].tx.by # "main" /\ e.kind = kind
  BY EffectKnown DEF Propose, Healthy, WorkEvent, LeaseEvent
<1>2. CASE Legal(call[c].view, e) /\ Becomes(c, Proposed(call[c], "main", e))
  <2>1. /\ kind = "begin" => call[c].view.phase = "open" /\ ~call[c].view.done
        /\ kind = "finish" => call[c].view.phase = "open"
    BY <1>1, <1>2 DEF Legal
  <2> HIDE DEF e
  <2> QED
    BY <1>1, <1>2, <2>1, EffectProposed
<1> QED
  BY <1>2, EffectFlags DEF Propose

\* An operator decides on what it sees; its proposal is its decision, and the
\* release of the lease is no outcome.
LEMMA EffectOperator ==
    ASSUME WorkerInv, EffectInv, NEW c \in Call,
           (c \in Operator /\ Decide(c)) \/ Reconcile(c) \/ Release(c)
    PROVE  EffectInv'
<1> DEFINE n == call[c]
<1>1. n \in Memory /\ EffectFacts(c, n) /\ (n.tx = NoTx => n.tx.by = "none")
  BY EffectKnown
<1>2. CASE c \in Operator /\ Decide(c)
  <2> DEFINE m == [n EXCEPT !.pc = "polling",
                            !.decision = IF effects > 0 THEN "completed" ELSE "safe_to_retry"]
  <2>1. /\ store.phase \in {"busy", "reconcile"} /\ Becomes(c, m) /\ n.pc = "deciding"
        /\ \A w \in Worker : call[w].doing # "acting"
    BY <1>2 DEF Decide
  <2>2. \A d \in Call : call[d].doing # "acting"
    BY <2>1 DEF EffectInv, EffectFacts, Call
  <2>3. /\ m.tx = n.tx /\ m.doing = n.doing /\ m.pc = "polling" /\ m.view = n.view
        /\ m.decision = IF effects > 0 THEN "completed" ELSE "safe_to_retry"
    BY <1>1 DEF Memory
  <2>4. n.tx.by # "main"
    BY <2>1, EffectKnown DEF TxFacts, MainKinds
  <2> HIDE DEF m
  <2>5. EffectFacts(c, m)
    BY <1>1, <1>2, <2>3, <2>4 DEF EffectFacts
  <2>6. DecisionStands(m.pc, m.decision)
    BY <2>1, <2>2, <2>3 DEF DecisionStands, Accounted, Touched
  <2> QED
    BY <2>1, <2>3, <2>5, <2>6, EffectMemory
<1>3. CASE Reconcile(c)
  <2> DEFINE e == WorkEvent(n.decision, c)
  <2>1. n.pc = "reconciling" /\ n.tx.by = "none"
    BY <1>1, <1>3 DEF Reconcile
  <2>2. CASE Becomes(c, FinishClaim(n, "error"))
    BY <1>1, <2>1, <2>2, EffectQuietSteps DEF FinishClaim, Memory, Ongoing
  <2>3. CASE Becomes(c, FinishClaim(Poison(n), "error"))
    BY <1>1, <2>1, <2>3, EffectQuietSteps DEF FinishClaim, Poison, Memory, Ongoing
  <2>4. CASE Becomes(c, Proposed(n, "main", e))
    <3>1. e.kind = n.decision /\ n.decision \notin {"begin", "finish"}
      BY <1>1 DEF WorkEvent, LeaseEvent, Memory, Decision
    <3> HIDE DEF e
    <3> QED
      BY <2>1, <2>4, <3>1, EffectProposed
  <2> QED
    BY <1>3, <2>2, <2>3, <2>4 DEF Reconcile
<1>4. CASE Release(c)
  <2> DEFINE v == [n EXCEPT !.view = store, !.poisoned = FALSE]
             e == LeaseEvent("release", c, clock, clock)
             m == Proposed(v, "main", e)
  <2>1. n.pc = "releasing" /\ n.tx.by = "none"
    BY <1>1, <1>4 DEF Release
  <2>2. CASE Becomes(c, Return(n, "lost"))
    BY <1>1, <2>1, <2>2, EffectQuietSteps DEF Return, Memory, Ongoing
  <2>3. CASE Becomes(c, m)
    <3>1. /\ m.tx.event.kind = "release" /\ m.pc = "releasing" /\ m.doing = n.doing
          /\ m.decision = n.decision
      BY <1>1, <2>1 DEF Proposed, LeaseEvent, Memory
    <3> HIDE DEF m
    <3>2. EffectFacts(c, m)
      BY <1>1, <3>1 DEF EffectFacts
    <3> QED
      BY <2>3, <3>1, <3>2, EffectMoves DEF Ongoing
  <2> QED
    BY <1>4, <2>2, <2>3 DEF Release
<1> QED
  BY <1>2, <1>3, <1>4

\* What the swap of a call does to the store, and what the call learns of it.
LEMMA SwapOutcome ==
    ASSUME WorkerInv, NEW c \in Call, NEW authority,
           NEW r \in CasResults(call[c].view, Apply(call[c].view, call[c].tx.event), authority)
    PROVE  /\ \/ r.store = store
              \/ r.store = Apply(store, call[c].tx.event) /\ call[c].view = store
           /\ r.told = "ok" =>
                  r.store = Apply(store, call[c].tx.event) /\ call[c].view = store
           /\ Settle(call[c], r.told) \in Memory
           /\ Settle(call[c], r.told).tx.by = "none"
           /\ Settle(call[c], r.told).pc = call[c].pc
           /\ Settle(call[c], r.told).doing = call[c].doing
           /\ Settle(call[c], r.told).decision = call[c].decision
<1>1. call[c].tx.event \in Event /\ TypeOK /\ Behind(call[c].view, store)
  BY CallKnown DEF Tx, WorkerInv, CallFacts, MemoryFacts, OwnFacts
<1>2. /\ Settle(call[c], r.told).doing = call[c].doing
      /\ Settle(call[c], r.told).decision = call[c].decision
  BY CallKnown DEF Settle, Unlock, Poison, Memory
<1>3. /\ r.store = store \/ (r.store = Apply(store, call[c].tx.event) /\ call[c].view = store)
      /\ r.told = "ok" => r.store = Apply(store, call[c].tx.event) /\ call[c].view = store
  BY <1>1, CallKnown, CasAppends
<1>4. /\ Settle(call[c], r.told) \in Memory /\ Settle(call[c], r.told).tx.by = "none"
      /\ Settle(call[c], r.told).pc = call[c].pc
  BY SettleFacts
<1> QED
  BY <1>2, <1>3, <1>4

\* The swaps that begin no effect.
LEMMA EffectQuietSwap ==
    ASSUME WorkerInv, EffectInv, OperatorsTakeTurns, NEW c \in Call, NEW authority,
           NEW r \in CasResults(call[c].view, Apply(call[c].view, call[c].tx.event), authority),
           call[c].tx.by # "none", store' = r.store, UNCHANGED <<host, effects>>,
           NEW m, call' = [call EXCEPT ![c] = m], m.tx.by # "main", m.doing = call[c].doing,
           m.decision = call[c].decision,
           m.pc = "reconciling" => c \in Operator,
           m.pc \in {"readying", "executing", "blocked"} => c \notin Operator,
           m.pc \in Ongoing => call[c].pc \in Ongoing /\ call[c].pc # "reconciling"
    PROVE  EffectInv'
<1>1. EffectFacts(c, m)
  BY EffectKnown DEF EffectFacts
<1>2. Swapped(c, m)
  BY SwapOutcome DEF Swapped
<1> QED
  BY <1>1, <1>2, EffectSwap

\* The swap of a claim begins no effect.
LEMMA EffectClaimCas ==
    ASSUME WorkerInv, EffectInv, OperatorsTakeTurns, NEW c \in Call, ClaimCas(c)
    PROVE  EffectInv'
<1>1. /\ call[c].pc = "claiming" /\ call[c].tx.by # "none" /\ UNCHANGED <<host, effects>>
  BY CallKnown DEF ClaimCas, Cas, CallFacts
<1>2. PICK r \in CasResults(call[c].view, Apply(call[c].view, call[c].tx.event), Nobody) :
          LET s == Settle(call[c], r.told) IN
          /\ store' = r.store
          /\ \/ call' = [call EXCEPT ![c] = [s EXCEPT !.pc = "claimed"]]
             \/ call' = [call EXCEPT ![c] = [s EXCEPT !.pc = "polling"]]
             \/ \E o \in Outcome : call' = [call EXCEPT ![c] = Return(s, o)]
  BY DEF ClaimCas, Cas, PollAgain, ErrorOf, Outcome
<1> DEFINE s == Settle(call[c], r.told)
<1>3. /\ s \in Memory /\ s.tx.by = "none" /\ s.doing = call[c].doing
      /\ s.decision = call[c].decision
  BY SwapOutcome
<1> HIDE DEF s
<1>4. ASSUME NEW m, call' = [call EXCEPT ![c] = m], m.tx = s.tx, m.doing = s.doing,
             m.decision = s.decision, m.pc \in {"claimed", "polling", "returned"}
      PROVE  EffectInv'
  <2>1. m.pc \in Ongoing => call[c].pc \in Ongoing /\ call[c].pc # "reconciling"
    BY <1>1 DEF Ongoing
  <2>2. m.tx.by # "main" /\ m.doing = call[c].doing /\ m.decision = call[c].decision
    BY <1>3, <1>4
  <2> QED
    BY <1>1, <1>2, <1>4, <2>1, <2>2, EffectQuietSwap
<1>5. CASE call' = [call EXCEPT ![c] = [s EXCEPT !.pc = "claimed"]]
  BY <1>3, <1>4, <1>5 DEF Memory
<1>6. CASE call' = [call EXCEPT ![c] = [s EXCEPT !.pc = "polling"]]
  BY <1>3, <1>4, <1>6 DEF Memory
<1>7. ASSUME NEW o \in Outcome, call' = [call EXCEPT ![c] = Return(s, o)]
      PROVE  EffectInv'
  BY <1>3, <1>4, <1>7 DEF Return, Memory
<1> QED
  BY <1>2, <1>5, <1>6, <1>7 DEF s

\* Nor does that of a quarantine.
LEMMA EffectDisposeCas ==
    ASSUME WorkerInv, EffectInv, OperatorsTakeTurns, NEW c \in Call, DisposeCas(c)
    PROVE  EffectInv'
<1>1. /\ call[c].pc = "disposing" /\ call[c].tx.by # "none" /\ UNCHANGED <<host, effects>>
  BY CallKnown DEF DisposeCas, Cas, CallFacts
<1>2. PICK r \in CasResults(call[c].view, Apply(call[c].view, call[c].tx.event), c) :
          /\ store' = r.store
          /\ \/ call' = [call EXCEPT ![c] = Disposed(c, Settle(call[c], r.told))]
             \/ \E o \in Outcome : call' = [call EXCEPT ![c] = FinishClaim(Settle(call[c], r.told), o)]
  BY DEF DisposeCas, Cas, ErrorOf, Outcome
<1> DEFINE s == Settle(call[c], r.told)
<1>3. /\ s \in Memory /\ s.tx.by = "none" /\ s.doing = call[c].doing
      /\ s.decision = call[c].decision
  BY SwapOutcome
<1> HIDE DEF s
<1>4. ASSUME NEW m, call' = [call EXCEPT ![c] = m], m.tx = s.tx, m.doing = s.doing,
             m.decision = s.decision, m.pc \in {"reconciling", "readying", "releasing"},
             m.pc = "reconciling" => c \in Operator,
             m.pc = "readying" => c \notin Operator
      PROVE  EffectInv'
  <2>1. m.pc \in Ongoing => call[c].pc \in Ongoing /\ call[c].pc # "reconciling"
    BY <1>1 DEF Ongoing
  <2>2. m.tx.by # "main" /\ m.doing = call[c].doing /\ m.decision = call[c].decision
    BY <1>3, <1>4
  <2> QED
    BY <1>1, <1>2, <1>4, <2>1, <2>2, EffectQuietSwap
<1>5. CASE c \in Operator /\ call' = [call EXCEPT ![c] = [s EXCEPT !.pc = "reconciling"]]
  BY <1>3, <1>4, <1>5 DEF Memory
<1>6. CASE /\ c \notin Operator
           /\ call' = [call EXCEPT ![c] = [s EXCEPT !.pc = "readying", !.heartbeat = "starting"]]
  BY <1>3, <1>4, <1>6 DEF Memory
<1>7. ASSUME NEW o \in Outcome, call' = [call EXCEPT ![c] = FinishClaim(s, o)]
      PROVE  EffectInv'
  BY <1>3, <1>4, <1>7 DEF FinishClaim, Memory
<1>8. CASE call' = [call EXCEPT ![c] = Disposed(c, s)]
  BY <1>5, <1>6, <1>7, <1>8 DEF Disposed, Outcome
<1> QED
  BY <1>2, <1>7, <1>8 DEF s

\* Nor do a renewal, an operator's decision and the release of the lease.
LEMMA EffectOtherSwaps ==
    ASSUME WorkerInv, EffectInv, OperatorsTakeTurns, NEW c \in Call,
           BeatCas(c) \/ ReconcileCas(c) \/ ReleaseCas(c)
    PROVE  EffectInv'
<1>1. /\ call[c].tx.by # "none" /\ UNCHANGED <<host, effects>>
  <2>1. BeatCas(c) => /\ call[c].tx.by # "none" /\ UNCHANGED <<host, effects>>
    BY Zenon DEF BeatCas, Cas
  <2>2. ReconcileCas(c) => /\ call[c].tx.by # "none" /\ UNCHANGED <<host, effects>>
    BY DEF ReconcileCas, Cas
  <2>3. ReleaseCas(c) => /\ call[c].tx.by # "none" /\ UNCHANGED <<host, effects>>
    BY DEF ReleaseCas, Cas
  <2> QED
    BY <2>1, <2>2, <2>3
<1>2. call[c] \in Memory /\ EffectFacts(c, call[c]) /\ TxFacts(c, call[c])
  BY EffectKnown
<1>3. ASSUME NEW r \in CasResults(call[c].view, Apply(call[c].view, call[c].tx.event), c),
             store' = r.store, NEW m, call' = [call EXCEPT ![c] = m], m.tx.by = "none", m.doing = call[c].doing,
             m.decision = call[c].decision,
             \/ m.pc \in {"releasing", "returned"}
             \/ m.pc = call[c].pc /\ call[c].tx.by = "heartbeat"
      PROVE  EffectInv'
  <2>1. /\ m.pc \in Ongoing => call[c].pc \in Ongoing /\ call[c].pc # "reconciling"
        /\ m.pc = "reconciling" => c \in Operator
        /\ m.pc \in {"readying", "executing", "blocked"} => c \notin Operator
    BY <1>2, <1>3 DEF Ongoing, TxFacts, Unthreaded, BeforeClaim, EffectFacts
  <2> QED
    BY <1>1, <1>3, <2>1, EffectQuietSwap
<1>4. ASSUME NEW r \in CasResults(call[c].view, Apply(call[c].view, call[c].tx.event), c)
      PROVE  LET s == Settle(call[c], r.told) IN
             /\ s \in Memory /\ s.tx.by = "none" /\ s.doing = call[c].doing
             /\ s.decision = call[c].decision /\ s.pc = call[c].pc
  BY SwapOutcome
<1>5. CASE BeatCas(c)
  <2>1. call[c].tx.by = "heartbeat"
    BY <1>5 DEF BeatCas
  <2>2. PICK r \in CasResults(call[c].view, Apply(call[c].view, call[c].tx.event), c) :
            /\ store' = r.store
            /\ \/ call' = [call EXCEPT ![c] = [Settle(call[c], r.told)
                            EXCEPT !.heartbeat = "beating"]]
               \/ call' = [call EXCEPT ![c] = [Settle(call[c], r.told)
                            EXCEPT !.heartbeat = "failed",
                            !.cancelled = call[c].cancelled \/ call[c].heartbeat = "beating"]]
    BY <1>5, Zenon DEF BeatCas, Cas
  <2> DEFINE s == Settle(call[c], r.told)
  <2>3. CASE call' = [call EXCEPT ![c] = [s EXCEPT !.heartbeat = "beating"]]
    BY <1>3, <1>4, <2>1, <2>2, <2>3 DEF Memory
  <2>4. CASE call' = [call EXCEPT ![c] = [s EXCEPT !.heartbeat = "failed",
                           !.cancelled = call[c].cancelled \/ call[c].heartbeat = "beating"]]
    BY <1>3, <1>4, <2>1, <2>2, <2>4 DEF Memory
  <2> QED
    BY <2>2, <2>3, <2>4
<1>6. CASE ReconcileCas(c)
  <2>1. PICK r \in CasResults(call[c].view, Apply(call[c].view, call[c].tx.event), c) :
            /\ store' = r.store
            /\ \E o \in Outcome :
                   call' = [call EXCEPT ![c] = FinishClaim(Settle(call[c], r.told), o)]
    BY <1>6 DEF ReconcileCas, Cas, ErrorOf, Outcome
  <2>2. PICK o \in Outcome :
            call' = [call EXCEPT ![c] = FinishClaim(Settle(call[c], r.told), o)]
    BY <2>1
  <2> QED
    BY <1>3, <1>4, <2>1, <2>2 DEF FinishClaim, Memory
<1>7. CASE ReleaseCas(c)
  <2>1. PICK r \in CasResults(call[c].view, Apply(call[c].view, call[c].tx.event), c) :
            /\ store' = r.store
            /\ \/ call' = [call EXCEPT ![c] = Return(Settle(call[c], r.told), call[c].outcome)]
               \/ call' = [call EXCEPT ![c] = Return(Settle(call[c], r.told), "lost")]
    BY <1>7 DEF ReleaseCas, Cas
  <2>2. CASE call' = [call EXCEPT ![c] = Return(Settle(call[c], r.told), call[c].outcome)]
    BY <1>3, <1>4, <2>1, <2>2 DEF Return, Memory
  <2>3. CASE call' = [call EXCEPT ![c] = Return(Settle(call[c], r.told), "lost")]
    BY <1>3, <1>4, <2>1, <2>3 DEF Return, Memory
  <2> QED
    BY <2>1, <2>2, <2>3
<1> QED
  BY <1>5, <1>6, <1>7

\* The swap of a callback's transition begins the one attempt that may act.
LEMMA EffectWorkCas ==
    ASSUME WorkerInv, EffectInv, OperatorsTakeTurns, NEW c \in Call, WorkCas(c)
    PROVE  EffectInv'
<1>1. /\ call[c].pc = "executing" /\ call[c].tx.by = "main" /\ UNCHANGED <<host, effects>>
      /\ call[c] \in Memory /\ EffectFacts(c, call[c])
  BY EffectKnown DEF WorkCas, Cas
<1>2. c \in Worker
  BY <1>1 DEF EffectFacts, Call
<1>3. PICK r \in CasResults(call[c].view, Apply(call[c].view, call[c].tx.event), c) :
          LET s == Settle(call[c], r.told) IN
          /\ store' = r.store
          /\ \/ call' = [call EXCEPT ![c] = s]
             \/ \E doing \in {"acting", "none", s.doing} :
                    /\ doing = "acting" => \/ r.told = "ok" /\ call[c].tx.event.kind = "begin"
                                           \/ doing = s.doing
                    /\ call' = [call EXCEPT ![c] = [s EXCEPT !.doing = doing]]
  BY DEF WorkCas, Cas
<1> DEFINE s == Settle(call[c], r.told)
<1>4. /\ s \in Memory /\ s.tx.by = "none" /\ s.doing = call[c].doing
      /\ s.decision = call[c].decision /\ s.pc = "executing"
      /\ \/ store' = store
         \/ store' = Apply(store, call[c].tx.event) /\ call[c].view = store
      /\ r.told = "ok" => store' = Apply(store, call[c].tx.event) /\ call[c].view = store
  BY <1>1, <1>3, SwapOutcome
<1>5. PICK doing \in {"acting", "none", s.doing} :
          /\ doing = "acting" => \/ r.told = "ok" /\ call[c].tx.event.kind = "begin"
                                 \/ doing = s.doing
          /\ \/ call' = [call EXCEPT ![c] = [s EXCEPT !.doing = doing]]
             \/ call' = [call EXCEPT ![c] = s] /\ doing = s.doing
  BY <1>3
<1> HIDE DEF s
<1> DEFINE m == [s EXCEPT !.doing = doing]
<1>6. /\ call' = [call EXCEPT ![c] = m] /\ m.tx.by = "none" /\ m.doing = doing
      /\ m.pc = "executing" /\ m.decision = call[c].decision
  <2>1. [s EXCEPT !.doing = s.doing] = s
    BY <1>4 DEF Memory
  <2> QED
    BY <1>4, <1>5, <2>1 DEF Memory
<1> HIDE DEF m
<1>7. EffectFacts(c, m)
  BY <1>1, <1>6 DEF EffectFacts
<1>8. Swapped(c, m)
  BY <1>1, <1>2, <1>4, <1>5, <1>6 DEF Swapped
<1> QED
  BY <1>6, <1>7, <1>8, EffectSwap DEF Ongoing

\* An effect happens where its attempt runs, for the first time.
LEMMA EffectHappens ==
    ASSUME WorkerInv, EffectInv, NEW c \in Worker, Act(c) \/ Fizzle(c)
    PROVE  EffectInv'
<1>1. /\ call \in [Call -> Memory] /\ c \in Call /\ call[c].doing = "acting"
      /\ UNCHANGED <<store, host>>
  BY DEF WorkerInv, TypeOK, Act, Fizzle, Becomes, Call
<1>2. PICK doing \in {"acted", "none"} :
          call' = [call EXCEPT ![c] = [call[c] EXCEPT !.doing = doing]]
  BY <1>1 DEF Act, Fizzle, Becomes
<1> DEFINE m == [call[c] EXCEPT !.doing = doing]
<1>3. /\ m.doing = doing /\ m.pc = call[c].pc /\ m.tx = call[c].tx /\ m.view = call[c].view
      /\ m.decision = call[c].decision /\ m.doing # "acting"
  BY <1>1 DEF Memory
<1> HIDE DEF m
<1>4. \A d \in Call : call'[d] = IF d = c THEN m ELSE call[d]
  BY <1>1, <1>2 DEF m
<1>5. effects = 0 /\ effects' \in {0, 1} /\ Touched /\ Accounted(store)
  BY <1>1 DEF Act, Fizzle, Becomes, EffectInv, Touched
<1>6. \A d \in Call : call'[d].doing # "acting"
  BY <1>1, <1>3, <1>4 DEF EffectInv
<1>7. \A d \in Call : EffectFacts(d, call[d])'
  <2>1. c \in Operator => FALSE
    BY <1>1 DEF EffectInv, EffectFacts
  <2>2. \A d \in Call : EffectFacts(d, call[d])
    BY DEF EffectInv
  <2> QED
    BY <1>1, <1>3, <1>4, <2>1, <2>2 DEF EffectFacts
<1>8. \A o \in Operator : DecisionStands(call[o].pc, call[o].decision)'
  <2>1. ASSUME NEW o \in Operator
        PROVE  DecisionStands(call[o].pc, call[o].decision)'
    <3>1. call'[o].pc = call[o].pc /\ call'[o].decision = call[o].decision
      BY <1>3, <1>4 DEF Call
    <3>2. DecisionStands(call[o].pc, call[o].decision)
      BY DEF EffectInv
    <3> QED
      BY <1>1, <1>5, <3>1, <3>2 DEF DecisionStands, Accounted
  <2> QED
    BY <2>1
<1> QED
  BY <1>1, <1>5, <1>6, <1>7, <1>8 DEF EffectInv, Accounted

\* The host resumes a paused run; an attempt or an outcome is not forgotten.
LEMMA EffectHost ==
    ASSUME WorkerInv, EffectInv, HostLoad \/ HostCas
    PROVE  EffectInv'
<1>1. CASE HostLoad
  BY <1>1 DEF HostLoad, EffectInv, Touched, DecisionStands, EffectFacts, Accounted
<1>2. CASE HostCas
  <2> DEFINE e == WorkEvent("resume", Nobody)
  <2>1. e \in Event /\ e.kind = "resume"
    BY EventTypes DEF Kind, WorkEvent, LeaseEvent
  <2>2. /\ host # NewRun /\ host' = NewRun /\ UNCHANGED <<call, effects>>
        /\ host \in Run /\ store \in Run /\ Behind(host, store) /\ TypeOK
    BY <1>2 DEF HostCas, WorkerInv, TypeOK
  <2>3. PICK r \in CasResults(host, Apply(host, e), Nobody) : store' = r.store
    BY <1>2 DEF HostCas
  <2> HIDE DEF e
  <2>4. store' = store \/ (store' = Apply(store, e) /\ host = store)
    <3>1. r.store = store \/ (r.store = Apply(store, e) /\ host = store)
      BY <2>1, <2>2, CasAppends
    <3> QED
      BY <2>3, <3>1
  <2>5. host.phase = "paused"
    BY <2>2 DEF EffectInv
  <2>6. Accounted(store) => Accounted(store')
    BY <2>1, <2>2, <2>4, <2>5, AccountedStays
  <2> QED
    BY <2>2, <2>6 DEF EffectInv, Touched, DecisionStands, EffectFacts, Accounted
<1> QED
  BY <1>1, <1>2

\* Neither does a crash, after which an effect sent out may still happen.
LEMMA EffectCrash ==
    ASSUME WorkerInv, EffectInv, NEW c \in Call, Crash(c) PROVE EffectInv'
<1> DEFINE m == [Fresh(c) EXCEPT !.pc = "crashed", !.doing = call[c].doing]
<1>1. m.pc = "crashed" /\ m.doing = call[c].doing /\ m.tx.by = "none" /\ Becomes(c, m)
  BY FreshMemory DEF Crash, Fresh
<1> HIDE DEF m
<1>2. EffectFacts(c, m)
  BY <1>1, EffectKnown DEF EffectFacts
<1> QED
  BY <1>1, <1>2, EffectMoves DEF Ongoing

\* Nor a proposal of the heartbeat thread.
LEMMA EffectBeat ==
    ASSUME WorkerInv, EffectInv, NEW c \in Call, Beat(c) PROVE EffectInv'
<1> DEFINE e == LeaseEvent("renew", c, clock, clock + LeaseTtl)
<1>1. call[c] \in Memory /\ EffectFacts(c, call[c]) /\ call[c].tx.by = "none"
  BY EffectKnown DEF Beat
<1>2. ASSUME NEW m, Becomes(c, m), m.tx.by # "main", m.doing = call[c].doing,
             m.decision = call[c].decision, m.pc = call[c].pc
      PROVE  EffectInv'
  BY <1>1, <1>2, EffectQuietSteps DEF EffectFacts
<1>3. CASE Becomes(c, Proposed(call[c], "heartbeat", e))
  <2> DEFINE m == Proposed(call[c], "heartbeat", e)
  <2>1. /\ m.tx.by = "heartbeat" /\ m.doing = call[c].doing
        /\ m.decision = call[c].decision /\ m.pc = call[c].pc
    BY <1>1 DEF Proposed, Memory
  <2> HIDE DEF m
  <2> QED
    BY <1>2, <1>3, <2>1 DEF m
<1>4. ASSUME NEW cancelled \in BOOLEAN, NEW poisoned \in BOOLEAN,
             Becomes(c, [call[c] EXCEPT !.heartbeat = "failed", !.cancelled = cancelled,
                                        !.poisoned = poisoned])
      PROVE  EffectInv'
  <2> DEFINE m == [call[c] EXCEPT !.heartbeat = "failed", !.cancelled = cancelled,
                                  !.poisoned = poisoned]
  <2>1. /\ m.tx = call[c].tx /\ m.doing = call[c].doing
        /\ m.decision = call[c].decision /\ m.pc = call[c].pc
    BY <1>1 DEF Memory
  <2> HIDE DEF m
  <2> QED
    BY <1>1, <1>2, <1>4, <2>1 DEF m
<1>5. call[c].cancelled \in BOOLEAN /\ call[c].poisoned \in BOOLEAN
  BY <1>1 DEF Memory
<1>6. \/ Becomes(c, Proposed(call[c], "heartbeat", e))
      \/ \E cancelled \in BOOLEAN, poisoned \in BOOLEAN :
             Becomes(c, [call[c] EXCEPT !.heartbeat = "failed", !.cancelled = cancelled,
                                        !.poisoned = poisoned])
  BY <1>5, ZenonT(60) DEF Beat
<1> HIDE DEF e
<1> QED
  BY <1>3, <1>4, <1>6, Zenon

\* Every step keeps the invariant of the effect.
LEMMA EffectInvStep ==
    ASSUME WorkerInv, EffectInv, OperatorsTakeTurns, [Next]_vars PROVE EffectInv'
<1>1. CASE UNCHANGED vars
  BY <1>1 DEF vars, EffectInv, Touched, DecisionStands, EffectFacts, Accounted
<1>2. ASSUME NEW c \in Call, MainStep(c) PROVE EffectInv'
  BY <1>2, EffectAcquire, EffectClaimCas, EffectDisposeCas, EffectEndings, EffectOperator,
     EffectOtherSwaps, EffectWorkCas DEF MainStep
<1>3. ASSUME NEW c \in Call, Cancel(c) \/ Crash(c) \/ HeartbeatStep(c) PROVE EffectInv'
  BY <1>3, EffectCrash, EffectBeat, EffectFlags, EffectOtherSwaps
  DEF HeartbeatStep, Cancel, BeatStop
<1>4. ASSUME NEW c \in Worker, CallbackStep(c) PROVE EffectInv'
  BY <1>4, EffectPropose, EffectHappens, EffectEndings
  DEF CallbackStep, Begin, End, FinishRun, Call
<1>5. ASSUME NEW c \in Operator, Decide(c) PROVE EffectInv'
  BY <1>5, EffectOperator DEF Call
<1>6. CASE Tick
  BY <1>6 DEF Tick, EffectInv, Touched, DecisionStands, EffectFacts, Accounted
<1> QED
  BY <1>1, <1>2, <1>3, <1>4, <1>5, <1>6, EffectHost DEF Next, Call

\* At the start no operator has decided and nothing has begun.
LEMMA EffectInvInit == Init => EffectInv
<1> SUFFICES ASSUME Init PROVE EffectInv
  OBVIOUS
<1>1. \A c \in Call : /\ call[c] = Fresh(c) /\ call[c].doing = "none" /\ call[c].tx.by = "none"
                      /\ call[c].pc = IF c \in Operator THEN "deciding" ELSE "polling"
  BY FreshMemory DEF Init, Fresh
<1>2. effects = 0 /\ host = NewRun /\ ~Touched
  BY <1>1 DEF Init, Touched
<1>3. \A c \in Call : EffectFacts(c, call[c])
  BY <1>1 DEF EffectFacts
<1>4. \A o \in Operator : call[o].pc \notin Ongoing
  BY <1>1 DEF Ongoing, Call
<1> QED
  BY <1>1, <1>2, <1>3, <1>4 DEF EffectInv, DecisionStands

\* The effect of the unsafe activity happens at most once, whatever crashes,
\* expired leases, late writers and hidden commits do, for any number of workers:
\* only under a new attempt can it happen again, and an attempt begins only after
\* an operator, one at a time, has seen that nothing happened.
THEOREM EffectsHappenOnce == Spec /\ []OperatorsTakeTurns => []EffectHappensOnce
<1>1. WorkerInv /\ EffectInv /\ OperatorsTakeTurns /\ [Next]_vars => EffectInv'
  BY EffectInvStep
<1>2. EffectInv => EffectHappensOnce
  BY DEF EffectInv, EffectHappensOnce
<1> QED
  BY <1>1, <1>2, EffectInvInit, WorkerInvariant, PTL DEF Spec
=============================================================================
