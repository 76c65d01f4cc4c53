----------------------------- MODULE A2aProofs -----------------------------
(***************************************************************************)
(* Proofs about the parts of an A2A server that MCA2a puts side by side:   *)
(* the work on a task, the events of a task, the snapshots of the mapper   *)
(* and the journal, for any number of servers, messages, requests,         *)
(* attempts and faults.                                                    *)
(***************************************************************************)
EXTENDS MCA2a, FiniteSetTheorems, TLAPS

-----------------------------------------------------------------------------
(* Keys, records, and the ways in which an actor goes on. *)

\* A message is a key, the cancellation is another; a request sends one message.
LEMMA KeyFacts ==
    /\ Message \subseteq Task!Key /\ "cancel" \in Task!Key /\ "cancel" \notin Message
    /\ Task!Key = Message \cup {"cancel"}
    /\ Sender \subseteq Task!Actor /\ Canceller \subseteq Task!Actor /\ Driver \in Task!Actor
    /\ Driver \notin Sender /\ Driver \notin Canceller /\ Sender \cap Canceller = {}
    /\ Sends \in [Sender -> Message]
    /\ MaxAttempts \in Nat /\ MaxAttempts > 0 /\ MaxFaults \in Nat
BY TaskConstants DEF Task!ConstantsFit, Task!Key, Task!Actor

\* An actor moves from where it is to new, and the others stay.
Moves(x, new) == actor' = [actor EXCEPT ![x] = new]

\* What is at rest, absent or unanswered has its type.
LEMMA Blank ==
    /\ Task!NoRecord \in Task!Record /\ Task!NoJob \in Task!JobState
    /\ \A pc \in {"idle", "gone", "dispatches"} :
           [Task!AtRest EXCEPT !.pc = pc] \in Task!ActorState
    /\ Task!AtRest \in Task!ActorState
    /\ [Task!NoJob EXCEPT !.pc = "gate"] \in Task!JobState
    /\ [Task!NoJob EXCEPT !.pc = "done"] \in Task!JobState
<1>1. Task!NoRecord \in Task!Record
  BY KeyFacts DEF Task!NoRecord, Task!Record, Task!OutboxState
<1>2. Task!NoJob \in Task!JobState
  BY KeyFacts DEF Task!NoJob, Task!JobState
<1>5. /\ [Task!NoJob EXCEPT !.pc = "gate"] \in Task!JobState
      /\ [Task!NoJob EXCEPT !.pc = "done"] \in Task!JobState
  BY <1>2 DEF Task!JobState
<1>3. ASSUME NEW pc \in {"idle", "gone", "dispatches"}
      PROVE  [Task!AtRest EXCEPT !.pc = pc] \in Task!ActorState
  BY <1>1, KeyFacts DEF Task!AtRest, Task!ActorState
<1>4. Task!AtRest \in Task!ActorState
  BY <1>1, KeyFacts DEF Task!AtRest, Task!ActorState
<1> QED
  BY <1>1, <1>2, <1>3, <1>4, <1>5

\* An actor that goes to another place keeps the rest of what it knows.
LEMMA GotoMoves ==
    ASSUME Task!TypeOK, NEW x \in Task!Actor, NEW pc,
           pc \in {"read", "run", "reserve", "demote", "dispatches", "idle", "signal", "ask", "send"},
           Task!Goto(x, pc)
    PROVE  /\ actor' \in [Task!Actor -> Task!ActorState]
           /\ Moves(x, [actor[x] EXCEPT !.pc = pc])
           /\ \A y \in Task!Actor \ {x} : actor'[y] = actor[y]
           /\ actor'[x] = [actor[x] EXCEPT !.pc = pc]
<1>1. actor \in [Task!Actor -> Task!ActorState]
  BY DEF Task!TypeOK
<1>2. [actor[x] EXCEPT !.pc = pc] \in Task!ActorState
  BY <1>1 DEF Task!ActorState
<1> QED
  BY <1>1, <1>2 DEF Task!Goto, Moves

\* An actor whose work is over is at rest again.
LEMMA RestMoves ==
    ASSUME Task!TypeOK, NEW x \in Task!Actor, Task!Rest(x)
    PROVE  /\ actor' \in [Task!Actor -> Task!ActorState]
           /\ \A y \in Task!Actor \ {x} : actor'[y] = actor[y]
           /\ actor'[x] = [Task!AtRest EXCEPT !.pc = Task!AfterWork(x)]
           /\ Task!AfterWork(x) \in {"idle", "gone", "dispatches"}
           /\ x # Driver => Task!AfterWork(x) = "gone"
<1>1. actor \in [Task!Actor -> Task!ActorState]
  BY DEF Task!TypeOK
<1>2. Task!AfterWork(x) \in {"idle", "gone", "dispatches"} /\ (x # Driver => Task!AfterWork(x) = "gone")
  BY DEF Task!AfterWork
<1>3. [Task!AtRest EXCEPT !.pc = Task!AfterWork(x)] \in Task!ActorState
  BY <1>2, Blank
<1> QED
  BY <1>1, <1>2, <1>3 DEF Task!Rest

\* Whoever leaves is at rest, and gives up its reservation and its question.
LEMMA LeavingMoves ==
    ASSUME Task!TypeOK, NEW x \in Task!Actor,
           Task!Leave(x) \/ Task!LeaveReleased(x) \/ Task!LeaveQuarantined(x)
    PROVE  /\ actor' \in [Task!Actor -> Task!ActorState]
           /\ \A y \in Task!Actor \ {x} : actor'[y] = actor[y]
           /\ actor'[x] = [Task!AtRest EXCEPT !.pc = Task!AfterWork(x)]
           /\ Task!AfterWork(x) \in {"idle", "gone", "dispatches"}
           /\ x # Driver => Task!AfterWork(x) = "gone"
           /\ job' \in [Task!Key -> Task!JobState]
           /\ \A k \in Task!Key :
                 job'[k] = job[k] \/ (actor[x].sender /\ k = actor[x].key
                                      /\ job'[k] = [Task!NoJob EXCEPT !.pc = "done"])
           /\ claims' \subseteq Task!Key
           /\ claims' \in {claims, claims \ {actor[x].key}, claims \cup {actor[x].key}}
           /\ Task!Leave(x) => claims' \in {claims, claims \ {actor[x].key}}
                               /\ (~actor[x].claim => claims' = claims)
           /\ recon' \in {recon, Task!NoAnswer}
           /\ recon' \in [attempts: 0..MaxAttempts,
                          answer: {"none", "asked", "stopped", "retry", "required"}]
<1> DEFINE k1 == actor[x].key
<1>1. /\ actor[x] \in Task!ActorState /\ k1 \in Task!Key /\ claims \subseteq Task!Key
      /\ job \in [Task!Key -> Task!JobState]
  BY DEF Task!TypeOK, Task!ActorState
<1>2. /\ Task!Rest(x) /\ recon' = Task!ReconDropped(x)
      /\ job' = IF actor[x].sender THEN Task!Dropped(k1) ELSE job
      /\ claims' \in {claims, claims \ {k1}, claims \cup {k1}}
      /\ Task!Leave(x) => claims' \in {claims, claims \ {actor[x].key}}
                          /\ (~actor[x].claim => claims' = claims)
  BY DEF Task!Leave, Task!LeaveReleased, Task!LeaveQuarantined, Task!Depart
<1>3. recon' \in {recon, Task!NoAnswer}
  BY <1>2 DEF Task!ReconDropped
<1>4. recon' \in [attempts: 0..MaxAttempts,
                  answer: {"none", "asked", "stopped", "retry", "required"}]
  BY <1>3, KeyFacts DEF Task!TypeOK, Task!NoAnswer
<1>5. /\ job' \in [Task!Key -> Task!JobState]
      /\ \A k \in Task!Key :
            job'[k] = job[k] \/ (actor[x].sender /\ k = actor[x].key
                                 /\ job'[k] = [Task!NoJob EXCEPT !.pc = "done"])
  BY <1>1, <1>2, Blank DEF Task!Dropped
<1> QED
  BY <1>1, <1>2, <1>3, <1>4, <1>5, RestMoves

\* What the mapper's mutations of one record make of it.
LEMMA MarkMoves ==
    ASSUME Task!TypeOK, NEW k \in Task!Key
    PROVE  /\ Task!MarkRunning(k) =>
                 /\ outbox' \in [Task!Key -> Task!Record] /\ Task!CanRun(k)
                 /\ \A j \in Task!Key \ {k} : outbox'[j] = outbox[j]
                 /\ outbox'[k].state = "running" /\ outbox'[k].attempts = outbox[k].attempts + 1
                 /\ outbox'[k].attempts \in 1..MaxAttempts
           /\ Task!MarkPending(k) =>
                 /\ outbox' \in [Task!Key -> Task!Record] /\ Task!CanDemote(k)
                 /\ \A j \in Task!Key \ {k} : outbox'[j] = outbox[j]
                 /\ outbox'[k].state = "pending" /\ outbox'[k].attempts = outbox[k].attempts
<1>1. outbox \in [Task!Key -> Task!Record] /\ outbox[k] \in Task!Record
  BY DEF Task!TypeOK
<1>2. ASSUME Task!MarkRunning(k)
      PROVE  /\ outbox' \in [Task!Key -> Task!Record] /\ Task!CanRun(k)
             /\ \A j \in Task!Key \ {k} : outbox'[j] = outbox[j]
             /\ outbox'[k].state = "running" /\ outbox'[k].attempts = outbox[k].attempts + 1
             /\ outbox'[k].attempts \in 1..MaxAttempts
  <2>1. outbox[k].attempts \in 0..MaxAttempts /\ outbox[k].attempts < MaxAttempts
    BY <1>1, <1>2 DEF Task!Record, Task!MarkRunning, Task!CanRun
  <2>2. outbox[k].attempts + 1 \in 1..MaxAttempts
    BY <2>1, KeyFacts
  <2>3. [state |-> "running", attempts |-> outbox[k].attempts + 1] \in Task!Record
    BY <2>2, KeyFacts DEF Task!Record, Task!OutboxState
  <2> QED
    BY <1>1, <1>2, <2>2, <2>3 DEF Task!MarkRunning
<1>3. ASSUME Task!MarkPending(k)
      PROVE  /\ outbox' \in [Task!Key -> Task!Record] /\ Task!CanDemote(k)
             /\ \A j \in Task!Key \ {k} : outbox'[j] = outbox[j]
             /\ outbox'[k].state = "pending" /\ outbox'[k].attempts = outbox[k].attempts
  <2>1. [outbox[k] EXCEPT !.state = "pending"] \in Task!Record
    BY <1>1 DEF Task!Record, Task!OutboxState
  <2> QED
    BY <1>1, <1>3, <2>1 DEF Task!MarkPending, Task!Record
<1> QED
  BY <1>2, <1>3

\* What ends the task settles its records.
LEMMA EndMoves ==
    ASSUME Task!TypeOK, NEW n
    PROVE  /\ Task!Acknowledges(n) =>
                 /\ outbox' \in [Task!Key -> Task!Record] /\ task' = "cancelled"
                 /\ Task!Acknowledgeable(n)
                 /\ \A k \in Task!Key :
                       /\ outbox'[k].attempts = outbox[k].attempts
                       /\ outbox'[k].state = IF Task!Unsettled(k) THEN "settled" ELSE outbox[k].state
           /\ \A m \in Message, next \in {"cancelled", "completed", "input", "failed"} :
                 Task!Transitions(m, n, next) =>
                    /\ outbox' \in [Task!Key -> Task!Record] /\ task' = next
                    /\ Task!Transitionable(m, n)
                    /\ \A k \in Task!Key \ {m} : outbox'[k] = outbox[k]
                    /\ outbox'[m].state = "settled" /\ outbox'[m].attempts = outbox[m].attempts
<1>1. outbox \in [Task!Key -> Task!Record]
  BY DEF Task!TypeOK
<1>2. \A k \in Task!Key : [outbox[k] EXCEPT !.state = "settled"] \in Task!Record
  BY <1>1 DEF Task!Record, Task!OutboxState
<1>3. Task!Acknowledges(n) =>
         /\ outbox' \in [Task!Key -> Task!Record] /\ task' = "cancelled"
         /\ Task!Acknowledgeable(n)
         /\ \A k \in Task!Key :
               /\ outbox'[k].attempts = outbox[k].attempts
               /\ outbox'[k].state = IF Task!Unsettled(k) THEN "settled" ELSE outbox[k].state
  BY <1>1, <1>2 DEF Task!Acknowledges, Task!Record
<1>4. \A m \in Message, next \in {"cancelled", "completed", "input", "failed"} :
         Task!Transitions(m, n, next) =>
            /\ outbox' \in [Task!Key -> Task!Record] /\ task' = next
            /\ Task!Transitionable(m, n)
            /\ \A k \in Task!Key \ {m} : outbox'[k] = outbox[k]
            /\ outbox'[m].state = "settled" /\ outbox'[m].attempts = outbox[m].attempts
  BY <1>1, <1>2, KeyFacts DEF Task!Transitions, Task!Record
<1> QED
  BY <1>3, <1>4

\* A job that goes to another place keeps its attempt and its claim.
LEMMA JobMoves ==
    ASSUME Task!TypeOK, NEW k \in Task!Key,
           NEW pc \in {"admitted", "registered", "call", "host", "stopped", "settling",
                       "failing", "failing2", "done"},
           Task!JobTo(k, pc)
    PROVE  /\ job' \in [Task!Key -> Task!JobState]
           /\ \A j \in Task!Key \ {k} : job'[j] = job[j]
           /\ job'[k].pc = pc /\ job'[k].attempt = job[k].attempt
           /\ job'[k].claim = job[k].claim /\ job'[k].fenced = job[k].fenced
<1>1. job \in [Task!Key -> Task!JobState] /\ job[k] \in Task!JobState
  BY DEF Task!TypeOK
<1>2. [job[k] EXCEPT !.pc = pc] \in Task!JobState
  BY <1>1 DEF Task!JobState
<1> QED
  BY <1>1, <1>2 DEF Task!JobTo, Task!JobState

\* Reserving replaces one job by a new one at its gate.
LEMMA ReservedMoves ==
    ASSUME Task!TypeOK, NEW k \in Task!Key, job' = Task!Reserved(k)
    PROVE  /\ job' \in [Task!Key -> Task!JobState]
           /\ \A j \in Task!Key \ {k} : job'[j] = job[j]
           /\ job'[k] = [Task!NoJob EXCEPT !.pc = "gate"]
           /\ job'[k].pc = "gate" /\ ~job'[k].claim /\ ~job'[k].fenced
BY Blank DEF Task!TypeOK, Task!Reserved, Task!NoJob

\* The commit gives a job its attempt.
LEMMA QueuedMoves ==
    ASSUME Task!TypeOK, NEW k \in Task!Key, NEW n \in 0..MaxAttempts, NEW f \in BOOLEAN,
           job' = [job EXCEPT ![k] = [pc |-> "queued", attempt |-> n, claim |-> TRUE, fenced |-> f]]
    PROVE  /\ job' \in [Task!Key -> Task!JobState]
           /\ \A j \in Task!Key \ {k} : job'[j] = job[j]
           /\ job'[k].pc = "queued" /\ job'[k].attempt = n /\ job'[k].claim /\ job'[k].fenced = f
<1>1. [pc |-> "queued", attempt |-> n, claim |-> TRUE, fenced |-> f] \in Task!JobState
  BY DEF Task!JobState
<1> QED
  BY <1>1 DEF Task!TypeOK

\* What may fail counts its failures.
LEMMA FaultMoves ==
    ASSUME Task!TypeOK, Task!Fault \/ faults' = faults PROVE faults' \in 0..MaxFaults
BY KeyFacts DEF Task!TypeOK, Task!Fault

\* The work of x is over: it rests, and gives up what it held.  Its record may
\* have been moved to reconcile-pending.
Retires(x) ==
    /\ \A y \in Task!Actor \ {x} : actor'[y] = actor[y]
    /\ \E pc \in {"idle", "gone", "dispatches"} :
          /\ actor'[x] = [Task!AtRest EXCEPT !.pc = pc]
          /\ x # Driver => pc = "gone"
    /\ \A k \in Task!Key :
          job'[k] = job[k] \/ (actor[x].sender /\ k = actor[x].key
                               /\ job'[k] = [Task!NoJob EXCEPT !.pc = "done"])
    /\ \/ claims' \in {claims, claims \cup {actor[x].key}}
       \/ claims' = claims \ {actor[x].key} /\ (actor[x].claim \/ actor[x].key = "cancel")
    /\ outbox' = outbox \/ Task!MarkPending(actor[x].key)
    /\ recon'.answer = "stopped" => recon' = recon
    /\ UNCHANGED <<task, ready, token, alive>>

\* Whoever leaves retires.
LEMMA LeavingRetires ==
    ASSUME Task!TypeOK, NEW x \in Task!Actor,
           \/ Task!Leave(x)
           \/ Task!LeaveReleased(x) /\ actor[x].key = "cancel"
           \/ Task!LeaveQuarantined(x),
           outbox' = outbox \/ Task!MarkPending(actor[x].key),
           UNCHANGED <<task, ready, token, alive>>, Task!Fault \/ faults' = faults
    PROVE  Task!TypeOK' /\ Retires(x)
<1>1. actor[x].key \in Task!Key
  BY DEF Task!TypeOK, Task!ActorState
<1>2. outbox' \in [Task!Key -> Task!Record]
  BY <1>1, MarkMoves DEF Task!TypeOK
<1>0. Task!Leave(x) \/ Task!LeaveReleased(x) \/ Task!LeaveQuarantined(x)
  OBVIOUS
<1>3. recon'.answer = "stopped" => recon' = recon
  <2>1. recon' \in {recon, Task!NoAnswer}
    BY <1>0, LeavingMoves
  <2> QED
    BY <2>1 DEF Task!NoAnswer
<1>4. \/ claims' \in {claims, claims \cup {actor[x].key}}
      \/ claims' = claims \ {actor[x].key} /\ (actor[x].claim \/ actor[x].key = "cancel")
  BY DEF Task!Leave, Task!LeaveReleased, Task!LeaveQuarantined, Task!Depart
<1>5. Task!TypeOK'
  BY <1>2, LeavingMoves, FaultMoves DEF Task!TypeOK
<1>6. \E pc \in {"idle", "gone", "dispatches"} :
         /\ actor'[x] = [Task!AtRest EXCEPT !.pc = pc]
         /\ x # Driver => pc = "gone"
  BY LeavingMoves
<1> QED
  BY <1>3, <1>4, <1>5, <1>6, LeavingMoves DEF Retires

-----------------------------------------------------------------------------
(* A cancellation reaches the call.  Once a cancellation is stored no call   *)
(* of the host begins that is not on record, since the job's second check    *)
(* finds the cancellation; so the signal that precedes the control job finds *)
(* every call there is.                                                      *)

\* Every call that begins or is awaited has been signalled.
CallsSignalled == \A m \in Message : job[m].pc \in {"call", "host"} => token = "signalled"

\* The cancellation was handed to a job, once.
PastQueue == outbox["cancel"].state \notin {"none", "queued"}

\* Where an actor has signalled the running call on behalf of the cancellation.
PostSignal == {"reserve", "ask", "acknowledge", "demote", "run", "send"}

\* Where a job holds the permit of the task.
Permitted == {"admitted", "registered", "call", "host", "stopped"}

\* The permit is given to one job, and a call has a token.
PermitFacts ==
    /\ \A m, o \in Message : job[m].pc \in Permitted /\ job[o].pc \in Permitted => m = o
    /\ \A m \in Message : job[m].pc \in {"registered", "call", "host"} => token # "none"

\* A job that is to be run has its attempt.
RunsAttempt == \A m \in Message : job[m].pc \in Permitted \cup {"queued"} => job[m].attempt \in 1..MaxAttempts

\* The cancellation's record and its job.
CancelFacts ==
    /\ outbox["cancel"].state = "settled" => task \in Task!Terminal
    /\ PastQueue \/ task = "cancelled" => CallsSignalled
    /\ job["cancel"].pc \notin {"none", "gate", "done"} => PastQueue
    /\ job["cancel"].pc = "settling" \/ job["cancel"].fenced => task \in Task!Terminal

\* What an actor that works on the cancellation may rely on.
CancelActor(x) ==
    /\ actor[x].pc \in {"idle", "dispatches", "signal", "ask", "acknowledge", "send"} =>
          actor[x].key = "cancel"
    /\ actor[x].pc \in {"flush", "read", "reconcile"} => actor[x].key # "cancel"
    /\ actor[x].key = "cancel" =>
          /\ actor[x].pc \in PostSignal \cup {"signal", "claim"} => outbox["cancel"].state # "none"
          /\ actor[x].pc \in PostSignal => CallsSignalled
          /\ Task!Unknown(actor[x].rec) => PastQueue
          /\ actor[x].pc \in {"ask", "acknowledge", "send"} => PastQueue

CancelInv ==
    /\ Task!TypeOK
    /\ PermitFacts
    /\ RunsAttempt
    /\ CancelFacts
    /\ \A x \in Task!Actor : CancelActor(x)

\* The cancellation's record moves forward only.
Forward ==
    /\ outbox["cancel"].state # "none" => outbox'["cancel"].state # "none"
    /\ PastQueue => PastQueue'
    /\ task \in Task!Terminal => task' \in Task!Terminal

\* What is known of an actor stays known.
LEMMA CancelActorStays ==
    ASSUME NEW x \in Task!Actor, CancelActor(x), actor'[x] = actor[x], Forward,
           outbox["cancel"].state # "none" /\ CallsSignalled => CallsSignalled'
    PROVE  CancelActor(x)'
BY DEF CancelActor, Forward, Task!Unknown, PostSignal

\* The jobs of messages wait or end.
NoJobAdmitted ==
    \A m \in Message : \/ job'[m] = job[m]
                       \/ job'[m].pc \in {"gate", "done"}
                       \/ job'[m].pc = "queued" /\ job'[m].attempt \in 1..MaxAttempts

\* A step that makes no call and enters none of what the invariant speaks of,
\* but for the actor x and the cancellation.
LEMMA ActorKeeps ==
    ASSUME CancelInv, Task!TypeOK', NEW x \in Task!Actor,
           \A y \in Task!Actor \ {x} : actor'[y] = actor[y],
           token' = token,
           NoJobAdmitted,
           \/ job'["cancel"] = job["cancel"]
           \/ job'["cancel"].pc \in {"gate", "done"} /\ ~job'["cancel"].fenced
           \/ /\ job'["cancel"].pc = "queued" /\ PastQueue'
              /\ job'["cancel"].fenced => task' \in Task!Terminal,
           \/ outbox'["cancel"].state = outbox["cancel"].state
           \/ outbox["cancel"].state = "none" /\ outbox'["cancel"].state = "queued"
           \/ /\ outbox["cancel"].state # "none" /\ CallsSignalled
              /\ outbox'["cancel"].state \in {"running", "pending"}
           \/ PastQueue /\ outbox'["cancel"].state = "settled" /\ task' \in Task!Terminal,
           \/ task' = task
           \/ task' = "working" /\ task \notin Task!Terminal
           \/ task' = "cancelled" /\ PastQueue,
           CancelActor(x)'
    PROVE  CancelInv'
<1>1. Forward
  BY DEF Forward, PastQueue, Task!Terminal
<1>2. PermitFacts' /\ RunsAttempt'
  <2>1. \A m \in Message : job'[m] = job[m] \/ job'[m].pc \in {"gate", "done", "queued"}
    BY DEF NoJobAdmitted
  <2>2. PermitFacts'
    BY <2>1 DEF CancelInv, PermitFacts, Permitted
  <2>3. RunsAttempt'
    BY DEF CancelInv, RunsAttempt, Permitted, NoJobAdmitted
  <2> QED
    BY <2>2, <2>3
<1>3. CallsSignalled => CallsSignalled'
  BY DEF CallsSignalled, NoJobAdmitted
<1>4. CancelFacts'
  <2>1. CancelFacts
    BY DEF CancelInv
  <2>2. PastQueue' \/ task' = "cancelled" => CallsSignalled
    BY <2>1 DEF CancelFacts, PastQueue
  <2>3. outbox'["cancel"].state = "settled" => task' \in Task!Terminal
    BY <1>1, <2>1 DEF CancelFacts, Forward
  <2>4. /\ job'["cancel"].pc \notin {"none", "gate", "done"} => PastQueue'
        /\ job'["cancel"].pc = "settling" \/ job'["cancel"].fenced => task' \in Task!Terminal
    BY <1>1, <2>1 DEF CancelFacts, Forward
  <2> QED
    BY <1>3, <2>2, <2>3, <2>4 DEF CancelFacts
<1>5. ASSUME NEW y \in Task!Actor PROVE CancelActor(y)'
  BY <1>1, <1>3, CancelActorStays DEF CancelInv
<1> QED
  BY <1>2, <1>4, <1>5 DEF CancelInv

\* Whoever rests knows nothing.
LEMMA RestingKnows ==
    ASSUME NEW x, NEW pc \in {"idle", "gone", "dispatches"},
           actor'[x] = [Task!AtRest EXCEPT !.pc = pc]
    PROVE  CancelActor(x)'
BY DEF CancelActor, Task!AtRest, Task!NoRecord, Task!Unknown, PostSignal

\* Whoever retires leaves the invariant as it is.
LEMMA RetiringKeeps ==
    ASSUME CancelInv, Task!TypeOK', NEW x \in Task!Actor, Retires(x),
           actor[x].key = "cancel" => outbox' = outbox \/ actor[x].pc \in PostSignal
    PROVE  CancelInv'
<1>1. CancelActor(x)'
  BY RestingKnows DEF Retires
<1>2. actor[x].key \in Task!Key /\ Task!TypeOK /\ CancelActor(x)
  BY DEF CancelInv, Task!TypeOK, Task!ActorState
<1>3. \A k \in Task!Key : \/ job'[k] = job[k]
                          \/ job'[k].pc = "done" /\ ~job'[k].fenced
  BY DEF Retires, Task!NoJob
<1>4. \/ outbox'["cancel"].state = outbox["cancel"].state
      \/ /\ outbox["cancel"].state # "none" /\ CallsSignalled
         /\ outbox'["cancel"].state \in {"running", "pending"}
  <2>1. CASE outbox' = outbox
    BY <2>1
  <2>2. CASE Task!MarkPending(actor[x].key) /\ actor[x].key # "cancel"
    BY <1>2, <2>2, MarkMoves, KeyFacts
  <2>3. CASE outbox' # outbox /\ Task!MarkPending(actor[x].key) /\ actor[x].key = "cancel"
    BY <1>2, <2>3, MarkMoves, KeyFacts DEF CancelActor, PostSignal
  <2> QED
    BY <2>1, <2>2, <2>3 DEF Retires
<1>5. NoJobAdmitted
  BY <1>3, KeyFacts DEF NoJobAdmitted
<1> QED
  BY <1>1, <1>3, <1>4, <1>5, ActorKeeps, KeyFacts DEF Retires

\* So do all the ways to leave.
LEMMA LeavingKeeps ==
    ASSUME CancelInv, NEW x \in Task!Actor,
           \/ Task!Leave(x)
           \/ Task!LeaveReleased(x) /\ actor[x].key = "cancel"
           \/ Task!LeaveQuarantined(x),
           outbox' = outbox \/ Task!MarkPending(actor[x].key),
           actor[x].key = "cancel" => outbox' = outbox \/ actor[x].pc \in PostSignal,
           UNCHANGED <<task, ready, token, alive>>, Task!Fault \/ faults' = faults
    PROVE  CancelInv'
<1>1. Task!TypeOK
  BY DEF CancelInv
<1>2. Task!TypeOK' /\ Retires(x)
  BY <1>1, LeavingRetires
<1> QED
  BY <1>2, RetiringKeeps

\* The types of what is not the actors.
OthersFit ==
    /\ task \in {"none", "working", "input"} \cup Task!Terminal
    /\ outbox \in [Task!Key -> Task!Record]
    /\ ready \subseteq Message /\ claims \subseteq Task!Key
    /\ job \in [Task!Key -> Task!JobState]
    /\ token \in {"none", "live", "signalled"}
    /\ recon \in [attempts: 0..MaxAttempts,
                  answer: {"none", "asked", "stopped", "retry", "required"}]
    /\ alive \subseteq Message \X (1..MaxAttempts)
    /\ faults \in 0..MaxFaults

\* An actor goes on to what new says.
LEMMA StepKeeps ==
    ASSUME CancelInv, NEW x \in Task!Actor, NEW new \in Task!ActorState,
           Moves(x, new), OthersFit', token' = token,
           \/ \A m \in Message : job'[m] = job[m] \/ job'[m].pc \in {"gate", "done"}
           \/ NoJobAdmitted,
           \/ job'["cancel"] = job["cancel"]
           \/ job'["cancel"].pc \in {"gate", "done"} /\ ~job'["cancel"].fenced
           \/ /\ job'["cancel"].pc = "queued" /\ PastQueue'
              /\ job'["cancel"].fenced => task' \in Task!Terminal,
           \/ outbox'["cancel"].state = outbox["cancel"].state
           \/ outbox["cancel"].state = "none" /\ outbox'["cancel"].state = "queued"
           \/ /\ outbox["cancel"].state # "none" /\ CallsSignalled
              /\ outbox'["cancel"].state \in {"running", "pending"}
           \/ PastQueue /\ outbox'["cancel"].state = "settled" /\ task' \in Task!Terminal,
           \/ task' = task
           \/ task' = "working" /\ task \notin Task!Terminal
           \/ task' = "cancelled" /\ PastQueue,
           actor'[x] = new => CancelActor(x)'
    PROVE  CancelInv'
<1>1. actor \in [Task!Actor -> Task!ActorState]
  BY DEF CancelInv, Task!TypeOK
<1>2. /\ actor' \in [Task!Actor -> Task!ActorState] /\ actor'[x] = new
      /\ \A y \in Task!Actor \ {x} : actor'[y] = actor[y]
  BY <1>1 DEF Moves
<1>3. Task!TypeOK'
  BY <1>2 DEF OthersFit, Task!TypeOK
<1>4. NoJobAdmitted
  BY DEF NoJobAdmitted
<1> QED
  BY <1>2, <1>3, <1>4, ActorKeeps

\* The invariant holds the types.
LEMMA CancelTypes ==
    ASSUME CancelInv, NEW x \in Task!Actor
    PROVE  /\ Task!TypeOK /\ OthersFit /\ CancelActor(x) /\ PermitFacts /\ CancelFacts
           /\ actor[x] \in Task!ActorState
           /\ actor[x].key \in Task!Key /\ actor[x].rec \in Task!Record
           /\ actor[x].key # "cancel" => actor[x].key \in Message
BY KeyFacts DEF CancelInv, Task!TypeOK, OthersFit, Task!ActorState

\* A request that sends a message does nothing to the cancellation.
LEMMA SendKeeps ==
    ASSUME CancelInv, NEW x \in Task!Actor, Task!Send(x) PROVE CancelInv'
<1> DEFINE m == Sends[x]
           claimed == [Task!AtRest EXCEPT !.pc = "flush", !.key = m, !.claim = TRUE]
           staged == [Task!AtRest EXCEPT !.pc = "flush", !.key = m, !.claim = TRUE, !.sender = TRUE]
<1>1. /\ m \in Message /\ m \in Task!Key /\ m # "cancel" /\ "cancel" \in Task!Key
      /\ Task!TypeOK /\ OthersFit
  BY KeyFacts, CancelTypes DEF Task!Send
<1>2. CASE Task!Acceptable(m) /\ task' = "working"
           /\ outbox' = [outbox EXCEPT ![m] = [state |-> "queued", attempts |-> 0]]
           /\ claims' = claims \cup {m}
           /\ \/ job' = Task!Reserved(m) /\ faults' = faults /\ Moves(x, staged)
              \/ job' = job /\ Task!Fault /\ Moves(x, claimed)
  <2>1. [state |-> "queued", attempts |-> 0] \in Task!Record
    BY KeyFacts DEF Task!Record, Task!OutboxState
  <2>2. /\ outbox' \in [Task!Key -> Task!Record] /\ outbox'["cancel"] = outbox["cancel"]
    BY <1>1, <1>2, <2>1 DEF OthersFit
  <2>3. task' = "working" /\ (task' = task \/ task \notin Task!Terminal)
    BY <1>1, <1>2, KeyFacts DEF Task!Acceptable, Task!Terminal
  <2>4. /\ job' \in [Task!Key -> Task!JobState]
        /\ job'["cancel"] = job["cancel"]
        /\ \A o \in Message : job'[o] = job[o] \/ job'[o].pc = "gate"
    <3>1. CASE job' = job
      BY <1>1, <3>1 DEF OthersFit
    <3>2. CASE job' = Task!Reserved(m)
      <4>1. /\ job' \in [Task!Key -> Task!JobState]
            /\ \A o \in Task!Key \ {m} : job'[o] = job[o]
            /\ job'[m].pc = "gate"
        BY <1>1, <3>2, ReservedMoves
      <4> QED
        BY <1>1, <4>1, KeyFacts
    <3> QED
      BY <1>2, <3>1, <3>2
  <2>5. faults' \in 0..MaxFaults
    BY <1>1, <1>2, FaultMoves
  <2>6. OthersFit'
    BY <1>1, <1>2, <2>2, <2>3, <2>4, <2>5 DEF OthersFit, Task!Send
  <2>7. \A new \in {claimed, staged} :
           new \in Task!ActorState /\ new.pc = "flush" /\ new.key = m
    BY <1>1, Blank DEF Task!ActorState, Task!AtRest
  <2>8. PICK new \in {claimed, staged} : Moves(x, new)
    BY <1>2
  <2>9. actor'[x] = new => CancelActor(x)'
    BY <1>1, <2>7 DEF CancelActor, PostSignal
  <2> QED
    BY <2>2, <2>3, <2>4, <2>6, <2>7, <2>8, <2>9, StepKeeps DEF Task!Send
<1>3. CASE Moves(x, [Task!AtRest EXCEPT !.pc = "flush", !.key = m])
           /\ UNCHANGED <<task, outbox, claims, job, faults>>
  <2> DEFINE new == [Task!AtRest EXCEPT !.pc = "flush", !.key = m]
  <2>1. new \in Task!ActorState /\ new.pc = "flush" /\ new.key = m
    BY <1>1, Blank DEF Task!ActorState, Task!AtRest
  <2>2. actor'[x] = new => CancelActor(x)'
    BY <1>1, <2>1 DEF CancelActor, PostSignal
  <2>3. OthersFit'
    BY <1>1, <1>3 DEF OthersFit, Task!Send
  <2> QED
    BY <1>3, <2>1, <2>2, <2>3, StepKeeps DEF Task!Send
<1> QED
  BY <1>2, <1>3 DEF Task!Send, Moves

\* Neither does a step of a request, or of the driver, on a dispatch.
LEMMA FlushKeeps ==
    ASSUME CancelInv, NEW x \in Task!Actor, Task!Flush(x) PROVE CancelInv'
<1>1. Task!TypeOK /\ OthersFit /\ CancelActor(x) /\ actor[x] \in Task!ActorState
  BY CancelTypes
<1>2. actor[x].key # "cancel" /\ actor[x].key \in Message
  BY <1>1, CancelTypes DEF CancelActor, Task!Flush
<1>3. CASE ready' = ready \cup {actor[x].key} /\ Task!Goto(x, "read")
           /\ UNCHANGED <<claims, job, recon, faults>>
  <2> DEFINE new == [actor[x] EXCEPT !.pc = "read"]
  <2>1. new \in Task!ActorState /\ new.pc = "read" /\ new.key = actor[x].key
    BY <1>1 DEF Task!ActorState
  <2>2. Moves(x, new)
    BY <1>1, <1>3, GotoMoves
  <2>3. actor'[x] = new => CancelActor(x)'
    BY <1>2, <2>1 DEF CancelActor, PostSignal
  <2>4. OthersFit'
    BY <1>1, <1>2, <1>3 DEF OthersFit, Task!Flush
  <2> QED
    BY <1>3, <2>1, <2>2, <2>3, <2>4, StepKeeps DEF Task!Flush
<1>4. CASE Task!Fault /\ Task!Leave(x) /\ UNCHANGED ready
  BY <1>4, LeavingKeeps DEF Task!Flush
<1> QED
  BY <1>3, <1>4 DEF Task!Flush

\* A request that reads its record learns nothing that can be taken back.
LEMMA ReadKeeps ==
    ASSUME CancelInv, NEW x \in Task!Actor, Task!Read(x) PROVE CancelInv'
<1> DEFINE m == actor[x].key
           new == [actor[x] EXCEPT !.rec = outbox[m], !.pc = IF actor[x].claim THEN "run" ELSE "reserve"]
<1>1. Task!TypeOK /\ OthersFit /\ CancelActor(x) /\ actor[x] \in Task!ActorState
  BY CancelTypes
<1>2. m # "cancel" /\ m \in Message /\ outbox[m] \in Task!Record
  BY <1>1, CancelTypes DEF CancelActor, Task!Read, OthersFit
<1>3. CASE Moves(x, new) /\ UNCHANGED <<claims, job, recon>>
  <2>1. new \in Task!ActorState /\ new.pc \in {"run", "reserve"} /\ new.key = m
    BY <1>1, <1>2 DEF Task!ActorState
  <2>2. actor'[x] = new => CancelActor(x)'
    BY <1>2, <2>1 DEF CancelActor, PostSignal
  <2>3. OthersFit'
    BY <1>1, <1>3 DEF OthersFit, Task!Read, Task!mapper
  <2> QED
    BY <1>3, <2>1, <2>2, <2>3, StepKeeps DEF Task!Read, Task!mapper
<1>4. CASE Task!Leave(x)
  BY <1>4, LeavingKeeps DEF Task!Read, Task!mapper
<1>5. Task!Leave(x) \/ (Moves(x, new) /\ UNCHANGED <<claims, job, recon>>)
  BY Zenon DEF Task!Read, Moves
<1> QED
  BY <1>3, <1>4, <1>5

\* A job is reserved at its gate, or the message is left to whoever has it.
LEMMA ReserveKeeps ==
    ASSUME CancelInv, NEW x \in Task!Actor, Task!Reserve(x) PROVE CancelInv'
<1> DEFINE m == actor[x].key
           next == IF x \in Sender /\ Task!Unknown(actor[x].rec) THEN "reconcile"
                   ELSE IF actor[x].rec.state = "running" THEN "demote" ELSE "run"
           new == [actor[x] EXCEPT !.claim = TRUE, !.sender = TRUE, !.pc = next]
<1>1. Task!TypeOK /\ OthersFit /\ CancelActor(x) /\ actor[x] \in Task!ActorState
  BY CancelTypes
<1>2. m # "cancel" /\ m \in Message /\ m \in Task!Key
  BY CancelTypes, KeyFacts DEF Task!Reserve
<1>3. CASE job' = Task!Reserved(m) /\ claims' = claims \cup {m} /\ Moves(x, new)
           /\ UNCHANGED <<recon, faults>>
  <2>1. new \in Task!ActorState /\ new.pc \in {"reconcile", "demote", "run"} /\ new.key = m
    BY <1>1 DEF Task!ActorState
  <2>2. actor'[x] = new => CancelActor(x)'
    BY <1>2, <2>1 DEF CancelActor, PostSignal
  <2>3. /\ job' \in [Task!Key -> Task!JobState] /\ job'["cancel"] = job["cancel"]
        /\ \A o \in Message : job'[o] = job[o] \/ job'[o].pc = "gate"
    <3>1. /\ job' \in [Task!Key -> Task!JobState] /\ job'[m].pc = "gate"
          /\ \A j \in Task!Key \ {m} : job'[j] = job[j]
      BY <1>1, <1>2, <1>3, ReservedMoves
    <3> QED
      BY <1>2, <3>1, KeyFacts
  <2>4. OthersFit'
    BY <1>1, <1>2, <1>3, <2>3 DEF OthersFit, Task!Reserve, Task!mapper
  <2> QED
    BY <1>3, <2>1, <2>2, <2>3, <2>4, StepKeeps DEF Task!Reserve, Task!mapper
<1>4. CASE Task!Leave(x) /\ (Task!Fault \/ faults' = faults)
  BY <1>4, LeavingKeeps DEF Task!Reserve, Task!mapper
<1>5. \/ Task!Leave(x) /\ (Task!Fault \/ faults' = faults)
      \/ job' = Task!Reserved(m) /\ claims' = claims \cup {m} /\ Moves(x, new)
         /\ UNCHANGED <<recon, faults>>
  BY Zenon DEF Task!Reserve, Moves
<1> QED
  BY <1>3, <1>4, <1>5

\* What the host says of an attempt does not touch the cancellation.
LEMMA ReconcileKeeps ==
    ASSUME CancelInv, NEW x \in Task!Actor, Task!Reconcile(x) PROVE CancelInv'
<1> DEFINE next == IF x = Driver THEN "reserve" ELSE IF actor[x].rec.state = "running"
                   THEN "demote" ELSE "run"
<1>1. Task!TypeOK /\ OthersFit /\ CancelActor(x) /\ actor[x] \in Task!ActorState
  BY CancelTypes
<1>2. actor[x].key # "cancel"
  BY <1>1 DEF CancelActor, Task!Reconcile
<1>3. CASE Task!Goto(x, next) /\ UNCHANGED <<outbox, claims, job, recon, faults>>
  <2> DEFINE new == [actor[x] EXCEPT !.pc = next]
  <2>1. new \in Task!ActorState /\ new.pc \in {"reserve", "demote", "run"} /\ new.key = actor[x].key
    BY <1>1 DEF Task!ActorState
  <2>2. Moves(x, new)
    BY <1>3 DEF Task!Goto, Moves
  <2>3. actor'[x] = new => CancelActor(x)'
    BY <1>2, <2>1 DEF CancelActor, PostSignal
  <2>4. OthersFit'
    BY <1>1, <1>3 DEF OthersFit, Task!Reconcile
  <2> QED
    BY <1>3, <2>1, <2>2, <2>3, <2>4, StepKeeps DEF Task!Reconcile
<1>4. CASE /\ Task!Leave(x) \/ Task!LeaveQuarantined(x)
           /\ outbox' = outbox \/ Task!MarkPending(actor[x].key)
           /\ Task!Fault \/ faults' = faults
  BY <1>2, <1>4, LeavingKeeps DEF Task!Reconcile
<1> QED
  BY <1>3, <1>4, Zenon DEF Task!Reconcile

\* A dispatch that was read as running becomes pending.
LEMMA DemoteKeeps ==
    ASSUME CancelInv, NEW x \in Task!Actor, Task!Demote(x) PROVE CancelInv'
<1>1. Task!TypeOK /\ OthersFit /\ CancelActor(x) /\ actor[x] \in Task!ActorState
  BY CancelTypes
<1>2. actor[x].key # "cancel" /\ actor[x].key \in Task!Key /\ "cancel" \in Task!Key
  BY CancelTypes, KeyFacts DEF Task!Demote
<1>3. CASE Task!MarkPending(actor[x].key) /\ Task!Goto(x, "run")
           /\ UNCHANGED <<claims, job, recon, faults>>
  <2> DEFINE new == [actor[x] EXCEPT !.pc = "run"]
  <2>1. new \in Task!ActorState /\ new.pc = "run" /\ new.key = actor[x].key
    BY <1>1 DEF Task!ActorState
  <2>2. Moves(x, new)
    BY <1>1, <1>3, GotoMoves
  <2>3. actor'[x] = new => CancelActor(x)'
    BY <1>2, <2>1 DEF CancelActor, PostSignal
  <2>4. outbox' \in [Task!Key -> Task!Record] /\ outbox'["cancel"] = outbox["cancel"]
    BY <1>1, <1>2, <1>3, MarkMoves
  <2>5. OthersFit'
    BY <1>1, <1>3, <2>4 DEF OthersFit, Task!Demote
  <2> QED
    BY <1>3, <2>1, <2>2, <2>3, <2>4, <2>5, StepKeeps DEF Task!Demote
<1>4. CASE Task!Leave(x) /\ UNCHANGED outbox /\ (Task!Fault \/ faults' = faults)
  BY <1>4, LeavingKeeps DEF Task!Demote
<1> QED
  BY <1>3, <1>4, Zenon DEF Task!Demote

\* The job that is given a record to run is past its gate only.
LEMMA RunKeeps ==
    ASSUME CancelInv, NEW x \in Task!Actor, Task!Run(x) PROVE CancelInv'
<1> DEFINE m == actor[x].key
<1>1. Task!TypeOK /\ OthersFit /\ CancelActor(x) /\ actor[x] \in Task!ActorState
  BY CancelTypes
<1>2. m # "cancel" /\ m \in Message /\ m \in Task!Key /\ "cancel" \in Task!Key
  BY CancelTypes, KeyFacts DEF Task!Run
<1>3. CASE /\ Task!MarkRunning(m)
           /\ job' = [job EXCEPT ![m] = [pc |-> "queued", attempt |-> outbox'[m].attempts,
                                         claim |-> TRUE, fenced |-> FALSE]]
           /\ Task!Rest(x) /\ UNCHANGED <<claims, recon, faults>>
  <2>1. /\ outbox' \in [Task!Key -> Task!Record] /\ outbox'["cancel"] = outbox["cancel"]
        /\ outbox'[m].attempts \in 0..MaxAttempts /\ outbox'[m].attempts \in 1..MaxAttempts
    <3>1. /\ outbox' \in [Task!Key -> Task!Record] /\ outbox'["cancel"] = outbox["cancel"]
          /\ outbox'[m].attempts \in 1..MaxAttempts
      BY <1>1, <1>2, <1>3, MarkMoves
    <3> QED
      BY <3>1, KeyFacts
  <2>2. /\ job' \in [Task!Key -> Task!JobState] /\ job'["cancel"] = job["cancel"]
        /\ NoJobAdmitted
    <3>1. /\ job' \in [Task!Key -> Task!JobState] /\ job'[m].pc = "queued"
          /\ job'[m].attempt = outbox'[m].attempts
          /\ \A j \in Task!Key \ {m} : job'[j] = job[j]
      BY <1>1, <1>2, <1>3, <2>1, QueuedMoves
    <3> QED
      BY <1>2, <2>1, <3>1, KeyFacts DEF NoJobAdmitted
  <2>3. PICK pc \in {"idle", "gone", "dispatches"} : Moves(x, [Task!AtRest EXCEPT !.pc = pc])
    BY <1>1, <1>3, RestMoves DEF Task!Rest, Moves
  <2>4. [Task!AtRest EXCEPT !.pc = pc] \in Task!ActorState
    BY Blank
  <2>5. OthersFit'
    BY <1>1, <1>3, <2>1, <2>2 DEF OthersFit, Task!Run
  <2> QED
    BY <1>3, <2>1, <2>2, <2>3, <2>4, <2>5, RestingKnows, StepKeeps DEF Task!Run
<1>4. CASE Task!Leave(x) /\ UNCHANGED outbox /\ (Task!Fault \/ faults' = faults)
  BY <1>4, LeavingKeeps DEF Task!Run
<1> QED
  BY <1>3, <1>4, Zenon DEF Task!Run

\* The driver's looks, and what follows from its look at a dispatch.
LEMMA ScansKeep ==
    ASSUME CancelInv, Task!ScanCancellation \/ Task!ScanDispatches PROVE CancelInv'
<1> USE DEF OthersFit
<1>1. Driver \in Task!Actor /\ "cancel" \in Task!Key
  BY KeyFacts
<1>2. /\ Task!TypeOK /\ OthersFit /\ CancelActor(Driver) /\ actor[Driver] \in Task!ActorState
      /\ actor[Driver].key \in Task!Key
  BY <1>1, CancelTypes
<1>3. CASE Task!Goto(Driver, "dispatches") \/ Task!Goto(Driver, "idle")
  <2>1. PICK pc \in {"dispatches", "idle"} : Task!Goto(Driver, pc)
    BY <1>3
  <2> DEFINE new == [actor[Driver] EXCEPT !.pc = pc]
  <2>2. new \in Task!ActorState /\ new.pc = pc /\ new.key = actor[Driver].key
        /\ new.rec = actor[Driver].rec
    BY <1>2 DEF Task!ActorState
  <2>3. Moves(Driver, new)
    BY <1>1, <1>2, <2>1, GotoMoves
  <2>4. UNCHANGED <<task, outbox, ready, job, token, recon, alive, faults>>
    BY DEF Task!ScanCancellation, Task!ScanDispatches, Task!mapper
  <2>5. claims' \subseteq Task!Key
    BY <1>2, KeyFacts DEF Task!ScanCancellation, Task!ScanDispatches
  <2>8. actor[Driver].key = "cancel"
    BY <1>2 DEF CancelActor, Task!ScanCancellation, Task!ScanDispatches
  <2>6. actor'[Driver] = new => CancelActor(Driver)'
    BY <1>2, <2>2, <2>4, <2>8 DEF CancelActor, PostSignal, PastQueue, Task!Unknown
  <2>7. OthersFit'
    BY <1>2, <2>4, <2>5
  <2> QED
    BY <1>1, <2>2, <2>3, <2>4, <2>6, <2>7, StepKeeps
<1>4. ASSUME NEW k \in Task!Key, Task!Unsettled(k), NEW new \in Task!ActorState,
             new.pc = "claim", new.key = k, new.rec = outbox[k], Moves(Driver, new),
             UNCHANGED <<task, outbox, ready, claims, job, token, recon, alive, faults>>
      PROVE  CancelInv'
  <2>1. actor'[Driver] = new => CancelActor(Driver)'
    BY <1>4 DEF CancelActor, PostSignal, PastQueue, Task!Unknown, Task!Unsettled
  <2>2. OthersFit'
    BY <1>2, <1>4
  <2> QED
    BY <1>1, <1>4, <2>1, <2>2, StepKeeps
<1>5. CASE Task!ScanCancellation /\ ~Task!Goto(Driver, "dispatches")
  <2> DEFINE new == [Task!AtRest EXCEPT !.pc = "claim", !.rec = outbox["cancel"]]
  <2>1. /\ Task!Unsettled("cancel") /\ Moves(Driver, new)
        /\ UNCHANGED <<task, outbox, ready, claims, job, token, recon, alive, faults>>
    BY <1>5 DEF Task!ScanCancellation, Task!mapper, Moves
  <2>2. new \in Task!ActorState /\ new.pc = "claim" /\ new.key = "cancel"
        /\ new.rec = outbox["cancel"]
    BY <1>1, <1>2, Blank DEF Task!ActorState, Task!AtRest
  <2> QED
    BY <1>1, <1>4, <2>1, <2>2
<1>6. CASE Task!ScanDispatches /\ ~Task!Goto(Driver, "idle")
  <2> DEFINE new(m) == [Task!AtRest EXCEPT !.pc = "claim", !.key = m, !.rec = outbox[m]]
  <2>1. PICK m \in ready : Task!Unsettled(m) /\ Moves(Driver, new(m))
    BY <1>6 DEF Task!ScanDispatches, Moves
  <2>2. UNCHANGED <<task, outbox, ready, claims, job, token, recon, alive, faults>>
    BY <1>6 DEF Task!ScanDispatches, Task!mapper
  <2>3. m \in Task!Key
    BY <1>2, KeyFacts
  <2>4. new(m) \in Task!ActorState /\ new(m).pc = "claim" /\ new(m).key = m
        /\ new(m).rec = outbox[m]
    BY <1>2, <2>3, Blank DEF Task!ActorState, Task!AtRest
  <2> QED
    BY <1>4, <2>1, <2>2, <2>3, <2>4
<1> QED
  BY <1>3, <1>5, <1>6

\* The driver takes up a message, never the cancellation.
LEMMA RecoverDispatchKeeps ==
    ASSUME CancelInv, Task!RecoverDispatch PROVE CancelInv'
<1> DEFINE m == actor[Driver].key
           rec == actor[Driver].rec
           next == IF Task!Unknown(rec) THEN "reconcile" ELSE "reserve"
           new == [actor[Driver] EXCEPT !.claim = TRUE, !.pc = next]
<1>1. Driver \in Task!Actor
  BY KeyFacts
<1>2. Task!TypeOK /\ OthersFit /\ CancelActor(Driver) /\ actor[Driver] \in Task!ActorState
  BY <1>1, CancelTypes
<1>3. m # "cancel" /\ m \in Task!Key
  BY <1>1, CancelTypes DEF Task!RecoverDispatch
<1>4. CASE claims' = claims \cup {m} /\ Moves(Driver, new) /\ UNCHANGED <<outbox, job, recon>>
  <2>1. new \in Task!ActorState /\ new.pc \in {"reconcile", "reserve"} /\ new.key = m
    BY <1>2 DEF Task!ActorState
  <2>2. actor'[Driver] = new => CancelActor(Driver)'
    BY <1>3, <2>1 DEF CancelActor, PostSignal
  <2>3. OthersFit'
    BY <1>2, <1>3, <1>4 DEF OthersFit, Task!RecoverDispatch
  <2> QED
    BY <1>1, <1>4, <2>1, <2>2, <2>3, StepKeeps DEF Task!RecoverDispatch
<1>5. CASE /\ Task!Leave(Driver) \/ Task!LeaveQuarantined(Driver)
           /\ outbox' = outbox \/ Task!MarkPending(m)
  BY <1>1, <1>3, <1>5, LeavingKeeps DEF Task!RecoverDispatch
<1>6. \/ claims' = claims \cup {m} /\ Moves(Driver, new) /\ UNCHANGED <<outbox, job, recon>>
      \/ /\ Task!Leave(Driver) \/ Task!LeaveQuarantined(Driver)
         /\ outbox' = outbox \/ Task!MarkPending(m)
  BY Zenon DEF Task!RecoverDispatch, Moves
<1> QED
  BY <1>4, <1>5, <1>6

\* The cancellation is stored before anybody is signalled.
LEMMA RequestCancelKeeps ==
    ASSUME CancelInv, NEW x \in Task!Actor, Task!RequestCancel(x) PROVE CancelInv'
<1> DEFINE new == [actor[x] EXCEPT !.pc = "signal"]
<1>1. /\ Task!TypeOK /\ OthersFit /\ CancelActor(x) /\ actor[x] \in Task!ActorState
      /\ outbox["cancel"] \in Task!Record /\ outbox \in [Task!Key -> Task!Record]
  BY CancelTypes, KeyFacts DEF OthersFit
<1>2. [outbox["cancel"] EXCEPT !.state = "queued"] \in Task!Record
  BY <1>1 DEF Task!Record, Task!OutboxState
<1>3. /\ outbox' \in [Task!Key -> Task!Record]
      /\ outbox'["cancel"].state = IF outbox["cancel"].state = "none" THEN "queued"
                                   ELSE outbox["cancel"].state
  BY <1>1, <1>2, KeyFacts DEF Task!RequestCancel, Task!Record
<1>4. new \in Task!ActorState /\ new.pc = "signal" /\ new.key = actor[x].key /\ new.rec = actor[x].rec
  BY <1>1 DEF Task!ActorState
<1>5. Moves(x, new)
  BY <1>1, GotoMoves DEF Task!RequestCancel
<1>6. OthersFit'
  BY <1>1, <1>3 DEF OthersFit, Task!RequestCancel
<1> QED
  <2>1. actor'[x] = new => CancelActor(x)'
    BY <1>1, <1>3, <1>4 DEF CancelActor, PostSignal, PastQueue, Task!Unknown, Task!RequestCancel
  <2> QED
    BY <1>3, <1>4, <1>5, <1>6, <2>1, StepKeeps DEF Task!RequestCancel

\* The signal reaches every call there is, and the job that is to be called
\* has a token, so that nothing escapes it.
LEMMA SignalKeeps ==
    ASSUME CancelInv, NEW x \in Task!Actor, Task!Signal(x) PROVE CancelInv'
<1> DEFINE new == [actor[x] EXCEPT !.pc = "reserve",
                                   !.rec = IF x = Driver THEN @ ELSE outbox["cancel"]]
<1>1. /\ Task!TypeOK /\ OthersFit /\ CancelActor(x) /\ actor[x] \in Task!ActorState
      /\ PermitFacts /\ CancelFacts /\ actor[x].rec \in Task!Record
  BY CancelTypes
<1>2. actor[x].key = "cancel" /\ outbox["cancel"].state # "none"
  BY <1>1 DEF CancelActor, Task!Signal
<1>3. CASE (Task!Leave(x) \/ Task!LeaveQuarantined(x)) /\ token' = token
  BY <1>3, LeavingKeeps DEF Task!Signal, Task!mapper
<1>4. CASE /\ token' = (IF token = "none" THEN "none" ELSE "signalled")
           /\ Moves(x, new) /\ UNCHANGED <<claims, job, recon>>
  <2>1. new \in Task!ActorState /\ new.pc = "reserve" /\ new.key = "cancel"
        /\ (x = Driver => new.rec = actor[x].rec)
        /\ (x # Driver => new.rec = outbox["cancel"])
    BY <1>1, <1>2, KeyFacts DEF Task!ActorState, OthersFit
  <2>2. /\ actor' \in [Task!Actor -> Task!ActorState] /\ actor'[x] = new
        /\ \A y \in Task!Actor \ {x} : actor'[y] = actor[y]
    BY <1>1, <1>4, <2>1 DEF Moves, Task!TypeOK
  <2>3. UNCHANGED <<task, outbox, ready, claims, job, recon, alive, faults>>
    BY <1>4 DEF Task!Signal, Task!mapper
  <2>4. Task!TypeOK'
    BY <1>1, <1>4, <2>2, <2>3 DEF Task!TypeOK
  <2>5. CallsSignalled' /\ PermitFacts'
    BY <1>1, <1>4, <2>3 DEF CallsSignalled, PermitFacts, Permitted
  <2>9. RunsAttempt'
    BY <2>3 DEF CancelInv, RunsAttempt
  <2>6. CancelFacts' /\ Forward
    BY <1>1, <2>3, <2>5 DEF CancelFacts, PastQueue, Forward, Task!Terminal
  <2>7. CancelActor(x)'
    BY <1>1, <1>2, <2>1, <2>2, <2>3, <2>5 DEF CancelActor, PostSignal, PastQueue, Task!Unknown
  <2>8. ASSUME NEW y \in Task!Actor \ {x} PROVE CancelActor(y)'
    BY <2>2, <2>5, <2>6, CancelActorStays DEF CancelInv
  <2> QED
    BY <2>4, <2>5, <2>6, <2>7, <2>8, <2>9 DEF CancelInv
<1>5. \/ (Task!Leave(x) \/ Task!LeaveQuarantined(x)) /\ token' = token
      \/ /\ token' = (IF token = "none" THEN "none" ELSE "signalled")
         /\ Moves(x, new) /\ UNCHANGED <<claims, job, recon>>
  BY Zenon DEF Task!Signal, Moves
<1> QED
  BY <1>3, <1>4, <1>5

\* A cancellation that was tried is put aside, one that was not is signalled.
LEMMA RecoverCancellationKeeps ==
    ASSUME CancelInv, Task!RecoverCancellation PROVE CancelInv'
<1> DEFINE new(pc) == [actor[Driver] EXCEPT !.pc = pc]
<1>1. Driver \in Task!Actor /\ "cancel" \in Task!Key
  BY KeyFacts
<1>2. /\ Task!TypeOK /\ OthersFit /\ CancelActor(Driver) /\ actor[Driver] \in Task!ActorState
      /\ PermitFacts /\ CancelFacts
  BY <1>1, CancelTypes
<1>3. CASE Task!Leave(Driver)
  BY <1>1, <1>3, LeavingKeeps DEF Task!RecoverCancellation, Task!mapper
<1>4. ASSUME NEW pc \in {"ask", "signal"}, Task!Goto(Driver, pc),
             pc = "ask" => Task!Unknown(actor[Driver].rec),
             claims' \subseteq Task!Key, UNCHANGED <<job, recon>>
      PROVE  CancelInv'
  <2>1. new(pc) \in Task!ActorState /\ new(pc).pc = pc /\ new(pc).key = actor[Driver].key
        /\ new(pc).rec = actor[Driver].rec
    BY <1>2 DEF Task!ActorState
  <2>2. Moves(Driver, new(pc))
    BY <1>1, <1>2, <1>4, GotoMoves
  <2>3. UNCHANGED <<task, outbox, ready, token, alive, faults>>
        /\ actor[Driver].key = "cancel" /\ actor[Driver].pc = "claim"
    BY DEF Task!RecoverCancellation, Task!mapper
  <2>4. pc = "ask" => PastQueue /\ CallsSignalled
    BY <1>2, <1>4, <2>3 DEF CancelActor, CancelFacts
  <2>5. CallsSignalled => CallsSignalled'
    BY <1>4, <2>3 DEF CallsSignalled
  <2>6. actor'[Driver] = new(pc) => CancelActor(Driver)'
    BY <1>2, <2>1, <2>3, <2>4, <2>5 DEF CancelActor, PostSignal, PastQueue, Task!Unknown
  <2>7. OthersFit'
    BY <1>2, <1>4, <2>3 DEF OthersFit
  <2> QED
    BY <1>1, <1>4, <2>1, <2>2, <2>3, <2>6, <2>7, StepKeeps
<1>5. CASE Task!Unknown(actor[Driver].rec) /\ claims' = claims \cup {"cancel"}
           /\ Task!Goto(Driver, "ask") /\ UNCHANGED <<job, recon>>
  BY <1>1, <1>2, <1>4, <1>5 DEF OthersFit
<1>6. CASE Task!Goto(Driver, "signal") /\ UNCHANGED <<claims, job, recon>>
  BY <1>2, <1>4, <1>6 DEF OthersFit
<1> QED
  BY <1>3, <1>5, <1>6 DEF Task!RecoverCancellation

\* The cancellation has been signalled when its job is reserved.
LEMMA ReserveCancelKeeps ==
    ASSUME CancelInv, NEW x \in Task!Actor, Task!ReserveCancel(x) PROVE CancelInv'
<1> DEFINE next == IF x # Driver /\ Task!Unknown(actor[x].rec) THEN "ask"
                   ELSE IF actor[x].rec.state = "running" THEN "demote" ELSE "run"
           new == [actor[x] EXCEPT !.sender = TRUE, !.pc = next]
<1>1. /\ Task!TypeOK /\ OthersFit /\ CancelActor(x) /\ actor[x] \in Task!ActorState
      /\ "cancel" \in Task!Key /\ actor[x].key = "cancel" /\ actor[x].pc = "reserve"
  BY CancelTypes, KeyFacts DEF Task!ReserveCancel
<1>2. CASE /\ job' = Task!Reserved("cancel") /\ Moves(x, new) /\ UNCHANGED <<claims, recon, faults>>
  <2>1. new \in Task!ActorState /\ new.pc = next /\ next \in {"ask", "demote", "run"}
        /\ new.key = "cancel" /\ new.rec = actor[x].rec
    BY <1>1 DEF Task!ActorState
  <2>2. /\ job' \in [Task!Key -> Task!JobState] /\ job'["cancel"].pc = "gate"
        /\ ~job'["cancel"].fenced /\ \A m \in Message : job'[m] = job[m]
    <3>1. /\ job' \in [Task!Key -> Task!JobState] /\ job'["cancel"].pc = "gate"
          /\ ~job'["cancel"].fenced /\ \A m \in Task!Key \ {"cancel"} : job'[m] = job[m]
      BY <1>1, <1>2, ReservedMoves
    <3> QED
      BY <3>1, KeyFacts
  <2>3. UNCHANGED <<task, outbox, ready, token, alive>>
    BY DEF Task!ReserveCancel, Task!mapper
  <2>4. CallsSignalled => CallsSignalled'
    BY <2>2, <2>3 DEF CallsSignalled
  <2>5. actor'[x] = new => CancelActor(x)'
    BY <1>1, <2>1, <2>3, <2>4 DEF CancelActor, PostSignal, PastQueue, Task!Unknown
  <2>6. OthersFit'
    BY <1>1, <1>2, <2>2, <2>3 DEF OthersFit
  <2> QED
    BY <1>2, <2>1, <2>2, <2>3, <2>5, <2>6, StepKeeps
<1>3. CASE (Task!Leave(x) \/ Task!LeaveReleased(x)) /\ (Task!Fault \/ faults' = faults)
  BY <1>1, <1>3, LeavingKeeps DEF Task!ReserveCancel, Task!mapper
<1>4. \/ (Task!Leave(x) \/ Task!LeaveReleased(x)) /\ (Task!Fault \/ faults' = faults)
      \/ job' = Task!Reserved("cancel") /\ Moves(x, new) /\ UNCHANGED <<claims, recon, faults>>
  BY Zenon DEF Task!ReserveCancel, Moves
<1> QED
  BY <1>2, <1>3, <1>4

\* Whoever asks the host was preceded by the signal.
LEMMA DecideKeeps ==
    ASSUME CancelInv, NEW x \in Task!Actor, NEW answer, NEW newRecon,
           actor[x].pc = "ask", Task!Decide(x, answer, newRecon),
           newRecon \in [attempts: 0..MaxAttempts,
                         answer: {"none", "asked", "stopped", "retry", "required"}],
           UNCHANGED <<task, ready, token, alive, faults>>
    PROVE  CancelInv' /\ recon' = newRecon
<1> DEFINE new(pc) == [actor[x] EXCEPT !.pc = pc, !.asks = FALSE]
<1>1. /\ Task!TypeOK /\ OthersFit /\ CancelActor(x) /\ actor[x] \in Task!ActorState
      /\ "cancel" \in Task!Key /\ PastQueue /\ CallsSignalled /\ actor[x].key = "cancel"
  BY CancelTypes, KeyFacts DEF CancelActor, PostSignal
<1>2. recon' = newRecon
  BY Zenon DEF Task!Decide
<1>3. ASSUME NEW pc \in {"acknowledge", "demote", "run", "signal"}, Moves(x, new(pc)),
             outbox' = outbox, job' = job, claims' \in {claims, claims \ {"cancel"}}
      PROVE  CancelInv'
  <2>1. new(pc) \in Task!ActorState /\ new(pc).pc = pc /\ new(pc).key = "cancel"
        /\ new(pc).rec = actor[x].rec
    BY <1>1 DEF Task!ActorState
  <2>2. PastQueue' /\ CallsSignalled' /\ outbox["cancel"].state # "none"
    BY <1>1, <1>3 DEF PastQueue, CallsSignalled
  <2>3. actor'[x] = new(pc) => CancelActor(x)'
    BY <1>3, <2>1, <2>2 DEF CancelActor, PostSignal, PastQueue
  <2>4. OthersFit'
    BY <1>1, <1>2, <1>3 DEF OthersFit
  <2> QED
    BY <1>3, <2>1, <2>3, <2>4, StepKeeps
<1>4. ASSUME Task!Rest(x), outbox' = outbox \/ Task!MarkPending("cancel"),
             job' = job \/ job' = Task!Dropped("cancel"), claims' = claims
      PROVE  CancelInv'
  <2>1. PICK pc \in {"idle", "gone", "dispatches"} : Moves(x, [Task!AtRest EXCEPT !.pc = pc])
    BY <1>1, <1>4, RestMoves DEF Task!Rest, Moves
  <2>2. [Task!AtRest EXCEPT !.pc = pc] \in Task!ActorState
    BY Blank
  <2>3. /\ outbox' \in [Task!Key -> Task!Record] /\ outbox["cancel"].state # "none"
        /\ \/ outbox'["cancel"].state = outbox["cancel"].state
           \/ outbox'["cancel"].state = "pending"
    BY <1>1, <1>4, MarkMoves DEF OthersFit, PastQueue
  <2>4. /\ job' \in [Task!Key -> Task!JobState]
        /\ \A m \in Message : job'[m] = job[m]
        /\ \/ job'["cancel"] = job["cancel"]
           \/ job'["cancel"].pc = "done" /\ ~job'["cancel"].fenced
    <3>1. CASE job' = job
      BY <1>1, <3>1 DEF OthersFit
    <3>2. CASE job' = Task!Dropped("cancel")
      <4>1. /\ job' \in [Task!Key -> Task!JobState]
            /\ \A k \in Task!Key \ {"cancel"} : job'[k] = job[k]
            /\ job'["cancel"] = [Task!NoJob EXCEPT !.pc = "done"]
        BY <1>1, <3>2, Blank DEF Task!Dropped, OthersFit
      <4> QED
        BY <4>1, KeyFacts DEF Task!NoJob
    <3> QED
      BY <1>4, <3>1, <3>2
  <2>5. OthersFit'
    BY <1>1, <1>2, <1>4, <2>3, <2>4 DEF OthersFit
  <2> QED
    BY <1>1, <2>1, <2>2, <2>3, <2>4, <2>5, RestingKnows, StepKeeps
<1>5. \/ \E pc \in {"acknowledge", "demote", "run", "signal"} :
            Moves(x, new(pc)) /\ outbox' = outbox /\ job' = job
            /\ claims' \in {claims, claims \ {"cancel"}}
      \/ /\ Task!Rest(x) /\ (outbox' = outbox \/ Task!MarkPending("cancel"))
         /\ job' = job \/ job' = Task!Dropped("cancel")
         /\ claims' = claims
  BY Zenon DEF Task!Decide, Moves
<1> QED
  BY <1>2, <1>3, <1>4, <1>5

\* What a question is answered with has its type.
LEMMA AskedFits ==
    ASSUME CancelInv, NEW x \in Task!Actor
    PROVE  \A answer \in {"none", "asked", "stopped", "retry", "required"} :
              /\ recon \in [attempts: 0..MaxAttempts,
                            answer: {"none", "asked", "stopped", "retry", "required"}]
              /\ Task!Asked(x) \in [attempts: 0..MaxAttempts,
                                    answer: {"none", "asked", "stopped", "retry", "required"}]
              /\ [attempts |-> actor[x].rec.attempts, answer |-> answer] \in
                    [attempts: 0..MaxAttempts,
                     answer: {"none", "asked", "stopped", "retry", "required"}]
BY CancelTypes DEF Task!Asked, Task!Record, OthersFit

\* The question whether the work was stopped.
LEMMA AskKeeps ==
    ASSUME CancelInv, NEW x \in Task!Actor, Task!Ask(x) PROVE CancelInv'
<1> DEFINE new == [actor[x] EXCEPT !.asks = TRUE]
<1>1. /\ Task!TypeOK /\ OthersFit /\ CancelActor(x) /\ actor[x] \in Task!ActorState
  BY CancelTypes
<1>2. \A answer : Task!Decide(x, answer, recon) => CancelInv'
  BY AskedFits, DecideKeeps DEF Task!Ask
<1>3. CASE recon' = Task!Asked(x) /\ Moves(x, new) /\ UNCHANGED <<outbox, claims, job>>
  <2>1. new \in Task!ActorState /\ new.pc = actor[x].pc /\ new.key = actor[x].key
        /\ new.rec = actor[x].rec
    BY <1>1 DEF Task!ActorState
  <2>2. UNCHANGED <<task, ready, token, alive, faults>>
    BY DEF Task!Ask
  <2>3. CallsSignalled => CallsSignalled'
    BY <1>3, <2>2 DEF CallsSignalled
  <2>4. actor'[x] = new => CancelActor(x)'
    BY <1>1, <1>3, <2>1, <2>3 DEF CancelActor, PostSignal, PastQueue, Task!Unknown
  <2>5. OthersFit'
    BY <1>1, <1>3, <2>2, AskedFits DEF OthersFit
  <2> QED
    BY <1>3, <2>1, <2>2, <2>4, <2>5, StepKeeps
<1>4. \/ \E answer : Task!Decide(x, answer, recon)
      \/ recon' = Task!Asked(x) /\ Moves(x, new) /\ UNCHANGED <<outbox, claims, job>>
  BY Zenon DEF Task!Ask, Moves
<1> QED
  BY <1>2, <1>3, <1>4

\* Whatever the host answers, the signal has been given.
LEMMA AnswerKeeps ==
    ASSUME CancelInv, NEW x \in Task!Actor, Task!Answer(x) PROVE CancelInv'
<1>1. PICK answer \in {"retry", "required", "stopped"} :
          Task!Decide(x, answer, IF recon = Task!Asked(x)
                                 THEN [attempts |-> actor[x].rec.attempts, answer |-> answer]
                                 ELSE recon)
  BY DEF Task!Answer
<1> QED
  BY <1>1, AskedFits, DecideKeeps DEF Task!Answer

\* Who gives up the work on the cancellation changes nothing else.
LEMMA CancelLeaves ==
    ASSUME CancelInv, NEW x \in Task!Actor, actor[x].key = "cancel",
           Task!Leave(x) \/ Task!LeaveReleased(x), Task!Fault \/ faults' = faults,
           UNCHANGED <<task, outbox, ready, token, alive>>
    PROVE  CancelInv'
BY LeavingKeeps

\* The attested cancellation ends the task.
LEMMA AcknowledgeKeeps ==
    ASSUME CancelInv, NEW x \in Task!Actor, Task!AcknowledgeAsked(x) PROVE CancelInv'
<1> DEFINE n == actor[x].rec.attempts
<1>1. /\ Task!TypeOK /\ OthersFit /\ CancelActor(x) /\ actor[x] \in Task!ActorState
      /\ "cancel" \in Task!Key /\ n \in 0..MaxAttempts
      /\ actor[x].key = "cancel"
  BY CancelTypes, KeyFacts DEF CancelActor, Task!AcknowledgeAsked, Task!Record
<1>2. CASE /\ Task!Acknowledges(n) /\ claims' = claims \cup {"cancel"}
           /\ job' = IF x = Driver THEN job
                     ELSE [job EXCEPT !["cancel"] =
                              [pc |-> "queued", attempt |-> n, claim |-> TRUE, fenced |-> TRUE]]
           /\ Task!Rest(x) /\ UNCHANGED <<recon, faults>>
  <2>1. PICK pc \in {"idle", "gone", "dispatches"} : Moves(x, [Task!AtRest EXCEPT !.pc = pc])
    BY <1>1, <1>2, RestMoves DEF Task!Rest, Moves
  <2>2. [Task!AtRest EXCEPT !.pc = pc] \in Task!ActorState
    BY Blank
  <2>3. /\ outbox' \in [Task!Key -> Task!Record] /\ task' = "cancelled"
        /\ outbox'["cancel"].state = "settled" /\ PastQueue /\ PastQueue'
    BY <1>1, <1>2, EndMoves DEF Task!Acknowledgeable, Task!Unknown, Task!Unsettled, PastQueue
  <2>4. /\ job' \in [Task!Key -> Task!JobState]
        /\ \A m \in Message : job'[m] = job[m]
        /\ job'["cancel"] = job["cancel"] \/ job'["cancel"].pc = "queued"
    <3>1. CASE job' = job
      BY <1>1, <3>1 DEF OthersFit
    <3>2. CASE job' = [job EXCEPT !["cancel"] =
                          [pc |-> "queued", attempt |-> n, claim |-> TRUE, fenced |-> TRUE]]
      <4>1. /\ job' \in [Task!Key -> Task!JobState] /\ job'["cancel"].pc = "queued"
            /\ \A k \in Task!Key \ {"cancel"} : job'[k] = job[k]
        BY <1>1, <3>2, QueuedMoves
      <4> QED
        BY <4>1, KeyFacts
    <3> QED
      BY <1>2, <3>1, <3>2
  <2>5. OthersFit' /\ task' \in Task!Terminal
    BY <1>1, <1>2, <2>3, <2>4 DEF OthersFit, Task!AcknowledgeAsked, Task!Terminal
  <2> QED
    BY <2>1, <2>2, <2>3, <2>4, <2>5, RestingKnows, StepKeeps DEF Task!AcknowledgeAsked
<1>3. CASE /\ Task!Leave(x) \/ Task!LeaveReleased(x)
           /\ Task!Fault \/ faults' = faults
           /\ UNCHANGED <<task, outbox>>
  BY <1>1, <1>3, CancelLeaves DEF Task!AcknowledgeAsked
<1> QED
  BY <1>2, <1>3, Zenon DEF Task!AcknowledgeAsked

\* The cancellation becomes pending again, and stays signalled.
LEMMA DemoteCancelKeeps ==
    ASSUME CancelInv, NEW x \in Task!Actor, Task!DemoteCancel(x) PROVE CancelInv'
<1>1. /\ Task!TypeOK /\ OthersFit /\ CancelActor(x) /\ actor[x] \in Task!ActorState
      /\ "cancel" \in Task!Key /\ actor[x].key = "cancel" /\ actor[x].pc = "demote"
  BY CancelTypes, KeyFacts DEF Task!DemoteCancel
<1>2. CASE Task!MarkPending("cancel") /\ Task!Goto(x, "run")
           /\ UNCHANGED <<claims, job, recon, faults>>
  <2> DEFINE new == [actor[x] EXCEPT !.pc = "run"]
  <2>1. new \in Task!ActorState /\ new.pc = "run" /\ new.key = "cancel" /\ new.rec = actor[x].rec
    BY <1>1 DEF Task!ActorState
  <2>2. Moves(x, new)
    BY <1>1, <1>2, GotoMoves
  <2>3. outbox' \in [Task!Key -> Task!Record] /\ outbox'["cancel"].state = "pending"
    BY <1>1, <1>2, MarkMoves
  <2>4. outbox["cancel"].state # "none" /\ CallsSignalled
    BY <1>1 DEF CancelActor, PostSignal
  <2>5. CallsSignalled'
    BY <1>2, <2>4 DEF CallsSignalled, Task!DemoteCancel
  <2>6. actor'[x] = new => CancelActor(x)'
    BY <2>1, <2>3, <2>5 DEF CancelActor, PostSignal, PastQueue, Task!Unknown
  <2>7. OthersFit'
    BY <1>1, <1>2, <2>3 DEF OthersFit, Task!DemoteCancel
  <2> QED
    BY <1>2, <2>1, <2>2, <2>3, <2>4, <2>6, <2>7, StepKeeps DEF Task!DemoteCancel
<1>3. CASE /\ Task!Leave(x) \/ Task!LeaveReleased(x)
           /\ Task!Fault \/ faults' = faults
           /\ UNCHANGED outbox
  BY <1>1, <1>3, CancelLeaves DEF Task!DemoteCancel
<1> QED
  BY <1>2, <1>3, Zenon DEF Task!DemoteCancel

\* The cancellation is recorded as running by the one whose job is reserved.
LEMMA RunCancelKeeps ==
    ASSUME CancelInv, NEW x \in Task!Actor, Task!RunCancel(x) PROVE CancelInv'
<1>1. /\ Task!TypeOK /\ OthersFit /\ CancelActor(x) /\ actor[x] \in Task!ActorState
      /\ "cancel" \in Task!Key /\ actor[x].key = "cancel" /\ actor[x].pc = "run"
  BY CancelTypes, KeyFacts DEF Task!RunCancel
<1>2. CASE Task!MarkRunning("cancel") /\ Task!Goto(x, "send")
           /\ UNCHANGED <<claims, job, recon, faults>>
  <2> DEFINE new == [actor[x] EXCEPT !.pc = "send"]
  <2>1. new \in Task!ActorState /\ new.pc = "send" /\ new.key = "cancel" /\ new.rec = actor[x].rec
    BY <1>1 DEF Task!ActorState
  <2>2. Moves(x, new)
    BY <1>1, <1>2, GotoMoves
  <2>3. outbox' \in [Task!Key -> Task!Record] /\ outbox'["cancel"].state = "running"
    BY <1>1, <1>2, MarkMoves
  <2>4. outbox["cancel"].state # "none" /\ CallsSignalled
    BY <1>1 DEF CancelActor, PostSignal
  <2>5. CallsSignalled'
    BY <1>2, <2>4 DEF CallsSignalled, Task!RunCancel
  <2>6. actor'[x] = new => CancelActor(x)'
    BY <2>1, <2>3, <2>5 DEF CancelActor, PostSignal, PastQueue, Task!Unknown
  <2>7. OthersFit'
    BY <1>1, <1>2, <2>3 DEF OthersFit, Task!RunCancel
  <2> QED
    BY <1>2, <2>1, <2>2, <2>3, <2>4, <2>6, <2>7, StepKeeps DEF Task!RunCancel
<1>3. CASE /\ Task!Leave(x) \/ Task!LeaveReleased(x)
           /\ Task!Fault \/ faults' = faults
           /\ UNCHANGED outbox
  BY <1>1, <1>3, CancelLeaves DEF Task!RunCancel
<1> QED
  BY <1>2, <1>3, Zenon DEF Task!RunCancel

\* The job of the cancellation is queued by who has signalled.
LEMMA SendCancelKeeps ==
    ASSUME CancelInv, NEW x \in Task!Actor, Task!SendCancel(x) PROVE CancelInv'
<1>1. /\ Task!TypeOK /\ OthersFit /\ CancelActor(x) /\ actor[x] \in Task!ActorState
      /\ "cancel" \in Task!Key /\ actor[x].key = "cancel" /\ PastQueue
      /\ outbox["cancel"].attempts \in 0..MaxAttempts
  BY CancelTypes, KeyFacts DEF CancelActor, Task!SendCancel, OthersFit, Task!Record
<1>2. PICK pc \in {"idle", "gone", "dispatches"} : Moves(x, [Task!AtRest EXCEPT !.pc = pc])
  BY <1>1, RestMoves DEF Task!Rest, Task!SendCancel, Moves
<1>3. [Task!AtRest EXCEPT !.pc = pc] \in Task!ActorState
  BY Blank
<1>4. /\ job' \in [Task!Key -> Task!JobState] /\ job'["cancel"].pc = "queued"
      /\ ~job'["cancel"].fenced /\ \A m \in Message : job'[m] = job[m]
  <2>1. /\ job' \in [Task!Key -> Task!JobState] /\ job'["cancel"].pc = "queued"
        /\ job'["cancel"].fenced = FALSE /\ \A k \in Task!Key \ {"cancel"} : job'[k] = job[k]
    BY <1>1, QueuedMoves DEF Task!SendCancel
  <2> QED
    BY <2>1, KeyFacts
<1>5. OthersFit' /\ PastQueue'
  BY <1>1, <1>4 DEF OthersFit, Task!SendCancel, Task!mapper, PastQueue
<1> QED
  BY <1>2, <1>3, <1>4, <1>5, RestingKnows, StepKeeps DEF Task!SendCancel, Task!mapper

\* A request that is dropped changes nothing but what it held.
LEMMA AbortKeeps ==
    ASSUME CancelInv, NEW x \in Task!Actor, Task!Abort(x) PROVE CancelInv'
BY LeavingKeeps DEF Task!Abort, Task!mapper

\* A step of which no actor takes notice.
LEMMA HostStepKeeps ==
    ASSUME CancelInv, OthersFit', actor' = actor, PermitFacts', RunsAttempt', CancelFacts', Forward,
           outbox["cancel"].state # "none" /\ CallsSignalled => CallsSignalled'
    PROVE  CancelInv'
<1>1. Task!TypeOK'
  BY DEF OthersFit, Task!TypeOK, CancelInv
<1>2. ASSUME NEW x \in Task!Actor PROVE CancelActor(x)'
  BY CancelActorStays DEF CancelInv
<1> QED
  BY <1>1, <1>2 DEF CancelInv

\* The job of a message goes on.
LEMMA MessageJob ==
    ASSUME CancelInv, NEW m \in Message,
           NEW pc \in {"admitted", "registered", "call", "host", "stopped", "settling",
                       "failing", "done"},
           Task!JobTo(m, pc)
    PROVE  /\ job' \in [Task!Key -> Task!JobState] /\ job'["cancel"] = job["cancel"]
           /\ \A o \in Message \ {m} : job'[o] = job[o]
           /\ job'[m].pc = pc /\ job'[m].attempt = job[m].attempt /\ job'[m].claim = job[m].claim
           /\ OthersFit /\ PermitFacts /\ CancelFacts
           /\ job[m].pc \in Permitted \cup {"queued"} \/ pc \notin Permitted => RunsAttempt'
<1>1. Task!TypeOK /\ m \in Task!Key /\ m # "cancel" /\ "cancel" \in Task!Key
  BY KeyFacts DEF CancelInv
<1>2. /\ job' \in [Task!Key -> Task!JobState]
      /\ \A j \in Task!Key \ {m} : job'[j] = job[j]
      /\ job'[m].pc = pc /\ job'[m].attempt = job[m].attempt /\ job'[m].claim = job[m].claim
  BY <1>1, JobMoves
<1>3. OthersFit /\ PermitFacts /\ CancelFacts
  BY <1>1 DEF CancelInv, OthersFit, Task!TypeOK
<1>4. job[m].pc \in Permitted \cup {"queued"} \/ pc \notin Permitted => RunsAttempt'
  BY <1>1, <1>2, KeyFacts DEF CancelInv, RunsAttempt, Permitted
<1> QED
  BY <1>1, <1>2, <1>3, <1>4, KeyFacts

\* A job whose step gives no call, nor makes one.
LEMMA QuietJob ==
    ASSUME CancelInv, NEW m \in Message,
           NEW pc \in {"host", "stopped", "settling", "failing", "done"}, Task!JobTo(m, pc),
           pc = "host" => job[m].pc = "call",
           pc = "stopped" => job[m].pc \in Permitted,
           OthersFit', actor' = actor, token' = token,
           outbox'["cancel"] = outbox["cancel"], task' = task
    PROVE  CancelInv'
<1>1. /\ job'["cancel"] = job["cancel"] /\ \A o \in Message \ {m} : job'[o] = job[o]
      /\ job'[m].pc = pc /\ PermitFacts /\ CancelFacts /\ RunsAttempt'
  BY MessageJob DEF Permitted
<1>2. PermitFacts'
  BY <1>1 DEF PermitFacts, Permitted
<1>3. CallsSignalled => CallsSignalled'
  BY <1>1 DEF CallsSignalled
<1>4. CancelFacts' /\ Forward
  BY <1>1, <1>3 DEF CancelFacts, PastQueue, Forward
<1> QED
  BY <1>1, <1>2, <1>3, <1>4, HostStepKeeps

\* One permit is given.
LEMMA AdmitKeeps ==
    ASSUME CancelInv, NEW m \in Message, Task!Admit(m) PROVE CancelInv'
<1>1. \/ Task!JobTo(m, "admitted") /\ Task!PermitFree(m)
      \/ Task!JobTo(m, "settling") \/ Task!JobTo(m, "failing")
  BY DEF Task!Admit, Task!After
<1>2. OthersFit'
  <2>1. job' \in [Task!Key -> Task!JobState] /\ OthersFit
    BY <1>1, MessageJob
  <2> QED
    BY <2>1 DEF OthersFit, Task!Admit, Task!mapper
<1>3. CASE Task!JobTo(m, "admitted") /\ Task!PermitFree(m)
  <2>1. /\ job'["cancel"] = job["cancel"] /\ \A o \in Message \ {m} : job'[o] = job[o]
        /\ job'[m].pc = "admitted" /\ PermitFacts /\ CancelFacts /\ RunsAttempt'
    BY <1>3, MessageJob DEF Task!Admit
  <2>2. PermitFacts'
    BY <1>3, <2>1 DEF PermitFacts, Permitted, Task!PermitFree, Task!Admit
  <2>3. CallsSignalled => CallsSignalled'
    BY <2>1 DEF CallsSignalled, Task!Admit
  <2>4. CancelFacts' /\ Forward
    BY <2>1, <2>3 DEF CancelFacts, PastQueue, Forward, Task!Admit, Task!mapper
  <2> QED
    BY <1>2, <2>1, <2>2, <2>3, <2>4, HostStepKeeps DEF Task!Admit
<1>4. CASE Task!JobTo(m, "settling") \/ Task!JobTo(m, "failing")
  BY <1>2, <1>4, QuietJob DEF Task!Admit, Task!mapper
<1> QED
  BY <1>1, <1>3, <1>4

\* The job that is about to call has a token that a cancellation can reach.
LEMMA RegisterKeeps ==
    ASSUME CancelInv, NEW m \in Message, Task!Register(m) PROVE CancelInv'
<1>1. CASE token = "none" /\ Task!JobTo(m, "registered") /\ token' = "live"
  <2>1. /\ job'["cancel"] = job["cancel"] /\ \A o \in Message \ {m} : job'[o] = job[o]
        /\ job'[m].pc = "registered" /\ PermitFacts /\ CancelFacts /\ RunsAttempt'
        /\ OthersFit /\ job' \in [Task!Key -> Task!JobState]
    BY <1>1, MessageJob DEF Task!Register, Permitted
  <2>2. OthersFit'
    BY <1>1, <2>1 DEF OthersFit, Task!Register, Task!mapper
  <2>3. PermitFacts' /\ CallsSignalled'
    BY <1>1, <2>1 DEF PermitFacts, Permitted, CallsSignalled, Task!Register
  <2>4. CancelFacts' /\ Forward
    BY <2>1, <2>3 DEF CancelFacts, PastQueue, Forward, Task!Register, Task!mapper
  <2> QED
    BY <2>1, <2>2, <2>3, <2>4, HostStepKeeps DEF Task!Register
<1>2. CASE Task!JobTo(m, "failing") /\ token' = token
  <2>1. OthersFit /\ job' \in [Task!Key -> Task!JobState]
    BY <1>2, MessageJob
  <2>2. OthersFit'
    BY <1>2, <2>1 DEF OthersFit, Task!Register, Task!mapper
  <2> QED
    BY <1>2, <2>2, QuietJob DEF Task!Register, Task!mapper
<1> QED
  BY <1>1, <1>2 DEF Task!Register

\* The second check finds a cancellation that is stored.
LEMMA RecheckKeeps ==
    ASSUME CancelInv, NEW m \in Message, Task!Recheck(m) PROVE CancelInv'
<1>1. PICK pc \in {"call", "settling", "failing"} :
          /\ Task!JobTo(m, pc) /\ (pc = "call" => Task!Standing(m) = "current")
          /\ (pc # "call" => Task!Standing(m) # "current")
  BY DEF Task!Recheck, Task!After, Task!Standing
<1>2. /\ job'["cancel"] = job["cancel"] /\ \A o \in Message \ {m} : job'[o] = job[o]
      /\ job'[m].pc = pc /\ PermitFacts /\ CancelFacts /\ RunsAttempt'
      /\ OthersFit /\ job' \in [Task!Key -> Task!JobState]
  BY <1>1, MessageJob DEF Task!Recheck, Permitted
<1>3. OthersFit'
  BY <1>1, <1>2 DEF OthersFit, Task!Recheck, Task!mapper
<1>4. PermitFacts'
  BY <1>1, <1>2 DEF PermitFacts, Permitted, Task!Recheck
<1>5. CASE pc = "call"
  <2>1. Task!Standing(m) = "current" /\ m # "cancel"
    BY <1>1, <1>5, KeyFacts
  <2>2. task = "working" /\ ~Task!Unsettled("cancel")
    BY <2>1 DEF Task!Standing, Task!Runnable
  <2>3. outbox["cancel"].state = "none" /\ task \notin Task!Terminal
    BY <1>2, <2>2 DEF CancelFacts, Task!Unsettled, Task!Terminal
  <2>4. CancelFacts' /\ Forward
    BY <1>2, <2>2, <2>3 DEF CancelFacts, PastQueue, Forward, Task!Recheck, Task!mapper
  <2> QED
    BY <1>2, <1>3, <1>4, <2>3, <2>4, HostStepKeeps DEF Task!Recheck
<1>6. CASE pc # "call"
  <2>1. CallsSignalled'
    BY <1>1, <1>2, <1>6 DEF PermitFacts, Permitted, CallsSignalled, Task!Recheck
  <2>2. CancelFacts' /\ Forward
    BY <1>2, <2>1 DEF CancelFacts, PastQueue, Forward, Task!Recheck, Task!mapper
  <2> QED
    BY <1>2, <1>3, <1>4, <2>1, <2>2, HostStepKeeps DEF Task!Recheck
<1> QED
  BY <1>5, <1>6

\* A call begins and returns under the permit.
LEMMA CallHostKeeps ==
    ASSUME CancelInv, NEW m \in Message, Task!CallHost(m) PROVE CancelInv'
<1>1. /\ OthersFit /\ job' \in [Task!Key -> Task!JobState] /\ job[m] \in Task!JobState
  BY MessageJob, KeyFacts DEF Task!CallHost, OthersFit
<1>2. alive' \subseteq Message \X (1..MaxAttempts)
  <2>1. job[m].attempt \in 1..MaxAttempts /\ job[m].attempt \in 0..MaxAttempts
    BY <1>1 DEF CancelInv, RunsAttempt, Permitted, Task!CallHost, Task!JobState
  <2> QED
    BY <1>1, <2>1, KeyFacts DEF Task!CallHost, OthersFit
<1>3. OthersFit'
  BY <1>1, <1>2 DEF OthersFit, Task!CallHost, Task!mapper
<1> QED
  BY <1>3, QuietJob DEF Task!CallHost, Task!mapper

\* A call that returns is no longer awaited.
LEMMA HostReturnsKeeps ==
    ASSUME CancelInv, NEW m \in Message, Task!HostReturns(m) PROVE CancelInv'
<1>1. PICK pc \in {"stopped", "settling", "failing"} : Task!JobTo(m, pc)
  BY DEF Task!HostReturns
<1>2. /\ job'["cancel"] = job["cancel"] /\ \A o \in Message \ {m} : job'[o] = job[o]
      /\ job'[m].pc = pc /\ PermitFacts /\ CancelFacts /\ RunsAttempt'
      /\ OthersFit /\ job' \in [Task!Key -> Task!JobState]
  BY <1>1, MessageJob DEF Task!HostReturns, Permitted
<1>3. UNCHANGED <<task, outbox, ready, claims, recon, actor, faults>> /\ token' = "none"
  BY DEF Task!HostReturns, Task!mapper
<1>4. alive' \subseteq alive
  BY DEF Task!HostReturns
<1>5. OthersFit'
  BY <1>2, <1>3, <1>4 DEF OthersFit
<1>6. PermitFacts' /\ CallsSignalled'
  BY <1>2 DEF PermitFacts, Permitted, CallsSignalled, Task!HostReturns
<1>7. CancelFacts' /\ Forward
  BY <1>2, <1>3, <1>6 DEF CancelFacts, PastQueue, Forward
<1> QED
  BY <1>2, <1>3, <1>5, <1>6, <1>7, HostStepKeeps

\* A call that says it stopped was the only one.
LEMMA StoppedKeeps ==
    ASSUME CancelInv, NEW m \in Message, Task!Stopped(m) PROVE CancelInv'
<1>1. Task!TypeOK /\ OthersFit /\ m \in Task!Key \ {"cancel"} /\ "cancel" \in Task!Key
  BY CancelTypes, KeyFacts
<1>2. UNCHANGED <<ready, claims, token, recon, actor, alive>> /\ faults' \in 0..MaxFaults
  BY <1>1, FaultMoves DEF Task!Stopped
<1>3. CASE Task!Transitions(m, job[m].attempt, "cancelled") /\ Task!JobTo(m, "settling")
  <2>1. /\ job'["cancel"] = job["cancel"] /\ \A o \in Message \ {m} : job'[o] = job[o]
        /\ job'[m].pc = "settling" /\ PermitFacts /\ CancelFacts /\ RunsAttempt'
        /\ job' \in [Task!Key -> Task!JobState]
    BY <1>3, MessageJob DEF Permitted
  <2>2. /\ outbox' \in [Task!Key -> Task!Record] /\ task' = "cancelled"
        /\ outbox'["cancel"] = outbox["cancel"]
    BY <1>1, <1>3, EndMoves, KeyFacts
  <2>3. OthersFit'
    BY <1>1, <1>2, <2>1, <2>2 DEF OthersFit, Task!Terminal
  <2>4. PermitFacts' /\ CallsSignalled'
    BY <1>2, <2>1 DEF PermitFacts, Permitted, CallsSignalled, Task!Stopped
  <2>5. CancelFacts' /\ Forward
    BY <2>1, <2>2, <2>4 DEF CancelFacts, PastQueue, Forward, Task!Terminal
  <2> QED
    BY <1>2, <2>1, <2>3, <2>4, <2>5, HostStepKeeps
<1>4. CASE Task!JobTo(m, "failing") /\ UNCHANGED <<task, outbox>>
  <2>1. job' \in [Task!Key -> Task!JobState]
    BY <1>4, MessageJob
  <2>2. OthersFit'
    BY <1>1, <1>2, <1>4, <2>1 DEF OthersFit
  <2> QED
    BY <1>2, <1>4, <2>2, QuietJob
<1> QED
  BY <1>3, <1>4 DEF Task!Stopped

\* The job of the cancellation goes on, or its record does.
LEMMA CancelJob ==
    ASSUME CancelInv, OthersFit', actor' = actor, token' = token,
           \A m \in Message : job'[m] = job[m] \/ job'[m].pc \in {"none", "done"},
           CancelFacts', task \in Task!Terminal => task' \in Task!Terminal,
           outbox["cancel"].state # "none" => outbox'["cancel"].state # "none",
           PastQueue => PastQueue'
    PROVE  CancelInv'
<1>1. PermitFacts' /\ RunsAttempt'
  BY DEF CancelInv, PermitFacts, RunsAttempt, Permitted
<1>2. CallsSignalled => CallsSignalled'
  BY DEF CallsSignalled
<1> QED
  BY <1>1, <1>2, HostStepKeeps DEF Forward

\* A job ends, and settles its record or leaves it open.
LEMMA SettleKeeps ==
    ASSUME CancelInv, NEW k \in Task!Key, Task!Settle(k) PROVE CancelInv'
<1>1. Task!TypeOK /\ OthersFit /\ CancelFacts /\ "cancel" \in Task!Key
  BY KeyFacts DEF CancelInv, OthersFit, Task!TypeOK
<1>2. /\ job' \in [Task!Key -> Task!JobState]
      /\ \A j \in Task!Key \ {k} : job'[j] = job[j]
      /\ job'[k].pc = "done" /\ job'[k].fenced = job[k].fenced
  BY <1>1, JobMoves DEF Task!Settle
<1>3. UNCHANGED <<task, ready, claims, token, recon, actor, alive>> /\ faults' \in 0..MaxFaults
  BY <1>1, FaultMoves DEF Task!Settle
<1>4. [outbox[k] EXCEPT !.state = "settled"] \in Task!Record
  BY <1>1 DEF OthersFit, Task!Record, Task!OutboxState
<1>5. /\ outbox' \in [Task!Key -> Task!Record]
      /\ outbox'["cancel"] = outbox["cancel"]
         \/ (k = "cancel" /\ outbox'["cancel"].state = "settled")
  BY <1>1, <1>4 DEF OthersFit, Task!Settle, Task!Record
<1>6. OthersFit'
  BY <1>1, <1>2, <1>3, <1>5 DEF OthersFit
<1>7. \A m \in Message : job'[m] = job[m] \/ job'[m].pc \in {"none", "done"}
  BY <1>2, KeyFacts
<1>8. CallsSignalled => CallsSignalled'
  BY <1>3, <1>7 DEF CallsSignalled
<1>9. CancelFacts'
  BY <1>1, <1>2, <1>3, <1>5, <1>8 DEF CancelFacts, PastQueue, Task!Settle
<1> QED
  BY <1>3, <1>5, <1>6, <1>7, <1>9, CancelJob DEF PastQueue

\* A job that fails leaves its record to be reconciled, and stays past its queue.
LEMMA FailKeeps ==
    ASSUME CancelInv, NEW k \in Task!Key, Task!Fail(k) PROVE CancelInv'
<1>1. Task!TypeOK /\ OthersFit /\ CancelFacts /\ "cancel" \in Task!Key
  BY KeyFacts DEF CancelInv, OthersFit, Task!TypeOK
<1>2. /\ job' \in [Task!Key -> Task!JobState]
      /\ \A j \in Task!Key \ {k} : job'[j] = job[j]
      /\ job'[k].pc \in {"done", "failing2"} /\ job'[k].fenced = job[k].fenced
      /\ k # "cancel" => job'[k].pc = "done"
  BY <1>1, JobMoves DEF Task!Fail
<1>3. UNCHANGED <<task, ready, claims, token, recon, actor, alive>> /\ faults' \in 0..MaxFaults
  BY <1>1, FaultMoves DEF Task!Fail
<1>4. outbox' = outbox \/ Task!MarkPending(k)
  BY DEF Task!Fail
<1>5. /\ outbox' \in [Task!Key -> Task!Record]
      /\ outbox'["cancel"] = outbox["cancel"]
         \/ (k = "cancel" /\ outbox'["cancel"].state = "pending")
  BY <1>1, <1>4, MarkMoves DEF OthersFit
<1>6. OthersFit'
  BY <1>1, <1>2, <1>3, <1>5 DEF OthersFit
<1>7. \A m \in Message : job'[m] = job[m] \/ job'[m].pc \in {"none", "done"}
  BY <1>2, KeyFacts
<1>8. CallsSignalled => CallsSignalled'
  BY <1>3, <1>7 DEF CallsSignalled
<1>9. CancelFacts'
  BY <1>1, <1>2, <1>3, <1>5, <1>8 DEF CancelFacts, PastQueue, Task!Fail
<1> QED
  BY <1>3, <1>5, <1>6, <1>7, <1>9, CancelJob DEF PastQueue

\* A job that is done gives up what it held.
LEMMA FinishKeeps ==
    ASSUME CancelInv, NEW k \in Task!Key, Task!FinishJob(k) PROVE CancelInv'
<1>1. Task!TypeOK /\ OthersFit /\ CancelFacts /\ "cancel" \in Task!Key
  BY KeyFacts DEF CancelInv, OthersFit, Task!TypeOK
<1>2. /\ job' \in [Task!Key -> Task!JobState]
      /\ \A j \in Task!Key \ {k} : job'[j] = job[j]
      /\ job'[k].pc = "none" /\ job'[k].fenced = FALSE
  BY <1>1, Blank DEF Task!FinishJob, OthersFit, Task!NoJob
<1>3. UNCHANGED <<task, outbox, ready, token, recon, actor, alive, faults>>
      /\ claims' \subseteq claims
  BY DEF Task!FinishJob, Task!mapper
<1>6. OthersFit'
  BY <1>1, <1>2, <1>3 DEF OthersFit
<1>7. \A m \in Message : job'[m] = job[m] \/ job'[m].pc \in {"none", "done"}
  BY <1>2, KeyFacts
<1>8. CallsSignalled => CallsSignalled'
  BY <1>3, <1>7 DEF CallsSignalled
<1>9. CancelFacts'
  BY <1>1, <1>2, <1>3, <1>8 DEF CancelFacts, PastQueue
<1> QED
  BY <1>3, <1>6, <1>7, <1>9, CancelJob DEF PastQueue

\* The job of the cancellation.
LEMMA CancelJobKeeps ==
    ASSUME CancelInv, Task!CallCancel \/ Task!CancelReturns \/ Task!CancelStopped
                      \/ Task!FailDispatches
    PROVE  CancelInv'
<1>1. /\ Task!TypeOK /\ OthersFit /\ CancelFacts /\ "cancel" \in Task!Key
      /\ "cancel" \notin Message /\ Message \subseteq Task!Key
  BY KeyFacts DEF CancelInv, OthersFit, Task!TypeOK
<1>2. PICK pc \in {"host", "stopped", "settling", "failing", "done"} :
          /\ Task!JobTo("cancel", pc)
          /\ pc = "settling" => \/ job["cancel"].fenced
                                \/ Task!Standing("cancel") = "over"
                                \/ task = "cancelled"
                                \/ Task!Acknowledges(job["cancel"].attempt)
  <2>1. CASE Task!CallCancel
    BY <2>1 DEF Task!CallCancel, Task!After
  <2>2. CASE Task!CancelReturns
    BY <2>2 DEF Task!CancelReturns
  <2>3. CASE Task!CancelStopped
    BY <2>3 DEF Task!CancelStopped
  <2>4. CASE Task!FailDispatches
    BY <2>4 DEF Task!FailDispatches
  <2> QED
    BY <2>1, <2>2, <2>3, <2>4
<1>3. /\ job' \in [Task!Key -> Task!JobState]
      /\ \A m \in Message : job'[m] = job[m]
      /\ job'["cancel"].pc = pc /\ job'["cancel"].fenced = job["cancel"].fenced
  BY <1>1, <1>2, JobMoves
<1>4. UNCHANGED <<ready, claims, token, recon, actor>> /\ alive' \subseteq alive
  BY DEF Task!CallCancel, Task!CancelReturns, Task!CancelStopped, Task!FailDispatches, Task!mapper
<1>5. faults' \in 0..MaxFaults
  BY <1>1, FaultMoves
     DEF Task!CallCancel, Task!CancelReturns, Task!CancelStopped, Task!FailDispatches
<1>6. CallsSignalled => CallsSignalled'
  BY <1>3, <1>4 DEF CallsSignalled
<1>7. PastQueue
  BY <1>1 DEF CancelFacts, Task!CallCancel, Task!CancelReturns, Task!CancelStopped,
              Task!FailDispatches
<1>8. CASE Task!Acknowledges(job["cancel"].attempt)
  <2>1. /\ outbox' \in [Task!Key -> Task!Record] /\ task' = "cancelled"
        /\ outbox'["cancel"].state \in {"settled", outbox["cancel"].state}
    BY <1>1, <1>8, EndMoves
  <2>2. OthersFit' /\ task' \in Task!Terminal
    BY <1>1, <1>3, <1>4, <1>5, <2>1 DEF OthersFit, Task!Terminal
  <2>3. PastQueue'
    BY <1>7, <2>1 DEF PastQueue
  <2>4. CancelFacts'
    BY <1>1, <1>6, <1>7, <2>2, <2>3 DEF CancelFacts
  <2> QED
    BY <1>3, <1>4, <1>7, <2>2, <2>3, <2>4, CancelJob DEF PastQueue
<1>9. CASE ~Task!Acknowledges(job["cancel"].attempt)
  <2>1. /\ task' = task /\ outbox'["cancel"] = outbox["cancel"]
        /\ outbox' \in [Task!Key -> Task!Record]
    <3>1. \A k \in Task!Key : [outbox[k] EXCEPT !.state = "pending"] \in Task!Record
      BY <1>1 DEF OthersFit, Task!Record, Task!OutboxState
    <3>2. CASE Task!FailDispatches
      BY <1>1, <3>1, <3>2 DEF Task!FailDispatches, OthersFit
    <3>3. CASE Task!CallCancel \/ Task!CancelReturns \/ Task!CancelStopped
      BY <1>1, <1>9, <3>3
         DEF Task!CallCancel, Task!CancelReturns, Task!CancelStopped, OthersFit, Task!mapper
    <3> QED
      BY <3>2, <3>3
  <2>2. pc = "settling" => task \in Task!Terminal
    BY <1>1, <1>2, <1>9 DEF CancelFacts, Task!Standing, Task!Terminal
  <2>3. OthersFit'
    BY <1>1, <1>3, <1>4, <1>5, <2>1 DEF OthersFit
  <2>4. PastQueue'
    BY <1>7, <2>1 DEF PastQueue
  <2>5. CancelFacts'
    BY <1>1, <1>3, <1>6, <1>7, <2>1, <2>2, <2>4 DEF CancelFacts
  <2> QED
    BY <1>3, <1>4, <1>7, <2>1, <2>3, <2>4, <2>5, CancelJob
<1> QED
  BY <1>8, <1>9

\* The work of an attempt ends, an event is delivered, the task is moved on.
LEMMA WorkKeeps ==
    ASSUME CancelInv, NEW m \in Message, NEW n \in 1..MaxAttempts,
           Task!WorkReports(m, n) \/ Task!WorkEnds(m, n)
    PROVE  CancelInv'
<1>1. /\ Task!TypeOK /\ OthersFit /\ PermitFacts /\ CancelFacts /\ RunsAttempt
      /\ m \in Task!Key \ {"cancel"} /\ "cancel" \in Task!Key
  BY KeyFacts DEF CancelInv, OthersFit, Task!TypeOK
<1>2. UNCHANGED <<ready, claims, job, token, recon, actor, faults>> /\ alive' \subseteq alive
  BY DEF Task!WorkReports, Task!WorkEnds, Task!mapper
<1>3. CASE \E next \in {"completed", "input", "failed"} : Task!Transitions(m, n, next)
  <2>1. PICK next \in {"completed", "input", "failed"} : Task!Transitions(m, n, next)
    BY <1>3
  <2>2. /\ outbox' \in [Task!Key -> Task!Record] /\ task' = next /\ task = "working"
        /\ outbox'["cancel"] = outbox["cancel"]
    <3>1. next \in {"cancelled", "completed", "input", "failed"} /\ Task!TypeOK
      BY <1>1
    <3>2. /\ outbox' \in [Task!Key -> Task!Record] /\ task' = next
          /\ Task!Transitionable(m, n) /\ \A k \in Task!Key \ {m} : outbox'[k] = outbox[k]
      BY <2>1, <3>1, EndMoves
    <3> QED
      BY <1>1, <3>2 DEF Task!Transitionable
  <2>3. OthersFit'
    BY <1>1, <1>2, <2>2 DEF OthersFit, Task!Terminal
  <2>4. PermitFacts' /\ RunsAttempt' /\ (CallsSignalled => CallsSignalled')
    BY <1>1, <1>2 DEF PermitFacts, RunsAttempt, CallsSignalled
  <2>5. CancelFacts' /\ Forward
    BY <1>1, <1>2, <2>2, <2>4 DEF CancelFacts, Forward, PastQueue, Task!Terminal
  <2> QED
    BY <1>2, <2>3, <2>4, <2>5, HostStepKeeps
<1>4. CASE UNCHANGED <<task, outbox>>
  <2>1. OthersFit'
    BY <1>1, <1>2, <1>4 DEF OthersFit
  <2>2. PermitFacts' /\ RunsAttempt' /\ (CallsSignalled => CallsSignalled')
    BY <1>1, <1>2 DEF PermitFacts, RunsAttempt, CallsSignalled
  <2>3. CancelFacts' /\ Forward
    BY <1>1, <1>2, <1>4, <2>2 DEF CancelFacts, Forward, PastQueue
  <2> QED
    BY <1>2, <2>1, <2>2, <2>3, HostStepKeeps
<1> QED
  BY <1>3, <1>4 DEF Task!WorkReports, Task!WorkEnds, Task!mapper

\* A task that moves on without a dispatch and a delivered event touch no job.
LEMMA RestKeeps ==
    ASSUME CancelInv, Task!TransitionTask \/ (\E m \in Message : Task!RecoverEvent(m))
                      \/ UNCHANGED Task!vars
    PROVE  CancelInv'
<1>1. /\ Task!TypeOK /\ OthersFit /\ PermitFacts /\ CancelFacts /\ RunsAttempt
  BY DEF CancelInv, OthersFit, Task!TypeOK
<1>2. /\ UNCHANGED <<outbox, claims, job, token, recon, actor, alive, faults>>
      /\ ready' \subseteq Message
      /\ task' = task \/ (task = "input" /\ task' = "failed")
  BY <1>1 DEF Task!TransitionTask, Task!RecoverEvent, Task!vars, OthersFit
<1>3. OthersFit'
  BY <1>1, <1>2 DEF OthersFit, Task!Terminal
<1>4. PermitFacts' /\ RunsAttempt' /\ (CallsSignalled => CallsSignalled')
  BY <1>1, <1>2 DEF PermitFacts, RunsAttempt, CallsSignalled
<1>5. CancelFacts' /\ Forward
  BY <1>1, <1>2, <1>4 DEF CancelFacts, Forward, PastQueue, Task!Terminal
<1> QED
  BY <1>2, <1>3, <1>4, <1>5, HostStepKeeps

\* What a crash leaves is the mapper, and nobody who works on it.
LEMMA CrashKeeps == ASSUME CancelInv, Task!Crash PROVE CancelInv'
<1>1. /\ Task!TypeOK /\ CancelFacts
  BY DEF CancelInv
<1>2. /\ actor' \in [Task!Actor -> Task!ActorState]
      /\ \A x \in Task!Actor : actor'[x] \in {Task!AtRest, [Task!AtRest EXCEPT !.pc = "gone"]}
  <2>1. \A x \in Task!Actor :
           actor'[x] = (IF x # Driver /\ actor[x].pc # "idle"
                        THEN [Task!AtRest EXCEPT !.pc = "gone"] ELSE Task!AtRest)
    BY DEF Task!Crash
  <2>2. actor' \in [Task!Actor -> Task!ActorState]
    BY Blank DEF Task!Crash
  <2> QED
    BY <2>1, <2>2
<1>3. job' = [k \in Task!Key |-> Task!NoJob] /\ token' = "none" /\ recon' = Task!NoAnswer
      /\ claims' = {} /\ UNCHANGED <<task, outbox, ready, alive>>
  BY DEF Task!Crash, Task!mapper
<1>4. Task!TypeOK'
  <2>1. recon' \in [attempts: 0..MaxAttempts,
                    answer: {"none", "asked", "stopped", "retry", "required"}]
    BY <1>3, KeyFacts DEF Task!NoAnswer
  <2>2. job' \in [Task!Key -> Task!JobState]
    BY <1>3, Blank
  <2>3. faults' \in 0..MaxFaults
    BY <1>1, FaultMoves DEF Task!Crash
  <2> QED
    BY <1>1, <1>2, <1>3, <2>1, <2>2, <2>3 DEF Task!TypeOK
<1>5. \A k \in Task!Key : job'[k].pc = "none" /\ job'[k].fenced = FALSE
  BY <1>3 DEF Task!NoJob
<1>6. PermitFacts' /\ RunsAttempt' /\ CallsSignalled'
  BY <1>5, KeyFacts DEF PermitFacts, RunsAttempt, Permitted, CallsSignalled
<1>7. CancelFacts'
  BY <1>1, <1>3, <1>5, <1>6, KeyFacts DEF CancelFacts, PastQueue
<1>8. ASSUME NEW x \in Task!Actor PROVE CancelActor(x)'
  <2>1. CASE actor'[x] = Task!AtRest
    BY <2>1 DEF CancelActor, Task!AtRest, Task!NoRecord, Task!Unknown, PostSignal
  <2>2. CASE actor'[x] = [Task!AtRest EXCEPT !.pc = "gone"]
    BY <2>2, RestingKnows
  <2> QED
    BY <1>2, <2>1, <2>2
<1> QED
  BY <1>4, <1>6, <1>7, <1>8 DEF CancelInv

\* The mapper starts empty, and nobody works on it.
LEMMA CancelInvStarts == Task!Init => CancelInv
<1> SUFFICES ASSUME Task!Init PROVE CancelInv
  OBVIOUS
<1>1. /\ outbox["cancel"] = Task!NoRecord /\ task = "none"
      /\ \A k \in Task!Key : job[k] = Task!NoJob
      /\ \A x \in Task!Actor : actor[x] = Task!AtRest
  BY KeyFacts DEF Task!Init
<1>2. Task!TypeOK
  BY Blank, KeyFacts DEF Task!Init, Task!TypeOK, Task!NoAnswer
<1>3. PermitFacts /\ RunsAttempt /\ CancelFacts
  BY <1>1, KeyFacts DEF PermitFacts, RunsAttempt, CancelFacts, Permitted, Task!NoJob,
                        Task!NoRecord, PastQueue, CallsSignalled
<1>4. ASSUME NEW x \in Task!Actor PROVE CancelActor(x)
  BY <1>1 DEF CancelActor, Task!AtRest, Task!NoRecord, Task!Unknown, PostSignal
<1> QED
  BY <1>2, <1>3, <1>4 DEF CancelInv

\* Every step keeps the invariant: one lemma above for each action.
LEMMA CancelInvHolds == CancelInv /\ [Task!Next]_(Task!vars) => CancelInv'
<1> SUFFICES ASSUME CancelInv, [Task!Next]_(Task!vars) PROVE CancelInv'
  OBVIOUS
<1>1. ASSUME NEW x \in Task!Actor, Task!ActorStep(x) PROVE CancelInv'
  BY <1>1, FlushKeeps, ReadKeeps, ReserveKeeps, ReconcileKeeps, DemoteKeeps, RunKeeps,
     SignalKeeps, ReserveCancelKeeps, AskKeeps, AnswerKeeps, AcknowledgeKeeps,
     DemoteCancelKeeps, RunCancelKeeps, SendCancelKeeps DEF Task!ActorStep
<1>2. ASSUME NEW x \in Task!Actor,
             Task!Send(x) \/ Task!RequestCancel(x) \/ Task!Abort(x) PROVE CancelInv'
  BY <1>2, SendKeeps, RequestCancelKeeps, AbortKeeps
<1>3. ASSUME Task!DriverStep PROVE CancelInv'
  BY <1>3, ScansKeep, RecoverCancellationKeeps, RecoverDispatchKeeps DEF Task!DriverStep
<1>4. ASSUME NEW k \in Task!Key, Task!JobStep(k) PROVE CancelInv'
  <2>1. CASE k = "cancel" /\ (Task!CallCancel \/ Task!CancelReturns \/ Task!CancelStopped
                              \/ Task!FailDispatches)
    BY <2>1, CancelJobKeeps
  <2>2. CASE /\ k # "cancel"
             /\ \/ Task!Admit(k) \/ Task!Register(k) \/ Task!Recheck(k)
                \/ Task!CallHost(k) \/ Task!HostReturns(k) \/ Task!Stopped(k)
    BY <2>2, KeyFacts, AdmitKeeps, RegisterKeeps, RecheckKeeps, CallHostKeeps,
       HostReturnsKeeps, StoppedKeeps
  <2>3. CASE Task!Settle(k) \/ Task!Fail(k) \/ Task!FinishJob(k)
    BY <2>3, SettleKeeps, FailKeeps, FinishKeeps
  <2> QED
    BY <1>4, <2>1, <2>2, <2>3 DEF Task!JobStep
<1>5. ASSUME Task!TransitionTask \/ (\E m \in Message : Task!RecoverEvent(m))
             \/ UNCHANGED Task!vars PROVE CancelInv'
  BY <1>5, RestKeeps
<1>6. ASSUME NEW m \in Message, NEW n \in 1..MaxAttempts,
             Task!WorkReports(m, n) \/ Task!WorkEnds(m, n) PROVE CancelInv'
  BY <1>6, WorkKeeps
<1>7. ASSUME Task!Crash PROVE CancelInv'
  BY <1>7, CrashKeeps
<1> QED
  BY <1>1, <1>2, <1>3, <1>4, <1>5, <1>6, <1>7, KeyFacts DEF Task!Next

\* Every behaviour of the parts shows the task one of its own.
LEMMA TaskIsPart == A2aSpec => Task!Spec
<1>1. A2aInit => Task!Init
  BY DEF A2aInit
<1>2. [A2aNext]_allVars => [Task!Next]_(Task!vars)
  BY DEF A2aNext, allVars, taskVars, Task!vars, InSnapshot, InTask, InEvents, InJournal
<1> QED
  BY <1>1, <1>2, PTL DEF A2aSpec, Task!Spec

\* The task keeps it in everything that the parts do side by side.
LEMMA TaskInvariant == A2aSpec => []CancelInv
<1>1. Task!Init => CancelInv
  BY CancelInvStarts
<1>2. CancelInv /\ [Task!Next]_(Task!vars) => CancelInv'
  BY CancelInvHolds
<1> QED
  BY <1>1, <1>2, TaskIsPart, PTL DEF Task!Spec

\* The types of the task's mapper, jobs, requests and driver.
THEOREM TaskTypes == A2aSpec => []Task!TypeOK
<1>1. CancelInv => Task!TypeOK
  BY DEF CancelInv
<1> QED
  BY <1>1, TaskInvariant, PTL

\* Once a cancellation is past its queue no call of the host is about to begin,
\* or is awaited, that has not been signalled (signal_running_dispatch_
\* cancellation before the control job, the second execution check of
\* run_scheduled_dispatch after the registration of its token).
THEOREM CancellationReachesCall == A2aSpec => []CancelReachesCall
<1>1. CancelInv => CancelReachesCall
  BY DEF CancelInv, CancelFacts, PastQueue, CallsSignalled, CancelReachesCall,
         Task!CancelReachesCall
<1> QED
  BY <1>1, TaskInvariant, PTL

-----------------------------------------------------------------------------
(* One attempt at a time.  Whoever holds a message, its sender first and the *)
(* recovery driver later, holds its claim and no job does, so that a record  *)
(* is run again only after the host attested that this is safe; and the task *)
(* leaves "working" only when no work of it is left.                         *)

\* Each message is sent by one request.
OneSenderEach == \A x, y \in Sender : Sends[x] = Sends[y] => x = y

\* Where a job is between the attempt it was given and the end of its work.
Live == {"queued", "admitted", "registered", "call", "host", "stopped", "settling", "failing"}

\* What the host works on is the attempt that the mapper knows of.
AliveFacts ==
    /\ alive # {} => task = "working"
    /\ \A m \in Message, n \in 1..MaxAttempts :
          <<m, n>> \in alive => Task!Unknown(outbox[m]) /\ n = outbox[m].attempts

\* When the host has attested a stop no work of the task is left.
StopFacts ==
    /\ recon.answer = "stopped" => PastQueue /\ alive = {}
    /\ job["cancel"].pc = "stopped" => alive = {}
    /\ \A x \in Task!Actor : actor[x].pc = "acknowledge" => alive = {}

\* A task has one open dispatch.
OneOpen == \A m, o \in Message : Task!Unsettled(m) /\ Task!Unsettled(o) => m = o

\* A message, its record and its job.
MessageFacts(m) ==
    /\ task = "none" => outbox[m].state = "none"
    /\ outbox[m].state \in {"none", "queued"} => outbox[m].attempts = 0
    /\ outbox[m].state = "none" => job[m].pc = "none"
    /\ job[m].pc \in {"none", "gate"} => ~job[m].claim
    /\ job[m].claim => m \in claims
    /\ job[m].pc \in Live => job[m].claim /\ job[m].attempt = outbox[m].attempts
    /\ job[m].pc \in {"queued", "admitted", "registered", "call", "stopped"} => ~Task!Working(m)
    /\ job[m].pc = "settling" => outbox[m].state = "settled" \/ task # "working"
    /\ job[m].pc = "call" /\ token # "signalled" => outbox[m].state = "running" /\ task = "working"

\* The request that sends a message holds its claim until it hands it over.
SenderFacts(x) ==
    /\ actor[x].pc \in {"idle", "gone", "flush", "read", "run"}
    /\ actor[x].pc = "idle" <=> outbox[Sends[x]].state = "none"
    /\ actor[x].pc \in {"flush", "read", "run"} =>
          /\ actor[x].key = Sends[x] /\ actor[x].claim
          /\ Sends[x] \in claims /\ ~job[Sends[x]].claim
          /\ outbox[Sends[x]].attempts = 0
          /\ actor[x].sender => job[Sends[x]].pc = "gate"
          /\ actor[x].pc = "run" => actor[x].sender

\* The driver works on a message that its request has left.
DriverOn(m) ==
    /\ actor[Driver].pc \in {"claim", "reserve", "reconcile", "demote", "run"}
    /\ \A x \in Sender : Sends[x] = m => actor[x].pc = "gone"
    /\ outbox[m].state # "none" /\ ~job[m].claim
    /\ actor[Driver].rec.state \in {"queued", "running", "pending"}
    /\ actor[Driver].rec.state = "queued" => outbox[m].attempts = 0
    /\ actor[Driver].pc # "claim" => actor[Driver].claim /\ m \in claims
    /\ actor[Driver].sender => job[m].pc = "gate"
    /\ actor[Driver].pc \in {"demote", "run"} => actor[Driver].sender
    /\ actor[Driver].pc \in {"reserve", "demote", "run"} => ~Task!Working(m)

DriverFacts == actor[Driver].key # "cancel" => DriverOn(actor[Driver].key)

TaskInv ==
    /\ CancelInv
    /\ AliveFacts
    /\ StopFacts
    /\ OneOpen
    /\ \A m \in Message : MessageFacts(m)
    /\ \A x \in Sender : SenderFacts(x)
    /\ \A x \in Canceller : actor[x].key = "cancel"
    /\ DriverFacts

\* What a message is known by stays when a step passes it by.
LEMMA MessageStays ==
    ASSUME NEW m \in Message, MessageFacts(m), outbox'[m] = outbox[m], job'[m] = job[m],
           m \in claims => m \in claims', alive' \subseteq alive,
           task' = task \/ (task = "working" /\ task' # "none"),
           job[m].pc = "call" /\ token' # "signalled" => token # "signalled" /\ task' = task
    PROVE  MessageFacts(m)'
BY DEF MessageFacts, Task!Working

\* A request stays on record when a step passes its message by.
LEMMA SenderStays ==
    ASSUME NEW x \in Sender, SenderFacts(x), actor'[x] = actor[x],
           outbox'[Sends[x]].state = "none" <=> outbox[Sends[x]].state = "none",
           \/ actor[x].pc \in {"idle", "gone"}
           \/ /\ outbox'[Sends[x]].attempts = outbox[Sends[x]].attempts
              /\ job'[Sends[x]] = job[Sends[x]]
              /\ Sends[x] \in claims => Sends[x] \in claims'
    PROVE  SenderFacts(x)'
BY KeyFacts DEF SenderFacts

\* The driver stays on its message when a step passes that by.
LEMMA DriverStays ==
    ASSUME DriverFacts, actor'[Driver] = actor[Driver], alive' \subseteq alive,
           actor[Driver].key # "cancel" =>
              /\ \A x \in Sender : actor[x].pc = "gone" => actor'[x].pc = "gone"
              /\ outbox'[actor[Driver].key].state = "none" =>
                    outbox[actor[Driver].key].state = "none"
              /\ outbox'[actor[Driver].key].attempts = outbox[actor[Driver].key].attempts
              /\ job'[actor[Driver].key] = job[actor[Driver].key]
              /\ actor[Driver].key \in claims => actor[Driver].key \in claims'
    PROVE  DriverFacts'
BY DEF DriverFacts, DriverOn, Task!Working

\* x works on m: its request, or the driver.
Holds(x, m) ==
    /\ m \in Message /\ actor[x].key = m
    /\ \/ x \in Sender /\ actor[x].pc \in {"flush", "read", "run"}
       \/ x = Driver

\* Who holds a message holds it alone.
LEMMA HoldsAlone ==
    ASSUME OneSenderEach, TaskInv, NEW x \in Task!Actor, NEW m, Holds(x, m)
    PROVE  /\ m \in Message /\ m \in Task!Key /\ m # "cancel" /\ Task!TypeOK
           /\ outbox[m].state # "none" /\ ~job[m].claim /\ job[m].pc \notin Live
           /\ \A y \in Sender \ {x} : Sends[y] = m => actor[y].pc = "gone"
           /\ x # Driver => actor[Driver].key # m /\ x \in Sender /\ Sends[x] = m
           /\ MessageFacts(m) /\ (x # Driver => SenderFacts(x)) /\ (x = Driver => DriverOn(m))
<1>1. m \in Message /\ m \in Task!Key /\ m # "cancel" /\ Task!TypeOK /\ MessageFacts(m)
  BY KeyFacts DEF Holds, TaskInv, CancelInv
<1>2. CASE x = Driver
  <2>1. DriverOn(m)
    BY <1>1, <1>2 DEF TaskInv, DriverFacts, Holds
  <2>2. \A y \in Sender \ {x} : Sends[y] = m => actor[y].pc = "gone"
    BY <2>1 DEF DriverOn
  <2> QED
    BY <1>1, <1>2, <2>1, <2>2 DEF DriverOn, MessageFacts
<1>3. CASE x # Driver
  <2>1. x \in Sender /\ actor[x].pc \in {"flush", "read", "run"} /\ SenderFacts(x) /\ Sends[x] = m
    BY <1>3 DEF Holds, TaskInv, SenderFacts
  <2>2. \A y \in Sender \ {x} : Sends[y] = m => actor[y].pc = "gone"
    BY <2>1 DEF OneSenderEach
  <2>3. actor[Driver].key # m
    BY <1>1, <2>1 DEF TaskInv, DriverFacts, DriverOn
  <2> QED
    BY <1>1, <1>3, <2>1, <2>2, <2>3 DEF SenderFacts, MessageFacts
<1> QED
  BY <1>2, <1>3

\* A step of the holder of m that changes nothing of the other messages.
LEMMA HolderKeeps ==
    ASSUME OneSenderEach, TaskInv, CancelInv', NEW x \in Task!Actor, NEW m, Holds(x, m),
           \A y \in Task!Actor \ {x} : actor'[y] = actor[y],
           \A o \in Task!Key \ {m} : /\ outbox'[o] = outbox[o] /\ job'[o] = job[o]
                                     /\ o \in claims => o \in claims',
           UNCHANGED <<task, token, alive>>, recon' \in {recon, Task!NoAnswer},
           Task!Unsettled(m)' => Task!Unsettled(m), outbox'[m].state # "none",
           Task!Unknown(outbox[m]) /\ Task!Working(m) =>
              Task!Unknown(outbox'[m]) /\ outbox'[m].attempts = outbox[m].attempts,
           actor'[x].pc # "acknowledge", MessageFacts(m)',
           x \in Sender => SenderFacts(x)', x = Driver => DriverFacts'
    PROVE  TaskInv'
<1>1. /\ m \in Message /\ m \in Task!Key /\ m # "cancel" /\ outbox[m].state # "none"
      /\ \A y \in Sender \ {x} : Sends[y] = m => actor[y].pc = "gone"
      /\ x # Driver => actor[Driver].key # m /\ x \in Sender /\ Sends[x] = m
  BY HoldsAlone
<1>2. AliveFacts'
  <2>1. ASSUME NEW o \in Message, NEW n \in 1..MaxAttempts, <<o, n>> \in alive'
        PROVE  Task!Unknown(outbox'[o]) /\ n = outbox'[o].attempts
    <3>1. Task!Unknown(outbox[o]) /\ n = outbox[o].attempts
      BY <2>1 DEF TaskInv, AliveFacts
    <3>2. CASE o = m
      BY <2>1, <3>1, <3>2 DEF Task!Working
    <3>3. CASE o # m
      BY <3>1, <3>3, KeyFacts
    <3> QED
      BY <3>2, <3>3
  <2> QED
    BY <2>1 DEF TaskInv, AliveFacts, Task!Unknown
<1>3. StopFacts'
  <2>1. outbox'["cancel"] = outbox["cancel"] /\ job'["cancel"] = job["cancel"]
    BY <1>1, KeyFacts
  <2> QED
    BY <2>1 DEF TaskInv, StopFacts, PastQueue, Task!NoAnswer
<1>4. OneOpen'
  <2>1. \A o \in Message : Task!Unsettled(o)' => Task!Unsettled(o)
    BY <1>1, KeyFacts DEF Task!Unsettled
  <2> QED
    BY <2>1 DEF TaskInv, OneOpen
<1>5. ASSUME NEW o \in Message PROVE MessageFacts(o)'
  <2>1. CASE o = m
    BY <2>1
  <2>2. CASE o # m
    BY <2>2, MessageStays, KeyFacts DEF TaskInv
  <2> QED
    BY <2>1, <2>2
<1>6. ASSUME NEW y \in Sender PROVE SenderFacts(y)'
  <2>1. CASE y = x
    BY <2>1
  <2>2. CASE y # x /\ Sends[y] = m
    BY <1>1, <2>2, SenderStays, KeyFacts DEF TaskInv
  <2>3. CASE y # x /\ Sends[y] # m
    <3>1. Sends[y] \in Task!Key \ {m} /\ actor'[y] = actor[y]
      BY <2>3, KeyFacts
    <3> QED
      BY <3>1, SenderStays DEF TaskInv
  <2> QED
    BY <2>1, <2>2, <2>3
<1>7. \A c \in Canceller : actor'[c].key = "cancel"
  BY <1>1, KeyFacts DEF TaskInv
<1>8. DriverFacts'
  <2>1. CASE x = Driver
    BY <2>1
  <2>2. CASE x # Driver
    <3> DEFINE k == actor[Driver].key
    <3>1. actor'[Driver] = actor[Driver] /\ k # m /\ x \in Sender /\ Sends[x] = m
      BY <1>1, <2>2, KeyFacts
    <3>2. k \in Task!Key
      BY KeyFacts DEF TaskInv, CancelInv, Task!TypeOK, Task!ActorState
    <3>3. \A y \in Sender : actor[y].pc = "gone" => actor'[y].pc = "gone"
      BY <3>1, KeyFacts DEF Holds
    <3> QED
      BY <3>1, <3>2, <3>3, DriverStays DEF TaskInv
  <2> QED
    BY <2>1, <2>2
<1> QED
  BY <1>2, <1>3, <1>4, <1>5, <1>6, <1>7, <1>8 DEF TaskInv

\* Whoever gives up a message leaves no job that could run it.
LEMMA HolderLeaves ==
    ASSUME OneSenderEach, TaskInv, CancelInv', NEW x \in Task!Actor, NEW m, Holds(x, m),
           Task!Leave(x) \/ Task!LeaveQuarantined(x),
           outbox' = outbox \/ Task!MarkPending(m),
           UNCHANGED <<task, ready, token, alive>>
    PROVE  TaskInv'
<1>1. /\ m \in Message /\ m \in Task!Key /\ m # "cancel" /\ Task!TypeOK /\ actor[x].key = m
      /\ outbox[m].state # "none" /\ ~job[m].claim /\ job[m].pc \notin Live /\ MessageFacts(m)
      /\ x # Driver => x \in Sender /\ Sends[x] = m
  BY HoldsAlone DEF Holds
<1>2. \E pc \in {"idle", "gone", "dispatches"} :
          /\ actor'[x] = [Task!AtRest EXCEPT !.pc = pc]
          /\ x # Driver => pc = "gone"
  BY <1>1, LeavingMoves
<1>3. /\ \A y \in Task!Actor \ {x} : actor'[y] = actor[y]
      /\ recon' \in {recon, Task!NoAnswer}
      /\ claims' \in {claims, claims \ {m}, claims \cup {m}}
  BY <1>1, LeavingMoves
<1>4. /\ \A k \in Task!Key \ {m} : job'[k] = job[k]
      /\ job'[m] = job[m] \/ job'[m] = [Task!NoJob EXCEPT !.pc = "done"]
  BY <1>1, LeavingMoves
<1>5. /\ \A k \in Task!Key \ {m} : outbox'[k] = outbox[k]
      /\ outbox'[m].attempts = outbox[m].attempts
      /\ outbox' = outbox \/ (outbox'[m].state = "pending" /\ Task!CanDemote(m))
  BY <1>1, MarkMoves
<1>6. /\ outbox'[m].state # "none" /\ (Task!Unsettled(m)' => Task!Unsettled(m))
      /\ Task!Unknown(outbox[m]) => Task!Unknown(outbox'[m])
  BY <1>1, <1>5 DEF Task!Unsettled, Task!CanDemote, Task!Unknown
<1>7. MessageFacts(m)'
  BY <1>1, <1>4, <1>5 DEF MessageFacts, Live, Task!NoJob, Task!CanDemote
<1>8. actor'[x].pc \in {"idle", "gone", "dispatches"} /\ actor'[x].key = "cancel"
      /\ (x # Driver => actor'[x].pc = "gone")
  BY <1>2 DEF Task!AtRest
<1>9. x = Driver => DriverFacts'
  BY <1>8 DEF DriverFacts
<1>10. x \in Sender => SenderFacts(x)'
  BY <1>1, <1>6, <1>8, KeyFacts DEF SenderFacts
<1>11. \A k \in Task!Key \ {m} : k \in claims => k \in claims'
  BY <1>3
<1> QED
  BY <1>3, <1>4, <1>5, <1>6, <1>7, <1>8, <1>9, <1>10, <1>11, HolderKeeps

\* The request of a message holds it from its acceptance to the commit.
LEMMA SenderHolds ==
    ASSUME TaskInv, NEW x \in Sender, actor[x].pc \notin {"idle", "gone"}
    PROVE  /\ Holds(x, Sends[x]) /\ actor[x].key = Sends[x] /\ SenderFacts(x) /\ x # Driver
           /\ actor[x].pc \in {"flush", "read", "run"} /\ x \in Task!Actor
BY KeyFacts DEF TaskInv, SenderFacts, Holds

\* Who moves without touching its message.
LEMMA HolderMoves ==
    ASSUME OneSenderEach, TaskInv, CancelInv', NEW x \in Task!Actor, NEW m, Holds(x, m),
           NEW new, Moves(x, new),
           UNCHANGED <<task, outbox, claims, job, token, recon, alive>>,
           new.pc # "acknowledge",
           actor'[x] = new /\ x \in Sender => SenderFacts(x)',
           actor'[x] = new /\ x = Driver => DriverFacts'
    PROVE  TaskInv'
<1>1. /\ m \in Message /\ m \in Task!Key /\ Task!TypeOK /\ MessageFacts(m)
      /\ outbox[m].state # "none"
  BY HoldsAlone
<1>2. actor'[x] = new /\ \A y \in Task!Actor \ {x} : actor'[y] = actor[y]
  BY <1>1 DEF Moves, Task!TypeOK
<1>3. MessageFacts(m)'
  BY <1>1, MessageStays
<1>4. Task!Unsettled(m)' => Task!Unsettled(m)
  BY DEF Task!Unsettled
<1>5. /\ \A o \in Task!Key \ {m} : outbox'[o] = outbox[o] /\ job'[o] = job[o]
                                   /\ (o \in claims => o \in claims')
      /\ Task!Unknown(outbox[m]) /\ Task!Working(m) =>
              Task!Unknown(outbox'[m]) /\ outbox'[m].attempts = outbox[m].attempts
      /\ recon' \in {recon, Task!NoAnswer} /\ outbox'[m].state # "none"
      /\ actor'[x].pc # "acknowledge"
  BY <1>1, <1>2
<1> QED
  BY <1>2, <1>3, <1>4, <1>5, HolderKeeps

\* The request goes on with the message it holds once its event is out.
LEMMA FlushStays ==
    ASSUME OneSenderEach, TaskInv, NEW x \in Task!Actor, Task!Flush(x) PROVE TaskInv'
<1>1. x \in Sender /\ actor[x].pc = "flush" /\ CancelInv
  BY DEF Task!Flush, TaskInv
<1>2. Holds(x, Sends[x]) /\ actor[x].key = Sends[x] /\ SenderFacts(x) /\ x # Driver
  BY <1>1, SenderHolds
<1>3. CancelInv'
  BY <1>1, FlushKeeps
<1>4. CASE ready' = ready \cup {actor[x].key} /\ Task!Goto(x, "read")
           /\ UNCHANGED <<claims, job, recon, faults>>
  <2> DEFINE new == [actor[x] EXCEPT !.pc = "read"]
  <2>1. Moves(x, new)
    BY <1>1, <1>4, GotoMoves DEF CancelInv
  <2>2. /\ new.pc = "read" /\ new.key = actor[x].key /\ new.claim = actor[x].claim
        /\ new.sender = actor[x].sender
    BY <1>1, CancelTypes DEF Task!ActorState
  <2>3. UNCHANGED <<task, outbox, claims, job, token, recon, alive>>
    BY <1>4 DEF Task!Flush
  <2>4. actor'[x] = new => SenderFacts(x)'
    BY <1>1, <1>2, <2>2, <2>3 DEF SenderFacts
  <2> QED
    BY <1>2, <1>3, <2>1, <2>2, <2>3, <2>4, HolderMoves
<1>5. CASE Task!Leave(x) /\ UNCHANGED ready
  BY <1>2, <1>3, <1>5, HolderLeaves DEF Task!Flush
<1> QED
  BY <1>4, <1>5 DEF Task!Flush

\* Who holds a message reads its record and goes on holding it.
LEMMA ReadStays ==
    ASSUME OneSenderEach, TaskInv, NEW x \in Task!Actor, Task!Read(x) PROVE TaskInv'
<1> DEFINE new == [actor[x] EXCEPT !.rec = outbox[actor[x].key],
                                   !.pc = IF actor[x].claim THEN "run" ELSE "reserve"]
<1>1. x \in Sender /\ actor[x].pc = "read" /\ CancelInv
  BY DEF Task!Read, TaskInv
<1>2. Holds(x, Sends[x]) /\ actor[x].key = Sends[x] /\ SenderFacts(x) /\ x # Driver
  BY <1>1, SenderHolds
<1>3. CancelInv'
  BY <1>1, ReadKeeps
<1>4. CASE Moves(x, new) /\ UNCHANGED <<claims, job, recon>> /\ (actor[x].claim => actor[x].sender)
  <2>1. actor[x].claim /\ actor[x].sender
    BY <1>1, <1>2, <1>4 DEF SenderFacts
  <2>2. /\ new.pc = "run" /\ new.key = actor[x].key /\ new.claim = actor[x].claim
        /\ new.sender = actor[x].sender
    BY <1>1, <2>1, CancelTypes DEF Task!ActorState
  <2>3. UNCHANGED <<task, outbox, claims, job, token, recon, alive>>
    BY <1>4 DEF Task!Read, Task!mapper
  <2>4. actor'[x] = new => SenderFacts(x)'
    BY <1>1, <1>2, <2>1, <2>2, <2>3 DEF SenderFacts
  <2> QED
    BY <1>2, <1>3, <1>4, <2>2, <2>3, <2>4, HolderMoves
<1>5. CASE Task!Leave(x)
  BY <1>2, <1>3, <1>5, HolderLeaves DEF Task!Read, Task!mapper
<1>6. \/ Task!Leave(x)
      \/ Moves(x, new) /\ UNCHANGED <<claims, job, recon>> /\ (actor[x].claim => actor[x].sender)
  BY Zenon DEF Task!Read, Moves
<1> QED
  BY <1>4, <1>5, <1>6

\* A request that holds its message does not come here; the driver does.
LEMMA DispatchIsDriven ==
    ASSUME OneSenderEach, TaskInv, NEW x \in Task!Actor, actor[x].key # "cancel",
           actor[x].pc \in {"reserve", "reconcile", "demote", "claim"}
    PROVE  /\ x = Driver /\ Holds(x, actor[x].key) /\ DriverOn(actor[x].key)
           /\ actor[x].key \in Message
<1>1. x \in Sender \cup Canceller \cup {Driver} /\ CancelInv
  BY DEF Task!Actor, TaskInv
<1>2. x \notin Sender /\ x \notin Canceller
  BY DEF TaskInv, SenderFacts
<1> QED
  BY <1>1, <1>2, CancelTypes DEF Holds, TaskInv, DriverFacts

\* The job and the claim go to one actor, which nobody else precedes.
LEMMA ReserveStays ==
    ASSUME OneSenderEach, TaskInv, NEW x \in Task!Actor, Task!Reserve(x) PROVE TaskInv'
<1> DEFINE next == IF x \in Sender /\ Task!Unknown(actor[x].rec) THEN "reconcile"
                   ELSE IF actor[x].rec.state = "running" THEN "demote" ELSE "run"
           new == [actor[x] EXCEPT !.claim = TRUE, !.sender = TRUE, !.pc = next]
<1>0. PICK m : m = actor[x].key
  OBVIOUS
<1>1. x = Driver /\ Holds(x, m) /\ DriverOn(m) /\ m \in Message /\ x \notin Sender
  BY <1>0, DispatchIsDriven, KeyFacts DEF Task!Reserve
<1>2. CancelInv' /\ Task!TypeOK /\ actor[x] \in Task!ActorState
  BY ReserveKeeps, CancelTypes DEF TaskInv
<1>3. CASE job' = Task!Reserved(m) /\ claims' = claims \cup {m} /\ Moves(x, new)
           /\ UNCHANGED <<recon, faults>>
  <2>1. /\ m \in Task!Key /\ MessageFacts(m) /\ outbox[m].state # "none" /\ job[m].pc \notin Live
    BY <1>1, HoldsAlone
  <2>2. /\ actor'[x] = new /\ \A y \in Task!Actor \ {x} : actor'[y] = actor[y]
    BY <1>2, <1>3 DEF Moves, Task!TypeOK
  <2>3. /\ new.pc = next /\ next \in {"demote", "run"} /\ new.key = m
        /\ new.claim = TRUE /\ new.sender = TRUE /\ new.rec = actor[x].rec
    BY <1>0, <1>1, <1>2 DEF Task!ActorState
  <2>4. /\ \A k \in Task!Key \ {m} : job'[k] = job[k]
        /\ job'[m] = [Task!NoJob EXCEPT !.pc = "gate"]
    BY <1>2, <1>3, <2>1, ReservedMoves
  <2>5. UNCHANGED <<task, outbox, ready, token, alive>>
    BY DEF Task!Reserve, Task!mapper
  <2>6. MessageFacts(m)'
    BY <2>1, <2>4, <2>5 DEF MessageFacts, Live, Task!NoJob
  <2>7. DriverFacts'
    <3>1. \A y \in Sender : Sends[y] = m => actor'[y].pc = "gone"
      BY <1>1, <2>2, KeyFacts DEF DriverOn
    <3>2. DriverOn(m)'
      BY <1>1, <1>3, <2>1, <2>2, <2>3, <2>4, <2>5, <3>1
         DEF DriverOn, Task!Reserve, Task!Working, Task!NoJob
    <3> QED
      BY <1>1, <2>2, <2>3, <3>2 DEF DriverFacts
  <2>8. /\ \A o \in Task!Key \ {m} : outbox'[o] = outbox[o] /\ job'[o] = job[o]
                                     /\ (o \in claims => o \in claims')
        /\ (Task!Unsettled(m)' => Task!Unsettled(m)) /\ outbox'[m].state # "none"
        /\ Task!Unknown(outbox[m]) /\ Task!Working(m) =>
              Task!Unknown(outbox'[m]) /\ outbox'[m].attempts = outbox[m].attempts
        /\ actor'[x].pc # "acknowledge"
    BY <1>3, <2>1, <2>2, <2>3, <2>4, <2>5 DEF Task!Unsettled
  <2> QED
    BY <1>1, <1>2, <1>3, <2>2, <2>5, <2>6, <2>7, <2>8, HolderKeeps
<1>4. CASE Task!Leave(x)
  BY <1>1, <1>2, <1>4, HolderLeaves DEF Task!Reserve, Task!mapper
<1>5. \/ Task!Leave(x)
      \/ job' = Task!Reserved(m) /\ claims' = claims \cup {m} /\ Moves(x, new)
         /\ UNCHANGED <<recon, faults>>
  BY <1>0, Zenon DEF Task!Reserve, Moves
<1> QED
  BY <1>3, <1>4, <1>5

\* A retry is safe for the host only when the attempt has no work left.
LEMMA ReconcileStays ==
    ASSUME OneSenderEach, TaskInv, NEW x \in Task!Actor, Task!Reconcile(x) PROVE TaskInv'
<1>0. PICK m : m = actor[x].key
  OBVIOUS
<1>1. CancelInv /\ CancelInv' /\ Task!TypeOK /\ actor[x] \in Task!ActorState /\ CancelActor(x)
  BY ReconcileKeeps, CancelTypes DEF TaskInv
<1>2. x = Driver /\ Holds(x, m) /\ DriverOn(m) /\ m \in Message /\ x \notin Sender
  BY <1>0, <1>1, DispatchIsDriven, KeyFacts DEF Task!Reconcile, CancelActor
<1>3. CASE ~Task!Working(m) /\ Task!Goto(x, "reserve")
           /\ UNCHANGED <<outbox, claims, job, recon, faults>>
  <2> DEFINE new == [actor[x] EXCEPT !.pc = "reserve"]
  <2>1. Moves(x, new)
    BY <1>3 DEF Task!Goto, Moves
  <2>2. /\ new.pc = "reserve" /\ new.key = m /\ new.claim = actor[x].claim
        /\ new.sender = actor[x].sender /\ new.rec = actor[x].rec
    BY <1>0, <1>1 DEF Task!ActorState
  <2>3. UNCHANGED <<task, outbox, claims, job, token, recon, alive>>
    BY <1>3 DEF Task!Reconcile
  <2>4. actor'[x] = new => DriverFacts'
    <3>1. /\ actor[x].claim /\ m \in claims
      BY <1>2 DEF DriverOn, Task!Reconcile
    <3>2. \A y \in Sender : Sends[y] = m => actor'[y].pc = "gone"
      BY <1>1, <1>2, <2>1, KeyFacts DEF DriverOn, Moves, Task!TypeOK
    <3>3. actor'[x] = new => DriverOn(m)'
      BY <1>2, <1>3, <2>2, <2>3, <3>1, <3>2 DEF DriverOn, Task!Working
    <3> QED
      BY <1>2, <2>2, <3>3 DEF DriverFacts
  <2> QED
    BY <1>1, <1>2, <2>1, <2>2, <2>3, <2>4, HolderMoves
<1>4. CASE /\ Task!Leave(x) \/ Task!LeaveQuarantined(x)
           /\ outbox' = outbox \/ Task!MarkPending(m)
  BY <1>1, <1>2, <1>4, HolderLeaves DEF Task!Reconcile
<1>5. \/ /\ Task!Leave(x) \/ Task!LeaveQuarantined(x)
         /\ outbox' = outbox \/ Task!MarkPending(m)
      \/ /\ ~Task!Working(m) /\ Task!Goto(x, IF x = Driver THEN "reserve" ELSE
                                             IF actor[x].rec.state = "running" THEN "demote" ELSE "run")
         /\ UNCHANGED <<outbox, claims, job, recon, faults>>
  BY <1>0, Zenon DEF Task!Reconcile
<1> QED
  BY <1>2, <1>3, <1>4, <1>5

\* The holder moves the attempt it asked about to pending.
LEMMA DemoteStays ==
    ASSUME OneSenderEach, TaskInv, NEW x \in Task!Actor, Task!Demote(x) PROVE TaskInv'
<1>0. PICK m : m = actor[x].key
  OBVIOUS
<1>1. CancelInv' /\ Task!TypeOK /\ actor[x] \in Task!ActorState
  BY DemoteKeeps, CancelTypes DEF TaskInv
<1>2. x = Driver /\ Holds(x, m) /\ DriverOn(m) /\ m \in Message /\ x \notin Sender
  BY <1>0, DispatchIsDriven, KeyFacts DEF Task!Demote
<1>3. CASE Task!MarkPending(m) /\ Task!Goto(x, "run") /\ UNCHANGED <<claims, job, recon, faults>>
  <2>1. /\ m \in Task!Key /\ MessageFacts(m) /\ outbox[m].state # "none" /\ job[m].pc \notin Live
        /\ ~job[m].claim
    BY <1>2, HoldsAlone
  <2>2. /\ actor'[x] = [actor[x] EXCEPT !.pc = "run"]
        /\ \A y \in Task!Actor \ {x} : actor'[y] = actor[y]
    BY <1>1, <1>3, GotoMoves
  <2>3. /\ actor'[x].pc = "run" /\ actor'[x].key = m /\ actor'[x].claim = actor[x].claim
        /\ actor'[x].sender = actor[x].sender /\ actor'[x].rec = actor[x].rec
    BY <1>0, <1>1, <2>2 DEF Task!ActorState
  <2>4. /\ \A k \in Task!Key \ {m} : outbox'[k] = outbox[k]
        /\ outbox'[m].attempts = outbox[m].attempts /\ outbox'[m].state = "pending"
        /\ Task!CanDemote(m)
    BY <1>1, <1>3, <2>1, MarkMoves
  <2>5. UNCHANGED <<task, ready, token, alive>>
    BY DEF Task!Demote
  <2>6. MessageFacts(m)'
    BY <1>3, <2>1, <2>4, <2>5 DEF MessageFacts, Live
  <2>7. DriverFacts'
    <3>1. \A y \in Sender : Sends[y] = m => actor'[y].pc = "gone"
      BY <1>2, <2>2, KeyFacts DEF DriverOn
    <3>2. DriverOn(m)'
      BY <1>2, <1>3, <2>3, <2>4, <2>5, <3>1 DEF DriverOn, Task!Demote, Task!Working
    <3> QED
      BY <1>2, <2>3, <3>2 DEF DriverFacts
  <2>8. /\ \A o \in Task!Key \ {m} : outbox'[o] = outbox[o] /\ job'[o] = job[o]
                                     /\ (o \in claims => o \in claims')
        /\ (Task!Unsettled(m)' => Task!Unsettled(m)) /\ outbox'[m].state # "none"
        /\ Task!Unknown(outbox[m]) /\ Task!Working(m) =>
              Task!Unknown(outbox'[m]) /\ outbox'[m].attempts = outbox[m].attempts
        /\ actor'[x].pc # "acknowledge"
    BY <1>3, <2>3, <2>4 DEF Task!Unsettled, Task!CanDemote, Task!Unknown
  <2> QED
    BY <1>1, <1>2, <1>3, <2>2, <2>5, <2>6, <2>7, <2>8, HolderKeeps
<1>4. CASE Task!Leave(x) /\ UNCHANGED outbox
  BY <1>1, <1>2, <1>4, HolderLeaves DEF Task!Demote
<1>5. \/ Task!Leave(x) /\ UNCHANGED outbox
      \/ Task!MarkPending(m) /\ Task!Goto(x, "run") /\ UNCHANGED <<claims, job, recon, faults>>
  BY <1>0, Zenon DEF Task!Demote
<1> QED
  BY <1>3, <1>4, <1>5

\* A message is run again only when no earlier attempt is with the host.
LEMMA RunStays ==
    ASSUME OneSenderEach, TaskInv, NEW x \in Task!Actor, Task!Run(x) PROVE TaskInv'
<1>0. PICK m : m = actor[x].key
  OBVIOUS
<1>1. /\ CancelInv' /\ CancelInv /\ Task!TypeOK /\ actor[x] \in Task!ActorState
      /\ m \in Message /\ m \in Task!Key /\ m # "cancel"
  BY <1>0, RunKeeps, CancelTypes, KeyFacts DEF TaskInv, Task!Run
<1>2. Holds(x, m)
  <2>1. x \notin Canceller
    BY <1>0, <1>1 DEF TaskInv
  <2> QED
    BY <1>0, <1>1, <2>1 DEF Holds, Task!Run, Task!Actor
<1>3. /\ MessageFacts(m) /\ outbox[m].state # "none" /\ (x # Driver => SenderFacts(x))
      /\ (x = Driver => DriverOn(m)) /\ (x # Driver => x \in Sender /\ Sends[x] = m)
  BY <1>2, HoldsAlone
<1>4. ~Task!Working(m) /\ m \in claims
  <2>1. CASE x = Driver
    BY <1>3, <2>1 DEF DriverOn, Task!Run
  <2>2. CASE x # Driver
    <3>1. m \in claims /\ outbox[m].attempts = 0
      BY <1>3, <2>2 DEF SenderFacts, Task!Run
    <3>2. ASSUME NEW n \in 1..MaxAttempts, <<m, n>> \in alive PROVE FALSE
      <4>1. n = outbox[m].attempts
        BY <1>1, <3>2 DEF TaskInv, AliveFacts
      <4>2. n > 0
        BY KeyFacts
      <4> QED
        BY <3>1, <4>1, <4>2
    <3> QED
      BY <3>1, <3>2 DEF Task!Working
  <2> QED
    BY <2>1, <2>2
<1>5. CASE /\ Task!MarkRunning(m)
           /\ job' = [job EXCEPT ![m] = [pc |-> "queued", attempt |-> outbox'[m].attempts,
                                         claim |-> TRUE, fenced |-> FALSE]]
           /\ Task!Rest(x) /\ UNCHANGED <<claims, recon, faults>>
  <2>1. /\ \A k \in Task!Key \ {m} : outbox'[k] = outbox[k]
        /\ outbox'[m].state = "running" /\ outbox'[m].attempts \in 1..MaxAttempts
        /\ Task!CanRun(m)
    BY <1>1, <1>5, MarkMoves
  <2>2. outbox'[m].attempts \in 0..MaxAttempts
    BY <2>1, KeyFacts
  <2>3. /\ \A k \in Task!Key \ {m} : job'[k] = job[k]
        /\ job'[m].pc = "queued" /\ job'[m].attempt = outbox'[m].attempts /\ job'[m].claim
    BY <1>1, <1>5, <2>2, QueuedMoves
  <2>4. PICK pc \in {"idle", "gone", "dispatches"} :
            /\ actor'[x] = [Task!AtRest EXCEPT !.pc = pc] /\ (x # Driver => pc = "gone")
            /\ \A y \in Task!Actor \ {x} : actor'[y] = actor[y]
    BY <1>1, <1>5, RestMoves
  <2>5. actor'[x].pc = pc /\ actor'[x].key = "cancel"
    BY <2>4 DEF Task!AtRest
  <2>6. UNCHANGED <<task, ready, token, alive>>
    BY DEF Task!Run
  <2>7. MessageFacts(m)'
    <3>1. ~Task!Working(m)'
      BY <1>4, <2>6 DEF Task!Working
    <3>2. task # "none"
      BY <1>3 DEF MessageFacts
    <3> QED
      BY <1>4, <1>5, <2>1, <2>3, <2>6, <3>1, <3>2 DEF MessageFacts, Live
  <2>8. (x = Driver => DriverFacts') /\ (x \in Sender => SenderFacts(x)')
    BY <1>3, <2>1, <2>4, <2>5, KeyFacts DEF DriverFacts, SenderFacts
  <2>9. /\ \A o \in Task!Key \ {m} : outbox'[o] = outbox[o] /\ job'[o] = job[o]
                                     /\ (o \in claims => o \in claims')
        /\ (Task!Unsettled(m)' => Task!Unsettled(m)) /\ outbox'[m].state # "none"
        /\ actor'[x].pc # "acknowledge"
    BY <1>5, <2>1, <2>3, <2>4, <2>5 DEF Task!Unsettled, Task!CanRun
  <2> QED
    BY <1>1, <1>2, <1>4, <1>5, <2>4, <2>6, <2>7, <2>8, <2>9, HolderKeeps
<1>6. CASE Task!Leave(x) /\ UNCHANGED outbox
  BY <1>1, <1>2, <1>6, HolderLeaves DEF Task!Run
<1>7. \/ Task!Leave(x) /\ UNCHANGED outbox
      \/ /\ Task!MarkRunning(m)
         /\ job' = [job EXCEPT ![m] = [pc |-> "queued", attempt |-> outbox'[m].attempts,
                                       claim |-> TRUE, fenced |-> FALSE]]
         /\ Task!Rest(x) /\ UNCHANGED <<claims, recon, faults>>
  BY <1>0, Zenon DEF Task!Run
<1> QED
  BY <1>5, <1>6, <1>7

\* What no attempt has been made at is not worked on.
LEMMA UnworkedIsIdle ==
    ASSUME AliveFacts, NEW m \in Message, outbox[m].attempts = 0 PROVE ~Task!Working(m)
<1>1. ASSUME NEW n \in 1..MaxAttempts, <<m, n>> \in alive PROVE FALSE
  <2>1. n = outbox[m].attempts /\ n > 0
    BY <1>1, KeyFacts DEF AliveFacts
  <2> QED
    BY <2>1
<1> QED
  BY <1>1 DEF Task!Working

\* The driver asks the host before it runs what may have been running.
LEMMA RecoverDispatchStays ==
    ASSUME OneSenderEach, TaskInv, Task!RecoverDispatch PROVE TaskInv'
<1>0. PICK m : m = actor[Driver].key
  OBVIOUS
<1> DEFINE rec == actor[Driver].rec
           next == IF Task!Unknown(rec) THEN "reconcile" ELSE "reserve"
           new == [actor[Driver] EXCEPT !.claim = TRUE, !.pc = next]
<1>1. /\ Driver \in Task!Actor /\ Driver \notin Sender /\ CancelInv' /\ Task!TypeOK
      /\ actor[Driver] \in Task!ActorState
  BY KeyFacts, RecoverDispatchKeeps, CancelTypes DEF TaskInv
<1>2. Holds(Driver, m) /\ DriverOn(m) /\ m \in Message
  BY <1>0, <1>1, DispatchIsDriven DEF Task!RecoverDispatch
<1>3. CASE claims' = claims \cup {m} /\ Moves(Driver, new) /\ UNCHANGED <<outbox, job, recon>>
  <2>1. /\ m \in Task!Key /\ MessageFacts(m) /\ outbox[m].state # "none"
    BY <1>1, <1>2, HoldsAlone
  <2>2. actor'[Driver] = new /\ \A y \in Task!Actor \ {Driver} : actor'[y] = actor[y]
    BY <1>1, <1>3 DEF Moves, Task!TypeOK
  <2>3. /\ new.pc = next /\ next \in {"reconcile", "reserve"} /\ new.key = m
        /\ new.claim = TRUE /\ new.sender = actor[Driver].sender /\ new.rec = rec
    BY <1>0, <1>1 DEF Task!ActorState
  <2>4. UNCHANGED <<task, ready, token, alive>>
    BY DEF Task!RecoverDispatch
  <2>5. MessageFacts(m)'
    BY <1>2, <1>3, <2>1, <2>4, MessageStays
  <2>6. DriverFacts'
    <3>1. \A y \in Sender : Sends[y] = m => actor'[y].pc = "gone"
      BY <1>2, <2>2, KeyFacts DEF DriverOn
    <3>2. next = "reserve" => ~Task!Working(m)
      BY <1>2, UnworkedIsIdle DEF DriverOn, Task!Unknown, TaskInv
    <3>3. DriverOn(m)'
      BY <1>2, <1>3, <2>2, <2>3, <2>4, <3>1, <3>2 DEF DriverOn, Task!Working
    <3> QED
      BY <2>2, <2>3, <3>3 DEF DriverFacts
  <2>7. /\ \A o \in Task!Key \ {m} : outbox'[o] = outbox[o] /\ job'[o] = job[o]
                                     /\ (o \in claims => o \in claims')
        /\ (Task!Unsettled(m)' => Task!Unsettled(m)) /\ outbox'[m].state # "none"
        /\ Task!Unknown(outbox[m]) /\ Task!Working(m) =>
              Task!Unknown(outbox'[m]) /\ outbox'[m].attempts = outbox[m].attempts
        /\ actor'[Driver].pc # "acknowledge"
    BY <1>3, <2>1, <2>2, <2>3 DEF Task!Unsettled
  <2> QED
    BY <1>1, <1>2, <1>3, <2>2, <2>4, <2>5, <2>6, <2>7, HolderKeeps
<1>4. CASE /\ Task!Leave(Driver) \/ Task!LeaveQuarantined(Driver)
           /\ outbox' = outbox \/ Task!MarkPending(m)
  BY <1>1, <1>2, <1>4, HolderLeaves DEF Task!RecoverDispatch
<1>5. \/ claims' = claims \cup {m} /\ Moves(Driver, new) /\ UNCHANGED <<outbox, job, recon>>
      \/ /\ Task!Leave(Driver) \/ Task!LeaveQuarantined(Driver)
         /\ outbox' = outbox \/ Task!MarkPending(m)
  BY <1>0, Zenon DEF Task!RecoverDispatch, Moves
<1> QED
  BY <1>3, <1>4, <1>5

-----------------------------------------------------------------------------
(* What is done for the cancellation leaves the messages to their holders. *)

\* A step of an actor that works on the cancellation.
LEMMA CancelSideKeeps ==
    ASSUME OneSenderEach, TaskInv, CancelInv', NEW x \in Task!Actor, x \notin Sender,
           \A y \in Task!Actor \ {x} : actor'[y] = actor[y],
           \A o \in Task!Key \ {"cancel"} : /\ outbox'[o] = outbox[o] /\ job'[o] = job[o]
                                            /\ o \in claims => o \in claims',
           UNCHANGED <<task, alive>>, token' # "signalled" => token' = token,
           PastQueue => PastQueue',
           recon'.answer = "stopped" => recon' = recon \/ (PastQueue' /\ alive = {}),
           job'["cancel"].pc = "stopped" => job'["cancel"] = job["cancel"],
           actor'[x].pc = "acknowledge" => alive = {},
           actor'[x].key = "cancel" \/ (x = Driver /\ DriverFacts')
    PROVE  TaskInv'
<1>1. \A o \in Message : /\ outbox'[o] = outbox[o] /\ job'[o] = job[o]
                         /\ o \in claims => o \in claims'
  BY KeyFacts
<1>2. AliveFacts'
  BY <1>1 DEF TaskInv, AliveFacts, Task!Unknown
<1>3. StopFacts'
  BY DEF TaskInv, StopFacts
<1>4. OneOpen'
  BY <1>1 DEF TaskInv, OneOpen, Task!Unsettled
<1>5. ASSUME NEW o \in Message PROVE MessageFacts(o)'
  BY <1>1, MessageStays DEF TaskInv
<1>6. ASSUME NEW y \in Sender PROVE SenderFacts(y)'
  <2>1. actor'[y] = actor[y] /\ Sends[y] \in Message
    BY KeyFacts
  <2> QED
    BY <1>1, <2>1, SenderStays DEF TaskInv
<1>7. \A c \in Canceller : actor'[c].key = "cancel"
  BY KeyFacts DEF TaskInv
<1>8. DriverFacts'
  <2>1. CASE x = Driver
    BY <2>1 DEF DriverFacts
  <2>2. CASE x # Driver
    <3> DEFINE k == actor[Driver].key
    <3>1. actor'[Driver] = actor[Driver] /\ k \in Task!Key
      BY <2>2, KeyFacts DEF TaskInv, CancelInv, Task!TypeOK, Task!ActorState
    <3>2. \A y \in Sender : actor[y].pc = "gone" => actor'[y].pc = "gone"
      BY KeyFacts
    <3> QED
      BY <3>1, <3>2, DriverStays DEF TaskInv
  <2> QED
    BY <2>1, <2>2
<1> QED
  BY <1>2, <1>3, <1>4, <1>5, <1>6, <1>7, <1>8 DEF TaskInv

\* A request that sends a message has nothing to do with the cancellation.
LEMMA CancelSide ==
    ASSUME TaskInv, NEW x \in Task!Actor, actor[x].key = "cancel",
           x \in Sender => actor[x].pc \notin {"idle", "gone"}
    PROVE  x \notin Sender
BY KeyFacts DEF TaskInv, SenderFacts

\* Whoever gives up the cancellation leaves no job that was told of a stop.
LEMMA CancelRetires ==
    ASSUME OneSenderEach, TaskInv, CancelInv', NEW x \in Task!Actor, x \notin Sender,
           actor[x].key = "cancel",
           Task!Leave(x) \/ Task!LeaveReleased(x) \/ Task!LeaveQuarantined(x),
           UNCHANGED <<task, outbox, ready, token, alive>>, Task!Fault \/ faults' = faults
    PROVE  TaskInv'
<1>1. Retires(x)
  BY LeavingRetires DEF TaskInv, CancelInv
<1>2. actor'[x].key = "cancel" /\ actor'[x].pc # "acknowledge"
  BY <1>1 DEF Retires, Task!AtRest
<1>3. job'["cancel"].pc = "stopped" => job'["cancel"] = job["cancel"]
  BY <1>1, KeyFacts DEF Retires, Task!NoJob
<1>4. \A o \in Task!Key \ {"cancel"} : /\ outbox'[o] = outbox[o] /\ job'[o] = job[o]
                                       /\ o \in claims => o \in claims'
  BY <1>1 DEF Retires
<1>5. \A y \in Task!Actor \ {x} : actor'[y] = actor[y]
  BY <1>1 DEF Retires
<1>6. (PastQueue => PastQueue') /\ (recon'.answer = "stopped" => recon' = recon)
  BY <1>1 DEF Retires, PastQueue
<1> QED
  BY <1>2, <1>3, <1>4, <1>5, <1>6, CancelSideKeeps

\* An actor goes on with the cancellation.
LEMMA CancelMoves ==
    ASSUME OneSenderEach, TaskInv, CancelInv', NEW x \in Task!Actor, x \notin Sender,
           NEW new, Moves(x, new),
           new.key = "cancel", new.pc = "acknowledge" => alive = {},
           \A o \in Task!Key \ {"cancel"} : /\ outbox'[o] = outbox[o] /\ job'[o] = job[o]
                                            /\ o \in claims => o \in claims',
           UNCHANGED <<task, alive>>, token' # "signalled" => token' = token,
           PastQueue => PastQueue',
           recon'.answer = "stopped" => recon' = recon \/ (PastQueue' /\ alive = {}),
           job'["cancel"].pc = "stopped" => job'["cancel"] = job["cancel"]
    PROVE  TaskInv'
<1>1. actor'[x] = new /\ \A y \in Task!Actor \ {x} : actor'[y] = actor[y]
  BY DEF TaskInv, CancelInv, Task!TypeOK, Moves
<1> QED
  BY <1>1, CancelSideKeeps

\* The driver takes on a message that its request has given up.
LEMMA ScansStay ==
    ASSUME OneSenderEach, TaskInv, Task!ScanCancellation \/ Task!ScanDispatches PROVE TaskInv'
<1>1. Driver \in Task!Actor /\ Driver \notin Sender /\ "cancel" \in Task!Key /\ CancelInv
  BY KeyFacts DEF TaskInv
<1>2. /\ Task!TypeOK /\ CancelActor(Driver) /\ actor[Driver] \in Task!ActorState /\ CancelInv'
      /\ outbox \in [Task!Key -> Task!Record]
  BY <1>1, CancelTypes, ScansKeep DEF OthersFit
<1>3. /\ UNCHANGED <<task, outbox, ready, job, token, recon, alive>>
      /\ \A o \in Task!Key : o \in claims => o \in claims'
  BY DEF Task!ScanCancellation, Task!ScanDispatches, Task!mapper
<1>4. CASE Task!Goto(Driver, "dispatches") \/ Task!Goto(Driver, "idle")
  <2>1. PICK pc \in {"dispatches", "idle"} : Task!Goto(Driver, pc)
    BY <1>4
  <2> DEFINE new == [actor[Driver] EXCEPT !.pc = pc]
  <2>2. new.pc = pc /\ new.key = "cancel"
    BY <1>2 DEF Task!ActorState, CancelActor, Task!ScanCancellation, Task!ScanDispatches
  <2>3. Moves(Driver, new)
    BY <1>1, <1>2, <2>1, GotoMoves
  <2> QED
    BY <1>1, <1>2, <1>3, <2>2, <2>3, CancelMoves DEF PastQueue
<1>5. CASE Task!ScanCancellation /\ ~Task!Goto(Driver, "dispatches")
  <2> DEFINE new == [Task!AtRest EXCEPT !.pc = "claim", !.rec = outbox["cancel"]]
  <2>1. Moves(Driver, new)
    BY <1>5 DEF Task!ScanCancellation, Moves
  <2>2. new.pc = "claim" /\ new.key = "cancel"
    BY DEF Task!AtRest
  <2> QED
    BY <1>1, <1>2, <1>3, <2>1, <2>2, CancelMoves DEF PastQueue
<1>6. CASE Task!ScanDispatches /\ ~Task!Goto(Driver, "idle")
  <2> DEFINE new(m) == [Task!AtRest EXCEPT !.pc = "claim", !.key = m, !.rec = outbox[m]]
  <2>1. PICK m \in ready : Task!Unsettled(m) /\ m \notin claims /\ Moves(Driver, new(m))
    BY <1>6 DEF Task!ScanDispatches, Moves
  <2>2. m \in Message /\ m \in Task!Key /\ outbox[m] \in Task!Record /\ MessageFacts(m)
    BY <1>2, KeyFacts DEF TaskInv, Task!TypeOK
  <2>3. /\ actor'[Driver] = new(m) /\ \A y \in Task!Actor \ {Driver} : actor'[y] = actor[y]
    BY <1>1, <1>2, <2>1 DEF Moves, Task!TypeOK
  <2>4. /\ new(m).pc = "claim" /\ new(m).key = m /\ new(m).rec = outbox[m]
        /\ new(m).claim = FALSE /\ new(m).sender = FALSE
    BY DEF Task!AtRest
  <2>5. outbox[m].state \in {"queued", "running", "pending"}
    BY <2>1, <2>2 DEF Task!Unsettled, Task!Record, Task!OutboxState
  <2>6. ASSUME NEW y \in Sender, Sends[y] = m PROVE actor'[y].pc = "gone"
    <3>1. SenderFacts(y) /\ actor'[y] = actor[y]
      BY <2>3, KeyFacts DEF TaskInv
    <3> QED
      BY <2>1, <2>5, <2>6, <3>1 DEF SenderFacts
  <2>7. DriverOn(m)'
    BY <1>3, <2>1, <2>2, <2>3, <2>4, <2>5, <2>6 DEF DriverOn, MessageFacts
  <2>8. DriverFacts'
    BY <2>3, <2>4, <2>7 DEF DriverFacts
  <2>9. actor'[Driver].pc # "acknowledge"
    BY <2>3, <2>4
  <2> QED
    BY <1>1, <1>2, <1>3, <2>3, <2>8, <2>9, CancelSideKeeps DEF PastQueue
<1> QED
  BY <1>4, <1>5, <1>6

\* To ask for a cancellation leaves the messages where they are.
LEMMA RequestCancelStays ==
    ASSUME OneSenderEach, TaskInv, NEW x \in Task!Actor, Task!RequestCancel(x) PROVE TaskInv'
<1> DEFINE new == [actor[x] EXCEPT !.pc = "signal"]
<1>1. /\ Task!TypeOK /\ actor[x] \in Task!ActorState /\ CancelInv' /\ x \notin Sender
      /\ actor[x].key = "cancel" /\ "cancel" \in Task!Key /\ outbox \in [Task!Key -> Task!Record]
  BY CancelTypes, KeyFacts, RequestCancelKeeps DEF Task!RequestCancel, TaskInv, OthersFit
<1>2. new.pc = "signal" /\ new.key = "cancel"
  BY <1>1 DEF Task!ActorState
<1>3. Moves(x, new)
  BY <1>1, GotoMoves DEF Task!RequestCancel
<1>4. UNCHANGED <<task, claims, job, token, recon, alive>>
  BY DEF Task!RequestCancel
<1>5. /\ \A o \in Task!Key \ {"cancel"} : outbox'[o] = outbox[o]
      /\ PastQueue => PastQueue'
  BY <1>1 DEF Task!RequestCancel, PastQueue
<1> QED
  BY <1>1, <1>2, <1>3, <1>4, <1>5, CancelMoves

\* The signal stops calls that have not begun.
LEMMA SignalStays ==
    ASSUME OneSenderEach, TaskInv, NEW x \in Task!Actor, Task!Signal(x) PROVE TaskInv'
<1> DEFINE new == [actor[x] EXCEPT !.pc = "reserve",
                                   !.rec = IF x = Driver THEN @ ELSE outbox["cancel"]]
<1>1. /\ actor[x] \in Task!ActorState /\ CancelInv' /\ actor[x].key = "cancel"
  BY CancelTypes, SignalKeeps DEF TaskInv, CancelActor, Task!Signal
<1>2. x \notin Sender
  BY <1>1, CancelSide DEF Task!Signal
<1>3. CASE (Task!Leave(x) \/ Task!LeaveQuarantined(x)) /\ token' = token
  BY <1>1, <1>2, <1>3, CancelRetires DEF Task!Signal, Task!mapper
<1>4. CASE /\ token' = (IF token = "none" THEN "none" ELSE "signalled")
           /\ Moves(x, new) /\ UNCHANGED <<claims, job, recon>>
  <2>1. new.pc = "reserve" /\ new.key = "cancel"
    BY <1>1 DEF Task!ActorState
  <2>2. UNCHANGED <<task, outbox, alive>> /\ (token' # "signalled" => token' = token)
    BY <1>4 DEF Task!Signal, Task!mapper
  <2> QED
    BY <1>1, <1>2, <1>4, <2>1, <2>2, CancelMoves DEF PastQueue
<1>5. \/ (Task!Leave(x) \/ Task!LeaveQuarantined(x)) /\ token' = token
      \/ /\ token' = (IF token = "none" THEN "none" ELSE "signalled")
         /\ Moves(x, new) /\ UNCHANGED <<claims, job, recon>>
  BY Zenon DEF Task!Signal, Moves
<1> QED
  BY <1>3, <1>4, <1>5

\* The driver takes up the cancellation and holds no message.
LEMMA RecoverCancellationStays ==
    ASSUME OneSenderEach, TaskInv, Task!RecoverCancellation PROVE TaskInv'
<1> DEFINE new(pc) == [actor[Driver] EXCEPT !.pc = pc]
<1>1. /\ Driver \in Task!Actor /\ Driver \notin Sender /\ Task!TypeOK
      /\ actor[Driver] \in Task!ActorState /\ CancelInv' /\ actor[Driver].key = "cancel"
  BY CancelTypes, KeyFacts, RecoverCancellationKeeps DEF TaskInv, Task!RecoverCancellation
<1>2. UNCHANGED <<task, outbox, ready, token, alive, faults>>
  BY DEF Task!RecoverCancellation, Task!mapper
<1>3. CASE Task!Leave(Driver)
  BY <1>1, <1>2, <1>3, CancelRetires
<1>4. ASSUME NEW pc \in {"ask", "signal"}, Task!Goto(Driver, pc),
             claims' = claims \/ claims' = claims \cup {"cancel"}, UNCHANGED <<job, recon>>
      PROVE  TaskInv'
  <2>1. new(pc).pc = pc /\ new(pc).key = "cancel"
    BY <1>1 DEF Task!ActorState
  <2>2. Moves(Driver, new(pc))
    BY <1>1, <1>4, GotoMoves
  <2> QED
    BY <1>1, <1>2, <1>4, <2>1, <2>2, CancelMoves DEF PastQueue
<1> QED
  BY <1>3, <1>4 DEF Task!RecoverCancellation

\* Whoever reserves the cancellation's job has heard of no stop yet.
LEMMA ReserveCancelStays ==
    ASSUME OneSenderEach, TaskInv, NEW x \in Task!Actor, Task!ReserveCancel(x) PROVE TaskInv'
<1> DEFINE next == IF x # Driver /\ Task!Unknown(actor[x].rec) THEN "ask"
                   ELSE IF actor[x].rec.state = "running" THEN "demote" ELSE "run"
           new == [actor[x] EXCEPT !.sender = TRUE, !.pc = next]
<1>1. /\ Task!TypeOK /\ actor[x] \in Task!ActorState /\ CancelInv' /\ actor[x].key = "cancel"
      /\ "cancel" \in Task!Key
  BY CancelTypes, KeyFacts, ReserveCancelKeeps DEF TaskInv, Task!ReserveCancel
<1>2. x \notin Sender
  BY <1>1, CancelSide DEF Task!ReserveCancel
<1>3. UNCHANGED <<task, outbox, ready, token, alive>>
  BY DEF Task!ReserveCancel, Task!mapper
<1>4. CASE job' = Task!Reserved("cancel") /\ Moves(x, new) /\ UNCHANGED <<claims, recon, faults>>
  <2>1. new.pc \in {"ask", "demote", "run"} /\ new.key = "cancel"
    BY <1>1 DEF Task!ActorState
  <2>2. job'["cancel"].pc = "gate" /\ \A o \in Task!Key \ {"cancel"} : job'[o] = job[o]
    BY <1>1, <1>4, ReservedMoves
  <2> QED
    BY <1>1, <1>2, <1>3, <1>4, <2>1, <2>2, CancelMoves DEF PastQueue
<1>5. CASE (Task!Leave(x) \/ Task!LeaveReleased(x)) /\ (Task!Fault \/ faults' = faults)
  BY <1>1, <1>2, <1>3, <1>5, CancelRetires
<1>6. \/ (Task!Leave(x) \/ Task!LeaveReleased(x)) /\ (Task!Fault \/ faults' = faults)
      \/ job' = Task!Reserved("cancel") /\ Moves(x, new) /\ UNCHANGED <<claims, recon, faults>>
  BY Zenon DEF Task!ReserveCancel, Moves
<1> QED
  BY <1>4, <1>5, <1>6

\* A stop is only believed when nothing is left to stop.
LEMMA DecideStays ==
    ASSUME OneSenderEach, TaskInv, CancelInv', NEW x \in Task!Actor, NEW answer, NEW newRecon,
           actor[x].pc = "ask", Task!Decide(x, answer, newRecon),
           answer = "stopped" => alive = {},
           newRecon.answer = "stopped" => newRecon = recon \/ alive = {},
           UNCHANGED <<task, ready, token, alive, faults>>
    PROVE  TaskInv'
<1> DEFINE new(pc) == [actor[x] EXCEPT !.pc = pc, !.asks = FALSE]
<1>1. /\ Task!TypeOK /\ actor[x] \in Task!ActorState /\ "cancel" \in Task!Key
      /\ PastQueue /\ actor[x].key = "cancel"
  BY CancelTypes, KeyFacts DEF CancelActor, TaskInv
<1>2. x \notin Sender
  BY <1>1, CancelSide
<1>3. recon' = newRecon
  BY Zenon DEF Task!Decide
<1>4. ASSUME NEW pc \in {"acknowledge", "demote", "run", "signal"}, Moves(x, new(pc)),
             pc = "acknowledge" => alive = {},
             outbox' = outbox, job' = job, claims' \in {claims, claims \ {"cancel"}}
      PROVE  TaskInv'
  <2>1. new(pc).pc = pc /\ new(pc).key = "cancel"
    BY <1>1 DEF Task!ActorState
  <2>2. PastQueue' /\ \A o \in Task!Key \ {"cancel"} : o \in claims => o \in claims'
    BY <1>1, <1>4 DEF PastQueue
  <2> QED
    BY <1>2, <1>3, <1>4, <2>1, <2>2, CancelMoves
<1>5. ASSUME Task!Rest(x), outbox' = outbox \/ Task!MarkPending("cancel"),
             job' = job \/ job' = Task!Dropped("cancel"), claims' = claims
      PROVE  TaskInv'
  <2>1. PICK pc \in {"idle", "gone", "dispatches"} : Moves(x, [Task!AtRest EXCEPT !.pc = pc])
    BY <1>1, <1>5, RestMoves DEF Task!Rest, Moves
  <2> DEFINE rest == [Task!AtRest EXCEPT !.pc = pc]
  <2>2. rest.pc = pc /\ rest.key = "cancel"
    BY DEF Task!AtRest
  <2>3. PastQueue' /\ \A o \in Task!Key \ {"cancel"} : outbox'[o] = outbox[o]
    BY <1>1, <1>5, MarkMoves DEF PastQueue
  <2>4. /\ \A o \in Task!Key \ {"cancel"} : job'[o] = job[o]
        /\ job'["cancel"].pc = "stopped" => job'["cancel"] = job["cancel"]
    <3>1. CASE job' = job
      BY <3>1
    <3>2. CASE job' = Task!Dropped("cancel")
      BY <1>1, <3>2 DEF Task!Dropped, Task!TypeOK, Task!NoJob
    <3> QED
      BY <1>5, <3>1, <3>2
  <2> QED
    BY <1>2, <1>3, <1>5, <2>1, <2>2, <2>3, <2>4, CancelMoves
<1>6. \/ \E pc \in {"acknowledge", "demote", "run", "signal"} :
            Moves(x, new(pc)) /\ outbox' = outbox /\ job' = job
            /\ claims' \in {claims, claims \ {"cancel"}}
            /\ (pc = "acknowledge" => answer = "stopped")
      \/ /\ Task!Rest(x) /\ (outbox' = outbox \/ Task!MarkPending("cancel"))
         /\ job' = job \/ job' = Task!Dropped("cancel")
         /\ claims' = claims
  BY Zenon DEF Task!Decide, Moves
<1> QED
  BY <1>4, <1>5, <1>6

\* Only an answer that was given for this attempt is taken from the cache.
LEMMA AskStays ==
    ASSUME OneSenderEach, TaskInv, NEW x \in Task!Actor, Task!Ask(x) PROVE TaskInv'
<1> DEFINE new == [actor[x] EXCEPT !.asks = TRUE]
<1>1. /\ actor[x] \in Task!ActorState /\ CancelInv' /\ actor[x].key = "cancel"
      /\ actor[x].pc = "ask" /\ UNCHANGED <<task, ready, token, alive, faults>>
  BY CancelTypes, AskKeeps DEF TaskInv, CancelActor, Task!Ask
<1>2. x \notin Sender
  BY <1>1, CancelSide
<1>3. ASSUME NEW answer, Task!Decide(x, answer, recon), answer = "stopped" => recon.answer = "stopped"
      PROVE  TaskInv'
  BY <1>1, <1>3, DecideStays DEF TaskInv, StopFacts
<1>4. CASE recon' = Task!Asked(x) /\ Moves(x, new) /\ UNCHANGED <<outbox, claims, job>>
  <2>1. new.pc = "ask" /\ new.key = "cancel"
    BY <1>1 DEF Task!ActorState
  <2>2. recon'.answer # "stopped"
    BY <1>4 DEF Task!Asked
  <2> QED
    BY <1>1, <1>2, <1>4, <2>1, <2>2, CancelMoves DEF PastQueue
<1>5. \/ Task!Decide(x, recon.answer, recon)
      \/ Task!Decide(x, "required", recon)
      \/ recon' = Task!Asked(x) /\ Moves(x, new) /\ UNCHANGED <<outbox, claims, job>>
  BY Zenon DEF Task!Ask, Moves
<1> QED
  BY <1>3, <1>4, <1>5

\* The host answers "stopped" only when no work is left.
LEMMA AnswerStays ==
    ASSUME OneSenderEach, TaskInv, NEW x \in Task!Actor, Task!Answer(x) PROVE TaskInv'
<1>1. PICK answer \in {"retry", "required"} \cup (IF alive = {} THEN {"stopped"} ELSE {}) :
          Task!Decide(x, answer, IF recon = Task!Asked(x)
                                 THEN [attempts |-> actor[x].rec.attempts, answer |-> answer]
                                 ELSE recon)
  BY DEF Task!Answer
<1> DEFINE newRecon == IF recon = Task!Asked(x)
                       THEN [attempts |-> actor[x].rec.attempts, answer |-> answer] ELSE recon
<1>2. answer = "stopped" => alive = {}
  BY <1>1
<1>3. newRecon.answer = "stopped" => newRecon = recon \/ alive = {}
  BY <1>2
<1>4. CancelInv'
  BY AnswerKeeps DEF TaskInv
<1> QED
  BY <1>1, <1>2, <1>3, <1>4, DecideStays DEF Task!Answer

\* The acknowledged cancellation settles every record when no work is left.
LEMMA EndKeeps ==
    ASSUME TaskInv, CancelInv', NEW n, Task!Acknowledges(n), alive = {},
           UNCHANGED <<token, recon, alive>>,
           \A o \in Task!Key \ {"cancel"} : job'[o] = job[o] /\ (o \in claims => o \in claims'),
           \A y \in Task!Actor : actor'[y] = actor[y]
                                 \/ (y \notin Sender /\ actor'[y].key = "cancel")
    PROVE  TaskInv'
<1>1. /\ task' = "cancelled" /\ PastQueue /\ PastQueue'
      /\ \A o \in Message : /\ outbox'[o].attempts = outbox[o].attempts
                            /\ outbox'[o].state = IF Task!Unsettled(o) THEN "settled"
                                                  ELSE outbox[o].state
  <2>1. Task!TypeOK
    BY DEF TaskInv, CancelInv
  <2> QED
    BY <2>1, EndMoves, KeyFacts
       DEF Task!Acknowledgeable, Task!Unknown, Task!Unsettled, PastQueue
<1>2. \A o \in Message : job'[o] = job[o] /\ (o \in claims => o \in claims')
  BY KeyFacts
<1>3. AliveFacts' /\ StopFacts'
  BY <1>1 DEF AliveFacts, StopFacts
<1>4. \A o \in Message : /\ outbox'[o].state = "none" <=> outbox[o].state = "none"
                         /\ outbox'[o].state \in {"none", "settled"}
  BY <1>1 DEF Task!Unsettled
<1>5. OneOpen'
  BY <1>4 DEF OneOpen, Task!Unsettled
<1>6. ASSUME NEW o \in Message PROVE MessageFacts(o)'
  <2>1. CallsSignalled /\ MessageFacts(o)
    BY <1>1 DEF TaskInv, CancelInv, CancelFacts
  <2> QED
    BY <1>1, <1>2, <1>4, <2>1 DEF MessageFacts, CallsSignalled, Task!Working
<1>7. ASSUME NEW y \in Sender PROVE SenderFacts(y)'
  BY <1>1, <1>2, <1>4, SenderStays, KeyFacts DEF TaskInv
<1>8. \A c \in Canceller : actor'[c].key = "cancel"
  BY KeyFacts DEF TaskInv
<1>9. DriverFacts'
  <2>1. CASE actor'[Driver] = actor[Driver] /\ actor[Driver].key # "cancel"
    <3>1. actor[Driver].key \in Message
      BY <2>1, CancelTypes, KeyFacts DEF TaskInv
    <3>2. \A y \in Sender : actor'[y] = actor[y]
      BY KeyFacts
    <3> QED
      BY <1>1, <1>2, <1>4, <2>1, <3>1, <3>2, DriverStays DEF TaskInv
  <2>2. CASE actor'[Driver].key = "cancel"
    BY <2>2 DEF DriverFacts
  <2> QED
    BY <2>1, <2>2, KeyFacts
<1> QED
  BY <1>3, <1>5, <1>6, <1>7, <1>8, <1>9 DEF TaskInv

\* The host's attestation ends the task only when no work is left.
LEMMA AcknowledgeStays ==
    ASSUME OneSenderEach, TaskInv, NEW x \in Task!Actor, Task!AcknowledgeAsked(x) PROVE TaskInv'
<1> DEFINE n == actor[x].rec.attempts
<1>1. /\ Task!TypeOK /\ CancelInv' /\ actor[x].key = "cancel" /\ actor[x].pc = "acknowledge"
      /\ "cancel" \in Task!Key /\ n \in 0..MaxAttempts
  BY CancelTypes, KeyFacts, AcknowledgeKeeps
     DEF TaskInv, CancelActor, Task!AcknowledgeAsked, Task!Record
<1>2. x \notin Sender
  BY <1>1, CancelSide
<1>3. UNCHANGED <<ready, token, alive>> /\ alive = {}
  BY <1>1 DEF Task!AcknowledgeAsked, TaskInv, StopFacts
<1>4. CASE /\ Task!Acknowledges(n) /\ claims' = claims \cup {"cancel"}
           /\ job' = IF x = Driver THEN job
                     ELSE [job EXCEPT !["cancel"] =
                              [pc |-> "queued", attempt |-> n, claim |-> TRUE, fenced |-> TRUE]]
           /\ Task!Rest(x) /\ UNCHANGED <<recon, faults>>
  <2>1. /\ actor'[x].key = "cancel" /\ \A y \in Task!Actor \ {x} : actor'[y] = actor[y]
    BY <1>1, <1>4, RestMoves DEF Task!AtRest
  <2>2. \A o \in Task!Key \ {"cancel"} : job'[o] = job[o]
    <3>1. CASE x = Driver
      BY <1>4, <3>1
    <3>2. CASE x # Driver
      BY <1>1, <1>4, <3>2, QueuedMoves
    <3> QED
      BY <3>1, <3>2
  <2> QED
    BY <1>1, <1>2, <1>3, <1>4, <2>1, <2>2, EndKeeps
<1>5. CASE /\ Task!Leave(x) \/ Task!LeaveReleased(x)
           /\ Task!Fault \/ faults' = faults
           /\ UNCHANGED <<task, outbox>>
  BY <1>1, <1>2, <1>3, <1>5, CancelRetires
<1> QED
  BY <1>4, <1>5, Zenon DEF Task!AcknowledgeAsked

\* A cancellation that is tried again leaves the messages alone.
LEMMA DemoteCancelStays ==
    ASSUME OneSenderEach, TaskInv, NEW x \in Task!Actor, Task!DemoteCancel(x) PROVE TaskInv'
<1>1. /\ Task!TypeOK /\ CancelInv' /\ actor[x].key = "cancel" /\ actor[x] \in Task!ActorState
      /\ "cancel" \in Task!Key
  BY CancelTypes, KeyFacts, DemoteCancelKeeps DEF TaskInv, Task!DemoteCancel
<1>2. x \notin Sender
  BY <1>1, CancelSide DEF Task!DemoteCancel
<1>3. UNCHANGED <<task, ready, token, alive>>
  BY DEF Task!DemoteCancel
<1>4. CASE Task!MarkPending("cancel") /\ Task!Goto(x, "run")
           /\ UNCHANGED <<claims, job, recon, faults>>
  <2> DEFINE new == [actor[x] EXCEPT !.pc = "run"]
  <2>1. new.pc = "run" /\ new.key = "cancel" /\ Moves(x, new)
    BY <1>1, <1>4, GotoMoves DEF Task!ActorState
  <2>2. PastQueue' /\ \A o \in Task!Key \ {"cancel"} : outbox'[o] = outbox[o]
    BY <1>1, <1>4, MarkMoves DEF PastQueue
  <2> QED
    BY <1>1, <1>2, <1>3, <1>4, <2>1, <2>2, CancelMoves
<1>5. CASE /\ Task!Leave(x) \/ Task!LeaveReleased(x)
           /\ Task!Fault \/ faults' = faults
           /\ UNCHANGED outbox
  BY <1>1, <1>2, <1>3, <1>5, CancelRetires
<1> QED
  BY <1>4, <1>5, Zenon DEF Task!DemoteCancel

\* A cancellation that runs leaves the messages alone.
LEMMA RunCancelStays ==
    ASSUME OneSenderEach, TaskInv, NEW x \in Task!Actor, Task!RunCancel(x) PROVE TaskInv'
<1>1. /\ Task!TypeOK /\ CancelInv' /\ actor[x].key = "cancel" /\ actor[x] \in Task!ActorState
      /\ "cancel" \in Task!Key
  BY CancelTypes, KeyFacts, RunCancelKeeps DEF TaskInv, Task!RunCancel
<1>2. x \notin Sender
  BY <1>1, CancelSide DEF Task!RunCancel
<1>3. UNCHANGED <<task, ready, token, alive>>
  BY DEF Task!RunCancel
<1>4. CASE Task!MarkRunning("cancel") /\ Task!Goto(x, "send")
           /\ UNCHANGED <<claims, job, recon, faults>>
  <2> DEFINE new == [actor[x] EXCEPT !.pc = "send"]
  <2>1. new.pc = "send" /\ new.key = "cancel" /\ Moves(x, new)
    BY <1>1, <1>4, GotoMoves DEF Task!ActorState
  <2>2. PastQueue' /\ \A o \in Task!Key \ {"cancel"} : outbox'[o] = outbox[o]
    BY <1>1, <1>4, MarkMoves DEF PastQueue
  <2> QED
    BY <1>1, <1>2, <1>3, <1>4, <2>1, <2>2, CancelMoves
<1>5. CASE /\ Task!Leave(x) \/ Task!LeaveReleased(x)
           /\ Task!Fault \/ faults' = faults
           /\ UNCHANGED outbox
  BY <1>1, <1>2, <1>3, <1>5, CancelRetires
<1> QED
  BY <1>4, <1>5, Zenon DEF Task!RunCancel

\* A job of the cancellation that is queued was told of no stop.
LEMMA SendCancelStays ==
    ASSUME OneSenderEach, TaskInv, NEW x \in Task!Actor, Task!SendCancel(x) PROVE TaskInv'
<1>1. /\ Task!TypeOK /\ CancelInv' /\ actor[x].key = "cancel" /\ "cancel" \in Task!Key
      /\ outbox["cancel"].attempts \in 0..MaxAttempts
  BY CancelTypes, KeyFacts, SendCancelKeeps
     DEF TaskInv, CancelActor, Task!SendCancel, OthersFit, Task!Record
<1>2. x \notin Sender
  BY <1>1, CancelSide DEF Task!SendCancel
<1>3. PICK pc \in {"idle", "gone", "dispatches"} : Moves(x, [Task!AtRest EXCEPT !.pc = pc])
  BY <1>1, RestMoves DEF Task!Rest, Task!SendCancel, Moves
<1> DEFINE rest == [Task!AtRest EXCEPT !.pc = pc]
<1>4. rest.pc = pc /\ rest.key = "cancel"
  BY DEF Task!AtRest
<1>5. job'["cancel"].pc = "queued" /\ \A o \in Task!Key \ {"cancel"} : job'[o] = job[o]
  BY <1>1, QueuedMoves DEF Task!SendCancel
<1>6. UNCHANGED <<task, outbox, token, recon, alive>> /\ claims' = claims \cup {"cancel"}
  BY DEF Task!SendCancel, Task!mapper
<1> QED
  BY <1>1, <1>2, <1>3, <1>4, <1>5, <1>6, CancelMoves DEF PastQueue

\* A request, or the driver, that is dropped.
LEMMA AbortStays ==
    ASSUME OneSenderEach, TaskInv, NEW x \in Task!Actor, Task!Abort(x) PROVE TaskInv'
<1>0. PICK m : m = actor[x].key
  OBVIOUS
<1>1. /\ CancelInv' /\ Task!Leave(x) /\ UNCHANGED <<task, outbox, ready, token, alive>>
      /\ actor[x].pc \notin {"idle", "dispatches", "gone"}
      /\ Task!Fault \/ faults' = faults
  BY AbortKeeps DEF Task!Abort, TaskInv, Task!mapper
<1>2. CASE m = "cancel"
  <2>1. x \notin Sender
    BY <1>0, <1>1, <1>2, CancelSide
  <2> QED
    BY <1>0, <1>1, <1>2, <2>1, CancelRetires
<1>3. CASE m # "cancel"
  <2>1. m \in Message
    BY <1>0, <1>3, CancelTypes DEF TaskInv
  <2>2. x \notin Canceller
    BY <1>0, <1>3 DEF TaskInv
  <2>3. Holds(x, m)
    BY <1>0, <1>1, <2>1, <2>2, SenderHolds DEF Holds, Task!Actor
  <2> QED
    BY <1>1, <2>3, HolderLeaves
<1> QED
  BY <1>2, <1>3

-----------------------------------------------------------------------------
(* A message comes to a task without open work, and a crash forgets only who *)
(* was at work.                                                              *)

\* The acceptance stages the message for its request: claimed, with a job at its gate.
LEMMA SendStays ==
    ASSUME OneSenderEach, TaskInv, NEW x \in Task!Actor, Task!Send(x) PROVE TaskInv'
<1>0. PICK m : m = Sends[x]
  OBVIOUS
<1> DEFINE claimed == [Task!AtRest EXCEPT !.pc = "flush", !.key = m, !.claim = TRUE]
           staged == [Task!AtRest EXCEPT !.pc = "flush", !.key = m, !.claim = TRUE, !.sender = TRUE]
<1>1. /\ x \in Sender /\ m \in Message /\ m \in Task!Key /\ m # "cancel" /\ CancelInv'
      /\ x # Driver /\ x \notin Canceller /\ actor[x].pc = "idle"
  <2>1. x \in Sender /\ actor[x].pc = "idle"
    BY DEF Task!Send
  <2>2. CancelInv'
    BY SendKeeps DEF TaskInv
  <2> QED
    BY <1>0, <2>1, <2>2, KeyFacts
<1>2. /\ Task!TypeOK /\ MessageFacts(m) /\ SenderFacts(x) /\ outbox[m].state = "none"
  BY <1>0, <1>1, CancelTypes DEF TaskInv, SenderFacts
<1>3. /\ Task!Acceptable(m) /\ task' = "working"
      /\ outbox' = [outbox EXCEPT ![m] = [state |-> "queued", attempts |-> 0]]
      /\ claims' = claims \cup {m}
      /\ \/ job' = Task!Reserved(m) /\ Moves(x, staged)
         \/ job' = job /\ Moves(x, claimed)
  BY <1>0, <1>2 DEF Task!Send, Moves
<1>4. UNCHANGED <<ready, token, recon, alive>>
  BY DEF Task!Send
<1>5. /\ \A k \in Task!Key \ {m} : outbox'[k] = outbox[k]
      /\ outbox'[m].state = "queued" /\ outbox'[m].attempts = 0
  BY <1>1, <1>2, <1>3 DEF Task!TypeOK
<1>6. /\ \A k \in Task!Key \ {m} : job'[k] = job[k]
      /\ job'[m].pc \in {"none", "gate"} /\ ~job'[m].claim
      /\ Moves(x, staged) \/ Moves(x, claimed)
      /\ actor'[x] = staged => job'[m].pc = "gate"
  <2>1. CASE job' = Task!Reserved(m) /\ Moves(x, staged)
    BY <1>1, <1>2, <2>1, ReservedMoves
  <2>2. CASE job' = job /\ Moves(x, claimed)
    <3>1. claimed # staged
      <4>1. claimed.sender = FALSE /\ staged.sender = TRUE
        BY DEF Task!AtRest
      <4> QED
        BY <4>1
    <3>2. actor'[x] = claimed
      BY <1>2, <2>2 DEF Moves, Task!TypeOK
    <3> QED
      BY <1>2, <2>2, <3>1, <3>2 DEF MessageFacts
  <2> QED
    BY <1>3, <2>1, <2>2
<1>7. /\ \A y \in Task!Actor \ {x} : actor'[y] = actor[y]
      /\ actor'[x].pc = "flush" /\ actor'[x].key = m /\ actor'[x].claim
      /\ actor'[x].sender => actor'[x] = staged
  <2>1. /\ \A y \in Task!Actor \ {x} : actor'[y] = actor[y]
        /\ actor'[x] = claimed \/ actor'[x] = staged
    BY <1>2, <1>6 DEF Moves, Task!TypeOK
  <2> QED
    BY <2>1 DEF Task!AtRest
<1>8. \A o \in Message : outbox[o].state \in {"none", "settled"}
  BY <1>3, KeyFacts DEF Task!Acceptable, TaskInv, MessageFacts, Task!Unsettled
<1>9. alive = {}
  <2>1. ASSUME NEW w \in alive PROVE FALSE
    <3>1. PICK o \in Message, k \in 1..MaxAttempts : w = <<o, k>>
      BY <1>2 DEF Task!TypeOK
    <3>2. Task!Unknown(outbox[o])
      BY <3>1 DEF TaskInv, AliveFacts
    <3> QED
      BY <1>8, <3>2 DEF Task!Unknown
  <2> QED
    BY <2>1
<1>10. AliveFacts'
  BY <1>4, <1>9 DEF AliveFacts
<1>11. StopFacts'
  BY <1>1, <1>4, <1>5, <1>9, KeyFacts DEF TaskInv, StopFacts, PastQueue
<1>12. OneOpen'
  BY <1>5, <1>8, KeyFacts DEF OneOpen, Task!Unsettled
<1>13. ASSUME NEW o \in Message PROVE MessageFacts(o)'
  <2>1. CASE o = m
    BY <1>3, <1>5, <1>6, <2>1 DEF MessageFacts, Live
  <2>2. CASE o # m
    <3>1. outbox'[o] = outbox[o] /\ job'[o] = job[o] /\ (o \in claims => o \in claims')
      BY <1>3, <1>5, <1>6, <2>2, KeyFacts
    <3>2. MessageFacts(o) /\ outbox[o].state \in {"none", "settled"}
      BY <1>8 DEF TaskInv
    <3> QED
      BY <1>3, <1>4, <3>1, <3>2 DEF MessageFacts, Task!Working
  <2> QED
    BY <2>1, <2>2
<1>14. ASSUME NEW y \in Sender PROVE SenderFacts(y)'
  <2>1. CASE y = x
    BY <1>0, <1>3, <1>5, <1>6, <1>7, <2>1 DEF SenderFacts
  <2>2. CASE y # x
    <3>1. Sends[y] # m /\ Sends[y] \in Task!Key \ {m} /\ actor'[y] = actor[y]
      BY <1>0, <1>1, <1>7, <2>2, KeyFacts DEF OneSenderEach
    <3> QED
      BY <1>3, <1>5, <1>6, <3>1, SenderStays DEF TaskInv
  <2> QED
    BY <2>1, <2>2
<1>15. \A c \in Canceller : actor'[c].key = "cancel"
  BY <1>1, <1>7, KeyFacts DEF TaskInv
<1>16. DriverFacts'
  <2> DEFINE k == actor[Driver].key
  <2>1. actor'[Driver] = actor[Driver] /\ k \in Task!Key
    BY <1>1, <1>2, <1>7, KeyFacts DEF Task!TypeOK, Task!ActorState
  <2>2. k # "cancel" => k # m
    BY <1>2, <2>1 DEF TaskInv, DriverFacts, DriverOn
  <2>3. \A y \in Sender : actor[y].pc = "gone" => actor'[y].pc = "gone"
    BY <1>1, <1>7, KeyFacts
  <2>4. k # "cancel" => outbox'[k] = outbox[k] /\ job'[k] = job[k] /\ (k \in claims => k \in claims')
    BY <1>3, <1>5, <1>6, <2>1, <2>2
  <2> QED
    BY <1>4, <2>1, <2>3, <2>4, DriverStays DEF TaskInv
<1> QED
  BY <1>1, <1>10, <1>11, <1>12, <1>13, <1>14, <1>15, <1>16 DEF TaskInv

\* A crash ends whoever holds a message; the attempts on record stay open.
LEMMA CrashStays == ASSUME TaskInv, Task!Crash PROVE TaskInv'
<1>1. CancelInv'
  BY CrashKeeps DEF TaskInv
<1>2. UNCHANGED <<task, outbox, ready, alive>>
  BY DEF Task!Crash, Task!mapper
<1>3. /\ \A k \in Task!Key : job'[k] = Task!NoJob
      /\ recon' = Task!NoAnswer /\ token' = "none"
      /\ \A y \in Task!Actor :
            /\ actor'[y].key = "cancel" /\ actor'[y].pc \in {"idle", "gone"}
            /\ y # Driver => (actor'[y].pc = "idle" <=> actor[y].pc = "idle")
  BY DEF Task!Crash, Task!AtRest
<1>4. AliveFacts'
  BY <1>2 DEF TaskInv, AliveFacts
<1>5. StopFacts'
  <2>1. /\ recon'.answer = "none" /\ job'["cancel"].pc = "none"
        /\ \A y \in Task!Actor : actor'[y].pc # "acknowledge"
    BY <1>3, KeyFacts DEF Task!NoAnswer, Task!NoJob
  <2> QED
    BY <2>1 DEF StopFacts
<1>6. OneOpen'
  BY <1>2 DEF TaskInv, OneOpen, Task!Unsettled
<1>7. ASSUME NEW o \in Message PROVE MessageFacts(o)'
  BY <1>2, <1>3, KeyFacts DEF TaskInv, MessageFacts, Live, Task!NoJob
<1>8. ASSUME NEW y \in Sender PROVE SenderFacts(y)'
  <2>1. SenderFacts(y) /\ y \in Task!Actor /\ y # Driver
    BY KeyFacts DEF TaskInv
  <2> QED
    BY <1>2, <1>3, <2>1 DEF SenderFacts
<1>9. \A c \in Canceller : actor'[c].key = "cancel"
  BY <1>3, KeyFacts
<1>10. DriverFacts'
  BY <1>3, KeyFacts DEF DriverFacts
<1> QED
  BY <1>1, <1>4, <1>5, <1>6, <1>7, <1>8, <1>9, <1>10 DEF TaskInv

-----------------------------------------------------------------------------
(* A scheduled job has the claim of its message, so that nobody else works   *)
(* on the message meanwhile.                                                 *)

\* A step of the job of m.
LEMMA JobStays ==
    ASSUME TaskInv, CancelInv', NEW m \in Message, job[m].claim,
           UNCHANGED <<recon, actor>>,
           \A k \in Task!Key \ {m} : /\ outbox'[k] = outbox[k] /\ job'[k] = job[k]
                                     /\ k \in claims => k \in claims',
           outbox'[m].state # "none", Task!Unsettled(m)' => Task!Unsettled(m),
           outbox[m].state # "none",
           task' = task \/ (task = "working" /\ task' # "none"),
           \A o \in Message \ {m} :
               /\ Task!Working(o)' => Task!Working(o)
               /\ job[o].pc = "call" /\ token' # "signalled" => token # "signalled" /\ task' = task,
           AliveFacts', alive' \subseteq alive \/ ~PastQueue, MessageFacts(m)'
    PROVE  TaskInv'
<1>1. "cancel" \in Task!Key \ {m} /\ Message \subseteq Task!Key
  BY KeyFacts
<1>2. StopFacts'
  <2>1. /\ job["cancel"].pc = "stopped" => PastQueue
        /\ \A x \in Task!Actor : actor[x].pc = "acknowledge" => PastQueue
    BY DEF TaskInv, CancelInv, CancelFacts, CancelActor
  <2>2. job'["cancel"] = job["cancel"] /\ (PastQueue => PastQueue')
    BY <1>1 DEF PastQueue
  <2> QED
    BY <2>1, <2>2 DEF TaskInv, StopFacts
<1>3. OneOpen'
  <2>1. \A o \in Message : Task!Unsettled(o)' => Task!Unsettled(o)
    BY <1>1 DEF Task!Unsettled
  <2> QED
    BY <2>1 DEF TaskInv, OneOpen
<1>4. ASSUME NEW o \in Message PROVE MessageFacts(o)'
  <2>1. CASE o = m
    BY <2>1
  <2>2. CASE o # m
    <3>1. /\ MessageFacts(o) /\ outbox'[o] = outbox[o] /\ job'[o] = job[o]
          /\ o \in claims => o \in claims'
      BY <1>1, <2>2 DEF TaskInv
    <3> QED
      BY <2>2, <3>1 DEF MessageFacts
  <2> QED
    BY <2>1, <2>2
<1>5. ASSUME NEW y \in Sender PROVE SenderFacts(y)'
  <2>1. SenderFacts(y) /\ actor'[y] = actor[y] /\ Sends[y] \in Message
    BY KeyFacts DEF TaskInv
  <2>2. CASE Sends[y] = m
    <3>1. actor[y].pc \in {"idle", "gone"}
      BY <2>1, <2>2 DEF SenderFacts
    <3> QED
      BY <2>1, <2>2, <3>1, SenderStays
  <2>3. CASE Sends[y] # m
    BY <1>1, <2>1, <2>3, SenderStays
  <2> QED
    BY <2>2, <2>3
<1>6. DriverFacts'
  <2> DEFINE k == actor[Driver].key
  <2>1. actor'[Driver] = actor[Driver] /\ (k # "cancel" => k \in Message)
    BY CancelTypes, KeyFacts DEF TaskInv
  <2>2. k # "cancel" => DriverOn(k) /\ k # m
    BY DEF TaskInv, DriverFacts, DriverOn
  <2>3. k # "cancel" => /\ outbox'[k] = outbox[k] /\ job'[k] = job[k] /\ (k \in claims => k \in claims')
                        /\ Task!Working(k)' => Task!Working(k)
    BY <1>1, <2>1, <2>2
  <2> QED
    BY <2>1, <2>2, <2>3 DEF DriverFacts, DriverOn
<1>7. \A c \in Canceller : actor'[c].key = "cancel"
  BY DEF TaskInv
<1> QED
  BY <1>2, <1>3, <1>4, <1>5, <1>6, <1>7 DEF TaskInv

\* What a job that is at work may rely on.
LEMMA JobFacts ==
    ASSUME TaskInv, NEW m \in Message, job[m].pc \in Live
    PROVE  /\ job[m].claim /\ m \in claims /\ job[m].attempt = outbox[m].attempts
           /\ outbox[m].state # "none" /\ task # "none"
           /\ MessageFacts(m) /\ CancelInv /\ Task!TypeOK
           /\ m \in Task!Key /\ m # "cancel" /\ "cancel" \in Task!Key \ {m}
<1>1. MessageFacts(m) /\ CancelInv /\ Task!TypeOK
  BY DEF TaskInv, CancelInv
<1> QED
  BY <1>1, KeyFacts DEF MessageFacts, Live

\* A step of a job that leaves the mapper and the work as they are.
LEMMA JobGoes ==
    ASSUME TaskInv, CancelInv', NEW m \in Message, job[m].pc \in Live,
           NEW pc \in {"admitted", "registered", "call", "stopped", "settling", "failing"},
           Task!JobTo(m, pc),
           UNCHANGED <<task, outbox, claims, recon, actor>>, alive' \subseteq alive,
           pc \in {"admitted", "registered", "call", "stopped"} => ~Task!Working(m)',
           pc = "settling" => outbox[m].state = "settled" \/ task # "working",
           pc = "call" => outbox[m].state = "running" /\ task = "working",
           \A o \in Message \ {m} :
               job[o].pc = "call" /\ token' # "signalled" => token # "signalled"
    PROVE  TaskInv'
<1>1. /\ job[m].claim /\ m \in claims /\ job[m].attempt = outbox[m].attempts
      /\ outbox[m].state # "none" /\ task # "none" /\ Task!TypeOK /\ m \in Task!Key /\ m # "cancel"
      /\ MessageFacts(m)
  BY JobFacts
<1>2. /\ \A k \in Task!Key \ {m} : job'[k] = job[k]
      /\ job'[m].pc = pc /\ job'[m].attempt = job[m].attempt /\ job'[m].claim = job[m].claim
  BY <1>1, JobMoves
<1>3. MessageFacts(m)'
  BY <1>1, <1>2 DEF MessageFacts, Live
<1>4. AliveFacts'
  BY DEF TaskInv, AliveFacts, Task!Unknown
<1>5. /\ \A o \in Message \ {m} : Task!Working(o)' => Task!Working(o)
      /\ Task!Unsettled(m)' => Task!Unsettled(m)
  BY DEF Task!Working, Task!Unsettled
<1> QED
  BY <1>1, <1>2, <1>3, <1>4, <1>5, JobStays

\* A queued job is admitted with what its holder gave it.
LEMMA AdmitStays ==
    ASSUME TaskInv, NEW m \in Message, Task!Admit(m) PROVE TaskInv'
<1>1. /\ job[m].pc = "queued" /\ CancelInv' /\ ~Task!Working(m)
      /\ UNCHANGED <<task, outbox, claims, token, recon, actor, alive>>
  BY AdmitKeeps DEF Task!Admit, TaskInv, MessageFacts, Task!mapper
<1>2. PICK pc \in {"admitted", "settling", "failing"} :
          /\ Task!JobTo(m, pc)
          /\ pc = "settling" => Task!Standing(m) = "over"
  BY DEF Task!Admit, Task!After
<1>3. pc = "settling" => outbox[m].state = "settled" \/ task # "working"
  BY <1>2, KeyFacts DEF Task!Standing, Task!Runnable
<1>4. ~Task!Working(m)'
  BY <1>1 DEF Task!Working
<1> QED
  BY <1>1, <1>2, <1>3, <1>4, JobGoes DEF Live

\* The registration of the token changes no attempt.
LEMMA RegisterStays ==
    ASSUME TaskInv, NEW m \in Message, Task!Register(m) PROVE TaskInv'
<1>1. /\ job[m].pc = "admitted" /\ CancelInv' /\ ~Task!Working(m)
      /\ UNCHANGED <<task, outbox, claims, recon, actor, alive>>
  BY RegisterKeeps DEF Task!Register, TaskInv, MessageFacts, Task!mapper
<1>2. PICK pc \in {"registered", "failing"} : Task!JobTo(m, pc)
  BY DEF Task!Register
<1>3. token' # "signalled" => token # "signalled"
  BY DEF Task!Register
<1>4. ~Task!Working(m)'
  BY <1>1 DEF Task!Working
<1> QED
  BY <1>1, <1>2, <1>3, <1>4, JobGoes DEF Live

\* Who has the permit is the only one that calls.
LEMMA OneCalls ==
    ASSUME TaskInv, NEW m \in Message, job[m].pc \in Permitted, NEW o \in Message \ {m}
    PROVE  job[o].pc # "call"
BY DEF TaskInv, CancelInv, PermitFacts, Permitted

\* A job that has been cancelled in the meantime does not call the host.
LEMMA RecheckStays ==
    ASSUME TaskInv, NEW m \in Message, Task!Recheck(m) PROVE TaskInv'
<1>1. /\ job[m].pc = "registered" /\ CancelInv' /\ ~Task!Working(m)
      /\ UNCHANGED <<task, outbox, claims, recon, actor, alive>>
  BY RecheckKeeps DEF Task!Recheck, TaskInv, MessageFacts, Task!mapper
<1>2. PICK pc \in {"call", "settling", "failing"} :
          /\ Task!JobTo(m, pc)
          /\ pc = "settling" => Task!Standing(m) = "over"
          /\ pc = "call" => Task!Standing(m) = "current"
  BY DEF Task!Recheck, Task!After, Task!Standing
<1>3. /\ pc = "settling" => outbox[m].state = "settled" \/ task # "working"
      /\ pc = "call" => outbox[m].state = "running" /\ task = "working"
  BY <1>2, KeyFacts DEF Task!Standing, Task!Runnable
<1>4. ~Task!Working(m)'
  BY <1>1 DEF Task!Working
<1>5. \A o \in Message \ {m} : job[o].pc # "call"
  BY <1>1, OneCalls DEF Permitted
<1> QED
  BY <1>1, <1>2, <1>3, <1>4, <1>5, JobGoes DEF Live

\* What begins is the attempt on record, and nothing begins after a stop.
LEMMA CallHostStays ==
    ASSUME TaskInv, NEW m \in Message, Task!CallHost(m) PROVE TaskInv'
<1>1. /\ job[m].pc = "call" /\ CancelInv' /\ Task!JobTo(m, "host")
      /\ UNCHANGED <<task, outbox, claims, token, recon, actor>>
      /\ alive' = IF token = "signalled" THEN alive ELSE alive \cup {<<m, job[m].attempt>>}
  BY CallHostKeeps DEF Task!CallHost, TaskInv, Task!mapper
<1>2. /\ job[m].claim /\ m \in claims /\ job[m].attempt = outbox[m].attempts
      /\ outbox[m].state # "none" /\ task # "none" /\ Task!TypeOK /\ m \in Task!Key /\ m # "cancel"
      /\ MessageFacts(m)
  BY <1>1, JobFacts DEF Live
<1>3. /\ \A k \in Task!Key \ {m} : job'[k] = job[k]
      /\ job'[m].pc = "host" /\ job'[m].attempt = job[m].attempt /\ job'[m].claim = job[m].claim
  BY <1>1, <1>2, JobMoves
<1>4. MessageFacts(m)'
  BY <1>1, <1>2, <1>3 DEF MessageFacts, Live
<1>5. token # "signalled" => ~PastQueue /\ outbox[m].state = "running" /\ task = "working"
  BY <1>1, <1>2 DEF MessageFacts, TaskInv, CancelInv, CancelFacts, CallsSignalled
<1>6. AliveFacts'
  <2>1. ASSUME NEW o \in Message, NEW n \in 1..MaxAttempts, <<o, n>> \in alive'
        PROVE  Task!Unknown(outbox'[o]) /\ n = outbox'[o].attempts
    <3>1. CASE <<o, n>> \in alive
      BY <1>1, <3>1 DEF TaskInv, AliveFacts, Task!Unknown
    <3>2. CASE <<o, n>> \notin alive
      <4>1. o = m /\ n = job[m].attempt /\ token # "signalled"
        BY <1>1, <2>1, <3>2
      <4> QED
        BY <1>1, <1>2, <1>5, <4>1 DEF Task!Unknown
    <3> QED
      BY <3>1, <3>2
  <2>2. alive' # {} => task' = "working"
    BY <1>1, <1>5 DEF TaskInv, AliveFacts
  <2> QED
    BY <2>1, <2>2 DEF AliveFacts, Task!Unknown
<1>7. \A o \in Message \ {m} : Task!Working(o)' => Task!Working(o)
  BY <1>1 DEF Task!Working
<1>8. alive' \subseteq alive \/ ~PastQueue
  BY <1>1, <1>5
<1>9. Task!Unsettled(m)' => Task!Unsettled(m)
  BY <1>1 DEF Task!Unsettled
<1> QED
  BY <1>1, <1>2, <1>3, <1>4, <1>6, <1>7, <1>8, <1>9, JobStays

\* The host answers, says that it stopped, or fails: the work is as it was, or over.
LEMMA HostReturnsStays ==
    ASSUME TaskInv, NEW m \in Message, Task!HostReturns(m) PROVE TaskInv'
<1>1. /\ job[m].pc = "host" /\ CancelInv'
      /\ UNCHANGED <<task, outbox, claims, recon, actor>>
  BY HostReturnsKeeps DEF Task!HostReturns, TaskInv, Task!mapper
<1>2. PICK pc \in {"stopped", "settling", "failing"} :
          /\ Task!JobTo(m, pc)
          /\ pc = "settling" => task # "working"
          /\ pc = "stopped" => alive' = alive \ {<<m, job[m].attempt>>}
  BY DEF Task!HostReturns, Task!Terminal
<1>3. alive' \subseteq alive
  BY DEF Task!HostReturns
<1>4. \A o \in Message \ {m} : job[o].pc # "call"
  BY <1>1, OneCalls DEF Permitted
<1>5. pc = "stopped" => ~Task!Working(m)'
  <2>1. job[m].attempt = outbox[m].attempts
    BY <1>1, JobFacts DEF Live
  <2>2. ASSUME pc = "stopped", NEW n \in 1..MaxAttempts, <<m, n>> \in alive' PROVE FALSE
    <3>1. <<m, n>> \in alive /\ n # job[m].attempt
      BY <1>2, <2>2
    <3> QED
      BY <2>1, <3>1 DEF TaskInv, AliveFacts
  <2> QED
    BY <2>2 DEF Task!Working
<1> QED
  BY <1>1, <1>2, <1>3, <1>4, <1>5, JobGoes DEF Live

\* A task whose open dispatch is m has no other work.
LEMMA OneWorks ==
    ASSUME TaskInv, NEW m \in Message, Task!Unsettled(m),
           NEW o \in Message, NEW n \in 1..MaxAttempts, <<o, n>> \in alive
    PROVE  o = m /\ n = outbox[m].attempts
<1>1. Task!Unknown(outbox[o]) /\ n = outbox[o].attempts
  BY DEF TaskInv, AliveFacts
<1>2. Task!Unsettled(o)
  BY <1>1 DEF Task!Unknown, Task!Unsettled
<1> QED
  BY <1>1, <1>2 DEF TaskInv, OneOpen

\* A dispatch that the host reports stopped ends the task, if its attempt is on record.
LEMMA StoppedStays ==
    ASSUME TaskInv, NEW m \in Message, Task!Stopped(m) PROVE TaskInv'
<1>1. /\ job[m].pc = "stopped" /\ CancelInv' /\ ~Task!Working(m)
      /\ UNCHANGED <<claims, token, recon, actor, alive>>
  BY StoppedKeeps DEF Task!Stopped, TaskInv, MessageFacts
<1>2. \A o \in Message \ {m} : job[o].pc # "call"
  BY <1>1, OneCalls DEF Permitted
<1>3. CASE Task!JobTo(m, "failing") /\ UNCHANGED <<task, outbox>>
  BY <1>1, <1>2, <1>3, JobGoes DEF Live
<1>4. CASE Task!Transitions(m, job[m].attempt, "cancelled") /\ Task!JobTo(m, "settling")
  <2>1. /\ job[m].claim /\ m \in claims /\ job[m].attempt = outbox[m].attempts
        /\ outbox[m].state # "none" /\ task # "none" /\ Task!TypeOK /\ m \in Task!Key /\ m # "cancel"
        /\ MessageFacts(m)
    BY <1>1, JobFacts DEF Live
  <2>2. /\ \A k \in Task!Key \ {m} : job'[k] = job[k]
        /\ job'[m].pc = "settling" /\ job'[m].attempt = job[m].attempt
        /\ job'[m].claim = job[m].claim
    BY <1>4, <2>1, JobMoves
  <2>3. /\ task' = "cancelled" /\ task = "working" /\ outbox[m].state = "running"
        /\ \A k \in Task!Key \ {m} : outbox'[k] = outbox[k]
        /\ outbox'[m].state = "settled" /\ outbox'[m].attempts = outbox[m].attempts
    <3>1. /\ task' = "cancelled" /\ Task!Transitionable(m, job[m].attempt)
          /\ \A k \in Task!Key \ {m} : outbox'[k] = outbox[k]
          /\ outbox'[m].state = "settled" /\ outbox'[m].attempts = outbox[m].attempts
      BY <1>4, <2>1, EndMoves
    <3> QED
      BY <3>1 DEF Task!Transitionable
  <2>4. alive = {}
    <3>1. ASSUME NEW w \in alive PROVE FALSE
      <4>1. PICK o \in Message, n \in 1..MaxAttempts : w = <<o, n>>
        BY <2>1 DEF Task!TypeOK
      <4>2. o = m
        BY <2>3, <4>1, OneWorks DEF Task!Unsettled
      <4> QED
        BY <1>1, <4>1, <4>2 DEF Task!Working
    <3> QED
      BY <3>1
  <2>5. AliveFacts'
    BY <1>1, <2>4 DEF AliveFacts
  <2>6. MessageFacts(m)'
    BY <1>1, <2>1, <2>2, <2>3 DEF MessageFacts, Live
  <2>7. /\ \A o \in Message \ {m} : Task!Working(o)' => Task!Working(o)
        /\ Task!Unsettled(m)' => Task!Unsettled(m)
    BY <1>1, <2>3 DEF Task!Working, Task!Unsettled
  <2> QED
    BY <1>1, <1>2, <2>1, <2>2, <2>3, <2>5, <2>6, <2>7, JobStays
<1> QED
  BY <1>3, <1>4 DEF Task!Stopped

\* A dispatch is settled by the job whose work is over.
LEMMA SettleStays ==
    ASSUME TaskInv, NEW m \in Message, Task!Settle(m) PROVE TaskInv'
<1>1. /\ job[m].pc = "settling" /\ Task!JobTo(m, "done")
      /\ UNCHANGED <<task, claims, token, recon, actor, alive>>
  BY DEF Task!Settle
<1>2. /\ job[m].claim /\ m \in claims /\ outbox[m].state # "none" /\ task # "none"
      /\ Task!TypeOK /\ m \in Task!Key /\ m # "cancel" /\ MessageFacts(m)
  BY <1>1, JobFacts DEF Live
<1>3. CancelInv'
  BY <1>2, SettleKeeps DEF TaskInv
<1>4. /\ \A k \in Task!Key \ {m} : job'[k] = job[k]
      /\ job'[m].pc = "done" /\ job'[m].claim = job[m].claim
  BY <1>1, <1>2, JobMoves
<1>5. /\ \A k \in Task!Key \ {m} : outbox'[k] = outbox[k]
      /\ outbox'[m].attempts = outbox[m].attempts
      /\ outbox'[m].state \in {"settled", outbox[m].state}
  BY <1>2 DEF Task!Settle, Task!TypeOK, Task!Record
<1>6. \A n \in 1..MaxAttempts : <<m, n>> \notin alive
  BY <1>1, <1>2 DEF TaskInv, AliveFacts, MessageFacts, Task!Unknown
<1>7. AliveFacts'
  <2>1. ASSUME NEW o \in Message, NEW n \in 1..MaxAttempts, <<o, n>> \in alive'
        PROVE  Task!Unknown(outbox'[o]) /\ n = outbox'[o].attempts
    <3>1. <<o, n>> \in alive /\ outbox'[o] = outbox[o]
      BY <1>1, <1>5, <1>6, <2>1, KeyFacts
    <3> QED
      BY <3>1 DEF TaskInv, AliveFacts
  <2> QED
    BY <1>1, <2>1 DEF TaskInv, AliveFacts, Task!Unknown
<1>8. MessageFacts(m)'
  BY <1>1, <1>2, <1>4, <1>5 DEF MessageFacts, Live
<1>9. /\ \A o \in Message \ {m} : Task!Working(o)' => Task!Working(o)
      /\ (Task!Unsettled(m)' => Task!Unsettled(m)) /\ outbox'[m].state # "none"
  BY <1>1, <1>2, <1>5 DEF Task!Working, Task!Unsettled
<1> QED
  BY <1>1, <1>2, <1>3, <1>4, <1>5, <1>7, <1>8, <1>9, JobStays

\* A job whose outcome is unknown leaves its attempt to be reconciled.
LEMMA FailStays ==
    ASSUME TaskInv, NEW m \in Message, Task!Fail(m) PROVE TaskInv'
<1>1. /\ job[m].pc = "failing"
      /\ outbox' = outbox \/ Task!MarkPending(m)
      /\ UNCHANGED <<task, claims, token, recon, actor, alive>>
  BY DEF Task!Fail
<1>2. /\ job[m].claim /\ m \in claims /\ outbox[m].state # "none" /\ task # "none"
      /\ Task!TypeOK /\ m \in Task!Key /\ m # "cancel" /\ MessageFacts(m)
  BY <1>1, JobFacts DEF Live
<1>3. CancelInv'
  BY <1>2, FailKeeps DEF TaskInv
<1>4. /\ \A k \in Task!Key \ {m} : job'[k] = job[k]
      /\ job'[m].pc = "done" /\ job'[m].claim = job[m].claim
  <2>1. Task!JobTo(m, "done")
    BY <1>2 DEF Task!Fail
  <2> QED
    BY <1>2, <2>1, JobMoves
<1>5. /\ \A k \in Task!Key \ {m} : outbox'[k] = outbox[k]
      /\ outbox'[m].attempts = outbox[m].attempts
      /\ outbox' = outbox \/ (outbox'[m].state = "pending" /\ Task!CanDemote(m))
  BY <1>1, <1>2, MarkMoves
<1>6. /\ outbox'[m].state # "none" /\ (Task!Unsettled(m)' => Task!Unsettled(m))
      /\ Task!Unknown(outbox[m]) => Task!Unknown(outbox'[m])
  BY <1>2, <1>5 DEF Task!Unsettled, Task!CanDemote, Task!Unknown
<1>7. AliveFacts'
  <2>1. ASSUME NEW o \in Message, NEW n \in 1..MaxAttempts, <<o, n>> \in alive'
        PROVE  Task!Unknown(outbox'[o]) /\ n = outbox'[o].attempts
    <3>1. Task!Unknown(outbox[o]) /\ n = outbox[o].attempts
      BY <1>1, <2>1 DEF TaskInv, AliveFacts
    <3>2. CASE o = m
      BY <1>5, <1>6, <3>1, <3>2
    <3>3. CASE o # m
      BY <1>5, <3>1, <3>3, KeyFacts
    <3> QED
      BY <3>2, <3>3
  <2> QED
    BY <1>1, <2>1 DEF TaskInv, AliveFacts, Task!Unknown
<1>8. MessageFacts(m)'
  BY <1>1, <1>2, <1>4, <1>5, <1>6 DEF MessageFacts, Live
<1>9. \A o \in Message \ {m} : Task!Working(o)' => Task!Working(o)
  BY <1>1 DEF Task!Working
<1> QED
  BY <1>1, <1>2, <1>3, <1>4, <1>5, <1>6, <1>7, <1>8, <1>9, JobStays

\* A job that ends gives its claim back, if the commit gave it one.
LEMMA FinishStays ==
    ASSUME TaskInv, NEW m \in Message, Task!FinishJob(m) PROVE TaskInv'
<1>1. /\ job[m].pc = "done" /\ MessageFacts(m) /\ m \in Task!Key /\ m # "cancel" /\ Task!TypeOK
      /\ UNCHANGED <<task, outbox, token, recon, actor, alive>>
  BY KeyFacts DEF Task!FinishJob, TaskInv, CancelInv, Task!mapper
<1>2. CancelInv'
  BY <1>1, FinishKeeps DEF TaskInv
<1>3. /\ \A k \in Task!Key \ {m} : job'[k] = job[k]
      /\ job'[m].pc = "none" /\ ~job'[m].claim
  <2>1. job' = [job EXCEPT ![m] = Task!NoJob]
    BY DEF Task!FinishJob
  <2> QED
    BY <1>1, <2>1 DEF Task!TypeOK, Task!NoJob
<1>4. /\ \A k \in Task!Key \ {m} : k \in claims => k \in claims'
      /\ ~job[m].claim => claims' = claims
  BY DEF Task!FinishJob
<1>5. AliveFacts'
  BY <1>1 DEF TaskInv, AliveFacts
<1>6. MessageFacts(m)'
  BY <1>1, <1>3 DEF MessageFacts, Live
<1>7. outbox[m].state # "none"
  BY <1>1 DEF MessageFacts
<1>8. CASE job[m].claim
  <2>1. /\ \A o \in Message \ {m} : Task!Working(o)' => Task!Working(o)
        /\ (Task!Unsettled(m)' => Task!Unsettled(m)) /\ outbox'[m].state # "none"
    BY <1>1, <1>7 DEF Task!Working, Task!Unsettled
  <2> QED
    BY <1>1, <1>2, <1>3, <1>4, <1>5, <1>6, <1>7, <1>8, <2>1, JobStays
<1>9. CASE ~job[m].claim
  <2>1. job'["cancel"] = job["cancel"] /\ claims' = claims
    BY <1>1, <1>3, <1>4, <1>9, KeyFacts
  <2>2. StopFacts' /\ OneOpen'
    BY <1>1, <2>1 DEF TaskInv, StopFacts, PastQueue, OneOpen, Task!Unsettled
  <2>3. ASSUME NEW o \in Message PROVE MessageFacts(o)'
    <3>1. CASE o = m
      BY <1>6, <3>1
    <3>2. CASE o # m
      BY <1>1, <1>3, <2>1, <3>2, MessageStays, KeyFacts DEF TaskInv
    <3> QED
      BY <3>1, <3>2
  <2>4. ASSUME NEW y \in Sender PROVE SenderFacts(y)'
    <3>1. SenderFacts(y) /\ Sends[y] \in Task!Key
      BY KeyFacts DEF TaskInv
    <3>2. CASE Sends[y] = m
      BY <1>1, <1>3, <2>1, <3>1, <3>2 DEF SenderFacts
    <3>3. CASE Sends[y] # m
      BY <1>1, <1>3, <2>1, <3>1, <3>3 DEF SenderFacts
    <3> QED
      BY <3>2, <3>3
  <2>5. DriverFacts'
    <3> DEFINE k == actor[Driver].key
    <3>1. actor'[Driver] = actor[Driver] /\ k \in Task!Key
      BY <1>1, KeyFacts DEF Task!TypeOK, Task!ActorState
    <3>2. CASE k = m
      BY <1>1, <1>3, <2>1, <3>1, <3>2 DEF TaskInv, DriverFacts, DriverOn, Task!Working
    <3>3. CASE k # m
      BY <1>1, <1>3, <2>1, <3>1, <3>3, DriverStays DEF TaskInv
    <3> QED
      BY <3>2, <3>3
  <2>6. \A c \in Canceller : actor'[c].key = "cancel"
    BY <1>1 DEF TaskInv
  <2> QED
    BY <1>2, <1>5, <2>2, <2>3, <2>4, <2>5, <2>6 DEF TaskInv
<1> QED
  BY <1>8, <1>9

\* A step of the cancellation's job: it may move what is open to
\* reconcile-pending.
LEMMA ControlKeeps ==
    ASSUME TaskInv, CancelInv', UNCHANGED <<task, token, recon, actor>>,
           \A o \in Task!Key \ {"cancel"} :
              /\ job'[o] = job[o] /\ (o \in claims => o \in claims')
              /\ \/ outbox'[o] = outbox[o]
                 \/ /\ PastQueue /\ Task!CanDemote(o)
                    /\ outbox'[o].state = "pending" /\ outbox'[o].attempts = outbox[o].attempts,
           PastQueue => PastQueue', alive' \subseteq alive,
           job'["cancel"].pc = "stopped" => alive' = {}
    PROVE  TaskInv'
<1>1. \A o \in Message :
         /\ job'[o] = job[o] /\ (o \in claims => o \in claims')
         /\ \/ outbox'[o] = outbox[o]
            \/ /\ PastQueue /\ outbox[o].state \in {"queued", "running"}
               /\ outbox'[o].state = "pending" /\ outbox'[o].attempts = outbox[o].attempts
  BY KeyFacts DEF Task!CanDemote
<1>2. \A o \in Message : /\ outbox'[o].attempts = outbox[o].attempts
                         /\ outbox'[o].state = "none" <=> outbox[o].state = "none"
                         /\ Task!Unknown(outbox[o]) => Task!Unknown(outbox'[o])
                         /\ Task!Unsettled(o)' => Task!Unsettled(o)
  BY <1>1 DEF Task!Unknown, Task!Unsettled
<1>3. AliveFacts'
  <2>1. ASSUME NEW o \in Message, NEW n \in 1..MaxAttempts, <<o, n>> \in alive'
        PROVE  Task!Unknown(outbox'[o]) /\ n = outbox'[o].attempts
    BY <1>2, <2>1 DEF TaskInv, AliveFacts
  <2> QED
    BY <2>1 DEF TaskInv, AliveFacts, Task!Unknown
<1>4. StopFacts'
  BY DEF TaskInv, StopFacts
<1>5. OneOpen'
  BY <1>2 DEF TaskInv, OneOpen
<1>6. ASSUME NEW o \in Message PROVE MessageFacts(o)'
  <2>1. MessageFacts(o) /\ (PastQueue => CallsSignalled)
    BY DEF TaskInv, CancelInv, CancelFacts
  <2>2. CASE outbox'[o] = outbox[o]
    BY <1>1, <2>1, <2>2, MessageStays
  <2>3. CASE /\ PastQueue /\ outbox[o].state \in {"queued", "running"}
             /\ outbox'[o].state = "pending" /\ outbox'[o].attempts = outbox[o].attempts
    BY <1>1, <2>1, <2>3 DEF MessageFacts, CallsSignalled, Task!Working
  <2> QED
    BY <1>1, <2>2, <2>3
<1>7. ASSUME NEW y \in Sender PROVE SenderFacts(y)'
  BY <1>1, <1>2, SenderStays, KeyFacts DEF TaskInv
<1>8. DriverFacts'
  <2>1. actor[Driver].key # "cancel" => actor[Driver].key \in Message
    BY CancelTypes, KeyFacts DEF TaskInv
  <2> QED
    BY <1>1, <1>2, <2>1, DriverStays DEF TaskInv
<1>9. \A c \in Canceller : actor'[c].key = "cancel"
  BY DEF TaskInv
<1> QED
  BY <1>3, <1>4, <1>5, <1>6, <1>7, <1>8, <1>9 DEF TaskInv

\* The host says that it stopped when nothing is left.
LEMMA ControlStays ==
    ASSUME TaskInv, Task!CallCancel \/ Task!CancelReturns \/ Task!CancelStopped
                    \/ Task!FailDispatches
    PROVE  TaskInv'
<1>1. CancelInv' /\ Task!TypeOK /\ "cancel" \in Task!Key /\ CancelFacts
  BY CancelJobKeeps, KeyFacts DEF TaskInv, CancelInv
<1>2. PICK pc \in {"host", "stopped", "settling", "failing", "done"} :
          /\ Task!JobTo("cancel", pc)
          /\ pc = "stopped" => Task!CancelReturns /\ alive' = {}
  <2>1. CASE Task!CallCancel
    BY <2>1 DEF Task!CallCancel, Task!After
  <2>2. CASE Task!CancelReturns
    BY <2>2 DEF Task!CancelReturns
  <2>3. CASE Task!CancelStopped
    BY <2>3 DEF Task!CancelStopped
  <2>4. CASE Task!FailDispatches
    BY <2>4 DEF Task!FailDispatches
  <2> QED
    BY <2>1, <2>2, <2>3, <2>4
<1>3. /\ \A o \in Task!Key \ {"cancel"} : job'[o] = job[o]
      /\ job'["cancel"].pc = pc
  BY <1>1, <1>2, JobMoves
<1>4. UNCHANGED <<ready, claims, token, recon, actor>> /\ alive' \subseteq alive
  BY DEF Task!CallCancel, Task!CancelReturns, Task!CancelStopped, Task!FailDispatches, Task!mapper
<1>5. PastQueue
  BY <1>1 DEF CancelFacts, Task!CallCancel, Task!CancelReturns, Task!CancelStopped,
              Task!FailDispatches
<1>6. CASE Task!CancelStopped /\ Task!Acknowledges(job["cancel"].attempt)
  <2>1. alive = {} /\ alive' = alive
    BY <1>6 DEF Task!CancelStopped, TaskInv, StopFacts
  <2> QED
    BY <1>1, <1>3, <1>4, <1>6, <2>1, EndKeeps
<1>7. CASE UNCHANGED <<task, outbox>>
  <2>1. PastQueue => PastQueue'
    BY <1>7 DEF PastQueue
  <2> QED
    BY <1>1, <1>2, <1>3, <1>4, <1>7, <2>1, ControlKeeps
<1>8. CASE Task!FailDispatches /\ ~UNCHANGED outbox
  <2>1. outbox' = [k \in Task!Key |-> IF k # "cancel" /\ Task!CanDemote(k)
                                      THEN [outbox[k] EXCEPT !.state = "pending"] ELSE outbox[k]]
    BY <1>8 DEF Task!FailDispatches
  <2>2. \A o \in Task!Key \ {"cancel"} :
           \/ outbox'[o] = outbox[o]
           \/ /\ Task!CanDemote(o)
              /\ outbox'[o].state = "pending" /\ outbox'[o].attempts = outbox[o].attempts
    BY <1>1, <2>1 DEF Task!TypeOK, Task!Record
  <2>3. PastQueue'
    BY <1>1, <1>5, <2>1 DEF PastQueue
  <2>4. task' = task
    BY <1>8 DEF Task!FailDispatches
  <2> QED
    BY <1>1, <1>2, <1>3, <1>4, <1>5, <2>2, <2>3, <2>4, ControlKeeps
<1> QED
  BY <1>6, <1>7, <1>8
     DEF Task!CallCancel, Task!CancelReturns, Task!CancelStopped, Task!FailDispatches, Task!mapper

\* The ends of the cancellation's job leave the messages alone.
LEMMA ControlEndStays ==
    ASSUME TaskInv, Task!Settle("cancel") \/ Task!Fail("cancel") \/ Task!FinishJob("cancel")
    PROVE  TaskInv'
<1>1. CancelInv' /\ Task!TypeOK /\ "cancel" \in Task!Key
  BY SettleKeeps, FailKeeps, FinishKeeps, KeyFacts DEF TaskInv, CancelInv
<1>2. UNCHANGED <<task, token, recon, actor, alive>>
  BY DEF Task!Settle, Task!Fail, Task!FinishJob, Task!mapper
<1>3. /\ \A o \in Task!Key \ {"cancel"} : job'[o] = job[o] /\ (o \in claims => o \in claims')
      /\ job'["cancel"].pc # "stopped"
  <2>1. CASE Task!FinishJob("cancel")
    BY <1>1, <2>1 DEF Task!FinishJob, Task!TypeOK, Task!NoJob
  <2>2. CASE Task!Settle("cancel") \/ Task!Fail("cancel")
    <3>1. PICK pc \in {"done", "failing2"} : Task!JobTo("cancel", pc)
      BY <2>2 DEF Task!Settle, Task!Fail
    <3>2. claims' = claims
      BY <2>2 DEF Task!Settle, Task!Fail
    <3> QED
      BY <1>1, <3>1, <3>2, JobMoves
  <2> QED
    BY <2>1, <2>2
<1>4. /\ \A o \in Task!Key \ {"cancel"} : outbox'[o] = outbox[o]
      /\ PastQueue => PastQueue'
  <2>1. CASE outbox' = outbox
    BY <2>1 DEF PastQueue
  <2>2. CASE Task!MarkPending("cancel")
    BY <1>1, <2>2, MarkMoves DEF PastQueue
  <2>3. CASE outbox' = [outbox EXCEPT !["cancel"].state = "settled"]
    BY <1>1, <2>3 DEF Task!TypeOK, Task!Record, PastQueue
  <2> QED
    BY <2>1, <2>2, <2>3 DEF Task!Settle, Task!Fail, Task!FinishJob, Task!mapper
<1> QED
  BY <1>1, <1>2, <1>3, <1>4, ControlKeeps

-----------------------------------------------------------------------------
(* The work itself, and what no actor of the task does. *)

\* A step of the host's work, of an event or of the task that leaves actors and
\* jobs where they are.
LEMMA WorldKeeps ==
    ASSUME TaskInv, CancelInv', UNCHANGED <<claims, job, token, recon, actor>>,
           alive' \subseteq alive, AliveFacts', outbox'["cancel"] = outbox["cancel"],
           \A o \in Message : /\ outbox'[o].attempts = outbox[o].attempts
                              /\ outbox'[o].state = "none" <=> outbox[o].state = "none"
                              /\ Task!Unsettled(o)' => Task!Unsettled(o)
                              /\ MessageFacts(o)'
    PROVE  TaskInv'
<1>1. StopFacts' /\ OneOpen'
  BY DEF TaskInv, StopFacts, PastQueue, OneOpen
<1>2. ASSUME NEW y \in Sender PROVE SenderFacts(y)'
  BY SenderStays, KeyFacts DEF TaskInv
<1>3. DriverFacts'
  <2>1. actor[Driver].key # "cancel" => actor[Driver].key \in Message
    BY CancelTypes, KeyFacts DEF TaskInv
  <2> QED
    BY <2>1, DriverStays DEF TaskInv
<1>4. \A c \in Canceller : actor'[c].key = "cancel"
  BY DEF TaskInv
<1> QED
  BY <1>1, <1>2, <1>3, <1>4 DEF TaskInv

\* The work that reports was the last.
LEMMA WorkStays ==
    ASSUME TaskInv, NEW m \in Message, NEW n \in 1..MaxAttempts,
           Task!WorkReports(m, n) \/ Task!WorkEnds(m, n)
    PROVE  TaskInv'
<1>1. /\ CancelInv' /\ Task!TypeOK /\ <<m, n>> \in alive /\ alive' = alive \ {<<m, n>>}
      /\ UNCHANGED <<claims, job, token, recon, actor>>
      /\ m \in Task!Key /\ m # "cancel" /\ "cancel" \in Task!Key
  BY WorkKeeps, KeyFacts DEF TaskInv, CancelInv, Task!WorkReports, Task!WorkEnds, Task!mapper
<1>2. CASE UNCHANGED <<task, outbox>>
  <2>1. AliveFacts'
    BY <1>1, <1>2 DEF TaskInv, AliveFacts
  <2>2. \A o \in Message : MessageFacts(o)' /\ (Task!Unsettled(o)' => Task!Unsettled(o))
    BY <1>1, <1>2, MessageStays DEF TaskInv, Task!Unsettled
  <2> QED
    BY <1>1, <1>2, <2>1, <2>2, WorldKeeps
<1>3. CASE \E next \in {"completed", "input", "failed"} : Task!Transitions(m, n, next)
  <2>1. /\ task' \in {"completed", "input", "failed"} /\ outbox[m].state = "running"
        /\ \A k \in Task!Key \ {m} : outbox'[k] = outbox[k]
        /\ outbox'[m].state = "settled" /\ outbox'[m].attempts = outbox[m].attempts
    <3>1. PICK next \in {"completed", "input", "failed"} : Task!Transitions(m, n, next)
      BY <1>3
    <3>2. /\ task' = next /\ Task!Transitionable(m, n)
          /\ \A k \in Task!Key \ {m} : outbox'[k] = outbox[k]
          /\ outbox'[m].state = "settled" /\ outbox'[m].attempts = outbox[m].attempts
      BY <1>1, <3>1, EndMoves
    <3> QED
      BY <3>2 DEF Task!Transitionable
  <2>2. alive' = {}
    <3>1. ASSUME NEW w \in alive' PROVE FALSE
      <4>1. PICK o \in Message, k \in 1..MaxAttempts : w = <<o, k>>
        BY <1>1, <3>1 DEF Task!TypeOK
      <4>2. o = m /\ k = outbox[m].attempts /\ n = outbox[m].attempts
        BY <1>1, <2>1, <3>1, <4>1, OneWorks DEF Task!Unsettled
      <4> QED
        BY <1>1, <3>1, <4>1, <4>2
    <3> QED
      BY <3>1
  <2>3. AliveFacts'
    BY <2>2 DEF AliveFacts
  <2>4. ASSUME NEW o \in Message
        PROVE  /\ outbox'[o].attempts = outbox[o].attempts
               /\ outbox'[o].state = "none" <=> outbox[o].state = "none"
               /\ Task!Unsettled(o)' => Task!Unsettled(o)
    <3>1. CASE o = m
      BY <2>1, <3>1 DEF Task!Unsettled
    <3>2. CASE o # m
      BY <2>1, <3>2, KeyFacts DEF Task!Unsettled
    <3> QED
      BY <3>1, <3>2
  <2>5. ASSUME NEW o \in Message PROVE job[o].pc = "call" => token = "signalled"
    <3>1. MessageFacts(o) /\ Task!Working(m) /\ Task!Unsettled(m)
      BY <1>1, <2>1 DEF TaskInv, Task!Working, Task!Unsettled
    <3>2. outbox[o].state = "running" => o = m
      BY <3>1 DEF TaskInv, OneOpen, Task!Unsettled
    <3> QED
      BY <3>1, <3>2 DEF MessageFacts
  <2>6. ASSUME NEW o \in Message PROVE MessageFacts(o)'
    <3>1. MessageFacts(o) /\ ~Task!Working(o)'
      BY <2>2 DEF TaskInv, Task!Working
    <3>2. outbox'[o].state = outbox[o].state \/ outbox'[o].state = "settled"
      BY <2>1, KeyFacts
    <3> QED
      BY <1>1, <2>1, <2>4, <2>5, <3>1, <3>2 DEF MessageFacts
  <2> QED
    BY <1>1, <2>1, <2>3, <2>4, <2>6, WorldKeeps
<1> QED
  BY <1>2, <1>3 DEF Task!WorkReports, Task!WorkEnds, Task!mapper

\* A task that moves on without a dispatch and a delivered event touch no attempt.
LEMMA RestStays ==
    ASSUME TaskInv, Task!TransitionTask \/ (\E m \in Message : Task!RecoverEvent(m))
                    \/ UNCHANGED Task!vars
    PROVE  TaskInv'
<1>1. CancelInv'
  BY RestKeeps DEF TaskInv
<1>2. /\ UNCHANGED <<outbox, claims, job, token, recon, actor, alive>>
      /\ task' = task \/ (task = "input" /\ task' = "failed")
  BY DEF Task!TransitionTask, Task!RecoverEvent, Task!vars
<1>3. AliveFacts'
  BY <1>2 DEF TaskInv, AliveFacts
<1>4. ASSUME NEW o \in Message PROVE MessageFacts(o)' /\ (Task!Unsettled(o)' => Task!Unsettled(o))
  BY <1>2 DEF TaskInv, MessageFacts, Task!Working, Task!Unsettled
<1> QED
  BY <1>1, <1>2, <1>3, <1>4, WorldKeeps

\* No message is held and no attempt is on record at the start.
LEMMA TaskInvStarts == Task!Init => TaskInv
<1> SUFFICES ASSUME Task!Init PROVE TaskInv
  OBVIOUS
<1>1. CancelInv
  BY CancelInvStarts
<1>2. /\ task = "none" /\ alive = {} /\ recon.answer = "none"
      /\ \A k \in Task!Key : /\ outbox[k].state = "none" /\ outbox[k].attempts = 0
                             /\ job[k].pc = "none" /\ job[k].claim = FALSE
      /\ \A x \in Task!Actor : actor[x].pc = "idle" /\ actor[x].key = "cancel"
  BY DEF Task!Init, Task!NoRecord, Task!NoJob, Task!AtRest, Task!NoAnswer
<1>3. AliveFacts /\ StopFacts
  BY <1>2, KeyFacts DEF AliveFacts, StopFacts
<1>4. OneOpen /\ \A m \in Message : MessageFacts(m)
  BY <1>2, KeyFacts DEF OneOpen, Task!Unsettled, MessageFacts, Live
<1>5. \A x \in Sender : SenderFacts(x)
  BY <1>2, KeyFacts DEF SenderFacts
<1>6. DriverFacts /\ \A x \in Canceller : actor[x].key = "cancel"
  BY <1>2, KeyFacts DEF DriverFacts
<1> QED
  BY <1>1, <1>3, <1>4, <1>5, <1>6 DEF TaskInv

\* Every step keeps the invariant: one lemma above for each action.
LEMMA TaskInvHolds ==
    ASSUME OneSenderEach PROVE TaskInv /\ [Task!Next]_(Task!vars) => TaskInv'
<1> SUFFICES ASSUME TaskInv, [Task!Next]_(Task!vars) PROVE TaskInv'
  OBVIOUS
<1>1. ASSUME NEW x \in Task!Actor, Task!ActorStep(x) PROVE TaskInv'
  BY <1>1, FlushStays, ReadStays, ReserveStays, ReconcileStays, DemoteStays, RunStays,
     SignalStays, ReserveCancelStays, AskStays, AnswerStays, AcknowledgeStays,
     DemoteCancelStays, RunCancelStays, SendCancelStays DEF Task!ActorStep
<1>2. ASSUME NEW x \in Task!Actor,
             Task!Send(x) \/ Task!RequestCancel(x) \/ Task!Abort(x) PROVE TaskInv'
  BY <1>2, SendStays, RequestCancelStays, AbortStays
<1>3. ASSUME Task!DriverStep PROVE TaskInv'
  BY <1>3, ScansStay, RecoverCancellationStays, RecoverDispatchStays DEF Task!DriverStep
<1>4. ASSUME NEW k \in Task!Key, Task!JobStep(k) PROVE TaskInv'
  <2>1. CASE k = "cancel" /\ (Task!CallCancel \/ Task!CancelReturns \/ Task!CancelStopped
                              \/ Task!FailDispatches)
    BY <2>1, ControlStays
  <2>2. CASE /\ k # "cancel"
             /\ \/ Task!Admit(k) \/ Task!Register(k) \/ Task!Recheck(k)
                \/ Task!CallHost(k) \/ Task!HostReturns(k) \/ Task!Stopped(k)
    BY <2>2, KeyFacts, AdmitStays, RegisterStays, RecheckStays, CallHostStays,
       HostReturnsStays, StoppedStays
  <2>3. CASE Task!Settle(k) \/ Task!Fail(k) \/ Task!FinishJob(k)
    BY <2>3, KeyFacts, SettleStays, FailStays, FinishStays, ControlEndStays
  <2> QED
    BY <1>4, <2>1, <2>2, <2>3 DEF Task!JobStep
<1>5. ASSUME Task!TransitionTask \/ (\E m \in Message : Task!RecoverEvent(m))
             \/ UNCHANGED Task!vars PROVE TaskInv'
  BY <1>5, RestStays
<1>6. ASSUME NEW m \in Message, NEW n \in 1..MaxAttempts,
             Task!WorkReports(m, n) \/ Task!WorkEnds(m, n) PROVE TaskInv'
  BY <1>6, WorkStays
<1>7. ASSUME Task!Crash PROVE TaskInv'
  BY <1>7, CrashStays
<1> QED
  BY <1>1, <1>2, <1>3, <1>4, <1>5, <1>6, <1>7, KeyFacts DEF Task!Next

\* With the attempt on record, who holds it and what the host has attested.
LEMMA TaskHolders == ASSUME OneSenderEach PROVE A2aSpec => []TaskInv
<1>1. Task!Init => TaskInv
  BY TaskInvStarts
<1>2. TaskInv /\ [Task!Next]_(Task!vars) => TaskInv'
  BY TaskInvHolds
<1> QED
  BY <1>1, <1>2, TaskIsPart, PTL DEF Task!Spec

\* The sizes that the task's module speaks of.
LEMMA SameCardinality == \A S : Task!Cardinality(S) = Cardinality(S)
BY DEF Cardinality, Task!Cardinality

\* What the host works on is one attempt of one message.
LEMMA OneWork == ASSUME TaskInv PROVE OneAttemptAlive
<1>1. ASSUME NEW w \in alive, NEW v \in alive PROVE w = v
  <2>1. PICK m \in Message, n \in 1..MaxAttempts : w = <<m, n>>
    BY DEF TaskInv, CancelInv, Task!TypeOK
  <2>2. PICK o \in Message, k \in 1..MaxAttempts : v = <<o, k>>
    BY DEF TaskInv, CancelInv, Task!TypeOK
  <2>3. Task!Unsettled(m) /\ n = outbox[m].attempts
    BY <2>1 DEF TaskInv, AliveFacts, Task!Unknown, Task!Unsettled
  <2>4. o = m /\ k = outbox[m].attempts
    BY <2>2, <2>3, OneWorks
  <2> QED
    BY <2>1, <2>2, <2>3, <2>4
<1>2. CASE alive = {}
  BY <1>2, SameCardinality, FS_EmptySet DEF OneAttemptAlive, Task!OneAttemptAlive
<1>3. CASE alive # {}
  <2>1. PICK w : alive = {w}
    BY <1>1, <1>3
  <2> QED
    BY <2>1, SameCardinality, FS_Singleton DEF OneAttemptAlive, Task!OneAttemptAlive
<1> QED
  BY <1>2, <1>3

\* When each message is sent by one request, at most one attempt of the task's
\* work is with the host at any time, over retries, recovery, calls that are
\* dropped after their timeout, and restarts (recover_one_pending_dispatch,
\* reconcile_unknown_dispatch, mark_dispatch_running_with_commit).
THEOREM OneAttemptAtATime == ASSUME OneSenderEach PROVE A2aSpec => []OneAttemptAlive
<1>1. TaskInv => OneAttemptAlive
  BY OneWork
<1> QED
  BY <1>1, TaskHolders, PTL

\* When each message is sent by one request, a task that is reported cancelled
\* has no work left with the host (acknowledge_cancellation_fence,
\* apply_dispatch_ack, reconcile_unknown_cancellation).
THEOREM CancelledTaskIsStopped == ASSUME OneSenderEach PROVE A2aSpec => []CancelledIsStopped
<1>1. TaskInv => CancelledIsStopped
  BY DEF TaskInv, AliveFacts, CancelledIsStopped, Task!CancelledIsStopped
<1> QED
  BY <1>1, TaskHolders, PTL

-----------------------------------------------------------------------------
(* The events of a task: what is in the store, who delivers what, and what *)
(* the streams have shown.                                                 *)

\* The artifacts of a completion are a finite list.
ArtifactsAreFinite == IsFiniteSet(Artifact)

\* The event e is in the log l.
Has(l, e) == \E k \in 1..Len(l) : l[k] = e

\* A log has no event twice and none after the terminal one.
LogFits(l) ==
    /\ l \in Seq(Events!Event)
    /\ \A j, k \in 1..Len(l) : l[j] = l[k] => j = k
    /\ \A k \in 1..Len(l) : l[k] = "final" => k = Len(l)

\* What is settled is in the log, what was broadcast is settled, and the events
\* of a completion come to be together.
IntentFits(i, l, n) ==
    /\ i \in [Events!Event -> Events!IntentState]
    /\ n \in [Events!Event -> 0..1]
    /\ \A e \in Events!Event : i[e] = "settled" => Has(l, e)
    /\ \A e \in Events!Event : n[e] = 1 => i[e] = "settled"
    /\ i["final"] = "none" => \A e \in Events!Event : e # "accepted" => i[e] = "none"
    /\ i["final"] = "none" => ~Has(l, "final")

\* Who delivers an event knows it to be stored from its append on, and broadcasts
\* it only after having settled it.
DeliveryFits(v, i, l, n) ==
    /\ \A e \in v.todo : i[e] # "none"
    /\ v.pc \in {"append", "settle"} => i[v.event] # "none"
    /\ v.pc \in {"settle", "broadcast"} => Has(l, v.event)
    /\ v.pc = "broadcast" => i[v.event] = "settled" /\ n[v.event] = 0

\* A stream as its type has it, but for the bound of the ids.
Watcher == [pc: {"idle", "joined", "listing", "flushing", "baseline", "open", "done", "closed"},
            resumes: BOOLEAN, last: Nat, shown: SUBSET Nat, queue: Seq(Nat),
            lagged: BOOLEAN]

\* A stream has shown what lies between the first it showed and the last it saw.
StreamFits(v, l) ==
    /\ v.last <= Len(l)
    /\ \A k \in 1..Len(v.queue) : v.queue[k] \in 1..Len(l)
    /\ v.shown # {} => \E i \in v.shown : v.shown = i..v.last
    /\ v.pc \in {"idle", "joined", "listing", "flushing", "baseline"} => v.shown = {}
    /\ v.pc \in {"listing", "flushing", "baseline", "open"} /\ Has(l, "final") => v.last < Len(l)
    /\ v.pc = "done" => Has(l, "final") /\ v.last = Len(l) /\ v.shown # {}

EventsInv ==
    /\ LogFits(log)
    /\ IntentFits(intent, log, sent)
    /\ delivery \in [Events!Deliverer -> Events!DeliveryState]
    /\ \A x \in Events!Deliverer : DeliveryFits(delivery[x], intent, log, sent)
    /\ \A x, y \in Events!Deliverer :
          delivery[x].pc = "broadcast" /\ delivery[y].pc = "broadcast"
          /\ delivery[x].event = delivery[y].event => x = y
    /\ stream \in [Stream -> Watcher]
    /\ \A s \in Stream : StreamFits(stream[s], log)
    /\ \A s \in Stream : delivery[s].pc # "idle" => stream[s].pc = "flushing"

\* The constants of the events.
LEMMA EventFacts ==
    /\ {"accepted", "final"} \subseteq Events!Event /\ Artifact \subseteq Events!Event
    /\ Events!Event \subseteq Events!Deliverer /\ Flusher \subseteq Events!Deliverer
    /\ Stream \subseteq Events!Deliverer
    /\ Stream \cap Flusher = {} /\ Stream \cap Events!Event = {}
    /\ Events!Deliverer = Flusher \cup Stream \cup Events!Event
    /\ MaxEvents \in Nat /\ LiveCapacity \in Nat /\ LiveCapacity > 0
BY EventConstants DEF Events!ConstantsFit, Events!Event, Events!Deliverer

\* A member of the log is what Appended says.
LEMMA HasAppended == ASSUME NEW e PROVE e \in Events!Appended <=> Has(log, e)
BY DEF Events!Appended, Has

\* The id of an event is where it is in the log.
LEMMA IdFacts ==
    ASSUME NEW e, Has(log, e)
    PROVE  Events!IdOf(e) \in 1..Len(log) /\ log[Events!IdOf(e)] = e
BY DEF Events!IdOf, Has

\* How many ids a log has.
LEMMA IdsCount == ASSUME NEW n \in Nat PROVE IsFiniteSet(1..n) /\ Cardinality(1..n) = n
<1>1. 1 \in Int /\ n \in Int
  OBVIOUS
<1>2. IsFiniteSet(1..n) /\ Cardinality(1..n) = IF 1 > n THEN 0 ELSE n - 1 + 1
  BY <1>1, FS_Interval
<1>3. (IF 1 > n THEN 0 ELSE n - 1 + 1) = n
  OBVIOUS
<1> QED
  BY <1>2, <1>3

\* A log is no longer than there are events.
LEMMA LogIsShort ==
    ASSUME ArtifactsAreFinite, LogFits(log)
    PROVE  Len(log) \in Nat /\ Cardinality(Events!Event) \in Nat
           /\ Len(log) <= Cardinality(Events!Event)
<1>1. IsFiniteSet(Events!Event)
  <2>1. IsFiniteSet({"accepted"}) /\ IsFiniteSet({"final"})
    BY FS_Singleton
  <2>2. IsFiniteSet({"accepted"} \cup {"final"})
    BY <2>1, FS_Union
  <2>3. IsFiniteSet(({"accepted"} \cup {"final"}) \cup Artifact)
    BY <2>2, FS_Union DEF ArtifactsAreFinite
  <2>4. Events!Event = ({"accepted"} \cup {"final"}) \cup Artifact
    BY DEF Events!Event
  <2> QED
    BY <2>3, <2>4
<1>2. Len(log) \in Nat /\ log \in [1..Len(log) -> Events!Event]
  BY DEF LogFits
<1>3. log \in Injection(1..Len(log), Events!Event)
  <2>1. DOMAIN log = 1..Len(log)
    BY <1>2
  <2>2. IsInjective(log)
    BY <2>1, Zenon DEF LogFits, IsInjective
  <2> QED
    BY <1>2, <2>2 DEF Injection
<1>4. Cardinality(1..Len(log)) <= Cardinality(Events!Event)
  BY <1>1, <1>3, FS_Injection
<1>5. Cardinality(1..Len(log)) = Len(log)
  BY <1>2, IdsCount
<1> QED
  BY <1>1, <1>2, <1>4, <1>5, FS_CardinalityType

\* The members of a log are as many as it is long.
LEMMA LogIsASet == ASSUME LogFits(log) PROVE Cardinality(Events!Appended) = Len(log)
<1>1. Len(log) \in Nat /\ log \in [1..Len(log) -> Events!Event]
  BY DEF LogFits
<1>2. log \in [1..Len(log) -> Events!Appended]
  BY <1>1 DEF Events!Appended
<1>3. log \in Surjection(1..Len(log), Events!Appended)
  BY <1>2 DEF Events!Appended, Surjection
<1>4. log \in Injection(1..Len(log), Events!Appended)
  <2>1. DOMAIN log = 1..Len(log)
    BY <1>2
  <2>2. IsInjective(log)
    BY <2>1, Zenon DEF LogFits, IsInjective
  <2> QED
    BY <1>2, <2>2 DEF Injection
<1>5. IsFiniteSet(1..Len(log)) /\ Cardinality(1..Len(log)) = Len(log)
  BY <1>1, IdsCount
<1> QED
  BY <1>3, <1>4, <1>5, FS_Surjection

\* The sizes that the events' module speaks of.
LEMMA SameSizeOfEvents == \A S : Events!Cardinality(S) = Cardinality(S)
BY DEF Cardinality, Events!Cardinality

\* The terminal frame is the last of its log, or its id is out of reach.
LEMMA FinalIsLast ==
    ASSUME ArtifactsAreFinite, LogFits(log)
    PROVE  /\ Has(log, "final") => Events!FinalId = Len(log)
           /\ ~Has(log, "final") => Events!FinalId \in Nat /\ Events!FinalId > Len(log)
<1>1. CASE Has(log, "final")
  <2>1. Events!FinalId = Events!IdOf("final")
    BY <1>1, HasAppended DEF Events!FinalId
  <2> QED
    BY <1>1, <2>1, IdFacts DEF LogFits
<1>2. CASE ~Has(log, "final")
  BY <1>2, HasAppended, LogIsShort, SameSizeOfEvents DEF Events!FinalId
<1> QED
  BY <1>1, <1>2

\* What an append makes of the log.
LEMMA LogGrows ==
    ASSUME LogFits(log), NEW e \in Events!Event, ~Has(log, e), ~Has(log, "final")
    PROVE  /\ LogFits(Append(log, e)) /\ Len(Append(log, e)) = Len(log) + 1
           /\ Len(log) \in Nat
           /\ \A x : Has(Append(log, e), x) <=> Has(log, x) \/ x = e
<1>1. /\ log \in Seq(Events!Event) /\ Len(log) \in Nat
      /\ Append(log, e) \in Seq(Events!Event)
      /\ Len(Append(log, e)) = Len(log) + 1
      /\ \A k \in 1..Len(log) : Append(log, e)[k] = log[k]
      /\ Append(log, e)[Len(log) + 1] = e
  BY DEF LogFits
<1> DEFINE l == Append(log, e)
<1>2. \A k \in 1..Len(l) : k \in 1..Len(log) \/ k = Len(log) + 1
  BY <1>1
<1> HIDE DEF l
<1>3. \A j, k \in 1..Len(l) : l[j] = l[k] => j = k
  BY <1>1, <1>2 DEF LogFits, Has, l
<1>4. \A k \in 1..Len(l) : l[k] = "final" => k = Len(l)
  BY <1>1, <1>2 DEF LogFits, Has, l
<1>5. \A x : Has(l, x) <=> Has(log, x) \/ x = e
  BY <1>1, <1>2 DEF Has, l
<1> QED
  BY <1>1, <1>3, <1>4, <1>5 DEF LogFits, l

\* What a stream has shown of a log is a part of the longer one.
LEMMA StreamOutlives ==
    ASSUME LogFits(log), NEW e \in Events!Event, ~Has(log, e), ~Has(log, "final"),
           NEW v \in Watcher, StreamFits(v, log)
    PROVE  StreamFits(v, Append(log, e))
<1>1. /\ Len(Append(log, e)) = Len(log) + 1 /\ Len(log) \in Nat
      /\ \A x : Has(Append(log, e), x) <=> Has(log, x) \/ x = e
  BY LogGrows
<1>2. v.last \in Nat
  BY DEF Watcher
<1>3. v.last <= Len(log) + 1 /\ v.last < Len(log) + 1
  BY <1>1, <1>2 DEF StreamFits
<1>4. 1..Len(log) \subseteq 1..(Len(log) + 1)
  BY <1>1
<1> QED
  BY <1>1, <1>3, <1>4 DEF StreamFits

-----------------------------------------------------------------------------
(* What the steps of a delivery change. *)

\* A delivery goes on, or is over; the log stays.
LEMMA DeliveryKeeps ==
    ASSUME EventsInv, UNCHANGED <<log, sent>>,
           IntentFits(intent', log, sent),
           \A w \in Events!DeliveryState :
               DeliveryFits(w, intent, log, sent) => DeliveryFits(w, intent', log, sent),
           NEW x \in Events!Deliverer, NEW v \in Events!DeliveryState,
           delivery' = [delivery EXCEPT ![x] = v],
           DeliveryFits(v, intent', log, sent),
           v.pc = "broadcast" =>
               \A y \in Events!Deliverer \ {x} :
                   delivery[y].pc = "broadcast" => delivery[y].event # v.event,
           stream' \in [Stream -> Watcher],
           \A s \in Stream : StreamFits(stream'[s], log),
           \A s \in Stream : stream'[s] = stream[s] \/ (s = x /\ v.pc = "idle"),
           x \in Stream /\ v.pc # "idle" => stream'[x].pc = "flushing"
    PROVE  EventsInv'
<1>1. /\ delivery \in [Events!Deliverer -> Events!DeliveryState]
      /\ delivery' \in [Events!Deliverer -> Events!DeliveryState]
      /\ \A y \in Events!Deliverer : delivery'[y] = IF y = x THEN v ELSE delivery[y]
  BY DEF EventsInv
<1>2. \A y \in Events!Deliverer : DeliveryFits(delivery'[y], intent', log, sent)
  BY <1>1 DEF EventsInv
<1>3. \A y, z \in Events!Deliverer :
          delivery'[y].pc = "broadcast" /\ delivery'[z].pc = "broadcast"
          /\ delivery'[y].event = delivery'[z].event => y = z
  BY <1>1 DEF EventsInv
<1>4. \A s \in Stream : delivery'[s].pc # "idle" => stream'[s].pc = "flushing"
  BY <1>1, EventFacts DEF EventsInv
<1> QED
  BY <1>1, <1>2, <1>3, <1>4 DEF EventsInv

\* A stream that has not begun.
LEMMA NoStreamFits ==
    /\ Events!NoStream \in Watcher /\ Events!NoStream.pc = "idle"
    /\ Events!NoStream.shown = {}
    /\ Events!NoStream.last = 0 /\ Events!NoStream.queue = <<>>
BY DEF Events!NoStream, Watcher

\* A stream that is closed promises nothing more.
LEMMA ClosedFits ==
    ASSUME LogFits(log) PROVE Events!Closed \in Watcher /\ StreamFits(Events!Closed, log)
<1> DEFINE v == Events!Closed
<1>1. /\ v \in Watcher /\ v.pc = "closed" /\ v.shown = {} /\ v.last = 0 /\ v.queue = <<>>
  BY NoStreamFits DEF Events!Closed, Watcher
<1>2. Len(log) \in Nat
  BY DEF LogFits
<1> HIDE DEF v
<1>3. Len(v.queue) = 0
  BY <1>1
<1>4. StreamFits(v, log)
  BY <1>1, <1>2, <1>3 DEF StreamFits
<1> QED
  BY <1>1, <1>4 DEF v

\* Where a flush leaves the stream that began it.
LEMMA EndsFits ==
    ASSUME EventsInv, NEW x \in Events!Deliverer, NEW failed \in BOOLEAN,
           Events!Ends(x, failed),
           delivery[x].pc # "idle"
    PROVE  /\ delivery' = [delivery EXCEPT ![x] = Events!NoDelivery]
           /\ Events!NoDelivery \in Events!DeliveryState
           /\ Events!NoDelivery.pc = "idle" /\ Events!NoDelivery.todo = {}
           /\ stream' \in [Stream -> Watcher]
           /\ \A s \in Stream : StreamFits(stream'[s], log)
           /\ \A s \in Stream : stream'[s] = stream[s] \/ s = x
<1>1. Events!NoDelivery \in Events!DeliveryState /\ Events!NoDelivery.pc = "idle"
      /\ Events!NoDelivery.todo = {}
  BY EventFacts DEF Events!NoDelivery, Events!DeliveryState
<1>2. CASE x \notin Stream
  BY <1>1, <1>2 DEF Events!Ends, EventsInv
<1>3. CASE x \in Stream
  <2> DEFINE w == [stream[x] EXCEPT !.pc = "baseline"]
  <2>1. PICK v \in {Events!Closed, w} : stream' = [stream EXCEPT ![x] = v]
    BY <1>3 DEF Events!Ends
  <2>2. stream[x] \in Watcher /\ StreamFits(stream[x], log) /\ stream[x].pc = "flushing"
    BY <1>3 DEF EventsInv
  <2>3. w \in Watcher /\ StreamFits(w, log)
    BY <2>2 DEF Watcher, StreamFits
  <2> HIDE DEF w
  <2>4. v \in Watcher /\ StreamFits(v, log)
    BY <2>1, <2>3, ClosedFits DEF EventsInv
  <2> QED
    BY <1>1, <1>3, <2>1, <2>4 DEF Events!Ends, EventsInv
<1> QED
  BY <1>2, <1>3

\* The end of a delivery, with or without a mark on the intent.
LEMMA EndKeepsEvents ==
    ASSUME EventsInv, UNCHANGED <<log, sent>>,
           IntentFits(intent', log, sent),
           \A w \in Events!DeliveryState :
               DeliveryFits(w, intent, log, sent) => DeliveryFits(w, intent', log, sent),
           NEW x \in Events!Deliverer, NEW failed \in BOOLEAN, Events!Ends(x, failed),
           delivery[x].pc # "idle"
    PROVE  EventsInv'
<1>1. DeliveryFits(Events!NoDelivery, intent', log, sent)
  BY DEF DeliveryFits, Events!NoDelivery
<1> QED
  BY <1>1, EndsFits, DeliveryKeeps

\* The next event of a delivery, or its end.
LEMMA GoesOnKeepsEvents ==
    ASSUME EventsInv, UNCHANGED <<intent, log, sent>>, NEW x \in Events!Deliverer,
           Events!GoesOn(x),
           delivery[x].pc # "idle"
    PROVE  EventsInv'
<1>1. IntentFits(intent', log, sent)
  BY DEF EventsInv
<1>2. CASE Events!Ends(x, FALSE)
  BY <1>1, <1>2, EndKeepsEvents
<1>3. CASE delivery' = [delivery EXCEPT ![x].pc = "take"] /\ UNCHANGED stream
  <2> DEFINE v == [delivery[x] EXCEPT !.pc = "take"]
  <2>1. /\ v \in Events!DeliveryState /\ v.pc = "take" /\ v.todo = delivery[x].todo
        /\ delivery' = [delivery EXCEPT ![x] = v]
    BY <1>3 DEF EventsInv, Events!DeliveryState
  <2> HIDE DEF v
  <2>2. DeliveryFits(v, intent', log, sent)
    BY <2>1 DEF EventsInv, DeliveryFits
  <2> QED
    BY <1>1, <1>3, <2>1, <2>2, DeliveryKeeps DEF EventsInv
<1> QED
  BY <1>2, <1>3 DEF Events!GoesOn

\* What a change of one intent leaves of the rest.
LEMMA IntentMoves ==
    ASSUME EventsInv, NEW e \in Events!Event, NEW state \in Events!IntentState,
           intent[e] # "none", intent[e] # "settled", state # "none",
           state = "settled" => Has(log, e),
           intent' = [intent EXCEPT ![e] = state]
    PROVE  /\ IntentFits(intent', log, sent)
           /\ \A w \in Events!DeliveryState :
                 DeliveryFits(w, intent, log, sent) => DeliveryFits(w, intent', log, sent)
<1>1. /\ intent \in [Events!Event -> Events!IntentState]
      /\ intent' \in [Events!Event -> Events!IntentState]
      /\ \A o \in Events!Event : intent'[o] = IF o = e THEN state ELSE intent[o]
      /\ IntentFits(intent, log, sent) /\ "final" \in Events!Event
  BY EventFacts DEF EventsInv, IntentFits
<1>2. IntentFits(intent', log, sent)
  <2>1. intent'["final"] = "none" => intent["final"] = "none"
    BY <1>1
  <2>2. intent["final"] = "none" => e = "accepted"
    BY <1>1 DEF IntentFits
  <2> QED
    BY <1>1, <2>1, <2>2 DEF IntentFits
<1>3. ASSUME NEW w \in Events!DeliveryState, DeliveryFits(w, intent, log, sent)
      PROVE  DeliveryFits(w, intent', log, sent)
  <2>1. w.event \in Events!Event /\ w.todo \subseteq Events!Event
    BY DEF Events!DeliveryState
  <2> QED
    BY <1>1, <1>3, <2>1 DEF DeliveryFits
<1> QED
  BY <1>2, <1>3

\* A change of one intent alone keeps the invariant.
LEMMA IntentKeeps ==
    ASSUME EventsInv, UNCHANGED <<log, delivery, stream, sent>>,
           IntentFits(intent', log, sent),
           \A w \in Events!DeliveryState :
               DeliveryFits(w, intent, log, sent) => DeliveryFits(w, intent', log, sent)
    PROVE  EventsInv'
BY DEF EventsInv

\* Accepting a message, completing its task, and the end of a backoff.
LEMMA TaskKeepsEvents ==
    ASSUME EventsInv, Events!Accept \/ Events!Complete
           \/ \E e \in Events!Event : Events!BackoffElapses(e)
    PROVE  EventsInv'
<1>1. /\ IntentFits(intent, log, sent) /\ "final" \in Events!Event
      /\ "accepted" \in Events!Event
      /\ {"pending", "due"} \subseteq Events!IntentState
      /\ UNCHANGED <<log, delivery, stream, sent>>
  BY EventFacts DEF EventsInv, Events!IntentState, Events!Open, Events!Accept,
     Events!Complete, Events!BackoffElapses
<1>2. CASE Events!Accept
  <2>1. \A o \in Events!Event : intent'[o] = IF o = "accepted" THEN "pending" ELSE intent[o]
    BY <1>1, <1>2 DEF Events!Accept, IntentFits
  <2>2. intent' \in [Events!Event -> Events!IntentState] /\ intent["accepted"] = "none"
    BY <1>1, <1>2 DEF Events!Accept, IntentFits
  <2>3. IntentFits(intent', log, sent)
    BY <1>1, <2>1, <2>2 DEF IntentFits
  <2>4. ASSUME NEW w \in Events!DeliveryState, DeliveryFits(w, intent, log, sent)
        PROVE  DeliveryFits(w, intent', log, sent)
    <3>1. w.event \in Events!Event /\ w.todo \subseteq Events!Event
      BY DEF Events!DeliveryState
    <3> QED
      BY <1>1, <2>1, <2>2, <2>4, <3>1 DEF DeliveryFits
  <2> QED
    BY <1>1, <2>3, <2>4, IntentKeeps
<1>3. CASE Events!Complete
  <2>1. \A o \in Events!Event : intent'[o] = IF o = "accepted" THEN intent[o] ELSE "pending"
    BY <1>1, <1>3 DEF Events!Complete, IntentFits
  <2>2. /\ intent' \in [Events!Event -> Events!IntentState] /\ intent["final"] = "none"
        /\ \A o \in Events!Event : o # "accepted" => intent[o] = "none"
    BY <1>1, <1>3 DEF Events!Complete, IntentFits
  <2>3. IntentFits(intent', log, sent)
    BY <1>1, <2>1, <2>2 DEF IntentFits
  <2>4. ASSUME NEW w \in Events!DeliveryState, DeliveryFits(w, intent, log, sent)
        PROVE  DeliveryFits(w, intent', log, sent)
    <3>1. w.event \in Events!Event /\ w.todo \subseteq Events!Event
      BY DEF Events!DeliveryState
    <3> QED
      BY <1>1, <2>1, <2>2, <2>4, <3>1 DEF DeliveryFits
  <2> QED
    BY <1>1, <2>3, <2>4, IntentKeeps
<1>4. ASSUME NEW e \in Events!Event, Events!BackoffElapses(e) PROVE EventsInv'
  BY <1>1, <1>4, IntentMoves, IntentKeeps DEF Events!BackoffElapses
<1> QED
  BY <1>2, <1>3, <1>4

\* Who begins to deliver has taken nothing yet.
Beginning(todo) == [Events!NoDelivery EXCEPT !.pc = "take", !.todo = todo]

\* A delivery that begins is one, and fits.
LEMMA BeginsFit ==
    ASSUME NEW todo \in SUBSET Events!Event, \A e \in todo : intent[e] # "none"
    PROVE  /\ Beginning(todo) \in Events!DeliveryState /\ Beginning(todo).pc = "take"
           /\ DeliveryFits(Beginning(todo), intent, log, sent)
<1>1. "accepted" \in Events!Event
  BY EventFacts
<1> QED
  BY <1>1 DEF Beginning, Events!NoDelivery, Events!DeliveryState, DeliveryFits

\* A flush, and the workers of a recovery, begin.
LEMMA BeginKeepsEvents ==
    ASSUME EventsInv, Events!BeginRecovery \/ \E f \in Flusher : Events!BeginFlush(f)
    PROVE  EventsInv'
<1>1. UNCHANGED <<intent, log, sent, stream>>
  BY DEF Events!BeginFlush, Events!BeginRecovery
<1>2. IntentFits(intent', log, sent)
  BY <1>1 DEF EventsInv
<1>3. ASSUME NEW f \in Flusher, Events!BeginFlush(f) PROVE EventsInv'
  <2> DEFINE v == Beginning(Events!Listed)
  <2>1. Events!Listed \in SUBSET Events!Event /\ \A e \in Events!Listed : intent[e] # "none"
    BY DEF Events!Listed, Events!Open
  <2>2. v \in Events!DeliveryState /\ v.pc = "take" /\ DeliveryFits(v, intent, log, sent)
    BY <2>1, BeginsFit
  <2>3. f \in Events!Deliverer /\ f \notin Stream
    BY EventFacts
  <2>4. delivery' = [delivery EXCEPT ![f] = v]
    BY <1>3, Zenon DEF Events!BeginFlush, Beginning
  <2> HIDE DEF v
  <2> QED
    BY <1>1, <1>2, <2>2, <2>3, <2>4, DeliveryKeeps DEF EventsInv
<1>4. CASE Events!BeginRecovery
  <2> DEFINE due == {e \in Events!Event : intent[e] \in {"pending", "due"}}
             v(x) == IF x \in due THEN Beginning({x}) ELSE delivery[x]
  <2>1. delivery' = [x \in Events!Deliverer |-> v(x)]
    BY <1>4, Zenon DEF Events!BeginRecovery, Beginning
  <2>2. ASSUME NEW x \in Events!Deliverer
        PROVE  /\ v(x) \in Events!DeliveryState /\ DeliveryFits(v(x), intent, log, sent)
               /\ v(x) = delivery[x] \/ (x \in Events!Event /\ v(x).pc = "take")
    <3>1. CASE x \in due
      <4>1. {x} \in SUBSET Events!Event /\ \A e \in {x} : intent[e] # "none"
        BY <3>1
      <4> QED
        BY <3>1, <4>1, BeginsFit
    <3>2. CASE x \notin due
      BY <3>2 DEF EventsInv
    <3> QED
      BY <3>1, <3>2
  <2> HIDE DEF v
  <2>3. /\ delivery' \in [Events!Deliverer -> Events!DeliveryState]
        /\ \A x \in Events!Deliverer : delivery'[x] = v(x)
    BY <2>1, <2>2
  <2>4. \A x, y \in Events!Deliverer :
          delivery'[x].pc = "broadcast" /\ delivery'[y].pc = "broadcast"
          /\ delivery'[x].event = delivery'[y].event => x = y
    BY <2>2, <2>3 DEF EventsInv
  <2>5. \A s \in Stream : delivery'[s].pc # "idle" => stream'[s].pc = "flushing"
    BY <1>1, <2>2, <2>3, EventFacts DEF EventsInv
  <2> QED
    BY <1>1, <2>2, <2>3, <2>4, <2>5 DEF EventsInv
<1> QED
  BY <1>3, <1>4

\* What is taken may be appended, or ends the flush.
LEMMA TakeKeepsEvents ==
    ASSUME EventsInv, NEW x \in Events!Deliverer, Events!Take(x) PROVE EventsInv'
<1>1. /\ IntentFits(intent', log, sent) /\ UNCHANGED <<intent, log, sent>>
      /\ delivery[x].pc = "take" /\ delivery[x] \in Events!DeliveryState
      /\ DeliveryFits(delivery[x], intent, log, sent)
  BY DEF EventsInv, Events!Take
<1>2. CASE Events!Ends(x, TRUE)
  BY <1>1, <1>2, EndKeepsEvents
<1>3. ASSUME NEW e \in delivery[x].todo, UNCHANGED stream,
             delivery' = [delivery EXCEPT ![x] =
                 [pc |-> "append", event |-> e, todo |-> delivery[x].todo \ {e}]]
      PROVE  EventsInv'
  <2> DEFINE v == [pc |-> "append", event |-> e, todo |-> delivery[x].todo \ {e}]
  <2>1. v \in Events!DeliveryState /\ v.pc = "append"
    BY <1>1 DEF Events!DeliveryState
  <2>2. DeliveryFits(v, intent, log, sent)
    BY <1>1 DEF DeliveryFits
  <2> HIDE DEF v
  <2>3. x \in Stream => stream[x].pc = "flushing"
    BY <1>1 DEF EventsInv
  <2> QED
    BY <1>1, <1>3, <2>1, <2>2, <2>3, DeliveryKeeps DEF EventsInv, v
<1>4. \/ Events!Ends(x, TRUE)
      \/ \E e \in delivery[x].todo :
            /\ UNCHANGED stream
            /\ delivery' = [delivery EXCEPT ![x] =
                   [pc |-> "append", event |-> e, todo |-> delivery[x].todo \ {e}]]
  BY DEF Events!Take, EventsInv
<1> QED
  BY <1>2, <1>3, <1>4

\* A delivery goes to another place with the event it has.
LEMMA PlaceKeepsEvents ==
    ASSUME EventsInv, UNCHANGED <<intent, log, sent>>, NEW x \in Events!Deliverer,
           NEW pc \in {"retry", "poison", "settle"}, Events!DeliveryTo(x, pc),
           delivery[x].pc # "idle",
           pc = "settle" => delivery[x].pc = "append" /\ Has(log, delivery[x].event)
    PROVE  EventsInv'
<1> DEFINE v == [delivery[x] EXCEPT !.pc = pc]
<1>1. /\ v \in Events!DeliveryState /\ v.pc = pc /\ v.event = delivery[x].event
      /\ v.todo = delivery[x].todo /\ delivery' = [delivery EXCEPT ![x] = v]
  BY DEF EventsInv, Events!DeliveryState, Events!DeliveryTo
<1> HIDE DEF v
<1>2. DeliveryFits(v, intent, log, sent)
  BY <1>1 DEF EventsInv, DeliveryFits
<1>3. x \in Stream => stream[x].pc = "flushing"
  BY DEF EventsInv
<1> QED
  BY <1>1, <1>2, <1>3, DeliveryKeeps DEF EventsInv, Events!DeliveryTo

\* An append finds the event, refuses it, or adds it before the terminal one.
LEMMA AppendKeepsEvents ==
    ASSUME EventsInv, NEW x \in Events!Deliverer, Events!AppendEvent(x) PROVE EventsInv'
<1> DEFINE e == delivery[x].event
           v == [delivery[x] EXCEPT !.pc = "settle"]
<1>1. /\ delivery[x].pc = "append" /\ UNCHANGED <<intent, sent>>
      /\ delivery[x] \in Events!DeliveryState /\ e \in Events!Event
      /\ DeliveryFits(delivery[x], intent, log, sent)
  BY DEF EventsInv, Events!AppendEvent, Events!DeliveryState
<1>2. CASE log' = log /\ Has(log, e) /\ Events!DeliveryTo(x, "settle")
  BY <1>1, <1>2, PlaceKeepsEvents
<1>3. CASE log' = log /\ (Events!DeliveryTo(x, "poison") \/ Events!DeliveryTo(x, "retry"))
  BY <1>1, <1>3, PlaceKeepsEvents
<1>4. CASE /\ ~Has(log, e) /\ ~Has(log, "final") /\ log' = Append(log, e)
           /\ Events!DeliveryTo(x, "settle")
  <2>1. LogFits(log) /\ IntentFits(intent, log, sent)
    BY DEF EventsInv
  <2>2. /\ LogFits(log') /\ \A o : Has(log', o) <=> Has(log, o) \/ o = e
    BY <1>1, <1>4, <2>1, LogGrows
  <2>3. IntentFits(intent', log', sent')
    <3>1. intent[e] # "none"
      BY <1>1 DEF DeliveryFits
    <3> QED
      BY <1>1, <2>1, <2>2, <3>1 DEF IntentFits
  <2>4. \A w \in Events!DeliveryState :
            DeliveryFits(w, intent, log, sent) => DeliveryFits(w, intent', log', sent')
    BY <1>1, <2>2 DEF DeliveryFits
  <2>5. /\ v \in Events!DeliveryState /\ v.pc = "settle" /\ v.event = e
        /\ v.todo = delivery[x].todo
        /\ delivery' = [delivery EXCEPT ![x] = v]
    BY <1>1, <1>4 DEF Events!DeliveryState, Events!DeliveryTo
  <2> HIDE DEF v
  <2>6. DeliveryFits(v, intent', log', sent')
    BY <1>1, <2>2, <2>5 DEF DeliveryFits
  <2>7. /\ delivery' \in [Events!Deliverer -> Events!DeliveryState]
        /\ \A y \in Events!Deliverer : delivery'[y] = IF y = x THEN v ELSE delivery[y]
    BY <2>5 DEF EventsInv
  <2>8. \A y \in Events!Deliverer : DeliveryFits(delivery'[y], intent', log', sent')
    BY <2>4, <2>6, <2>7 DEF EventsInv
  <2>9. \A y, z \in Events!Deliverer :
          delivery'[y].pc = "broadcast" /\ delivery'[z].pc = "broadcast"
          /\ delivery'[y].event = delivery'[z].event => y = z
    BY <2>5, <2>7 DEF EventsInv
  <2>10. \A s \in Stream : StreamFits(stream[s], log')
    BY <1>1, <1>4, <2>1, StreamOutlives DEF EventsInv
  <2>11. \A s \in Stream : delivery'[s].pc # "idle" => stream[s].pc = "flushing"
    BY <1>1, <2>7, EventFacts DEF EventsInv
  <2> QED
    BY <1>4, <2>2, <2>3, <2>7, <2>8, <2>9, <2>10, <2>11 DEF EventsInv, Events!DeliveryTo
<1> QED
  BY <1>2, <1>3, <1>4, HasAppended DEF Events!AppendEvent

\* A failed delivery marks its intent and is over.
LEMMA MarksKeepEvents ==
    ASSUME EventsInv, NEW x \in Events!Deliverer, Events!MarkRetry(x) \/ Events!MarkPoison(x)
    PROVE  EventsInv'
<1>1. /\ UNCHANGED <<log, sent>> /\ Events!Ends(x, TRUE) /\ delivery[x].pc # "idle"
      /\ delivery[x].event \in Events!Event
      /\ {"waiting", "quarantined"} \subseteq Events!IntentState
  BY DEF EventsInv, Events!MarkRetry, Events!MarkPoison, Events!DeliveryState,
     Events!IntentState, Events!Open
<1>2. CASE intent' = intent
  BY <1>1, <1>2, EndKeepsEvents DEF EventsInv
<1>3. CASE \E state \in {"waiting", "quarantined"} :
              /\ intent[delivery[x].event] \in Events!Open
              /\ intent' = [intent EXCEPT ![delivery[x].event] = state]
  <2>1. intent[delivery[x].event] \notin {"none", "settled"}
    BY <1>3 DEF Events!Open
  <2> QED
    BY <1>1, <1>3, <2>1, IntentMoves, EndKeepsEvents
<1> QED
  BY <1>2, <1>3 DEF Events!MarkRetry, Events!MarkPoison

\* Who settles an intent first will broadcast its event, and nobody else.
LEMMA SettleKeepsEvents ==
    ASSUME EventsInv, NEW x \in Events!Deliverer, Events!Settle(x) PROVE EventsInv'
<1> DEFINE e == delivery[x].event
           v == [delivery[x] EXCEPT !.pc = "broadcast"]
<1>1. /\ delivery[x].pc = "settle" /\ UNCHANGED <<log, sent>>
      /\ delivery[x] \in Events!DeliveryState /\ e \in Events!Event
      /\ DeliveryFits(delivery[x], intent, log, sent) /\ IntentFits(intent, log, sent)
  BY DEF EventsInv, Events!Settle, Events!DeliveryState
<1>2. CASE intent' = intent /\ Events!Ends(x, TRUE)
  BY <1>1, <1>2, EndKeepsEvents
<1>3. CASE intent' = intent /\ Events!GoesOn(x)
  BY <1>1, <1>3, GoesOnKeepsEvents
<1>4. CASE /\ intent[e] # "settled" /\ intent' = [intent EXCEPT ![e] = "settled"]
           /\ Events!DeliveryTo(x, "broadcast")
  <2>1. Has(log, e) /\ intent[e] # "none" /\ "settled" \in Events!IntentState
    BY <1>1 DEF DeliveryFits, Events!IntentState
  <2>2. /\ IntentFits(intent', log, sent)
        /\ \A w \in Events!DeliveryState :
              DeliveryFits(w, intent, log, sent) => DeliveryFits(w, intent', log, sent)
    BY <1>1, <1>4, <2>1, IntentMoves
  <2>3. /\ v \in Events!DeliveryState /\ v.pc = "broadcast" /\ v.event = e
        /\ v.todo = delivery[x].todo
        /\ delivery' = [delivery EXCEPT ![x] = v]
    BY <1>1, <1>4 DEF Events!DeliveryState, Events!DeliveryTo
  <2>4. intent'[e] = "settled" /\ sent[e] = 0
    BY <1>1, <1>4 DEF IntentFits
  <2>5. \A o \in v.todo : intent'[o] # "none"
    BY <1>1, <2>2, <2>3 DEF DeliveryFits
  <2>6. \A y \in Events!Deliverer \ {x} :
            delivery[y].pc = "broadcast" => delivery[y].event # v.event
    BY <1>4, <2>3 DEF EventsInv, DeliveryFits
  <2> HIDE DEF v, e
  <2>7. DeliveryFits(v, intent', log, sent)
    BY <2>1, <2>3, <2>4, <2>5 DEF DeliveryFits
  <2>8. x \in Stream => stream[x].pc = "flushing"
    BY <1>1 DEF EventsInv
  <2> QED
    BY <1>1, <1>4, <2>2, <2>3, <2>6, <2>7, <2>8, DeliveryKeeps DEF EventsInv,
       Events!DeliveryTo
<1> QED
  BY <1>2, <1>3, <1>4 DEF Events!Settle

-----------------------------------------------------------------------------
(* What the streams show. *)

\* A queue as a stream keeps it.
QueueFits(q, l) == q \in Seq(Nat) /\ \A k \in 1..Len(q) : q[k] \in 1..Len(l)

\* A queue takes an id of the log, and gives its first away.
LEMMA QueueMoves ==
    ASSUME NEW q, QueueFits(q, log)
    PROVE  /\ \A i \in Nat : i \in 1..Len(log) => QueueFits(Append(q, i), log)
           /\ q # <<>> => QueueFits(Tail(q), log) /\ Head(q) \in 1..Len(log)
<1>1. q \in Seq(Nat) /\ Len(q) \in Nat
  BY DEF QueueFits
<1>2. ASSUME NEW i \in Nat, i \in 1..Len(log) PROVE QueueFits(Append(q, i), log)
  <2>1. /\ Append(q, i) \in Seq(Nat) /\ Len(Append(q, i)) = Len(q) + 1
        /\ \A k \in 1..Len(q) : Append(q, i)[k] = q[k]
        /\ Append(q, i)[Len(q) + 1] = i
    BY <1>1
  <2>2. \A k \in 1..(Len(q) + 1) : k \in 1..Len(q) \/ k = Len(q) + 1
    BY <1>1
  <2> QED
    BY <1>2, <2>1, <2>2 DEF QueueFits
<1>3. ASSUME q # <<>> PROVE QueueFits(Tail(q), log) /\ Head(q) \in 1..Len(log)
  <2>1. /\ Tail(q) \in Seq(Nat) /\ Len(Tail(q)) = Len(q) - 1 /\ Len(q) > 0
        /\ \A k \in 1..(Len(q) - 1) : Tail(q)[k] = q[k + 1]
        /\ Head(q) = q[1]
    BY <1>1, <1>3
  <2>2. 1 \in 1..Len(q) /\ \A k \in 1..(Len(q) - 1) : k + 1 \in 1..Len(q)
    BY <1>1, <2>1
  <2> QED
    BY <2>1, <2>2 DEF QueueFits
<1> QED
  BY <1>2, <1>3

\* A receiver takes an id and shows nothing yet.
LEMMA ReceivedFits ==
    ASSUME NEW s \in Stream, stream[s] \in Watcher, StreamFits(stream[s], log),
           NEW i \in Nat, i \in 1..Len(log)
    PROVE  /\ Events!Received(s, i) \in Watcher /\ StreamFits(Events!Received(s, i), log)
           /\ Events!Received(s, i).pc = stream[s].pc
<1> DEFINE v == stream[s]
           full == Len(v.queue) = LiveCapacity
           kept == IF full THEN Tail(v.queue) ELSE v.queue
           w == [v EXCEPT !.queue = Append(kept, i), !.lagged = @ \/ full]
<1>1. QueueFits(v.queue, log) /\ Len(v.queue) \in Nat
  BY DEF Watcher, StreamFits, QueueFits
<1>2. QueueFits(kept, log)
  <2>1. CASE full
    <3>1. v.queue # <<>>
      BY <2>1, EventFacts
    <3> QED
      BY <1>1, <2>1, <3>1, QueueMoves
  <2>2. CASE ~full
    BY <1>1, <2>2
  <2> QED
    BY <2>1, <2>2
<1>3. QueueFits(Append(kept, i), log)
  BY <1>2, QueueMoves
<1> DEFINE q == Append(kept, i)
<1> HIDE DEF q, kept
<1>4. w \in Watcher /\ StreamFits(w, log) /\ w.pc = v.pc
  <2>1. q \in Seq(Nat) /\ \A k \in 1..Len(q) : q[k] \in 1..Len(log)
    BY <1>3 DEF QueueFits, q
  <2>2. /\ w.pc = v.pc /\ w.shown = v.shown /\ w.last = v.last /\ w.queue = q
        /\ w \in Watcher
    BY <2>1 DEF Watcher, q
  <2> HIDE DEF w
  <2> QED
    BY <2>1, <2>2 DEF StreamFits
<1>5. Events!Received(s, i) = w \/ Events!Received(s, i) = v
  BY Zenon DEF Events!Received, kept
<1> QED
  BY <1>4, <1>5

\* A broadcast is the only one of its event.
LEMMA BroadcastKeepsEvents ==
    ASSUME EventsInv, NEW x \in Events!Deliverer, Events!Broadcast(x) PROVE EventsInv'
<1> DEFINE e == delivery[x].event
           ends == delivery[x].todo = {}
<1>1. /\ delivery[x].pc = "broadcast" /\ UNCHANGED <<intent, log>>
      /\ delivery[x] \in Events!DeliveryState /\ e \in Events!Event /\ LogFits(log)
      /\ DeliveryFits(delivery[x], intent, log, sent) /\ IntentFits(intent, log, sent)
      /\ Has(log, e) /\ intent[e] = "settled" /\ sent[e] = 0
  BY DEF EventsInv, Events!Broadcast, Events!DeliveryState, DeliveryFits
<1>2. sent' = [sent EXCEPT ![e] = IF @ < 2 THEN @ + 1 ELSE @]
  BY DEF Events!Broadcast
<1>3. /\ sent' \in [Events!Event -> 0..1]
      /\ \A o \in Events!Event : sent'[o] = IF o = e THEN 1 ELSE sent[o]
  BY <1>1, <1>2 DEF IntentFits
<1>4. IntentFits(intent', log, sent')
  BY <1>1, <1>3 DEF IntentFits
<1>5. Events!IdOf(e) \in Nat /\ Events!IdOf(e) \in 1..Len(log)
  BY <1>1, IdFacts
<1>6. \A s \in Stream :
          /\ Events!Received(s, Events!IdOf(e)) \in Watcher
          /\ StreamFits(Events!Received(s, Events!IdOf(e)), log)
          /\ Events!Received(s, Events!IdOf(e)).pc = stream[s].pc
  BY <1>5, ReceivedFits DEF EventsInv
<1> DEFINE v(s) == IF s = x /\ ends
                   THEN [Events!Received(s, Events!IdOf(e)) EXCEPT !.pc = "baseline"]
                   ELSE Events!Received(s, Events!IdOf(e))
           w == IF ends THEN Events!NoDelivery ELSE [delivery[x] EXCEPT !.pc = "take"]
<1>7. stream' = [s \in Stream |-> v(s)]
  BY Zenon DEF Events!Broadcast
<1>8. delivery' = [delivery EXCEPT ![x] = w]
  BY Zenon DEF Events!Broadcast
<1>9. ASSUME NEW s \in Stream
      PROVE  /\ v(s) \in Watcher /\ StreamFits(v(s), log)
             /\ v(s).pc = stream[s].pc \/ (s = x /\ ends)
  <2> DEFINE r == Events!Received(s, Events!IdOf(e))
  <2>1. r \in Watcher /\ StreamFits(r, log) /\ r.pc = stream[s].pc
    BY <1>6
  <2> HIDE DEF r
  <2>2. CASE s = x /\ ends
    <3>1. r.pc = "flushing"
      BY <1>1, <2>1, <2>2 DEF EventsInv
    <3>2. [r EXCEPT !.pc = "baseline"] \in Watcher
          /\ StreamFits([r EXCEPT !.pc = "baseline"], log)
      BY <2>1, <3>1 DEF Watcher, StreamFits
    <3> QED
      BY <2>2, <3>2 DEF r
  <2>3. CASE ~(s = x /\ ends)
    BY <2>1, <2>3 DEF r
  <2> QED
    BY <2>2, <2>3
<1>10. /\ w \in Events!DeliveryState /\ w.pc \in {"idle", "take"} /\ (w.pc = "idle" => ends)
       /\ w.todo \subseteq delivery[x].todo /\ (ends <=> w.pc = "idle")
  <2>1. CASE ends
    BY <2>1, EventFacts DEF Events!NoDelivery, Events!DeliveryState
  <2>2. CASE ~ends
    BY <1>1, <2>2 DEF Events!DeliveryState
  <2> QED
    BY <2>1, <2>2
<1> HIDE DEF v, w
<1>11. /\ delivery' \in [Events!Deliverer -> Events!DeliveryState]
       /\ \A y \in Events!Deliverer : delivery'[y] = IF y = x THEN w ELSE delivery[y]
  BY <1>8, <1>10 DEF EventsInv
<1>12. /\ stream' \in [Stream -> Watcher]
       /\ \A s \in Stream : stream'[s] = v(s) /\ StreamFits(stream'[s], log)
  BY <1>7, <1>9
<1>13. ASSUME NEW y \in Events!Deliverer
       PROVE  DeliveryFits(delivery'[y], intent', log, sent')
  <2>1. CASE y = x
    BY <1>1, <1>10, <1>11, <2>1 DEF DeliveryFits
  <2>2. CASE y # x
    <3>1. /\ delivery'[y] = delivery[y] /\ delivery[y] \in Events!DeliveryState
          /\ DeliveryFits(delivery[y], intent, log, sent)
          /\ delivery[y].pc = "broadcast" => delivery[y].event # e
      BY <1>1, <1>11, <2>2 DEF EventsInv
    <3>2. delivery[y].event \in Events!Event
      BY <3>1 DEF Events!DeliveryState
    <3> QED
      BY <1>1, <1>3, <3>1, <3>2 DEF DeliveryFits
  <2> QED
    BY <2>1, <2>2
<1>14. \A y, z \in Events!Deliverer :
          delivery'[y].pc = "broadcast" /\ delivery'[z].pc = "broadcast"
          /\ delivery'[y].event = delivery'[z].event => y = z
  BY <1>10, <1>11 DEF EventsInv
<1>15. \A s \in Stream : delivery'[s].pc # "idle" => stream'[s].pc = "flushing"
  <2>1. SUFFICES ASSUME NEW s \in Stream, delivery'[s].pc # "idle"
                 PROVE  stream'[s].pc = "flushing"
    OBVIOUS
  <2>2. s \in Events!Deliverer /\ delivery[s].pc # "idle" /\ stream[s].pc = "flushing"
    BY <1>1, <1>11, <2>1, EventFacts DEF EventsInv
  <2>3. ~(s = x /\ ends)
    BY <1>10, <1>11, <2>1, <2>2
  <2> QED
    BY <1>9, <1>12, <2>2, <2>3
<1> QED
  BY <1>1, <1>4, <1>11, <1>12, <1>13, <1>14, <1>15 DEF EventsInv

\* A delivery is dropped, or put off by the deadline of its worker.
LEMMA DropKeepsEvents ==
    ASSUME EventsInv, (\E x \in Events!Deliverer : Events!Drop(x))
           \/ \E e \in Events!Event : Events!TimeOut(e)
    PROVE  EventsInv'
<1>1. ASSUME NEW x \in Events!Deliverer, Events!Drop(x) PROVE EventsInv'
  <2>1. UNCHANGED <<intent, log, sent>> /\ Events!Ends(x, TRUE) /\ delivery[x].pc # "idle"
    BY <1>1 DEF Events!Drop
  <2>2. IntentFits(intent', log, sent)
    BY <2>1 DEF EventsInv
  <2> QED
    BY <2>1, <2>2, EndKeepsEvents
<1>2. ASSUME NEW e \in Events!Event, Events!TimeOut(e) PROVE EventsInv'
  <2> DEFINE v == [pc |-> "retry", event |-> e, todo |-> {}]
  <2>1. /\ UNCHANGED <<intent, log, stream, sent>>
        /\ delivery' = [delivery EXCEPT ![e] = v]
    BY <1>2 DEF Events!TimeOut
  <2>2. v \in Events!DeliveryState /\ v.pc = "retry" /\ DeliveryFits(v, intent, log, sent)
    BY DEF Events!DeliveryState, DeliveryFits
  <2> HIDE DEF v
  <2>3. IntentFits(intent', log, sent)
    BY <2>1 DEF EventsInv
  <2>4. e \in Events!Deliverer /\ e \notin Stream
    BY EventFacts
  <2> QED
    BY <2>1, <2>2, <2>3, <2>4, DeliveryKeeps DEF EventsInv
<1> QED
  BY <1>1, <1>2

\* A change of one stream that delivers nothing.
LEMMA StreamKeeps ==
    ASSUME EventsInv, UNCHANGED <<intent, log, delivery, sent>>,
           NEW s \in Stream, stream[s].pc # "flushing",
           NEW v \in Watcher, StreamFits(v, log), stream' = [stream EXCEPT ![s] = v]
    PROVE  EventsInv'
<1>1. /\ stream' \in [Stream -> Watcher]
      /\ \A o \in Stream : stream'[o] = IF o = s THEN v ELSE stream[o]
  BY DEF EventsInv
<1>2. delivery[s].pc = "idle"
  BY DEF EventsInv
<1>3. \A o \in Stream : StreamFits(stream'[o], log)
  BY <1>1 DEF EventsInv
<1>4. \A o \in Stream : delivery[o].pc # "idle" => stream'[o].pc = "flushing"
  BY <1>1, <1>2 DEF EventsInv
<1> QED
  BY <1>1, <1>3, <1>4 DEF EventsInv


\* A stream that shows what comes next, up to the end of what it shows.
LEMMA ShowingFits ==
    ASSUME ArtifactsAreFinite, LogFits(log), NEW s \in Stream, stream[s] \in Watcher,
           StreamFits(stream[s], log), stream[s].pc \in {"baseline", "open"},
           NEW ids \in SUBSET Nat, NEW high \in Nat, high <= Len(log),
           \/ ids = (stream[s].last + 1)..high /\ stream[s].last <= high
           \/ ids = {high} /\ stream[s].pc = "baseline"
    PROVE  Events!Showing(s, ids, high) \in Watcher
           /\ StreamFits(Events!Showing(s, ids, high), log)
<1> DEFINE v == stream[s]
           sh == v.shown \cup ids
           pc == IF high = Events!FinalId THEN "done" ELSE "open"
           w == [v EXCEPT !.shown = @ \cup ids, !.last = high, !.pc = pc]
<1>1. v.last \in Nat /\ Len(log) \in Nat /\ v.last <= Len(log) /\ v.shown \in SUBSET Nat
  BY DEF Watcher, StreamFits, LogFits
<1>2. /\ w \in Watcher /\ w.shown = sh /\ w.last = high /\ w.pc = pc /\ w.queue = v.queue
  BY DEF Watcher
<1>3. sh # {} => \E i \in sh : sh = i..high
  <2>1. CASE ids = {high} /\ v.pc = "baseline"
    <3>1. sh = {high} /\ {high} = high..high
      BY <2>1 DEF StreamFits
    <3> QED
      BY <3>1
  <2>2. CASE ids = (v.last + 1)..high /\ v.last <= high /\ v.shown = {}
    <3>1. sh = (v.last + 1)..high
      BY <2>2
    <3>2. sh # {} => v.last + 1 \in sh
      BY <1>1, <3>1
    <3> QED
      BY <3>1, <3>2
  <2>3. CASE ids = (v.last + 1)..high /\ v.last <= high /\ v.shown # {}
    <3>1. PICK i \in v.shown : v.shown = i..v.last
      BY <2>3 DEF StreamFits
    <3>2. i \in Nat /\ i <= v.last
      BY <1>1, <3>1
    <3>3. (i..v.last) \cup ((v.last + 1)..high) = i..high
      BY <1>1, <2>3, <3>2
    <3> QED
      BY <2>3, <3>1, <3>3
  <2> QED
    BY <2>1, <2>2, <2>3
<1>4. pc = "done" <=> Has(log, "final") /\ high = Len(log)
  BY <1>1, FinalIsLast
<1>5. pc = "done" => sh # {}
  <2>1. SUFFICES ASSUME Has(log, "final"), high = Len(log), ids = (v.last + 1)..high
                 PROVE  v.last + 1 \in ids
    BY <1>4
  <2>2. v.last < Len(log)
    BY <2>1 DEF StreamFits
  <2> QED
    BY <1>1, <2>1, <2>2
<1>6. pc \in {"done", "open"}
  OBVIOUS
<1>7. Events!Showing(s, ids, high) = w
  BY DEF Events!Showing
<1>8. \A k \in 1..Len(v.queue) : v.queue[k] \in 1..Len(log)
  BY DEF StreamFits
<1> HIDE DEF w, pc, sh
<1>9. StreamFits(w, log)
  BY <1>1, <1>2, <1>3, <1>4, <1>5, <1>6, <1>8 DEF StreamFits
<1> QED
  BY <1>2, <1>7, <1>9

\* A replay shows all that is there, or closes the stream.
LEMMA ReplayedFits ==
    ASSUME ArtifactsAreFinite, LogFits(log), NEW s \in Stream, stream[s] \in Watcher,
           StreamFits(stream[s], log), stream[s].pc \in {"baseline", "open"}
    PROVE  Events!Replayed(s) \in Watcher /\ StreamFits(Events!Replayed(s), log)
<1>1. /\ stream[s].last \in Nat /\ Len(log) \in Nat /\ stream[s].last <= Len(log)
      /\ (stream[s].last + 1)..Len(log) \in SUBSET Nat
  BY DEF Watcher, StreamFits, LogFits
<1>2. \/ Events!Replayed(s) = Events!Closed
      \/ Events!Replayed(s) = Events!Showing(s, (stream[s].last + 1)..Len(log), Len(log))
  BY Zenon DEF Events!Replayed
<1>3. /\ Events!Showing(s, (stream[s].last + 1)..Len(log), Len(log)) \in Watcher
      /\ StreamFits(Events!Showing(s, (stream[s].last + 1)..Len(log), Len(log)), log)
  BY <1>1, ShowingFits
<1> QED
  BY <1>2, <1>3, ClosedFits

\* The first frame of a stream.
LEMMA BaselineKeepsEvents ==
    ASSUME ArtifactsAreFinite, EventsInv, NEW s \in Stream, Events!Baseline(s)
    PROVE  EventsInv'
<1> DEFINE v == IF stream[s].resumes THEN Events!Replayed(s)
                ELSE IF log = <<>> THEN Events!Closed
                ELSE Events!Showing(s, {Len(log)}, Len(log))
<1>1. /\ UNCHANGED <<intent, log, delivery, sent>> /\ stream[s].pc = "baseline"
      /\ LogFits(log) /\ stream[s] \in Watcher /\ StreamFits(stream[s], log)
  BY DEF EventsInv, Events!Baseline
<1>2. stream' = [stream EXCEPT ![s] = v]
  BY Zenon DEF Events!Baseline
<1>3. Len(log) \in Nat /\ {Len(log)} \in SUBSET Nat
  BY <1>1 DEF LogFits
<1>4. /\ Events!Showing(s, {Len(log)}, Len(log)) \in Watcher
      /\ StreamFits(Events!Showing(s, {Len(log)}, Len(log)), log)
  BY <1>1, <1>3, ShowingFits
<1>5. v \in Watcher /\ StreamFits(v, log)
  BY <1>1, <1>4, ReplayedFits, ClosedFits
<1> HIDE DEF v
<1> QED
  BY <1>1, <1>2, <1>5, StreamKeeps

\* The next live event of a stream.
LEMMA ReceiveKeepsEvents ==
    ASSUME ArtifactsAreFinite, EventsInv, NEW s \in Stream, Events!Receive(s)
    PROVE  EventsInv'
<1> DEFINE i == Head(stream[s].queue)
           r == IF i <= stream[s].last THEN stream[s]
                ELSE IF i = stream[s].last + 1 THEN Events!Showing(s, {i}, i)
                ELSE Events!Replayed(s)
           v == IF stream[s].lagged THEN [Events!Replayed(s) EXCEPT !.lagged = FALSE]
                ELSE [r EXCEPT !.queue = Tail(stream[s].queue)]
<1>1. /\ UNCHANGED <<intent, log, delivery, sent>> /\ stream[s].pc = "open"
      /\ LogFits(log) /\ stream[s] \in Watcher /\ StreamFits(stream[s], log)
      /\ stream[s].lagged \/ stream[s].queue # <<>>
  BY DEF EventsInv, Events!Receive
<1>2. stream' = [stream EXCEPT ![s] = v]
  BY Zenon DEF Events!Receive
<1>3. Events!Replayed(s) \in Watcher /\ StreamFits(Events!Replayed(s), log)
  BY <1>1, ReplayedFits
<1>4. v \in Watcher /\ StreamFits(v, log)
  <2>1. CASE stream[s].lagged
    <3> DEFINE u == Events!Replayed(s)
    <3>1. u \in Watcher /\ StreamFits(u, log)
      BY <1>3
    <3> HIDE DEF u
    <3>2. [u EXCEPT !.lagged = FALSE] \in Watcher
          /\ StreamFits([u EXCEPT !.lagged = FALSE], log)
      BY <3>1 DEF Watcher, StreamFits
    <3> QED
      BY <2>1, <3>2 DEF u
  <2>2. CASE ~stream[s].lagged
    <3>1. QueueFits(stream[s].queue, log) /\ stream[s].queue # <<>>
      BY <1>1, <2>2 DEF Watcher, StreamFits, QueueFits
    <3>2. QueueFits(Tail(stream[s].queue), log) /\ i \in 1..Len(log)
      BY <3>1, QueueMoves
    <3> DEFINE q == Tail(stream[s].queue)
    <3>3. q \in Seq(Nat) /\ \A k \in 1..Len(q) : q[k] \in 1..Len(log)
      BY <3>2 DEF QueueFits
    <3>4. r \in Watcher /\ StreamFits(r, log)
      <4>1. Len(log) \in Nat /\ stream[s].last \in Nat
        BY <1>1 DEF LogFits, Watcher
      <4>2. ASSUME i = stream[s].last + 1
            PROVE  Events!Showing(s, {i}, i) \in Watcher
                   /\ StreamFits(Events!Showing(s, {i}, i), log)
        <5>1. i \in Nat /\ i <= Len(log) /\ stream[s].last <= i
          BY <3>2, <4>1, <4>2
        <5>2. {i} = (stream[s].last + 1)..i /\ {i} \in SUBSET Nat
          BY <4>1, <4>2, <5>1
        <5> QED
          BY <1>1, <5>1, <5>2, ShowingFits
      <4> QED
        BY <1>1, <1>3, <4>2
    <3> HIDE DEF r, q
    <3>5. [r EXCEPT !.queue = q] \in Watcher /\ StreamFits([r EXCEPT !.queue = q], log)
      BY <3>3, <3>4 DEF Watcher, StreamFits
    <3> QED
      BY <2>2, <3>5 DEF q
  <2> QED
    BY <2>1, <2>2
<1> HIDE DEF v
<1> QED
  BY <1>1, <1>2, <1>4, StreamKeeps

\* A stream subscribes: what it will show begins after what its client has seen.
LEMMA SubscribeKeepsEvents ==
    ASSUME EventsInv, NEW s \in Stream, Events!Subscribe(s) PROVE EventsInv'
<1>1. /\ UNCHANGED <<intent, log, delivery, sent>> /\ stream[s].pc = "idle" /\ LogFits(log)
  BY DEF EventsInv, Events!Subscribe
<1>2. PICK resumes \in BOOLEAN, last \in 0..Len(log) :
          stream' = [stream EXCEPT ![s] =
              [Events!NoStream EXCEPT !.pc = "joined", !.resumes = resumes, !.last = last]]
  BY Zenon DEF Events!Subscribe
<1> DEFINE v == [Events!NoStream EXCEPT !.pc = "joined", !.resumes = resumes, !.last = last]
<1>3. last \in Nat /\ last <= Len(log)
  BY <1>1 DEF LogFits
<1>4. v \in Watcher /\ v.pc = "joined" /\ v.shown = {} /\ v.last = last /\ v.queue = <<>>
  BY <1>3, NoStreamFits DEF Watcher
<1>5. stream' = [stream EXCEPT ![s] = v]
  BY <1>2
<1> HIDE DEF v
<1>6. Len(v.queue) = 0
  BY <1>4
<1>7. StreamFits(v, log)
  BY <1>3, <1>4, <1>6 DEF StreamFits
<1> QED
  BY <1>1, <1>4, <1>5, <1>7, StreamKeeps

\* A stream whose task has not ended has seen less than all there will be.
LEMMA ReadTaskKeepsEvents ==
    ASSUME EventsInv, NEW s \in Stream, Events!ReadTask(s) PROVE EventsInv'
<1> DEFINE v == [stream[s] EXCEPT !.pc = "listing"]
<1>1. /\ UNCHANGED <<intent, log, delivery, sent>> /\ stream[s].pc = "joined"
      /\ LogFits(log) /\ stream[s] \in Watcher /\ StreamFits(stream[s], log)
      /\ \/ intent["final"] = "none" /\ stream' = [stream EXCEPT ![s] = v]
         \/ stream' = [stream EXCEPT ![s] = Events!Closed]
  BY DEF EventsInv, Events!ReadTask
<1>2. CASE intent["final"] = "none" /\ stream' = [stream EXCEPT ![s] = v]
  <2>1. ~Has(log, "final")
    BY <1>2 DEF EventsInv, IntentFits
  <2>2. v \in Watcher /\ StreamFits(v, log)
    BY <1>1, <2>1 DEF Watcher, StreamFits
  <2> HIDE DEF v
  <2> QED
    BY <1>1, <1>2, <2>2, StreamKeeps
<1>3. CASE stream' = [stream EXCEPT ![s] = Events!Closed]
  BY <1>1, <1>3, ClosedFits, StreamKeeps
<1> QED
  BY <1>1, <1>2, <1>3

\* A stream begins to flush what is pending, or has nothing to flush.
LEMMA ListKeepsEvents ==
    ASSUME EventsInv, NEW s \in Stream, Events!ListPending(s) PROVE EventsInv'
<1> DEFINE pc == IF Events!Listed = {} THEN "baseline" ELSE "flushing"
           v == [stream[s] EXCEPT !.pc = pc]
<1>1. /\ UNCHANGED <<intent, log, sent>> /\ stream[s].pc = "listing"
      /\ stream[s] \in Watcher /\ StreamFits(stream[s], log)
      /\ stream' = [stream EXCEPT ![s] = v]
  BY DEF EventsInv, Events!ListPending
<1>2. v \in Watcher /\ v.pc = pc /\ StreamFits(v, log)
  <2>1. pc \in {"baseline", "flushing"}
    OBVIOUS
  <2> HIDE DEF pc
  <2> QED
    BY <1>1, <2>1 DEF Watcher, StreamFits
<1> HIDE DEF v
<1>3. CASE Events!Listed = {}
  <2>1. delivery' = delivery
    BY <1>3 DEF Events!ListPending
  <2> QED
    BY <1>1, <1>2, <2>1, StreamKeeps
<1>4. CASE Events!Listed # {}
  <2> DEFINE w == Beginning(Events!Listed)
  <2>1. delivery' = [delivery EXCEPT ![s] = w]
    BY <1>4, Zenon DEF Events!ListPending, Beginning
  <2>2. Events!Listed \in SUBSET Events!Event /\ \A e \in Events!Listed : intent[e] # "none"
    BY DEF Events!Listed, Events!Open
  <2>3. w \in Events!DeliveryState /\ w.pc = "take" /\ DeliveryFits(w, intent, log, sent)
    BY <2>2, BeginsFit
  <2> HIDE DEF w
  <2>4. /\ delivery' \in [Events!Deliverer -> Events!DeliveryState]
        /\ \A x \in Events!Deliverer : delivery'[x] = IF x = s THEN w ELSE delivery[x]
    BY <2>1, <2>3 DEF EventsInv
  <2>5. \A x \in Events!Deliverer : DeliveryFits(delivery'[x], intent, log, sent)
    BY <2>3, <2>4 DEF EventsInv
  <2>6. \A x, y \in Events!Deliverer :
          delivery'[x].pc = "broadcast" /\ delivery'[y].pc = "broadcast"
          /\ delivery'[x].event = delivery'[y].event => x = y
    BY <2>3, <2>4 DEF EventsInv
  <2>7. /\ stream' \in [Stream -> Watcher]
        /\ \A o \in Stream : stream'[o] = IF o = s THEN v ELSE stream[o]
    BY <1>1, <1>2 DEF EventsInv
  <2>8. \A o \in Stream : StreamFits(stream'[o], log)
    BY <1>2, <2>7 DEF EventsInv
  <2>9. \A o \in Stream : delivery'[o].pc # "idle" => stream'[o].pc = "flushing"
    BY <1>2, <1>4, <2>4, <2>7, EventFacts DEF EventsInv
  <2> QED
    BY <1>1, <2>4, <2>5, <2>6, <2>7, <2>8, <2>9 DEF EventsInv
<1> QED
  BY <1>3, <1>4

\* A crash ends every delivery and every stream.
LEMMA CrashKeepsEvents == ASSUME EventsInv, Events!Crash PROVE EventsInv'
<1> DEFINE v(s) == IF stream[s].pc \in {"idle", "done"} THEN stream[s] ELSE Events!Closed
<1>1. /\ UNCHANGED <<intent, log, sent>>
      /\ delivery' = [x \in Events!Deliverer |-> Events!NoDelivery]
      /\ stream' = [s \in Stream |-> v(s)]
  BY DEF Events!Crash
<1>2. Events!NoDelivery \in Events!DeliveryState /\ Events!NoDelivery.pc = "idle"
      /\ Events!NoDelivery.todo = {}
  BY EventFacts DEF Events!NoDelivery, Events!DeliveryState
<1>3. ASSUME NEW s \in Stream PROVE v(s) \in Watcher /\ StreamFits(v(s), log)
  <2>1. stream[s] \in Watcher /\ StreamFits(stream[s], log)
    BY DEF EventsInv
  <2>2. Events!Closed \in Watcher /\ StreamFits(Events!Closed, log)
    BY ClosedFits DEF EventsInv
  <2> QED
    BY <2>1, <2>2
<1> HIDE DEF v
<1>4. stream' \in [Stream -> Watcher] /\ \A s \in Stream : StreamFits(stream'[s], log)
  BY <1>1, <1>3
<1>5. /\ delivery' \in [Events!Deliverer -> Events!DeliveryState]
      /\ \A x \in Events!Deliverer : delivery'[x] = Events!NoDelivery
  BY <1>1, <1>2
<1>6. \A x \in Events!Deliverer : DeliveryFits(delivery'[x], intent, log, sent)
  BY <1>2, <1>5 DEF DeliveryFits
<1> QED
  BY <1>1, <1>2, <1>4, <1>5, <1>6, EventFacts DEF EventsInv

\* At the start nothing is stored.
LEMMA EventsBegin == ASSUME Events!Init PROVE EventsInv
<1>1. /\ log = <<>> /\ Len(log) = 0
      /\ intent = [e \in Events!Event |-> "none"] /\ sent = [e \in Events!Event |-> 0]
      /\ delivery = [x \in Events!Deliverer |-> Events!NoDelivery]
      /\ stream = [s \in Stream |-> Events!NoStream]
  BY DEF Events!Init
<1>2. Events!NoDelivery \in Events!DeliveryState /\ Events!NoDelivery.pc = "idle"
      /\ Events!NoDelivery.todo = {}
  BY EventFacts DEF Events!NoDelivery, Events!DeliveryState
<1>3. /\ Events!NoStream \in Watcher /\ Events!NoStream.pc = "idle"
      /\ Events!NoStream.shown = {}
      /\ Events!NoStream.last = 0 /\ Events!NoStream.queue = <<>>
  BY NoStreamFits
<1>4. LogFits(log) /\ \A e : ~Has(log, e)
  BY <1>1 DEF LogFits, Has
<1>5. IntentFits(intent, log, sent)
  BY <1>1, <1>4, EventFacts DEF IntentFits, Events!IntentState
<1>6. DeliveryFits(Events!NoDelivery, intent, log, sent)
  BY <1>2 DEF DeliveryFits
<1>7. Len(Events!NoStream.queue) = 0
  BY <1>3
<1>8. StreamFits(Events!NoStream, log)
  BY <1>1, <1>3, <1>4, <1>7 DEF StreamFits
<1> QED
  BY <1>1, <1>2, <1>3, <1>4, <1>5, <1>6, <1>8, EventFacts DEF EventsInv

\* A step of the events.
LEMMA EventsStep ==
    ASSUME ArtifactsAreFinite, EventsInv, [Events!Next]_(Events!vars)
    PROVE  EventsInv'
<1>1. CASE Events!Accept \/ Events!Complete
           \/ \E e \in Events!Event : Events!BackoffElapses(e)
  BY <1>1, TaskKeepsEvents
<1>2. CASE Events!BeginRecovery \/ \E f \in Flusher : Events!BeginFlush(f)
  BY <1>2, BeginKeepsEvents
<1>3. ASSUME NEW x \in Events!Deliverer, Events!Deliver(x) PROVE EventsInv'
  BY <1>3, TakeKeepsEvents, AppendKeepsEvents, MarksKeepEvents, SettleKeepsEvents,
     BroadcastKeepsEvents DEF Events!Deliver
<1>4. CASE (\E x \in Events!Deliverer : Events!Drop(x))
           \/ \E e \in Events!Event : Events!TimeOut(e)
  BY <1>4, DropKeepsEvents
<1>5. ASSUME NEW s \in Stream,
             \/ Events!Subscribe(s) \/ Events!ReadTask(s) \/ Events!ListPending(s)
             \/ Events!Baseline(s) \/ Events!Receive(s)
      PROVE  EventsInv'
  BY <1>5, SubscribeKeepsEvents, ReadTaskKeepsEvents, ListKeepsEvents, BaselineKeepsEvents,
     ReceiveKeepsEvents
<1>6. ASSUME NEW s \in Stream, Events!CloseStream(s) PROVE EventsInv'
  <2>1. Events!Closed \in Watcher /\ StreamFits(Events!Closed, log)
    BY ClosedFits DEF EventsInv
  <2> QED
    BY <1>6, <2>1, StreamKeeps DEF Events!CloseStream
<1>7. CASE Events!Crash
  BY <1>7, CrashKeepsEvents
<1>8. CASE UNCHANGED Events!vars
  BY <1>8 DEF Events!vars, EventsInv
<1> QED
  BY <1>1, <1>2, <1>3, <1>4, <1>5, <1>6, <1>7, <1>8 DEF Events!Next

\* The invariant of the events holds.
LEMMA EventsInvHolds == ASSUME ArtifactsAreFinite PROVE Events!Spec => []EventsInv
<1>1. Events!Init => EventsInv
  BY EventsBegin
<1>2. EventsInv /\ [Events!Next]_(Events!vars) => EventsInv'
  BY EventsStep
<1> QED
  BY <1>1, <1>2, PTL DEF Events!Spec

\* What the invariant says of the publishing.
LEMMA InvPublishes == ASSUME ArtifactsAreFinite, EventsInv PROVE Events!PublishedOnce
<1>1. LogFits(log) /\ IntentFits(intent, log, sent)
  BY DEF EventsInv
<1>2. \A e \in Events!Event : intent[e] = "settled" => e \in Events!Appended
  BY <1>1, HasAppended DEF IntentFits
<1>3. Cardinality(Events!Appended) = Len(log)
  BY <1>1, LogIsASet
<1>4. Events!FinalId <= Len(log) => Events!FinalId = Len(log)
  <2>1. Len(log) \in Nat
    BY <1>1 DEF LogFits
  <2> QED
    BY <1>1, <2>1, FinalIsLast
<1>5. \A e \in Events!Event : sent[e] <= 1
  BY <1>1 DEF IntentFits
<1> QED
  BY <1>2, <1>3, <1>4, <1>5, SameSizeOfEvents DEF Events!PublishedOnce

\* What the invariant says of a stream that is done.
LEMMA InvCompletes == ASSUME ArtifactsAreFinite, EventsInv PROVE Events!StreamIsComplete
<1>1. SUFFICES ASSUME NEW s \in Stream, stream[s].pc = "done"
               PROVE  \E i \in stream[s].shown : stream[s].shown = i..Events!FinalId
  BY DEF Events!StreamIsComplete
<1>2. LogFits(log) /\ StreamFits(stream[s], log)
  BY DEF EventsInv
<1>3. Events!FinalId = stream[s].last /\ stream[s].shown # {}
  BY <1>1, <1>2, FinalIsLast DEF StreamFits
<1> QED
  BY <1>2, <1>3 DEF StreamFits

\* Every behaviour of the parts shows the events one of their own.
LEMMA EventsIsPart == A2aSpec => Events!Spec
<1>1. A2aInit => Events!Init
  BY DEF A2aInit
<1>2. [A2aNext]_allVars => [Events!Next]_(Events!vars)
  BY DEF A2aNext, allVars, eventVars, Events!vars, InSnapshot, InTask, InEvents, InJournal
<1> QED
  BY <1>1, <1>2, PTL DEF A2aSpec, Events!Spec

\* However many requests, streams and recovery workers meet at one event, and
\* over failed appends, dropped requests, deadlines and crashes, an event that
\* the mapper has settled is in the store, no event is there twice, none follows
\* the terminal one, and none is broadcast twice (deliver_pending_event,
\* A2aEventStore::append, mark_event_settled).
THEOREM EventsArePublishedOnce ==
    ASSUME ArtifactsAreFinite PROVE A2aSpec => []PublishedOnce
<1>1. EventsInv => PublishedOnce
  BY InvPublishes DEF PublishedOnce
<1>2. Events!Spec => []EventsInv
  BY EventsInvHolds
<1> QED
  BY <1>1, <1>2, EventsIsPart, PTL

\* A stream that ends with the terminal frame has shown every event since the
\* first it showed: what its receiver missed, because it lagged, was late or an
\* event came out of turn, was replayed from the store (handle_subscribe,
\* write_sse_stream, replay_to_high_water).
THEOREM StreamsAreComplete ==
    ASSUME ArtifactsAreFinite PROVE A2aSpec => []StreamIsComplete
<1>1. EventsInv => StreamIsComplete
  BY InvCompletes DEF StreamIsComplete
<1>2. Events!Spec => []EventsInv
  BY EventsInvHolds
<1> QED
  BY <1>1, <1>2, EventsIsPart, PTL

-----------------------------------------------------------------------------
(* Snapshots.                                                              *)
(*                                                                         *)
(* Everything rests on one fact about the store: it only ever grows, since *)
(* a compare-and-swap that is applied to a stored head was prepared by the *)
(* holder of a server's commit lock on a mapper that is that head.  So     *)
(* what was stored once is in the history of every later head, a candidate *)
(* that was stored is not hidden behind the head it was to replace, and    *)
(* the head a read looked up lies between the one at its start and the one *)
(* at its end.                                                             *)

(* The inductive invariant, over the state of one server and one call. *)

\* Where a call holds the commit lock.
Locked == {"load", "recheck", "mutate", "cas", "probe", "recas", "reprobe",
           "classify", "install"}

\* Where a candidate is being stored.
Storing == {"cas", "probe", "recas", "reprobe", "classify", "install"}

\* A mapper bound to the store has been in it, and a mapper comes from the store.
ServerFacts(sv, st) ==
    /\ sv.ready => sv.cached = sv.live /\ Within(sv.live, st)
    /\ st = NoVersion => sv.live = <<>>

\* What the answer of a call says.
AnswerFacts(cl, st) ==
    /\ cl.refused => ~cl.wrote
    /\ cl.served # NoVersion => Within(cl.floor, cl.served) /\ Within(cl.served, st)

\* What a running call has: no answer yet, and a head at its start.
RunningFacts(cl, sv, st) ==
    cl.pc # "idle" => sv.up /\ ~cl.refused /\ cl.served = NoVersion /\ Within(cl.floor, st)

\* A base is the empty mapper, stored only where there is nothing.
BaseFacts(cl, sv) ==
    cl.base => ~cl.wrote /\ cl.target = <<>> /\ sv.live = <<>> /\ cl.expected = NoVersion

\* A candidate goes one mutation beyond the mapper bound to the store.
CandidateFacts(cl, sv, st) ==
    ~cl.base => /\ sv.ready /\ cl.expected = sv.live
                /\ Len(cl.target) = Len(sv.live) + 1 /\ Within(sv.live, cl.target)
                /\ cl.wrote => Within(cl.target, st)

\* What a writer knows, by where it is.
WriterFacts(c, cl, sv, st) ==
    /\ cl.pc \in Locked => sv.writer = c
    /\ cl.pc \in {"wait", "load", "mutate"} => ~cl.wrote
    /\ cl.pc \in {"wait", "load"} => ~cl.base /\ cl.expected = NoVersion
    /\ cl.pc = "recheck" => sv.ready
    /\ cl.pc = "mutate" => BaseFacts(cl, sv) /\ (~cl.base => sv.ready)
    /\ cl.pc \in Storing => BaseFacts(cl, sv) /\ CandidateFacts(cl, sv, st)
    /\ cl.pc = "install" => Within(cl.target, st)

\* What a reader has looked up.
ReaderFacts(cl, sv, st) ==
    /\ cl.pc \in {"look", "serve"} => sv.ready
    /\ cl.pc = "serve" => Within(cl.floor, cl.observed) /\ Within(cl.observed, st)

CallFacts(c, cl, sv, st) ==
    /\ AnswerFacts(cl, st) /\ RunningFacts(cl, sv, st)
    /\ WriterFacts(c, cl, sv, st) /\ ReaderFacts(cl, sv, st)

SnapshotInv ==
    /\ TypeOK
    /\ \A s \in Server : ServerFacts(server[s], store)
    /\ \A c \in Call : CallFacts(c, call[c], Here(c), store)
    /\ \A ack \in acked : Within(ack.version, store)

-----------------------------------------------------------------------------
(* Prefixes. *)

\* A mapper is a version and is not the missing one.
LEMMA MapperIsVersion ==
    ASSUME NEW m \in Mapper
    PROVE  m \in Version /\ m # NoVersion /\ Len(m) \in Nat
BY NoVersionIsNone DEF Mapper, Version

\* The mapper of a new server is a mapper without mutations.
LEMMA EmptyIsMapper == <<>> \in Mapper /\ Len(<<>>) = 0
BY DEF Mapper

\* Every mapper contains itself.
LEMMA WithinItself ==
    ASSUME NEW m \in Version PROVE Within(m, m)
<1>1. CASE m = NoVersion
  BY <1>1 DEF Within
<1>2. CASE m \in Mapper
  BY <1>2, MapperIsVersion DEF Within, Mapper
<1> QED
  BY <1>1, <1>2 DEF Version

\* What is within something missing is missing.
LEMMA WithinNothing ==
    ASSUME NEW m \in Version, NEW n \in Version, Within(m, n), n = NoVersion
    PROVE  m = NoVersion
BY DEF Within

\* The empty mapper is within every mapper.
LEMMA EmptyWithin ==
    ASSUME NEW n \in Version, n # NoVersion PROVE Within(<<>>, n)
<1>1. n \in Mapper
  BY DEF Version
<1>2. Len(n) \in Nat /\ Len(<<>>) = 0
  BY <1>1 DEF Mapper
<1> QED
  BY <1>2 DEF Within

\* What a mapper contains is contained in every mapper that extends it.
LEMMA WithinTransitive ==
    ASSUME NEW l \in Version, NEW m \in Version, NEW n \in Version,
           Within(l, m), Within(m, n)
    PROVE  Within(l, n)
<1>1. CASE l = NoVersion
  BY <1>1 DEF Within
<1>2. CASE l # NoVersion
  <2>1. m # NoVersion /\ n # NoVersion
    BY <1>2 DEF Within
  <2>2. l \in Mapper /\ m \in Mapper /\ n \in Mapper
    BY <1>2, <2>1 DEF Version
  <2>3. Len(l) \in Nat /\ Len(m) \in Nat /\ Len(n) \in Nat
    BY <2>2, MapperIsVersion
  <2>4. Len(l) <= Len(m) /\ \A i \in 1..Len(l) : l[i] = m[i]
    BY <1>2 DEF Within
  <2>5. Len(m) <= Len(n) /\ \A i \in 1..Len(m) : m[i] = n[i]
    BY <2>1 DEF Within
  <2>6. ASSUME NEW i \in 1..Len(l) PROVE l[i] = n[i]
    <3>1. i \in 1..Len(m)
      BY <2>3, <2>4
    <3> QED
      BY <2>4, <2>5, <3>1
  <2>7. Len(l) <= Len(n)
    BY <2>3, <2>4, <2>5
  <2> QED
    BY <2>1, <2>6, <2>7 DEF Within
<1> QED
  BY <1>1, <1>2

\* A mutation extends the mapper by one.
LEMMA AppendExtends ==
    ASSUME NEW m \in Mapper, NEW op \in Op
    PROVE  /\ Append(m, op) \in Mapper
           /\ Len(Append(m, op)) = Len(m) + 1
           /\ Within(m, Append(m, op))
<1>1. /\ Append(m, op) \in Mapper /\ Len(m) \in Nat
      /\ Len(Append(m, op)) = Len(m) + 1
      /\ \A i \in 1..Len(m) : Append(m, op)[i] = m[i]
  BY DEF Mapper
<1>2. Append(m, op) # NoVersion
  BY <1>1, MapperIsVersion
<1> QED
  BY <1>1, <1>2 DEF Within

-----------------------------------------------------------------------------
(* What a step leaves alone. *)

\* What another call of the same server may do to it: the server stays up and
\* bound, and the holder of the lock finds everything as it was.
Respects(c, old, new) ==
    /\ old.up => new.up
    /\ old.ready => new.ready
    /\ old.writer \notin {c, NoCall} =>
           new.writer = old.writer /\ new.live = old.live /\ new.ready = old.ready

\* A server keeps what is known of it while the store grows.
LEMMA ServerFactsStay ==
    ASSUME NEW sv \in ServerState, NEW st \in Version, NEW next \in Version,
           Within(st, next), ServerFacts(sv, st)
    PROVE  ServerFacts(sv, next)
<1>1. sv.live \in Mapper
  BY DEF ServerState
<1>2. sv.live \in Version
  BY <1>1, MapperIsVersion
<1>3. next = NoVersion => st = NoVersion
  BY WithinNothing
<1>4. Within(sv.live, st) => Within(sv.live, next)
  BY <1>2, WithinTransitive
<1> QED
  BY <1>3, <1>4 DEF ServerFacts

\* So does a call, whatever another call of its server does.
LEMMA CallFactsStay ==
    ASSUME NEW c \in Call, NEW other \in Call, other # c,
           NEW cl \in CallState, NEW old \in ServerState, NEW new \in ServerState,
           NEW st \in Version, NEW next \in Version,
           Within(st, next), Respects(c, old, new), CallFacts(other, cl, old, st)
    PROVE  CallFacts(other, cl, new, next)
<1>1. /\ cl.floor \in Version /\ cl.served \in Version /\ cl.observed \in Version
      /\ cl.target \in Version /\ cl.pc \in Pc
  BY MapperIsVersion DEF CallState
<1>2. \A m \in Version : Within(m, st) => Within(m, next)
  BY WithinTransitive
<1>3. AnswerFacts(cl, next)
  BY <1>1, <1>2 DEF CallFacts, AnswerFacts
<1>4. RunningFacts(cl, new, next)
  BY <1>1, <1>2 DEF CallFacts, RunningFacts, Respects
<1>5. ReaderFacts(cl, new, next)
  BY <1>1, <1>2 DEF CallFacts, ReaderFacts, Respects
<1>6. CASE cl.pc \in Locked
  <2>1. old.writer = other /\ other \notin {c, NoCall}
    BY <1>6, NoCallIsNone DEF CallFacts, WriterFacts
  <2>2. new.writer = other /\ new.live = old.live /\ new.ready = old.ready
    BY <2>1 DEF Respects
  <2> QED
    BY <1>1, <1>2, <1>3, <1>4, <1>5, <2>2
    DEF CallFacts, WriterFacts, BaseFacts, CandidateFacts
<1>7. CASE cl.pc \notin Locked
  BY <1>3, <1>4, <1>5, <1>7 DEF CallFacts, WriterFacts, Locked, Storing
<1> QED
  BY <1>6, <1>7

\* A step of one call, which changes its server to new and itself to cl.
StepTo(c, new, cl) ==
    /\ server' = [server EXCEPT ![Home[c]] = new]
    /\ call' = [call EXCEPT ![c] = cl]

\* A step of a call that leaves the store alone keeps the invariant.
LEMMA StoreStepKeeps ==
    ASSUME SnapshotInv, NEW c \in Call,
           NEW new \in ServerState, NEW cl \in CallState,
           store' \in Version, Within(store, store'), StepTo(c, new, cl),
           Respects(c, Here(c), new),
           ServerFacts(new, store'), CallFacts(c, cl, new, store'),
           \/ acked' = acked
           \/ \E m \in Mapper : /\ Within(m, store')
                                /\ acked' = acked \cup {[server |-> Home[c], version |-> m]}
    PROVE  SnapshotInv'
<1>1. /\ Home[c] \in Server /\ server \in [Server -> ServerState]
      /\ call \in [Call -> CallState] /\ store \in Version
      /\ acked \in SUBSET [server: Server, version: Mapper]
  BY HomeIsServer DEF SnapshotInv, TypeOK
<1>2. /\ server' \in [Server -> ServerState] /\ call' \in [Call -> CallState]
      /\ server'[Home[c]] = new /\ call'[c] = cl
      /\ \A s \in Server \ {Home[c]} : server'[s] = server[s]
      /\ \A other \in Call \ {c} : call'[other] = call[other]
  BY <1>1 DEF StepTo
<1>3. acked' \in SUBSET [server: Server, version: Mapper]
  BY <1>1
<1>4. \A ack \in acked' : Within(ack.version, store')
  <2>1. ASSUME NEW ack \in acked PROVE Within(ack.version, store')
    <3>1. ack.version \in Version /\ Within(ack.version, store)
      BY <1>1, MapperIsVersion DEF SnapshotInv
    <3> QED
      BY <1>1, <3>1, WithinTransitive
  <2> QED
    BY <2>1
<1>5. ASSUME NEW s \in Server PROVE ServerFacts(server'[s], store')
  <2>1. CASE s = Home[c]
    BY <1>2, <2>1
  <2>2. CASE s # Home[c]
    <3>1. server'[s] = server[s] /\ server[s] \in ServerState
      BY <1>1, <1>2, <2>2
    <3>2. ServerFacts(server[s], store)
      BY DEF SnapshotInv
    <3> QED
      BY <1>1, <3>1, <3>2, ServerFactsStay
  <2> QED
    BY <2>1, <2>2
<1>6. ASSUME NEW other \in Call
      PROVE  CallFacts(other, call'[other], server'[Home[other]], store')
  <2>1. CASE other = c
    BY <1>2, <2>1
  <2>2. CASE other # c
    <3> DEFINE old  == server[Home[other]]
               next == server'[Home[other]]
    <3>1. call'[other] = call[other] /\ call[other] \in CallState
      BY <1>1, <1>2, <2>2
    <3>2. Home[other] \in Server
      BY HomeIsServer
    <3>3. old \in ServerState /\ next \in ServerState
      BY <1>1, <1>2, <3>2
    <3>4. CallFacts(other, call[other], old, store)
      BY DEF SnapshotInv, Here
    <3>5. Respects(c, old, next)
      <4>1. CASE Home[other] = Home[c]
        BY <1>2, <4>1 DEF Here
      <4>2. CASE Home[other] # Home[c]
        <5>1. next = old
          BY <1>2, <3>2, <4>2
        <5> QED
          BY <5>1 DEF Respects
      <4> QED
        BY <4>1, <4>2
    <3> HIDE DEF old, next
    <3>6. CallFacts(other, call[other], next, store')
      BY <1>1, <2>2, <3>1, <3>3, <3>4, <3>5, CallFactsStay
    <3> QED
      BY <3>1, <3>6 DEF next
  <2> QED
    BY <2>1, <2>2
<1>7. TypeOK'
  BY <1>2, <1>3 DEF TypeOK
<1> QED
  BY <1>4, <1>5, <1>6, <1>7 DEF SnapshotInv, Here

-----------------------------------------------------------------------------
(* How calls end and move on. *)

\* The types of a call, of its server and of the store.
LEMMA RecordFacts ==
    ASSUME SnapshotInv, NEW c \in Call
    PROVE  /\ Here(c) \in ServerState /\ call[c] \in CallState /\ store \in Version
           /\ ServerFacts(Here(c), store) /\ CallFacts(c, call[c], Here(c), store)
           /\ Within(store, store) /\ Home[c] \in Server
<1>1. Home[c] \in Server
  BY HomeIsServer
<1>2. Here(c) \in ServerState /\ call[c] \in CallState /\ store \in Version
  BY <1>1 DEF SnapshotInv, TypeOK, Here
<1> QED
  BY <1>1, <1>2, WithinItself DEF SnapshotInv, Here

\* A call at rest is a call.
LEMMA RestIsCall == Rest \in CallState /\ Rest.pc = "idle"
BY EmptyIsMapper DEF Rest, CallState, Pc, Kind, Version

\* Giving back the commit lock leaves a server well formed.
LEMMA UnlockedServer ==
    ASSUME NEW c \in Call, Here(c) \in ServerState
    PROVE  /\ Unlocked(c) \in ServerState
           /\ Unlocked(c).up = Here(c).up /\ Unlocked(c).live = Here(c).live
           /\ Unlocked(c).cached = Here(c).cached /\ Unlocked(c).ready = Here(c).ready
           /\ Here(c).writer # c => Unlocked(c).writer = Here(c).writer
BY DEF Unlocked, ServerState

\* A call that has its answer is well formed.
LEMMA EndedCall ==
    ASSUME NEW c \in Call, NEW cl \in CallState, NEW sv, cl.pc = "idle",
           AnswerFacts(cl, store)
    PROVE  CallFacts(c, cl, sv, store)
BY DEF CallFacts, RunningFacts, WriterFacts, ReaderFacts, Locked, Storing

\* Giving an answer that is true keeps the invariant.
LEMMA ReturnKeeps ==
    ASSUME SnapshotInv, NEW c \in Call, NEW final \in CallState,
           Return(c, final), final.pc = "idle", AnswerFacts(final, store),
           UNCHANGED <<store, acked>>
    PROVE  SnapshotInv'
<1>1. Unlocked(c) \in ServerState /\ Respects(c, Here(c), Unlocked(c))
  BY RecordFacts, UnlockedServer DEF Respects
<1>2. ServerFacts(Unlocked(c), store)
  BY RecordFacts, UnlockedServer DEF ServerFacts
<1>3. CallFacts(c, final, Unlocked(c), store)
  BY EndedCall
<1>4. StepTo(c, Unlocked(c), final)
  BY DEF Return, StepTo
<1> QED
  BY <1>1, <1>2, <1>3, <1>4, RecordFacts, StoreStepKeeps

\* Stopping a server that cannot tell the outcome keeps the invariant.
LEMMA FailStopKeeps ==
    ASSUME SnapshotInv, NEW c \in Call, FailStop(c), UNCHANGED <<store, acked>>
    PROVE  SnapshotInv'
<1> DEFINE new == [Unlocked(c) EXCEPT !.failed = TRUE]
<1>1. new \in ServerState /\ Respects(c, Here(c), new) /\ ServerFacts(new, store)
  BY RecordFacts, UnlockedServer DEF Respects, ServerFacts, ServerState
<1>2. CallFacts(c, Rest, new, store)
  BY EndedCall, RestIsCall DEF AnswerFacts, Rest
<1>3. StepTo(c, new, Rest)
  BY DEF FailStop, StepTo
<1> QED
  BY <1>1, <1>2, <1>3, RecordFacts, RestIsCall, StoreStepKeeps

\* Dropping a call keeps the invariant.
LEMMA StoreRestKeeps ==
    ASSUME SnapshotInv, NEW c \in Call, Return(c, Rest), UNCHANGED <<store, acked>>
    PROVE  SnapshotInv'
<1>1. AnswerFacts(Rest, store)
  BY DEF AnswerFacts, Rest
<1> QED
  BY <1>1, RestIsCall, ReturnKeeps

\* The call changes itself and not its server.
LEMMA CallKeeps ==
    ASSUME SnapshotInv, NEW c \in Call, NEW cl \in CallState,
           call' = [call EXCEPT ![c] = cl], UNCHANGED <<server, acked>>,
           store' \in Version, Within(store, store'),
           CallFacts(c, cl, Here(c), store')
    PROVE  SnapshotInv'
<1>1. StepTo(c, Here(c), cl)
  <2>1. server = [server EXCEPT ![Home[c]] = Here(c)]
    BY RecordFacts DEF SnapshotInv, TypeOK, Here
  <2> QED
    BY <2>1 DEF StepTo
<1>2. Respects(c, Here(c), Here(c))
  BY DEF Respects
<1>3. ServerFacts(Here(c), store')
  BY RecordFacts, ServerFactsStay
<1> QED
  BY <1>1, <1>2, <1>3, RecordFacts, StoreStepKeeps

\* A call that goes on where it has what it needs there.
LEMMA GotoKeeps ==
    ASSUME SnapshotInv, NEW c \in Call, NEW pc \in Pc, Goto(c, pc),
           UNCHANGED <<store, server, acked>>,
           CallFacts(c, [call[c] EXCEPT !.pc = pc], Here(c), store)
    PROVE  SnapshotInv'
<1> DEFINE cl == [call[c] EXCEPT !.pc = pc]
<1>1. cl \in CallState
  BY RecordFacts DEF CallState
<1>2. call' = [call EXCEPT ![c] = cl]
  BY DEF Goto
<1> HIDE DEF cl
<1> QED
  BY <1>1, <1>2, RecordFacts, CallKeeps DEF cl

\* The writer goes on as a reader, its mapper bound to the store.
LEMMA ReadOnKeeps ==
    ASSUME SnapshotInv, NEW c \in Call, NEW state \in ServerState, ReadOn(c, state),
           UNCHANGED <<store, acked>>, call[c].pc \in Locked,
           state.up = Here(c).up, state.ready, ServerFacts(state, store)
    PROVE  SnapshotInv'
<1> DEFINE new == [state EXCEPT !.writer = NoCall]
           cl  == [Rest EXCEPT
                      !.pc = "look", !.kind = call[c].kind, !.floor = call[c].floor,
                      !.expected = IF call[c].kind = "noop" THEN state.cached ELSE NoVersion]
<1>1. new \in ServerState /\ ServerFacts(new, store) /\ new.ready /\ new.up = Here(c).up
  BY DEF ServerState, ServerFacts
<1>2. Here(c).writer = c /\ Here(c).up /\ Within(call[c].floor, store)
  BY RecordFacts DEF CallFacts, WriterFacts, RunningFacts, Locked
<1>3. Respects(c, Here(c), new)
  BY <1>1, <1>2 DEF Respects
<1>4. cl \in CallState /\ cl.pc = "look"
  <2>1. /\ call[c].kind \in Kind /\ call[c].floor \in Version
        /\ state.cached \in Version /\ NoVersion \in Version
    BY RecordFacts DEF CallState, ServerState, Version
  <2> QED
    BY <2>1, RestIsCall DEF CallState, Pc, Rest
<1>5. /\ cl.floor = call[c].floor /\ ~cl.refused /\ cl.served = NoVersion
  BY DEF Rest
<1>6. StepTo(c, new, cl)
  BY DEF ReadOn, StepTo
<1> HIDE DEF cl, new
<1>7. CallFacts(c, cl, new, store)
  BY <1>1, <1>2, <1>4, <1>5
  DEF CallFacts, AnswerFacts, RunningFacts, WriterFacts, ReaderFacts, Locked, Storing
<1> QED
  BY <1>1, <1>3, <1>4, <1>6, <1>7, RecordFacts, StoreStepKeeps

-----------------------------------------------------------------------------
(* The steps of a call. *)

\* Begin and the lookups that decide nothing keep the invariant.
LEMMA BeginKeeps ==
    ASSUME SnapshotInv, NEW c \in Call, Begin(c) PROVE SnapshotInv'
<1>1. PICK kind \in Asks[c] :
          call' = [call EXCEPT ![c] =
               [Rest EXCEPT !.pc = IF kind = "read" /\ Here(c).ready THEN "look" ELSE "wait",
                            !.kind = kind, !.floor = store]]
  BY DEF Begin
<1> DEFINE cl == [Rest EXCEPT !.pc = IF kind = "read" /\ Here(c).ready THEN "look" ELSE "wait",
                              !.kind = kind, !.floor = store]
<1>2. kind \in Kind
  BY AsksIsKinds DEF Kind
<1>3. cl \in CallState
  BY <1>2, RecordFacts, RestIsCall DEF CallState, Pc, Rest
<1>4. /\ cl.pc = (IF kind = "read" /\ Here(c).ready THEN "look" ELSE "wait")
      /\ cl.floor = store /\ ~cl.refused /\ ~cl.wrote /\ ~cl.base
      /\ cl.served = NoVersion /\ cl.expected = NoVersion
  BY DEF Rest
<1>5. call' = [call EXCEPT ![c] = cl]
  BY <1>1
<1> HIDE DEF cl
<1>6. CallFacts(c, cl, Here(c), store)
  BY <1>4, RecordFacts
  DEF Begin, CallFacts, AnswerFacts, RunningFacts, WriterFacts, ReaderFacts, Locked, Storing
<1> QED
  BY <1>3, <1>5, <1>6, RecordFacts, CallKeeps DEF Begin

\* Taking the commit lock keeps the invariant.
LEMMA LockKeeps ==
    ASSUME SnapshotInv, NEW c \in Call, Lock(c) PROVE SnapshotInv'
<1>1. CASE Here(c).failed
  BY <1>1, StoreRestKeeps DEF Lock
<1>2. CASE ~Here(c).failed
  <2> DEFINE pc  == IF ~Here(c).ready THEN "load"
                    ELSE IF call[c].kind = "read" THEN "recheck" ELSE "mutate"
             new == [Here(c) EXCEPT !.writer = c]
             cl  == [call[c] EXCEPT !.pc = pc]
  <2>1. StepTo(c, new, cl)
    BY <1>2 DEF Lock, Goto, StepTo, Here
  <2>2. new \in ServerState /\ ServerFacts(new, store) /\ Respects(c, Here(c), new)
    BY RecordFacts DEF ServerState, ServerFacts, Respects, Lock
  <2>3. cl \in CallState /\ cl.pc = pc
    BY RecordFacts DEF CallState, Pc
  <2>4. CallFacts(c, cl, new, store)
    BY <2>3, RecordFacts
    DEF Lock, CallFacts, AnswerFacts, RunningFacts, WriterFacts, ReaderFacts, BaseFacts,
        Locked, Storing, CallState, ServerState
  <2> HIDE DEF cl, new, pc
  <2> QED
    BY <2>1, <2>2, <2>3, <2>4, RecordFacts, StoreStepKeeps DEF Lock
<1> QED
  BY <1>1, <1>2

\* Comparing the cached version with the stored one keeps the invariant.
LEMMA StoreRecheckKeeps ==
    ASSUME SnapshotInv, NEW c \in Call, Recheck(c) PROVE SnapshotInv'
<1>1. CASE ReadOn(c, Here(c))
  BY <1>1, RecordFacts, ReadOnKeeps DEF Recheck, Locked, CallFacts, WriterFacts
<1> QED
  BY <1>1, FailStopKeeps, StoreRestKeeps DEF Recheck

\* acquire_current_snapshot_read and the commit's reload: a server takes over the
\* mapper that the store holds, or finds that its own is current.
LEMMA LoadKeeps ==
    ASSUME SnapshotInv, NEW c \in Call, Load(c) PROVE SnapshotInv'
<1> DEFINE loaded == [Here(c) EXCEPT !.cached = store, !.ready = TRUE]
<1>1. /\ call[c].pc = "load" /\ Here(c).writer = c /\ ~call[c].wrote /\ ~call[c].base
      /\ call[c].expected = NoVersion /\ call[c].pc \in Locked
      /\ UNCHANGED <<store, acked>>
  BY RecordFacts DEF Load, CallFacts, WriterFacts, Locked
<1>2. CASE FailStop(c)
  BY <1>1, <1>2, FailStopKeeps
<1>3. CASE /\ store # NoVersion /\ store = Here(c).live
           /\ IF call[c].kind = "read" THEN ReadOn(c, loaded)
              ELSE /\ server' = [server EXCEPT ![Home[c]].cached = store,
                                               ![Home[c]].ready = TRUE]
                   /\ Goto(c, "mutate")
  <2>1. /\ loaded \in ServerState /\ loaded.ready /\ loaded.up = Here(c).up
        /\ ServerFacts(loaded, store)
    BY <1>3, RecordFacts DEF ServerState, ServerFacts
  <2>2. CASE call[c].kind = "read"
    <3> HIDE DEF loaded
    <3> QED
      BY <1>1, <1>3, <2>1, <2>2, ReadOnKeeps
  <2>3. CASE call[c].kind # "read"
    <3> DEFINE cl == [call[c] EXCEPT !.pc = "mutate"]
    <3>1. StepTo(c, loaded, cl)
      <4>1. server' = [server EXCEPT ![Home[c]] = loaded]
        BY <1>3, <2>3, RecordFacts DEF Here, SnapshotInv, TypeOK, ServerState
      <4> QED
        BY <1>3, <2>3, <4>1 DEF Goto, StepTo
    <3>2. cl \in CallState
      BY RecordFacts DEF CallState, Pc
    <3>3. Respects(c, Here(c), loaded)
      BY <1>1, RecordFacts DEF Respects, ServerState
    <3>4. CallFacts(c, cl, loaded, store)
      BY <1>1, RecordFacts
      DEF CallFacts, AnswerFacts, RunningFacts, WriterFacts, ReaderFacts, BaseFacts,
          Locked, Storing, CallState, ServerState
    <3> HIDE DEF cl, loaded
    <3> QED
      BY <1>1, <2>1, <3>1, <3>2, <3>3, <3>4, RecordFacts, StoreStepKeeps
  <2> QED
    BY <2>2, <2>3
<1>4. CASE /\ store = NoVersion
           /\ call' = [call EXCEPT ![c].base = TRUE, ![c].target = Here(c).live,
                                   ![c].pc = IF call[c].kind = "read" THEN "cas" ELSE "mutate"]
           /\ server' = IF call[c].kind = "read" THEN server
                        ELSE [server EXCEPT ![Home[c]].cached = Here(c).live]
  <2> DEFINE cl  == [call[c] EXCEPT !.base = TRUE, !.target = Here(c).live,
                                    !.pc = IF call[c].kind = "read" THEN "cas" ELSE "mutate"]
             new == IF call[c].kind = "read" THEN Here(c)
                    ELSE [Here(c) EXCEPT !.cached = Here(c).live]
  <2>1. Here(c).live = <<>> /\ Here(c).live \in Mapper
    BY <1>4, RecordFacts DEF ServerFacts, ServerState
  <2>2. cl \in CallState
    BY <2>1, RecordFacts DEF CallState, Pc
  <2>3. /\ new \in ServerState /\ new.live = Here(c).live /\ new.ready = Here(c).ready
        /\ new.writer = c /\ new.up = Here(c).up
    BY <1>1, <2>1, RecordFacts, MapperIsVersion DEF ServerState
  <2>4. ~Here(c).ready
    <3>1. Here(c).live \in Version /\ Here(c).live # NoVersion
      BY <2>1, MapperIsVersion
    <3> QED
      BY <1>4, <3>1, RecordFacts, WithinNothing DEF ServerFacts
  <2>5. ServerFacts(new, store) /\ Respects(c, Here(c), new)
    BY <1>1, <2>1, <2>3, <2>4 DEF ServerFacts, Respects
  <2>6. StepTo(c, new, cl)
    <3>1. server' = [server EXCEPT ![Home[c]] = new]
      BY <1>4, RecordFacts DEF Here, SnapshotInv, TypeOK, ServerState
    <3>2. call' = [call EXCEPT ![c] = cl]
      BY <1>4, RecordFacts DEF SnapshotInv, TypeOK, CallState
    <3> QED
      BY <3>1, <3>2 DEF StepTo
  <2>7. CallFacts(c, cl, new, store)
    <3>1. /\ cl.base /\ cl.target = <<>> /\ cl.pc \in {"cas", "mutate"}
          /\ cl.expected = NoVersion /\ ~cl.wrote /\ ~cl.refused
          /\ cl.served = NoVersion /\ Within(cl.floor, store) /\ Here(c).up
      BY <1>1, <2>1, RecordFacts DEF CallState, CallFacts, RunningFacts
    <3> HIDE DEF cl, new
    <3> QED
      BY <2>1, <2>3, <3>1
      DEF CallFacts, AnswerFacts, RunningFacts, WriterFacts, ReaderFacts, BaseFacts,
          CandidateFacts, Locked, Storing
  <2> HIDE DEF cl, new
  <2> QED
    BY <1>1, <2>2, <2>3, <2>5, <2>6, <2>7, RecordFacts, StoreStepKeeps
<1> QED
  BY <1>2, <1>3, <1>4 DEF Load

\* Mutating the clone of the mapper keeps the invariant.
LEMMA MutateKeeps ==
    ASSUME SnapshotInv, NEW c \in Call, Mutate(c) PROVE SnapshotInv'
<1>1. /\ call[c].pc = "mutate" /\ Here(c).writer = c /\ call[c].pc \in Locked
      /\ ~call[c].wrote /\ BaseFacts(call[c], Here(c))
      /\ ~call[c].base => Here(c).ready
      /\ UNCHANGED <<store, acked>>
  BY RecordFacts DEF Mutate, CallFacts, WriterFacts, Locked
<1>2. call[c].base => CallFacts(c, [call[c] EXCEPT !.pc = "cas"], Here(c), store)
  BY <1>1, RecordFacts
  DEF CallFacts, AnswerFacts, RunningFacts, WriterFacts, ReaderFacts, BaseFacts,
      CandidateFacts, Locked, Storing, CallState
<1>3. CASE Return(c, Rest)
  BY <1>1, <1>3, StoreRestKeeps
<1>4. CASE ~call[c].base /\ ReadOn(c, Here(c))
  BY <1>1, <1>4, RecordFacts, ReadOnKeeps
<1>5. CASE call[c].base /\ Goto(c, "cas") /\ UNCHANGED server
  BY <1>1, <1>2, <1>5, GotoKeeps DEF Pc
<1>6. ASSUME NEW op \in Op, ~call[c].base, UNCHANGED server,
             call' = [call EXCEPT ![c].pc = "cas", ![c].expected = Here(c).cached,
                                  ![c].target = Append(Here(c).live, op)]
      PROVE  SnapshotInv'
  <2> DEFINE cl == [call[c] EXCEPT !.pc = "cas", !.expected = Here(c).cached,
                                   !.target = Append(Here(c).live, op)]
  <2>1. /\ Here(c).live \in Mapper /\ Here(c).cached \in Version
        /\ Here(c).ready /\ Here(c).cached = Here(c).live
    BY <1>1, <1>6, RecordFacts DEF ServerState, ServerFacts
  <2>2. /\ Append(Here(c).live, op) \in Mapper
        /\ Len(Append(Here(c).live, op)) = Len(Here(c).live) + 1
        /\ Within(Here(c).live, Append(Here(c).live, op))
    BY <2>1, AppendExtends
  <2>3. cl \in CallState
    BY <2>1, <2>2, RecordFacts DEF CallState, Pc
  <2>4. call' = [call EXCEPT ![c] = cl]
    BY <1>6, RecordFacts DEF SnapshotInv, TypeOK, CallState
  <2>5. /\ cl.pc = "cas" /\ cl.expected = Here(c).live
        /\ cl.target = Append(Here(c).live, op) /\ ~cl.base
        /\ ~cl.wrote /\ ~cl.refused /\ cl.served = NoVersion
        /\ Within(cl.floor, store) /\ Here(c).up
    BY <1>1, <1>6, <2>1, RecordFacts DEF CallState, CallFacts, RunningFacts
  <2> HIDE DEF cl
  <2>6. CallFacts(c, cl, Here(c), store)
    BY <1>1, <2>1, <2>2, <2>5
    DEF CallFacts, AnswerFacts, RunningFacts, WriterFacts, ReaderFacts, BaseFacts,
        CandidateFacts, Locked, Storing
  <2> QED
    BY <1>1, <1>6, <2>3, <2>4, <2>6, RecordFacts, CallKeeps
<1> QED
  BY <1>3, <1>4, <1>5, <1>6 DEF Mutate, Goto

-----------------------------------------------------------------------------
(* Storing a candidate. *)

\* An applied compare-and-swap extends the stored mapper.
LEMMA AppliedExtends ==
    ASSUME SnapshotInv, NEW c \in Call, call[c].pc \in Storing,
           CasOutcome(call[c].expected, call[c].target) = "applied"
    PROVE  Within(store, call[c].target)
<1>1. CASE store = NoVersion
  BY <1>1 DEF Within
<1>2. CASE store # NoVersion
  <2>1. call[c].expected = store
    BY <1>2 DEF CasOutcome
  <2>2. BaseFacts(call[c], Here(c)) /\ CandidateFacts(call[c], Here(c), store)
    BY RecordFacts DEF CallFacts, WriterFacts
  <2> QED
    BY <1>2, <2>1, <2>2 DEF BaseFacts, CandidateFacts
<1> QED
  BY <1>1, <1>2

\* What a call that is storing knows stays true where it goes on storing, with
\* what it wrote in the store.
LEMMA StoringGoesOn ==
    ASSUME SnapshotInv, NEW c \in Call, call[c].pc \in Storing,
           NEW next \in Version, Within(store, next), NEW pc \in Storing,
           NEW wrote \in BOOLEAN,
           wrote => call[c].wrote \/ (call[c].target # <<>> /\ next = call[c].target),
           pc = "install" => Within(call[c].target, next)
    PROVE  /\ [call[c] EXCEPT !.pc = pc, !.wrote = wrote] \in CallState
           /\ CallFacts(c, [call[c] EXCEPT !.pc = pc, !.wrote = wrote], Here(c), next)
<1> DEFINE cl == [call[c] EXCEPT !.pc = pc, !.wrote = wrote]
<1>1. pc \in Pc /\ pc # "idle" /\ call[c].pc # "idle"
  BY DEF Storing, Pc
<1>2. /\ cl \in CallState /\ cl.pc = pc /\ cl.wrote = wrote /\ cl.base = call[c].base
      /\ cl.expected = call[c].expected /\ cl.target = call[c].target
      /\ cl.refused = call[c].refused /\ cl.served = call[c].served
      /\ cl.floor = call[c].floor
  BY <1>1, RecordFacts DEF CallState
<1>3. call[c].target \in Version /\ call[c].floor \in Version
  BY RecordFacts, MapperIsVersion DEF CallState
<1>4. \A m \in Version : Within(m, store) => Within(m, next)
  BY RecordFacts, WithinTransitive
<1>5. /\ BaseFacts(call[c], Here(c)) /\ CandidateFacts(call[c], Here(c), store)
      /\ Here(c).writer = c
  BY RecordFacts DEF CallFacts, WriterFacts, Storing, Locked
<1>6. /\ Here(c).up /\ ~call[c].refused /\ call[c].served = NoVersion
      /\ Within(call[c].floor, next)
  BY <1>1, <1>3, <1>4, RecordFacts DEF CallFacts, RunningFacts
<1>7. Within(call[c].target, call[c].target)
  BY <1>3, WithinItself
<1> HIDE DEF cl
<1>8. BaseFacts(cl, Here(c)) /\ CandidateFacts(cl, Here(c), next)
  BY <1>2, <1>3, <1>4, <1>5, <1>7 DEF BaseFacts, CandidateFacts
<1>9. CallFacts(c, cl, Here(c), next)
  BY <1>2, <1>5, <1>6, <1>8
  DEF CallFacts, AnswerFacts, RunningFacts, WriterFacts, ReaderFacts, Storing
<1> QED
  BY <1>2, <1>9 DEF cl

\* A compare-and-swap keeps the invariant, whatever its answer is.
LEMMA CasKeeps ==
    ASSUME SnapshotInv, NEW c \in Call, call[c].pc \in Storing,
           NEW ifUnknown \in Storing \ {"install"}, Cas(c, ifUnknown),
           UNCHANGED <<server, acked>>
    PROVE  SnapshotInv'
<1> DEFINE outcome == CasOutcome(call[c].expected, call[c].target)
           apply   == outcome = "applied"
           stored  == IF apply THEN call[c].target ELSE store
           wrote   == call[c].wrote \/ (apply /\ call[c].target # <<>>)
<1>1. call[c].wrote \in BOOLEAN /\ call[c].target \in Version /\ store \in Version
  BY RecordFacts, MapperIsVersion DEF CallState
<1>2. stored \in Version /\ Within(store, stored)
  BY <1>1, RecordFacts, AppliedExtends
<1>3. outcome \in {"applied", "already", "conflict"}
  BY DEF CasOutcome
<1>4. outcome # "conflict" => Within(call[c].target, stored)
  <2>1. CASE apply
    BY <1>1, <2>1, WithinItself
  <2>2. CASE outcome = "already"
    <3>1. store = call[c].target
      BY <2>2 DEF CasOutcome
    <3> QED
      BY <2>2, <3>1, RecordFacts
  <2> QED
    BY <1>3, <2>1, <2>2
<1>5. wrote \in BOOLEAN
  BY <1>1
<1>6. wrote => call[c].wrote \/ (call[c].target # <<>> /\ stored = call[c].target)
  OBVIOUS
<1> DEFINE told == IF outcome = "conflict" THEN "classify" ELSE "install"
<1>7. told \in Storing /\ (told = "install" => Within(call[c].target, stored))
  BY <1>4 DEF Storing
<1>8. \/ /\ store' = stored
         /\ \E pc \in {told, ifUnknown} :
                call' = [call EXCEPT ![c].pc = pc, ![c].wrote = wrote]
      \/ /\ store' = store
         /\ call' = [call EXCEPT ![c].pc = ifUnknown, ![c].wrote = call[c].wrote]
  BY DEF Cas
<1>9. \A pc, w : [call EXCEPT ![c].pc = pc, ![c].wrote = w]
                     = [call EXCEPT ![c] = [call[c] EXCEPT !.pc = pc, !.wrote = w]]
  BY RecordFacts DEF SnapshotInv, TypeOK, CallState
<1> HIDE DEF outcome, apply, stored, wrote, told
<1>10. ASSUME NEW pc \in {told, ifUnknown}, store' = stored,
              call' = [call EXCEPT ![c].pc = pc, ![c].wrote = wrote]
       PROVE  SnapshotInv'
  <2> DEFINE cl == [call[c] EXCEPT !.pc = pc, !.wrote = wrote]
  <2>1. pc \in Storing /\ (pc = "install" => Within(call[c].target, stored))
    BY <1>7
  <2>2. cl \in CallState /\ CallFacts(c, cl, Here(c), stored)
    BY <1>2, <1>5, <1>6, <2>1, StoringGoesOn
  <2>3. call' = [call EXCEPT ![c] = cl]
    BY <1>9, <1>10
  <2> HIDE DEF cl
  <2> QED
    BY <1>2, <1>10, <2>2, <2>3, CallKeeps
<1>11. ASSUME store' = store,
              call' = [call EXCEPT ![c].pc = ifUnknown, ![c].wrote = call[c].wrote]
       PROVE  SnapshotInv'
  <2> DEFINE cl == [call[c] EXCEPT !.pc = ifUnknown, !.wrote = call[c].wrote]
  <2>1. cl \in CallState /\ CallFacts(c, cl, Here(c), store)
    BY <1>1, RecordFacts, StoringGoesOn
  <2>2. call' = [call EXCEPT ![c] = cl]
    BY <1>9, <1>11
  <2> HIDE DEF cl
  <2> QED
    BY <1>11, <2>1, <2>2, RecordFacts, CallKeeps
<1> QED
  BY <1>8, <1>10, <1>11

\* The expected head shows that nothing was written.
LEMMA NotAppliedKeeps ==
    ASSUME SnapshotInv, NEW c \in Call, call[c].pc \in Storing,
           store = call[c].expected, NotApplied(c), UNCHANGED <<store, acked>>
    PROVE  SnapshotInv'
<1> DEFINE final == [Rest EXCEPT !.refused = TRUE, !.wrote = call[c].wrote]
<1>1. /\ BaseFacts(call[c], Here(c)) /\ CandidateFacts(call[c], Here(c), store)
      /\ call[c].target \in Mapper /\ Here(c).live \in Mapper
  BY RecordFacts DEF CallFacts, WriterFacts, CallState, ServerState
<1>2. ~call[c].wrote
  <2>1. CASE call[c].base
    BY <1>1, <2>1 DEF BaseFacts
  <2>2. CASE ~call[c].base
    <3>1. /\ Len(call[c].target) = Len(store) + 1 /\ store \in Mapper
          /\ call[c].wrote => Within(call[c].target, store)
      BY <1>1, <2>2 DEF CandidateFacts
    <3>2. Len(store) \in Nat /\ call[c].target # NoVersion
      BY <1>1, <3>1, MapperIsVersion
    <3> QED
      BY <3>1, <3>2 DEF Within
  <2> QED
    BY <2>1, <2>2
<1>3. final \in CallState /\ final.pc = "idle"
  BY RecordFacts, RestIsCall DEF CallState, Rest
<1>4. AnswerFacts(final, store)
  BY <1>2 DEF AnswerFacts, Rest
<1>5. Return(c, final)
  BY DEF NotApplied
<1> HIDE DEF final
<1> QED
  BY <1>3, <1>4, <1>5, ReturnKeeps

\* A probe finds the candidate, or the call goes on storing.
LEMMA ProbedKeeps ==
    ASSUME SnapshotInv, NEW c \in Call, call[c].pc \in Storing,
           NEW pc \in Storing, pc = "install" => store = call[c].target,
           Goto(c, pc), UNCHANGED <<store, server, acked>>
    PROVE  SnapshotInv'
<1>1. call[c].wrote \in BOOLEAN /\ pc \in Pc
  BY RecordFacts DEF CallState, Storing, Pc
<1>2. pc = "install" => Within(call[c].target, store)
  BY RecordFacts
<1>3. [call[c] EXCEPT !.pc = pc, !.wrote = call[c].wrote] = [call[c] EXCEPT !.pc = pc]
  BY RecordFacts DEF CallState
<1>4. CallFacts(c, [call[c] EXCEPT !.pc = pc, !.wrote = call[c].wrote], Here(c), store)
  BY <1>1, <1>2, RecordFacts, StoringGoesOn
<1> QED
  BY <1>1, <1>3, <1>4, GotoKeeps

\* The lookups after an unknown answer keep the invariant.
LEMMA ProbesKeep ==
    ASSUME SnapshotInv, NEW c \in Call, Probe(c) \/ Reprobe(c) \/ Classify(c)
    PROVE  SnapshotInv'
<1>1. call[c].pc \in Storing /\ UNCHANGED <<store, acked>>
  BY DEF Probe, Reprobe, Classify, Storing
<1>2. \/ FailStop(c)
      \/ store = call[c].expected /\ NotApplied(c)
      \/ /\ UNCHANGED server
         /\ \/ Goto(c, "install") /\ store = call[c].target
            \/ Goto(c, "recas")
  BY DEF Probe, Reprobe, Classify
<1>3. "install" \in Storing /\ "recas" \in Storing
  BY DEF Storing
<1> QED
  BY <1>1, <1>2, <1>3, FailStopKeeps, NotAppliedKeeps, ProbedKeeps

\* Finding the base of the mutation still stored keeps the invariant.
LEMMA BaseStoredKeeps ==
    ASSUME SnapshotInv, NEW c \in Call, BaseStored(c) PROVE SnapshotInv'
<1> DEFINE state == [Here(c) EXCEPT !.cached = call[c].target, !.ready = TRUE]
<1>1. /\ call[c].pc = "install" /\ call[c].base /\ call[c].pc \in Locked
      /\ UNCHANGED <<store, acked>>
  BY DEF BaseStored, Locked
<1>2. /\ Here(c).writer = c /\ Here(c).up /\ ~call[c].wrote /\ call[c].target = <<>>
      /\ Here(c).live = <<>> /\ Within(call[c].target, store)
      /\ ~call[c].refused /\ call[c].served = NoVersion /\ Within(call[c].floor, store)
  BY <1>1, RecordFacts
  DEF CallFacts, WriterFacts, RunningFacts, BaseFacts, Storing
<1>3. <<>> \in Mapper /\ <<>> \in Version /\ call[c].target \in Mapper
  BY <1>2, EmptyIsMapper, MapperIsVersion
<1>4. /\ state \in ServerState /\ state.ready /\ state.up = Here(c).up
      /\ state.live = <<>> /\ state.cached = <<>> /\ state.writer = c
  BY <1>2, <1>3, RecordFacts DEF ServerState
<1>5. ServerFacts(state, store) /\ Respects(c, Here(c), state)
  BY <1>2, <1>4 DEF ServerFacts, Respects
<1>6. CASE ReadOn(c, state)
  <2> HIDE DEF state
  <2> QED
    BY <1>1, <1>4, <1>5, <1>6, ReadOnKeeps
<1>7. ASSUME NEW op \in Op, server' = [server EXCEPT ![Home[c]] = state],
             call' = [call EXCEPT ![c].pc = "cas", ![c].base = FALSE,
                                  ![c].expected = call[c].target,
                                  ![c].target = Append(Here(c).live, op)]
      PROVE  SnapshotInv'
  <2> DEFINE cl == [call[c] EXCEPT !.pc = "cas", !.base = FALSE,
                                   !.expected = call[c].target,
                                   !.target = Append(Here(c).live, op)]
  <2>1. /\ Append(<<>>, op) \in Mapper
        /\ Len(Append(<<>>, op)) = Len(<<>>) + 1
        /\ Within(<<>>, Append(<<>>, op))
    BY <1>3, AppendExtends
  <2>2. cl \in CallState
    BY <1>2, <1>3, <2>1, RecordFacts DEF CallState, Pc
  <2>3. call' = [call EXCEPT ![c] = cl]
    BY <1>7, RecordFacts DEF SnapshotInv, TypeOK, CallState
  <2>4. /\ cl.pc = "cas" /\ cl.expected = <<>> /\ cl.target = Append(<<>>, op)
        /\ ~cl.base /\ ~cl.wrote /\ ~cl.refused /\ cl.served = NoVersion
        /\ Within(cl.floor, store)
    BY <1>2, RecordFacts DEF CallState
  <2>5. StepTo(c, state, cl)
    BY <1>7, <2>3 DEF StepTo
  <2> HIDE DEF cl, state
  <2>6. CallFacts(c, cl, state, store)
    BY <1>2, <1>4, <2>1, <2>4
    DEF CallFacts, AnswerFacts, RunningFacts, WriterFacts, ReaderFacts, BaseFacts,
        CandidateFacts, Locked, Storing
  <2> QED
    BY <1>1, <1>4, <1>5, <2>2, <2>5, <2>6, RecordFacts, StoreStepKeeps
<1> QED
  BY <1>6, <1>7 DEF BaseStored

\* Installing the mapper that was stored keeps the invariant.
LEMMA InstallKeeps ==
    ASSUME SnapshotInv, NEW c \in Call, Install(c) PROVE SnapshotInv'
<1> DEFINE m   == call[c].target
           new == [Unlocked(c) EXCEPT !.live = m, !.cached = m]
<1>1. call[c].pc = "install" /\ ~call[c].base /\ UNCHANGED store
  BY DEF Install
<1>2. /\ m \in Mapper /\ Here(c).writer = c /\ Here(c).ready /\ Within(m, store)
  BY <1>1, RecordFacts
  DEF CallFacts, WriterFacts, CandidateFacts, CallState, Locked, Storing
<1>3. m \in Version /\ m # NoVersion
  BY <1>2, MapperIsVersion
<1>4. /\ new \in ServerState /\ new.live = m /\ new.cached = m
      /\ new.ready = Here(c).ready /\ new.up = Here(c).up
  BY <1>2, <1>3, RecordFacts, UnlockedServer DEF ServerState
<1>5. store # NoVersion
  BY <1>2, <1>3, RecordFacts, WithinNothing
<1>6. ServerFacts(new, store) /\ Respects(c, Here(c), new)
  BY <1>2, <1>4, <1>5 DEF ServerFacts, Respects
<1>7. CallFacts(c, Rest, new, store)
  BY EndedCall, RestIsCall DEF AnswerFacts, Rest
<1>8. StepTo(c, new, Rest) /\ acked' = acked \cup {[server |-> Home[c], version |-> m]}
  BY DEF Install, StepTo
<1> HIDE DEF m, new
<1> QED
  BY <1>1, <1>2, <1>4, <1>6, <1>7, <1>8, RecordFacts, RestIsCall, StoreStepKeeps

-----------------------------------------------------------------------------
(* Reads. *)

\* The lookup of a read keeps the invariant.
LEMMA LookKeeps ==
    ASSUME SnapshotInv, NEW c \in Call, Look(c) PROVE SnapshotInv'
<1>1. CASE Return(c, Rest)
  BY <1>1, StoreRestKeeps DEF Look
<1>2. CASE /\ call' = [call EXCEPT ![c].pc = "serve", ![c].before = Here(c).cached,
                                   ![c].observed = store]
           /\ UNCHANGED server
  <2> DEFINE cl == [call[c] EXCEPT !.pc = "serve", !.before = Here(c).cached,
                                   !.observed = store]
  <2>1. call' = [call EXCEPT ![c] = cl]
    BY <1>2, RecordFacts DEF SnapshotInv, TypeOK, CallState
  <2>2. cl \in CallState
    BY RecordFacts DEF CallState, ServerState, Pc
  <2>3. /\ Here(c).up /\ Here(c).ready /\ ~call[c].refused
        /\ call[c].served = NoVersion /\ Within(call[c].floor, store)
    BY RecordFacts DEF Look, CallFacts, RunningFacts, ReaderFacts
  <2>4. /\ cl.pc = "serve" /\ cl.observed = store /\ cl.floor = call[c].floor
        /\ ~cl.refused /\ cl.served = NoVersion
    BY <2>3, RecordFacts DEF CallState
  <2> HIDE DEF cl
  <2>5. CallFacts(c, cl, Here(c), store)
    BY <2>3, <2>4, RecordFacts
    DEF CallFacts, AnswerFacts, RunningFacts, WriterFacts, ReaderFacts, Locked, Storing
  <2> QED
    BY <1>2, <2>1, <2>2, <2>5, RecordFacts, CallKeeps DEF Look
<1> QED
  BY <1>1, <1>2 DEF Look

\* Answering a read keeps the invariant.
LEMMA ServeKeeps ==
    ASSUME SnapshotInv, NEW c \in Call, Serve(c) PROVE SnapshotInv'
<1>1. /\ call[c].pc = "serve" /\ UNCHANGED <<store, acked>>
      /\ Here(c).up /\ Here(c).ready /\ ~call[c].refused /\ call[c].served = NoVersion
      /\ Within(call[c].floor, store)
      /\ Within(call[c].floor, call[c].observed) /\ Within(call[c].observed, store)
  BY RecordFacts DEF Serve, CallFacts, RunningFacts, ReaderFacts
<1>2. CASE Return(c, Rest)
  BY <1>1, <1>2, StoreRestKeeps
<1>3. CASE FailStop(c)
  BY <1>1, <1>3, FailStopKeeps
<1>4. CASE Goto(c, "look") /\ UNCHANGED server
  <2>1. CallFacts(c, [call[c] EXCEPT !.pc = "look"], Here(c), store)
    BY <1>1, RecordFacts
    DEF CallFacts, AnswerFacts, RunningFacts, WriterFacts, ReaderFacts, Locked, Storing,
        CallState
  <2> QED
    BY <1>1, <1>4, <2>1, GotoKeeps DEF Pc
<1>5. CASE /\ call[c].observed = Here(c).cached /\ UNCHANGED server
           /\ call' = [call EXCEPT ![c] =
                          [Rest EXCEPT !.served = Here(c).live, !.floor = call[c].floor]]
  <2> DEFINE cl == [Rest EXCEPT !.served = Here(c).live, !.floor = call[c].floor]
  <2>1. Here(c).live = call[c].observed
    BY <1>1, <1>5, RecordFacts DEF ServerFacts
  <2>2. cl \in CallState /\ cl.pc = "idle"
    BY <2>1, RecordFacts, RestIsCall DEF CallState, Rest
  <2>3. AnswerFacts(cl, store)
    BY <1>1, <2>1 DEF AnswerFacts, Rest
  <2>4. call' = [call EXCEPT ![c] = cl]
    BY <1>5
  <2> HIDE DEF cl
  <2>5. CallFacts(c, cl, Here(c), store)
    BY <2>2, <2>3, EndedCall
  <2> QED
    BY <1>1, <1>5, <2>2, <2>4, <2>5, RecordFacts, CallKeeps
<1> QED
  BY <1>2, <1>3, <1>4, <1>5 DEF Serve

-----------------------------------------------------------------------------
(* Servers end and start. *)

\* A step of a server s that has no running call afterwards.
LEMMA ServerStepKeeps ==
    ASSUME SnapshotInv, NEW s \in Server, NEW new \in ServerState,
           server' = [server EXCEPT ![s] = new], UNCHANGED <<store, acked>>,
           ~new.ready, store = NoVersion => new.live = <<>>,
           call' \in [Call -> CallState],
           \A c \in Call : /\ Home[c] # s => call'[c] = call[c]
                           /\ Home[c] = s => call'[c].pc = "idle" /\ AnswerFacts(call'[c], store)
    PROVE  SnapshotInv'
<1>1. /\ server \in [Server -> ServerState] /\ store \in Version
      /\ acked \in SUBSET [server: Server, version: Mapper]
  BY DEF SnapshotInv, TypeOK
<1>2. TypeOK'
  BY <1>1 DEF TypeOK
<1>3. ASSUME NEW z \in Server PROVE ServerFacts(server'[z], store)
  <2>1. CASE z = s
    BY <1>1, <2>1 DEF ServerFacts
  <2>2. CASE z # s
    BY <1>1, <2>2 DEF SnapshotInv
  <2> QED
    BY <2>1, <2>2
<1>4. ASSUME NEW c \in Call PROVE CallFacts(c, call'[c], server'[Home[c]], store)
  <2>1. CASE Home[c] = s
    BY <2>1, EndedCall
  <2>2. CASE Home[c] # s
    <3>1. server'[Home[c]] = server[Home[c]]
      BY <1>1, <2>2, HomeIsServer
    <3> QED
      BY <2>2, <3>1 DEF SnapshotInv, Here
  <2> QED
    BY <2>1, <2>2
<1> QED
  BY <1>2, <1>3, <1>4 DEF SnapshotInv, Here

\* A server that is down is a server.
LEMMA DownIsServer == Down \in ServerState /\ ~Down.ready /\ Down.live = <<>>
BY EmptyIsMapper DEF Down, ServerState, Version

\* The crash of a server keeps the invariant.
LEMMA StoreCrashKeeps ==
    ASSUME SnapshotInv, NEW s \in Server, Crash(s) PROVE SnapshotInv'
<1>1. call \in [Call -> CallState]
  BY DEF SnapshotInv, TypeOK
<1>2. /\ call' \in [Call -> CallState]
      /\ \A c \in Call : call'[c] = IF Home[c] = s THEN Rest ELSE call[c]
  BY <1>1, RestIsCall DEF Crash
<1>3. AnswerFacts(Rest, store)
  BY DEF AnswerFacts, Rest
<1> QED
  BY <1>2, <1>3, RestIsCall, DownIsServer, ServerStepKeeps DEF Crash

\* The start of a server keeps the invariant.
LEMMA StartKeeps ==
    ASSUME SnapshotInv, NEW s \in Server, Start(s) PROVE SnapshotInv'
<1>1. PICK live \in {<<>>} \cup ({store} \ {NoVersion}) :
          server' = [server EXCEPT ![s] = [Down EXCEPT !.up = TRUE, !.live = live]]
  BY DEF Start
<1> DEFINE new == [Down EXCEPT !.up = TRUE, !.live = live]
<1>2. live \in Mapper /\ (store = NoVersion => live = <<>>)
  BY EmptyIsMapper DEF SnapshotInv, TypeOK, Version
<1>3. new \in ServerState /\ ~new.ready /\ new.live = live
  BY <1>2, DownIsServer DEF ServerState, Down
<1>4. \A c \in Call : Home[c] = s => call[c].pc = "idle" /\ AnswerFacts(call[c], store)
  BY DEF SnapshotInv, CallFacts, RunningFacts, Here, Start
<1>5. call' = call /\ call \in [Call -> CallState]
  BY DEF Start, SnapshotInv, TypeOK
<1>6. server' = [server EXCEPT ![s] = new] /\ UNCHANGED <<store, acked>>
  BY <1>1 DEF Start
<1> HIDE DEF new
<1> QED
  BY <1>2, <1>3, <1>4, <1>5, <1>6, ServerStepKeeps

-----------------------------------------------------------------------------
(* The theorems. *)

\* Every step keeps the invariant.
LEMMA SnapshotInvStep == ASSUME SnapshotInv, [Next]_vars PROVE SnapshotInv'
<1>1. CASE UNCHANGED vars
  BY <1>1 DEF vars, SnapshotInv, TypeOK, Here
<1>2. ASSUME NEW c \in Call, Begin(c) PROVE SnapshotInv'
  BY <1>2, BeginKeeps
<1>3. ASSUME NEW c \in Call, Step(c) PROVE SnapshotInv'
  <2>1. CASE FirstCas(c) \/ SecondCas(c)
    <3>1. /\ call[c].pc \in Storing /\ UNCHANGED <<server, acked>>
          /\ Cas(c, "probe") \/ Cas(c, "reprobe")
      BY <2>1 DEF FirstCas, SecondCas, Storing
    <3>2. "probe" \in Storing \ {"install"} /\ "reprobe" \in Storing \ {"install"}
      BY DEF Storing
    <3> QED
      BY <3>1, <3>2, CasKeeps
  <2> QED
    BY <1>3, <2>1, LockKeeps, LoadKeeps, StoreRecheckKeeps, MutateKeeps, ProbesKeep,
       BaseStoredKeeps, InstallKeeps, LookKeeps, ServeKeeps DEF Step
<1>4. ASSUME NEW c \in Call, Abort(c) PROVE SnapshotInv'
  BY <1>4, StoreRestKeeps DEF Abort
<1>5. ASSUME NEW s \in Server, Crash(s) \/ Start(s) PROVE SnapshotInv'
  BY <1>5, StoreCrashKeeps, StartKeeps
<1> QED
  BY <1>1, <1>2, <1>3, <1>4, <1>5 DEF Next

\* The invariant holds at the start.
LEMMA SnapshotInvInit == Init => SnapshotInv
<1> SUFFICES ASSUME Init PROVE SnapshotInv
  OBVIOUS
<1>1. TypeOK
  BY DownIsServer, RestIsCall DEF Init, TypeOK, Version
<1>2. \A s \in Server : ServerFacts(server[s], store)
  BY DownIsServer DEF Init, ServerFacts
<1>3. ASSUME NEW c \in Call PROVE CallFacts(c, call[c], Here(c), store)
  <2>1. call[c] = Rest /\ AnswerFacts(Rest, store)
    BY DEF Init, AnswerFacts, Rest
  <2> QED
    BY <2>1, RestIsCall, EndedCall
<1> QED
  BY <1>1, <1>2, <1>3 DEF SnapshotInv, Init

\* Every behaviour of the parts shows the snapshots one of their own.
LEMMA SnapshotIsPart == A2aSpec => Spec
<1>1. [A2aNext]_allVars => [Next]_vars
  BY DEF A2aNext, allVars, InSnapshot, InTask, InEvents, InJournal
<1> QED
  BY <1>1, PTL DEF A2aSpec, A2aInit, Spec

\* SnapshotInv holds in every reachable state; its first part is the types.
THEOREM SnapshotInvariant == A2aSpec => []SnapshotInv
<1>1. SnapshotInv /\ [Next]_vars => SnapshotInv'
  BY SnapshotInvStep
<1> QED
  BY <1>1, SnapshotInvInit, SnapshotIsPart, PTL DEF Spec

\* A commit that persist_snapshot_with_exact_probe reported stays in the history
\* of the stored snapshot, over crashes, unknown outcomes and other servers, and a
\* server bound to the store works on a mapper the store has held.
THEOREM CommitsAreDurable == A2aSpec => []AcknowledgedIsDurable
<1>1. SnapshotInv => AcknowledgedIsDurable
  BY DEF SnapshotInv, ServerFacts, AcknowledgedIsDurable
<1> QED
  BY <1>1, SnapshotInvariant, PTL

\* Whom persist_snapshot_with_exact_probe tells that a mutation was not applied can
\* retry it, whatever became of its two compare-and-swaps.
THEOREM RefusalsAreTrue == A2aSpec => []NotAppliedIsTrue
<1>1. SnapshotInv => NotAppliedIsTrue
  BY DEF SnapshotInv, CallFacts, AnswerFacts, NotAppliedIsTrue
<1> QED
  BY <1>1, SnapshotInvariant, PTL

\* A read behind acquire_current_snapshot_read returns a mapper that was the head
\* of the store during the call.
THEOREM ReadsAreFresh == A2aSpec => []ReadsAreCurrent
<1>1. SnapshotInv => ReadsAreCurrent
  BY DEF SnapshotInv, CallFacts, AnswerFacts, ReadsAreCurrent
<1> QED
  BY <1>1, SnapshotInvariant, PTL

\* The stored mapper only ever grows: no step loses or replaces a mutation that
\* was stored.
THEOREM StoreOnlyGrows == A2aSpec => [][Within(store, store')]_vars
<1>1. ASSUME SnapshotInv, Next PROVE Within(store, store')
  <2>1. store \in Version /\ Within(store, store)
    BY <1>1, WithinItself DEF SnapshotInv, TypeOK
  <2>2. CASE store' = store
    BY <2>1, <2>2
  <2>3. ASSUME NEW c \in Call, FirstCas(c) \/ SecondCas(c) PROVE Within(store, store')
    <3>1. call[c].pc \in Storing /\ (Cas(c, "probe") \/ Cas(c, "reprobe"))
      BY <2>3 DEF FirstCas, SecondCas, Storing
    <3>2. \/ store' = store
          \/ /\ store' = call[c].target
             /\ CasOutcome(call[c].expected, call[c].target) = "applied"
      BY <3>1 DEF Cas
    <3> QED
      BY <1>1, <2>1, <3>1, <3>2, AppliedExtends
  <2> QED
    BY <1>1, <2>2, <2>3
    DEF Next, Step, Begin, Lock, Load, Recheck, Mutate, Probe, Reprobe, Classify,
        BaseStored, Install, Look, Serve, Abort, Crash, Start
<1> QED
  BY <1>1, SnapshotInvariant, SnapshotIsPart, PTL DEF Spec

-----------------------------------------------------------------------------
(* The journal, to which A2aJournalProofs applies. *)

Recorded == INSTANCE A2aJournalProofs
            WITH Server <- Process, Key <- Op, None <- NoCall, MaxTroubles <- MaxFaults

\* A step of the journal is one of the module that the proofs are about.
LEMMA SameJournalStep ==
    ASSUME NEW s \in Process
    PROVE  /\ Journal!Ask(s) \/ Journal!Step(s) \/ Journal!Drop(s) \/ Journal!Crash(s)
           => Recorded!Ask(s) \/ Recorded!Step(s) \/ Recorded!Drop(s) \/ Recorded!Crash(s)
<1> USE DEF Journal!Mapper, Recorded!Mapper, Journal!Token, Recorded!Token, Journal!Empty,
            Recorded!Empty, Journal!Genesis, Recorded!Genesis, Journal!BootstrapToken,
            Recorded!BootstrapToken, Journal!TokenOf, Recorded!TokenOf, Journal!Difference,
            Recorded!Difference, Journal!DeltaFor, Recorded!DeltaFor, Journal!Apply,
            Recorded!Apply, Journal!Rest, Recorded!Rest, Journal!Fresh, Recorded!Fresh,
            Journal!Return, Recorded!Return, Journal!Read, Recorded!Read, Journal!Done,
            Recorded!Done, Journal!Refuse, Recorded!Refuse, Journal!Unsure, Recorded!Unsure,
            Journal!Decide, Recorded!Decide, Journal!Goto, Recorded!Goto, Journal!Unchanged,
            Recorded!Unchanged, Journal!At, Recorded!At, Journal!Stored, Recorded!Stored,
            Journal!TokenAt, Recorded!TokenAt, Journal!AppendDelta, Recorded!AppendDelta,
            Journal!InstallCheckpoint, Recorded!InstallCheckpoint, Journal!Replay,
            Recorded!Replay, Journal!WithoutCompacted, Recorded!WithoutCompacted,
            Journal!WithPin, Recorded!WithPin, Journal!WithoutPin, Recorded!WithoutPin,
            Journal!Orphaned, Recorded!Orphaned, Journal!CursorFits, Recorded!CursorFits,
            Journal!ManifestOf, Recorded!ManifestOf, Journal!GarbageCollect,
            Recorded!GarbageCollect, Journal!Trouble, Recorded!Trouble, Journal!Begun,
            Recorded!Begun, Journal!Successors, Recorded!Successors, Journal!Resolved,
            Recorded!Resolved, Journal!Store, Recorded!Store, Journal!NextToken,
            Recorded!NextToken, Journal!CachedWrite, Recorded!CachedWrite
<1>1. Journal!Ask(s) => Recorded!Ask(s)
  BY Zenon DEF Journal!Ask, Recorded!Ask
<1>2. Journal!Look(s) => Recorded!Look(s)
  BY Zenon DEF Journal!Look, Recorded!Look
<1>3. Journal!Sync(s) => Recorded!Sync(s)
  BY Zenon DEF Journal!Sync, Recorded!Sync
<1>4. Journal!BeginRestore(s) => Recorded!BeginRestore(s)
  BY Zenon DEF Journal!BeginRestore, Recorded!BeginRestore
<1>5. Journal!ReadPage(s) => Recorded!ReadPage(s)
  BY Zenon DEF Journal!ReadPage, Recorded!ReadPage
<1>6. Journal!FinishRestore(s) => Recorded!FinishRestore(s)
  BY Zenon DEF Journal!FinishRestore, Recorded!FinishRestore
<1>7. Journal!Write(s) => Recorded!Write(s)
  BY Zenon DEF Journal!Write, Recorded!Write
<1>8. Journal!ReadManifest(s) => Recorded!ReadManifest(s)
  BY Zenon DEF Journal!ReadManifest, Recorded!ReadManifest
<1>9. Journal!Install(s) => Recorded!Install(s)
  BY Zenon DEF Journal!Install, Recorded!Install
<1>10. Journal!Collect(s) => Recorded!Collect(s)
  BY Zenon DEF Journal!Collect, Recorded!Collect
<1>11. Journal!Drop(s) => Recorded!Drop(s)
  BY Zenon DEF Journal!Drop, Recorded!Drop
<1>12. Journal!Crash(s) => Recorded!Crash(s)
  BY Zenon DEF Journal!Crash, Recorded!Crash
<1> QED
  BY <1>1, <1>2, <1>3, <1>4, <1>5, <1>6, <1>7, <1>8, <1>9, <1>10, <1>11, <1>12, Zenon DEF Journal!Step, Recorded!Step

\* The constants fit both.
LEMMA RecordedConstants == Recorded!ConstantsFit
<1>1. Journal!ConstantsFit <=> Recorded!ConstantsFit
  BY Zenon DEF Journal!ConstantsFit, Recorded!ConstantsFit, Journal!Mapper, Recorded!Mapper,
               Journal!Token, Recorded!Token
<1> QED
  BY <1>1, JournalConstants

\* Every behaviour of the parts shows the journal one of its own.
LEMMA JournalIsPart == A2aSpec => Recorded!Spec
<1>1. A2aInit => Recorded!Init
  BY Zenon DEF A2aInit, Journal!Init, Recorded!Init, Journal!Genesis, Recorded!Genesis,
               Journal!Fresh, Recorded!Fresh, Journal!Rest, Recorded!Rest, Journal!Empty,
               Recorded!Empty
<1>2. Journal!Next => Recorded!Next
  BY SameJournalStep, Zenon DEF Journal!Next, Recorded!Next
<1>3. [A2aNext]_allVars => [Recorded!Next]_(Recorded!vars)
  BY <1>2 DEF A2aNext, allVars, journalVars, Recorded!vars, InSnapshot, InTask, InEvents,
              InJournal
<1> QED
  BY <1>1, <1>3, PTL DEF A2aSpec, Recorded!Spec

\* Checkpoints of a stale head, collections, retries, dropped calls and crashes never
\* change what the journal stands for: its head is sound, checkpoint and tail give the
\* mapper that was written last, and every restore under way still finds all of its
\* deltas (append_delta, install_checkpoint, garbage_collect, read_delta_page).
THEOREM JournalHoldsWrites == A2aSpec => []JournalHoldsLastWrite
<1>1. Recorded!JournalHoldsLastWrite => JournalHoldsLastWrite
  BY Zenon
  DEF JournalHoldsLastWrite, Journal!JournalHoldsLastWrite, Recorded!JournalHoldsLastWrite, Journal!Sound,
      Recorded!Sound, Journal!Restorable, Recorded!Restorable, Journal!Replay,
      Recorded!Replay, Journal!At, Recorded!At, Journal!Stored, Recorded!Stored,
      Journal!TokenOf, Recorded!TokenOf, Journal!Apply, Recorded!Apply, Journal!Genesis,
      Recorded!Genesis, Journal!Empty, Recorded!Empty
<1>2. Recorded!Spec => []Recorded!JournalHoldsLastWrite
  BY RecordedConstants, Recorded!JournalHoldsWrites
<1> QED
  BY <1>1, <1>2, JournalIsPart, PTL

\* Over caches, pending writes and heads that may be stale, lost answers and crashes,
\* the journal acts as one cell with compare-and-swap: a read returns what was held
\* during the call, what is reported as applied was held then too, and a write replaces
\* exactly the mapper that it expects (A2aJournalMapperSnapshotStore).
THEOREM JournalIsOneCell == A2aSpec => JournalActsAsOneCell
<1>1. Recorded!ActsAsOneCell => JournalActsAsOneCell
  BY PTL DEF JournalActsAsOneCell, Journal!ActsAsOneCell, Recorded!ActsAsOneCell, Journal!HeldSince, Recorded!HeldSince,
      Journal!vars, Recorded!vars
<1>2. Recorded!Spec => Recorded!ActsAsOneCell
  BY RecordedConstants, Recorded!JournalIsOneCell
<1> QED
  BY <1>1, <1>2, JournalIsPart, PTL
=============================================================================
