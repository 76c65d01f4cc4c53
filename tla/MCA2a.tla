------------------------------- MODULE MCA2a -------------------------------
(***************************************************************************)
(* The parts of an A2A server on small instances: how its mapper is stored *)
(* (A2aSnapshot) and what the journal makes of that (A2aJournal), what it  *)
(* does for one task (A2aTask) and how the events of a task are published  *)
(* (A2aEvents).  A behaviour is one of the parts that Part names; the      *)
(* variables of the others stay as they are.                               *)
(***************************************************************************)
EXTENDS A2aSnapshot, TLC

CONSTANTS
    Part,                                            \* the parts to explore
    s1, s2, a, b, d,                                 \* servers and their calls
    m1, h1, h2,                                      \* a message and its senders
    Message, Sender, Sends, Canceller, Driver, MaxAttempts,
    Artifact, Flusher, Stream, MaxEvents, LiveCapacity,
    Process, Interval,                               \* servers over a journal
    MaxFaults

VARIABLES
    part,                                            \* the part in view
    task, outbox, ready, claims, job, token, recon, actor, alive, faults,
    intent, log, delivery, stream, sent, eventFaults,
    journal, cache, ask, knows, written, troubles

Task == INSTANCE A2aTask

Events == INSTANCE A2aEvents WITH faults <- eventFaults

\* Its entries are interchangeable like the mutations of A2aSnapshot.
Journal == INSTANCE A2aJournal
           WITH Server <- Process, Key <- Op, None <- NoCall, MaxTroubles <- MaxFaults

ASSUME TaskConstants == Task!ConstantsFit

ASSUME EventConstants == Events!ConstantsFit

ASSUME JournalConstants == Journal!ConstantsFit

-----------------------------------------------------------------------------
(* Instances. *)

\* Two calls on the first server and one on the second, or only the first two.
MCHome == (a :> s1) @@ (b :> s1) @@ (d :> s2)

MCAsks == (a :> {"commit"}) @@ (b :> {"read", "noop"}) @@ (d :> {"commit"})

AloneHome == (a :> s1) @@ (b :> s1)

AloneAsks == (a :> {"commit"}) @@ (b :> {"commit", "read", "noop"})

\* Each message is sent by one request, or twice.
SentOnce == (h1 :> m1)

SentTwice == (h1 :> m1) @@ (h2 :> m1)

\* The mutations of the mapper, and the servers over a journal, are
\* interchangeable.
Interchangeable == Permutations(Op) \cup Permutations(Process)

-----------------------------------------------------------------------------
taskVars == <<task, outbox, ready, claims, job, token, recon, actor, alive, faults>>

eventVars == <<intent, log, delivery, stream, sent, eventFaults>>

journalVars == <<journal, cache, ask, knows, written, troubles>>

allVars == <<part, vars, taskVars, eventVars, journalVars>>

InSnapshot(A) ==
    part = "snapshot" /\ A /\ UNCHANGED <<part, taskVars, eventVars, journalVars>>

InTask(A) == part = "task" /\ A /\ UNCHANGED <<part, vars, eventVars, journalVars>>

InEvents(A) == part = "events" /\ A /\ UNCHANGED <<part, vars, taskVars, journalVars>>

InJournal(A) == part = "journal" /\ A /\ UNCHANGED <<part, vars, taskVars, eventVars>>

A2aInit == part \in Part /\ Init /\ Task!Init /\ Events!Init /\ Journal!Init

A2aNext == \/ InSnapshot(Next) \/ InTask(Task!Next) \/ InEvents(Events!Next)
           \/ InJournal(Journal!Next)

A2aSpec == A2aInit /\ [][A2aNext]_allVars

\* The fairness that each part asks for.
A2aFairSpec ==
    /\ A2aSpec
    /\ \A c \in Call : WF_allVars(InSnapshot(Step(c)))
    /\ \A r \in Task!Actor : WF_allVars(InTask(Task!ActorStep(r)))
    /\ WF_allVars(InTask(Task!DriverStep))
    /\ \A k \in Task!Key : WF_allVars(InTask(Task!JobStep(k)))
    /\ \A m \in Message : WF_allVars(InTask(Task!RecoverEvent(m)))
    /\ WF_allVars(InEvents(Events!BeginRecovery))
    /\ \A e \in Events!Deliverer : WF_allVars(InEvents(Events!Deliver(e)))
    /\ \A e \in Events!Event : WF_allVars(InEvents(Events!BackoffElapses(e)))

-----------------------------------------------------------------------------
(* Properties, as the parts state them. *)

\* Over retries, recovery, timeouts that drop a call and restarts, at most one
\* attempt of the task's work is with the host.
OneAttemptAlive == Task!OneAttemptAlive

\* Once a cancellation is past its queue, every call of the host that is about
\* to begin or awaited has been signalled.
CancelReachesCall == Task!CancelReachesCall

\* A task that is reported cancelled has no work left with the host.
CancelledIsStopped == Task!CancelledIsStopped

\* A stored cancellation is carried to the host, whoever drops it on the way.
CancelIsTaken == Task!CancelIsTaken

\* An accepted message is run at last, unless its task is being cancelled.
MessageIsTaken == Task!MessageIsTaken

\* However many deliverers meet at one event, it is appended and broadcast once,
\* and nothing follows the terminal one.
PublishedOnce == Events!PublishedOnce

\* A stream that ends with the terminal frame has a gap nowhere, however far its
\* receiver lagged.
StreamIsComplete == Events!StreamIsComplete

\* Every accepted event is published or put into quarantine at last.
IntentsAreResolved == Events!IntentsAreResolved

\* Checkpoints, collections, retries and crashes never change what the journal
\* stands for, and a restore under way finds all of its deltas.
JournalHoldsLastWrite == Journal!JournalHoldsLastWrite

\* The journal acts as one cell with compare-and-swap, as A2aSnapshot expects of
\* the store.
JournalActsAsOneCell == Journal!ActsAsOneCell

\* The artifacts of a completion are in the stream before its terminal frame.
ArtifactsPrecedeFinal == Events!ArtifactsPrecedeFinal
=============================================================================
