----------------------------- MODULE A2aEvents -----------------------------
(***************************************************************************)
(* The event stream of one A2A task: the intents the mapper stores with    *)
(* each change of the task (a2a.rs), the requests and the recovery that    *)
(* deliver them to the event store, and the streams that show the store's  *)
(* events to clients (a2a_transport.rs).                                   *)
(*                                                                         *)
(* A mutation of the mapper is one step (A2aSnapshot).  Its commit does    *)
(* not stop when the request that asked for it goes away: a delivery can   *)
(* be dropped after it has settled its intent.  The store keeps its events *)
(* over a crash; of the buckets of other tasks nothing is modelled.        *)
(***************************************************************************)
EXTENDS Naturals, Sequences, FiniteSets

CONSTANTS
    Artifact,      \* the artifacts of the task's completion
    Flusher,       \* requests that flush the task's events
    Stream,        \* SubscribeToTask requests
    MaxEvents,     \* max_events of the retention
    LiveCapacity,  \* live_channel_capacity
    MaxFaults      \* bound: failed appends, timeouts of recovery, crashes

\* What the constants must satisfy.
ConstantsFit ==
    /\ {"accepted", "final"} \cap Artifact = {}
    /\ Flusher \cap Stream = {}
    /\ (Flusher \cup Stream) \cap (Artifact \cup {"accepted", "final"}) = {}
    /\ MaxEvents \in Nat \ {0} /\ LiveCapacity \in Nat \ {0} /\ MaxFaults \in Nat

VARIABLES
    intent,    \* state of each pending event intent in the mapper
    log,       \* the event store's bucket: events in the order of their ids
    delivery,  \* what flushers, streams and recovery workers are delivering
    stream,    \* what each stream has subscribed to and shown
    sent,      \* how often each event was broadcast
    faults

vars == <<intent, log, delivery, stream, sent, faults>>

-----------------------------------------------------------------------------
Event == {"accepted", "final"} \cup Artifact

\* Recovery has one worker for each event.
Deliverer == Flusher \cup Stream \cup Event

\* ReconcilePending is "waiting" until its backoff has passed, then "due".
Open == {"pending", "waiting", "due"}

IntentState == Open \cup {"none", "settled", "quarantined"}

Id == 0..Cardinality(Event)

DeliveryState == [pc: {"idle", "take", "append", "retry", "poison", "settle", "broadcast"},
                  event: Event, todo: SUBSET Event]

\* last: last_seen; shown: ids written to the client; lagged: Lagged is next.
StreamState == [pc: {"idle", "joined", "listing", "flushing", "baseline", "open", "done",
                     "closed"},
                resumes: BOOLEAN, last: Id, shown: SUBSET Id, queue: Seq(Id), lagged: BOOLEAN]

NoDelivery == [pc |-> "idle", event |-> "accepted", todo |-> {}]

NoStream == [pc |-> "idle", resumes |-> FALSE, last |-> 0, shown |-> {}, queue |-> <<>>,
             lagged |-> FALSE]

\* A stream that broke off; its receiver is gone.
Closed == [NoStream EXCEPT !.pc = "closed"]

TypeOK == /\ intent \in [Event -> IntentState]
          /\ log \in Seq(Event) /\ Len(log) <= Cardinality(Event)
          /\ delivery \in [Deliverer -> DeliveryState]
          /\ stream \in [Stream -> StreamState]
          /\ \A s \in Stream : Len(stream[s].queue) <= LiveCapacity
          /\ sent \in [Event -> 0..2]
          /\ faults \in 0..MaxFaults

Fault == faults < MaxFaults /\ faults' = faults + 1

Appended == {log[i] : i \in 1..Len(log)}

IdOf(e) == CHOOSE i \in 1..Len(log) : log[i] = e

\* The id of the terminal frame, or one that no frame has.
FinalId == IF "final" \in Appended THEN IdOf("final") ELSE Cardinality(Event) + 1

\* The first id that retention has kept.
Earliest == IF Len(log) > MaxEvents THEN Len(log) - MaxEvents + 1 ELSE 1

\* source_revision, then event_kind_delivery_rank.
Rank(e) == IF e = "accepted" THEN 0 ELSE IF e = "final" THEN 2 ELSE 1

-----------------------------------------------------------------------------
(* The task. *)

\* A message is accepted (prepare_send_message).
Accept == /\ intent["accepted"] = "none"
          /\ intent' = [intent EXCEPT !["accepted"] = "pending"]
          /\ UNCHANGED <<log, delivery, stream, sent, faults>>

\* complete_dispatch_with_artifacts, by a dispatch that ran because its
\* acceptance was published.
Complete == /\ intent["accepted"] = "settled" /\ intent["final"] = "none"
            /\ intent' = [e \in Event |-> IF e = "accepted" THEN intent[e] ELSE "pending"]
            /\ UNCHANGED <<log, delivery, stream, sent, faults>>

-----------------------------------------------------------------------------
(* Deliveries (deliver_pending_event). *)

\* d ends its deliveries, of which one may have failed.
Ends(d, failed) ==
    /\ delivery' = [delivery EXCEPT ![d] = NoDelivery]
    /\ stream' = IF d \notin Stream THEN stream
                 ELSE [stream EXCEPT ![d] =
                           IF failed THEN Closed ELSE [@ EXCEPT !.pc = "baseline"]]

\* d goes on to its next event.
GoesOn(d) == IF delivery[d].todo = {} THEN Ends(d, FALSE)
             ELSE delivery' = [delivery EXCEPT ![d].pc = "take"] /\ UNCHANGED stream

DeliveryTo(d, pc) == delivery' = [delivery EXCEPT ![d].pc = pc] /\ UNCHANGED stream

\* flush_pending_events_for_task lists what is pending now.
Listed == {e \in Event : intent[e] \in Open}

BeginFlush(f) ==
    /\ delivery[f].pc = "idle" /\ Listed # {}
    /\ delivery' = [delivery EXCEPT ![f] = [NoDelivery EXCEPT !.pc = "take", !.todo = Listed]]
    /\ UNCHANGED <<intent, log, stream, sent, faults>>

\* Fault of BeginRecovery: what failed before is not taken up again.
RecoversFresh ==
    /\ \A e \in Event : delivery[e].pc = "idle"
    /\ LET due == {e \in Event : intent[e] = "pending"} IN
       /\ due # {}
       /\ delivery' = [d \in Deliverer |->
              IF d \in due THEN [NoDelivery EXCEPT !.pc = "take", !.todo = {d}] ELSE delivery[d]]
    /\ UNCHANGED <<intent, log, stream, sent, faults>>

\* pending_events_due_fair_batch and the workers it is given to, all at once.
BeginRecovery ==
    /\ \A e \in Event : delivery[e].pc = "idle"
    /\ LET due == {e \in Event : intent[e] \in {"pending", "due"}} IN
       /\ due # {}
       /\ delivery' = [d \in Deliverer |->
              IF d \in due THEN [NoDelivery EXCEPT !.pc = "take", !.todo = {d}] ELSE delivery[d]]
    /\ UNCHANGED <<intent, log, stream, sent, faults>>

\* The next event in the order of the list.  One in backoff, or quarantined,
\* fails the whole flush.
Take(d) ==
    /\ delivery[d].pc = "take"
    /\ \E e \in delivery[d].todo :
          /\ \A o \in delivery[d].todo : Rank(e) <= Rank(o)
          /\ IF intent[e] \in {"waiting", "quarantined"} THEN Ends(d, TRUE)
             ELSE /\ delivery' = [delivery EXCEPT ![d] =
                         [pc |-> "append", event |-> e, todo |-> @.todo \ {e}]]
                  /\ UNCHANGED stream
    /\ UNCHANGED <<intent, log, sent, faults>>

\* A2aEventStore::append: an event that is there is found again, a bucket with
\* a terminal event takes no other, and the store may be unavailable.
AppendEvent(d) ==
    /\ delivery[d].pc = "append"
    /\ \/ /\ IF delivery[d].event \in Appended THEN log' = log /\ DeliveryTo(d, "settle")
             ELSE IF "final" \in Appended THEN log' = log /\ DeliveryTo(d, "poison")
             ELSE log' = Append(log, delivery[d].event) /\ DeliveryTo(d, "settle")
          /\ faults' = faults
       \/ Fault /\ log' = log /\ DeliveryTo(d, "retry")
    /\ UNCHANGED <<intent, sent>>

\* mark_event_reconcile_pending; its error is ignored.
MarkRetry(d) ==
    /\ delivery[d].pc = "retry"
    /\ LET e == delivery[d].event IN
       intent' = IF intent[e] \in Open THEN [intent EXCEPT ![e] = "waiting"] ELSE intent
    /\ Ends(d, TRUE)
    /\ UNCHANGED <<log, sent, faults>>

\* mark_event_quarantined; its error is ignored.
MarkPoison(d) ==
    /\ delivery[d].pc = "poison"
    /\ LET e == delivery[d].event IN
       intent' = IF intent[e] \in Open THEN [intent EXCEPT ![e] = "quarantined"] ELSE intent
    /\ Ends(d, TRUE)
    /\ UNCHANGED <<log, sent, faults>>

\* Fault of Settle: what was settled before is broadcast again.
SettlesAgain(d) ==
    /\ delivery[d].pc = "settle"
    /\ LET e == delivery[d].event IN
       IF intent[e] = "quarantined" THEN intent' = intent /\ Ends(d, TRUE)
       ELSE intent' = [intent EXCEPT ![e] = "settled"] /\ DeliveryTo(d, "broadcast")
    /\ UNCHANGED <<log, sent, faults>>

\* mark_event_settled, which tells whether it was settled before.
Settle(d) ==
    /\ delivery[d].pc = "settle"
    /\ LET e == delivery[d].event IN
       IF intent[e] = "quarantined" THEN intent' = intent /\ Ends(d, TRUE)
       ELSE IF intent[e] = "settled" THEN intent' = intent /\ GoesOn(d)
       ELSE intent' = [intent EXCEPT ![e] = "settled"] /\ DeliveryTo(d, "broadcast")
    /\ UNCHANGED <<log, sent, faults>>

\* A receiver of the live channel, with the id i sent to it.
Received(s, i) ==
    LET full == Len(stream[s].queue) = LiveCapacity
        kept == IF full THEN Tail(stream[s].queue) ELSE stream[s].queue
    IN IF stream[s].pc \in {"joined", "listing", "flushing", "baseline", "open"}
       THEN [stream[s] EXCEPT !.queue = Append(kept, i), !.lagged = @ \/ full]
       ELSE stream[s]

\* live.send, then the next event.
Broadcast(d) ==
    /\ delivery[d].pc = "broadcast"
    /\ LET e    == delivery[d].event
           ends == delivery[d].todo = {}
       IN /\ sent' = [sent EXCEPT ![e] = IF @ < 2 THEN @ + 1 ELSE @]
          /\ stream' = [s \in Stream |->
                 IF s = d /\ ends THEN [Received(s, IdOf(e)) EXCEPT !.pc = "baseline"]
                 ELSE Received(s, IdOf(e))]
          /\ delivery' = [delivery EXCEPT ![d] =
                 IF ends THEN NoDelivery ELSE [delivery[d] EXCEPT !.pc = "take"]]
    /\ UNCHANGED <<intent, log, faults>>

\* The request of d goes away; a recovery worker meets the deadline of its
\* turn.
Drop(d) ==
    /\ delivery[d].pc # "idle"
    /\ IF d \in Event THEN Fault ELSE UNCHANGED faults
    /\ Ends(d, TRUE)
    /\ UNCHANGED <<intent, log, sent>>

\* A worker's own deadline: the delivery is dropped and the intent put off.
TimeOut(e) ==
    /\ delivery[e].pc \in {"take", "append", "settle", "broadcast"}
    /\ Fault
    /\ delivery' = [delivery EXCEPT ![e] = [pc |-> "retry", event |-> e, todo |-> {}]]
    /\ UNCHANGED <<intent, log, stream, sent>>

\* next_attempt_at_unix_ms has passed.
BackoffElapses(e) ==
    /\ intent[e] = "waiting"
    /\ intent' = [intent EXCEPT ![e] = "due"]
    /\ UNCHANGED <<log, delivery, stream, sent, faults>>

-----------------------------------------------------------------------------
(* Streams (handle_subscribe, write_sse_stream). *)

\* The receiver is subscribed first.  A client that resumes names the last id it
\* has seen.
Subscribe(s) ==
    /\ stream[s].pc = "idle"
    /\ \E resumes \in BOOLEAN, last \in 0..Len(log) :
          /\ resumes \/ last = 0
          /\ stream' = [stream EXCEPT ![s] =
                 [NoStream EXCEPT !.pc = "joined", !.resumes = resumes, !.last = last]]
    /\ UNCHANGED <<intent, log, delivery, sent, faults>>

\* Then the task is read, which must be there and not be terminal.
ReadTask(s) ==
    /\ stream[s].pc = "joined"
    /\ stream' = [stream EXCEPT ![s] =
           IF intent["accepted"] # "none" /\ intent["final"] = "none"
           THEN [@ EXCEPT !.pc = "listing"] ELSE Closed]
    /\ UNCHANGED <<intent, log, delivery, sent, faults>>

\* And what is pending by then is flushed; the task may have ended meanwhile.
ListPending(s) ==
    /\ stream[s].pc = "listing"
    /\ stream' = [stream EXCEPT ![s].pc = IF Listed = {} THEN "baseline" ELSE "flushing"]
    /\ delivery' = IF Listed = {} THEN delivery
                   ELSE [delivery EXCEPT ![s] = [NoDelivery EXCEPT !.pc = "take", !.todo = Listed]]
    /\ UNCHANGED <<intent, log, sent, faults>>

\* s shows the ids of a set that reaches up to the id high.
Showing(s, ids, high) ==
    [stream[s] EXCEPT !.shown = @ \cup ids, !.last = high,
                      !.pc = IF high = FinalId THEN "done" ELSE "open"]

\* replay_to_high_water after last_seen: all that is there, or an error when
\* retention has removed the next one.
Replayed(s) == IF stream[s].last + 1 < Earliest THEN Closed
               ELSE Showing(s, (stream[s].last + 1)..Len(log), Len(log))

\* The replay of a client that resumes, or the latest event for a new one.
Baseline(s) ==
    /\ stream[s].pc = "baseline"
    /\ stream' = [stream EXCEPT ![s] =
           IF stream[s].resumes THEN Replayed(s)
           ELSE IF log = <<>> THEN Closed
           ELSE Showing(s, {Len(log)}, Len(log))]
    /\ UNCHANGED <<intent, log, delivery, sent, faults>>

\* Fault of Receive: an event that came out of turn is shown as it is.
ReceivesOutOfTurn(s) ==
    /\ stream[s].pc = "open" /\ (stream[s].lagged \/ stream[s].queue # <<>>)
    /\ stream' = [stream EXCEPT ![s] =
           IF stream[s].lagged THEN [Replayed(s) EXCEPT !.lagged = FALSE]
           ELSE LET i == Head(stream[s].queue) IN
                [(IF i <= stream[s].last THEN stream[s] ELSE Showing(s, {i}, i))
                    EXCEPT !.queue = Tail(stream[s].queue)]]
    /\ UNCHANGED <<intent, log, delivery, sent, faults>>

\* The next live event.  What was shown is skipped; after a gap, and when the
\* receiver lagged, the store is replayed.
Receive(s) ==
    /\ stream[s].pc = "open" /\ (stream[s].lagged \/ stream[s].queue # <<>>)
    /\ stream' = [stream EXCEPT ![s] =
           IF stream[s].lagged THEN [Replayed(s) EXCEPT !.lagged = FALSE]
           ELSE LET i == Head(stream[s].queue) IN
                [(IF i <= stream[s].last THEN stream[s]
                  ELSE IF i = stream[s].last + 1 THEN Showing(s, {i}, i)
                  ELSE Replayed(s)) EXCEPT !.queue = Tail(stream[s].queue)]]
    /\ UNCHANGED <<intent, log, delivery, sent, faults>>

\* The client, the idle timeout or the server ends the stream, or its request.
CloseStream(s) ==
    /\ stream[s].pc \in {"joined", "listing", "baseline", "open"}
    /\ stream' = [stream EXCEPT ![s] = Closed]
    /\ UNCHANGED <<intent, log, delivery, sent, faults>>

Crash ==
    /\ Fault
    /\ delivery' = [d \in Deliverer |-> NoDelivery]
    /\ stream' = [s \in Stream |->
           IF stream[s].pc \in {"idle", "done"} THEN stream[s] ELSE Closed]
    /\ UNCHANGED <<intent, log, sent>>

-----------------------------------------------------------------------------
Init == /\ intent = [e \in Event |-> "none"]
        /\ log = <<>>
        /\ delivery = [d \in Deliverer |-> NoDelivery]
        /\ stream = [s \in Stream |-> NoStream]
        /\ sent = [e \in Event |-> 0]
        /\ faults = 0

Deliver(d) == \/ Take(d) \/ AppendEvent(d) \/ MarkRetry(d) \/ MarkPoison(d)
              \/ Settle(d) \/ Broadcast(d)

Next == \/ Accept \/ Complete
        \/ \E f \in Flusher : BeginFlush(f)
        \/ BeginRecovery
        \/ \E d \in Deliverer : Deliver(d) \/ Drop(d)
        \/ \E e \in Event : TimeOut(e) \/ BackoffElapses(e)
        \/ \E s \in Stream : \/ Subscribe(s) \/ ReadTask(s) \/ ListPending(s)
                            \/ Baseline(s) \/ Receive(s) \/ CloseStream(s)
        \/ Crash

Spec == Init /\ [][Next]_vars

\* The recovery driver goes on, time passes, and futures are polled.
FairSpec == /\ Spec
            /\ WF_vars(BeginRecovery)
            /\ \A d \in Deliverer : WF_vars(Deliver(d))
            /\ \A e \in Event : WF_vars(BackoffElapses(e))

-----------------------------------------------------------------------------
(* Properties. *)

\* However many deliverers meet at one event, over retries and restarts, it is
\* published once: an intent is settled when its event is in the store, no event
\* is there twice, none follows the terminal one, and none is broadcast twice.
PublishedOnce ==
    /\ \A e \in Event : intent[e] = "settled" => e \in Appended
    /\ Cardinality(Appended) = Len(log)
    /\ FinalId <= Len(log) => FinalId = Len(log)
    /\ \A e \in Event : sent[e] <= 1

\* A stream that ends with the terminal frame has shown every event since the
\* first it showed, whatever order the events were broadcast in and however
\* far the receiver lagged.
StreamIsComplete ==
    \A s \in Stream : stream[s].pc = "done" =>
        \E i \in stream[s].shown : stream[s].shown = i..FinalId

\* Every accepted intent is published or put into quarantine at last.
IntentsAreResolved == \A e \in Event : intent[e] \in Open ~> intent[e] \notin Open

\* The artifacts of a completion are in the stream before its terminal frame.
ArtifactsPrecedeFinal == "final" \in Appended => Artifact \subseteq Appended
=============================================================================
