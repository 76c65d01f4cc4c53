---------------------------- MODULE A2aSnapshot ----------------------------
(***************************************************************************)
(* How A2A servers change and read their mapper (a2a_transport.rs): every  *)
(* mutation is prepared on a copy of the live mapper under the commit      *)
(* lock, stored by compare-and-swap in the snapshot store, and installed   *)
(* only then; every read is bound to the head of the store.                *)
(*                                                                         *)
(* Several servers may share one store, and a server may crash and be      *)
(* restarted, with the stored mapper or, by mistake, with an empty one.    *)
(* The store may leave it open whether a write took place, and a lookup or *)
(* a load may fail.                                                        *)
(*                                                                         *)
(* A mapper is the sequence of the mutations that made it: its revision is *)
(* the length of the sequence and its digest stands for the sequence.      *)
(***************************************************************************)
EXTENDS Naturals, Sequences

CONSTANTS
    Server,       \* the A2aServer instances over one store
    Call,         \* the requests and background tasks that use the mapper
    Home,         \* the server each call belongs to
    Asks,         \* what each call may ask for
    Mortal,       \* the servers that may crash
    Op,           \* mutations that change the mapper
    NoVersion,    \* the store holds no snapshot
    NoCall,       \* nobody holds the commit lock
    MaxRevision   \* bound: mutations in a mapper

ASSUME HomeIsServer == Home \in [Call -> Server]

ASSUME AsksIsKinds == Asks \in [Call -> SUBSET {"commit", "noop", "read"}]

ASSUME NoVersionIsNone == NoVersion \notin Seq(Op)

ASSUME NoCallIsNone == NoCall \notin Call

ASSUME RevisionBound == MaxRevision \in Nat

VARIABLES
    store,   \* the snapshot in the store
    server,  \* the state of each server
    call,    \* where each call is and what it has read
    acked    \* ghost: the versions whose commit a server reported, and which

vars == <<store, server, call, acked>>

-----------------------------------------------------------------------------
Mapper == Seq(Op)

Version == Mapper \cup {NoVersion}

Pc == {"idle", "wait", "load", "recheck", "mutate", "cas", "probe", "recas",
       "reprobe", "classify", "install", "look", "serve"}

Kind == {"commit", "noop", "read"}

\* live is the mapper, cached is snapshot_version, ready is
\* snapshot_store_initialized, failed is snapshot_commit_failed and writer the
\* owner of the snapshot_commit lock.
ServerState == [up: BOOLEAN, live: Mapper, cached: Version, ready: BOOLEAN,
                failed: BOOLEAN, writer: Call \cup {NoCall}]

\* base says that the snapshot the mutation starts from must be stored first;
\* served is the mapper a read returned and refused the answer that a mutation
\* was not applied.  wrote and floor are ghosts: the call itself changed the
\* store to its candidate, and the head when the call began.
CallState == [pc: Pc, kind: Kind, base: BOOLEAN, expected: Version,
              target: Mapper, before: Version, observed: Version,
              wrote: BOOLEAN, floor: Version, served: Version, refused: BOOLEAN]

TypeOK == /\ store \in Version
          /\ server \in [Server -> ServerState]
          /\ call \in [Call -> CallState]
          /\ acked \in SUBSET [server: Server, version: Mapper]

\* a is a prefix of b; nothing is a prefix of everything.
Within(a, b) == \/ a = NoVersion
                \/ /\ b # NoVersion /\ Len(a) <= Len(b)
                   /\ \A i \in 1..Len(a) : a[i] = b[i]

Here(c) == server[Home[c]]

\* Fault of Unlocked: the commit lock is kept.
StaysLocked(c) == Here(c)

\* The server after c gave back the commit lock, if it held it.
Unlocked(c) == IF Here(c).writer = c THEN [Here(c) EXCEPT !.writer = NoCall] ELSE Here(c)

Rest == [pc |-> "idle", kind |-> "read", base |-> FALSE, expected |-> NoVersion,
         target |-> <<>>, before |-> NoVersion, observed |-> NoVersion,
         wrote |-> FALSE, floor |-> NoVersion, served |-> NoVersion, refused |-> FALSE]

\* The call returns.
Return(c, final) ==
    /\ server' = [server EXCEPT ![Home[c]] = Unlocked(c)]
    /\ call' = [call EXCEPT ![c] = final]

\* The mutation is answered with DefiniteNotApplied.
NotApplied(c) == Return(c, [Rest EXCEPT !.refused = TRUE, !.wrote = call[c].wrote])

\* fail_stop_snapshot, or its inlined copy in the commit task: the server
\* serves nothing from here on.
FailStop(c) ==
    /\ server' = [server EXCEPT ![Home[c]] = [Unlocked(c) EXCEPT !.failed = TRUE]]
    /\ call' = [call EXCEPT ![c] = Rest]

Goto(c, pc) == call' = [call EXCEPT ![c].pc = pc]

\* The writer leaves and the call goes on in the loop of
\* acquire_current_snapshot_read; a no-op remembers the version it looked at.
ReadOn(c, state) ==
    /\ server' = [server EXCEPT ![Home[c]] = [state EXCEPT !.writer = NoCall]]
    /\ call' = [call EXCEPT ![c] = [Rest EXCEPT
           !.pc = "look", !.kind = call[c].kind, !.floor = call[c].floor,
           !.expected = IF call[c].kind = "noop" THEN state.cached ELSE NoVersion]]

-----------------------------------------------------------------------------
\* Fault of CasOutcome: what has the candidate's revision counts as it.
AppliedByRevision(expected, candidate) ==
    IF store = NoVersion
    THEN IF expected = NoVersion THEN "applied" ELSE "conflict"
    ELSE IF Len(store) = Len(candidate) THEN "already"
    ELSE IF expected = store /\ Len(candidate) > Len(store) THEN "applied"
    ELSE "conflict"

\* The store (compare_and_swap_snapshot).  The candidate's revision is looked
\* at first: the exact same snapshot counts as applied whatever was expected.
CasOutcome(expected, candidate) ==
    IF store = NoVersion
    THEN IF expected = NoVersion THEN "applied" ELSE "conflict"
    ELSE IF Len(store) = Len(candidate)
    THEN IF store = candidate THEN "already" ELSE "conflict"
    ELSE IF expected = store /\ Len(candidate) > Len(store) THEN "applied"
    ELSE "conflict"

\* One compare-and-swap: it takes place or it does not, and the answer says
\* so, or says that the outcome is unknown.
Cas(c, ifUnknown) ==
    LET outcome == CasOutcome(call[c].expected, call[c].target)
        apply   == outcome = "applied"
        wrote   == call[c].wrote \/ (apply /\ call[c].target # <<>>)
        next(pc, w) == call' = [call EXCEPT ![c].pc = pc, ![c].wrote = w]
    IN \/ /\ store' = IF apply THEN call[c].target ELSE store
          /\ next(IF outcome = "conflict" THEN "classify" ELSE "install", wrote)
       \/ /\ store' = IF apply THEN call[c].target ELSE store
          /\ next(ifUnknown, wrote)
       \/ store' = store /\ next(ifUnknown, call[c].wrote)

\* The first compare-and-swap of persist_snapshot_with_exact_probe.
FirstCas(c) == call[c].pc = "cas" /\ Cas(c, "probe") /\ UNCHANGED <<server, acked>>

SecondCas(c) == call[c].pc = "recas" /\ Cas(c, "reprobe") /\ UNCHANGED <<server, acked>>

\* Fault of Probe: any head but the candidate counts as "not applied".
ProbeTrustsAnyHead(c) ==
    /\ call[c].pc = "probe"
    /\ \/ IF store = call[c].target THEN Goto(c, "install") /\ UNCHANGED server
          ELSE IF store # call[c].expected THEN NotApplied(c)
          ELSE Goto(c, "recas") /\ UNCHANGED server
       \/ FailStop(c)
    /\ UNCHANGED <<store, acked>>

\* lookup_snapshot_version after an unknown outcome.
Probe(c) ==
    /\ call[c].pc = "probe"
    /\ \/ IF store = call[c].target THEN Goto(c, "install") /\ UNCHANGED server
          ELSE IF store # call[c].expected THEN FailStop(c)
          ELSE Goto(c, "recas") /\ UNCHANGED server
       \/ FailStop(c)
    /\ UNCHANGED <<store, acked>>

\* The same after the second compare-and-swap: the exact expected head shows
\* that nothing was applied.
Reprobe(c) ==
    /\ call[c].pc = "reprobe"
    /\ \/ IF store = call[c].target THEN Goto(c, "install") /\ UNCHANGED server
          ELSE IF store = call[c].expected THEN NotApplied(c)
          ELSE FailStop(c)
       \/ FailStop(c)
    /\ UNCHANGED <<store, acked>>

\* classify_definite_snapshot_failure.
Classify(c) ==
    /\ call[c].pc = "classify"
    /\ \/ IF store = call[c].expected THEN NotApplied(c) ELSE FailStop(c)
       \/ FailStop(c)
    /\ UNCHANGED <<store, acked>>

-----------------------------------------------------------------------------
\* ensure_snapshot_available, then a read takes the head and a mutation, or the
\* first read, waits for the commit lock.
Begin(c) ==
    /\ call[c].pc = "idle" /\ Here(c).up /\ ~Here(c).failed
    /\ \E kind \in Asks[c] :
           call' = [call EXCEPT ![c] =
               [Rest EXCEPT !.pc = IF kind = "read" /\ Here(c).ready THEN "look" ELSE "wait",
                            !.kind = kind, !.floor = store]]
    /\ UNCHANGED <<store, server, acked>>

\* snapshot_commit.write_owned and the second ensure_snapshot_available.
Lock(c) ==
    /\ call[c].pc = "wait" /\ Here(c).writer = NoCall
    /\ IF Here(c).failed THEN Return(c, Rest)
       ELSE /\ server' = [server EXCEPT ![Home[c]].writer = c]
            /\ Goto(c, IF ~Here(c).ready THEN "load"
                       ELSE IF call[c].kind = "read" THEN "recheck" ELSE "mutate")
    /\ UNCHANGED <<store, acked>>

\* initialize_snapshot_store when another call was faster.
Recheck(c) ==
    /\ call[c].pc = "recheck"
    /\ \/ IF Len(Here(c).cached) # Len(Here(c).live) \/ store # Here(c).cached
          THEN FailStop(c) ELSE ReadOn(c, Here(c))
       \/ Return(c, Rest)
    /\ UNCHANGED <<store, acked>>

\* load_serialized_snapshot by the first call: the stored mapper must be the
\* live one; if there is none, the live one is to be stored.
Load(c) ==
    /\ call[c].pc = "load"
    /\ \/ /\ store # NoVersion /\ store = Here(c).live
          /\ IF call[c].kind = "read"
             THEN ReadOn(c, [Here(c) EXCEPT !.cached = store, !.ready = TRUE])
             ELSE /\ server' = [server EXCEPT ![Home[c]].cached = store, ![Home[c]].ready = TRUE]
                  /\ Goto(c, "mutate")
       \/ /\ store = NoVersion
          /\ call' = [call EXCEPT ![c].base = TRUE, ![c].target = Here(c).live,
                                  ![c].pc = IF call[c].kind = "read" THEN "cas" ELSE "mutate"]
          /\ server' = IF call[c].kind = "read" THEN server
                       ELSE [server EXCEPT ![Home[c]].cached = Here(c).live]
       \/ FailStop(c)
    /\ UNCHANGED <<store, acked>>

\* The mutation of the copy: it is refused, it changes nothing, or it makes the
\* candidate, whose commit is spawned.
Mutate(c) ==
    /\ call[c].pc = "mutate"
    /\ \/ Return(c, Rest)
       \/ /\ call[c].kind = "noop"
          /\ IF call[c].base THEN Goto(c, "cas") /\ UNCHANGED server ELSE ReadOn(c, Here(c))
       \/ /\ call[c].kind = "commit" /\ Len(Here(c).live) < MaxRevision
          /\ \E op \in Op :
                 call' = IF call[c].base THEN [call EXCEPT ![c].pc = "cas"]
                         ELSE [call EXCEPT ![c].pc = "cas", ![c].expected = Here(c).cached,
                                           ![c].target = Append(Here(c).live, op)]
          /\ UNCHANGED server
    /\ UNCHANGED <<store, acked>>

\* The base is stored: the server is initialized and the call goes on with its
\* candidate or as a read.
BaseStored(c) ==
    LET state == [Here(c) EXCEPT !.cached = call[c].target, !.ready = TRUE]
    IN /\ call[c].pc = "install" /\ call[c].base
       /\ IF call[c].kind = "commit"
          THEN /\ server' = [server EXCEPT ![Home[c]] = state]
               /\ \E op \in Op :
                      call' = [call EXCEPT ![c].pc = "cas", ![c].base = FALSE,
                                           ![c].expected = call[c].target,
                                           ![c].target = Append(Here(c).live, op)]
          ELSE ReadOn(c, state)
       /\ UNCHANGED <<store, acked>>

\* The end of the commit task: mapper and version are installed and the caller
\* is told.
Install(c) ==
    /\ call[c].pc = "install" /\ ~call[c].base
    /\ server' = [server EXCEPT ![Home[c]] =
                      [Unlocked(c) EXCEPT !.live = call[c].target, !.cached = call[c].target]]
    /\ call' = [call EXCEPT ![c] = Rest]
    /\ acked' = acked \cup {[server |-> Home[c], version |-> call[c].target]}
    /\ UNCHANGED store

\* The loop of acquire_current_snapshot_read up to the lookup, which may fail.
Look(c) ==
    /\ call[c].pc = "look"
    /\ IF Here(c).failed THEN Return(c, Rest)
       ELSE \/ /\ call' = [call EXCEPT ![c].pc = "serve", ![c].before = Here(c).cached,
                                       ![c].observed = store]
               /\ UNCHANGED server
            \/ Return(c, Rest)
    /\ UNCHANGED <<store, acked>>

\* Fault of Serve: the head that was looked up is not compared.
ServesUnverified(c) ==
    /\ call[c].pc = "serve" /\ Here(c).writer = NoCall
    /\ IF Here(c).failed THEN Return(c, Rest)
       ELSE /\ call' = [call EXCEPT ![c] =
                            [Rest EXCEPT !.served = Here(c).live, !.floor = call[c].floor]]
            /\ UNCHANGED server
    /\ UNCHANGED <<store, acked>>

\* The rest of the loop, under the read side of the commit lock: a commit in
\* between asks for another turn.  A no-op mutation is answered only if
\* nothing was committed since it looked at the mapper.
Serve(c) ==
    /\ call[c].pc = "serve" /\ Here(c).writer = NoCall
    /\ IF Here(c).failed THEN Return(c, Rest)
       ELSE IF Here(c).cached # call[c].before
       THEN Goto(c, "look") /\ UNCHANGED server
       ELSE IF call[c].observed # Here(c).cached THEN FailStop(c)
       ELSE IF call[c].kind = "noop" /\ call[c].expected # Here(c).cached
       THEN Return(c, Rest)
       ELSE /\ call' = [call EXCEPT ![c] =
                            [Rest EXCEPT !.served = Here(c).live, !.floor = call[c].floor]]
            /\ UNCHANGED server
    /\ UNCHANGED <<store, acked>>

\* The request is dropped.  A commit that was spawned is not affected.
Abort(c) ==
    /\ \/ call[c].pc \in {"wait", "load", "recheck", "mutate", "look", "serve"}
       \/ /\ call[c].pc \in {"cas", "probe", "recas", "reprobe", "classify", "install"}
          /\ call[c].kind # "commit"
    /\ Return(c, Rest)
    /\ UNCHANGED <<store, acked>>

-----------------------------------------------------------------------------
Down == [up |-> FALSE, live |-> <<>>, cached |-> NoVersion, ready |-> FALSE,
         failed |-> FALSE, writer |-> NoCall]

\* The process ends, with everything that runs in it.
Crash(s) ==
    /\ s \in Mortal /\ server[s].up
    /\ server' = [server EXCEPT ![s] = Down]
    /\ call' = [c \in Call |-> IF Home[c] = s THEN Rest ELSE call[c]]
    /\ UNCHANGED <<store, acked>>

\* The host builds a server from the stored mapper, or from an empty one.
Start(s) ==
    /\ ~server[s].up
    /\ \E live \in {<<>>} \cup ({store} \ {NoVersion}) :
           server' = [server EXCEPT ![s] = [Down EXCEPT !.up = TRUE, !.live = live]]
    /\ UNCHANGED <<store, call, acked>>

Init == /\ store = NoVersion
        /\ server = [s \in Server |-> Down]
        /\ call = [c \in Call |-> Rest]
        /\ acked = {}

\* The steps of a call that it takes without being asked.
Step(c) == \/ Lock(c) \/ Load(c) \/ Recheck(c) \/ Mutate(c)
           \/ FirstCas(c) \/ Probe(c) \/ SecondCas(c) \/ Reprobe(c) \/ Classify(c)
           \/ BaseStored(c) \/ Install(c) \/ Look(c) \/ Serve(c)

Next == \/ \E c \in Call : Begin(c) \/ Step(c) \/ Abort(c)
        \/ \E s \in Server : Crash(s) \/ Start(s)

Spec == Init /\ [][Next]_vars

\* The store answers every request and the tasks of a server are polled.
FairSpec == Spec /\ \A c \in Call : WF_vars(Step(c))

-----------------------------------------------------------------------------
\* A version whose commit was reported is never lost or replaced: whatever the
\* crashes, unknown outcomes and other servers, it stays in the history of the
\* stored snapshot; and a server that has bound its mapper to the store works on
\* a mapper the store has held, with that mapper's version.
AcknowledgedIsDurable ==
    /\ \A a \in acked : Within(a.version, store)
    /\ \A s \in Server : server[s].ready =>
           server[s].cached = server[s].live /\ Within(server[s].live, store)

\* The caller who is told that a mutation was not applied can retry it: the
\* call did not write it, also when one of its two compare-and-swaps took
\* place without saying so.
NotAppliedIsTrue ==
    \A c \in Call : call[c].refused => ~call[c].wrote

\* A read returns the mapper that was the head of the store at some moment
\* during the call, although it looks the head up before it takes the lock.
ReadsAreCurrent ==
    \A c \in Call : call[c].served # NoVersion =>
        Within(call[c].floor, call[c].served) /\ Within(call[c].served, store)

\* The commit lock never stays with a call.
LockIsReleased == \A s \in Server : []<>(server[s].writer = NoCall)
=============================================================================
