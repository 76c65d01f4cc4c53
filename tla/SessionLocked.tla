--------------------------- MODULE SessionLocked ---------------------------
(***************************************************************************)
(* The session stores that keep the execution lease in a record of its own *)
(* (InMemorySessionStore and JsonFileSessionStore of session.rs,           *)
(* SqliteSessionStore of sqlite.rs) under the calls that use them: runs of *)
(* the orchestrator, operators who recover or clear an expired lease, and  *)
(* callers of save or compare_and_swap that know nothing of leases.        *)
(*                                                                         *)
(* Each operation of these stores is atomic: one lock (or one immediate    *)
(* transaction) from the first read to the write.  What is not atomic is   *)
(* the use of it: every caller acts on the session it loaded before.       *)
(* Revision 0 stands for a session that was not created.                   *)
(***************************************************************************)
EXTENDS Naturals

CONSTANTS
    Runner,    \* calls of execute or resume
    Operator,  \* calls that recover or clear an expired lease
    Writer,    \* calls of save, or of compare_and_swap after load_session
    Nobody,    \* no lease
    MaxFaults  \* bound: writes answered with an I/O error

Claim == Runner \cup Operator

ASSUME NobodyIsNoClaim == Nobody \notin Claim

ASSUME RolesAreDistinct == Runner \cap Operator = {} /\ Claim \cap Writer = {}

ASSUME SessionBounds == MaxFaults \in Nat

VARIABLES
    session,  \* the stored session: its revision and its messages
    lease,    \* owner and token of the lease record
    lapsed,   \* leases whose expires_at_unix_ms has passed
    call,     \* where each call is and the session it is based on
    write,    \* the same for the writers
    faults,   \* I/O errors so far
    rash      \* ghost: operators who took the lease of a call that still ran

vars == <<session, lease, lapsed, call, write, faults, rash>>

-----------------------------------------------------------------------------
Session == [revision: Nat, content: SUBSET (Claim \cup Writer)]

NoSession == [revision |-> 0, content |-> {}]

Pc == {"start", "loaded", "running", "done", "failed", "unsure", "crashed"}

Goto(c, pc) == call' = [call EXCEPT ![c].pc = pc]

\* The session and the lease become what is given and c goes to pc; or the
\* write fails with an I/O error, before or after it took effect, and c does
\* not know what is stored.
Store(c, newSession, newLease, pc) ==
    \/ /\ session' = newSession /\ lease' = newLease
       /\ Goto(c, pc)
       /\ faults' = faults
    \/ /\ faults < MaxFaults
       /\ \/ session' = newSession /\ lease' = newLease
          \/ session' = session /\ lease' = lease
       /\ Goto(c, "unsure")
       /\ faults' = faults + 1

\* The operation is rejected without a write.
Reject(c) == Goto(c, "failed") /\ UNCHANGED <<session, lease, faults>>

\* validate_lease_base and validate_revision: a base of revision 0 requires
\* that there is no session.
Current(base) == base.revision = session.revision

\* Fault of Replacement: the revision stays the same.
KeepsRevision(content) == [revision |-> session.revision, content |-> content]

\* prepare_replacement or initialize_created_session.
Replacement(content) == [revision |-> session.revision + 1, content |-> content]

-----------------------------------------------------------------------------
\* execute starts from a fresh session, resume and operators from the stored.
Begin(c) ==
    /\ call[c].pc = "start"
    /\ \E base \in {session} \cup (IF c \in Runner THEN {NoSession} ELSE {}) :
           call' = [call EXCEPT ![c] = [pc |-> "loaded", base |-> base]]
    /\ UNCHANGED <<session, lease, lapsed, write, faults, rash>>

\* Fault of Acquire: a lease that has expired does not count.
AcquiresLapsed(c) ==
    /\ c \in Runner /\ call[c].pc = "loaded"
    /\ IF (lease = Nobody \/ lease \in lapsed) /\ Current(call[c].base)
       THEN Store(c, session, c, "running")
       ELSE Reject(c)
    /\ UNCHANGED <<lapsed, write, rash>>

\* acquire_execution_lease: any lease blocks, even one that has expired.
Acquire(c) ==
    /\ c \in Runner /\ call[c].pc = "loaded"
    /\ IF lease = Nobody /\ Current(call[c].base)
       THEN Store(c, session, c, "running")
       ELSE Reject(c)
    /\ UNCHANGED <<lapsed, write, rash>>

\* What the operator must establish before: the owner no longer runs.
OwnerIsGone == \A c \in Claim : c = lease => call[c].pc # "running"

\* recover_expired_execution_lease and clear_expired_execution_lease: the
\* expired lease becomes newLease, and c goes to pc.  The store cannot see
\* whether the owner is gone.
TakeExpired(c, newLease, pc) ==
    /\ c \in Operator /\ call[c].pc = "loaded"
    /\ IF lease \in lapsed /\ Current(call[c].base)
       THEN /\ Store(c, session, newLease, pc)
            /\ rash' = IF OwnerIsGone THEN rash ELSE rash \cup {c}
       ELSE Reject(c) /\ rash' = rash
    /\ UNCHANGED <<lapsed, write>>

Recover(c) == TakeExpired(c, c, "running")

ClearExpired(c) == TakeExpired(c, Nobody, "done")

\* Fault of Commit: the claim is not compared with the stored lease.
CommitsUnfenced(c) ==
    /\ call[c].pc = "running"
    /\ IF ~Current(call[c].base) THEN Store(c, session, Nobody, "failed")
       ELSE Store(c, Replacement(call[c].base.content \cup {c}), Nobody, "done")
    /\ UNCHANGED <<lapsed, write, rash>>

\* Fault of Commit: a conflict leaves the lease in place.
ConflictKeepsLease(c) ==
    /\ call[c].pc = "running"
    /\ IF lease # c \/ ~Current(call[c].base) THEN Reject(c)
       ELSE Store(c, Replacement(call[c].base.content \cup {c}), Nobody, "done")
    /\ UNCHANGED <<lapsed, write, rash>>

\* commit_execution_lease: the result is stored and the lease removed; it is
\* removed as well when somebody else wrote the session in the meantime.
Commit(c) ==
    /\ call[c].pc = "running"
    /\ IF lease # c THEN Reject(c)
       ELSE IF ~Current(call[c].base) THEN Store(c, session, Nobody, "failed")
       ELSE Store(c, Replacement(call[c].base.content \cup {c}), Nobody, "done")
    /\ UNCHANGED <<lapsed, write, rash>>

\* release_execution_lease, by an operator who reconciled.
Release(c) ==
    /\ c \in Operator /\ call[c].pc = "running"
    /\ IF lease # c THEN Reject(c) ELSE Store(c, session, Nobody, "done")
    /\ UNCHANGED <<lapsed, write, rash>>

Crash(c) == /\ call[c].pc = "running"
            /\ Goto(c, "crashed")
            /\ UNCHANGED <<session, lease, lapsed, write, faults, rash>>

\* The expiry of the current lease passes.
Lapse == /\ lease # Nobody
         /\ lapsed' = lapsed \cup {lease}
         /\ UNCHANGED <<session, lease, call, write, faults, rash>>

WriteLoad(w) == /\ write[w].pc = "start"
                /\ write' = [write EXCEPT ![w] = [pc |-> "loaded", base |-> session]]
                /\ UNCHANGED <<session, lease, lapsed, call, faults, rash>>

\* save replaces the messages, another writer extends what it loaded; on a
\* conflict both load again.
WriteCas(w) ==
    LET base == write[w].base IN
    /\ write[w].pc = "loaded"
    /\ IF Current(base)
       THEN /\ \E content \in {{w}, base.content \cup {w}} : session' = Replacement(content)
            /\ write' = [write EXCEPT ![w].pc = "done"]
       ELSE /\ session' = session
            /\ write' = [write EXCEPT ![w].pc = "start"]
    /\ UNCHANGED <<lease, lapsed, call, faults, rash>>

Init == /\ session = NoSession
        /\ lease = Nobody
        /\ lapsed = {}
        /\ call = [c \in Claim |-> [pc |-> "start", base |-> NoSession]]
        /\ write = [w \in Writer |-> [pc |-> "start", base |-> NoSession]]
        /\ faults = 0
        /\ rash = {}

Next == \/ \E c \in Claim : \/ Begin(c) \/ Acquire(c) \/ Recover(c) \/ ClearExpired(c)
                            \/ Commit(c) \/ Release(c) \/ Crash(c)
        \/ \E w \in Writer : WriteLoad(w) \/ WriteCas(w)
        \/ Lapse

Spec == Init /\ [][Next]_vars

-----------------------------------------------------------------------------
(* Properties. *)

\* Every variable stays in its type.
TypeOK == /\ session \in Session
          /\ lease \in Claim \cup {Nobody}
          /\ lapsed \in SUBSET Claim
          /\ call \in [Claim -> [pc: Pc, base: Session]]
          /\ write \in [Writer -> [pc: Pc, base: Session]]
          /\ faults \in 0..MaxFaults
          /\ rash \in SUBSET Operator

\* A copy of the session is as old as its revision says: with the revision of
\* the stored session it is the stored session.  This is what lets a comparison
\* of revisions stand for a comparison of sessions.
Copy(base) == /\ base.revision <= session.revision
              /\ base.revision = session.revision => base = session

RevisionIdentifies == /\ Copy(NoSession)
                      /\ \A c \in Claim : Copy(call[c].base)
                      /\ \A w \in Writer : Copy(write[w].base)

\* Calls that have asked for a claim.
Issued == {c \in Claim : call[c].pc \notin {"start", "loaded"}}

\* The store keeps the promise of a session claim, whoever loads, commits,
\* recovers and writes in between: in particular a superseded claim stores
\* nothing, and a result is stored on top of the messages it was based on.
Promise == INSTANCE SessionClaim
           WITH content <- session.content, holder <- lease,
                issued <- Issued

ImplementsClaim == Promise!Spec

\* Two calls never act for the session at the same time, unless an operator
\* took over a lease whose owner was still running (which the documentation of
\* recover_expired_execution_lease forbids and the store cannot prevent).
OneAtATime ==
    rash = {} =>
        \A c, d \in Claim : call[c].pc = "running" /\ call[d].pc = "running" => c = d

\* A call that ended, with a result or a conflict, leaves no lease behind:
\* without I/O errors only a crash requires an operator.
NoLeaseLeftBehind ==
    \A c \in Claim : lease = c => call[c].pc \in {"running", "unsure", "crashed"}
=============================================================================
