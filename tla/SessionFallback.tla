-------------------------- MODULE SessionFallback --------------------------
(***************************************************************************)
(* A third-party session store that implements only create_session,        *)
(* load_session and compare_and_swap, and inherits the lease operations of *)
(* the SessionStore trait (session.rs).  The lease is an entry of the      *)
(* session's metadata, so it travels with every copy of the session, and   *)
(* an operation on it is a load followed by a compare-and-swap: two steps  *)
(* between which anybody may write.  The constants are those of            *)
(* SessionLocked, with its assumptions.                                    *)
(***************************************************************************)
EXTENDS Naturals

CONSTANTS
    Runner,    \* calls of execute or resume
    Operator,  \* calls that recover or clear an expired lease
    Writer,    \* calls of save, or of compare_and_swap after load_session
    Nobody     \* no lease in the metadata

Claim == Runner \cup Operator

VARIABLES
    session,  \* the stored session: revision, messages, lease in its metadata
    lapsed,   \* leases whose expires_at_unix_ms has passed
    call,     \* where each call is, and the session it is based on
    write     \* the same for the writers

vars == <<session, lapsed, call, write>>

-----------------------------------------------------------------------------
Session == [revision: Nat, content: SUBSET (Claim \cup Writer), lease: Claim \cup {Nobody}]

NoSession == [revision |-> 0, content |-> {}, lease |-> Nobody]

Pc == {"start", "loaded", "recovering", "clearing", "running", "committing", "releasing",
       "done", "failed", "crashed"}

Becomes(c, pc, base) == call' = [call EXCEPT ![c] = [pc |-> pc, base |-> base]]

\* Nothing is written; the call goes on, or fails.
Proceed(c, ok, pc, base) == /\ IF ok THEN Becomes(c, pc, base) ELSE Becomes(c, "failed", base)
                            /\ UNCHANGED <<session, lapsed, write>>

\* compare_and_swap (create_session for revision 0) of the call's session by
\* one with the given messages and lease; the call then holds the new one.
Cas(c, base, content, lease, pc) ==
    LET new == [revision |-> session.revision + 1, content |-> content, lease |-> lease] IN
    /\ IF base.revision = session.revision
       THEN session' = new /\ Becomes(c, pc, new)
       ELSE session' = session /\ Becomes(c, "failed", base)
    /\ UNCHANGED <<lapsed, write>>

-----------------------------------------------------------------------------
Begin(c) ==
    /\ call[c].pc = "start"
    /\ \E base \in {session} \cup (IF c \in Runner THEN {NoSession} ELSE {}) :
           Proceed(c, TRUE, "loaded", base)

\* acquire_execution_lease: the metadata of the caller's copy is looked at.
Acquire(c) ==
    LET base == call[c].base IN
    /\ c \in Runner /\ call[c].pc = "loaded"
    /\ IF base.lease = Nobody
       THEN Cas(c, base, base.content, c, "running")
       ELSE Proceed(c, FALSE, "failed", base)

\* What recover and clear check of the session they load: the caller's
\* revision, unless it is 0, and a lease that has expired.
Expired(base) == /\ session.revision # 0
                 /\ base.revision \in {0, session.revision}
                 /\ session.lease \in lapsed

RecoverLoad(c) == /\ c \in Operator /\ call[c].pc = "loaded"
                  /\ Proceed(c, Expired(call[c].base), "recovering", session)

RecoverCas(c) ==
    /\ call[c].pc = "recovering"
    /\ Cas(c, call[c].base, call[c].base.content, c, "running")

ClearLoad(c) == /\ c \in Operator /\ call[c].pc = "loaded"
                /\ Proceed(c, Expired(call[c].base), "clearing", session)

ClearCas(c) ==
    /\ call[c].pc = "clearing"
    /\ Cas(c, call[c].base, call[c].base.content, Nobody, "done")

\* commit and release check token and revision on a loaded copy, and then
\* swap the claim's own session.
StillHeld(c) == session.lease = c /\ session.revision = call[c].base.revision

CommitLoad(c) == /\ call[c].pc = "running"
                 /\ Proceed(c, StillHeld(c), "committing", call[c].base)

CommitCas(c) ==
    /\ call[c].pc = "committing"
    /\ Cas(c, call[c].base, call[c].base.content \cup {c}, Nobody, "done")

ReleaseLoad(c) == /\ c \in Operator /\ call[c].pc = "running"
                  /\ Proceed(c, StillHeld(c), "releasing", call[c].base)

ReleaseCas(c) ==
    /\ call[c].pc = "releasing"
    /\ Cas(c, call[c].base, call[c].base.content, Nobody, "done")

Crash(c) == /\ call[c].pc \in {"recovering", "clearing", "running", "committing", "releasing"}
            /\ Proceed(c, TRUE, "crashed", call[c].base)

Lapse == /\ session.lease # Nobody
         /\ lapsed' = lapsed \cup {session.lease}
         /\ UNCHANGED <<session, call, write>>

WriteLoad(w) == /\ write[w].pc = "start"
                /\ write' = [write EXCEPT ![w] = [pc |-> "loaded", base |-> session]]
                /\ UNCHANGED <<session, lapsed, call>>

\* Fault of WriteCas: the metadata is rebuilt, and the lease is lost.
DropsMetadata(w) ==
    LET base == write[w].base IN
    /\ write[w].pc = "loaded"
    /\ IF base.revision = session.revision
       THEN /\ \E content \in {{w}, base.content \cup {w}} :
                   session' = [revision |-> session.revision + 1, content |-> content,
                               lease |-> Nobody]
            /\ write' = [write EXCEPT ![w].pc = "done"]
       ELSE /\ session' = session
            /\ write' = [write EXCEPT ![w].pc = "start"]
    /\ UNCHANGED <<lapsed, call>>

\* save and the like keep the metadata, hence the lease, of what they loaded.
WriteCas(w) ==
    LET base == write[w].base IN
    /\ write[w].pc = "loaded"
    /\ IF base.revision = session.revision
       THEN /\ \E content \in {{w}, base.content \cup {w}} :
                   session' = [revision |-> session.revision + 1, content |-> content,
                               lease |-> base.lease]
            /\ write' = [write EXCEPT ![w].pc = "done"]
       ELSE /\ session' = session
            /\ write' = [write EXCEPT ![w].pc = "start"]
    /\ UNCHANGED <<lapsed, call>>

Init == /\ session = NoSession
        /\ lapsed = {}
        /\ call = [c \in Claim |-> [pc |-> "start", base |-> NoSession]]
        /\ write = [w \in Writer |-> [pc |-> "start", base |-> NoSession]]

Next == \/ \E c \in Claim : \/ Begin(c) \/ Acquire(c) \/ RecoverLoad(c) \/ RecoverCas(c)
                            \/ ClearLoad(c) \/ ClearCas(c) \/ CommitLoad(c) \/ CommitCas(c)
                            \/ ReleaseLoad(c) \/ ReleaseCas(c) \/ Crash(c)
        \/ \E w \in Writer : WriteLoad(w) \/ WriteCas(w)
        \/ Lapse

Spec == Init /\ [][Next]_vars

-----------------------------------------------------------------------------
(* Properties. *)

\* Every variable stays in its type.
TypeOK == /\ session \in Session
          /\ lapsed \in SUBSET Claim
          /\ call \in [Claim -> [pc: Pc, base: Session]]
          /\ write \in [Writer -> [pc: Pc, base: Session]]

\* A copy of the session is as old as its revision says: with the revision of
\* the stored session it is the stored session, the lease included.  This is
\* what lets a comparison of revisions stand for a comparison of sessions.
Copy(base) == /\ base.revision <= session.revision
              /\ base.revision = session.revision => base = session

RevisionIdentifies == /\ Copy(NoSession)
                      /\ \A c \in Claim : Copy(call[c].base)
                      /\ \A w \in Writer : Copy(write[w].base)

\* Calls that have asked for a claim.
Issued == {c \in Claim : call[c].pc \notin {"start", "loaded", "recovering", "clearing"}}

\* Although every operation is a load and a compare-and-swap, the inherited
\* operations keep the promise of a session claim.
Promise == INSTANCE SessionClaim
           WITH content <- session.content, holder <- session.lease,
                issued <- Issued

ImplementsClaim == Promise!Spec
=============================================================================
