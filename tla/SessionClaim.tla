---------------------------- MODULE SessionClaim ----------------------------
(***************************************************************************)
(* What a SessionStore promises about one session (the trait of            *)
(* session.rs): at most one execution claim at a time, a result that is    *)
(* stored only by the claim that holds the session and only on top of what *)
(* is stored, and a claim that ends on its own or, once expired, by an     *)
(* operator.  A claim is named by its random fencing token.                *)
(***************************************************************************)
CONSTANTS
    Claim,    \* calls that may obtain a claim
    Writer,   \* callers that write the session without a claim
    Nobody    \* no claim

VARIABLES
    content,  \* the contributions of which the stored messages consist
    holder,   \* the claim on the session
    lapsed,   \* claims whose expiry has passed
    issued    \* calls that have asked for a claim

vars == <<content, holder, lapsed, issued>>

Init == content = {} /\ holder = Nobody /\ lapsed = {} /\ issued = {}

\* c asks for the claim and is told that it is not available.
Refuse(c) == /\ c \notin issued
             /\ issued' = issued \cup {c}
             /\ UNCHANGED <<content, holder, lapsed>>

Acquire(c) == /\ holder = Nobody /\ c \notin issued
              /\ holder' = c
              /\ issued' = issued \cup {c}
              /\ UNCHANGED <<content, lapsed>>

Lapse(c) == /\ holder = c
            /\ lapsed' = lapsed \cup {c}
            /\ UNCHANGED <<content, holder, issued>>

TakeOver(c) == /\ holder \in lapsed /\ c \notin issued
               /\ holder' = c
               /\ issued' = issued \cup {c}
               /\ UNCHANGED <<content, lapsed>>

\* c frees the session from a claim that has expired and takes none itself.
Clear(c) == /\ holder \in lapsed /\ c \notin issued
            /\ holder' = Nobody
            /\ issued' = issued \cup {c}
            /\ UNCHANGED <<content, lapsed>>

Commit(c) == /\ holder = c
             /\ content' = content \cup {c}
             /\ holder' = Nobody
             /\ UNCHANGED <<lapsed, issued>>

Forfeit(c) == /\ holder = c
              /\ holder' = Nobody
              /\ UNCHANGED <<content, lapsed, issued>>

\* A write without a claim replaces the messages or adds to them; it leaves
\* the claim where it is.
Write(w) == /\ content' \in {{w}, content \cup {w}}
            /\ UNCHANGED <<holder, lapsed, issued>>

Next == \/ \E c \in Claim : \/ Refuse(c) \/ Acquire(c) \/ Lapse(c) \/ TakeOver(c)
                            \/ Clear(c) \/ Commit(c) \/ Forfeit(c)
        \/ \E w \in Writer : Write(w)

Spec == Init /\ [][Next]_vars
=============================================================================
