----------------------------- MODULE A2aJournal -----------------------------
(***************************************************************************)
(* The journal as a snapshot store: A2aJournalMapperSnapshotStore          *)
(* (a2a_transport.rs) over an A2aMapperJournalStore (a2a_journal.rs) that  *)
(* several servers share.  A stored mapper is a checkpoint and a chain of  *)
(* deltas after it; a server keeps the mapper of the head it last saw,     *)
(* writes the difference to the next one, and every Interval deltas takes  *)
(* a checkpoint and collects the deltas under it.                          *)
(*                                                                         *)
(* Each method of the journal is one transaction.  Between two of them the *)
(* other servers go on, the call may be dropped and the process may crash; *)
(* a transaction may fail without saying whether it took place.            *)
(*                                                                         *)
(* The in-memory journal and the SQLite one do the same; what outlives a   *)
(* process, its pins above all, is that of SQLite.                         *)
(*                                                                         *)
(* A mapper is its revision and the set of its entries.  A hash stands for *)
(* what is hashed: two tokens are equal exactly when their chains are.     *)
(***************************************************************************)
EXTENDS Integers, Sequences, FiniteSets

CONSTANTS
    Server,        \* the processes that share the journal
    Key,           \* storage keys of mapper entries
    None,          \* no mapper, token, checkpoint or owner
    Interval,      \* checkpoint_interval
    MaxRevision,   \* bound: the revision of a mapper
    MaxTroubles    \* bound: failed transactions, dropped calls and crashes

VARIABLES
    journal,   \* the tables of the journal
    cache,     \* JournalStoreState of each server
    ask,       \* the call of each server that holds the state lock
    knows,     \* the mapper each server works on
    written,   \* ghost: the mappers whose write took place, in order
    troubles   \* how many transactions, calls and processes failed

vars == <<journal, cache, ask, knows, written, troubles>>

-----------------------------------------------------------------------------
(* Mappers, tokens, deltas and checkpoints. *)

Mapper == [rev: Nat, entries: SUBSET Key]

Token == [seq: Nat, rev: Nat, hash: Seq(Mapper)]

\* What a run must give for the constants.
ConstantsFit ==
    /\ Interval \in Nat \ {0} /\ MaxRevision \in Nat /\ MaxTroubles \in Nat
    /\ None \notin Server \cup {"read", "done"} /\ None \notin Mapper /\ None \notin Token
    /\ None \notin [at: Token, state: Mapper] /\ None \notin [token: Token, mapper: Mapper]

Empty == [rev |-> 0, entries |-> {}]

Genesis == [seq |-> 0, rev |-> 0, hash |-> <<>>]

BootstrapToken(mapper) == [seq |-> 0, rev |-> mapper.rev, hash |-> <<mapper>>]

\* A2aMapperDelta.token.  The hash covers the delta and, by expected_token, all
\* before it; as mutation_id binds the expected and the new version, the chain of
\* versions stands for it.
TokenOf(delta) == [seq |-> delta.from.seq + 1, rev |-> delta.rev,
                   hash |-> Append(delta.from.hash, delta.mutation[2])]

\* journal_operations_since: one operation for each key that differs.
Difference(old, new) ==
    [puts |-> new.entries \ old.entries, removes |-> old.entries \ new.entries]

\* The delta for a candidate; mutation_id binds the expected and the new version.
DeltaFor(token, old, expected, new) ==
    [mutation |-> <<expected, new>>, from |-> token, rev |-> new.rev,
     puts |-> Difference(old, new).puts, removes |-> Difference(old, new).removes]

\* apply_journal_delta, where the revision fits.
Apply(mapper, delta) ==
    [rev |-> delta.rev, entries |-> (mapper.entries \cup delta.puts) \ delta.removes]

-----------------------------------------------------------------------------
(* The journal: each operator is a transaction on its tables. *)

Unchanged(j, out) == [journal |-> j, out |-> out]

At(j, seq) == CHOOSE d \in j.deltas : TokenOf(d).seq = seq

Stored(j, seq) == \E d \in j.deltas : TokenOf(d).seq = seq

\* validate_head, with which every method but finish_restore begins.  It never
\* fails (JournalHoldsLastWrite), so no method has a branch for it.
Sound(j) ==
    /\ j.retained \in 1..(j.head.seq + 1)
    /\ j.active # None => j.active.at.seq <= j.head.seq /\ j.active.at.rev <= j.head.rev
    /\ IF j.head.seq = 0
       THEN j.head = Genesis \/ (j.active # None /\ j.active.at = j.head)
       ELSE j.head.seq >= j.retained =>
                Stored(j, j.head.seq) /\ TokenOf(At(j, j.head.seq)) = j.head

\* token_at.
TokenAt(j, seq) ==
    IF seq = j.head.seq THEN j.head
    ELSE IF seq = 0
    THEN IF j.active # None /\ j.active.at.seq = 0 THEN j.active.at ELSE Genesis
    ELSE IF Stored(j, seq) THEN TokenOf(At(j, seq))
    ELSE IF j.active # None /\ j.active.at.seq = seq THEN j.active.at
    ELSE None

\* append_delta: a mutation that was applied is recognized also after its delta
\* was collected.
AppendDelta(j, delta) ==
    LET mine == {d \in j.known : d.mutation = delta.mutation}
        gone == {t \in j.compacted : t.mutation = delta.mutation}
    IN IF mine # {} THEN Unchanged(j, IF delta \in mine THEN "already" ELSE "error")
       ELSE IF gone # {}
       THEN Unchanged(j, IF \E t \in gone : t.token = TokenOf(delta) THEN "already" ELSE "error")
       ELSE IF delta.from # j.head \/ Stored(j, delta.from.seq + 1)
       THEN Unchanged(j, "error")
       ELSE [journal |-> [j EXCEPT !.deltas = @ \cup {delta}, !.known = @ \cup {delta},
                                   !.head = TokenOf(delta)],
             out |-> "applied"]

\* install_checkpoint, with the checkpoint that is expected to be active.
InstallCheckpoint(j, expected, checkpoint) ==
    LET at == checkpoint.at
        bootstrap == at.seq = 0 /\ j.head = Genesis /\ j.active = None /\ j.deltas = {}
        fits == IF bootstrap THEN at = BootstrapToken(checkpoint.state)
                ELSE /\ TokenAt(j, at.seq) = at
                     /\ j.active # None => at.seq > j.active.at.seq
    IN IF j.active = checkpoint THEN Unchanged(j, "already")
       ELSE IF checkpoint \in j.checkpoints \/ expected # j.active \/ ~fits
       THEN Unchanged(j, "error")
       ELSE [journal |-> [j EXCEPT !.checkpoints = @ \cup {checkpoint}, !.active = checkpoint,
                                   !.head = IF bootstrap THEN at ELSE @],
             out |-> "applied"]

\* The deltas after a token, one by one: each must be there, continue the chain
\* and fit the revision of the mapper.
Replay(j, mapper, after, n) ==
    LET failed == [ok |-> FALSE, mapper |-> mapper, token |-> after]
        upTo[i \in 0..n] ==
            IF i = 0 THEN [ok |-> TRUE, mapper |-> mapper, token |-> after]
            ELSE LET p == upTo[i - 1]  delta == At(j, after.seq + i)
                 IN IF ~p.ok \/ ~Stored(j, after.seq + i) THEN failed
                    ELSE IF delta.from # p.token \/ delta.from.rev # p.mapper.rev THEN failed
                    ELSE [ok |-> TRUE, mapper |-> Apply(p.mapper, delta), token |-> TokenOf(delta)]
    IN upTo[n]

\* Fault of WithoutCompacted: the pins are not looked at.
DropsPinned(j) == [j EXCEPT !.deltas = {d \in @ : TokenOf(d).seq >= j.retained}]

\* remove_unpinned_compacted_payloads.
WithoutCompacted(j) ==
    LET pinned(seq) == \E p \in j.pins : seq > p.start.seq /\ seq <= p.through.seq
    IN [j EXCEPT !.deltas =
            {d \in @ : TokenOf(d).seq >= j.retained \/ pinned(TokenOf(d).seq)}]

\* begin_restore, for one server.
WithPin(j, s) ==
    LET start == IF j.active = None THEN Genesis ELSE j.active.at
    IN [j EXCEPT !.pins = @ \cup {[owner |-> s, start |-> start, through |-> j.head]}]

\* finish_restore: the pin goes, and with it what only it had kept.
WithoutPin(j, s) == WithoutCompacted([j EXCEPT !.pins = {p \in @ : p.owner # s}])

\* The pin of a restore that nobody will finish.
Orphaned(j, s) ==
    [j EXCEPT !.pins = {IF p.owner = s THEN [p EXCEPT !.owner = None] ELSE p : p \in @}]

\* What read_delta_page asks of the cursor of a restore.
CursorFits(j, s, after) ==
    \E p \in j.pins :
        /\ p.owner = s
        /\ p.start.seq <= after.seq /\ after.seq <= p.through.seq
        /\ after = p.start \/ TokenAt(j, after.seq) = after

\* What the manifest says; its generation and hash change with any of these.
ManifestOf(j) == [head |-> j.head, active |-> j.active, retained |-> j.retained,
                  compacted |-> j.compacted]

\* garbage_collect with a request made from a manifest.
GarbageCollect(j, manifest) ==
    LET covered  == {d \in j.deltas : TokenOf(d).seq <= j.active.at.seq}
        retained == j.active.at.seq + 1
    IN IF j.active = None \/ j.active # manifest.active
       THEN Unchanged(j, "error")
       ELSE IF j.retained >= retained THEN Unchanged(j, "already")
       ELSE IF ManifestOf(j) # manifest THEN Unchanged(j, "error")
       ELSE [journal |-> WithoutCompacted([j EXCEPT
                 !.compacted = @ \cup {[mutation |-> d.mutation, token |-> TokenOf(d)]
                                           : d \in covered},
                 !.known = @ \ covered,
                 !.retained = retained]),
             out |-> "applied"]

-----------------------------------------------------------------------------
(* Calls. *)

\* got is the mapper that a restore has reached, after and through are its cursor
\* and its end, broken says that it failed; doubt, that the last compare-and-swap
\* ended with an unknown outcome.  floor is a ghost: how many mappers were
\* written when the call began.
Rest == [pc |-> "idle", kind |-> "read", expected |-> None, candidate |-> Empty,
         got |-> None, after |-> Genesis, through |-> Genesis, replayed |-> 0,
         broken |-> FALSE, manifest |-> None,
         answer |-> None, doubt |-> FALSE, floor |-> 0]

Fresh == [token |-> None, mapper |-> None, since |-> 0, pending |-> None]

Goto(s, pc) == ask' = [ask EXCEPT ![s].pc = pc]

\* The call returns, with an answer or None.  After an unknown outcome it can be
\* repeated.
Return(s, answer, mapper, doubt) ==
    LET c == ask[s]
    IN /\ ask' = [ask EXCEPT ![s] =
              [Rest EXCEPT !.answer = answer, !.doubt = doubt,
                           !.expected = IF doubt THEN c.expected ELSE None,
                           !.candidate = IF doubt THEN c.candidate ELSE Empty]]
       /\ knows' = [knows EXCEPT ![s] = IF answer = None THEN @ ELSE mapper]

\* A read returns the mapper, a compare-and-swap reports that it was applied.
Read(s, mapper) == Return(s, "read", mapper, ask[s].doubt)

Done(s) == Return(s, "done", ask[s].candidate, FALSE)

\* An error that says that nothing was written; to a read, any error.
Refuse(s) == Return(s, None, None, ask[s].kind = "read" /\ ask[s].doubt)

\* An error that leaves the outcome open (journal_store_error).
Unsure(s) == Return(s, None, None, ask[s].kind = "cas" \/ ask[s].doubt)

Trouble == troubles < MaxTroubles /\ troubles' = troubles + 1

\* With the cache at the head: a read returns it, a compare-and-swap compares
\* versions and goes on to write.
Decide(s, mapper) ==
    LET c == ask[s]
    IN IF c.kind = "read" THEN Read(s, mapper)
       ELSE IF mapper # None /\ mapper.rev = c.candidate.rev
       THEN IF mapper = c.candidate THEN Done(s) ELSE Refuse(s)
       ELSE IF mapper # c.expected \/ (mapper # None /\ c.candidate.rev <= mapper.rev)
       THEN Refuse(s)
       ELSE Goto(s, "write") /\ UNCHANGED knows

Begun(s, kind, expected, candidate) ==
    [Rest EXCEPT !.pc = "look", !.kind = kind, !.expected = expected,
                 !.candidate = candidate, !.floor = Len(written),
                 !.doubt = kind = "read" /\ ask[s].doubt]

\* A mutation puts or removes an entry, so its delta is not empty, which
\* A2aMapperDelta::new would refuse.
Successors(mapper) ==
    {[rev |-> mapper.rev + 1, entries |-> mapper.entries \cup {k}] : k \in Key \ mapper.entries}
    \cup {[rev |-> mapper.rev + 1, entries |-> mapper.entries \ {k}] : k \in mapper.entries}

\* A server asks for the stored mapper, or to replace the one it works on by its
\* successor, or repeats a compare-and-swap whose outcome it does not know.  The
\* first mapper that is stored is the empty one.
Ask(s) ==
    /\ ask[s].pc = "idle"
    /\ \/ ask' = [ask EXCEPT ![s] = Begun(s, "read", ask[s].expected, ask[s].candidate)]
       \/ \E next \in IF knows[s] = None THEN {Empty} ELSE Successors(knows[s]) :
              /\ next.rev <= MaxRevision
              /\ ask' = [ask EXCEPT ![s] = Begun(s, "cas", knows[s], next)]
       \/ /\ ask[s].doubt
          /\ ask' = [ask EXCEPT ![s] = Begun(s, "cas", ask[s].expected, ask[s].candidate)]
    /\ UNCHANGED <<journal, cache, knows, written, troubles>>

\* resolve_pending against the head.
Resolved(s, head) ==
    LET p == cache[s].pending
    IN IF p # None /\ p.token = head
       THEN [token |-> p.token, mapper |-> p.mapper, since |-> cache[s].since + 1,
             pending |-> None]
       ELSE [cache[s] EXCEPT !.pending = None]

\* Fault of Look: a cache that was filled once is not compared with the head.
TrustsCache(s) ==
    /\ ask[s].pc = "look"
    /\ \/ /\ LET c == Resolved(s, journal.head)
             IN /\ cache' = [cache EXCEPT ![s] = c]
                /\ IF c.token # None THEN Decide(s, c.mapper)
                   ELSE Goto(s, "sync") /\ UNCHANGED knows
          /\ UNCHANGED troubles
       \/ Trouble /\ Unsure(s) /\ UNCHANGED cache
    /\ UNCHANGED <<journal, written>>

\* lookup_head at the start of every method, and what follows without waiting.
Look(s) ==
    /\ ask[s].pc = "look"
    /\ \/ /\ LET c == Resolved(s, journal.head)
             IN /\ cache' = [cache EXCEPT ![s] = c]
                /\ IF c.token = journal.head THEN Decide(s, c.mapper)
                   ELSE Goto(s, "sync") /\ UNCHANGED knows
          /\ UNCHANGED troubles
       \/ Trouble /\ Unsure(s) /\ UNCHANGED cache
    /\ UNCHANGED <<journal, written>>

\* sync_locked up to begin_restore: the head is looked up again.
Sync(s) ==
    /\ ask[s].pc = "sync"
    /\ \/ /\ UNCHANGED troubles
          /\ IF cache[s].token = journal.head
             THEN Decide(s, cache[s].mapper) /\ UNCHANGED cache
             ELSE IF journal.head = Genesis
             THEN /\ cache' = [cache EXCEPT ![s] = [Fresh EXCEPT !.token = Genesis]]
                  /\ Decide(s, None)
             ELSE Goto(s, "restore") /\ UNCHANGED <<cache, knows>>
       \/ Trouble /\ Refuse(s) /\ UNCHANGED cache
    /\ UNCHANGED <<journal, written>>

\* begin_restore: head and checkpoint are read in the transaction that pins the
\* deltas between them.  If it fails, the pin may stay without an owner.
BeginRestore(s) ==
    LET start == IF journal.active = None THEN [at |-> Genesis, state |-> Empty]
                 ELSE journal.active
    IN /\ ask[s].pc = "restore"
       /\ \/ /\ journal' = WithPin(journal, s)
             /\ ask' = [ask EXCEPT ![s].pc = IF start.at = journal.head THEN "finish" ELSE "page",
                                   ![s].got = start.state, ![s].after = start.at,
                                   ![s].through = journal.head]
             /\ UNCHANGED <<knows, troubles>>
          \/ Trouble /\ Refuse(s) /\ journal' \in {journal, WithPin(journal, None)}
       /\ UNCHANGED <<cache, written>>

\* read_delta_page and the replay of what it returns: at least one delta, and as
\* many as fit.
ReadPage(s) ==
    /\ ask[s].pc = "page"
    /\ \/ \E n \in 1..(ask[s].through.seq - ask[s].after.seq) :
              LET c    == ask[s]
                  page == Replay(journal, c.got, c.after, n)
                  fits == CursorFits(journal, s, c.after) /\ page.ok
              IN /\ ask' = [ask EXCEPT ![s] = IF fits
                        THEN [c EXCEPT !.got = page.mapper, !.after = page.token,
                                       !.replayed = c.replayed + n,
                                       !.pc = IF page.token = c.through
                                              THEN "finish" ELSE "page"]
                        ELSE [c EXCEPT !.broken = TRUE, !.pc = "finish"]]
                 /\ UNCHANGED troubles
       \/ Trouble /\ ask' = [ask EXCEPT ![s].broken = TRUE, ![s].pc = "finish"]
    /\ UNCHANGED <<journal, cache, knows, written>>

\* finish_restore, which is called whether or not the replay failed, and the end
\* of sync_locked.
FinishRestore(s) ==
    LET c == ask[s]
    IN /\ c.pc = "finish"
       /\ \/ /\ journal' = WithoutPin(journal, s)
             /\ IF c.broken \/ c.got.rev # c.through.rev
                THEN Refuse(s) /\ UNCHANGED cache
                ELSE /\ cache' = [cache EXCEPT ![s] =
                            [token |-> c.through, mapper |-> c.got, since |-> c.replayed,
                             pending |-> None]]
                     /\ Decide(s, c.got)
             /\ UNCHANGED troubles
          \/ /\ Trouble /\ Refuse(s) /\ UNCHANGED cache
             /\ journal' \in {Orphaned(journal, s), WithoutPin(journal, s)}
       /\ UNCHANGED written

-----------------------------------------------------------------------------
\* The transaction that stores the candidate: the first one as a checkpoint, the
\* others as a delta.
Store(s) ==
    LET c == ask[s]  k == cache[s]
    IN IF k.mapper = None
       THEN [InstallCheckpoint(journal, None, [at |-> BootstrapToken(c.candidate),
                                               state |-> c.candidate])
             EXCEPT !.out = IF @ = "already" THEN "applied" ELSE @]
       ELSE AppendDelta(journal, DeltaFor(k.token, k.mapper, c.expected, c.candidate))

NextToken(s) ==
    IF cache[s].mapper = None THEN BootstrapToken(ask[s].candidate)
    ELSE TokenOf(DeltaFor(cache[s].token, cache[s].mapper, ask[s].expected, ask[s].candidate))

\* The cache after the write.
CachedWrite(s, out) ==
    [token |-> NextToken(s), mapper |-> ask[s].candidate,
     since |-> cache[s].since + (IF out = "applied" THEN 1 ELSE 0), pending |-> None]

\* The write of compare_and_swap_snapshot.  If its outcome is unknown, what it
\* would have led to is kept for the next lookup.
Write(s) ==
    LET store == Store(s)
        held  == IF store.journal.head = journal.head THEN written
                 ELSE Append(written, ask[s].candidate)
    IN /\ ask[s].pc = "write"
       /\ \/ /\ store.out # "error"
             /\ journal' = store.journal /\ written' = held
             /\ cache' = [cache EXCEPT ![s] = CachedWrite(s, store.out)]
             /\ IF store.out = "applied" /\ CachedWrite(s, store.out).since >= Interval
                THEN Goto(s, "rotate") /\ UNCHANGED knows
                ELSE Done(s)
             /\ UNCHANGED troubles
          \/ /\ store.out = "error" /\ Refuse(s)
             /\ UNCHANGED <<journal, cache, written, troubles>>
          \/ /\ Trouble /\ Unsure(s)
             /\ cache' = [cache EXCEPT ![s].pending = [token |-> NextToken(s),
                                                       mapper |-> ask[s].candidate]]
             /\ \/ journal' = store.journal /\ written' = held
                \/ UNCHANGED <<journal, written>>

-----------------------------------------------------------------------------
(* rotate_checkpoint_locked: whatever fails here, the write was applied. *)

\* The manifest is read before the checkpoint and again before the collection.
ReadManifest(s) ==
    /\ ask[s].pc \in {"rotate", "covered"}
    /\ \/ /\ UNCHANGED <<knows, troubles>>
          /\ ask' = [ask EXCEPT ![s].manifest = ManifestOf(journal),
                                ![s].pc = IF @ = "rotate" THEN "install" ELSE "collect"]
       \/ Trouble /\ Done(s)
    /\ UNCHANGED <<journal, cache, written>>

\* The checkpoint of the cached mapper; the counter starts again only if it was
\* installed.
Install(s) ==
    LET install == InstallCheckpoint(journal, ask[s].manifest.active,
                                     [at |-> cache[s].token, state |-> cache[s].mapper])
    IN /\ ask[s].pc = "install"
       /\ \/ /\ install.out # "error" /\ journal' = install.journal
             /\ cache' = [cache EXCEPT ![s].since = 0]
             /\ Goto(s, "covered") /\ UNCHANGED <<knows, troubles>>
          \/ /\ install.out = "error" /\ Done(s)
             /\ UNCHANGED <<journal, cache, troubles>>
          \/ /\ Trouble /\ Done(s) /\ UNCHANGED cache
             /\ journal' \in {journal, install.journal}
       /\ UNCHANGED written

\* The collection of what the active checkpoint covers.
Collect(s) ==
    LET collect == GarbageCollect(journal, ask[s].manifest)
    IN /\ ask[s].pc = "collect" /\ Done(s)
       /\ \/ journal' = collect.journal /\ UNCHANGED troubles
          \/ Trouble /\ journal' \in {journal, collect.journal}
       /\ UNCHANGED <<cache, written>>

-----------------------------------------------------------------------------
\* The call is dropped between two transactions: a read, or the write of the
\* mapper that a read found missing.  Other writes run in a task of their own.
Drop(s) ==
    /\ ask[s].pc # "idle" /\ (ask[s].kind = "read" \/ ask[s].expected = None)
    /\ Trouble
    /\ ask' = [ask EXCEPT ![s] = Rest]
    /\ journal' = Orphaned(journal, s)
    /\ UNCHANGED <<cache, knows, written>>

\* The process ends, with something to lose; its successor begins with nothing.
Crash(s) ==
    /\ ask[s] # Rest \/ cache[s] # Fresh
    /\ Trouble
    /\ ask' = [ask EXCEPT ![s] = Rest]
    /\ cache' = [cache EXCEPT ![s] = Fresh]
    /\ knows' = [knows EXCEPT ![s] = None]
    /\ journal' = Orphaned(journal, s)
    /\ UNCHANGED written

Init ==
    /\ journal = [head |-> Genesis, active |-> None, retained |-> 1, deltas |-> {},
                  known |-> {}, compacted |-> {}, checkpoints |-> {}, pins |-> {}]
    /\ cache = [s \in Server |-> Fresh]
    /\ ask = [s \in Server |-> Rest]
    /\ knows = [s \in Server |-> None]
    /\ written = <<>>
    /\ troubles = 0

Step(s) ==
    \/ Look(s) \/ Sync(s) \/ BeginRestore(s) \/ ReadPage(s) \/ FinishRestore(s)
    \/ Write(s) \/ ReadManifest(s) \/ Install(s) \/ Collect(s)

Next == \E s \in Server : Ask(s) \/ Step(s) \/ Drop(s) \/ Crash(s)

Spec == Init /\ [][Next]_vars

-----------------------------------------------------------------------------
\* What was held from the i-th of these writes on.
HeldSince(i, writes) == {IF n = 0 THEN None ELSE writes[n] : n \in i..Len(writes)}

\* What a restore that begins now would return, if nothing went wrong.
Restorable ==
    IF journal.head = Genesis THEN None
    ELSE LET start == IF journal.active = None THEN [at |-> Genesis, state |-> Empty]
                      ELSE journal.active
             all == Replay(journal, start.state, start.at, journal.head.seq - start.at.seq)
         IN all.mapper

\* Checkpoints of a stale head, collections, retries and crashes never change
\* what the journal stands for: its head is sound, checkpoint and tail give the
\* mapper that was written last, and every restore under way still finds all of
\* its deltas.
JournalHoldsLastWrite ==
    /\ Sound(journal)
    /\ Restorable = IF written = <<>> THEN None ELSE written[Len(written)]
    /\ \A s \in Server : ask[s].pc = "page" =>
           Replay(journal, ask[s].got, ask[s].after, ask[s].through.seq - ask[s].after.seq).ok

\* The journal acts as one cell with compare-and-swap, although a server decides
\* on a cache, a pending write and a head that may be stale by then: what it
\* reads was held during the call, what is reported as applied was held then
\* too, and a write replaces exactly the mapper that it expects.
ActsAsOneCell ==
    [][/\ \A s \in Server : ask[s].pc # "idle" /\ ask'[s].pc = "idle" =>
              /\ ask'[s].answer = "read" => knows'[s] \in HeldSince(ask[s].floor, written')
              /\ ask'[s].answer = "done" =>
                     ask[s].candidate \in HeldSince(ask[s].floor, written')
       /\ written' # written =>
              \E s \in Server :
                  ask[s].pc = "write" /\ {ask[s].expected} = HeldSince(Len(written), written)
      ]_vars
=============================================================================
