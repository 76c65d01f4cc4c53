------------------------- MODULE A2aJournalProofs -------------------------
(***************************************************************************)
(* The journal holds the mapper that was written last, and acts as one     *)
(* cell with compare-and-swap.                                             *)
(*                                                                         *)
(* Everything in the tables is a part of one chain, the mappers that were  *)
(* ever written: the head is its end, the active checkpoint lies on it,    *)
(* each delta leads from one member to the next, and the deltas above the  *)
(* checkpoint, or under a pin, are all there.  What the servers hold lies  *)
(* on the chain too, or names a write that never took place.               *)
(***************************************************************************)
EXTENDS A2aJournal, WellFoundedInduction, NaturalsInduction, SequenceTheorems, TLAPS

-----------------------------------------------------------------------------
(* The chain of the mappers that were written. *)

\* What was stored after the first n writes of a chain, and its token.
HeldAfter(w, n) == IF n = 0 THEN None ELSE w[n]

TokenAfter(w, n) ==
    IF n = 0 THEN Genesis ELSE [seq |-> n - 1, rev |-> n - 1, hash |-> SubSeq(w, 1, n)]

\* The delta of the n-th write.
Link(w, n) == DeltaFor(TokenAfter(w, n - 1), w[n - 1], w[n - 1], w[n])

\* Every write raises the revision by one.
ChainFits(w) == w \in Seq(Mapper) /\ \A n \in 1..Len(w) : w[n].rev = n - 1

\* A chain that goes on.
Extends(v, w) == Len(w) <= Len(v) /\ \A i \in 1..Len(w) : v[i] = w[i]

\* The members of a chain.
LEMMA ChainFacts ==
    ASSUME NEW w, ChainFits(w)
    PROVE  /\ Len(w) \in Nat
           /\ \A n \in 1..Len(w) : w[n] \in Mapper /\ w[n].rev = n - 1
           /\ w = <<>> <=> Len(w) = 0
<1>1. w \in Seq(Mapper) /\ \A n \in 1..Len(w) : w[n].rev = n - 1
  BY DEF ChainFits
<1> QED
  BY <1>1, ElementOfSeq, LenProperties, EmptySeq

\* A beginning of a chain.
LEMMA PrefixFacts ==
    ASSUME NEW w, ChainFits(w), NEW n \in 0..Len(w)
    PROVE  /\ SubSeq(w, 1, n) \in Seq(Mapper) /\ Len(SubSeq(w, 1, n)) = n
           /\ \A i \in 1..n : SubSeq(w, 1, n)[i] = w[i]
<1>1. w \in Seq(Mapper) /\ Len(w) \in Nat
  BY ChainFacts DEF ChainFits
<1>2. \A i \in 1..n : w[i] \in Mapper
  BY <1>1, ChainFacts
<1> QED
  BY <1>1, <1>2, SubSeqProperties

\* The token of a member.
LEMMA TokenFacts ==
    ASSUME NEW w, ChainFits(w), NEW n \in 0..Len(w)
    PROVE  /\ TokenAfter(w, n) \in Token
           /\ n = 0 => TokenAfter(w, n) = Genesis
           /\ TokenAfter(w, n).seq = IF n = 0 THEN 0 ELSE n - 1
           /\ TokenAfter(w, n).rev = TokenAfter(w, n).seq
           /\ Len(TokenAfter(w, n).hash) = n
           /\ n > 0 => TokenAfter(w, n).hash[n] = w[n]
<1>1. /\ Len(w) \in Nat
      /\ SubSeq(w, 1, n) \in Seq(Mapper) /\ Len(SubSeq(w, 1, n)) = n
      /\ \A i \in 1..n : SubSeq(w, 1, n)[i] = w[i]
  BY ChainFacts, PrefixFacts
<1>2. CASE n = 0
  <2>1. <<>> \in Seq(Mapper) /\ Len(<<>>) = 0
    BY EmptySeq
  <2> QED
    BY <1>2, <2>1 DEF TokenAfter, Genesis, Token
<1>3. CASE n > 0
  BY <1>1, <1>3 DEF TokenAfter, Token
<1> QED
  BY <1>1, <1>2, <1>3

\* No two members have the same token.
LEMMA TokensDiffer ==
    ASSUME NEW w, ChainFits(w), NEW n \in 0..Len(w), NEW m \in 0..Len(w),
           TokenAfter(w, n) = TokenAfter(w, m)
    PROVE  n = m
<1>1. Len(TokenAfter(w, n).hash) = n /\ Len(TokenAfter(w, m).hash) = m
  BY TokenFacts
<1> QED
  BY <1>1

\* The delta of a write leads from one member to the next.
LEMMA LinkFacts ==
    ASSUME NEW w, ChainFits(w), NEW n \in 2..Len(w)
    PROVE  /\ TokenOf(Link(w, n)) = TokenAfter(w, n)
           /\ Link(w, n).from = TokenAfter(w, n - 1) /\ Link(w, n).from.rev = w[n - 1].rev
           /\ Link(w, n).mutation = <<w[n - 1], w[n]>>
           /\ Apply(w[n - 1], Link(w, n)) = w[n]
<1>1. /\ Len(w) \in Nat /\ w \in Seq(Mapper) /\ n - 1 \in 1..Len(w) /\ n \in 0..Len(w)
      /\ n \in 1..Len(w) /\ n - 1 \in 0..Len(w)
      /\ w[n - 1] \in Mapper /\ w[n] \in Mapper /\ w[n - 1].rev = n - 2 /\ w[n].rev = n - 1
  BY ChainFacts DEF ChainFits
<1>2. TokenAfter(w, n - 1) = [seq |-> n - 2, rev |-> n - 2, hash |-> SubSeq(w, 1, n - 1)]
  BY <1>1 DEF TokenAfter
<1>3. /\ Link(w, n).from = TokenAfter(w, n - 1) /\ Link(w, n).rev = w[n].rev
      /\ Link(w, n).mutation = <<w[n - 1], w[n]>>
      /\ Link(w, n).puts = w[n].entries \ w[n - 1].entries
      /\ Link(w, n).removes = w[n - 1].entries \ w[n].entries
  BY DEF Link, DeltaFor, Difference
<1>4. Append(SubSeq(w, 1, n - 1), w[n]) = SubSeq(w, 1, n)
  <2> DEFINE p == SubSeq(w, 1, n - 1)  q == SubSeq(w, 1, n)  r == Append(p, w[n])
  <2>1. /\ p \in Seq(Mapper) /\ Len(p) = n - 1 /\ \A i \in 1..(n - 1) : p[i] = w[i]
        /\ q \in Seq(Mapper) /\ Len(q) = n /\ \A i \in 1..n : q[i] = w[i]
    BY <1>1, PrefixFacts
  <2> HIDE DEF p, q
  <2>2. r \in Seq(Mapper) /\ Len(r) = n /\ \A i \in 1..n : r[i] = w[i]
    BY <1>1, <2>1, AppendProperties
  <2> HIDE DEF r
  <2>3. r = q
    BY <2>1, <2>2, SeqEqual
  <2> QED
    BY <2>3 DEF p, q, r
<1>5. Link(w, n).mutation[2] = w[n]
  BY <1>3
<1>6. TokenOf(Link(w, n)) = TokenAfter(w, n)
  <2>1. TokenAfter(w, n) = [seq |-> n - 1, rev |-> n - 1, hash |-> SubSeq(w, 1, n)]
    BY <1>1 DEF TokenAfter
  <2>2. TokenAfter(w, n - 1).seq + 1 = n - 1 /\ TokenAfter(w, n - 1).hash = SubSeq(w, 1, n - 1)
    BY <1>1, <1>2
  <2>3. TokenOf(Link(w, n)) = [seq |-> n - 1, rev |-> n - 1,
                               hash |-> Append(SubSeq(w, 1, n - 1), w[n])]
    BY <1>1, <1>3, <1>5, <2>2, Zenon DEF TokenOf
  <2> QED
    BY <1>4, <2>1, <2>3
<1>7. Apply(w[n - 1], Link(w, n)) = w[n]
  <2> DEFINE old == w[n - 1].entries  new == w[n].entries
  <2>1. (old \cup (new \ old)) \ (old \ new) = new
    OBVIOUS
  <2>2. Apply(w[n - 1], Link(w, n)) = [rev |-> w[n].rev, entries |-> new]
    BY <1>3, <2>1, Zenon DEF Apply
  <2> QED
    BY <1>1, <2>2 DEF Mapper
<1>8. TokenAfter(w, n - 1).rev = n - 2
  BY <1>2
<1> QED
  BY <1>1, <1>3, <1>6, <1>7, <1>8

\* A chain that goes on keeps the tokens and deltas of its members.
LEMMA ExtendsKeeps ==
    ASSUME NEW w, ChainFits(w), NEW v, ChainFits(v), Extends(v, w)
    PROVE  /\ \A n \in 0..Len(w) : TokenAfter(v, n) = TokenAfter(w, n)
           /\ \A n \in 0..Len(w) : HeldAfter(v, n) = HeldAfter(w, n)
           /\ \A n \in 2..Len(w) : Link(v, n) = Link(w, n)
<1>1. /\ Len(w) \in Nat /\ Len(v) \in Nat /\ Len(w) <= Len(v)
      /\ \A i \in 1..Len(w) : v[i] = w[i]
  BY ChainFacts DEF Extends
<1>2. ASSUME NEW n \in 0..Len(w) PROVE TokenAfter(v, n) = TokenAfter(w, n)
  <2> DEFINE p == SubSeq(v, 1, n)  q == SubSeq(w, 1, n)
  <2>0. n \in 0..Len(v)
    BY <1>1
  <2>1. /\ p \in Seq(Mapper) /\ Len(p) = n /\ \A i \in 1..n : p[i] = v[i]
        /\ q \in Seq(Mapper) /\ Len(q) = n /\ \A i \in 1..n : q[i] = w[i]
    BY <2>0, PrefixFacts
  <2> HIDE DEF p, q
  <2>2. \A i \in 1..n : p[i] = q[i]
    BY <1>1, <2>1
  <2>3. p = q
    BY <2>1, <2>2, SeqEqual
  <2> QED
    BY <2>3 DEF TokenAfter, p, q
<1>3. \A n \in 0..Len(w) : HeldAfter(v, n) = HeldAfter(w, n)
  BY <1>1 DEF HeldAfter
<1>4. ASSUME NEW n \in 2..Len(w) PROVE Link(v, n) = Link(w, n)
  <2>1. v[n] = w[n] /\ v[n - 1] = w[n - 1] /\ n - 1 \in 0..Len(w)
    BY <1>1
  <2> QED
    BY <1>2, <2>1 DEF Link
<1> QED
  BY <1>2, <1>3, <1>4

\* A chain that is continued by a mapper.
LEMMA AppendExtends ==
    ASSUME NEW w, ChainFits(w), NEW x \in Mapper, x.rev = Len(w)
    PROVE  /\ ChainFits(Append(w, x)) /\ Extends(Append(w, x), w)
           /\ Len(Append(w, x)) = Len(w) + 1 /\ Append(w, x)[Len(w) + 1] = x
<1>1. w \in Seq(Mapper) /\ Len(w) \in Nat /\ \A n \in 1..Len(w) : w[n].rev = n - 1
  BY ChainFacts DEF ChainFits
<1> DEFINE v == Append(w, x)
<1>2. /\ v \in Seq(Mapper) /\ Len(v) = Len(w) + 1 /\ v[Len(w) + 1] = x
      /\ \A i \in 1..Len(w) : v[i] = w[i]
  BY <1>1, AppendProperties
<1> HIDE DEF v
<1>3. ChainFits(v) /\ Extends(v, w)
  BY <1>1, <1>2 DEF ChainFits, Extends
<1> QED
  BY <1>2, <1>3 DEF v

-----------------------------------------------------------------------------
(* The tables of the journal. *)

\* A token that names a mapper, on the chain of the journal or not.
Names(t, m) ==
    /\ t \in Token
    /\ IF t.hash = <<>> THEN t = Genesis /\ m = None
       ELSE /\ t.seq = Len(t.hash) - 1 /\ t.rev = t.seq
            /\ m = t.hash[Len(t.hash)] /\ m.rev = t.rev

\* The deltas that the journal must not lose: those that were not compacted, and
\* those that a restore under way still needs.
Kept(j, seq) == \/ seq >= j.retained
                \/ \E p \in j.pins : seq > p.start.seq /\ seq <= p.through.seq

\* The tables are these.
Tables(j) == j = [head |-> j.head, active |-> j.active, retained |-> j.retained,
                  deltas |-> j.deltas, known |-> j.known, compacted |-> j.compacted,
                  checkpoints |-> j.checkpoints, pins |-> j.pins]

\* The active checkpoint, and how far the deltas were compacted.
CheckpointFits(j, w) ==
    IF w = <<>> THEN j.active = None /\ j.retained = 1
    ELSE \E n \in 1..Len(w) : /\ j.active = [at |-> TokenAfter(w, n), state |-> w[n]]
                              /\ j.retained \in 1..n

\* What the tables of the journal hold of the chain.
TablesFit(j, w) ==
    /\ Tables(j)
    /\ j.head = TokenAfter(w, Len(w))
    /\ CheckpointFits(j, w)
    /\ \A d \in j.deltas \cup j.known : \E n \in 2..Len(w) : d = Link(w, n)
    /\ \A n \in 2..Len(w) : Kept(j, n - 1) => Link(w, n) \in j.deltas
    /\ \A t \in j.compacted : \E n \in 2..Len(w) : t.token = TokenAfter(w, n)
    /\ j.pins \subseteq [owner: Server \cup {None}, start: Token, through: Token]

\* A token of the chain names the mapper that was held then.
LEMMA NamesHeld ==
    ASSUME ConstantsFit, NEW w, ChainFits(w), NEW n \in 0..Len(w)
    PROVE  /\ Names(TokenAfter(w, n), HeldAfter(w, n))
           /\ \A m : Names(TokenAfter(w, n), m) => m = HeldAfter(w, n)
<1> DEFINE t == TokenAfter(w, n)
<1>1. /\ t \in Token /\ t.rev = t.seq /\ Len(t.hash) = n
      /\ n = 0 => t = Genesis
      /\ n > 0 => t.seq = n - 1 /\ t.hash[n] = w[n]
  BY TokenFacts
<1>2. n > 0 => w[n] \in Mapper /\ w[n].rev = n - 1
  BY ChainFacts
<1>3. t.hash \in Seq(Mapper) /\ (t.hash = <<>> <=> n = 0)
  BY <1>1, EmptySeq DEF Token
<1> HIDE DEF t
<1>4. CASE n = 0
  BY <1>1, <1>3, <1>4 DEF Names, HeldAfter, t
<1>5. CASE n > 0
  BY <1>1, <1>2, <1>3, <1>5 DEF Names, HeldAfter, t
<1> QED
  BY <1>4, <1>5

\* Each delta is found by its sequence number.
LEMMA AtFacts ==
    ASSUME NEW w, ChainFits(w), NEW j, TablesFit(j, w)
    PROVE  /\ \A n \in 2..Len(w) : Link(w, n) \in j.deltas =>
                  Stored(j, n - 1) /\ At(j, n - 1) = Link(w, n)
           /\ \A seq : Stored(j, seq) =>
                  \E n \in 2..Len(w) : /\ seq = n - 1 /\ Link(w, n) \in j.deltas
                                       /\ At(j, seq) = Link(w, n)
<1>1. ASSUME NEW n \in 2..Len(w)
      PROVE  TokenOf(Link(w, n)).seq = n - 1
  <2>1. n \in 0..Len(w) /\ n # 0
    BY ChainFacts
  <2> QED
    BY <2>1, LinkFacts, TokenFacts
<1>2. \A d \in j.deltas : \E n \in 2..Len(w) : d = Link(w, n) /\ TokenOf(d).seq = n - 1
  BY <1>1 DEF TablesFit
<1>3. ASSUME NEW n \in 2..Len(w), Link(w, n) \in j.deltas
      PROVE  Stored(j, n - 1) /\ At(j, n - 1) = Link(w, n)
  <2>1. \A d \in j.deltas : TokenOf(d).seq = n - 1 <=> d = Link(w, n)
    BY <1>1, <1>2, <1>3
  <2>2. At(j, n - 1) = Link(w, n)
    BY <1>3, <2>1, Zenon DEF At
  <2> QED
    BY <1>1, <1>3, <2>2, Zenon DEF Stored
<1>4. ASSUME NEW seq, Stored(j, seq)
      PROVE  \E n \in 2..Len(w) : /\ seq = n - 1 /\ Link(w, n) \in j.deltas
                                  /\ At(j, seq) = Link(w, n)
  <2>1. PICK d \in j.deltas : TokenOf(d).seq = seq
    BY <1>4, Zenon DEF Stored
  <2> QED
    BY <1>2, <1>3, <2>1
<1> QED
  BY <1>3, <1>4

\* The active checkpoint as a whole.
LEMMA ActiveFacts ==
    ASSUME ConstantsFit, NEW w, ChainFits(w), NEW j, TablesFit(j, w)
    PROVE  \/ Len(w) = 0 /\ j.active = None /\ j.retained = 1
           \/ /\ Len(w) > 0 /\ j.active # None
              /\ \E n \in 1..Len(w) : /\ j.active.at = TokenAfter(w, n)
                                      /\ j.active.state = w[n]
                                      /\ j.active.at.seq = n - 1 /\ j.active.at.rev = n - 1
                                      /\ j.retained \in 1..n
<1>1. ASSUME NEW n \in 1..Len(w), j.active = [at |-> TokenAfter(w, n), state |-> w[n]]
      PROVE  /\ j.active # None
             /\ j.active.at = TokenAfter(w, n) /\ j.active.state = w[n]
             /\ j.active.at.seq = n - 1 /\ j.active.at.rev = n - 1
             /\ Len(w) > 0
  <2>1. n \in 0..Len(w) /\ n # 0 /\ w[n] \in Mapper
    BY ChainFacts
  <2>2. TokenAfter(w, n) \in Token /\ TokenAfter(w, n).seq = n - 1 /\ TokenAfter(w, n).rev = n - 1
    BY <2>1, TokenFacts
  <2>3. j.active \in [at: Token, state: Mapper]
    BY <1>1, <2>1, <2>2
  <2> QED
    BY <1>1, <2>2, <2>3 DEF ConstantsFit
<1>2. w = <<>> <=> Len(w) = 0
  BY ChainFacts
<1> QED
  BY <1>1, <1>2 DEF TablesFit, CheckpointFits

\* Whatever token_at answers is on the chain.
LEMMA TokenAtFacts ==
    ASSUME ConstantsFit, NEW w, ChainFits(w), NEW j, TablesFit(j, w), NEW seq,
           TokenAt(j, seq) # None
    PROVE  \E n \in 0..Len(w) : TokenAt(j, seq) = TokenAfter(w, n)
<1>1. Len(w) \in Nat /\ TokenAfter(w, 0) = Genesis /\ j.head = TokenAfter(w, Len(w))
  BY ChainFacts, TokenFacts DEF TablesFit
<1>2. j.active # None => \E n \in 0..Len(w) : j.active.at = TokenAfter(w, n)
  BY <1>1, ActiveFacts
<1>3. Stored(j, seq) => \E n \in 0..Len(w) : TokenOf(At(j, seq)) = TokenAfter(w, n)
  <2> SUFFICES ASSUME Stored(j, seq)
               PROVE  \E n \in 0..Len(w) : TokenOf(At(j, seq)) = TokenAfter(w, n)
    OBVIOUS
  <2>1. PICK n \in 2..Len(w) : At(j, seq) = Link(w, n)
    BY AtFacts
  <2>2. TokenOf(Link(w, n)) = TokenAfter(w, n) /\ n \in 0..Len(w)
    BY <1>1, LinkFacts
  <2> QED
    BY <2>1, <2>2
<1> DEFINE Good(t) == \E n \in 0..Len(w) : t = TokenAfter(w, n)
<1>4. Good(j.head) /\ Good(Genesis)
  BY <1>1
<1>5. (j.active # None => Good(j.active.at)) /\ (Stored(j, seq) => Good(TokenOf(At(j, seq))))
  BY <1>2, <1>3
<1> HIDE DEF Good
<1>6. Good(TokenAt(j, seq))
  BY <1>4, <1>5, Zenon DEF TokenAt
<1> QED
  BY <1>6 DEF Good

\* validate_head never fails.
LEMMA TablesSound ==
    ASSUME ConstantsFit, NEW w, ChainFits(w), NEW j, TablesFit(j, w) PROVE Sound(j)
<1> DEFINE l == Len(w)
<1>1. /\ l \in Nat /\ j.head = TokenAfter(w, l) /\ l \in 0..l
      /\ l = 0 => j.head = Genesis
      /\ l = 0 => j.head.seq = 0
      /\ l > 0 => j.head.seq = l - 1
      /\ j.head.rev = j.head.seq
  BY ChainFacts, TokenFacts DEF TablesFit
<1> HIDE DEF l
<1>2. CASE l = 0
  <2>1. j.active = None /\ j.retained = 1
    BY <1>1, <1>2, ActiveFacts DEF l
  <2> QED
    BY <1>1, <1>2, <2>1 DEF Sound
<1>3. CASE l > 0
  <2>1. PICK n \in 1..l : /\ j.active.at = TokenAfter(w, n)
                          /\ j.active.at.seq = n - 1 /\ j.active.at.rev = n - 1
                          /\ j.retained \in 1..n
    BY <1>1, <1>3, ActiveFacts DEF l
  <2>2. j.active # None
    BY <1>1, <1>3, ActiveFacts DEF l
  <2>3. j.head.seq = 0 => j.active.at = j.head
    <3>1. j.head.seq = 0 => l = 1 /\ n = 1
      BY <1>1, <1>3, <2>1
    <3> QED
      BY <1>1, <2>1, <3>1
  <2>4. ASSUME j.head.seq # 0, j.head.seq >= j.retained
        PROVE  Stored(j, j.head.seq) /\ TokenOf(At(j, j.head.seq)) = j.head
    <3>0. l \in 2..l /\ j.head.seq = l - 1
      BY <1>1, <1>3, <2>4
    <3>1. l \in 2..l /\ j.head.seq = l - 1 /\ Kept(j, l - 1)
      BY <2>4, <3>0, Zenon DEF Kept
    <3>2. Link(w, l) \in j.deltas
      BY <3>1 DEF TablesFit, l
    <3>3. Stored(j, l - 1) /\ At(j, l - 1) = Link(w, l) /\ TokenOf(Link(w, l)) = TokenAfter(w, l)
      BY <3>1, <3>2, AtFacts, LinkFacts DEF l
    <3> QED
      BY <1>1, <3>1, <3>3
  <2> QED
    BY <1>1, <1>3, <2>1, <2>2, <2>3, <2>4 DEF Sound
<1> QED
  BY <1>1, <1>2, <1>3

-----------------------------------------------------------------------------
(* Restoring. *)

\* A set of naturals with zero and every successor is all of them.
LEMMA AllNaturals ==
    ASSUME NEW N \in SUBSET Nat, 0 \in N, \A n \in N : n + 1 \in N PROVE N = Nat
<1>1. SUFFICES ASSUME Nat \ N # {} PROVE FALSE
  OBVIOUS
<1> DEFINE Bad == Nat \ N
           R == OpToRel(<, Nat)
<1>2. IsWellFoundedOn(R, Nat)
  BY NatLessThanWellFounded
<1> HIDE DEF R
<1>3. Bad \subseteq Nat /\ Bad # {}
  BY <1>1
<1> HIDE DEF Bad
<1>4. PICK n \in Bad : \A m \in Bad : ~(<<m, n>> \in R)
  BY <1>2, <1>3, WFMin
<1>5. n \in Nat /\ n \notin N
  BY <1>4 DEF Bad
<1>6. n # 0 /\ n - 1 \in Nat /\ n - 1 < n /\ n - 1 + 1 = n
  BY <1>5
<1>7. <<n - 1, n>> \in R
  BY <1>5, <1>6 DEF R, OpToRel
<1>8. n - 1 \in N
  BY <1>4, <1>6, <1>7 DEF Bad
<1> QED
  BY <1>5, <1>6, <1>8

\* A replay over deltas that are all there follows the chain.
LEMMA ReplayFacts ==
    ASSUME ConstantsFit, NEW w, ChainFits(w), NEW j, TablesFit(j, w),
           NEW n \in 1..Len(w), NEW m \in n..Len(w),
           \A i \in (n + 1)..m : Link(w, i) \in j.deltas
    PROVE  Replay(j, w[n], TokenAfter(w, n), m - n)
               = [ok |-> TRUE, mapper |-> w[m], token |-> TokenAfter(w, m)]
<1> DEFINE k == m - n
           mapper == w[n]
           after == TokenAfter(w, n)
           Good(i) == [ok |-> TRUE, mapper |-> w[n + i], token |-> TokenAfter(w, n + i)]
           failed == [ok |-> FALSE, mapper |-> mapper, token |-> after]
           On(p, i) == LET delta == At(j, after.seq + i)
                       IN IF ~p.ok \/ ~Stored(j, after.seq + i) THEN failed
                          ELSE IF delta.from # p.token \/ delta.from.rev # p.mapper.rev
                          THEN failed
                          ELSE [ok |-> TRUE, mapper |-> Apply(p.mapper, delta),
                                token |-> TokenOf(delta)]
           Start == [ok |-> TRUE, mapper |-> mapper, token |-> after]
           Fits(g) == g = [i \in 0..k |-> IF i = 0 THEN Start ELSE On(g[i - 1], i)]
<1>1. Replay(j, w[n], TokenAfter(w, n), m - n) = (CHOOSE g : Fits(g))[k]
  BY Zenon DEF Replay
<1>2. /\ Len(w) \in Nat /\ n \in Nat /\ m \in Nat /\ k \in Nat /\ n + k = m
      /\ after.seq = n - 1
      /\ \A i \in 1..k : n + i \in 2..Len(w) /\ n + i \in (n + 1)..m /\ after.seq + i = n + i - 1
  <2>1. Len(w) \in Nat /\ n \in 0..Len(w) /\ n # 0
    BY ChainFacts
  <2>2. TokenAfter(w, n).seq = n - 1
    BY <2>1, TokenFacts
  <2> QED
    BY <2>1, <2>2
<1>3. Good(0) = Start
  <2>1. n + 0 = n
    OBVIOUS
  <2> QED
    BY <2>1
<1>4. ASSUME NEW i \in 1..k PROVE On(Good(i - 1), i) = Good(i)
  <2> DEFINE d == Link(w, n + i)
  <2>1. n + i \in 2..Len(w) /\ Link(w, n + i) \in j.deltas /\ after.seq + i = n + i - 1
    BY <1>2
  <2>2. Stored(j, after.seq + i) /\ At(j, after.seq + i) = d
    BY <2>1, AtFacts
  <2>3. /\ TokenOf(d) = TokenAfter(w, n + i) /\ d.from = TokenAfter(w, n + i - 1)
        /\ d.from.rev = w[n + i - 1].rev /\ Apply(w[n + i - 1], d) = w[n + i]
    BY <2>1, LinkFacts
  <2>4. n + (i - 1) = n + i - 1
    BY <1>2
  <2> HIDE DEF d, after, mapper, k
  <2>5. /\ Good(i - 1).ok /\ Good(i - 1).mapper = w[n + i - 1]
        /\ Good(i - 1).token = TokenAfter(w, n + i - 1)
    BY <2>4
  <2> HIDE DEF Good
  <2>6. On(Good(i - 1), i) = [ok |-> TRUE, mapper |-> w[n + i], token |-> TokenAfter(w, n + i)]
    BY <2>2, <2>3, <2>5, Zenon
  <2> QED
    BY <2>6 DEF Good
<1> HIDE DEF Good, Start, On, k
<1>5. Fits([i \in 0..k |-> Good(i)])
  <2> DEFINE h == [i \in 0..k |-> Good(i)]
  <2>1. ASSUME NEW i \in 0..k PROVE Good(i) = IF i = 0 THEN Start ELSE On(h[i - 1], i)
    <3>1. CASE i = 0
      BY <1>3, <3>1
    <3>2. CASE i # 0
      <4>1. i \in 1..k /\ i - 1 \in 0..k
        BY <1>2, <3>2
      <4>2. h[i - 1] = Good(i - 1)
        BY <4>1
      <4> QED
        BY <1>4, <3>2, <4>1, <4>2
    <3> QED
      BY <3>1, <3>2
  <2> QED
    BY <2>1
<1>6. PICK g : g = (CHOOSE h : Fits(h)) /\ Fits(g)
  BY <1>5, Zenon
<1>7. \A i \in 0..k : g[i] = IF i = 0 THEN Start ELSE On(g[i - 1], i)
  BY <1>6
<1> HIDE DEF Fits
<1>8. g[k] = Good(k)
  <2> DEFINE N == {i \in Nat : i <= k => g[i] = Good(i)}
  <2>1. 0 \in N
    BY <1>2, <1>3, <1>7
  <2>2. ASSUME NEW i \in N PROVE i + 1 \in N
    <3>1. SUFFICES ASSUME i + 1 <= k PROVE g[i + 1] = Good(i + 1)
      OBVIOUS
    <3>2. i + 1 \in 1..k /\ i + 1 \in 0..k /\ i <= k /\ i + 1 - 1 = i /\ i + 1 # 0
      BY <1>2, <3>1
    <3>3. g[i + 1] = On(g[i], i + 1)
      BY <1>7, <3>2
    <3>4. g[i] = Good(i) /\ On(Good(i), i + 1) = Good(i + 1)
      BY <1>4, <3>2
    <3> QED
      BY <3>3, <3>4
  <2>3. N \in SUBSET Nat
    OBVIOUS
  <2> HIDE DEF N
  <2>4. N = Nat
    BY <2>1, <2>2, <2>3, AllNaturals
  <2> QED
    BY <1>2, <2>4 DEF N
<1> QED
  BY <1>1, <1>2, <1>6, <1>8 DEF Good

\* A restore that begins now returns the mapper that was written last.
LEMMA RestorableHolds ==
    ASSUME ConstantsFit, ChainFits(written), TablesFit(journal, written)
    PROVE  Restorable = HeldAfter(written, Len(written))
<1> DEFINE w == written
           l == Len(w)
<1>1. l \in Nat /\ l \in 0..l /\ journal.head = TokenAfter(w, l) /\ TokenAfter(w, 0) = Genesis
  BY ChainFacts, TokenFacts DEF TablesFit
<1>2. journal.head = Genesis <=> l = 0
  <2>1. 0 \in 0..l
    BY <1>1
  <2> QED
    BY <1>1, <2>1, TokensDiffer
<1>3. CASE l = 0
  BY <1>2, <1>3, Zenon DEF Restorable, HeldAfter
<1>4. CASE l # 0
  <2>1. PICK n \in 1..l : /\ journal.active.at = TokenAfter(w, n) /\ journal.active.state = w[n]
                          /\ journal.active.at.seq = n - 1 /\ journal.retained \in 1..n
    BY <1>1, <1>4, ActiveFacts
  <2>2. journal.active # None
    BY <1>4, ActiveFacts
  <2>3. \A i \in (n + 1)..l : Link(w, i) \in journal.deltas
    <3> SUFFICES ASSUME NEW i \in (n + 1)..l PROVE Link(w, i) \in journal.deltas
      OBVIOUS
    <3>1. i \in 2..l /\ i - 1 >= journal.retained
      BY <1>1, <2>1
    <3>2. Kept(journal, i - 1)
      BY <3>1 DEF Kept
    <3> QED
      BY <3>1, <3>2 DEF TablesFit
  <2>4. l \in n..l
    BY <1>1, <2>1
  <2>5. Replay(journal, w[n], TokenAfter(w, n), l - n)
            = [ok |-> TRUE, mapper |-> w[l], token |-> TokenAfter(w, l)]
    BY <2>3, <2>4, ReplayFacts
  <2>6. l \in 0..l /\ journal.head.seq = l - 1
    BY <1>1, <1>4, TokenFacts
  <2>7. journal.head.seq - journal.active.at.seq = l - n
    BY <1>1, <2>1, <2>6
  <2>8. Restorable = Replay(journal, journal.active.state, journal.active.at,
                            journal.head.seq - journal.active.at.seq).mapper
    BY <1>2, <1>4, <2>2, Zenon DEF Restorable
  <2>9. Replay(journal, journal.active.state, journal.active.at,
               journal.head.seq - journal.active.at.seq)
            = [ok |-> TRUE, mapper |-> w[l], token |-> TokenAfter(w, l)]
    BY <2>1, <2>5, <2>7, Zenon
  <2>10. Restorable = w[l]
    BY <2>8, <2>9
  <2> QED
    BY <1>4, <2>10, Zenon DEF HeldAfter
<1> QED
  BY <1>3, <1>4

-----------------------------------------------------------------------------
(* The transactions keep the tables. *)

\* The delta and the token of a successor.
LEMMA SuccessorFacts ==
    ASSUME ConstantsFit, NEW t, NEW m \in Mapper, Names(t, m), NEW x \in Mapper,
           x.rev = m.rev + 1
    PROVE  LET d == DeltaFor(t, m, m, x)
           IN /\ d.from = t /\ d.mutation = <<m, x>> /\ TokenOf(d) # Genesis
              /\ TokenOf(d) \in Token /\ Names(TokenOf(d), x)
              /\ Len(TokenOf(d).hash) = Len(t.hash) + 1
              /\ TokenOf(d).hash[Len(t.hash) + 1] = x
<1> DEFINE d == DeltaFor(t, m, m, x)
           h == Append(t.hash, x)
<1>1. d.from = t /\ d.mutation = <<m, x>> /\ d.mutation[2] = x /\ d.rev = x.rev
  BY DEF DeltaFor
<1>2. /\ t \in Token /\ t.hash \in Seq(Mapper) /\ t.hash # <<>>
      /\ t.seq = Len(t.hash) - 1 /\ t.rev = t.seq /\ m.rev = t.rev
      /\ Len(t.hash) \in Nat /\ t.seq \in Nat
  <2>1. t \in Token /\ t.hash \in Seq(Mapper) /\ t.seq \in Nat
    BY DEF Names, Token
  <2>2. m # None
    BY DEF ConstantsFit
  <2> QED
    BY <2>1, <2>2, LenProperties DEF Names
<1>3. /\ h \in Seq(Mapper) /\ h # <<>> /\ Len(h) = Len(t.hash) + 1
      /\ h[Len(t.hash) + 1] = x
  BY <1>2, AppendProperties
<1>4. TokenOf(d) = [seq |-> t.seq + 1, rev |-> x.rev, hash |-> h]
  BY <1>1, Zenon DEF TokenOf
<1> HIDE DEF d, h
<1>5. x.rev \in Nat /\ x.rev = t.seq + 1
  BY <1>2 DEF Mapper
<1>6. TokenOf(d) \in Token
  BY <1>2, <1>3, <1>4, <1>5 DEF Token
<1>7. Names(TokenOf(d), x)
  BY <1>2, <1>3, <1>4, <1>5, <1>6 DEF Names
<1>8. TokenOf(d) # Genesis
  BY <1>3, <1>4 DEF Genesis
<1> QED
  BY <1>1, <1>3, <1>4, <1>6, <1>7, <1>8 DEF d

\* A delta is appended at the head only, and once.
LEMMA AppendDeltaFacts ==
    ASSUME ConstantsFit, NEW w, ChainFits(w), NEW j, TablesFit(j, w),
           NEW n \in 1..Len(w), NEW x \in Mapper, x.rev = n,
           NEW r, r = AppendDelta(j, DeltaFor(TokenAfter(w, n), w[n], w[n], x))
    PROVE  \/ r.out = "error" /\ r.journal = j
           \/ r.out = "already" /\ r.journal = j /\ n < Len(w) /\ w[n + 1] = x
           \/ /\ r.out = "applied" /\ n = Len(w) /\ r.journal.head # j.head
              /\ TablesFit(r.journal, Append(w, x)) /\ r.journal.pins = j.pins
<1> DEFINE d == DeltaFor(TokenAfter(w, n), w[n], w[n], x)
           v == Append(w, x)
<1>1. /\ Len(w) \in Nat /\ n \in 0..Len(w) /\ n # 0
      /\ w[n] \in Mapper /\ w[n].rev = n - 1 /\ x.rev = w[n].rev + 1
  BY ChainFacts
<1>2. Names(TokenAfter(w, n), w[n]) /\ Len(TokenAfter(w, n).hash) = n
  BY <1>1, NamesHeld, TokenFacts DEF HeldAfter
<1>3. /\ d.from = TokenAfter(w, n) /\ d.mutation = <<w[n], x>> /\ TokenOf(d) \in Token
      /\ Len(TokenOf(d).hash) = n + 1 /\ TokenOf(d).hash[n + 1] = x
  BY <1>1, <1>2, SuccessorFacts
<1> HIDE DEF d
<1>4. ASSUME d \in j.known PROVE n < Len(w) /\ w[n + 1] = x
  <2>1. PICK i \in 2..Len(w) : d = Link(w, i)
    BY <1>4 DEF TablesFit
  <2>2. TokenAfter(w, n) = TokenAfter(w, i - 1) /\ <<w[n], x>> = <<w[i - 1], w[i]>>
    BY <1>3, <2>1, LinkFacts
  <2>3. i - 1 \in 0..Len(w)
    BY <1>1
  <2>4. n = i - 1 /\ x = w[i]
    BY <1>1, <2>2, <2>3, TokensDiffer
  <2> QED
    BY <1>1, <2>4
<1>5. ASSUME NEW t \in j.compacted, t.token = TokenOf(d) PROVE n < Len(w) /\ w[n + 1] = x
  <2>1. PICK i \in 2..Len(w) : t.token = TokenAfter(w, i)
    BY <1>5 DEF TablesFit
  <2>2. i \in 0..Len(w) /\ i > 0
    BY <1>1
  <2>3. Len(t.token.hash) = i /\ t.token.hash[i] = w[i]
    BY <2>1, <2>2, TokenFacts
  <2>4. i = n + 1 /\ w[n + 1] = x
    BY <1>1, <1>3, <1>5, <2>2, <2>3
  <2> QED
    BY <1>1, <2>2, <2>4
<1>6. \/ r.out = "error" /\ r.journal = j
      \/ r.out = "already" /\ r.journal = j /\ d \in j.known
      \/ r.out = "already" /\ r.journal = j /\ \E t \in j.compacted : t.token = TokenOf(d)
      \/ /\ r.out = "applied" /\ d.from = j.head
         /\ r.journal = [j EXCEPT !.deltas = @ \cup {d}, !.known = @ \cup {d},
                                  !.head = TokenOf(d)]
  <2>1. r = AppendDelta(j, d)
    BY DEF d
  <2> QED
    BY <2>1 DEF AppendDelta, Unchanged
<1>7. ASSUME d.from = j.head,
             r.journal = [j EXCEPT !.deltas = @ \cup {d}, !.known = @ \cup {d},
                                   !.head = TokenOf(d)]
      PROVE  /\ n = Len(w) /\ r.journal.head # j.head
             /\ TablesFit(r.journal, v) /\ r.journal.pins = j.pins
  <2>1. n = Len(w)
    <3>1. Len(w) \in 0..Len(w) /\ TokenAfter(w, n) = TokenAfter(w, Len(w))
      BY <1>1, <1>3, <1>7 DEF TablesFit
    <3> QED
      BY <1>1, <3>1, TokensDiffer
  <2>2. /\ ChainFits(v) /\ Extends(v, w) /\ Len(v) = n + 1 /\ v[n + 1] = x
        /\ \A i \in 1..n : v[i] = w[i]
    BY <1>1, <2>1, AppendExtends DEF Extends
  <2>3. /\ \A i \in 0..n : TokenAfter(v, i) = TokenAfter(w, i)
        /\ \A i \in 2..n : Link(v, i) = Link(w, i)
    BY <2>1, <2>2, ExtendsKeeps
  <2> HIDE DEF v
  <2>0. n \in Nat /\ n > 0 /\ Len(v) = n + 1
    BY <1>1, <2>2
  <2>4. d = Link(v, n + 1)
    <3>1. n + 1 - 1 = n
      BY <1>1
    <3> QED
      BY <1>1, <2>2, <2>3, <3>1 DEF d, Link
  <2>5. TokenOf(d) = TokenAfter(v, n + 1) /\ TokenOf(d) # j.head
    <3>1. n + 1 \in 2..Len(v) /\ n + 1 \in 0..Len(v) /\ n \in 0..Len(v) /\ n \in 0..n
      BY <2>0
    <3>2. TokenOf(d) = TokenAfter(v, n + 1)
      BY <2>2, <2>4, <3>1, LinkFacts
    <3>3. TokenAfter(v, n + 1) # TokenAfter(v, n)
      BY <2>0, <2>2, <3>1, TokensDiffer
    <3>4. j.head = TokenAfter(v, n)
      BY <1>3, <1>7, <2>3, <3>1
    <3> QED
      BY <3>2, <3>3, <3>4
  <2> DEFINE q == r.journal
  <2>6. /\ Tables(q) /\ q.head = TokenOf(d) /\ q.active = j.active /\ q.retained = j.retained
        /\ q.deltas = j.deltas \cup {d} /\ q.known = j.known \cup {d}
        /\ q.compacted = j.compacted /\ q.pins = j.pins
    BY <1>7 DEF TablesFit, Tables
  <2> HIDE DEF q
  <2>7. CheckpointFits(q, v)
    <3>1. PICK i \in 1..n : /\ j.active = [at |-> TokenAfter(w, i), state |-> w[i]]
                            /\ j.retained \in 1..i
      <4>1. w # <<>>
        BY <1>1, ChainFacts
      <4> QED
        BY <2>1, <4>1 DEF TablesFit, CheckpointFits
    <3>2. i \in 1..Len(v) /\ i \in 0..n /\ Len(v) # 0
      BY <2>0
    <3>3. v # <<>> /\ TokenAfter(v, i) = TokenAfter(w, i) /\ v[i] = w[i]
      BY <2>2, <2>3, <3>2, ChainFacts
    <3> QED
      BY <2>6, <3>1, <3>2, <3>3 DEF CheckpointFits
  <2>8. \A e \in q.deltas \cup q.known : \E i \in 2..Len(v) : e = Link(v, i)
    <3>1. n + 1 \in 2..Len(v) /\ \A i \in 2..n : i \in 2..Len(v)
      BY <2>0
    <3>2. \A e \in j.deltas \cup j.known : \E i \in 2..n : e = Link(w, i)
      BY <2>1 DEF TablesFit
    <3> QED
      BY <2>3, <2>4, <2>6, <3>1, <3>2
  <2>9. ASSUME NEW i \in 2..Len(v), Kept(q, i - 1) PROVE Link(v, i) \in q.deltas
    <3>1. CASE i = n + 1
      BY <2>4, <2>6, <3>1
    <3>2. CASE i # n + 1
      <4>1. i \in 2..n
        BY <2>0, <3>2
      <4>2. Kept(j, i - 1)
        BY <2>6, <2>9, Zenon DEF Kept
      <4>3. Link(w, i) \in j.deltas
        BY <2>1, <4>1, <4>2 DEF TablesFit
      <4> QED
        BY <2>3, <2>6, <4>1, <4>3
    <3> QED
      BY <3>1, <3>2
  <2>10. \A t \in q.compacted : \E i \in 2..Len(v) : t.token = TokenAfter(v, i)
    <3>1. \A i \in 2..n : i \in 2..Len(v) /\ TokenAfter(v, i) = TokenAfter(w, i)
      BY <2>0, <2>3
    <3>2. \A t \in j.compacted : \E i \in 2..n : t.token = TokenAfter(w, i)
      BY <2>1 DEF TablesFit
    <3> QED
      BY <2>6, <3>1, <3>2
  <2>11. q.pins \subseteq [owner: Server \cup {None}, start: Token, through: Token]
    BY <2>6 DEF TablesFit
  <2>12. TablesFit(q, v)
    BY <2>2, <2>5, <2>6, <2>7, <2>8, <2>9, <2>10, <2>11 DEF TablesFit
  <2> QED
    BY <2>1, <2>5, <2>6, <2>12 DEF q
<1> QED
  BY <1>4, <1>5, <1>6, <1>7

\* The first write is a checkpoint of the empty mapper.
LEMMA BootstrapFacts ==
    ASSUME ConstantsFit, NEW w, ChainFits(w), NEW j, TablesFit(j, w),
           NEW r, r = InstallCheckpoint(j, None, [at |-> BootstrapToken(Empty), state |-> Empty])
    PROVE  \/ r.out = "error" /\ r.journal = j
           \/ r.out = "already" /\ r.journal = j /\ Len(w) > 0 /\ w[1] = Empty
           \/ /\ r.out = "applied" /\ Len(w) = 0 /\ r.journal.head # j.head
              /\ TablesFit(r.journal, Append(w, Empty)) /\ r.journal.pins = j.pins
<1> DEFINE t == BootstrapToken(Empty)
           cp == [at |-> t, state |-> Empty]
           v == Append(w, Empty)
<1>1. /\ Len(w) \in Nat /\ (w = <<>> <=> Len(w) = 0)
      /\ Empty \in Mapper /\ Empty.rev = 0
      /\ t = [seq |-> 0, rev |-> 0, hash |-> <<Empty>>] /\ t # Genesis
  BY ChainFacts DEF Empty, Mapper, BootstrapToken, Genesis
<1>2. cp.at = t /\ cp.state = Empty /\ t.seq = 0
  BY <1>1
<1>3. <<Empty>> \in Seq(Mapper) /\ Len(<<Empty>>) = 1 /\ <<Empty>>[1] = Empty
  BY <1>1
<1>4. t \in Token /\ cp \in [at: Token, state: Mapper]
  BY <1>1, <1>3 DEF Token
<1>5. cp # None
  BY <1>4 DEF ConstantsFit
<1> HIDE DEF t, cp
<1>6. ASSUME j.active = cp PROVE Len(w) > 0 /\ w[1] = Empty
  <2>1. PICK n \in 1..Len(w) : j.active.at = TokenAfter(w, n) /\ j.active.state = w[n]
    BY <1>5, <1>6, ActiveFacts
  <2>2. n \in 0..Len(w) /\ TokenAfter(w, n) = t /\ w[n] = Empty
    BY <1>1, <1>2, <1>6, <2>1
  <2>3. Len(t.hash) = n /\ Len(t.hash) = 1
    BY <1>1, <1>3, <2>2, TokenFacts
  <2> QED
    BY <1>1, <2>1, <2>2, <2>3
<1>7. \/ r.out = "error" /\ r.journal = j
      \/ r.out = "already" /\ r.journal = j /\ j.active = cp
      \/ /\ r.out = "applied" /\ j.active = None
         /\ r.journal = [j EXCEPT !.checkpoints = @ \cup {cp}, !.active = cp,
                !.head = IF t.seq = 0 /\ j.head = Genesis /\ j.active = None /\ j.deltas = {}
                         THEN t ELSE @]
  <2>1. r = InstallCheckpoint(j, None, cp)
    BY DEF cp, t
  <2> QED
    BY <1>2, <2>1 DEF InstallCheckpoint, Unchanged
<1>8. ASSUME j.active = None,
             r.journal = [j EXCEPT !.checkpoints = @ \cup {cp}, !.active = cp,
                 !.head = IF t.seq = 0 /\ j.head = Genesis /\ j.active = None /\ j.deltas = {}
                          THEN t ELSE @]
      PROVE  /\ Len(w) = 0 /\ r.journal.head # j.head
             /\ TablesFit(r.journal, v) /\ r.journal.pins = j.pins
  <2>1. Len(w) = 0 /\ j.retained = 1
    BY <1>8, ActiveFacts
  <2>2. j.head = Genesis /\ j.deltas = {} /\ j.known = {} /\ j.compacted = {}
    <3>1. TokenAfter(w, Len(w)) = Genesis
      BY <2>1 DEF TokenAfter
    <3>2. 2..Len(w) = {}
      BY <2>1
    <3> QED
      BY <3>1, <3>2 DEF TablesFit
  <2>3. ChainFits(v) /\ Len(v) = 1 /\ v[1] = Empty
    <3>1. Empty.rev = Len(w)
      BY <1>1, <2>1
    <3>2. /\ ChainFits(Append(w, Empty)) /\ Len(Append(w, Empty)) = Len(w) + 1
          /\ Append(w, Empty)[Len(w) + 1] = Empty
      BY <1>1, <3>1, AppendExtends
    <3> QED
      BY <2>1, <3>2
  <2> HIDE DEF v
  <2>4. TokenAfter(v, 1) = t
    <3>1. 1 \in 0..Len(v)
      BY <2>3
    <3> DEFINE p == SubSeq(v, 1, 1)  h == <<Empty>>
    <3>2. p \in Seq(Mapper) /\ Len(p) = 1 /\ p[1] = Empty
      <4>1. 1 \in 1..1
        OBVIOUS
      <4> QED
        BY <2>3, <3>1, <4>1, PrefixFacts
    <3>3. h \in Seq(Mapper) /\ Len(h) = 1 /\ h[1] = Empty
      BY <1>3
    <3> HIDE DEF p, h
    <3>4. \A i \in 1..1 : p[i] = h[i]
      BY <3>2, <3>3
    <3>5. p = h
      BY <3>2, <3>3, <3>4, SeqEqual
    <3>6. TokenAfter(v, 1) = [seq |-> 0, rev |-> 0, hash |-> SubSeq(v, 1, 1)]
      BY DEF TokenAfter
    <3>7. TokenAfter(v, 1) = [seq |-> 0, rev |-> 0, hash |-> <<Empty>>]
      BY <3>5, <3>6, Zenon DEF p, h
    <3> QED
      BY <1>1, <3>7, Zenon
  <2> DEFINE q == r.journal
  <2>5. /\ Tables(q) /\ q.head = t /\ q.active = cp /\ q.retained = 1
        /\ q.deltas = {} /\ q.known = {} /\ q.compacted = {} /\ q.pins = j.pins
    BY <1>2, <1>8, <2>1, <2>2 DEF TablesFit, Tables
  <2> HIDE DEF q
  <2>6. CheckpointFits(q, v)
    <3>1. v # <<>> /\ 1 \in 1..Len(v) /\ 1 \in 1..1
      BY <2>3
    <3>2. q.active = [at |-> TokenAfter(v, 1), state |-> v[1]]
      BY <2>3, <2>4, <2>5 DEF cp
    <3> QED
      BY <2>5, <3>1, <3>2 DEF CheckpointFits
  <2>7. 2..Len(v) = {} /\ TokenAfter(v, Len(v)) = t
    BY <2>3, <2>4
  <2>8. q.pins \subseteq [owner: Server \cup {None}, start: Token, through: Token]
    BY <2>5 DEF TablesFit
  <2>9. TablesFit(q, v)
    BY <2>5, <2>6, <2>7, <2>8 DEF TablesFit
  <2> QED
    BY <1>1, <2>1, <2>2, <2>5, <2>9 DEF q
<1> QED
  BY <1>6, <1>7, <1>8

\* The tables fit with other deltas and pins, as long as nothing is missing.
LEMMA TablesStay ==
    ASSUME NEW w, ChainFits(w), NEW j, TablesFit(j, w), NEW q, Tables(q),
           q.head = j.head, CheckpointFits(q, w),
           q.deltas \subseteq j.deltas, q.known \subseteq j.known,
           \A t \in q.compacted : t \in j.compacted \/ \E d \in j.deltas : t.token = TokenOf(d),
           q.pins \subseteq [owner: Server \cup {None}, start: Token, through: Token],
           \A n \in 2..Len(w) : Kept(q, n - 1) /\ Link(w, n) \in j.deltas
                                    => Link(w, n) \in q.deltas,
           \A n \in 2..Len(w) : Kept(q, n - 1) => Kept(j, n - 1)
    PROVE  TablesFit(q, w)
<1>1. \A d \in q.deltas \cup q.known : \E n \in 2..Len(w) : d = Link(w, n)
  BY DEF TablesFit
<1>2. \A n \in 2..Len(w) : Kept(q, n - 1) => Link(w, n) \in q.deltas
  BY DEF TablesFit
<1>3. \A t \in q.compacted : \E n \in 2..Len(w) : t.token = TokenAfter(w, n)
  <2>1. \A d \in j.deltas : \E n \in 2..Len(w) : d = Link(w, n)
    BY DEF TablesFit
  <2>2. \A d \in j.deltas : \E n \in 2..Len(w) : TokenOf(d) = TokenAfter(w, n)
    BY <2>1, LinkFacts
  <2>3. \A t \in j.compacted : \E n \in 2..Len(w) : t.token = TokenAfter(w, n)
    BY DEF TablesFit
  <2> QED
    BY <2>2, <2>3
<1> QED
  BY <1>1, <1>2, <1>3 DEF TablesFit

\* A checkpoint is installed on the chain, above the active one.
LEMMA InstallFacts ==
    ASSUME ConstantsFit, NEW w, ChainFits(w), NEW j, TablesFit(j, w), Len(w) > 0,
           NEW t, NEW m, Names(t, m), m # None, NEW expected,
           NEW r, r = InstallCheckpoint(j, expected, [at |-> t, state |-> m])
    PROVE  TablesFit(r.journal, w) /\ r.journal.pins = j.pins
<1> DEFINE cp == [at |-> t, state |-> m]
<1>1. cp.at = t /\ cp.state = m
  OBVIOUS
<1>2. PICK n \in 1..Len(w) : j.active.at.seq = n - 1 /\ j.retained \in 1..n
  BY ActiveFacts
<1>3. j.active # None
  BY ActiveFacts
<1> HIDE DEF cp
<1>4. \/ r.journal = j
      \/ /\ TokenAt(j, t.seq) = t /\ t.seq > j.active.at.seq
         /\ r.journal = [j EXCEPT !.checkpoints = @ \cup {cp}, !.active = cp, !.head = @]
  <2>1. r = InstallCheckpoint(j, expected, cp)
    BY DEF cp
  <2> QED
    BY <1>1, <1>3, <2>1 DEF InstallCheckpoint, Unchanged
<1>5. CASE r.journal = j
  BY <1>5
<1>6. CASE /\ TokenAt(j, t.seq) = t /\ t.seq > j.active.at.seq
           /\ r.journal = [j EXCEPT !.checkpoints = @ \cup {cp}, !.active = cp, !.head = @]
  <2>1. t \in Token /\ t # None
    BY DEF Names, ConstantsFit
  <2>2. PICK k \in 0..Len(w) : t = TokenAfter(w, k)
    BY <1>6, <2>1, TokenAtFacts
  <2>3. m = HeldAfter(w, k) /\ Len(w) \in Nat
    BY <2>2, NamesHeld, ChainFacts
  <2>4. k > 0 /\ m = w[k] /\ t.seq = k - 1
    BY <2>2, <2>3, TokenFacts DEF HeldAfter
  <2>5. k \in 1..Len(w) /\ j.retained \in 1..k /\ w # <<>>
    BY <1>2, <1>6, <2>3, <2>4, ChainFacts
  <2> DEFINE q == r.journal
  <2>6. /\ Tables(q) /\ q.head = j.head /\ q.active = cp /\ q.retained = j.retained
        /\ q.deltas = j.deltas /\ q.known = j.known
        /\ q.compacted = j.compacted /\ q.pins = j.pins
    BY <1>6 DEF TablesFit, Tables
  <2> HIDE DEF q
  <2>7. CheckpointFits(q, w)
    BY <2>2, <2>4, <2>5, <2>6 DEF CheckpointFits, cp
  <2>8. \A seq : Kept(q, seq) <=> Kept(j, seq)
    BY <2>6, Zenon DEF Kept
  <2>9. TablesFit(q, w)
    <3>1. q.pins \subseteq [owner: Server \cup {None}, start: Token, through: Token]
      BY <2>6 DEF TablesFit
    <3> QED
      BY <2>6, <2>7, <2>8, <3>1, TablesStay
  <2> QED
    BY <2>6, <2>9 DEF q
<1> QED
  BY <1>4, <1>5, <1>6

\* What is neither retained nor pinned may go.
LEMMA CollectedFits ==
    ASSUME NEW w, ChainFits(w), NEW j, TablesFit(j, w)
    PROVE  TablesFit(WithoutCompacted(j), w) /\ WithoutCompacted(j).pins = j.pins
<1> DEFINE q == WithoutCompacted(j)
           S == {d \in j.deltas : Kept(j, TokenOf(d).seq)}
<1>1. q = [j EXCEPT !.deltas = S]
  <2>1. WithoutCompacted(j) = [j EXCEPT !.deltas =
            {d \in @ : TokenOf(d).seq >= j.retained
                       \/ \E p \in j.pins : /\ TokenOf(d).seq > p.start.seq
                                            /\ TokenOf(d).seq <= p.through.seq}]
    BY Zenon DEF WithoutCompacted
  <2>2. S = {d \in j.deltas : TokenOf(d).seq >= j.retained
                       \/ \E p \in j.pins : /\ TokenOf(d).seq > p.start.seq
                                            /\ TokenOf(d).seq <= p.through.seq}
    BY Zenon DEF Kept
  <2> QED
    BY <2>1, <2>2, Zenon
<1>2. S \subseteq j.deltas /\ \A d \in j.deltas : Kept(j, TokenOf(d).seq) => d \in S
  BY Zenon
<1> HIDE DEF S, q
<1>3. /\ Tables(q) /\ q.head = j.head /\ q.active = j.active /\ q.retained = j.retained
      /\ q.deltas = S /\ q.known = j.known /\ q.compacted = j.compacted /\ q.pins = j.pins
  BY <1>1 DEF TablesFit, Tables
<1>4. CheckpointFits(q, w)
  BY <1>3 DEF TablesFit, CheckpointFits
<1>5. \A seq : Kept(q, seq) <=> Kept(j, seq)
  BY <1>3, Zenon DEF Kept
<1>6. ASSUME NEW n \in 2..Len(w), Kept(q, n - 1), Link(w, n) \in j.deltas
      PROVE  Link(w, n) \in q.deltas
  <2>1. n \in 0..Len(w) /\ n # 0
    BY ChainFacts
  <2>2. TokenOf(Link(w, n)).seq = n - 1
    BY <2>1, LinkFacts, TokenFacts
  <2>3. Kept(j, TokenOf(Link(w, n)).seq)
    BY <1>5, <1>6, <2>2
  <2> QED
    BY <1>2, <1>3, <1>6, <2>3
<1>7. q.pins \subseteq [owner: Server \cup {None}, start: Token, through: Token]
  BY <1>3 DEF TablesFit
<1>8. TablesFit(q, w)
  BY <1>2, <1>3, <1>4, <1>5, <1>6, <1>7, TablesStay
<1> QED
  BY <1>3, <1>8 DEF q

\* A collection keeps what the active checkpoint does not cover.
LEMMA CollectFacts ==
    ASSUME ConstantsFit, NEW w, ChainFits(w), NEW j, TablesFit(j, w), NEW manifest
    PROVE  /\ TablesFit(GarbageCollect(j, manifest).journal, w)
           /\ GarbageCollect(j, manifest).journal.pins = j.pins
<1> DEFINE covered == {d \in j.deltas : TokenOf(d).seq <= j.active.at.seq}
           gone == {[mutation |-> d.mutation, token |-> TokenOf(d)] : d \in covered}
           q == [j EXCEPT !.compacted = @ \cup gone, !.known = @ \ covered,
                          !.retained = j.active.at.seq + 1]
           r == GarbageCollect(j, manifest)
<1>1. \/ r.journal = j
      \/ r.journal = WithoutCompacted(q) /\ j.active # None /\ ~(j.retained >= j.active.at.seq + 1)
  BY DEF GarbageCollect, Unchanged
<1>2. \A t \in gone : \E d \in j.deltas : t.token = TokenOf(d)
  OBVIOUS
<1> HIDE DEF covered, gone, r
<1>3. CASE r.journal = j
  BY <1>3 DEF r
<1>4. CASE /\ r.journal = WithoutCompacted(q) /\ j.active # None
           /\ ~(j.retained >= j.active.at.seq + 1)
  <2>1. PICK n \in 1..Len(w) : /\ j.active = [at |-> TokenAfter(w, n), state |-> w[n]]
                               /\ j.retained \in 1..n
    <3>1. Len(w) > 0
      BY <1>4, ActiveFacts
    <3>2. w # <<>>
      BY <3>1, ChainFacts
    <3> QED
      BY <3>2 DEF TablesFit, CheckpointFits
  <2>2. n \in 1..Len(w) /\ n \in 0..Len(w) /\ n # 0 /\ Len(w) \in Nat /\ w # <<>>
    BY ChainFacts
  <2>3. j.active.at = TokenAfter(w, n) /\ j.active.at.seq + 1 = n
    <3>1. TokenAfter(w, n).seq = n - 1
      BY <2>2, TokenFacts
    <3>2. j.active.at = TokenAfter(w, n)
      BY <2>1
    <3> QED
      BY <2>2, <3>1, <3>2
  <2>4. /\ Tables(q) /\ q.head = j.head /\ q.active = j.active /\ q.retained = n
        /\ q.deltas = j.deltas /\ q.known = j.known \ covered
        /\ q.compacted = j.compacted \cup gone /\ q.pins = j.pins
    <3> DEFINE left == j.known \ covered
               all == j.compacted \cup gone
    <3>1. q = [j EXCEPT !.compacted = all, !.known = left, !.retained = n]
      BY <2>3, Zenon
    <3> HIDE DEF q, left, all
    <3>2. /\ Tables(q) /\ q.head = j.head /\ q.active = j.active /\ q.retained = n
          /\ q.deltas = j.deltas /\ q.known = left
          /\ q.compacted = all /\ q.pins = j.pins
      BY <3>1 DEF TablesFit, Tables
    <3> QED
      BY <3>2, Zenon DEF left, all
  <2> HIDE DEF q
  <2>5. CheckpointFits(q, w)
    BY <2>1, <2>2, <2>4 DEF CheckpointFits
  <2>6. \A i \in 2..Len(w) : Kept(q, i - 1) => Kept(j, i - 1)
    BY <2>1, <2>2, <2>4 DEF Kept
  <2>7. q.pins \subseteq [owner: Server \cup {None}, start: Token, through: Token]
    BY <2>4 DEF TablesFit
  <2>8. \A t \in q.compacted : t \in j.compacted \/ \E d \in j.deltas : t.token = TokenOf(d)
    BY <1>2, <2>4
  <2>9. TablesFit(q, w)
    BY <2>4, <2>5, <2>6, <2>7, <2>8, TablesStay
  <2> QED
    BY <1>4, <2>4, <2>9, CollectedFits DEF r
<1> QED
  BY <1>1, <1>3, <1>4

\* Where a restore that begins now starts.
RestoreStart(j) == IF j.active = None THEN Genesis ELSE j.active.at

\* A pin keeps what the head needs, which is all there.
LEMMA PinFacts ==
    ASSUME ConstantsFit, NEW w, ChainFits(w), NEW j, TablesFit(j, w),
           NEW s \in Server \cup {None}
    PROVE  /\ TablesFit(WithPin(j, s), w)
           /\ WithPin(j, s).pins = j.pins \cup {[owner |-> s, start |-> RestoreStart(j),
                                                 through |-> j.head]}
<1> DEFINE p == [owner |-> s, start |-> RestoreStart(j), through |-> j.head]
           q == WithPin(j, s)
<1>1. q = [j EXCEPT !.pins = @ \cup {p}]
  BY Zenon DEF WithPin, RestoreStart
<1>2. Len(w) \in Nat /\ Len(w) \in 0..Len(w) /\ j.head = TokenAfter(w, Len(w))
  BY ChainFacts DEF TablesFit
<1>3. j.head \in Token /\ RestoreStart(j) \in Token
  <2>1. CASE j.active = None
    <3>1. 0 \in 0..Len(w) /\ RestoreStart(j) = Genesis
      BY <1>2, <2>1 DEF RestoreStart
    <3>2. TokenAfter(w, 0) \in Token /\ TokenAfter(w, 0) = Genesis
      BY <3>1, TokenFacts
    <3> QED
      BY <1>2, <3>1, <3>2, TokenFacts
  <2>2. CASE j.active # None
    <3>1. PICK n \in 1..Len(w) : j.active.at = TokenAfter(w, n)
      BY <2>2, ActiveFacts
    <3>2. n \in 0..Len(w)
      BY <1>2
    <3> QED
      BY <1>2, <2>2, <3>1, <3>2, TokenFacts DEF RestoreStart
  <2> QED
    BY <2>1, <2>2
<1> HIDE DEF q
<1>4. p.owner = s /\ p.start = RestoreStart(j) /\ p.through = j.head
  OBVIOUS
<1>5. p \in [owner: Server \cup {None}, start: Token, through: Token]
  BY <1>3
<1> HIDE DEF p
<1>6. /\ Tables(q) /\ q.head = j.head /\ q.active = j.active /\ q.retained = j.retained
      /\ q.deltas = j.deltas /\ q.known = j.known /\ q.compacted = j.compacted
      /\ q.pins = j.pins \cup {p}
  BY <1>1 DEF TablesFit, Tables
<1>7. CheckpointFits(q, w)
  BY <1>6 DEF TablesFit, CheckpointFits
<1>8. ASSUME NEW n \in 2..Len(w), Kept(q, n - 1) PROVE Kept(j, n - 1)
  <2>1. CASE n - 1 > p.start.seq
    <3>1. Len(w) > 0
      BY <1>2
    <3>2. PICK k \in 1..Len(w) : j.active.at.seq = k - 1 /\ j.retained \in 1..k
      BY <3>1, ActiveFacts
    <3>3. j.active # None
      BY <3>1, ActiveFacts
    <3>4. n - 1 > k - 1
      BY <1>4, <2>1, <3>2, <3>3 DEF RestoreStart
    <3>5. n - 1 >= j.retained
      BY <1>2, <3>2, <3>4
    <3> QED
      BY <3>5 DEF Kept
  <2>2. CASE ~(n - 1 > p.start.seq)
    BY <1>6, <1>8, <2>2, Zenon DEF Kept
  <2> QED
    BY <2>1, <2>2
<1>9. q.pins \subseteq [owner: Server \cup {None}, start: Token, through: Token]
  BY <1>5, <1>6 DEF TablesFit
<1>10. TablesFit(q, w)
  BY <1>6, <1>7, <1>8, <1>9, TablesStay
<1> QED
  BY <1>6, <1>10 DEF q, p

\* The tables stay as they are under other pins that keep no more.
LEMMA PinsGo ==
    ASSUME NEW w, ChainFits(w), NEW j, TablesFit(j, w),
           NEW pins, pins \subseteq [owner: Server \cup {None}, start: Token, through: Token],
           \A p \in pins : \E o \in j.pins : p.start = o.start /\ p.through = o.through,
           NEW q, q = [j EXCEPT !.pins = pins]
    PROVE  TablesFit(q, w) /\ q.pins = pins
<1>1. /\ Tables(q) /\ q.head = j.head /\ q.active = j.active /\ q.retained = j.retained
      /\ q.deltas = j.deltas /\ q.known = j.known /\ q.compacted = j.compacted
      /\ q.pins = pins
  BY DEF TablesFit, Tables
<1>2. CheckpointFits(q, w)
  BY <1>1 DEF TablesFit, CheckpointFits
<1>3. \A seq : Kept(q, seq) => Kept(j, seq)
  BY <1>1, Zenon DEF Kept
<1>4. TablesFit(q, w)
  BY <1>1, <1>2, <1>3, TablesStay
<1> QED
  BY <1>1, <1>4

\* The end of a restore takes its pin away, and what only that one kept.
LEMMA UnpinFacts ==
    ASSUME NEW w, ChainFits(w), NEW j, TablesFit(j, w), NEW s
    PROVE  /\ TablesFit(WithoutPin(j, s), w)
           /\ \A p \in j.pins : p.owner # s => p \in WithoutPin(j, s).pins
<1> DEFINE pins == {p \in j.pins : p.owner # s}
           q == [j EXCEPT !.pins = pins]
<1>1. WithoutPin(j, s) = WithoutCompacted(q)
  BY Zenon DEF WithoutPin
<1>2. pins \subseteq [owner: Server \cup {None}, start: Token, through: Token]
  BY DEF TablesFit
<1>3. \A p \in pins : \E o \in j.pins : p.start = o.start /\ p.through = o.through
  OBVIOUS
<1> HIDE DEF pins
<1>4. PICK o : o = q
  OBVIOUS
<1>5. TablesFit(o, w) /\ o.pins = pins
  BY <1>2, <1>3, <1>4, PinsGo
<1> HIDE DEF q
<1> QED
  BY <1>1, <1>4, <1>5, CollectedFits DEF pins

\* A pin that loses its owner keeps its deltas.
LEMMA OrphanFacts ==
    ASSUME NEW w, ChainFits(w), NEW j, TablesFit(j, w), NEW s
    PROVE  /\ TablesFit(Orphaned(j, s), w)
           /\ \A p \in j.pins : p.owner # s => p \in Orphaned(j, s).pins
<1> DEFINE Left(p) == IF p.owner = s THEN [p EXCEPT !.owner = None] ELSE p
           pins == {Left(p) : p \in j.pins}
<1>1. Orphaned(j, s) = [j EXCEPT !.pins = pins]
  BY Zenon DEF Orphaned
<1>2. ASSUME NEW p \in j.pins
      PROVE  /\ Left(p) \in [owner: Server \cup {None}, start: Token, through: Token]
             /\ Left(p).start = p.start /\ Left(p).through = p.through
             /\ p.owner # s => Left(p) = p
  <2>1. p \in [owner: Server \cup {None}, start: Token, through: Token]
    BY DEF TablesFit
  <2> QED
    BY <2>1
<1> HIDE DEF Left
<1>3. pins \subseteq [owner: Server \cup {None}, start: Token, through: Token]
  BY <1>2
<1>4. \A p \in pins : \E o \in j.pins : p.start = o.start /\ p.through = o.through
  BY <1>2
<1>5. \A p \in j.pins : p.owner # s => p \in pins
  BY <1>2
<1> HIDE DEF pins
<1> DEFINE q == Orphaned(j, s)
<1>6. q = [j EXCEPT !.pins = pins]
  BY <1>1
<1> HIDE DEF q
<1>7. TablesFit(q, w) /\ q.pins = pins
  <2>1. PICK kept : kept = pins
    OBVIOUS
  <2>2. /\ kept \subseteq [owner: Server \cup {None}, start: Token, through: Token]
        /\ \A p \in kept : \E o \in j.pins : p.start = o.start /\ p.through = o.through
        /\ q = [j EXCEPT !.pins = kept]
    BY <1>3, <1>4, <1>6, <2>1
  <2>3. TablesFit(q, w) /\ q.pins = kept
    BY <2>2, PinsGo
  <2> QED
    BY <2>1, <2>3
<1> QED
  BY <1>5, <1>7 DEF q

-----------------------------------------------------------------------------
(* The servers. *)

\* The fields of a call and of a cache.
IsCall(c) == c = [pc |-> c.pc, kind |-> c.kind, expected |-> c.expected,
                  candidate |-> c.candidate, got |-> c.got, after |-> c.after,
                  through |-> c.through, replayed |-> c.replayed, broken |-> c.broken,
                  manifest |-> c.manifest, answer |-> c.answer, doubt |-> c.doubt,
                  floor |-> c.floor]

IsCache(k) == k = [token |-> k.token, mapper |-> k.mapper, since |-> k.since,
                   pending |-> k.pending]

\* A compare-and-swap asks for a successor.
Follows(expected, candidate) ==
    IF expected = None THEN candidate = Empty
    ELSE /\ expected \in Mapper /\ candidate \in Mapper
         /\ candidate.rev = expected.rev + 1

\* A cache names what it holds, and so does a write in doubt.
CacheFits(k) ==
    /\ IsCache(k)
    /\ k.token # None => Names(k.token, k.mapper)
    /\ k.pending # None => k.pending.token # Genesis /\ Names(k.pending.token, k.pending.mapper)

\* A restore follows the chain to a head that was one during the call, and its
\* pin covers what it has yet to read.
RestoreFits(s, c, w, pins) ==
    \E m \in c.floor..Len(w) : \E n \in 1..(m - 1) :
        /\ c.through = TokenAfter(w, m) /\ c.after = TokenAfter(w, n) /\ c.got = w[n]
        /\ \E p \in pins : /\ p.owner = s /\ p.start.seq <= c.after.seq
                           /\ c.through.seq <= p.through.seq

\* Where the call of a server s is, in terms of the chain: what it decided on was
\* held since it began.
PlaceFits(s, c, k, w, pins) ==
    /\ c.pc = "restore" => Len(w) > 0
    /\ c.pc # "finish" => ~c.broken
    /\ c.pc = "page" => RestoreFits(s, c, w, pins)
    /\ c.pc = "finish" /\ ~c.broken =>
           \E m \in c.floor..Len(w) : m > 0 /\ c.through = TokenAfter(w, m) /\ c.got = w[m]
    /\ c.pc = "write" =>
           /\ c.kind = "cas" /\ k.mapper = c.expected
           /\ \E n \in c.floor..Len(w) : k.token = TokenAfter(w, n)
    /\ c.pc \in {"rotate", "install", "covered", "collect"} =>
           /\ c.kind = "cas" /\ k.mapper # None /\ k.token # None
           /\ \E n \in c.floor..Len(w) : n > 0 /\ c.candidate = w[n]

CallFits(s, c, k, w, pins) ==
    /\ IsCall(c) /\ CacheFits(k)
    /\ c.kind \in {"read", "cas"} /\ c.floor \in 0..Len(w)
    /\ Follows(c.expected, c.candidate)
    /\ PlaceFits(s, c, k, w, pins)

\* The inductive invariant.
JournalInv ==
    /\ ChainFits(written)
    /\ TablesFit(journal, written)
    /\ \A s \in Server : CallFits(s, ask[s], cache[s], written, journal.pins)
    /\ knows \in [Server -> Mapper \cup {None}]
    /\ cache = [s \in Server |-> cache[s]] /\ ask = [s \in Server |-> ask[s]]

\* What a step may do in one cell: the action of ActsAsOneCell.
CellStep ==
    /\ \A s \in Server : ask[s].pc # "idle" /\ ask'[s].pc = "idle" =>
           /\ ask'[s].answer = "read" => knows'[s] \in HeldSince(ask[s].floor, written')
           /\ ask'[s].answer = "done" => ask[s].candidate \in HeldSince(ask[s].floor, written')
    /\ written' # written =>
           \E s \in Server :
               ask[s].pc = "write" /\ {ask[s].expected} = HeldSince(Len(written), written)

\* A call stays where it is when the chain goes on and its pins stay.
LEMMA OthersStay ==
    ASSUME NEW w, ChainFits(w), NEW v, ChainFits(v), Extends(v, w), NEW s, NEW c, NEW k,
           NEW pins, NEW others, \A p \in pins : p.owner = s => p \in others,
           CallFits(s, c, k, w, pins)
    PROVE  CallFits(s, c, k, v, others)
<1>1. /\ Len(w) \in Nat /\ Len(v) \in Nat /\ Len(w) <= Len(v)
      /\ \A i \in 1..Len(w) : v[i] = w[i]
      /\ \A i \in 0..Len(w) : TokenAfter(v, i) = TokenAfter(w, i)
  BY ChainFacts, ExtendsKeeps DEF Extends
<1>2. /\ IsCall(c) /\ CacheFits(k) /\ c.kind \in {"read", "cas"} /\ c.floor \in 0..Len(w)
      /\ Follows(c.expected, c.candidate) /\ PlaceFits(s, c, k, w, pins)
  BY DEF CallFits
<1>3. /\ c.floor \in 0..Len(v)
      /\ \A n \in c.floor..Len(w) : /\ n \in c.floor..Len(v) /\ n \in 0..Len(w)
                                    /\ n > 0 => n \in 1..Len(w)
  BY <1>1, <1>2
<1>4. c.pc = "restore" => Len(v) > 0
  BY <1>1, <1>2 DEF PlaceFits
<1>5. ASSUME c.pc = "page" PROVE RestoreFits(s, c, v, others)
  <2>1. RestoreFits(s, c, w, pins)
    BY <1>2, <1>5 DEF PlaceFits
  <2>2. PICK m \in c.floor..Len(w) : \E n \in 1..(m - 1) :
            /\ c.through = TokenAfter(w, m) /\ c.after = TokenAfter(w, n) /\ c.got = w[n]
            /\ \E p \in pins : /\ p.owner = s /\ p.start.seq <= c.after.seq
                               /\ c.through.seq <= p.through.seq
    BY <2>1, Zenon DEF RestoreFits
  <2>3. PICK n \in 1..(m - 1) :
            /\ c.through = TokenAfter(w, m) /\ c.after = TokenAfter(w, n) /\ c.got = w[n]
            /\ \E p \in pins : /\ p.owner = s /\ p.start.seq <= c.after.seq
                               /\ c.through.seq <= p.through.seq
    BY <2>2
  <2>4. n \in 1..Len(w) /\ n \in 0..Len(w) /\ m \in c.floor..Len(v) /\ m \in 0..Len(w)
    BY <1>1, <1>2
  <2>5. c.through = TokenAfter(v, m) /\ c.after = TokenAfter(v, n) /\ c.got = v[n]
    BY <1>1, <2>3, <2>4
  <2>6. \E p \in others : /\ p.owner = s /\ p.start.seq <= c.after.seq
                          /\ c.through.seq <= p.through.seq
    BY <2>3, Zenon
  <2> QED
    BY <2>1, <2>3, <2>4, <2>5, <2>6, Zenon DEF RestoreFits
<1>6. ASSUME c.pc = "finish", ~c.broken
      PROVE  \E m \in c.floor..Len(v) : m > 0 /\ c.through = TokenAfter(v, m) /\ c.got = v[m]
  <2>1. PICK m \in c.floor..Len(w) : m > 0 /\ c.through = TokenAfter(w, m) /\ c.got = w[m]
    BY <1>2, <1>6 DEF PlaceFits
  <2> QED
    BY <1>1, <1>3, <2>1
<1>7. ASSUME c.pc = "write"
      PROVE  /\ c.kind = "cas" /\ k.mapper = c.expected
             /\ \E n \in c.floor..Len(v) : k.token = TokenAfter(v, n)
  <2>1. /\ c.kind = "cas" /\ k.mapper = c.expected
        /\ \E n \in c.floor..Len(w) : k.token = TokenAfter(w, n)
    BY <1>2, <1>7 DEF PlaceFits
  <2> QED
    BY <1>1, <1>3, <2>1
<1>8. ASSUME c.pc \in {"rotate", "install", "covered", "collect"}
      PROVE  /\ c.kind = "cas" /\ k.mapper # None /\ k.token # None
             /\ \E n \in c.floor..Len(v) : n > 0 /\ c.candidate = v[n]
  <2>1. /\ c.kind = "cas" /\ k.mapper # None /\ k.token # None
        /\ \E n \in c.floor..Len(w) : n > 0 /\ c.candidate = w[n]
    BY <1>2, <1>8 DEF PlaceFits
  <2> QED
    BY <1>1, <1>3, <2>1
<1>9. c.pc # "finish" => ~c.broken
  BY <1>2, Zenon DEF PlaceFits
<1>10. PlaceFits(s, c, k, v, others)
  BY <1>4, <1>5, <1>6, <1>7, <1>8, <1>9, Zenon DEF PlaceFits
<1> QED
  BY <1>2, <1>3, <1>10 DEF CallFits

\* A step of one server.
LEMMA StepKeeps ==
    ASSUME JournalInv, NEW s \in Server, NEW c, NEW k,
           ask' = [ask EXCEPT ![s] = c], cache' = [cache EXCEPT ![s] = k],
           ChainFits(written'), Extends(written', written), TablesFit(journal', written'),
           \A p \in journal.pins : p.owner # s => p \in journal'.pins,
           CallFits(s, c, k, written', journal'.pins),
           knows' \in [Server -> Mapper \cup {None}],
           ask[s].pc # "idle" /\ c.pc = "idle" =>
               /\ c.answer = "read" => knows'[s] \in HeldSince(ask[s].floor, written')
               /\ c.answer = "done" =>
                      ask[s].candidate \in HeldSince(ask[s].floor, written'),
           written' # written =>
               ask[s].pc = "write" /\ {ask[s].expected} = HeldSince(Len(written), written)
    PROVE  JournalInv' /\ CellStep
<1>1. /\ ask'[s] = c /\ cache'[s] = k
      /\ \A t \in Server \ {s} : ask'[t] = ask[t] /\ cache'[t] = cache[t]
      /\ cache' = [t \in Server |-> cache'[t]] /\ ask' = [t \in Server |-> ask'[t]]
  <2>1. cache = [t \in Server |-> cache[t]] /\ ask = [t \in Server |-> ask[t]]
    BY DEF JournalInv
  <2> QED
    BY <2>1
<1>2. ASSUME NEW t \in Server PROVE CallFits(t, ask'[t], cache'[t], written', journal'.pins)
  <2>1. CASE t = s
    BY <1>1, <2>1
  <2>2. CASE t # s
    <3>1. CallFits(t, ask[t], cache[t], written, journal.pins) /\ ChainFits(written)
      BY DEF JournalInv
    <3>2. \A p \in journal.pins : p.owner = t => p \in journal'.pins
      BY <2>2
    <3>3. CallFits(t, ask[t], cache[t], written', journal'.pins)
      BY <3>1, <3>2, OthersStay
    <3> QED
      BY <1>1, <2>2, <3>3
  <2> QED
    BY <2>1, <2>2
<1>3. JournalInv'
  BY <1>1, <1>2 DEF JournalInv
<1>4. CellStep
  BY <1>1 DEF CellStep
<1> QED
  BY <1>3, <1>4

-----------------------------------------------------------------------------
(* How a call ends. *)

\* What the invariant says of one server.
LEMMA InvAt ==
    ASSUME JournalInv, NEW s \in Server
    PROVE  /\ ChainFits(written) /\ Len(written) \in Nat /\ TablesFit(journal, written)
           /\ CallFits(s, ask[s], cache[s], written, journal.pins)
           /\ knows[s] \in Mapper \cup {None}
           /\ ask = [ask EXCEPT ![s] = ask[s]] /\ cache = [cache EXCEPT ![s] = cache[s]]
           /\ knows = [knows EXCEPT ![s] = knows[s]]
           /\ Extends(written, written)
<1>1. /\ ChainFits(written) /\ TablesFit(journal, written)
      /\ CallFits(s, ask[s], cache[s], written, journal.pins)
      /\ knows \in [Server -> Mapper \cup {None}]
      /\ cache = [t \in Server |-> cache[t]] /\ ask = [t \in Server |-> ask[t]]
  BY DEF JournalInv
<1>2. Len(written) \in Nat
  BY <1>1, ChainFacts
<1>3. /\ ask = [ask EXCEPT ![s] = ask[s]] /\ cache = [cache EXCEPT ![s] = cache[s]]
      /\ knows = [knows EXCEPT ![s] = knows[s]] /\ knows[s] \in Mapper \cup {None}
  BY <1>1
<1>4. Extends(written, written)
  BY <1>2 DEF Extends
<1> QED
  BY <1>1, <1>2, <1>3, <1>4

\* A server at rest.
LEMMA RestFits ==
    ASSUME NEW s, NEW k, CacheFits(k), NEW w, Len(w) \in Nat, NEW pins
    PROVE  CallFits(s, Rest, k, w, pins)
<1>1. /\ IsCall(Rest) /\ Rest.pc = "idle" /\ Rest.kind = "read" /\ Rest.floor = 0
      /\ Rest.expected = None /\ Rest.candidate = Empty /\ ~Rest.broken
  BY DEF Rest, IsCall
<1>2. PlaceFits(s, Rest, k, w, pins) /\ Follows(Rest.expected, Rest.candidate)
  BY <1>1 DEF PlaceFits, Follows
<1> QED
  BY <1>1, <1>2 DEF CallFits

\* What was held from then on.
LEMMA HeldFacts ==
    ASSUME ConstantsFit, NEW w, ChainFits(w), NEW i \in 0..Len(w)
    PROVE  /\ HeldSince(i, w) = {HeldAfter(w, n) : n \in i..Len(w)}
           /\ HeldSince(i, w) \subseteq Mapper \cup {None}
           /\ \A n \in i..Len(w) : HeldAfter(w, n) \in HeldSince(i, w)
           /\ \A n \in i..Len(w) : n > 0 => w[n] \in HeldSince(i, w)
           /\ \A n \in 0..Len(w) : HeldAfter(w, n) = None <=> n = 0
<1>1. Len(w) \in Nat /\ \A n \in 1..Len(w) : w[n] \in Mapper
  BY ChainFacts
<1>2. HeldSince(i, w) = {HeldAfter(w, n) : n \in i..Len(w)}
  BY Zenon DEF HeldSince, HeldAfter
<1>3. \A n \in 0..Len(w) : /\ HeldAfter(w, n) \in Mapper \cup {None}
                           /\ HeldAfter(w, n) = None <=> n = 0
                           /\ n > 0 => HeldAfter(w, n) = w[n]
  BY <1>1 DEF HeldAfter, ConstantsFit
<1>4. \A n \in i..Len(w) : n \in 0..Len(w)
  BY <1>1
<1> QED
  BY <1>2, <1>3, <1>4

\* A call at rest, after an answer.
Answered(c, a, d, e, x) ==
    c = [Rest EXCEPT !.answer = a, !.doubt = d, !.expected = e, !.candidate = x]

\* Such a call is idle, and as fresh as its fields say.
LEMMA RestFacts ==
    ASSUME NEW a, NEW d, NEW e, NEW x, NEW c,
           Answered(c, a, d, e, x)
    PROVE  /\ c.pc = "idle" /\ c.answer = a /\ IsCall(c) /\ c.kind = "read" /\ c.floor = 0
           /\ ~c.broken /\ c.expected = e /\ c.candidate = x
<1>1. /\ IsCall(Rest) /\ Rest.pc = "idle" /\ Rest.kind = "read" /\ Rest.floor = 0
      /\ ~Rest.broken
  BY DEF Rest, IsCall
<1> DEFINE Same(p, q) == /\ p.pc = q.pc /\ p.kind = q.kind /\ p.floor = q.floor
                         /\ p.broken = q.broken
           c1 == [Rest EXCEPT !.answer = a]
           c2 == [c1 EXCEPT !.doubt = d]
           c3 == [c2 EXCEPT !.expected = e]
           c4 == [c3 EXCEPT !.candidate = x]
<1>2. IsCall(c1) /\ Same(c1, Rest) /\ c1.answer = a
  BY <1>1 DEF IsCall
<1>3. c = c4
  BY DEF Answered
<1> HIDE DEF c1
<1>4. IsCall(c2) /\ Same(c2, c1) /\ c2.answer = c1.answer
  BY <1>2 DEF IsCall
<1> HIDE DEF c2
<1>5. IsCall(c3) /\ Same(c3, c2) /\ c3.answer = c2.answer /\ c3.expected = e
  BY <1>4 DEF IsCall
<1> HIDE DEF c3
<1>6. IsCall(c4) /\ Same(c4, c3) /\ c4.answer = c3.answer /\ c4.expected = c3.expected
      /\ c4.candidate = x
  BY <1>5 DEF IsCall
<1> HIDE DEF c4
<1>7. /\ c4.pc = "idle" /\ c4.answer = a /\ IsCall(c4) /\ c4.kind = "read" /\ c4.floor = 0
      /\ ~c4.broken /\ c4.expected = e /\ c4.candidate = x
  BY <1>1, <1>2, <1>4, <1>5, <1>6
<1> QED
  BY <1>3, <1>7, Zenon

\* A call that returns.
LEMMA ReturnFacts ==
    ASSUME JournalInv, NEW s \in Server, NEW answer, NEW mapper, NEW doubt,
           answer # None => mapper \in Mapper \cup {None},
           Return(s, answer, mapper, doubt)
    PROVE  /\ \E c : /\ ask' = [ask EXCEPT ![s] = c]
                     /\ c.pc = "idle" /\ c.answer = answer
                     /\ \A k, w, pins : CacheFits(k) /\ Len(w) \in Nat =>
                            CallFits(s, c, k, w, pins)
           /\ knows' \in [Server -> Mapper \cup {None}]
           /\ answer # None => knows'[s] = mapper
<1>1. /\ CallFits(s, ask[s], cache[s], written, journal.pins)
      /\ knows \in [Server -> Mapper \cup {None}]
  BY InvAt DEF JournalInv
<1>2. PICK e, x, c : /\ ask' = [ask EXCEPT ![s] = c]
                     /\ Answered(c, answer, doubt, e, x)
                     /\ e = IF doubt THEN ask[s].expected ELSE None
                     /\ x = IF doubt THEN ask[s].candidate ELSE Empty
  BY Zenon DEF Return, Answered
<1>3. /\ knows' \in [Server -> Mapper \cup {None}]
      /\ answer # None => knows'[s] = mapper
  <2>1. knows' = [knows EXCEPT ![s] = IF answer = None THEN @ ELSE mapper]
    BY Zenon DEF Return
  <2> QED
    BY <1>1, <2>1
<1>4. /\ c.pc = "idle" /\ c.answer = answer /\ IsCall(c) /\ c.kind = "read" /\ c.floor = 0
      /\ ~c.broken
      /\ c.expected = e /\ c.candidate = x
  BY <1>2, RestFacts
<1>5. Follows(c.expected, c.candidate)
  <2>1. Follows(ask[s].expected, ask[s].candidate) /\ Follows(None, Empty)
    BY <1>1 DEF CallFits, Follows
  <2>2. CASE doubt
    <3>1. c.expected = ask[s].expected /\ c.candidate = ask[s].candidate
      BY <1>2, <1>4, <2>2, Zenon
    <3> QED
      BY <2>1, <3>1
  <2>3. CASE ~doubt
    <3>1. c.expected = None /\ c.candidate = Empty
      BY <1>2, <1>4, <2>3, Zenon
    <3> QED
      BY <2>1, <3>1
  <2> QED
    BY <2>2, <2>3
<1>6. \A k, w, pins : PlaceFits(s, c, k, w, pins)
  BY <1>4 DEF PlaceFits
<1>7. \A k, w, pins : CacheFits(k) /\ Len(w) \in Nat => CallFits(s, c, k, w, pins)
  BY <1>4, <1>5, <1>6 DEF CallFits
<1> QED
  BY <1>2, <1>3, <1>4, <1>7

\* A call that answers with what was held since it began.
LEMMA AnswerFits ==
    ASSUME ConstantsFit, JournalInv, NEW s \in Server, NEW k, CacheFits(k),
           cache' = [cache EXCEPT ![s] = k],
           ChainFits(written'), Extends(written', written), TablesFit(journal', written'),
           \A p \in journal.pins : p.owner # s => p \in journal'.pins,
           NEW answer \in {None, "read", "done"}, NEW mapper, NEW doubt,
           Return(s, answer, mapper, doubt),
           answer # None => mapper \in HeldSince(ask[s].floor, written'),
           answer = "done" => mapper = ask[s].candidate,
           written' # written =>
               ask[s].pc = "write" /\ {ask[s].expected} = HeldSince(Len(written), written)
    PROVE  JournalInv' /\ CellStep
<1>1. ask[s].floor \in 0..Len(written) /\ Len(written) \in Nat
  BY InvAt DEF CallFits
<1>2. Len(written') \in Nat /\ Len(written) <= Len(written')
  BY ChainFacts DEF Extends
<1>3. ask[s].floor \in 0..Len(written')
  BY <1>1, <1>2
<1>4. HeldSince(ask[s].floor, written') \subseteq Mapper \cup {None}
  BY <1>3, HeldFacts
<1>5. answer # None => mapper \in Mapper \cup {None}
  BY <1>4
<1>6. /\ knows' \in [Server -> Mapper \cup {None}]
      /\ answer # None => knows'[s] = mapper
  BY <1>5, ReturnFacts
<1>7. PICK c : /\ ask' = [ask EXCEPT ![s] = c]
               /\ c.pc = "idle" /\ c.answer = answer
               /\ CallFits(s, c, k, written', journal'.pins)
  <2>1. PICK c : /\ ask' = [ask EXCEPT ![s] = c]
                 /\ c.pc = "idle" /\ c.answer = answer
                 /\ \A o, w, pins : CacheFits(o) /\ Len(w) \in Nat =>
                        CallFits(s, c, o, w, pins)
    BY <1>5, ReturnFacts
  <2> QED
    BY <1>2, <2>1
<1>8. "read" # None /\ "done" # None
  BY DEF ConstantsFit
<1> QED
  BY <1>6, <1>7, <1>8, StepKeeps

\* A call that ends with an error.
LEMMA ErrorFits ==
    ASSUME ConstantsFit, JournalInv, NEW s \in Server, NEW k, CacheFits(k),
           cache' = [cache EXCEPT ![s] = k], ask[s].pc # "idle",
           Refuse(s) \/ Unsure(s),
           ChainFits(written'), Extends(written', written), TablesFit(journal', written'),
           \A p \in journal.pins : p.owner # s => p \in journal'.pins,
           written' # written =>
               ask[s].pc = "write" /\ {ask[s].expected} = HeldSince(Len(written), written)
    PROVE  JournalInv' /\ CellStep
<1>1. PICK doubt : Return(s, None, None, doubt)
  BY Zenon DEF Refuse, Unsure
<1>2. "read" # None /\ "done" # None
  BY DEF ConstantsFit
<1> QED
  BY <1>1, <1>2, AnswerFits

\* A cache that names what was held since the call began decides for it.
LEMMA DecideFits ==
    ASSUME ConstantsFit, JournalInv, NEW s \in Server, NEW k, CacheFits(k),
           cache' = [cache EXCEPT ![s] = k], ask[s].pc # "finish" \/ ~ask[s].broken,
           written' = written, TablesFit(journal', written),
           \A p \in journal.pins : p.owner # s => p \in journal'.pins,
           NEW n \in ask[s].floor..Len(written), k.token = TokenAfter(written, n),
           k.mapper = HeldAfter(written, n), Decide(s, k.mapper)
    PROVE  JournalInv' /\ CellStep
<1>1. /\ ChainFits(written) /\ Len(written) \in Nat /\ Extends(written, written)
      /\ CallFits(s, ask[s], cache[s], written, journal.pins)
      /\ ask[s].floor \in 0..Len(written)
      /\ ask[s].pc # "finish" => ~ask[s].broken
  BY InvAt DEF CallFits, PlaceFits
<1>2. /\ ChainFits(written') /\ Extends(written', written) /\ TablesFit(journal', written')
      /\ ~(written' # written)
  BY <1>1
<1>3. k.mapper \in HeldSince(ask[s].floor, written')
  BY <1>1, HeldFacts
<1>4. CASE ask[s].kind = "read"
  <2>1. Return(s, "read", k.mapper, ask[s].doubt)
    BY <1>4, Zenon DEF Decide, Read
  <2> QED
    BY <1>2, <1>3, <2>1, AnswerFits
<1>5. CASE ask[s].kind # "read" /\ k.mapper = ask[s].candidate /\ Done(s)
  <2>1. Return(s, "done", k.mapper, FALSE)
    BY <1>5, Zenon DEF Done
  <2> QED
    BY <1>2, <1>3, <1>5, <2>1, AnswerFits
<1>6. CASE Refuse(s)
  <2>1. PICK doubt : Return(s, None, None, doubt)
    BY <1>6, Zenon DEF Refuse
  <2>2. None # "done"
    BY DEF ConstantsFit
  <2> QED
    BY <1>2, <2>1, <2>2, AnswerFits
<1>7. CASE /\ ask[s].kind # "read" /\ k.mapper = ask[s].expected
           /\ Goto(s, "write") /\ UNCHANGED knows
  <2> DEFINE c == [ask[s] EXCEPT !.pc = "write"]
  <2>1. ask' = [ask EXCEPT ![s] = c]
    BY <1>7 DEF Goto
  <2>2. /\ IsCall(ask[s]) /\ ask[s].kind \in {"read", "cas"} /\ ~ask[s].broken
        /\ Follows(ask[s].expected, ask[s].candidate)
    BY <1>1 DEF CallFits
  <2>3. /\ IsCall(c) /\ c.pc = "write" /\ c.kind = ask[s].kind /\ c.broken = ask[s].broken
        /\ c.expected = ask[s].expected /\ c.candidate = ask[s].candidate
        /\ c.floor = ask[s].floor
    BY <2>2 DEF IsCall
  <2> HIDE DEF c
  <2>4. ~c.broken /\ c.kind = "cas"
    BY <1>7, <2>2, <2>3, Zenon
  <2>5. PlaceFits(s, c, k, written, journal'.pins)
    BY <1>7, <2>3, <2>4 DEF PlaceFits
  <2>6. CallFits(s, c, k, written', journal'.pins)
    BY <1>1, <2>2, <2>3, <2>5 DEF CallFits
  <2>7. knows' \in [Server -> Mapper \cup {None}]
    BY <1>7 DEF JournalInv
  <2>8. ~(c.pc = "idle")
    BY <2>3
  <2> QED
    BY <1>2, <2>1, <2>6, <2>7, <2>8, StepKeeps
<1> QED
  BY <1>4, <1>5, <1>6, <1>7, Zenon DEF Decide

-----------------------------------------------------------------------------
(* The steps of a call up to the write. *)

\* A call goes from one of its steps to the next.
LEMMA MoveFits ==
    ASSUME ConstantsFit, JournalInv, NEW s \in Server, NEW c, ask' = [ask EXCEPT ![s] = c],
           c.pc # "idle", UNCHANGED <<cache, knows, written>>,
           TablesFit(journal', written),
           \A p \in journal.pins : p.owner # s => p \in journal'.pins,
           CallFits(s, c, cache[s], written, journal'.pins)
    PROVE  JournalInv' /\ CellStep
<1>1. /\ ChainFits(written) /\ Extends(written, written)
      /\ cache = [cache EXCEPT ![s] = cache[s]]
  BY InvAt
<1>2. knows \in [Server -> Mapper \cup {None}]
  BY DEF JournalInv
<1> QED
  BY <1>1, <1>2, StepKeeps

\* A call that has just begun.
LEMMA BegunFacts ==
    ASSUME NEW s, NEW kind, NEW expected, NEW candidate, NEW c,
           c = Begun(s, kind, expected, candidate)
    PROVE  /\ IsCall(c) /\ c.pc = "look" /\ c.kind = kind /\ c.expected = expected
           /\ c.candidate = candidate /\ c.floor = Len(written) /\ ~c.broken
<1>1. IsCall(Rest) /\ ~Rest.broken
  BY DEF Rest, IsCall
<1> DEFINE floor == Len(written)
           doubt == kind = "read" /\ ask[s].doubt
           c1 == [Rest EXCEPT !.pc = "look"]
           c2 == [c1 EXCEPT !.kind = kind]
           c3 == [c2 EXCEPT !.expected = expected]
           c4 == [c3 EXCEPT !.candidate = candidate]
           c5 == [c4 EXCEPT !.floor = floor]
           c6 == [c5 EXCEPT !.doubt = doubt]
<1>2. c = c6
  BY DEF Begun
<1> HIDE DEF floor, doubt
<1>3. /\ IsCall(c1) /\ c1.pc = "look"
      /\ c1.broken = Rest.broken
  BY <1>1 DEF IsCall
<1> HIDE DEF c1
<1>4. /\ IsCall(c2) /\ c2.kind = kind
      /\ c2.broken = c1.broken /\ c2.pc = c1.pc
  BY <1>3 DEF IsCall
<1> HIDE DEF c2
<1>5. /\ IsCall(c3) /\ c3.expected = expected
      /\ c3.broken = c2.broken /\ c3.pc = c2.pc /\ c3.kind = c2.kind
  BY <1>4 DEF IsCall
<1> HIDE DEF c3
<1>6. /\ IsCall(c4) /\ c4.candidate = candidate
      /\ c4.broken = c3.broken /\ c4.pc = c3.pc /\ c4.kind = c3.kind
      /\ c4.expected = c3.expected
  BY <1>5 DEF IsCall
<1> HIDE DEF c4
<1>7. /\ IsCall(c5) /\ c5.floor = floor
      /\ c5.broken = c4.broken /\ c5.pc = c4.pc /\ c5.kind = c4.kind
      /\ c5.expected = c4.expected /\ c5.candidate = c4.candidate
  BY <1>6 DEF IsCall
<1> HIDE DEF c5
<1>8. /\ IsCall(c6) /\ c6.doubt = doubt
      /\ c6.broken = c5.broken /\ c6.pc = c5.pc /\ c6.kind = c5.kind
      /\ c6.expected = c5.expected /\ c6.candidate = c5.candidate /\ c6.floor = c5.floor
  BY <1>7 DEF IsCall
<1> HIDE DEF c6
<1>9. ~c6.broken
  BY <1>1, <1>2, <1>3, <1>4, <1>5, <1>6, <1>7, <1>8, Zenon
<1> QED
  BY <1>2, <1>3, <1>4, <1>5, <1>6, <1>7, <1>8, <1>9 DEF floor

\* A call begins.
LEMMA AskFits ==
    ASSUME ConstantsFit, JournalInv, NEW s \in Server, Ask(s)
    PROVE  JournalInv' /\ CellStep
<1>1. /\ TablesFit(journal, written) /\ Len(written) \in Nat
      /\ CallFits(s, ask[s], cache[s], written, journal.pins)
      /\ knows[s] \in Mapper \cup {None}
      /\ CacheFits(cache[s]) /\ Follows(ask[s].expected, ask[s].candidate)
  BY InvAt DEF CallFits
<1>2. UNCHANGED <<journal, cache, knows, written>>
  BY DEF Ask
<1>3. ASSUME NEW kind \in {"read", "cas"}, NEW expected, NEW candidate,
             ask' = [ask EXCEPT ![s] = Begun(s, kind, expected, candidate)],
             Follows(expected, candidate)
      PROVE  JournalInv' /\ CellStep
  <2> DEFINE c == Begun(s, kind, expected, candidate)
  <2>1. /\ IsCall(c) /\ c.pc = "look" /\ c.kind = kind /\ c.expected = expected
        /\ c.candidate = candidate /\ c.floor = Len(written) /\ ~c.broken
    BY BegunFacts
  <2>2. ask' = [ask EXCEPT ![s] = c]
    BY <1>3
  <2> HIDE DEF c
  <2>3. PlaceFits(s, c, cache[s], written, journal.pins)
    BY <2>1 DEF PlaceFits
  <2>4. CallFits(s, c, cache[s], written, journal.pins)
    BY <1>1, <1>3, <2>1, <2>3 DEF CallFits
  <2>5. c.pc # "idle"
    BY <2>1
  <2> QED
    BY <1>1, <1>2, <2>2, <2>4, <2>5, MoveFits
<1>4. CASE ask' = [ask EXCEPT ![s] = Begun(s, "read", ask[s].expected, ask[s].candidate)]
  BY <1>1, <1>3, <1>4
<1>5. CASE ask' = [ask EXCEPT ![s] = Begun(s, "cas", ask[s].expected, ask[s].candidate)]
  BY <1>1, <1>3, <1>5
<1>6. ASSUME NEW next \in IF knows[s] = None THEN {Empty} ELSE Successors(knows[s]),
             ask' = [ask EXCEPT ![s] = Begun(s, "cas", knows[s], next)]
      PROVE  JournalInv' /\ CellStep
  <2>1. Follows(knows[s], next)
    <3>1. CASE knows[s] = None
      BY <3>1 DEF Follows
    <3>2. CASE knows[s] # None
      <4>1. knows[s] \in Mapper /\ next \in Successors(knows[s])
        BY <1>1, <3>2
      <4>2. next \in Mapper /\ next.rev = knows[s].rev + 1
        BY <4>1 DEF Successors, Mapper
      <4> QED
        BY <3>2, <4>1, <4>2 DEF Follows
    <3> QED
      BY <3>1, <3>2
  <2> QED
    BY <1>3, <1>6, <2>1
<1> QED
  BY <1>4, <1>5, <1>6, Zenon DEF Ask

\* The cache after the lookup still names what it holds.
LEMMA ResolvedFits ==
    ASSUME NEW s, CacheFits(cache[s]), NEW head PROVE CacheFits(Resolved(s, head))
<1> DEFINE p == cache[s].pending
<1>1. CASE p # None /\ p.token = head
  <2> DEFINE k == [token |-> p.token, mapper |-> p.mapper, since |-> cache[s].since + 1,
                   pending |-> None]
  <2>1. Resolved(s, head) = k
    BY <1>1, Zenon DEF Resolved
  <2>2. Names(p.token, p.mapper)
    BY <1>1 DEF CacheFits
  <2>3. IsCache(k) /\ k.token = p.token /\ k.mapper = p.mapper /\ k.pending = None
    BY DEF IsCache
  <2> HIDE DEF k
  <2>4. CacheFits(k)
    BY <2>2, <2>3 DEF CacheFits
  <2> QED
    BY <2>1, <2>4
<1>2. CASE ~(p # None /\ p.token = head)
  <2> DEFINE k == [cache[s] EXCEPT !.pending = None]
  <2>1. Resolved(s, head) = k
    BY <1>2, Zenon DEF Resolved
  <2>2. IsCache(k) /\ k.token = cache[s].token /\ k.mapper = cache[s].mapper /\ k.pending = None
    BY DEF CacheFits, IsCache
  <2> HIDE DEF k
  <2>3. CacheFits(k)
    BY <2>2 DEF CacheFits
  <2> QED
    BY <2>1, <2>3
<1> QED
  BY <1>1, <1>2

\* A cache whose token is the head holds what was written last.
LEMMA CacheAtHead ==
    ASSUME ConstantsFit, JournalInv, NEW s \in Server, NEW k, CacheFits(k),
           k.token = journal.head
    PROVE  /\ Len(written) \in ask[s].floor..Len(written)
           /\ k.token = TokenAfter(written, Len(written))
           /\ k.mapper = HeldAfter(written, Len(written))
<1>1. /\ ChainFits(written) /\ Len(written) \in Nat /\ ask[s].floor \in 0..Len(written)
      /\ journal.head = TokenAfter(written, Len(written))
  BY InvAt DEF CallFits, TablesFit
<1>2. TokenAfter(written, Len(written)) \in Token
  BY <1>1, TokenFacts
<1>3. k.token # None
  BY <1>1, <1>2 DEF ConstantsFit
<1>4. Names(TokenAfter(written, Len(written)), k.mapper)
  BY <1>1, <1>3 DEF CacheFits
<1> QED
  BY <1>1, <1>4, NamesHeld

\* A call that moves on without anything else.
LEMMA GotoFits ==
    ASSUME JournalInv, NEW s \in Server, NEW pc, ask[s].pc \notin {"idle", "finish"},
           pc = "sync" \/ (pc = "restore" /\ Len(written) > 0), Goto(s, pc), NEW k, CacheFits(k)
    PROVE  \E c : /\ ask' = [ask EXCEPT ![s] = c] /\ c.pc # "idle"
                  /\ \A pins : CallFits(s, c, k, written, pins)
<1>1. CallFits(s, ask[s], cache[s], written, journal.pins)
  BY InvAt
<1>2. /\ IsCall(ask[s]) /\ ask[s].kind \in {"read", "cas"} /\ ~ask[s].broken
      /\ ask[s].floor \in 0..Len(written)
      /\ Follows(ask[s].expected, ask[s].candidate)
  BY <1>1 DEF CallFits, PlaceFits
<1> DEFINE c == [ask[s] EXCEPT !.pc = pc]
<1>3. ask' = [ask EXCEPT ![s] = c]
  BY DEF Goto
<1>4. /\ IsCall(c) /\ c.pc = pc /\ c.kind = ask[s].kind /\ c.broken = ask[s].broken
      /\ c.expected = ask[s].expected /\ c.candidate = ask[s].candidate
      /\ c.floor = ask[s].floor
  BY <1>2 DEF IsCall
<1> HIDE DEF c
<1>5. ~c.broken
  BY <1>2, <1>4, Zenon
<1>6. \A pins : PlaceFits(s, c, k, written, pins)
  BY <1>4, <1>5 DEF PlaceFits
<1>7. \A pins : CallFits(s, c, k, written, pins)
  BY <1>2, <1>4, <1>6 DEF CallFits
<1>8. c.pc # "idle"
  BY <1>4
<1> QED
  BY <1>3, <1>7, <1>8

\* The lookup of the head.
LEMMA LookFits ==
    ASSUME ConstantsFit, JournalInv, NEW s \in Server, Look(s)
    PROVE  JournalInv' /\ CellStep
<1>1. /\ ChainFits(written) /\ TablesFit(journal, written) /\ Extends(written, written)
      /\ CacheFits(cache[s]) /\ cache = [cache EXCEPT ![s] = cache[s]]
      /\ knows \in [Server -> Mapper \cup {None}]
  BY InvAt DEF CallFits, JournalInv
<1>2. ask[s].pc = "look" /\ UNCHANGED <<journal, written>>
  BY DEF Look
<1> DEFINE k == Resolved(s, journal.head)
<1>3. CacheFits(k)
  BY <1>1, ResolvedFits
<1>4. \/ /\ cache' = [cache EXCEPT ![s] = k]
         /\ IF k.token = journal.head THEN Decide(s, k.mapper)
            ELSE Goto(s, "sync") /\ UNCHANGED knows
      \/ Unsure(s) /\ UNCHANGED cache
  BY Zenon DEF Look
<1> HIDE DEF k
<1>5. CASE cache' = [cache EXCEPT ![s] = k] /\ k.token = journal.head /\ Decide(s, k.mapper)
  <2>1. /\ Len(written) \in ask[s].floor..Len(written)
        /\ k.token = TokenAfter(written, Len(written))
        /\ k.mapper = HeldAfter(written, Len(written))
    BY <1>3, <1>5, CacheAtHead
  <2>2. ask[s].pc # "finish"
    BY <1>2
  <2> QED
    BY <1>1, <1>2, <1>3, <1>5, <2>1, <2>2, DecideFits
<1>6. CASE cache' = [cache EXCEPT ![s] = k] /\ Goto(s, "sync") /\ UNCHANGED knows
  <2>1. ask[s].pc \notin {"idle", "finish"}
    BY <1>2
  <2>2. PICK c : /\ ask' = [ask EXCEPT ![s] = c] /\ c.pc # "idle"
                 /\ \A pins : CallFits(s, c, k, written, pins)
    BY <1>3, <1>6, <2>1, GotoFits
  <2>3. CallFits(s, c, k, written', journal'.pins)
    BY <1>2, <2>2
  <2> QED
    BY <1>1, <1>2, <1>6, <2>2, <2>3, StepKeeps
<1>7. CASE Unsure(s) /\ UNCHANGED cache
  <2>1. ask[s].pc # "idle"
    BY <1>2
  <2> QED
    BY <1>1, <1>2, <1>7, <2>1, ErrorFits
<1> QED
  BY <1>4, <1>5, <1>6, <1>7

\* The second lookup.
LEMMA SyncFits ==
    ASSUME ConstantsFit, JournalInv, NEW s \in Server, Sync(s)
    PROVE  JournalInv' /\ CellStep
<1>1. /\ ChainFits(written) /\ TablesFit(journal, written) /\ Extends(written, written)
      /\ Len(written) \in Nat
      /\ CacheFits(cache[s]) /\ cache = [cache EXCEPT ![s] = cache[s]]
      /\ ask[s].floor \in 0..Len(written)
      /\ journal.head = TokenAfter(written, Len(written))
  BY InvAt DEF CallFits, TablesFit
<1>2. ask[s].pc = "sync" /\ UNCHANGED <<journal, written>>
  BY DEF Sync
<1>3. ask[s].pc # "finish" /\ ask[s].pc \notin {"idle", "finish"}
  BY <1>2
<1>4. TokenAfter(written, 0) = Genesis /\ 0 \in 0..Len(written) /\ Len(written) \in 0..Len(written)
  BY <1>1, TokenFacts
<1>5. journal.head = Genesis <=> Len(written) = 0
  BY <1>1, <1>4, TokensDiffer
<1>6. CASE cache[s].token = journal.head /\ Decide(s, cache[s].mapper) /\ UNCHANGED cache
  <2>1. /\ Len(written) \in ask[s].floor..Len(written)
        /\ cache[s].token = TokenAfter(written, Len(written))
        /\ cache[s].mapper = HeldAfter(written, Len(written))
    BY <1>1, <1>6, CacheAtHead
  <2>2. cache' = [cache EXCEPT ![s] = cache[s]] /\ TablesFit(journal', written)
    BY <1>1, <1>2, <1>6
  <2> QED
    BY <1>1, <1>2, <1>3, <1>6, <2>1, <2>2, DecideFits
<1>7. CASE /\ journal.head = Genesis
           /\ cache' = [cache EXCEPT ![s] = [Fresh EXCEPT !.token = Genesis]]
           /\ Decide(s, None)
  <2> DEFINE k == [Fresh EXCEPT !.token = Genesis]
  <2>1. IsCache(k) /\ k.token = Genesis /\ k.mapper = None /\ k.pending = None
    BY DEF Fresh, IsCache
  <2>2. cache' = [cache EXCEPT ![s] = k]
    BY <1>7
  <2> HIDE DEF k
  <2>3. HeldAfter(written, 0) = None
    BY DEF HeldAfter
  <2>4. Names(Genesis, None)
    BY <1>1, <1>4, <2>3, NamesHeld
  <2>5. CacheFits(k)
    BY <2>1, <2>4 DEF CacheFits
  <2>6. /\ Decide(s, k.mapper) /\ k.token = TokenAfter(written, 0)
        /\ k.mapper = HeldAfter(written, 0)
    BY <1>4, <1>7, <2>1, <2>3
  <2>7. 0 \in ask[s].floor..Len(written)
    BY <1>1, <1>5, <1>7
  <2> QED
    BY <1>1, <1>2, <1>3, <2>2, <2>5, <2>6, <2>7, DecideFits
<1>8. CASE journal.head # Genesis /\ Goto(s, "restore") /\ UNCHANGED <<cache, knows>>
  <2>1. Len(written) > 0
    BY <1>1, <1>5, <1>8
  <2>2. PICK c : /\ ask' = [ask EXCEPT ![s] = c] /\ c.pc # "idle"
                 /\ \A pins : CallFits(s, c, cache[s], written, pins)
    BY <1>1, <1>3, <1>8, <2>1, GotoFits
  <2>3. CallFits(s, c, cache[s], written, journal'.pins)
    BY <2>2
  <2> QED
    BY <1>1, <1>2, <1>8, <2>2, <2>3, MoveFits
<1>9. CASE Refuse(s) /\ UNCHANGED cache
  BY <1>1, <1>2, <1>3, <1>9, ErrorFits
<1> QED
  BY <1>6, <1>7, <1>8, <1>9, Zenon DEF Sync

\* A restore begins at the active checkpoint, under a pin.
LEMMA BeginRestoreFits ==
    ASSUME ConstantsFit, JournalInv, NEW s \in Server, BeginRestore(s)
    PROVE  JournalInv' /\ CellStep
<1>1. /\ ChainFits(written) /\ TablesFit(journal, written) /\ Extends(written, written)
      /\ Len(written) \in Nat
      /\ CallFits(s, ask[s], cache[s], written, journal.pins)
      /\ CacheFits(cache[s]) /\ cache = [cache EXCEPT ![s] = cache[s]]
      /\ ask[s].floor \in 0..Len(written)
      /\ journal.head = TokenAfter(written, Len(written))
  BY InvAt DEF CallFits, TablesFit
<1>2. /\ ask[s].pc = "restore" /\ UNCHANGED <<cache, written>>
      /\ ask[s].pc # "idle"
  BY DEF BeginRestore
<1>3. Len(written) > 0 /\ ~ask[s].broken
  BY <1>1, <1>2 DEF CallFits, PlaceFits
<1>4. CASE Refuse(s) /\ journal' \in {journal, WithPin(journal, None)}
  <2>1. TablesFit(journal', written) /\ \A p \in journal.pins : p \in journal'.pins
    <3>1. CASE journal' = journal
      BY <1>1, <3>1
    <3>2. CASE journal' = WithPin(journal, None)
      BY <1>1, <3>2, PinFacts
    <3> QED
      BY <1>4, <3>1, <3>2
  <2> QED
    BY <1>1, <1>2, <1>4, <2>1, ErrorFits
<1>5. ASSUME /\ journal' = WithPin(journal, s)
             /\ UNCHANGED <<knows, troubles>>,
             NEW start, start = IF journal.active = None THEN [at |-> Genesis, state |-> Empty]
                                ELSE journal.active,
             ask' = [ask EXCEPT ![s].pc = IF start.at = journal.head THEN "finish" ELSE "page",
                                ![s].got = start.state, ![s].after = start.at,
                                ![s].through = journal.head]
      PROVE  JournalInv' /\ CellStep
  <2>1. PICK n \in 1..Len(written) :
            /\ start.at = TokenAfter(written, n) /\ start.state = written[n]
            /\ start.at = RestoreStart(journal) /\ journal.active.at.seq = n - 1
            /\ start.at.seq = n - 1
    BY <1>1, <1>3, <1>5, ActiveFacts DEF RestoreStart
  <2>2. /\ TablesFit(journal', written)
        /\ journal'.pins = journal.pins \cup {[owner |-> s, start |-> RestoreStart(journal),
                                               through |-> journal.head]}
    BY <1>1, <1>5, PinFacts
  <2> DEFINE pc == IF start.at = journal.head THEN "finish" ELSE "page"
             c1 == [ask[s] EXCEPT !.pc = pc]
             c2 == [c1 EXCEPT !.got = start.state]
             c3 == [c2 EXCEPT !.after = start.at]
             c == [c3 EXCEPT !.through = journal.head]
  <2>3. ask' = [ask EXCEPT ![s] = c]
    BY <1>5
  <2> HIDE DEF pc
  <2>4. IsCall(ask[s]) /\ ask[s].kind \in {"read", "cas"} /\ Follows(ask[s].expected, ask[s].candidate)
    BY <1>1 DEF CallFits
  <2> DEFINE Same(p, q) == /\ p.kind = q.kind /\ p.floor = q.floor /\ p.broken = q.broken
                           /\ p.expected = q.expected /\ p.candidate = q.candidate
  <2>5. IsCall(c1) /\ Same(c1, ask[s]) /\ c1.pc = pc
    BY <2>4 DEF IsCall
  <2> HIDE DEF c1
  <2>6. IsCall(c2) /\ Same(c2, c1) /\ c2.pc = c1.pc /\ c2.got = start.state
    BY <2>5 DEF IsCall
  <2> HIDE DEF c2
  <2>7. IsCall(c3) /\ Same(c3, c2) /\ c3.pc = c2.pc /\ c3.got = c2.got /\ c3.after = start.at
    BY <2>6 DEF IsCall
  <2> HIDE DEF c3
  <2>8. /\ IsCall(c) /\ Same(c, c3) /\ c.pc = c3.pc /\ c.got = c3.got /\ c.after = c3.after
        /\ c.through = journal.head
    BY <2>7 DEF IsCall
  <2> HIDE DEF c
  <2>9. /\ IsCall(c) /\ c.pc = pc /\ c.got = written[n] /\ c.after = TokenAfter(written, n)
        /\ c.through = TokenAfter(written, Len(written))
        /\ c.kind = ask[s].kind /\ c.floor = ask[s].floor
        /\ c.expected = ask[s].expected /\ c.candidate = ask[s].candidate
    BY <1>1, <2>1, <2>5, <2>6, <2>7, <2>8
  <2>10. ~c.broken
    BY <1>3, <2>5, <2>6, <2>7, <2>8, Zenon
  <2>11. /\ Len(written) \in c.floor..Len(written) /\ n \in 0..Len(written)
         /\ Len(written) \in 0..Len(written)
    BY <1>1, <2>9
  <2>12. /\ pc \in {"finish", "page"}
         /\ pc = "finish" => start.at = journal.head
         /\ pc = "page" => start.at # journal.head
    BY DEF pc
  <2>13. ASSUME c.pc = "page" PROVE RestoreFits(s, c, written, journal'.pins)
    <3>1. n # Len(written)
      BY <1>1, <2>1, <2>9, <2>12, <2>13
    <3>2. n \in 1..(Len(written) - 1)
      BY <1>1, <3>1
    <3> DEFINE p == [owner |-> s, start |-> RestoreStart(journal), through |-> journal.head]
    <3>3. p \in journal'.pins /\ p.owner = s /\ p.start = start.at /\ p.through = journal.head
      BY <2>1, <2>2
    <3> HIDE DEF p
    <3>4. /\ TokenAfter(written, n).seq \in Int
          /\ TokenAfter(written, Len(written)).seq \in Int
      BY <1>1, <2>11, TokenFacts
    <3>5. p.start.seq <= c.after.seq /\ c.through.seq <= p.through.seq
      <4>1. /\ p.start = TokenAfter(written, n) /\ c.after = TokenAfter(written, n)
            /\ p.through = TokenAfter(written, Len(written))
            /\ c.through = TokenAfter(written, Len(written))
        BY <1>1, <2>1, <2>9, <3>3
      <4> QED
        BY <3>4, <4>1
    <3> QED
      BY <2>9, <2>11, <3>2, <3>3, <3>5, Zenon DEF RestoreFits
  <2>14. ASSUME c.pc = "finish"
         PROVE  \E m \in c.floor..Len(written) :
                    m > 0 /\ c.through = TokenAfter(written, m) /\ c.got = written[m]
    <3>1. n = Len(written)
      BY <1>1, <2>1, <2>9, <2>11, <2>12, <2>14, TokensDiffer
    <3> QED
      BY <1>3, <2>9, <2>11, <3>1
  <2>15. c.pc \in {"finish", "page"}
    BY <2>9, <2>12
  <2>16. PlaceFits(s, c, cache[s], written, journal'.pins)
    BY <2>10, <2>13, <2>14, <2>15 DEF PlaceFits
  <2>17. CallFits(s, c, cache[s], written, journal'.pins)
    BY <1>1, <2>4, <2>9, <2>16 DEF CallFits
  <2>18. c.pc # "idle"
    BY <2>15
  <2> QED
    BY <1>2, <1>5, <2>2, <2>3, <2>17, <2>18, MoveFits
<1>6. PICK start : start = IF journal.active = None THEN [at |-> Genesis, state |-> Empty]
                           ELSE journal.active
  OBVIOUS
<1> QED
  BY <1>4, <1>5, <1>6, Zenon DEF BeginRestore

\* What a restore under way will read.
Reads(s, c, w, j) ==
    \E m \in c.floor..Len(w) : \E n \in 1..(m - 1) :
        /\ c.through = TokenAfter(w, m) /\ c.after = TokenAfter(w, n) /\ c.got = w[n]
        /\ c.through.seq - c.after.seq = m - n
        /\ \A i \in 1..(m - n) : Replay(j, c.got, c.after, i)
               = [ok |-> TRUE, mapper |-> w[n + i], token |-> TokenAfter(w, n + i)]
        /\ \E p \in j.pins : /\ p.owner = s /\ p.start.seq <= c.after.seq
                             /\ c.through.seq <= p.through.seq

\* A restore finds every delta up to its end, and each leads to the next member.
LEMMA PageFacts ==
    ASSUME ConstantsFit, NEW w, ChainFits(w), NEW j, TablesFit(j, w), NEW s, NEW c,
           c.floor \in 0..Len(w), RestoreFits(s, c, w, j.pins)
    PROVE  Reads(s, c, w, j)
<1>1. PICK m \in c.floor..Len(w) : \E n \in 1..(m - 1) :
          /\ c.through = TokenAfter(w, m) /\ c.after = TokenAfter(w, n) /\ c.got = w[n]
          /\ \E p \in j.pins : /\ p.owner = s /\ p.start.seq <= c.after.seq
                               /\ c.through.seq <= p.through.seq
  BY Zenon DEF RestoreFits
<1>2. PICK n \in 1..(m - 1) :
          /\ c.through = TokenAfter(w, m) /\ c.after = TokenAfter(w, n) /\ c.got = w[n]
          /\ \E p \in j.pins : /\ p.owner = s /\ p.start.seq <= c.after.seq
                               /\ c.through.seq <= p.through.seq
  BY <1>1
<1>3. PICK p \in j.pins : /\ p.owner = s /\ p.start.seq <= c.after.seq
                          /\ c.through.seq <= p.through.seq
  BY <1>2
<1>4. Len(w) \in Nat
  BY ChainFacts
<1>5. m \in 0..Len(w) /\ n \in 0..Len(w) /\ n \in 1..Len(w) /\ m > n /\ m # 0 /\ n # 0
  BY <1>1, <1>2, <1>4
<1>6. c.through.seq = m - 1 /\ c.after.seq = n - 1
  BY <1>2, <1>5, TokenFacts
<1>7. p.start.seq \in Nat /\ p.through.seq \in Nat
  <2>1. p.start \in Token /\ p.through \in Token
    BY DEF TablesFit
  <2> QED
    BY <2>1 DEF Token
<1>8. ASSUME NEW i \in (n + 1)..m PROVE Link(w, i) \in j.deltas
  <2>1. i \in 2..Len(w) /\ i - 1 > p.start.seq /\ i - 1 <= p.through.seq
    BY <1>3, <1>4, <1>5, <1>6, <1>7
  <2>2. Kept(j, i - 1)
    BY <2>1, Zenon DEF Kept
  <2> QED
    BY <2>1, <2>2 DEF TablesFit
<1>9. ASSUME NEW i \in 1..(m - n)
      PROVE  Replay(j, c.got, c.after, i)
                 = [ok |-> TRUE, mapper |-> w[n + i], token |-> TokenAfter(w, n + i)]
  <2> DEFINE k == n + i
  <2>1. k \in n..Len(w) /\ k - n = i /\ \A o \in (n + 1)..k : o \in (n + 1)..m
    BY <1>4, <1>5
  <2> HIDE DEF k
  <2>2. \A o \in (n + 1)..k : Link(w, o) \in j.deltas
    BY <1>8, <2>1
  <2>3. Replay(j, w[n], TokenAfter(w, n), k - n)
            = [ok |-> TRUE, mapper |-> w[k], token |-> TokenAfter(w, k)]
    BY <1>5, <2>1, <2>2, ReplayFacts
  <2> QED
    BY <1>2, <2>1, <2>3 DEF k
<1>10. c.through.seq - c.after.seq = m - n
  BY <1>5, <1>6
<1> QED
  BY <1>1, <1>2, <1>9, <1>10, Zenon DEF Reads

\* A page is read and replayed.
LEMMA ReadPageFits ==
    ASSUME ConstantsFit, JournalInv, NEW s \in Server, ReadPage(s)
    PROVE  JournalInv' /\ CellStep
<1>1. /\ ChainFits(written) /\ TablesFit(journal, written) /\ Len(written) \in Nat
      /\ CallFits(s, ask[s], cache[s], written, journal.pins)
      /\ CacheFits(cache[s]) /\ ask[s].floor \in 0..Len(written)
  BY InvAt DEF CallFits
<1>2. ask[s].pc = "page" /\ UNCHANGED <<journal, cache, knows, written>>
  BY DEF ReadPage
<1>3. RestoreFits(s, ask[s], written, journal.pins) /\ ~ask[s].broken
  BY <1>1, <1>2 DEF CallFits, PlaceFits
<1>4. /\ IsCall(ask[s]) /\ ask[s].kind \in {"read", "cas"}
      /\ Follows(ask[s].expected, ask[s].candidate)
  BY <1>1 DEF CallFits
<1> DEFINE Same(p, q) == /\ p.kind = q.kind /\ p.floor = q.floor
                         /\ p.expected = q.expected /\ p.candidate = q.candidate
<1>5. ASSUME NEW c, ask' = [ask EXCEPT ![s] = c], IsCall(c), Same(c, ask[s]),
             c.pc \in {"page", "finish"},
             PlaceFits(s, c, cache[s], written, journal.pins)
      PROVE  JournalInv' /\ CellStep
  <2>1. CallFits(s, c, cache[s], written, journal'.pins)
    BY <1>1, <1>2, <1>4, <1>5 DEF CallFits
  <2>2. c.pc # "idle"
    BY <1>5
  <2> QED
    BY <1>1, <1>2, <1>5, <2>1, <2>2, MoveFits
<1>6. CASE ask' = [ask EXCEPT ![s].broken = TRUE, ![s].pc = "finish"]
  <2> DEFINE yes == TRUE
             c1 == [ask[s] EXCEPT !.broken = yes]
             c == [c1 EXCEPT !.pc = "finish"]
  <2>1. ask' = [ask EXCEPT ![s] = c]
    BY <1>6
  <2> HIDE DEF yes
  <2>2. IsCall(c1) /\ Same(c1, ask[s]) /\ c1.broken = yes
    BY <1>4 DEF IsCall
  <2> HIDE DEF c1
  <2>3. IsCall(c) /\ Same(c, c1) /\ c.pc = "finish" /\ c.broken = c1.broken
    BY <2>2 DEF IsCall
  <2> HIDE DEF c
  <2>4. Same(c, ask[s]) /\ c.pc \in {"page", "finish"}
    BY <2>2, <2>3
  <2>5. c.broken
    BY <2>2, <2>3, Zenon DEF yes
  <2>6. PlaceFits(s, c, cache[s], written, journal.pins)
    BY <2>3, <2>5 DEF PlaceFits
  <2> QED
    BY <1>5, <2>1, <2>3, <2>4, <2>6
<1>7. ASSUME NEW i \in 1..(ask[s].through.seq - ask[s].after.seq),
             NEW page, page = Replay(journal, ask[s].got, ask[s].after, i),
             ask' = [ask EXCEPT ![s] =
                 [ask[s] EXCEPT !.got = page.mapper, !.after = page.token,
                                !.replayed = ask[s].replayed + i,
                                !.pc = IF page.token = ask[s].through THEN "finish" ELSE "page"]]
      PROVE  JournalInv' /\ CellStep
  <2> DEFINE b == ask[s]
  <2>0. Reads(s, b, written, journal)
    BY <1>1, <1>3, PageFacts
  <2>1. PICK m \in b.floor..Len(written) : \E n \in 1..(m - 1) :
            /\ b.through = TokenAfter(written, m) /\ b.after = TokenAfter(written, n)
            /\ b.got = written[n] /\ b.through.seq - b.after.seq = m - n
            /\ \A o \in 1..(m - n) : Replay(journal, b.got, b.after, o)
                   = [ok |-> TRUE, mapper |-> written[n + o], token |-> TokenAfter(written, n + o)]
            /\ \E p \in journal.pins : /\ p.owner = s /\ p.start.seq <= b.after.seq
                                       /\ b.through.seq <= p.through.seq
    BY <2>0, Zenon DEF Reads
  <2>2. PICK n \in 1..(m - 1) :
            /\ b.through = TokenAfter(written, m) /\ b.after = TokenAfter(written, n)
            /\ b.got = written[n] /\ b.through.seq - b.after.seq = m - n
            /\ \A o \in 1..(m - n) : Replay(journal, b.got, b.after, o)
                   = [ok |-> TRUE, mapper |-> written[n + o], token |-> TokenAfter(written, n + o)]
            /\ \E p \in journal.pins : /\ p.owner = s /\ p.start.seq <= b.after.seq
                                       /\ b.through.seq <= p.through.seq
    BY <2>1
  <2> DEFINE k == n + i
  <2>3. /\ i \in 1..(m - n) /\ k \in 2..m /\ m \in 0..Len(written) /\ n \in 0..Len(written)
        /\ k \in 0..Len(written) /\ k >= n /\ n # 0 /\ k # 0 /\ m # 0
    BY <1>1, <1>7, <2>1, <2>2
  <2>4. page.mapper = written[k] /\ page.token = TokenAfter(written, k)
    <3>1. page = [ok |-> TRUE, mapper |-> written[k], token |-> TokenAfter(written, k)]
      BY <1>7, <2>2, <2>3, Zenon
    <3> QED
      BY <3>1
  <2> HIDE DEF k
  <2> DEFINE pc == IF page.token = b.through THEN "finish" ELSE "page"
             r == b.replayed + i
             c1 == [b EXCEPT !.got = page.mapper]
             c2 == [c1 EXCEPT !.after = page.token]
             c3 == [c2 EXCEPT !.replayed = r]
             c == [c3 EXCEPT !.pc = pc]
  <2>5. ask' = [ask EXCEPT ![s] = c]
    BY <1>7
  <2> HIDE DEF pc, r
  <2> DEFINE Also(p, q) == Same(p, q) /\ p.through = q.through /\ p.broken = q.broken
  <2>6. IsCall(c1) /\ Also(c1, b) /\ c1.got = page.mapper
    BY <1>4 DEF IsCall
  <2> HIDE DEF c1
  <2>7. IsCall(c2) /\ Also(c2, c1) /\ c2.got = c1.got /\ c2.after = page.token
    BY <2>6 DEF IsCall
  <2> HIDE DEF c2
  <2>8. IsCall(c3) /\ Also(c3, c2) /\ c3.got = c2.got /\ c3.after = c2.after
    BY <2>7 DEF IsCall
  <2> HIDE DEF c3
  <2>9. IsCall(c) /\ Also(c, c3) /\ c.got = c3.got /\ c.after = c3.after /\ c.pc = pc
    BY <2>8 DEF IsCall
  <2> HIDE DEF c
  <2>10. /\ IsCall(c) /\ Same(c, b) /\ c.through = TokenAfter(written, m)
         /\ c.after = TokenAfter(written, k) /\ c.got = written[k] /\ c.pc = pc
    BY <2>2, <2>4, <2>6, <2>7, <2>8, <2>9
  <2>11. ~c.broken
    BY <1>3, <2>6, <2>7, <2>8, <2>9, Zenon
  <2>12. /\ pc \in {"finish", "page"}
         /\ pc = "finish" => page.token = b.through
         /\ pc = "page" => page.token # b.through
    BY DEF pc
  <2>13. m \in c.floor..Len(written)
    BY <2>1, <2>10
  <2>14. ASSUME c.pc = "page" PROVE RestoreFits(s, c, written, journal.pins)
    <3>1. k # m
      BY <2>2, <2>4, <2>10, <2>12, <2>14
    <3>2. k \in 1..(m - 1)
      BY <2>3, <3>1
    <3>3. PICK p \in journal.pins : /\ p.owner = s /\ p.start.seq <= b.after.seq
                                    /\ b.through.seq <= p.through.seq
      BY <2>2
    <3>4. p.start.seq \in Nat
      BY <1>1 DEF TablesFit, Token
    <3>5. b.after.seq = n - 1 /\ c.after.seq = k - 1
      BY <1>1, <2>2, <2>3, <2>10, TokenFacts
    <3>6. p.start.seq <= c.after.seq
      BY <2>3, <3>3, <3>4, <3>5
    <3>7. c.through.seq <= p.through.seq
      BY <2>2, <2>10, <3>3
    <3> QED
      BY <2>10, <2>13, <3>2, <3>3, <3>6, <3>7, Zenon DEF RestoreFits
  <2>15. ASSUME c.pc = "finish"
         PROVE  \E o \in c.floor..Len(written) :
                    o > 0 /\ c.through = TokenAfter(written, o) /\ c.got = written[o]
    <3>1. k = m
      BY <1>1, <2>2, <2>3, <2>4, <2>10, <2>12, <2>15, TokensDiffer
    <3> QED
      BY <2>3, <2>10, <2>13, <3>1
  <2>16. c.pc \in {"finish", "page"} /\ c.pc \in {"page", "finish"}
    BY <2>10, <2>12
  <2>17. PlaceFits(s, c, cache[s], written, journal.pins)
    BY <2>11, <2>14, <2>15, <2>16 DEF PlaceFits
  <2> QED
    BY <1>5, <2>5, <2>10, <2>16, <2>17
<1>8. ASSUME NEW i \in 1..(ask[s].through.seq - ask[s].after.seq),
             NEW page, page = Replay(journal, ask[s].got, ask[s].after, i), NEW fits,
             ask' = [ask EXCEPT ![s] = IF fits
                 THEN [ask[s] EXCEPT !.got = page.mapper, !.after = page.token,
                                     !.replayed = ask[s].replayed + i,
                                     !.pc = IF page.token = ask[s].through
                                            THEN "finish" ELSE "page"]
                 ELSE [ask[s] EXCEPT !.broken = TRUE, !.pc = "finish"]]
      PROVE  JournalInv' /\ CellStep
  <2>1. CASE fits
    <3>1. ask' = [ask EXCEPT ![s] =
                 [ask[s] EXCEPT !.got = page.mapper, !.after = page.token,
                                !.replayed = ask[s].replayed + i,
                                !.pc = IF page.token = ask[s].through THEN "finish" ELSE "page"]]
      BY <1>8, <2>1, Zenon
    <3> QED
      BY <1>7, <1>8, <3>1
  <2>2. CASE ~fits
    <3>1. ask' = [ask EXCEPT ![s] = [ask[s] EXCEPT !.broken = TRUE, !.pc = "finish"]]
      BY <1>8, <2>2, Zenon
    <3>2. ask' = [ask EXCEPT ![s].broken = TRUE, ![s].pc = "finish"]
      BY <3>1
    <3> QED
      BY <1>6, <3>2
  <2> QED
    BY <2>1, <2>2
<1> QED
  BY <1>6, <1>8, Zenon DEF ReadPage

\* A restore ends, and the mapper it reached is at a head of the call.
LEMMA FinishRestoreFits ==
    ASSUME ConstantsFit, JournalInv, NEW s \in Server, FinishRestore(s)
    PROVE  JournalInv' /\ CellStep
<1>1. /\ ChainFits(written) /\ TablesFit(journal, written) /\ Len(written) \in Nat
      /\ Extends(written, written)
      /\ CallFits(s, ask[s], cache[s], written, journal.pins)
      /\ CacheFits(cache[s]) /\ ask[s].floor \in 0..Len(written)
      /\ cache = [cache EXCEPT ![s] = cache[s]]
  BY InvAt DEF CallFits
<1> DEFINE c == ask[s]
<1>2. c.pc = "finish" /\ UNCHANGED written /\ c.pc # "idle"
  BY DEF FinishRestore
<1>3. \/ /\ journal' = WithoutPin(journal, s) /\ Refuse(s) /\ UNCHANGED cache
      \/ /\ journal' = WithoutPin(journal, s) /\ ~c.broken
         /\ cache' = [cache EXCEPT ![s] = [token |-> c.through, mapper |-> c.got,
                                           since |-> c.replayed, pending |-> None]]
         /\ Decide(s, c.got)
      \/ /\ Refuse(s) /\ UNCHANGED cache
         /\ journal' \in {Orphaned(journal, s), WithoutPin(journal, s)}
  BY Zenon DEF FinishRestore
<1>4. /\ TablesFit(journal', written)
      /\ \A p \in journal.pins : p.owner # s => p \in journal'.pins
  <2>1. CASE journal' = WithoutPin(journal, s)
    BY <1>1, <2>1, UnpinFacts
  <2>2. CASE journal' = Orphaned(journal, s)
    BY <1>1, <2>2, OrphanFacts
  <2> QED
    BY <1>3, <2>1, <2>2
<1>5. CASE Refuse(s) /\ UNCHANGED cache
  BY <1>1, <1>2, <1>4, <1>5, ErrorFits
<1>6. CASE /\ ~c.broken
           /\ cache' = [cache EXCEPT ![s] = [token |-> c.through, mapper |-> c.got,
                                             since |-> c.replayed, pending |-> None]]
           /\ Decide(s, c.got)
  <2> DEFINE k == [token |-> c.through, mapper |-> c.got, since |-> c.replayed,
                   pending |-> None]
  <2>1. PICK m \in c.floor..Len(written) :
            m > 0 /\ c.through = TokenAfter(written, m) /\ c.got = written[m]
    BY <1>1, <1>2, <1>6 DEF CallFits, PlaceFits
  <2>2. m \in 0..Len(written) /\ c.got = HeldAfter(written, m)
    BY <1>1, <2>1 DEF HeldAfter
  <2>3. Names(c.through, c.got)
    BY <1>1, <2>1, <2>2, NamesHeld
  <2>4. cache' = [cache EXCEPT ![s] = k]
    BY <1>6
  <2>5. IsCache(k) /\ k.token = c.through /\ k.mapper = c.got /\ k.pending = None
    BY DEF IsCache
  <2> HIDE DEF k
  <2>6. CacheFits(k)
    BY <2>3, <2>5 DEF CacheFits
  <2>7. Decide(s, k.mapper) /\ k.token = TokenAfter(written, m) /\ k.mapper = HeldAfter(written, m)
    BY <1>6, <2>1, <2>2, <2>5
  <2>8. c.pc # "finish" \/ ~c.broken
    BY <1>6
  <2> QED
    BY <1>2, <1>4, <2>1, <2>4, <2>6, <2>7, <2>8, DecideFits
<1> QED
  BY <1>3, <1>5, <1>6, Zenon

-----------------------------------------------------------------------------
(* The write, and what follows it. *)

\* What the transaction of the write may do: nothing, find the write done, or
\* continue the chain.  v is the chain that it leaves.
Stores(s, r, v) ==
    /\ v = IF r.journal.head = journal.head THEN written ELSE Append(written, ask[s].candidate)
    /\ ChainFits(v) /\ Extends(v, written)
    /\ TablesFit(r.journal, v) /\ r.journal.pins = journal.pins
    /\ r.out # "error" =>
           \E n \in ask[s].floor..Len(v) : n > 0 /\ ask[s].candidate = v[n]
    /\ v # written => {ask[s].expected} = HeldSince(Len(written), written)

\* The ways in which a store leaves the tables.
LEMMA StoresFacts ==
    ASSUME ConstantsFit, JournalInv, NEW s \in Server, NEW r, NEW n \in 0..Len(written),
           ask[s].floor <= n, ask[s].expected = HeldAfter(written, n),
           ask[s].candidate \in Mapper, ask[s].candidate.rev = n,
           \/ r.out = "error" /\ r.journal = journal
           \/ /\ r.out = "already" /\ r.journal = journal /\ n < Len(written)
              /\ written[n + 1] = ask[s].candidate
           \/ /\ r.out = "applied" /\ n = Len(written) /\ r.journal.head # journal.head
              /\ TablesFit(r.journal, Append(written, ask[s].candidate))
              /\ r.journal.pins = journal.pins
    PROVE  \E v : Stores(s, r, v)
<1> DEFINE x == ask[s].candidate
<1>1. /\ ChainFits(written) /\ TablesFit(journal, written) /\ Len(written) \in Nat
      /\ Extends(written, written) /\ ask[s].floor \in 0..Len(written)
  BY InvAt DEF CallFits
<1> HIDE DEF x
<1>2. CASE r.out = "error" /\ r.journal = journal
  <2>1. Stores(s, r, written)
    BY <1>1, <1>2 DEF Stores
  <2> QED
    BY <2>1
<1>3. CASE r.out = "already" /\ r.journal = journal /\ n < Len(written) /\ written[n + 1] = x
  <2>1. n + 1 \in ask[s].floor..Len(written) /\ n + 1 > 0
    BY <1>1, <1>3
  <2>2. Stores(s, r, written)
    BY <1>1, <1>3, <2>1 DEF Stores, x
  <2> QED
    BY <2>2
<1>4. CASE /\ r.out = "applied" /\ n = Len(written) /\ r.journal.head # journal.head
           /\ TablesFit(r.journal, Append(written, x)) /\ r.journal.pins = journal.pins
  <2> DEFINE v == Append(written, x)
  <2>1. /\ ChainFits(v) /\ Extends(v, written) /\ Len(v) = n + 1 /\ v[n + 1] = x
    BY <1>1, <1>4, AppendExtends DEF x
  <2>2. TablesFit(r.journal, v) /\ v = Append(written, ask[s].candidate)
    BY <1>4 DEF x
  <2> HIDE DEF v
  <2>3. n + 1 \in ask[s].floor..Len(v) /\ n + 1 > 0
    BY <1>1, <2>1
  <2>4. {ask[s].expected} = HeldSince(Len(written), written)
    <3>1. Len(written) \in 0..Len(written) /\ \A i \in Len(written)..Len(written) : i = n
      BY <1>1, <1>4
    <3>2. HeldSince(Len(written), written)
              = {HeldAfter(written, i) : i \in Len(written)..Len(written)}
      BY <1>1, <3>1, HeldFacts
    <3>3. n \in Len(written)..Len(written)
      BY <1>1, <1>4
    <3> QED
      BY <3>1, <3>2, <3>3
  <2>5. v = IF r.journal.head = journal.head THEN written ELSE Append(written, ask[s].candidate)
    BY <1>4, <2>2, Zenon
  <2>6. \E i \in ask[s].floor..Len(v) : i > 0 /\ ask[s].candidate = v[i]
    BY <2>1, <2>3 DEF x
  <2>7. Stores(s, r, v)
    BY <1>4, <2>1, <2>2, <2>4, <2>5, <2>6, Zenon DEF Stores
  <2> QED
    BY <2>7
<1> QED
  BY <1>2, <1>3, <1>4 DEF x

\* A transaction gives tables and an outcome.
LEMMA InstallShape ==
    ASSUME NEW j, NEW expected, NEW checkpoint,
           NEW r, r = InstallCheckpoint(j, expected, checkpoint)
    PROVE  r = [journal |-> r.journal, out |-> r.out]
<1> DEFINE IsResult(o) == \E q, out : o = [journal |-> q, out |-> out]
<1>1. ASSUME NEW q, NEW out PROVE IsResult([journal |-> q, out |-> out])
  OBVIOUS
<1>2. \A out : IsResult(Unchanged(j, out))
  BY DEF Unchanged
<1> HIDE DEF IsResult
<1>3. IsResult(InstallCheckpoint(j, expected, checkpoint))
  BY <1>1, <1>2, Zenon DEF InstallCheckpoint
<1>4. PICK q, out : r = [journal |-> q, out |-> out]
  BY <1>3 DEF IsResult
<1> QED
  BY <1>4

\* The token of the first checkpoint names the empty mapper.
LEMMA BootstrapNames ==
    BootstrapToken(Empty) # Genesis /\ Names(BootstrapToken(Empty), Empty)
<1> DEFINE h == <<Empty>>
<1>1. Empty \in Mapper /\ Empty.rev = 0
  BY DEF Empty, Mapper
<1>2. h \in Seq(Mapper) /\ Len(h) = 1 /\ h[1] = Empty /\ h # <<>>
  BY <1>1
<1> HIDE DEF h
<1> DEFINE t == [seq |-> 0, rev |-> 0, hash |-> h]
<1>3. t \in Token /\ t.hash = h /\ t.seq = 0 /\ t.rev = 0
  BY <1>2 DEF Token
<1>4. BootstrapToken(Empty) = t
  BY <1>1, Zenon DEF BootstrapToken, h
<1>5. t # Genesis
  BY <1>2, <1>3 DEF Genesis
<1> HIDE DEF t
<1>6. Names(t, Empty)
  <2>1. Len(h) - 1 = 0 /\ h[Len(h)] = Empty
    BY <1>2
  <2>2. t.hash # <<>>
    BY <1>2, <1>3, Zenon
  <2>3. t.seq = Len(t.hash) - 1 /\ Empty = t.hash[Len(t.hash)]
    BY <1>3, <2>1, Zenon
  <2>4. t.rev = t.seq /\ Empty.rev = t.rev
    BY <1>1, <1>3
  <2> QED
    BY <1>3, <2>2, <2>3, <2>4, Zenon DEF Names
<1> QED
  BY <1>4, <1>5, <1>6

\* The transaction of the write, and the token that it leads to.
LEMMA StoreFacts ==
    ASSUME ConstantsFit, JournalInv, NEW s \in Server, ask[s].pc = "write"
    PROVE  /\ \E v : Stores(s, Store(s), v)
           /\ NextToken(s) # Genesis /\ Names(NextToken(s), ask[s].candidate)
           /\ ask[s].candidate \in Mapper
<1> DEFINE x == ask[s].candidate
<1>1. /\ ChainFits(written) /\ TablesFit(journal, written) /\ Len(written) \in Nat
      /\ ask[s].floor \in 0..Len(written)
      /\ CallFits(s, ask[s], cache[s], written, journal.pins)
      /\ CacheFits(cache[s]) /\ Follows(ask[s].expected, x)
  BY InvAt DEF CallFits
<1>2. PICK n \in ask[s].floor..Len(written) : cache[s].token = TokenAfter(written, n)
  BY <1>1 DEF CallFits, PlaceFits
<1>3. cache[s].mapper = ask[s].expected
  BY <1>1 DEF CallFits, PlaceFits
<1>4. n \in 0..Len(written) /\ ask[s].floor <= n /\ n \in Nat
  BY <1>1
<1>5. TokenAfter(written, n) \in Token /\ n = 0 => TokenAfter(written, n) = Genesis
  BY <1>1, <1>4, TokenFacts
<1>6. cache[s].token # None
  BY <1>1, <1>2, <1>4, TokenFacts DEF ConstantsFit
<1>7. Names(cache[s].token, cache[s].mapper)
  BY <1>1, <1>6 DEF CacheFits
<1>8. cache[s].mapper = HeldAfter(written, n)
  BY <1>1, <1>2, <1>4, <1>7, NamesHeld
<1>9. HeldAfter(written, n) = None <=> n = 0
  BY <1>1, <1>4, HeldFacts
<1>10. CASE cache[s].mapper = None
  <2>1. n = 0 /\ x = Empty
    BY <1>1, <1>3, <1>8, <1>9, <1>10 DEF Follows
  <2>2. Empty \in Mapper /\ Empty.rev = 0 /\ Empty.rev = n
    BY <2>1 DEF Empty, Mapper
  <2> DEFINE i == InstallCheckpoint(journal, None, [at |-> BootstrapToken(Empty), state |-> Empty])
             r == [i EXCEPT !.out = IF @ = "already" THEN "applied" ELSE @]
  <2>3. Store(s) = r
    BY <1>10, <2>1, Zenon DEF Store
  <2>4. PICK o : o = i
    OBVIOUS
  <2>5. \/ o.out = "error" /\ o.journal = journal
        \/ o.out = "already" /\ o.journal = journal /\ Len(written) > 0 /\ written[1] = Empty
        \/ /\ o.out = "applied" /\ Len(written) = 0 /\ o.journal.head # journal.head
           /\ TablesFit(o.journal, Append(written, Empty)) /\ o.journal.pins = journal.pins
    BY <1>1, <2>4, BootstrapFacts
  <2>6. o = [journal |-> o.journal, out |-> o.out]
    BY <2>4, InstallShape
  <2> DEFINE q == [o EXCEPT !.out = IF o.out = "already" THEN "applied" ELSE o.out]
  <2>7. r = q
    BY <2>4
  <2>8. q.journal = o.journal /\ (q.out = "error" <=> o.out = "error")
    BY <2>6
  <2> HIDE DEF i, r, q
  <2>9. \E v : Stores(s, o, v)
    <3>1. /\ ask[s].floor <= n /\ ask[s].expected = HeldAfter(written, n)
          /\ ask[s].candidate = Empty /\ n + 1 = 1 /\ n = 0
      BY <1>3, <1>4, <1>8, <2>1
    <3>2. \/ o.out = "error" /\ o.journal = journal
          \/ /\ o.out = "already" /\ o.journal = journal /\ n < Len(written)
             /\ written[n + 1] = ask[s].candidate
          \/ /\ o.out = "applied" /\ n = Len(written) /\ o.journal.head # journal.head
             /\ TablesFit(o.journal, Append(written, ask[s].candidate))
             /\ o.journal.pins = journal.pins
      BY <2>5, <3>1
    <3>3. ask[s].candidate \in Mapper /\ ask[s].candidate.rev = n
      BY <2>2, <3>1
    <3> QED
      BY <1>4, <3>1, <3>2, <3>3, StoresFacts
  <2>10. \E v : Stores(s, q, v)
    BY <2>8, <2>9 DEF Stores
  <2>11. NextToken(s) = BootstrapToken(Empty)
    BY <1>10, <2>1, Zenon DEF NextToken
  <2>12. BootstrapToken(Empty) # Genesis /\ Names(BootstrapToken(Empty), Empty)
    BY BootstrapNames
  <2> QED
    BY <2>1, <2>2, <2>3, <2>7, <2>10, <2>11, <2>12
<1>11. CASE cache[s].mapper # None
  <2>1. n \in 1..Len(written) /\ cache[s].mapper = written[n] /\ n > 0
    BY <1>4, <1>8, <1>9, <1>11 DEF HeldAfter
  <2>2. written[n] \in Mapper /\ written[n].rev = n - 1 /\ ask[s].expected = written[n]
    BY <1>1, <1>3, <2>1, ChainFacts
  <2>3. x \in Mapper /\ x.rev = written[n].rev + 1 /\ x.rev = n
    BY <1>1, <1>3, <1>4, <1>11, <2>2 DEF Follows
  <2> DEFINE t == TokenAfter(written, n)
             d == DeltaFor(t, written[n], written[n], x)
  <2>4. Store(s) = AppendDelta(journal, d)
    BY <1>2, <1>11, <2>1, <2>2, Zenon DEF Store
  <2>5. NextToken(s) = TokenOf(d)
    BY <1>2, <1>11, <2>1, <2>2, Zenon DEF NextToken
  <2>6. Names(t, written[n])
    BY <1>2, <1>7, <2>1
  <2>7. TokenOf(d) # Genesis /\ Names(TokenOf(d), x)
    BY <2>2, <2>3, <2>6, SuccessorFacts
  <2>8. PICK r : r = AppendDelta(journal, d)
    OBVIOUS
  <2>9. \/ r.out = "error" /\ r.journal = journal
        \/ /\ r.out = "already" /\ r.journal = journal /\ n < Len(written)
           /\ written[n + 1] = x
        \/ /\ r.out = "applied" /\ n = Len(written) /\ r.journal.head # journal.head
           /\ TablesFit(r.journal, Append(written, x)) /\ r.journal.pins = journal.pins
    BY <1>1, <2>1, <2>3, <2>8, AppendDeltaFacts
  <2> HIDE DEF d
  <2>10. \E v : Stores(s, r, v)
    BY <1>3, <1>4, <1>8, <2>3, <2>9, StoresFacts DEF x
  <2> QED
    BY <2>3, <2>4, <2>5, <2>7, <2>8, <2>10
<1> QED
  BY <1>10, <1>11

\* What is known of a call that writes, or follows a write.
LEMMA CasFacts ==
    ASSUME JournalInv, NEW s \in Server,
           ask[s].pc \in {"write", "rotate", "install", "covered", "collect"}
    PROVE  /\ IsCall(ask[s]) /\ IsCache(cache[s]) /\ CacheFits(cache[s])
           /\ ask[s].kind = "cas" /\ ~ask[s].broken
           /\ ask[s].floor \in 0..Len(written)
           /\ Follows(ask[s].expected, ask[s].candidate)
           /\ ask[s].pc # "write" =>
                  /\ cache[s].mapper # None /\ cache[s].token # None
                  /\ \E n \in ask[s].floor..Len(written) :
                         n > 0 /\ ask[s].candidate = written[n]
           /\ ask[s].pc # "idle"
<1>1. CallFits(s, ask[s], cache[s], written, journal.pins)
  BY InvAt
<1> QED
  BY <1>1 DEF CallFits, PlaceFits, CacheFits

\* A compare-and-swap whose candidate is on the chain may report that it was
\* applied.
LEMMA DoneFits ==
    ASSUME ConstantsFit, JournalInv, NEW s \in Server, NEW k, CacheFits(k),
           cache' = [cache EXCEPT ![s] = k],
           ChainFits(written'), Extends(written', written), TablesFit(journal', written'),
           journal'.pins = journal.pins, Done(s),
           NEW n \in ask[s].floor..Len(written'), n > 0, ask[s].candidate = written'[n],
           written' # written =>
               ask[s].pc = "write" /\ {ask[s].expected} = HeldSince(Len(written), written)
    PROVE  JournalInv' /\ CellStep
<1>1. ask[s].floor \in 0..Len(written) /\ Len(written) \in Nat
  BY InvAt DEF CallFits
<1>2. Len(written') \in Nat /\ Len(written) <= Len(written')
  BY ChainFacts DEF Extends
<1>3. ask[s].floor \in 0..Len(written')
  BY <1>1, <1>2
<1>4. ask[s].candidate \in HeldSince(ask[s].floor, written')
  BY <1>3, HeldFacts
<1>5. Return(s, "done", ask[s].candidate, FALSE)
  BY Zenon DEF Done
<1> QED
  BY <1>4, <1>5, AnswerFits

\* A compare-and-swap that goes on to look after the checkpoints.
LEMMA RotateFits ==
    ASSUME JournalInv, NEW s \in Server, NEW k, k.mapper # None, k.token # None, CacheFits(k),
           NEW c, IsCall(c), c.kind = "cas", ~c.broken, c.floor = ask[s].floor,
           c.expected = ask[s].expected, c.candidate = ask[s].candidate,
           c.pc \in {"rotate", "install", "covered", "collect"},
           NEW w, Len(w) \in Nat, Len(written) <= Len(w),
           NEW n \in ask[s].floor..Len(w), n > 0, ask[s].candidate = w[n], NEW pins
    PROVE  CallFits(s, c, k, w, pins)
<1>1. /\ ask[s].floor \in 0..Len(written) /\ Len(written) \in Nat
      /\ Follows(ask[s].expected, ask[s].candidate)
  BY InvAt DEF CallFits
<1>2. c.floor \in 0..Len(w) /\ Follows(c.expected, c.candidate)
  BY <1>1
<1>3. \E i \in c.floor..Len(w) : i > 0 /\ c.candidate = w[i]
  OBVIOUS
<1>4. PlaceFits(s, c, k, w, pins)
  BY <1>3 DEF PlaceFits
<1> QED
  BY <1>2, <1>4 DEF CallFits

\* The write of a compare-and-swap.
LEMMA WriteFits ==
    ASSUME ConstantsFit, JournalInv, NEW s \in Server, Write(s)
    PROVE  JournalInv' /\ CellStep
<1> DEFINE r == Store(s)
<1>1. ask[s].pc = "write"
  BY DEF Write
<1>2. /\ ChainFits(written) /\ TablesFit(journal, written) /\ Len(written) \in Nat
      /\ Extends(written, written) /\ cache = [cache EXCEPT ![s] = cache[s]]
      /\ knows \in [Server -> Mapper \cup {None}]
  BY InvAt DEF JournalInv
<1>3. /\ IsCall(ask[s]) /\ IsCache(cache[s]) /\ CacheFits(cache[s])
      /\ ask[s].kind = "cas" /\ ~ask[s].broken /\ ask[s].pc # "idle"
  BY <1>1, CasFacts
<1>4. /\ \E v : Stores(s, r, v)
      /\ NextToken(s) # Genesis /\ Names(NextToken(s), ask[s].candidate)
      /\ ask[s].candidate \in Mapper
  BY <1>1, StoreFacts
<1>5. PICK v : Stores(s, r, v)
  BY <1>4
<1>6. v = IF r.journal.head = journal.head THEN written ELSE Append(written, ask[s].candidate)
  BY <1>5 DEF Stores
<1> HIDE DEF r
<1>7. /\ ChainFits(v) /\ Extends(v, written) /\ Len(v) \in Nat /\ Len(written) <= Len(v)
      /\ TablesFit(r.journal, v) /\ r.journal.pins = journal.pins
      /\ r.out # "error" =>
             \E n \in ask[s].floor..Len(v) : n > 0 /\ ask[s].candidate = v[n]
      /\ v # written => {ask[s].expected} = HeldSince(Len(written), written)
  BY <1>5, ChainFacts DEF Stores, Extends
<1>8. \/ /\ r.out # "error" /\ journal' = r.journal /\ written' = v
         /\ cache' = [cache EXCEPT ![s] = CachedWrite(s, r.out)]
         /\ (Goto(s, "rotate") /\ UNCHANGED knows) \/ Done(s)
      \/ Refuse(s) /\ UNCHANGED <<journal, cache, written>>
      \/ /\ Unsure(s)
         /\ cache' = [cache EXCEPT ![s].pending = [token |-> NextToken(s),
                                                   mapper |-> ask[s].candidate]]
         /\ \/ journal' = r.journal /\ written' = v
            \/ UNCHANGED <<journal, written>>
  BY <1>6, Zenon DEF Write, r
<1>9. CASE /\ r.out # "error" /\ journal' = r.journal /\ written' = v
           /\ cache' = [cache EXCEPT ![s] = CachedWrite(s, r.out)]
           /\ (Goto(s, "rotate") /\ UNCHANGED knows) \/ Done(s)
  <2> DEFINE since == cache[s].since + (IF r.out = "applied" THEN 1 ELSE 0)
             k == [token |-> NextToken(s), mapper |-> ask[s].candidate, since |-> since,
                   pending |-> None]
  <2>1. CachedWrite(s, r.out) = k
    BY Zenon DEF CachedWrite
  <2> HIDE DEF since
  <2>2. /\ IsCache(k) /\ k.token = NextToken(s) /\ k.mapper = ask[s].candidate
        /\ k.pending = None
    BY DEF IsCache
  <2>3. cache' = [cache EXCEPT ![s] = k]
    BY <1>9, <2>1
  <2> HIDE DEF k
  <2>4. CacheFits(k)
    BY <1>4, <2>2 DEF CacheFits
  <2>5. PICK n \in ask[s].floor..Len(v) : n > 0 /\ ask[s].candidate = v[n]
    BY <1>7, <1>9
  <2>6. /\ ChainFits(written') /\ Extends(written', written) /\ TablesFit(journal', written')
        /\ journal'.pins = journal.pins
        /\ n \in ask[s].floor..Len(written') /\ n > 0 /\ ask[s].candidate = written'[n]
        /\ written' # written =>
               ask[s].pc = "write" /\ {ask[s].expected} = HeldSince(Len(written), written)
    BY <1>1, <1>7, <1>9, <2>5
  <2>7. CASE Done(s)
    BY <2>3, <2>4, <2>6, <2>7, DoneFits
  <2>8. CASE Goto(s, "rotate") /\ UNCHANGED knows
    <3> DEFINE c == [ask[s] EXCEPT !.pc = "rotate"]
    <3>1. ask' = [ask EXCEPT ![s] = c]
      BY <2>8 DEF Goto
    <3>2. /\ IsCall(c) /\ c.pc = "rotate" /\ c.kind = ask[s].kind /\ c.broken = ask[s].broken
          /\ c.floor = ask[s].floor
          /\ c.expected = ask[s].expected /\ c.candidate = ask[s].candidate
      BY <1>3 DEF IsCall
    <3> HIDE DEF c
    <3>3. ~c.broken /\ c.kind = "cas"
      BY <1>3, <3>2, Zenon
    <3>4. k.token # None /\ k.mapper # None
      BY <1>4, <2>2 DEF ConstantsFit, Names
    <3>5. c.pc \in {"rotate", "install", "covered", "collect"} /\ ~(c.pc = "idle")
      BY <3>2
    <3>6. CallFits(s, c, k, v, journal'.pins)
      BY <1>7, <2>4, <2>5, <3>2, <3>3, <3>4, <3>5, RotateFits
    <3>7. CallFits(s, c, k, written', journal'.pins)
      BY <1>9, <3>6
    <3>8. knows' \in [Server -> Mapper \cup {None}]
      BY <1>2, <2>8
    <3> QED
      BY <2>3, <2>6, <3>1, <3>5, <3>7, <3>8, StepKeeps
  <2> QED
    BY <1>9, <2>7, <2>8
<1>10. CASE Refuse(s) /\ UNCHANGED <<journal, cache, written>>
  BY <1>2, <1>3, <1>10, ErrorFits
<1>11. CASE /\ Unsure(s)
            /\ cache' = [cache EXCEPT ![s].pending = [token |-> NextToken(s),
                                                      mapper |-> ask[s].candidate]]
            /\ \/ journal' = r.journal /\ written' = v
               \/ UNCHANGED <<journal, written>>
  <2> DEFINE p == [token |-> NextToken(s), mapper |-> ask[s].candidate]
             k == [cache[s] EXCEPT !.pending = p]
  <2>1. cache' = [cache EXCEPT ![s] = k]
    BY <1>11
  <2>2. p.token = NextToken(s) /\ p.mapper = ask[s].candidate
    OBVIOUS
  <2> HIDE DEF p
  <2>3. IsCache(k) /\ k.token = cache[s].token /\ k.mapper = cache[s].mapper /\ k.pending = p
    BY <1>3 DEF IsCache
  <2> HIDE DEF k
  <2>4. CacheFits(k)
    BY <1>3, <1>4, <2>2, <2>3 DEF CacheFits
  <2>5. /\ ChainFits(written') /\ Extends(written', written) /\ TablesFit(journal', written')
        /\ journal'.pins = journal.pins
        /\ written' # written =>
               ask[s].pc = "write" /\ {ask[s].expected} = HeldSince(Len(written), written)
    BY <1>1, <1>2, <1>7, <1>11
  <2> QED
    BY <1>3, <1>11, <2>1, <2>4, <2>5, ErrorFits
<1> QED
  BY <1>8, <1>9, <1>10, <1>11

\* The manifest is read, and nothing else happens.
LEMMA ReadManifestFits ==
    ASSUME ConstantsFit, JournalInv, NEW s \in Server, ReadManifest(s)
    PROVE  JournalInv' /\ CellStep
<1>1. ask[s].pc \in {"rotate", "covered"} /\ UNCHANGED <<journal, cache, written>>
  BY DEF ReadManifest
<1>2. /\ ChainFits(written) /\ TablesFit(journal, written) /\ Len(written) \in Nat
      /\ Extends(written, written) /\ cache = [cache EXCEPT ![s] = cache[s]]
  BY InvAt
<1>3. /\ IsCall(ask[s]) /\ CacheFits(cache[s])
      /\ ask[s].kind = "cas" /\ ~ask[s].broken /\ ask[s].pc # "idle"
      /\ cache[s].mapper # None /\ cache[s].token # None
      /\ \E n \in ask[s].floor..Len(written) : n > 0 /\ ask[s].candidate = written[n]
  BY <1>1, CasFacts
<1>4. PICK n \in ask[s].floor..Len(written) : n > 0 /\ ask[s].candidate = written[n]
  BY <1>3
<1>5. CASE Done(s)
  BY <1>1, <1>2, <1>3, <1>4, <1>5, DoneFits
<1>6. ASSUME ask' = [ask EXCEPT ![s].manifest = ManifestOf(journal),
                                ![s].pc = IF @ = "rotate" THEN "install" ELSE "collect"],
             UNCHANGED knows
      PROVE  JournalInv' /\ CellStep
  <2> DEFINE pc == IF ask[s].pc = "rotate" THEN "install" ELSE "collect"
             c1 == [ask[s] EXCEPT !.manifest = ManifestOf(journal)]
             c == [c1 EXCEPT !.pc = pc]
             Same(p, q) == /\ p.kind = q.kind /\ p.floor = q.floor /\ p.broken = q.broken
                           /\ p.expected = q.expected /\ p.candidate = q.candidate
  <2>1. IsCall(c1) /\ Same(c1, ask[s]) /\ c1.pc = ask[s].pc
    BY <1>3 DEF IsCall
  <2>2. ask' = [ask EXCEPT ![s] = c]
    BY <1>6, <2>1
  <2> HIDE DEF c1
  <2>3. pc \in {"install", "collect"}
    OBVIOUS
  <2> HIDE DEF pc
  <2>4. IsCall(c) /\ Same(c, c1) /\ c.pc = pc
    BY <2>1 DEF IsCall
  <2> HIDE DEF c
  <2>5. ~c.broken /\ c.kind = "cas"
    BY <1>3, <2>1, <2>4, Zenon
  <2>6. /\ c.floor = ask[s].floor /\ c.expected = ask[s].expected
        /\ c.candidate = ask[s].candidate
        /\ c.pc \in {"rotate", "install", "covered", "collect"} /\ c.pc # "idle"
    BY <2>1, <2>3, <2>4
  <2>7. CallFits(s, c, cache[s], written, journal.pins)
    <3>1. IsCall(c) /\ Len(written) \in Nat /\ Len(written) <= Len(written)
      BY <1>2, <2>4
    <3> HIDE DEF Same
    <3> QED
      BY <1>3, <1>4, <2>5, <2>6, <3>1, RotateFits
  <2>8. CallFits(s, c, cache[s], written, journal'.pins)
    BY <1>1, <2>7
  <2> QED
    BY <1>1, <1>2, <1>6, <2>2, <2>6, <2>8, MoveFits
<1> QED
  BY <1>5, <1>6, Zenon DEF ReadManifest

\* The checkpoint of the cached mapper, on the chain or refused.
LEMMA InstallFits ==
    ASSUME ConstantsFit, JournalInv, NEW s \in Server, Install(s)
    PROVE  JournalInv' /\ CellStep
<1>1. ask[s].pc = "install" /\ UNCHANGED written
  BY DEF Install
<1>2. /\ ChainFits(written) /\ TablesFit(journal, written) /\ Len(written) \in Nat
      /\ Extends(written, written) /\ cache = [cache EXCEPT ![s] = cache[s]]
      /\ ask[s].floor \in 0..Len(written)
      /\ knows \in [Server -> Mapper \cup {None}]
  BY InvAt DEF CallFits, JournalInv
<1>3. /\ IsCall(ask[s]) /\ IsCache(cache[s]) /\ CacheFits(cache[s])
      /\ ask[s].kind = "cas" /\ ~ask[s].broken
      /\ cache[s].mapper # None /\ cache[s].token # None
      /\ \E n \in ask[s].floor..Len(written) : n > 0 /\ ask[s].candidate = written[n]
  BY <1>1, CasFacts
<1>4. PICK n \in ask[s].floor..Len(written) : n > 0 /\ ask[s].candidate = written[n]
  BY <1>3
<1>5. PICK r : r = InstallCheckpoint(journal, ask[s].manifest.active,
                                     [at |-> cache[s].token, state |-> cache[s].mapper])
  OBVIOUS
<1>6. Names(cache[s].token, cache[s].mapper) /\ Len(written) > 0
  BY <1>2, <1>3, <1>4 DEF CacheFits
<1>7. TablesFit(r.journal, written) /\ r.journal.pins = journal.pins
  BY <1>2, <1>3, <1>5, <1>6, InstallFacts
<1>8. \/ /\ r.out # "error" /\ journal' = r.journal
         /\ cache' = [cache EXCEPT ![s].since = 0]
         /\ Goto(s, "covered") /\ UNCHANGED knows
      \/ Done(s) /\ UNCHANGED cache /\ journal' \in {journal, r.journal}
  BY <1>5, Zenon DEF Install
<1>9. TablesFit(journal', written') /\ journal'.pins = journal.pins
  BY <1>1, <1>2, <1>7, <1>8
<1>10. CASE Done(s) /\ UNCHANGED cache
  BY <1>1, <1>2, <1>3, <1>4, <1>9, <1>10, DoneFits
<1>11. CASE /\ cache' = [cache EXCEPT ![s].since = 0]
            /\ Goto(s, "covered") /\ UNCHANGED knows
  <2> DEFINE k == [cache[s] EXCEPT !.since = 0]
             c == [ask[s] EXCEPT !.pc = "covered"]
  <2>1. cache' = [cache EXCEPT ![s] = k]
    BY <1>11
  <2>2. ask' = [ask EXCEPT ![s] = c]
    BY <1>11 DEF Goto
  <2>3. /\ IsCache(k) /\ k.token = cache[s].token /\ k.mapper = cache[s].mapper
        /\ k.pending = cache[s].pending
    BY <1>3 DEF IsCache
  <2> HIDE DEF k
  <2>4. CacheFits(k) /\ k.token # None /\ k.mapper # None
    BY <1>3, <2>3 DEF CacheFits
  <2>5. /\ IsCall(c) /\ c.pc = "covered" /\ c.kind = ask[s].kind /\ c.broken = ask[s].broken
        /\ c.floor = ask[s].floor
        /\ c.expected = ask[s].expected /\ c.candidate = ask[s].candidate
    BY <1>3 DEF IsCall
  <2> HIDE DEF c
  <2>6. ~c.broken /\ c.kind = "cas"
    BY <1>3, <2>5, Zenon
  <2>7. c.pc \in {"rotate", "install", "covered", "collect"} /\ ~(c.pc = "idle")
    BY <2>5
  <2>8. CallFits(s, c, k, written, journal'.pins)
    <3>1. IsCall(c) /\ c.floor = ask[s].floor /\ c.expected = ask[s].expected
          /\ c.candidate = ask[s].candidate
      BY <2>5
    <3>2. Len(written) \in Nat /\ Len(written) <= Len(written)
      BY <1>2
    <3> QED
      BY <1>3, <1>4, <2>4, <2>6, <2>7, <3>1, <3>2, RotateFits
  <2>9. CallFits(s, c, k, written', journal'.pins)
    BY <1>1, <2>8
  <2>10. knows' \in [Server -> Mapper \cup {None}]
    BY <1>2, <1>11
  <2> QED
    BY <1>1, <1>2, <1>9, <2>1, <2>2, <2>7, <2>9, <2>10, StepKeeps
<1> QED
  BY <1>8, <1>10, <1>11

\* The collection.
LEMMA CollectKeeps ==
    ASSUME ConstantsFit, JournalInv, NEW s \in Server, Collect(s)
    PROVE  JournalInv' /\ CellStep
<1>1. ask[s].pc = "collect" /\ UNCHANGED <<cache, written>> /\ Done(s)
  BY DEF Collect
<1>2. /\ ChainFits(written) /\ TablesFit(journal, written)
      /\ Extends(written, written) /\ cache = [cache EXCEPT ![s] = cache[s]]
  BY InvAt
<1>3. /\ CacheFits(cache[s])
      /\ \E n \in ask[s].floor..Len(written) : n > 0 /\ ask[s].candidate = written[n]
  BY <1>1, CasFacts
<1>4. PICK n \in ask[s].floor..Len(written) : n > 0 /\ ask[s].candidate = written[n]
  BY <1>3
<1>5. /\ TablesFit(GarbageCollect(journal, ask[s].manifest).journal, written)
      /\ GarbageCollect(journal, ask[s].manifest).journal.pins = journal.pins
  BY <1>2, CollectFacts
<1>6. journal' \in {journal, GarbageCollect(journal, ask[s].manifest).journal}
  BY Zenon DEF Collect
<1>7. TablesFit(journal', written') /\ journal'.pins = journal.pins
  BY <1>1, <1>2, <1>5, <1>6
<1> QED
  BY <1>1, <1>2, <1>3, <1>4, <1>7, DoneFits

\* A call or a process that ends leaves its pin behind.
LEMMA EndFits ==
    ASSUME ConstantsFit, JournalInv, NEW s \in Server, Drop(s) \/ Crash(s)
    PROVE  JournalInv' /\ CellStep
<1>1. /\ ChainFits(written) /\ TablesFit(journal, written) /\ Len(written) \in Nat
      /\ Extends(written, written) /\ cache = [cache EXCEPT ![s] = cache[s]]
      /\ CacheFits(cache[s]) /\ knows \in [Server -> Mapper \cup {None}]
  BY InvAt DEF CallFits, JournalInv
<1>2. CacheFits(Fresh)
  BY DEF CacheFits, IsCache, Fresh
<1>3. /\ journal' = Orphaned(journal, s) /\ UNCHANGED written
      /\ ask' = [ask EXCEPT ![s] = Rest]
  BY DEF Drop, Crash
<1>4. PICK k : cache' = [cache EXCEPT ![s] = k] /\ CacheFits(k)
  BY <1>1, <1>2 DEF Drop, Crash
<1>5. knows' \in [Server -> Mapper \cup {None}]
  BY <1>1 DEF Drop, Crash
<1>6. /\ TablesFit(journal', written') /\ ChainFits(written') /\ Extends(written', written)
      /\ \A p \in journal.pins : p.owner # s => p \in journal'.pins
  BY <1>1, <1>3, OrphanFacts
<1>7. CallFits(s, Rest, k, written', journal'.pins)
  BY <1>1, <1>3, <1>4, RestFits
<1>8. Rest.answer = None /\ "read" # None /\ "done" # None
  BY DEF Rest, ConstantsFit
<1> QED
  BY <1>3, <1>4, <1>5, <1>6, <1>7, <1>8, StepKeeps

\* Nothing is stored at first.
LEMMA InitFits == ASSUME ConstantsFit, Init PROVE JournalInv
<1>1. written = <<>> /\ written \in Seq(Mapper) /\ Len(written) = 0
  BY DEF Init
<1>2. ChainFits(written)
  BY <1>1 DEF ChainFits
<1>3. TokenAfter(written, 0) = Genesis
  BY DEF TokenAfter
<1>4. TablesFit(journal, written)
  <2>1. /\ Tables(journal) /\ journal.head = Genesis /\ journal.active = None
        /\ journal.retained = 1 /\ journal.deltas = {} /\ journal.known = {}
        /\ journal.compacted = {} /\ journal.pins = {}
    BY DEF Init, Tables
  <2>2. CheckpointFits(journal, written)
    BY <1>1, <2>1 DEF CheckpointFits
  <2> QED
    BY <1>1, <1>3, <2>1, <2>2 DEF TablesFit
<1>5. /\ cache = [s \in Server |-> Fresh] /\ ask = [s \in Server |-> Rest]
      /\ knows = [s \in Server |-> None]
  BY DEF Init
<1>6. CacheFits(Fresh)
  BY DEF CacheFits, IsCache, Fresh
<1>7. \A s \in Server : CallFits(s, Rest, Fresh, written, journal.pins)
  BY <1>1, <1>6, RestFits
<1>8. /\ \A s \in Server : ask[s] = Rest /\ cache[s] = Fresh
      /\ cache = [s \in Server |-> cache[s]] /\ ask = [s \in Server |-> ask[s]]
      /\ knows \in [Server -> Mapper \cup {None}]
  BY <1>5
<1> QED
  BY <1>2, <1>4, <1>7, <1>8 DEF JournalInv

\* Every step of a server keeps the invariant, and is one of the cell.
LEMMA NextKeeps ==
    ASSUME ConstantsFit, JournalInv, Next PROVE JournalInv' /\ CellStep
<1>1. PICK s \in Server : Ask(s) \/ Step(s) \/ Drop(s) \/ Crash(s)
  BY DEF Next
<1> QED
  BY <1>1, AskFits, LookFits, SyncFits, BeginRestoreFits, ReadPageFits, FinishRestoreFits,
     WriteFits, ReadManifestFits, InstallFits, CollectKeeps, EndFits DEF Step

\* What is stored is always the chain of the writes.
THEOREM JournalIsChain == ASSUME ConstantsFit PROVE Spec => []JournalInv
<1>1. Init => JournalInv
  BY InitFits
<1>2. JournalInv /\ [Next]_vars => JournalInv'
  <2>1. JournalInv /\ UNCHANGED vars => JournalInv'
    BY Zenon DEF JournalInv, vars
  <2> QED
    BY <2>1, NextKeeps
<1> QED
  BY <1>1, <1>2, PTL DEF Spec

\* The head is sound, checkpoint and tail give the last write, and every restore
\* under way finds its deltas.
LEMMA ChainHoldsLastWrite ==
    ASSUME ConstantsFit, JournalInv PROVE JournalHoldsLastWrite
<1>1. ChainFits(written) /\ TablesFit(journal, written)
  BY DEF JournalInv
<1>2. Sound(journal)
  BY <1>1, TablesSound
<1>3. Restorable = IF written = <<>> THEN None ELSE written[Len(written)]
  BY <1>1, RestorableHolds, ChainFacts DEF HeldAfter
<1>4. ASSUME NEW s \in Server, ask[s].pc = "page"
      PROVE  Replay(journal, ask[s].got, ask[s].after,
                    ask[s].through.seq - ask[s].after.seq).ok
  <2> DEFINE c == ask[s]
  <2>1. c.floor \in 0..Len(written) /\ RestoreFits(s, c, written, journal.pins)
    BY <1>4, InvAt DEF CallFits, PlaceFits
  <2>2. Reads(s, c, written, journal)
    BY <1>1, <2>1, PageFacts
  <2>3. PICK m \in c.floor..Len(written) : \E n \in 1..(m - 1) :
            /\ c.through.seq - c.after.seq = m - n
            /\ \A i \in 1..(m - n) : Replay(journal, c.got, c.after, i)
                   = [ok |-> TRUE, mapper |-> written[n + i], token |-> TokenAfter(written, n + i)]
    BY <2>2, Zenon DEF Reads
  <2>4. PICK n \in 1..(m - 1) :
            /\ c.through.seq - c.after.seq = m - n
            /\ \A i \in 1..(m - n) : Replay(journal, c.got, c.after, i)
                   = [ok |-> TRUE, mapper |-> written[n + i], token |-> TokenAfter(written, n + i)]
    BY <2>3
  <2>5. m - n \in 1..(m - n)
    BY <1>1, <2>1, ChainFacts
  <2>6. Replay(journal, c.got, c.after, c.through.seq - c.after.seq)
            = [ok |-> TRUE, mapper |-> written[n + (m - n)],
               token |-> TokenAfter(written, n + (m - n))]
    BY <2>4, <2>5, Zenon
  <2> QED
    BY <2>6
<1> QED
  BY <1>2, <1>3, <1>4 DEF JournalHoldsLastWrite

\* Checkpoints of a stale head, collections, retries and crashes never change what
\* the journal stands for.
THEOREM JournalHoldsWrites == ASSUME ConstantsFit PROVE Spec => []JournalHoldsLastWrite
<1>1. JournalInv => JournalHoldsLastWrite
  BY ChainHoldsLastWrite
<1> QED
  BY <1>1, JournalIsChain, PTL

\* The journal acts as one cell: a read returns what was held during the call, what
\* is reported as applied was held then too, and a write replaces exactly the mapper
\* that it expects.
THEOREM JournalIsOneCell == ASSUME ConstantsFit PROVE Spec => ActsAsOneCell
<1>1. JournalInv /\ [Next]_vars => [CellStep]_vars
  BY NextKeeps
<1>2. [][CellStep]_vars => ActsAsOneCell
  BY PTL DEF ActsAsOneCell, CellStep
<1> QED
  BY <1>1, <1>2, JournalIsChain, PTL DEF Spec
=============================================================================
