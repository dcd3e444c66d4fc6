----------------------------- MODULE FoldProofs -----------------------------
(***************************************************************************)
(* Proofs about the models that fold a set or a sequence, with the lemmas  *)
(* that make a fold something to reason about:                             *)
(*                                                                         *)
(*   SinkChain, for any number of pollers and feeds, any number of         *)
(*   refusals by the store, any share rule and any clock;                  *)
(*   BoundaryRules, for any rules and any measured plan;                   *)
(*   LoopBreaker, for any calls, edits, windows, periods and log sizes.    *)
(*                                                                         *)
(* A fold of the community modules chooses a recursive function on the     *)
(* subsets of its domain.  FoldExists shows that there is one, so that the *)
(* chosen one satisfies its own equation; a fold is then reasoned about    *)
(* one member at a time, by a least counterexample.                        *)
(***************************************************************************)
EXTENDS SinkChain, BoundaryRules, LoopBreaker, SequenceTheorems, FiniteSetTheorems,
        WellFoundedInduction, TLAPS

-----------------------------------------------------------------------------
(***************************************************************************)
(* Numbers.                                                                *)
(***************************************************************************)

\* A set of numbers has a least member.
LEMMA LeastNat == \A T \in SUBSET Nat : T # {} => \E m \in T : \A k \in T : m <= k
PROOF
<1> SUFFICES ASSUME NEW T \in SUBSET Nat, T # {} PROVE \E m \in T : \A k \in T : m <= k
  OBVIOUS
<1> DEFINE R == {ss \in Nat \X Nat : ss[1] < ss[2]}
<1>1. IsWellFoundedOn(R, Nat)
  BY NatLessThanWellFounded DEF OpToRel
<1> HIDE DEF R
<1>2. PICK m \in T : \A k \in T : ~(<<k, m>> \in R)
  BY <1>1, WFMin
<1>3. ASSUME NEW k \in T PROVE m <= k
  <2>1. <<k, m>> \in R <=> k < m
    BY DEF R
  <2> QED BY <1>2, <2>1
<1> QED BY <1>3

\* Division with remainder.
LEMMA DivMod ==
  ASSUME NEW t \in Nat, NEW n \in Nat \ {0}
  PROVE  \E q \in Nat, r \in 0 .. n - 1 : q = t \div n /\ r = t % n /\ t = q * n + r
PROOF
<1> DEFINE q == t \div n
           r == t % n
<1>1. t \div n \in Int /\ t \div n >= 0
  OBVIOUS
<1>2. t % n \in 0 .. n - 1
  OBVIOUS
<1>3. q \in Nat /\ r \in 0 .. n - 1 /\ q = t \div n /\ r = t % n
  BY <1>1, <1>2
<1> HIDE DEF q, r
<1>4. t = q * n + r
  BY <1>3
<1> QED BY <1>3, <1>4

\* Multiples of n are n apart.
LEMMA Apart ==
  ASSUME NEW a \in Nat, NEW b \in Nat, NEW n \in Nat \ {0}, a < b
  PROVE  a * n + n <= b * n
PROOF
<1> DEFINE k == b - a - 1
<1>1. k \in Nat /\ b = a + 1 + k
  OBVIOUS
<1> HIDE DEF k
<1>2. b * n = a * n + n + k * n
  BY <1>1
<1>3. k * n >= 0 /\ k * n \in Int /\ a * n \in Int
  BY <1>1
<1> QED BY <1>2, <1>3

\* It is unique.
LEMMA DivUnique ==
  ASSUME NEW n \in Nat \ {0}, NEW q \in Nat, NEW r \in 0 .. n - 1, NEW p \in Nat, NEW s \in 0 .. n - 1,
         q * n + r = p * n + s
  PROVE  q = p /\ r = s
PROOF
<1>1. ~(q < p)
  BY Apart
<1>2. ~(p < q)
  BY Apart
<1> QED BY <1>1, <1>2

-----------------------------------------------------------------------------
(***************************************************************************)
(* Folds.                                                                  *)
(***************************************************************************)

\* The subsets of S with at most n members.
Small(S, n) == {s \in SUBSET S : Cardinality(s) <= n}

\* f folds the sets of D: base for the empty one, and for another what G makes
\* of the member pick takes from it and of the fold of the rest.
IsFold(f, D, V, base, pick, G) ==
  /\ f \in [D -> V]
  /\ \A s \in D : f[s] = IF s = {} THEN base ELSE G[<<pick[s], f[s \ {pick[s]}]>>]

\* Taking a member from a set leaves one less.
LEMMA OneLess ==
  ASSUME NEW S, IsFiniteSet(S), NEW n \in Nat, NEW s \in Small(S, n), NEW x \in s
  PROVE  n > 0 /\ s \ {x} \in Small(S, n - 1)
<1>1. s \in SUBSET S /\ Cardinality(s) <= n
  BY DEF Small
<1>2. IsFiniteSet(s)
  BY <1>1, FS_Subset
<1>3. Cardinality(s) \in Nat /\ Cardinality(s \ {x}) = Cardinality(s) - 1
      /\ Cardinality(s \ {x}) \in Nat
  BY <1>2, FS_RemoveElement, FS_CardinalityType, FS_Subset
<1> QED BY <1>1, <1>3 DEF Small

\* Every fold over the subsets of a finite set has a function that computes it.
LEMMA FoldExists ==
  ASSUME NEW S, IsFiniteSet(S), NEW V, NEW base \in V, NEW pick, NEW G \in [S \X V -> V],
         \A s \in SUBSET S : s # {} => pick[s] \in s
  PROVE  \E f : IsFold(f, SUBSET S, V, base, pick, G)
<1> DEFINE T == {n \in Nat : ~\E f : IsFold(f, Small(S, n), V, base, pick, G)}
<1>1. T = {}
  <2> SUFFICES ASSUME T # {} PROVE FALSE
    OBVIOUS
  <2>1. PICK n \in T : \A k \in T : n <= k
    BY LeastNat
  <2>2. n \in Nat /\ ~\E f : IsFold(f, Small(S, n), V, base, pick, G)
    OBVIOUS
  <2>3. CASE n = 0
    <3> DEFINE f == [s \in Small(S, 0) |-> base]
    <3>1. ASSUME NEW s \in Small(S, 0) PROVE s = {}
      <4>1. ASSUME NEW x \in s PROVE FALSE
        <5>1. 0 > 0
          BY OneLess, 0 \in Nat
        <5> QED BY <5>1
      <4> QED BY <4>1
    <3>2. IsFold(f, Small(S, 0), V, base, pick, G)
      BY <3>1 DEF IsFold
    <3> QED BY <2>2, <2>3, <3>2
  <2>4. CASE n # 0
    <3>1. n - 1 \in Nat /\ n - 1 \notin T
      BY <2>1, <2>2, <2>4
    <3>2. PICK g : IsFold(g, Small(S, n - 1), V, base, pick, G)
      BY <3>1
    <3> DEFINE f == [s \in Small(S, n) |-> IF s = {} THEN base ELSE G[<<pick[s], g[s \ {pick[s]}]>>]]
    <3> HIDE DEF T
    <3>3. ASSUME NEW s \in Small(S, n), s # {}
          PROVE  /\ pick[s] \in s /\ pick[s] \in S
                 /\ s \ {pick[s]} \in Small(S, n - 1) /\ g[s \ {pick[s]}] \in V
      <4>1. s \in SUBSET S
        BY DEF Small
      <4>2. pick[s] \in s /\ pick[s] \in S
        BY <3>3, <4>1
      <4>3. s \ {pick[s]} \in Small(S, n - 1)
        BY <2>2, <4>2, OneLess
      <4> QED BY <3>2, <4>2, <4>3 DEF IsFold
    <3>4. f \in [Small(S, n) -> V]
      BY <3>3
    <3>5. ASSUME NEW s \in Small(S, n - 1) PROVE s \in Small(S, n) /\ f[s] = g[s]
      <4>1. s \in Small(S, n)
        <5>1. s \in SUBSET S /\ Cardinality(s) <= n - 1
          BY DEF Small
        <5>2. Cardinality(s) \in Nat
          BY <5>1, FS_Subset, FS_CardinalityType
        <5> QED BY <2>2, <5>1, <5>2 DEF Small
      <4> QED BY <3>2, <4>1 DEF IsFold
    <3>6. ASSUME NEW s \in Small(S, n)
          PROVE  f[s] = IF s = {} THEN base ELSE G[<<pick[s], f[s \ {pick[s]}]>>]
      BY <3>3, <3>5
    <3> HIDE DEF f
    <3>7. IsFold(f, Small(S, n), V, base, pick, G)
      BY <3>4, <3>6 DEF IsFold
    <3> QED BY <2>2, <3>7
  <2> QED BY <2>3, <2>4
<1>2. Cardinality(S) \in Nat
  BY FS_CardinalityType
<1>3. Small(S, Cardinality(S)) = SUBSET S
  BY FS_Subset DEF Small
<1>4. PICK f : IsFold(f, Small(S, Cardinality(S)), V, base, pick, G)
  BY <1>1, <1>2
<1> QED BY <1>3, <1>4

\* What Max takes from a set of positions.
LEMMA MaxOfPositions ==
  ASSUME NEW n \in Nat, NEW s \in SUBSET (1 .. n), s # {}
  PROVE  Max(s) \in s /\ \A y \in s : Max(s) >= y
<1> DEFINE T == {n - x : x \in s}
<1>1. T \in SUBSET Nat /\ T # {}
  <2>1. \A x \in s : n - x \in Nat
    OBVIOUS
  <2>2. PICK x \in s : TRUE
    OBVIOUS
  <2>3. n - x \in T
    BY <2>2
  <2> QED BY <2>1, <2>3
<1>2. PICK m \in T : \A k \in T : m <= k
  BY <1>1, LeastNat
<1>3. PICK x \in s : m = n - x
  OBVIOUS
<1>4. ASSUME NEW y \in s PROVE x >= y
  <2>1. n - y \in T
    OBVIOUS
  <2> HIDE DEF T
  <2> QED BY <1>2, <1>3, <2>1
<1>5. \E z \in s : \A y \in s : z >= y
  BY <1>4
<1> HIDE DEF T
<1> QED BY <1>5 DEF Max

\* Max of an initial stretch is its end.
LEMMA MaxOfAll ==
  ASSUME NEW n \in Nat \ {0}
  PROVE  Max(1 .. n) = n /\ (1 .. n) \ {n} = 1 .. n - 1
<1>1. n \in 1 .. n /\ 1 .. n # {} /\ 1 .. n \in SUBSET (1 .. n)
  OBVIOUS
<1>2. Max(1 .. n) \in 1 .. n /\ Max(1 .. n) >= n
  BY <1>1, MaxOfPositions
<1> QED BY <1>2

\* f computes FoldLeft over n positions: a set of them is folded from its last
\* position back.
IsLeftFold(f, n, V, base, G) ==
  /\ f \in [SUBSET (1 .. n) -> V]
  /\ \A s \in SUBSET (1 .. n) :
       f[s] = IF s = {} THEN base ELSE G[<<Max(s), f[s \ {Max(s)}]>>]

\* There is such a function.
LEMMA LeftFoldExists ==
  ASSUME NEW n \in Nat, NEW V, NEW base \in V, NEW G \in [(1 .. n) \X V -> V]
  PROVE  \E f : IsLeftFold(f, n, V, base, G)
<1> DEFINE pick == [s \in SUBSET (1 .. n) |-> Max(s)]
<1>1. IsFiniteSet(1 .. n)
  BY FS_Interval
<1>2. ASSUME NEW s \in SUBSET (1 .. n), s # {} PROVE pick[s] \in s
  BY <1>2, MaxOfPositions
<1>3. \A s \in SUBSET (1 .. n) : pick[s] = Max(s)
  OBVIOUS
<1> HIDE DEF pick
<1>4. PICK f : IsFold(f, SUBSET (1 .. n), V, base, pick, G)
  BY <1>1, <1>2, FoldExists
<1>5. IsLeftFold(f, n, V, base, G)
  BY <1>3, <1>4 DEF IsFold, IsLeftFold
<1> QED BY <1>5

-----------------------------------------------------------------------------
(***************************************************************************)
(* Sequences as sets.                                                      *)
(***************************************************************************)

\* ToSet of a sequence, by its positions.
LEMMA ToSetSeq ==
  ASSUME NEW S, NEW s \in Seq(S)
  PROVE  ToSet(s) = {s[i] : i \in 1 .. Len(s)} /\ ToSet(s) \subseteq S
<1>1. DOMAIN s = 1 .. Len(s) /\ \A i \in 1 .. Len(s) : s[i] \in S
  BY LenProperties
<1> QED BY <1>1 DEF ToSet

\* A sequence that gets one element more.
LEMMA ToSetAppend ==
  ASSUME NEW S, NEW s \in Seq(S), NEW e \in S
  PROVE  ToSet(Append(s, e)) = ToSet(s) \cup {e}
<1>1. /\ Append(s, e) \in Seq(S) /\ Len(Append(s, e)) = Len(s) + 1 /\ Len(s) \in Nat
      /\ \A i \in 1 .. Len(s) : Append(s, e)[i] = s[i]
      /\ Append(s, e)[Len(s) + 1] = e
  BY AppendProperties, LenProperties
<1>2. /\ ToSet(s) = {s[i] : i \in 1 .. Len(s)}
      /\ ToSet(Append(s, e)) = {Append(s, e)[i] : i \in 1 .. Len(Append(s, e))}
  BY <1>1, ToSetSeq
<1>3. 1 .. Len(s) + 1 = (1 .. Len(s)) \cup {Len(s) + 1}
  BY <1>1
<1> QED BY <1>1, <1>2, <1>3

\* A sequence without repetitions, taken apart.
LEMMA ToSetTail ==
  ASSUME NEW S, NEW s \in Seq(S), s # << >>
  PROVE  /\ Head(s) \in S /\ Tail(s) \in Seq(S)
         /\ ToSet(s) = ToSet(Tail(s)) \cup {Head(s)}
         /\ IsInjective(s) => IsInjective(Tail(s)) /\ Head(s) \notin ToSet(Tail(s))
<1>1. /\ Head(s) \in S /\ Tail(s) \in Seq(S) /\ Len(Tail(s)) = Len(s) - 1
      /\ \A i \in 1 .. Len(Tail(s)) : Tail(s)[i] = s[i + 1]
      /\ Head(s) = s[1] /\ Len(s) \in Nat \ {0}
  BY HeadTailProperties, EmptySeq
<1>2. /\ ToSet(s) = {s[i] : i \in 1 .. Len(s)} /\ DOMAIN s = 1 .. Len(s)
      /\ ToSet(Tail(s)) = {Tail(s)[i] : i \in 1 .. Len(Tail(s))}
      /\ DOMAIN Tail(s) = 1 .. Len(Tail(s))
  BY <1>1, ToSetSeq, LenProperties
<1>3. \A i \in 1 .. Len(s) : i = 1 \/ i - 1 \in 1 .. Len(Tail(s))
  BY <1>1
<1>4. \A i \in 1 .. Len(Tail(s)) : i + 1 \in 1 .. Len(s)
  BY <1>1
<1>5. ToSet(s) = ToSet(Tail(s)) \cup {Head(s)}
  <2>1. ASSUME NEW i \in 1 .. Len(s) PROVE s[i] \in ToSet(Tail(s)) \cup {Head(s)}
    <3>1. CASE i = 1
      BY <1>1, <3>1
    <3>2. CASE i # 1
      <4>1. i - 1 \in 1 .. Len(Tail(s))
        BY <1>3, <3>2
      <4>2. Tail(s)[i - 1] = s[i]
        BY <1>1, <4>1
      <4> QED BY <1>2, <4>1, <4>2
    <3> QED BY <3>1, <3>2
  <2>2. ASSUME NEW i \in 1 .. Len(Tail(s)) PROVE Tail(s)[i] \in ToSet(s)
    BY <1>1, <1>2, <1>4
  <2>3. Head(s) \in ToSet(s)
    BY <1>1, <1>2
  <2> QED BY <1>2, <2>1, <2>2, <2>3
<1>6. ASSUME IsInjective(s) PROVE IsInjective(Tail(s)) /\ Head(s) \notin ToSet(Tail(s))
  BY <1>1, <1>2, <1>4, <1>6 DEF IsInjective
<1> QED BY <1>1, <1>5, <1>6

-----------------------------------------------------------------------------
(***************************************************************************)
(* The invariants.                                                         *)
(***************************************************************************)

Errors == {"none", "contended", "failed"}

\* The ids of the events the daemon itself stored.
Added == StoredIds \ StoredAtBoot

Ahead(p) == ToSet(feed[p].todo)

\* Types; a publisher that waits has something to publish; no batch is held
\* between flushes.
ChainType ==
  /\ feed \in [DOMAIN Feeds -> [todo : Seq(Ids), asking : BOOLEAN]]
  /\ \A p \in DOMAIN Feeds : feed[p].asking => feed[p].todo # << >>
  /\ queue \in Seq(Ids) /\ InBatch \subseteq Ids
  /\ flush \in [at : {"idle", "store", "export", "decide"}, attempt : Nat, err : Errors]
  /\ flush.at = "idle" => InBatch = {}

\* The envelopes of a batch are as they were published, except those the sinks
\* share, which the exporter may have redacted.
OriginalInv ==
  StoreKeepsOriginals /\ \A e \in ToSet(batch) : e.redacted => e.id \in Unclonable

\* The snapshot names stored ids only, and an attempt without error has stored
\* the batch.
KeptInv ==
  /\ snapshot.ids \subseteq StoredIds
  /\ flush.at \in {"export", "decide"} /\ flush.err = "none"
       => InBatch \subseteq StoredIds \cup Malformed
  /\ reported \subseteq StoredIds \cup ToSet(queue) \cup InBatch \cup Malformed \cup dropped

\* The share rule has not refused for longer than its last answer is old.
GateInv ==
  /\ clock \in Nat
  /\ gate \in [checked : Int, held : BOOLEAN] /\ gate.checked <= clock
  /\ rule \in [refuses : BOOLEAN, since : Nat, edits : Nat] /\ rule.since <= clock
  /\ ~gate.held /\ rule.refuses => gate.checked <= rule.since
  /\ ExportIsAllowed

ChainActions ==
  \/ SnapshotRead \/ SnapshotFails
  \/ \E p \in DOMAIN Feeds : CallPublish(p) \/ Publisher(p)
  \/ Worker \/ Stop \/ EditRule \/ ChainTick

-----------------------------------------------------------------------------

\* Every step leaves the set-up alone, and is a stutter or one of the actions.
LEMMA Stepping ==
  ASSUME [ChainNext]_chainVars
  PROVE  chainSetup' = chainSetup /\ (UNCHANGED chainMoving \/ ChainActions)
BY DEF ChainNext, chainVars, ChainActions

\* The envelopes handed to the worker are those that waited.
LEMMA TakenIds ==
  ASSUME TakeBatch
  PROVE  /\ InBatch' = ToSet(queue)
         /\ \A e \in ToSet(batch') : ~e.redacted
<1>1. batch' = [i \in DOMAIN queue |-> [id |-> queue[i], redacted |-> FALSE]]
  BY DEF TakeBatch
<1>2. ToSet(batch') = {[id |-> queue[i], redacted |-> FALSE] : i \in DOMAIN queue}
  BY <1>1 DEF ToSet
<1>3. InBatch' = {e.id : e \in ToSet(batch')}
  BY DEF InBatch
<1>4. {e.id : e \in ToSet(batch')} = {queue[i] : i \in DOMAIN queue}
  <2>1. ASSUME NEW i \in DOMAIN queue PROVE queue[i] \in {e.id : e \in ToSet(batch')}
    <3>1. [id |-> queue[i], redacted |-> FALSE] \in ToSet(batch')
      BY <1>2
    <3> QED BY <3>1, [id |-> queue[i], redacted |-> FALSE].id = queue[i]
  <2>2. ASSUME NEW e \in ToSet(batch') PROVE e.id \in {queue[i] : i \in DOMAIN queue}
    BY <1>2
  <2> QED BY <2>1, <2>2
<1>5. ToSet(queue) = {queue[i] : i \in DOMAIN queue}
  BY DEF ToSet
<1>6. \A e \in ToSet(batch') : ~e.redacted
  BY <1>2
<1> QED BY <1>3, <1>4, <1>5, <1>6

\* An export leaves the batch its ids, in their places, and redacts in it only
\* what the sinks share.
LEMMA ExportedIds ==
  ASSUME ExportFails \/ ExportErrs \/ ExportSends
  PROVE  /\ DOMAIN batch' = DOMAIN batch
         /\ \A i \in DOMAIN batch :
              /\ batch'[i].id = batch[i].id
              /\ batch'[i].redacted => batch[i].redacted \/ batch[i].id \in Unclonable
         /\ InBatch' = InBatch
<1>1. batch' = [i \in DOMAIN batch |->
                  [id |-> batch[i].id, redacted |-> batch[i].redacted \/ Shared(batch[i])]]
  BY DEF ExportFails, ExportErrs, ExportSends, Redacted
<1>2. DOMAIN batch' = DOMAIN batch
  BY <1>1
<1>3. ASSUME NEW i \in DOMAIN batch
      PROVE  /\ batch'[i].id = batch[i].id
             /\ batch'[i].redacted => batch[i].redacted \/ batch[i].id \in Unclonable
  BY <1>1 DEF Shared
<1>4. InBatch = {batch[i].id : i \in DOMAIN batch}
  BY DEF InBatch, ToSet
<1>5. InBatch' = {batch'[i].id : i \in DOMAIN batch'}
  BY DEF InBatch, ToSet
<1>6. InBatch' = InBatch
  BY <1>2, <1>3, <1>4, <1>5
<1> QED BY <1>2, <1>3, <1>6

\* The store keeps what it has, and a commit adds the well-formed envelopes of
\* the batch.
LEMMA CommittedIds ==
  ASSUME StoreCommits
  PROVE  StoredIds' \subseteq StoredIds \cup InBatch
         /\ StoredIds \subseteq StoredIds'
         /\ InBatch \subseteq StoredIds' \cup Malformed
BY DEF StoreCommits, StoredIds, Kept, InBatch

\* An empty batch or queue.
LEMMA Emptied ==
  ToSet(<< >>) = {} /\ (batch = << >> => InBatch = {}) /\ (batch' = << >> => InBatch' = {})
<1>1. ToSet(<< >>) = {}
  BY DEF ToSet
<1> QED BY <1>1 DEF InBatch

\* A flush, with one or two of its fields set.
LEMMA FlushFields ==
  ASSUME ChainType
  PROVE  /\ NoFlush.at = "idle" /\ NoFlush.err = "none"
         /\ \A a : [flush EXCEPT !.at = a].at = a /\ [flush EXCEPT !.at = a].err = flush.err
         /\ \A a, e : /\ [flush EXCEPT !.at = a, !.err = e].at = a
                      /\ [flush EXCEPT !.at = a, !.err = e].err = e
BY DEF ChainType, NoFlush

-----------------------------------------------------------------------------
(***************************************************************************)
(* Types.                                                                  *)
(***************************************************************************)

\* The chain starts empty.
LEMMA TypeInit == ChainInit => ChainType
<1> SUFFICES ASSUME ChainInit PROVE ChainType
  OBVIOUS
<1>1. \A p \in DOMAIN Feeds : Feeds[p] \in Seq(Ids)
  BY ChainAssumption
<1> QED BY <1>1, Emptied DEF ChainInit, ChainType, NoFlush, Errors

\* Every step keeps the types.
LEMMA TypeStep == ChainType /\ [ChainNext]_chainVars => ChainType'
<1> SUFFICES ASSUME ChainType, chainSetup' = chainSetup, UNCHANGED chainMoving \/ ChainActions
             PROVE  ChainType'
  BY Stepping
<1> USE DEF Errors
<1>1. CASE UNCHANGED chainMoving
  BY <1>1 DEF ChainType, chainMoving, InBatch
<1>2. CASE \/ SnapshotRead \/ SnapshotFails \/ Stop \/ EditRule \/ ChainTick
  BY <1>2 DEF ChainType, SnapshotRead, SnapshotFails, Stop, EditRule, ChainTick, filter, InBatch
<1>3. ASSUME NEW p \in DOMAIN Feeds, CallPublish(p) PROVE ChainType'
  BY <1>3 DEF ChainType, CallPublish, InBatch
<1>4. ASSUME NEW p \in DOMAIN Feeds, Publisher(p) PROVE ChainType'
  <2>1. /\ feed[p].todo \in Seq(Ids) /\ feed[p].todo # << >>
        /\ Next1(p) \in Ids /\ Tail(feed[p].todo) \in Seq(Ids)
    BY <1>4, ToSetTail DEF ChainType, Publisher, SkipStored, PassOn, GiveUp, Next1
  <2>2. Returned(p) \in [todo : Seq(Ids), asking : BOOLEAN] /\ ~Returned(p).asking
    BY <2>1 DEF Returned
  <2>3. Append(queue, Next1(p)) \in Seq(Ids)
    BY <2>1, AppendProperties DEF ChainType
  <2>4. CASE SkipStored(p)
    BY <2>2, <2>4 DEF ChainType, SkipStored, InBatch
  <2>5. CASE PassOn(p)
    BY <2>2, <2>3, <2>5 DEF ChainType, PassOn, InBatch
  <2>6. CASE GiveUp(p)
    <3>1. [todo |-> << >>, asking |-> FALSE] \in [todo : Seq(Ids), asking : BOOLEAN]
      BY EmptySeq
    <3> QED BY <2>6, <3>1 DEF ChainType, GiveUp, InBatch
  <2> QED BY <1>4, <2>4, <2>5, <2>6 DEF Publisher
<1>5. CASE TakeBatch
  <2>1. InBatch' \subseteq Ids
    BY <1>5, TakenIds, ToSetSeq DEF ChainType
  <2> QED BY <1>5, <2>1 DEF ChainType, TakeBatch, filter, NoFlush
<1>6. CASE StoreCommits \/ StoreRefuses
  BY <1>6 DEF ChainType, StoreCommits, StoreRefuses, filter, InBatch
<1>7. CASE Hold \/ ExportFails \/ ExportErrs \/ ExportSends
  <2>1. InBatch' = InBatch
    BY <1>7, ExportedIds DEF Hold, InBatch
  <2> QED BY <1>7, <2>1 DEF ChainType, Hold, ExportFails, ExportErrs, ExportSends, After, filter
<1>8. CASE Retry
  <2>1. flush' \in [at : {"idle", "store", "export", "decide"}, attempt : Nat, err : Errors]
        /\ flush'.at = "store"
    <3>1. flush.attempt \in Nat /\ flush.attempt + 1 \in Nat
      BY DEF ChainType
    <3>2. flush' = [flush EXCEPT !.at = "store", !.attempt = flush.attempt + 1]
      BY <1>8 DEF ChainType, Retry
    <3> QED BY <3>1, <3>2 DEF ChainType
  <2> QED BY <1>8, <2>1 DEF ChainType, Retry, filter, InBatch
<1>9. CASE EndFlush
  BY <1>9, Emptied DEF ChainType, EndFlush, NoFlush, filter
<1> QED BY <1>1, <1>2, <1>3, <1>4, <1>5, <1>6, <1>7, <1>8, <1>9 DEF ChainActions, Worker

-----------------------------------------------------------------------------
(***************************************************************************)
(* The store keeps originals.                                              *)
(***************************************************************************)

\* Nothing is stored.
LEMMA OriginalInit == ChainInit => OriginalInv
BY Emptied DEF ChainInit, OriginalInv, StoreKeepsOriginals

\* Every step keeps the stored events as published.
LEMMA OriginalStep == OriginalInv /\ [ChainNext]_chainVars => OriginalInv'
<1> SUFFICES ASSUME OriginalInv, chainSetup' = chainSetup, UNCHANGED chainMoving \/ ChainActions
             PROVE  OriginalInv'
  BY Stepping
<1> USE DEF OriginalInv, StoreKeepsOriginals
<1>1. CASE TakeBatch
  BY <1>1, TakenIds DEF TakeBatch, sinkVars
<1>2. CASE StoreCommits
  BY <1>2, UnclonableAssumption DEF StoreCommits, Kept
<1>3. CASE EndFlush
  BY <1>3, Emptied DEF EndFlush, sinkVars
<1>4. CASE ExportFails \/ ExportErrs \/ ExportSends
  <2>1. \A i \in DOMAIN batch : batch[i].redacted => batch[i].id \in Unclonable
    BY DEF ToSet
  <2>2. \A e \in ToSet(batch') : e.redacted => e.id \in Unclonable
    BY <1>4, <2>1, ExportedIds DEF ToSet
  <2> QED BY <1>4, <2>2 DEF ExportFails, ExportErrs, ExportSends
<1>5. CASE UNCHANGED <<rows, batch>>
  BY <1>5
<1>6. ASSUME ~TakeBatch, ~StoreCommits, ~EndFlush, ~ExportFails, ~ExportErrs, ~ExportSends
      PROVE  UNCHANGED <<rows, batch>>
  BY <1>6 DEF chainMoving, ChainActions, SnapshotRead, SnapshotFails, CallPublish, Publisher,
              SkipStored, PassOn, GiveUp, Worker, StoreRefuses, Hold, Retry, Stop, EditRule,
              ChainTick, sinkVars
<1> QED BY <1>1, <1>2, <1>3, <1>4, <1>5, <1>6

-----------------------------------------------------------------------------
(***************************************************************************)
(* What was reported is kept.                                              *)
(***************************************************************************)

\* Nothing is reported.
LEMMA KeptInit == ChainInit => KeptInv
BY DEF ChainInit, KeptInv, NoFlush

\* Every step keeps what was reported accounted for.
LEMMA KeptStep == ChainType /\ KeptInv /\ [ChainNext]_chainVars => KeptInv'
<1> SUFFICES ASSUME ChainType, KeptInv, chainSetup' = chainSetup,
                    UNCHANGED chainMoving \/ ChainActions
             PROVE  KeptInv'
  BY Stepping
<1> USE DEF KeptInv
<1>1. CASE \/ UNCHANGED chainMoving \/ SnapshotRead \/ SnapshotFails \/ Stop \/ EditRule
           \/ ChainTick
  BY <1>1 DEF chainMoving, SnapshotRead, SnapshotFails, Stop, EditRule, ChainTick, filter,
              sinkVars, InBatch, StoredIds
<1>3. ASSUME NEW p \in DOMAIN Feeds, CallPublish(p) \/ GiveUp(p) PROVE KeptInv'
  BY <1>3 DEF CallPublish, GiveUp, sinkVars, InBatch, StoredIds
<1>4. ASSUME NEW p \in DOMAIN Feeds, SkipStored(p) PROVE KeptInv'
  BY <1>4 DEF SkipStored, sinkVars, InBatch, StoredIds
<1>5. ASSUME NEW p \in DOMAIN Feeds, PassOn(p) PROVE KeptInv'
  <2>1. feed[p].todo \in Seq(Ids) /\ feed[p].todo # << >> /\ Next1(p) \in Ids
    BY <1>5, ToSetTail DEF ChainType, PassOn, Next1
  <2>2. ToSet(queue') = ToSet(queue) \cup {Next1(p)}
    BY <1>5, <2>1, ToSetAppend DEF ChainType, PassOn
  <2> QED BY <1>5, <2>2 DEF PassOn, sinkVars, InBatch, StoredIds
<1>6. CASE TakeBatch
  <2>1. InBatch = {} /\ InBatch' = ToSet(queue) /\ ToSet(queue') = {}
    BY <1>6, TakenIds, Emptied DEF ChainType, TakeBatch
  <2> QED BY <1>6, <2>1 DEF TakeBatch, filter, sinkVars, StoredIds, NoFlush
<1>7. CASE StoreCommits
  BY <1>7, CommittedIds DEF StoreCommits, filter, InBatch
<1>8. CASE StoreRefuses
  BY <1>8, FlushFields DEF StoreRefuses, filter, InBatch, StoredIds
<1>9. CASE Hold \/ ExportFails \/ ExportErrs \/ ExportSends
  <2>1. flush'.err = "none" => flush.err = "none"
    BY <1>9 DEF ChainType, Hold, ExportFails, ExportErrs, ExportSends, After
  <2>2. InBatch' = InBatch
    BY <1>9, ExportedIds DEF Hold, InBatch
  <2> QED BY <1>9, <2>1, <2>2 DEF Hold, ExportFails, ExportErrs, ExportSends, filter, StoredIds
<1>10. CASE Retry
  BY <1>10 DEF ChainType, Retry, filter, sinkVars, InBatch, StoredIds
<1>11. CASE EndFlush
  <2>1. InBatch' = {}
    BY <1>11, Emptied DEF EndFlush
  <2> QED BY <1>11, <2>1 DEF EndFlush, filter, sinkVars, StoredIds, NoFlush
<1> QED BY <1>1, <1>3, <1>4, <1>5, <1>6, <1>7, <1>8, <1>9, <1>10, <1>11
        DEF ChainActions, Worker, Publisher

-----------------------------------------------------------------------------
(***************************************************************************)
(* The share rule.                                                         *)
(***************************************************************************)

\* Nothing is exported.
LEMMA GateInit == ChainInit => GateInv
BY ChainAssumption DEF ChainInit, GateInv, ExportIsAllowed

\* Every step keeps the gate as young as its last look.
LEMMA GateStep == GateInv /\ [ChainNext]_chainVars => GateInv'
<1> SUFFICES ASSUME GateInv, chainSetup' = chainSetup, UNCHANGED chainMoving \/ ChainActions
             PROVE  GateInv'
  BY Stepping
<1> USE ChainAssumption DEF GateInv, ExportIsAllowed
<1>1. /\ Checked \in [checked : Int, held : BOOLEAN] /\ Checked.checked <= clock
      /\ ~Checked.held /\ rule.refuses => Checked.checked <= rule.since
      /\ ~Checked.held => Refusing < GateEvery
  <2>1. CASE clock - gate.checked < GateEvery
    BY <2>1 DEF Checked, Refusing
  <2>2. CASE ~(clock - gate.checked < GateEvery)
    BY <2>2 DEF Checked, Refusing
  <2> QED BY <2>1, <2>2
<1>2. CASE Hold \/ ExportFails \/ ExportErrs
  BY <1>1, <1>2 DEF Hold, ExportFails, ExportErrs
<1>3. CASE ExportSends
  BY <1>1, <1>3 DEF ExportSends
<1>4. CASE EditRule
  BY <1>4 DEF EditRule, sinkVars
<1>5. CASE ChainTick
  BY <1>5 DEF ChainTick, sinkVars
<1>6. CASE UNCHANGED <<gate, rule, clock, unasked>>
  BY <1>6
<1>7. ASSUME ~Hold, ~ExportFails, ~ExportErrs, ~ExportSends, ~EditRule, ~ChainTick
      PROVE  UNCHANGED <<gate, rule, clock, unasked>>
  BY <1>7 DEF chainMoving, ChainActions, SnapshotRead, SnapshotFails, CallPublish, Publisher,
              SkipStored, PassOn, GiveUp, Worker, TakeBatch, StoreCommits, StoreRefuses, Retry,
              EndFlush, Stop, sinkVars
<1> QED BY <1>2, <1>3, <1>4, <1>5, <1>6, <1>7

-----------------------------------------------------------------------------
(***************************************************************************)
(* Where an id is.                                                         *)
(***************************************************************************)

\* Has the store kept nothing of the batch under way?
NotStored ==
  flush.at = "store" \/ (flush.at \in {"export", "decide"} /\ flush.err # "none")

\* An id is ahead of one publisher, or in the queue, or in the batch, or was
\* dropped; a stored one is in none of these but a batch that the store has
\* committed.
PlaceInv ==
  /\ \A p \in DOMAIN Feeds :
       /\ IsInjective(feed[p].todo)
       /\ Ahead(p) \cap (ToSet(queue) \cup InBatch \cup dropped \cup Added) = {}
       /\ \A q \in DOMAIN Feeds \ {p} : Ahead(p) \cap Ahead(q) = {}
  /\ ToSet(queue) \cap (InBatch \cup dropped \cup Added) = {}
  /\ InBatch \cap dropped = {}
  /\ chainSetup.unsendable = {} => dropped \cap Added = {}
  /\ chainSetup.unsendable = {} /\ NotStored => InBatch \cap Added = {}

\* A publisher's call ends: its id, or all of its ids, are no longer ahead.
LEMMA CallEnds ==
  ASSUME ChainType, NEW p \in DOMAIN Feeds, IsInjective(feed[p].todo), Publisher(p)
  PROVE  /\ \A q \in DOMAIN Feeds \ {p} : feed'[q] = feed[q]
         /\ Next1(p) \in Ids /\ Next1(p) \in Ahead(p) /\ Next1(p) \notin Ahead(p)'
         /\ Ahead(p)' \subseteq Ahead(p) /\ IsInjective(feed'[p].todo)
<1>1. feed[p].todo \in Seq(Ids) /\ feed[p].todo # << >>
  BY DEF ChainType, Publisher, SkipStored, PassOn, GiveUp
<1>2. /\ Next1(p) \in Ids /\ Next1(p) \in Ahead(p)
      /\ Next1(p) \notin ToSet(Tail(feed[p].todo))
      /\ ToSet(Tail(feed[p].todo)) \subseteq Ahead(p) /\ IsInjective(Tail(feed[p].todo))
  BY <1>1, ToSetTail DEF Next1, Ahead
<1>3. ToSet(<< >>) = {} /\ IsInjective(<< >>)
  BY Emptied DEF IsInjective
<1>4. feed'[p].todo = Tail(feed[p].todo) \/ feed'[p].todo = << >>
  <2>1. p \in DOMAIN feed
    BY DEF ChainType
  <2>2. feed'[p] = Returned(p) \/ feed'[p] = [todo |-> << >>, asking |-> FALSE]
    BY <2>1 DEF Publisher, SkipStored, PassOn, GiveUp
  <2>3. Returned(p).todo = Tail(feed[p].todo)
    BY DEF Returned
  <2>4. [todo |-> << >>, asking |-> FALSE].todo = << >>
    OBVIOUS
  <2> QED BY <2>2, <2>3, <2>4
<1>5. \A q \in DOMAIN Feeds \ {p} : feed'[q] = feed[q]
  BY DEF ChainType, Publisher, SkipStored, PassOn, GiveUp
<1> QED BY <1>2, <1>3, <1>4, <1>5 DEF Ahead

\* No event has a place.
LEMMA PlaceInit == ChainInit => PlaceInv
<1> SUFFICES ASSUME ChainInit PROVE PlaceInv
  OBVIOUS
<1>1. \A p \in DOMAIN Feeds : feed[p].todo = Feeds[p] /\ Ahead(p) = ToSet(Feeds[p])
  BY DEF ChainInit, Ahead
<1>2. \A p \in DOMAIN Feeds : IsInjective(Feeds[p])
  BY FeedsAssumption DEF IsInjective
<1>3. \A p, q \in DOMAIN Feeds : p # q => ToSet(Feeds[p]) \cap ToSet(Feeds[q]) = {}
  BY FeedsAssumption DEF ToSet
<1>4. StoredIds = StoredAtBoot
  <2>1. \A i : [id |-> i, redacted |-> FALSE].id = i
    OBVIOUS
  <2> QED BY <2>1 DEF StoredIds, ChainInit
<1>5. Added = {} /\ ToSet(queue) = {} /\ InBatch = {} /\ dropped = {}
  BY <1>4, Emptied DEF ChainInit, Added
<1> QED BY <1>1, <1>2, <1>3, <1>5 DEF PlaceInv

\* Every step keeps each event in its place.
LEMMA PlaceStep == ChainType /\ PlaceInv /\ [ChainNext]_chainVars => PlaceInv'
<1> SUFFICES ASSUME ChainType, PlaceInv, chainSetup' = chainSetup,
                    UNCHANGED chainMoving \/ ChainActions
             PROVE  PlaceInv'
  BY Stepping
<1>1. CASE \/ UNCHANGED chainMoving \/ SnapshotRead \/ SnapshotFails \/ Stop \/ EditRule
           \/ ChainTick
  <2>1. UNCHANGED <<feed, queue, batch, dropped, rows, flush>>
    BY <1>1 DEF chainMoving, SnapshotRead, SnapshotFails, Stop, EditRule, ChainTick, filter,
                sinkVars
  <2> QED BY <2>1 DEF PlaceInv, Ahead, InBatch, Added, StoredIds, NotStored
<1>2. ASSUME NEW p \in DOMAIN Feeds, CallPublish(p) PROVE PlaceInv'
  <2>1. UNCHANGED <<queue, batch, dropped, rows, flush>>
    BY <1>2 DEF CallPublish, sinkVars
  <2>2. \A q \in DOMAIN Feeds : feed'[q].todo = feed[q].todo
    BY <1>2 DEF CallPublish, ChainType
  <2> QED BY <2>1, <2>2 DEF PlaceInv, Ahead, InBatch, Added, StoredIds, NotStored
<1>3. ASSUME NEW p \in DOMAIN Feeds, Publisher(p) PROVE PlaceInv'
  <2>1. UNCHANGED <<batch, dropped, rows, flush>>
    BY <1>3 DEF Publisher, SkipStored, PassOn, GiveUp, sinkVars
  <2>2. InBatch' = InBatch /\ Added' = Added /\ NotStored' = NotStored
    BY <2>1 DEF InBatch, Added, StoredIds, NotStored
  <2>3. /\ \A q \in DOMAIN Feeds \ {p} : feed'[q] = feed[q] /\ Ahead(q)' = Ahead(q)
        /\ Next1(p) \in Ids /\ Next1(p) \in Ahead(p) /\ Next1(p) \notin Ahead(p)'
        /\ Ahead(p)' \subseteq Ahead(p) /\ IsInjective(feed'[p].todo)
    BY <1>3, CallEnds DEF PlaceInv, Ahead
  <2>4. ToSet(queue') \subseteq ToSet(queue) \cup {Next1(p)}
    <3>1. ToSet(Append(queue, Next1(p))) = ToSet(queue) \cup {Next1(p)}
      BY <2>3, ToSetAppend DEF ChainType
    <3> QED BY <1>3, <3>1 DEF Publisher, SkipStored, PassOn, GiveUp
  <2>5. \A q \in DOMAIN Feeds : IsInjective(feed'[q].todo)
    BY <2>3 DEF PlaceInv
  <2>6. \A q \in DOMAIN Feeds :
          Ahead(q)' \cap (ToSet(queue') \cup InBatch' \cup dropped' \cup Added') = {}
    BY <2>1, <2>2, <2>3, <2>4 DEF PlaceInv
  <2>7. \A q \in DOMAIN Feeds : \A r \in DOMAIN Feeds \ {q} : Ahead(q)' \cap Ahead(r)' = {}
    BY <2>3 DEF PlaceInv
  <2>8. ToSet(queue') \cap (InBatch' \cup dropped' \cup Added') = {}
    BY <2>1, <2>2, <2>3, <2>4 DEF PlaceInv
  <2> QED BY <2>1, <2>2, <2>5, <2>6, <2>7, <2>8 DEF PlaceInv
<1>4. CASE TakeBatch
  <2>1. InBatch' = ToSet(queue) /\ ToSet(queue') = {}
    BY <1>4, TakenIds, Emptied DEF TakeBatch
  <2>2. UNCHANGED <<feed, dropped, rows>>
    BY <1>4 DEF TakeBatch, filter, sinkVars
  <2> QED BY <2>1, <2>2 DEF PlaceInv, Ahead, Added, StoredIds
<1>5. CASE StoreCommits
  <2>1. Added' \subseteq Added \cup InBatch
    BY <1>5, CommittedIds DEF Added
  <2>2. UNCHANGED <<feed, queue, batch, dropped>> /\ InBatch' = InBatch /\ ~NotStored'
    BY <1>5, FlushFields DEF StoreCommits, filter, InBatch, NotStored
  <2> QED BY <2>1, <2>2 DEF PlaceInv, Ahead
<1>6. CASE StoreRefuses \/ Hold \/ ExportFails \/ ExportErrs \/ ExportSends \/ Retry
  <2>1. UNCHANGED <<feed, queue, dropped, rows>>
    BY <1>6 DEF StoreRefuses, Hold, ExportFails, ExportErrs, ExportSends, Retry, filter, sinkVars
  <2>2. InBatch' = InBatch /\ Added' = Added
    <3>1. InBatch' = InBatch
      BY <1>6, ExportedIds DEF StoreRefuses, Hold, Retry, InBatch
    <3> QED BY <2>1, <3>1 DEF Added, StoredIds
  <2>3. chainSetup.unsendable = {} /\ NotStored' => NotStored
    BY <1>6 DEF ChainType, StoreRefuses, Hold, ExportFails, ExportErrs, ExportSends, Retry,
                Retried, After, NotStored, Buildable
  <2> QED BY <2>1, <2>2, <2>3 DEF PlaceInv, Ahead
<1>7. CASE EndFlush
  <2>1. InBatch' = {} /\ UNCHANGED <<feed, queue, rows>> /\ Added' = Added
    BY <1>7, Emptied DEF EndFlush, filter, sinkVars, Added, StoredIds
  <2>2. dropped' = dropped \/ (NotStored /\ dropped' = dropped \cup InBatch)
    BY <1>7 DEF EndFlush, NotStored
  <2> QED BY <2>1, <2>2 DEF PlaceInv, Ahead
<1> QED BY <1>1, <1>2, <1>3, <1>4, <1>5, <1>6, <1>7 DEF ChainActions, Worker

-----------------------------------------------------------------------------
(***************************************************************************)
(* How often the collector gets an event.                                  *)
(***************************************************************************)

\* How often the collector may have got an envelope of the batch: once for
\* each attempt refused before this one, and once more after this one's export.
Due(i) ==
  refused[i] + (IF flush.at = "decide" THEN 1 ELSE 0)
             - (IF flush.at # "store" /\ flush.err # "none" THEN 1 ELSE 0)

RepeatInv ==
  /\ refused \in [Ids -> Nat] /\ received \in [Ids -> Nat]
  /\ chainSetup.unsendable = {} => \A i \in Ids :
       /\ i \in ToSet(queue) => received[i] = 0
       /\ \A p \in DOMAIN Feeds : i \in Ahead(p) => received[i] = 0
       /\ received[i] <= IF i \in InBatch THEN Due(i) ELSE 1 + refused[i]

\* Nothing was exported.
LEMMA RepeatInit == ChainInit => RepeatInv
<1> SUFFICES ASSUME ChainInit PROVE RepeatInv
  OBVIOUS
<1>1. InBatch = {}
  BY Emptied DEF ChainInit
<1> QED BY <1>1 DEF ChainInit, RepeatInv

\* Every step keeps the exports counted.
LEMMA RepeatStep == ChainType /\ PlaceInv /\ RepeatInv /\ [ChainNext]_chainVars => RepeatInv'
<1> SUFFICES ASSUME ChainType, PlaceInv, RepeatInv, chainSetup' = chainSetup,
                    UNCHANGED chainMoving \/ ChainActions
             PROVE  RepeatInv'
  BY Stepping
<1>1. CASE \/ UNCHANGED chainMoving \/ SnapshotRead \/ SnapshotFails \/ Stop \/ EditRule
           \/ ChainTick
  <2>1. UNCHANGED <<feed, queue, batch, flush, refused, received>>
    BY <1>1 DEF chainMoving, SnapshotRead, SnapshotFails, Stop, EditRule, ChainTick, filter,
                sinkVars
  <2> QED BY <2>1 DEF RepeatInv, Ahead, InBatch, Due
<1>2. ASSUME NEW p \in DOMAIN Feeds, CallPublish(p) PROVE RepeatInv'
  <2>1. UNCHANGED <<queue, batch, flush, refused, received>>
    BY <1>2 DEF CallPublish, sinkVars
  <2>2. \A q \in DOMAIN Feeds : feed'[q].todo = feed[q].todo
    BY <1>2 DEF CallPublish, ChainType
  <2> QED BY <2>1, <2>2 DEF RepeatInv, Ahead, InBatch, Due
<1>3. ASSUME NEW p \in DOMAIN Feeds, Publisher(p) PROVE RepeatInv'
  <2>1. UNCHANGED <<batch, flush, refused, received>>
    BY <1>3 DEF Publisher, SkipStored, PassOn, GiveUp, sinkVars
  <2>2. InBatch' = InBatch /\ \A i \in Ids : Due(i)' = Due(i)
    BY <2>1 DEF InBatch, Due
  <2>3. /\ \A q \in DOMAIN Feeds : Ahead(q)' \subseteq Ahead(q)
        /\ Next1(p) \in Ids /\ Next1(p) \in Ahead(p)
    BY <1>3, CallEnds DEF PlaceInv, Ahead
  <2>4. ToSet(queue') \subseteq ToSet(queue) \cup {Next1(p)}
    <3>1. ToSet(Append(queue, Next1(p))) = ToSet(queue) \cup {Next1(p)}
      BY <2>3, ToSetAppend DEF ChainType
    <3> QED BY <1>3, <3>1 DEF Publisher, SkipStored, PassOn, GiveUp
  <2> QED BY <2>1, <2>2, <2>3, <2>4 DEF RepeatInv
<1>4. CASE TakeBatch
  <2>1. InBatch' = ToSet(queue) /\ ToSet(queue') = {} /\ InBatch = {}
    BY <1>4, TakenIds, Emptied DEF TakeBatch, ChainType
  <2>2. UNCHANGED <<feed, refused, received>> /\ flush'.at = "store"
    BY <1>4 DEF TakeBatch, filter, sinkVars, NoFlush
  <2> QED BY <2>1, <2>2 DEF RepeatInv, Ahead, Due
<1>5. CASE StoreCommits
  <2>1. UNCHANGED <<feed, queue, refused, received>> /\ InBatch' = InBatch
    BY <1>5 DEF StoreCommits, filter, InBatch
  <2>2. flush.at = "store" /\ flush'.at = "export" /\ flush'.err = "none"
    BY <1>5, FlushFields DEF StoreCommits
  <2> QED BY <2>1, <2>2 DEF RepeatInv, Ahead, Due
<1>6. CASE StoreRefuses
  <2>1. UNCHANGED <<feed, queue, received>> /\ InBatch' = InBatch
    BY <1>6 DEF StoreRefuses, filter, InBatch
  <2>2. flush.at = "store" /\ flush'.at = "export" /\ flush'.err # "none"
    BY <1>6, FlushFields DEF StoreRefuses
  <2>3. refused' \in [Ids -> Nat]
        /\ \A i \in Ids : refused'[i] = IF i \in InBatch THEN refused[i] + 1 ELSE refused[i]
    BY <1>6 DEF StoreRefuses, RepeatInv
  <2> QED BY <2>1, <2>2, <2>3 DEF RepeatInv, Ahead, Due
<1>7. CASE Hold \/ ExportFails \/ ExportErrs
  <2>1. UNCHANGED <<feed, queue, refused, received>> /\ InBatch' = InBatch
    <3>1. InBatch' = InBatch
      BY <1>7, ExportedIds DEF Hold, InBatch
    <3> QED BY <1>7, <3>1 DEF Hold, ExportFails, ExportErrs, filter
  <2>2. chainSetup.unsendable = {}
          => flush.at = "export" /\ flush'.at = "decide" /\ flush'.err = flush.err
    <3>1. CASE ExportErrs
      BY <3>1 DEF ExportErrs, Buildable
    <3>2. CASE Hold \/ ExportFails
      <4>1. flush.at = "export" /\ flush' = After
        BY <3>2 DEF Hold, ExportFails
      <4>2. After.at = "decide" /\ After.err = flush.err
        BY FlushFields DEF After
      <4> QED BY <4>1, <4>2
    <3> QED BY <1>7, <3>1, <3>2
  <2> QED BY <2>1, <2>2 DEF RepeatInv, Ahead, Due
<1>8. CASE ExportSends
  <2>1. UNCHANGED <<feed, queue, refused>> /\ InBatch' = InBatch
    BY <1>8, ExportedIds DEF ExportSends, filter
  <2>2. flush.at = "export" /\ flush'.at = "decide" /\ flush'.err = flush.err
    BY <1>8, FlushFields DEF ExportSends, After
  <2>3. received' \in [Ids -> Nat]
        /\ \A i \in Ids : received'[i] = IF i \in InBatch THEN received[i] + 1 ELSE received[i]
    BY <1>8 DEF ExportSends, RepeatInv
  <2> QED BY <2>1, <2>2, <2>3 DEF RepeatInv, PlaceInv, Ahead, Due
<1>9. CASE Retry
  <2>1. UNCHANGED <<feed, queue, refused, received>> /\ InBatch' = InBatch
    BY <1>9 DEF Retry, filter, sinkVars, InBatch
  <2>2. flush.at = "decide" /\ flush.err # "none" /\ flush'.at = "store"
    BY <1>9 DEF Retry, Retried, ChainType
  <2> QED BY <2>1, <2>2 DEF RepeatInv, Ahead, Due
<1>10. CASE EndFlush
  <2>1. InBatch' = {} /\ UNCHANGED <<feed, queue, refused, received>> /\ flush.at = "decide"
    BY <1>10, Emptied DEF EndFlush, filter, sinkVars
  <2> QED BY <2>1 DEF RepeatInv, Ahead, Due
<1> QED BY <1>1, <1>2, <1>3, <1>4, <1>5, <1>6, <1>7, <1>8, <1>9, <1>10
        DEF ChainActions, Worker

-----------------------------------------------------------------------------
(***************************************************************************)
(* How often the store counts a malformed envelope.                        *)
(***************************************************************************)

\* What the store may have counted of the malformed envelopes, when f says it
\* of each, less one.
Counts(f) == FoldFunctionOnSet(LAMBDA m, n : m + 1 + n, 0, f, Malformed)

\* The sum, one envelope at a time.
LEMMA CountsSteps ==
  ASSUME NEW f \in [Ids -> Int]
  PROVE  \E F \in [SUBSET Malformed -> Int] :
           /\ F[{}] = 0
           /\ \A s \in SUBSET Malformed :
                s # {} => F[s] = f[CHOOSE x \in s : TRUE] + 1 + F[s \ {CHOOSE x \in s : TRUE}]
           /\ Counts(f) = F[Malformed]
<1> DEFINE pick == [s \in SUBSET Malformed |-> CHOOSE x \in s : TRUE]
           G == [xv \in Malformed \X Int |-> f[xv[1]] + 1 + xv[2]]
           F == CHOOSE g : g = [s \in SUBSET Malformed |->
                  IF s = {} THEN 0 ELSE f[CHOOSE x \in s : TRUE] + 1 + g[s \ {CHOOSE x \in s : TRUE}]]
<1>1. \A x \in Malformed : f[x] \in Int
  BY MalformedAssumption
<1>2. \A s \in SUBSET Malformed : s # {} => (CHOOSE x \in s : TRUE) \in s /\ (CHOOSE x \in s : TRUE) \in Malformed
  <2>1. \A s : (\E x \in s : TRUE) => (CHOOSE x \in s : TRUE) \in s
    OBVIOUS
  <2> QED BY <2>1
<1>3. G \in [Malformed \X Int -> Int]
  BY <1>1
<1>4. \A s \in SUBSET Malformed : pick[s] = CHOOSE x \in s : TRUE
  OBVIOUS
<1>5. PICK g : IsFold(g, SUBSET Malformed, Int, 0, pick, G)
  <2>1. \A s \in SUBSET Malformed : s # {} => pick[s] \in s
    BY <1>2, <1>4
  <2> HIDE DEF pick, G
  <2> QED BY <1>3, <2>1, MalformedAssumption, FoldExists, 0 \in Int
<1>6. \A s \in SUBSET Malformed :
        g[s] = IF s = {} THEN 0 ELSE f[CHOOSE x \in s : TRUE] + 1 + g[s \ {CHOOSE x \in s : TRUE}]
  <2> SUFFICES ASSUME NEW s \in SUBSET Malformed
               PROVE  g[s] = IF s = {} THEN 0 ELSE f[CHOOSE x \in s : TRUE] + 1 + g[s \ {CHOOSE x \in s : TRUE}]
    OBVIOUS
  <2>1. g[s] = IF s = {} THEN 0 ELSE G[<<pick[s], g[s \ {pick[s]}]>>]
    BY <1>5 DEF IsFold
  <2>2. CASE s = {}
    BY <2>1, <2>2
  <2>3. CASE s # {}
    <3> DEFINE x == CHOOSE x \in s : TRUE
    <3>1. x \in Malformed /\ pick[s] = x
      BY <1>2, <1>4, <2>3
    <3> HIDE DEF x, pick
    <3>2. g[s \ {x}] \in Int
      BY <1>5 DEF IsFold
    <3>3. G[<<x, g[s \ {x}]>>] = f[x] + 1 + g[s \ {x}]
      BY <3>1, <3>2
    <3> HIDE DEF G
    <3>4. g[s] = f[x] + 1 + g[s \ {x}]
      BY <2>1, <2>3, <3>1, <3>3
    <3> QED BY <2>3, <3>4 DEF x
  <2> QED BY <2>2, <2>3
<1>7. g = [s \in SUBSET Malformed |-> g[s]]
  BY <1>5 DEF IsFold
<1>8. g = [s \in SUBSET Malformed |->
             IF s = {} THEN 0 ELSE f[CHOOSE x \in s : TRUE] + 1 + g[s \ {CHOOSE x \in s : TRUE}]]
  BY <1>6, <1>7, Zenon
<1>9. F = [s \in SUBSET Malformed |->
             IF s = {} THEN 0 ELSE f[CHOOSE x \in s : TRUE] + 1 + F[s \ {CHOOSE x \in s : TRUE}]]
  BY <1>8, Zenon
<1>10. Counts(f) = F[Malformed]
  BY DEF Counts, FoldFunctionOnSet, MapThenFoldSet
<1> HIDE DEF F
<1>11. \A s \in SUBSET Malformed :
        F[s] = IF s = {} THEN 0 ELSE f[CHOOSE x \in s : TRUE] + 1 + F[s \ {CHOOSE x \in s : TRUE}]
  BY <1>9, Zenon
<1> DEFINE T == {n \in Nat : \E s \in Small(Malformed, n) : F[s] \notin Int}
<1>12. T = {}
  <2> SUFFICES ASSUME T # {} PROVE FALSE
    OBVIOUS
  <2>1. T \in SUBSET Nat
    OBVIOUS
  <2>2. PICK n \in T : \A k \in T : n <= k
    <3> HIDE DEF T
    <3> QED BY <2>1, LeastNat
  <2>3. n \in Nat /\ \E s \in Small(Malformed, n) : F[s] \notin Int
    OBVIOUS
  <2>4. PICK s \in Small(Malformed, n) : F[s] \notin Int
    BY <2>3
  <2>5. s \in SUBSET Malformed
    BY DEF Small
  <2>6. s # {}
    BY <1>11, <2>4, <2>5
  <2> DEFINE x == CHOOSE x \in s : TRUE
  <2>7. x \in s /\ x \in Malformed
    BY <1>2, <2>5, <2>6
  <2>8. F[s] = f[x] + 1 + F[s \ {x}]
    BY <1>11, <2>5, <2>6
  <2> HIDE DEF x
  <2>9. n > 0 /\ s \ {x} \in Small(Malformed, n - 1)
    BY <2>3, <2>7, MalformedAssumption, OneLess
  <2>10. n - 1 \in Nat /\ n - 1 \notin T
    <3>1. n - 1 \in Nat /\ n - 1 < n
      BY <2>3, <2>9
    <3> HIDE DEF T
    <3> QED BY <2>2, <2>3, <3>1
  <2>11. F[s \ {x}] \in Int
    BY <2>9, <2>10
  <2> QED BY <1>1, <2>4, <2>7, <2>8, <2>11
<1>13. ASSUME NEW s \in SUBSET Malformed PROVE F[s] \in Int
  <2>1. Cardinality(s) \in Nat
    BY MalformedAssumption, FS_Subset, FS_CardinalityType
  <2>2. s \in Small(Malformed, Cardinality(s))
    BY <2>1 DEF Small
  <2> QED BY <1>12, <2>1, <2>2
<1>14. F \in [SUBSET Malformed -> Int]
  <2>1. F = [s \in SUBSET Malformed |-> F[s]]
    BY <1>9
  <2> QED BY <1>13, <2>1
<1>15. F[{}] = 0
  BY <1>11
<1>16. \A s \in SUBSET Malformed :
         s # {} => F[s] = f[CHOOSE x \in s : TRUE] + 1 + F[s \ {CHOOSE x \in s : TRUE}]
  BY <1>11, Zenon
<1> QED BY <1>10, <1>14, <1>15, <1>16

\* F sums a over the subsets of S, from the member pick takes of each.
Adds(F, S, pick, a) ==
  /\ F \in [SUBSET S -> Int] /\ a \in [S -> Int]
  /\ \A s \in SUBSET S :
       s # {} => pick[s] \in s /\ F[s] = a[pick[s]] + F[s \ {pick[s]}]

\* Of two sums over the same members, one grows with the members of B.
LEMMA SumsApart ==
  ASSUME NEW S, IsFiniteSet(S), NEW F, NEW H, NEW a, NEW d, NEW pick, NEW B \in SUBSET S,
         Adds(F, S, pick, a), Adds(H, S, pick, d), F[{}] >= H[{}],
         \A x \in S : a[x] >= d[x] + IF x \in B THEN 1 ELSE 0
  PROVE  F[S] >= H[S] + Cardinality(B)
<1> DEFINE Good(s) == F[s] >= H[s] + Cardinality(B \cap s)
           T == {n \in Nat : \E s \in Small(S, n) : ~Good(s)}
<1>1. T = {}
  <2> SUFFICES ASSUME T # {} PROVE FALSE
    OBVIOUS
  <2>1. T \in SUBSET Nat
    OBVIOUS
  <2>2. PICK n \in T : \A k \in T : n <= k
    <3> HIDE DEF T
    <3> QED BY <2>1, LeastNat
  <2>3. n \in Nat /\ \E s \in Small(S, n) : ~Good(s)
    OBVIOUS
  <2>4. PICK s \in Small(S, n) : ~Good(s)
    BY <2>3
  <2>5. s \in SUBSET S
    BY DEF Small
  <2>6. s # {}
    <3>1. ASSUME s = {} PROVE Good(s)
      <4>1. B \cap s = {} /\ Cardinality({}) = 0
        BY <3>1, FS_EmptySet
      <4>2. F[{}] \in Int /\ H[{}] \in Int
        BY DEF Adds
      <4> QED BY <3>1, <4>1, <4>2
    <3> QED BY <2>4, <3>1
  <2> DEFINE x == pick[s]
             r == s \ {x}
  <2>7. /\ x \in s /\ x \in S /\ F[s] = a[x] + F[r] /\ H[s] = d[x] + H[r] /\ r \in SUBSET S
    BY <2>5, <2>6 DEF Adds
  <2>8. /\ F[s] \in Int /\ F[r] \in Int /\ H[s] \in Int /\ H[r] \in Int /\ a[x] \in Int /\ d[x] \in Int
        /\ a[x] >= d[x] + IF x \in B THEN 1 ELSE 0
    BY <2>5, <2>7 DEF Adds
  <2> HIDE DEF x
  <2>9. n > 0 /\ r \in Small(S, n - 1)
    BY <2>3, <2>7, OneLess
  <2>10. n - 1 \in Nat /\ n - 1 \notin T
    <3>1. n - 1 \in Nat /\ n - 1 < n
      BY <2>3, <2>9
    <3> HIDE DEF T
    <3> QED BY <2>2, <2>3, <3>1
  <2>11. Good(r)
    BY <2>9, <2>10
  <2>12. Cardinality(B \cap s) = Cardinality(B \cap r) + (IF x \in B THEN 1 ELSE 0)
         /\ Cardinality(B \cap r) \in Nat
    <3>1. IsFiniteSet(B \cap s) /\ IsFiniteSet(B \cap r)
      BY <2>5, <2>7, FS_Subset
    <3>2. CASE x \in B
      <4>1. B \cap s = (B \cap r) \cup {x} /\ x \notin B \cap r
        BY <2>7, <3>2
      <4>2. Cardinality((B \cap r) \cup {x}) = Cardinality(B \cap r) + 1
        BY <3>1, <4>1, FS_AddElement
      <4> QED BY <3>1, <3>2, <4>1, <4>2, FS_CardinalityType
    <3>3. CASE x \notin B
      <4>1. B \cap s = B \cap r
        BY <3>3
      <4>2. Cardinality(B \cap r) \in Nat
        BY <3>1, FS_CardinalityType
      <4>3. Cardinality(B \cap s) = Cardinality(B \cap r)
        BY <4>1, Zenon
      <4> QED BY <3>3, <4>2, <4>3
    <3> QED BY <3>2, <3>3
  <2>13. F[s] >= H[s] + Cardinality(B \cap s)
    BY <2>7, <2>8, <2>11, <2>12
  <2> QED BY <2>4, <2>13
<1>2. Cardinality(S) \in Nat /\ S \in Small(S, Cardinality(S))
  BY FS_CardinalityType DEF Small
<1>3. Good(S)
  BY <1>1, <1>2
<1>4. B \cap S = B
  OBVIOUS
<1> QED BY <1>3, <1>4

\* More is counted where more is due.
LEMMA CountsGrow ==
  ASSUME NEW f \in [Ids -> Int], NEW g \in [Ids -> Int], NEW B \in SUBSET Malformed,
         \A i \in Malformed : g[i] >= f[i] + IF i \in B THEN 1 ELSE 0
  PROVE  Counts(f) \in Int /\ Counts(g) \in Int /\ Counts(g) >= Counts(f) + Cardinality(B)
<1> DEFINE pick == [s \in SUBSET Malformed |-> CHOOSE x \in s : TRUE]
           a == [i \in Malformed |-> g[i] + 1]
           d == [i \in Malformed |-> f[i] + 1]
<1>1. PICK F \in [SUBSET Malformed -> Int] :
         /\ F[{}] = 0
         /\ \A s \in SUBSET Malformed :
              s # {} => F[s] = g[CHOOSE x \in s : TRUE] + 1 + F[s \ {CHOOSE x \in s : TRUE}]
         /\ Counts(g) = F[Malformed]
  BY CountsSteps
<1>2. PICK H \in [SUBSET Malformed -> Int] :
         /\ H[{}] = 0
         /\ \A s \in SUBSET Malformed :
              s # {} => H[s] = f[CHOOSE x \in s : TRUE] + 1 + H[s \ {CHOOSE x \in s : TRUE}]
         /\ Counts(f) = H[Malformed]
  BY CountsSteps
<1>3. \A i \in Malformed : f[i] \in Int /\ g[i] \in Int
  BY MalformedAssumption
<1>4. a \in [Malformed -> Int] /\ d \in [Malformed -> Int]
      /\ \A x \in Malformed : a[x] >= d[x] + IF x \in B THEN 1 ELSE 0
  BY <1>3
<1>5. ASSUME NEW s \in SUBSET Malformed, s # {}
      PROVE  /\ pick[s] \in s
             /\ F[s] = a[pick[s]] + F[s \ {pick[s]}]
             /\ H[s] = d[pick[s]] + H[s \ {pick[s]}]
  <2> DEFINE x == CHOOSE x \in s : TRUE
  <2>1. x \in s
    <3>1. \E y \in s : TRUE
      BY <1>5
    <3> QED BY <3>1
  <2>2. pick[s] = x
    OBVIOUS
  <2>3. F[s] = g[x] + 1 + F[s \ {x}] /\ H[s] = f[x] + 1 + H[s \ {x}]
    BY <1>1, <1>2, <1>5
  <2> HIDE DEF x
  <2>4. a[x] = g[x] + 1 /\ d[x] = f[x] + 1
    BY <2>1
  <2> HIDE DEF pick, a, d
  <2> QED BY <2>1, <2>2, <2>3, <2>4
<1>6. F[{}] >= H[{}]
  BY <1>1, <1>2
<1> HIDE DEF pick, a, d
<1>7. F[Malformed] >= H[Malformed] + Cardinality(B)
  <2>1. Adds(F, Malformed, pick, a) /\ Adds(H, Malformed, pick, d)
    BY <1>4, <1>5 DEF Adds
  <2>2. IsFiniteSet(Malformed)
    BY MalformedAssumption
  <2> QED BY <1>4, <1>6, <2>1, <2>2, SumsApart
<1> QED BY <1>1, <1>2, <1>7

\* Nothing due is nothing counted.
LEMMA CountsFromNothing ==
  ASSUME NEW f \in [Ids -> Int], \A i \in Malformed : f[i] >= -1
  PROVE  Counts(f) \in Int /\ Counts(f) >= 0
<1> DEFINE pick == [s \in SUBSET Malformed |-> CHOOSE x \in s : TRUE]
           a == [i \in Malformed |-> f[i] + 1]
           d == [i \in Malformed |-> 0]
           H == [s \in SUBSET Malformed |-> 0]
<1>1. PICK F \in [SUBSET Malformed -> Int] :
         /\ F[{}] = 0
         /\ \A s \in SUBSET Malformed :
              s # {} => F[s] = f[CHOOSE x \in s : TRUE] + 1 + F[s \ {CHOOSE x \in s : TRUE}]
         /\ Counts(f) = F[Malformed]
  BY CountsSteps
<1>2. \A i \in Malformed : f[i] \in Int
  BY MalformedAssumption
<1>3. /\ a \in [Malformed -> Int] /\ d \in [Malformed -> Int] /\ H \in [SUBSET Malformed -> Int]
      /\ \A x \in Malformed : a[x] >= d[x] + IF x \in {} THEN 1 ELSE 0
  BY <1>2
<1>4. ASSUME NEW s \in SUBSET Malformed, s # {}
      PROVE  /\ pick[s] \in s
             /\ F[s] = a[pick[s]] + F[s \ {pick[s]}]
             /\ H[s] = d[pick[s]] + H[s \ {pick[s]}]
  <2> DEFINE x == CHOOSE x \in s : TRUE
  <2>1. x \in s
    <3>1. \E y \in s : TRUE
      BY <1>4
    <3> QED BY <3>1
  <2>2. pick[s] = x
    OBVIOUS
  <2>3. F[s] = f[x] + 1 + F[s \ {x}]
    BY <1>1, <1>4
  <2> HIDE DEF x
  <2>4. a[x] = f[x] + 1 /\ d[x] = 0 /\ H[s] = 0 /\ H[s \ {x}] = 0
    BY <2>1
  <2> HIDE DEF pick, a, d, H
  <2> QED BY <2>1, <2>2, <2>3, <2>4
<1>5. F[{}] >= H[{}] /\ H[Malformed] = 0
  BY <1>1
<1> HIDE DEF pick, a, d, H
<1>6. F[Malformed] >= H[Malformed] + Cardinality({})
  <2>1. Adds(F, Malformed, pick, a) /\ Adds(H, Malformed, pick, d)
    BY <1>3, <1>4 DEF Adds
  <2>2. IsFiniteSet(Malformed) /\ {} \in SUBSET Malformed
    BY MalformedAssumption
  <2> QED BY <1>3, <1>5, <2>1, <2>2, SumsApart
<1>7. Cardinality({}) = 0
  BY FS_EmptySet
<1> QED BY <1>1, <1>5, <1>6, <1>7

\* A queue without repetitions stays so when a new id joins it.
LEMMA JoinInjective ==
  ASSUME NEW S, NEW s \in Seq(S), NEW e \in S, IsInjective(s), e \notin ToSet(s)
  PROVE  IsInjective(Append(s, e))
<1>1. /\ Append(s, e) \in Seq(S) /\ Len(Append(s, e)) = Len(s) + 1 /\ Len(s) \in Nat
      /\ \A i \in 1 .. Len(s) : Append(s, e)[i] = s[i]
      /\ Append(s, e)[Len(s) + 1] = e
      /\ DOMAIN Append(s, e) = 1 .. Len(Append(s, e)) /\ DOMAIN s = 1 .. Len(s)
  BY AppendProperties, LenProperties
<1>2. \A i \in 1 .. Len(s) : s[i] # e
  BY ToSetSeq
<1>3. \A i \in 1 .. Len(s) + 1 : i \in 1 .. Len(s) \/ i = Len(s) + 1
  BY <1>1
<1> QED BY <1>1, <1>2, <1>3 DEF IsInjective

\* Is an id on its way to the store?
OnItsWay(i) ==
  \/ i \in ToSet(queue) \/ \E p \in DOMAIN Feeds : i \in Ahead(p)
  \/ i \in InBatch /\ NotStored

\* What the store may have counted of each envelope, less one: the attempts it
\* refused, and one more once it took the batch.
Spent == [i \in Ids |-> refused[i] - IF OnItsWay(i) THEN 1 ELSE 0]

\* No id is twice in the queue or in the batch, and no malformed envelope is
\* counted oftener than the store refused its batch, and once more.
CountInv ==
  /\ IsInjective(queue)
  /\ \A i, j \in DOMAIN batch : batch[i].id = batch[j].id => i = j
  /\ skippedInvalid \in Nat
  /\ chainSetup.unsendable = {} => skippedInvalid <= Counts(Spent)

\* The store counts the malformed ids of the batch.
LEMMA InvalidIs ==
  ASSUME CountInv
  PROVE  Invalid \in Nat /\ Invalid <= Cardinality(InBatch \cap Malformed)
<1> DEFINE D == {i \in DOMAIN batch : batch[i].id \in Malformed}
           f == [i \in D |-> batch[i].id]
           T == InBatch \cap Malformed
<1>1. IsFiniteSet(T)
  BY MalformedAssumption, FS_Subset
<1>2. ASSUME NEW i \in DOMAIN batch PROVE batch[i].id \in InBatch
  BY DEF InBatch, ToSet
<1>3. f \in [D -> T]
  BY <1>2
<1>4. \A i, j \in D : f[i] = f[j] => i = j
  BY DEF CountInv
<1>5. f \in Injection(D, T)
  <2> HIDE DEF D, T, f
  <2> QED BY <1>3, <1>4 DEF Injection, IsInjective
<1>6. Invalid = Cardinality(D)
  BY DEF Invalid
<1> HIDE DEF D, T, f
<1>7. IsFiniteSet(D) /\ Cardinality(D) <= Cardinality(T)
  BY <1>1, <1>5, FS_Injection
<1>8. Cardinality(D) \in Nat
  BY <1>7, FS_CardinalityType
<1> QED BY <1>6, <1>7, <1>8 DEF T

\* Nothing was counted.
LEMMA CountInit == ChainInit => CountInv
<1> SUFFICES ASSUME ChainInit PROVE CountInv
  OBVIOUS
<1>1. refused = [i \in Ids |-> 0] /\ skippedInvalid = 0 /\ queue = << >> /\ batch = << >>
  BY DEF ChainInit
<1>2. Spent \in [Ids -> Int] /\ \A i \in Malformed : Spent[i] >= -1
  BY <1>1, MalformedAssumption DEF Spent
<1>3. Counts(Spent) \in Int /\ Counts(Spent) >= 0
  BY <1>2, CountsFromNothing
<1> QED BY <1>1, <1>3 DEF CountInv, IsInjective

\* A step after which no more is on its way, and of which the store counts
\* nothing.
LEMMA CountQuiet ==
  ASSUME RepeatInv, RepeatInv', CountInv, chainSetup' = chainSetup, refused' = refused,
         skippedInvalid' = skippedInvalid,
         chainSetup.unsendable = {} => \A i \in Ids : OnItsWay(i)' => OnItsWay(i)
  PROVE  chainSetup'.unsendable = {} => skippedInvalid' <= Counts(Spent)'
<1> SUFFICES ASSUME chainSetup.unsendable = {} PROVE skippedInvalid <= Counts(Spent')
  OBVIOUS
<1>1. Spent \in [Ids -> Int] /\ Spent' \in [Ids -> Int]
  BY DEF Spent, RepeatInv
<1>2. \A i \in Malformed : Spent'[i] >= Spent[i] + IF i \in {} THEN 1 ELSE 0
  BY MalformedAssumption DEF Spent, RepeatInv
<1>3. Counts(Spent) \in Int /\ Counts(Spent') \in Int
      /\ Counts(Spent') >= Counts(Spent) + Cardinality({})
  BY <1>1, <1>2, CountsGrow, {} \in SUBSET Malformed
<1> QED BY <1>3, FS_EmptySet DEF CountInv

\* The store takes the batch, or refuses it: either counts its malformed ones.
LEMMA CountAttempt ==
  ASSUME RepeatInv, RepeatInv', CountInv, chainSetup' = chainSetup,
         skippedInvalid' = skippedInvalid + Invalid,
         chainSetup.unsendable = {} =>
           \A i \in Ids : Spent'[i] >= Spent[i] + IF i \in InBatch THEN 1 ELSE 0
  PROVE  /\ skippedInvalid' \in Nat
         /\ chainSetup'.unsendable = {} => skippedInvalid' <= Counts(Spent)'
<1>0. Invalid \in Nat /\ Invalid <= Cardinality(InBatch \cap Malformed) /\ skippedInvalid \in Nat
  BY InvalidIs DEF CountInv
<1> SUFFICES ASSUME chainSetup.unsendable = {} PROVE skippedInvalid' <= Counts(Spent')
  BY <1>0
<1> DEFINE B == InBatch \cap Malformed
<1>1. Spent \in [Ids -> Int] /\ Spent' \in [Ids -> Int]
  BY DEF Spent, RepeatInv
<1>2. B \in SUBSET Malformed /\ \A i \in Malformed : Spent'[i] >= Spent[i] + IF i \in B THEN 1 ELSE 0
  BY MalformedAssumption
<1>3. Cardinality(B) \in Nat
  BY MalformedAssumption, FS_Subset, FS_CardinalityType
<1> HIDE DEF B
<1>4. Counts(Spent) \in Int /\ Counts(Spent') \in Int /\ Counts(Spent') >= Counts(Spent) + Cardinality(B)
  BY <1>1, <1>2, CountsGrow
<1> QED BY <1>0, <1>3, <1>4 DEF CountInv, B

\* Every step keeps the count within what is due.
LEMMA CountStep ==
  ChainType /\ PlaceInv /\ RepeatInv /\ RepeatInv' /\ CountInv /\ [ChainNext]_chainVars => CountInv'
<1> SUFFICES ASSUME ChainType, PlaceInv, RepeatInv, RepeatInv', CountInv, chainSetup' = chainSetup,
                    UNCHANGED chainMoving \/ ChainActions
             PROVE  CountInv'
  BY Stepping
<1>1. CASE \/ UNCHANGED chainMoving \/ SnapshotRead \/ SnapshotFails \/ Stop \/ EditRule
           \/ ChainTick
  <2>1. UNCHANGED <<feed, queue, batch, flush, refused, skippedInvalid>>
    BY <1>1 DEF chainMoving, SnapshotRead, SnapshotFails, Stop, EditRule, ChainTick, filter,
                sinkVars
  <2>2. \A i \in Ids : OnItsWay(i)' => OnItsWay(i)
    BY <2>1 DEF OnItsWay, Ahead, InBatch, NotStored
  <2>3. chainSetup'.unsendable = {} => skippedInvalid' <= Counts(Spent)'
    BY <2>1, <2>2, CountQuiet
  <2> QED BY <2>1, <2>3 DEF CountInv
<1>2. ASSUME NEW p \in DOMAIN Feeds, CallPublish(p) PROVE CountInv'
  <2>1. UNCHANGED <<queue, batch, flush, refused, skippedInvalid>>
    BY <1>2 DEF CallPublish, sinkVars
  <2>2. \A q \in DOMAIN Feeds : feed'[q].todo = feed[q].todo
    BY <1>2 DEF CallPublish, ChainType
  <2>3. \A i \in Ids : OnItsWay(i)' => OnItsWay(i)
    BY <2>1, <2>2 DEF OnItsWay, Ahead, InBatch, NotStored
  <2>4. chainSetup'.unsendable = {} => skippedInvalid' <= Counts(Spent)'
    BY <2>1, <2>3, CountQuiet
  <2> QED BY <2>1, <2>4 DEF CountInv
<1>3. ASSUME NEW p \in DOMAIN Feeds, Publisher(p) PROVE CountInv'
  <2>1. UNCHANGED <<batch, flush, refused, skippedInvalid>>
    BY <1>3 DEF Publisher, SkipStored, PassOn, GiveUp, sinkVars
  <2>2. /\ \A q \in DOMAIN Feeds : Ahead(q)' \subseteq Ahead(q)
        /\ Next1(p) \in Ids /\ Next1(p) \in Ahead(p)
    BY <1>3, CallEnds DEF PlaceInv, Ahead
  <2>3. queue \in Seq(Ids) /\ Next1(p) \notin ToSet(queue)
    BY <2>2 DEF ChainType, PlaceInv
  <2>4. queue' = queue \/ queue' = Append(queue, Next1(p))
    BY <1>3 DEF Publisher, SkipStored, PassOn, GiveUp
  <2>5. ToSet(queue') \subseteq ToSet(queue) \cup {Next1(p)}
    <3>1. ToSet(Append(queue, Next1(p))) = ToSet(queue) \cup {Next1(p)}
      BY <2>2, <2>3, ToSetAppend
    <3> QED BY <2>4, <3>1
  <2>6. IsInjective(queue')
    BY <2>2, <2>3, <2>4, JoinInjective DEF CountInv
  <2>7. InBatch' = InBatch /\ NotStored' = NotStored
    BY <2>1 DEF InBatch, NotStored
  <2>8. \A i \in Ids : OnItsWay(i)' => OnItsWay(i)
    BY <2>2, <2>5, <2>7 DEF OnItsWay
  <2>9. chainSetup'.unsendable = {} => skippedInvalid' <= Counts(Spent)'
    BY <2>1, <2>8, CountQuiet
  <2> QED BY <2>1, <2>6, <2>9 DEF CountInv
<1>4. CASE TakeBatch
  <2>1. InBatch' = ToSet(queue) /\ ToSet(queue') = {} /\ InBatch = {}
    BY <1>4, TakenIds, Emptied DEF TakeBatch, ChainType
  <2>2. UNCHANGED <<feed, refused, skippedInvalid>> /\ queue' = << >>
    BY <1>4 DEF TakeBatch, filter, sinkVars
  <2>3. \A i \in Ids : OnItsWay(i)' => OnItsWay(i)
    BY <2>1, <2>2 DEF OnItsWay, Ahead
  <2>4. chainSetup'.unsendable = {} => skippedInvalid' <= Counts(Spent)'
    BY <2>2, <2>3, CountQuiet
  <2>5. \A i, j \in DOMAIN batch' : batch'[i].id = batch'[j].id => i = j
    <3>1. batch' = [i \in DOMAIN queue |-> [id |-> queue[i], redacted |-> FALSE]]
      BY <1>4 DEF TakeBatch
    <3> QED BY <3>1 DEF CountInv, IsInjective
  <2>6. IsInjective(queue')
    BY <2>2 DEF IsInjective
  <2> QED BY <2>2, <2>4, <2>5, <2>6 DEF CountInv
<1>5. CASE StoreCommits
  <2>1. UNCHANGED <<feed, queue, batch, refused>> /\ InBatch' = InBatch
    BY <1>5 DEF StoreCommits, filter, InBatch
  <2>2. flush.at = "store" /\ flush'.at = "export" /\ flush'.err = "none"
        /\ skippedInvalid' = skippedInvalid + Invalid
    BY <1>5, FlushFields DEF StoreCommits
  <2>3. ASSUME NEW i \in Ids
        PROVE  Spent'[i] >= Spent[i] + IF i \in InBatch THEN 1 ELSE 0
    <3>1. refused[i] \in Nat /\ Spent[i] = refused[i] - (IF OnItsWay(i) THEN 1 ELSE 0)
          /\ Spent'[i] = refused[i] - (IF OnItsWay(i)' THEN 1 ELSE 0)
      BY <2>1 DEF Spent, RepeatInv
    <3>2. OnItsWay(i)' => OnItsWay(i)
      BY <2>1, <2>2 DEF OnItsWay, Ahead, NotStored
    <3>3. i \in InBatch => OnItsWay(i) /\ ~OnItsWay(i)'
      BY <2>1, <2>2 DEF OnItsWay, Ahead, NotStored, PlaceInv
    <3> QED BY <3>1, <3>2, <3>3
  <2>4. /\ skippedInvalid' \in Nat
        /\ chainSetup'.unsendable = {} => skippedInvalid' <= Counts(Spent)'
    BY <2>2, <2>3, CountAttempt
  <2> QED BY <2>1, <2>4 DEF CountInv
<1>6. CASE StoreRefuses
  <2>1. UNCHANGED <<feed, queue, batch>> /\ InBatch' = InBatch
    BY <1>6 DEF StoreRefuses, filter, InBatch
  <2>2. flush.at = "store" /\ flush'.at = "export" /\ flush'.err # "none"
        /\ skippedInvalid' = skippedInvalid + Invalid
    BY <1>6, FlushFields DEF StoreRefuses
  <2>3. ASSUME NEW i \in Ids
        PROVE  Spent'[i] >= Spent[i] + IF i \in InBatch THEN 1 ELSE 0
    <3>1. /\ refused[i] \in Nat /\ Spent[i] = refused[i] - (IF OnItsWay(i) THEN 1 ELSE 0)
          /\ Spent'[i] = refused'[i] - (IF OnItsWay(i)' THEN 1 ELSE 0)
          /\ refused'[i] = IF i \in InBatch THEN refused[i] + 1 ELSE refused[i]
      BY <1>6 DEF StoreRefuses, Spent, RepeatInv
    <3>2. OnItsWay(i)' => OnItsWay(i)
      BY <2>1, <2>2 DEF OnItsWay, Ahead, NotStored
    <3>3. i \in InBatch => OnItsWay(i)
      BY <2>2 DEF OnItsWay, NotStored
    <3> QED BY <3>1, <3>2, <3>3
  <2>4. /\ skippedInvalid' \in Nat
        /\ chainSetup'.unsendable = {} => skippedInvalid' <= Counts(Spent)'
    BY <2>2, <2>3, CountAttempt
  <2> QED BY <2>1, <2>4 DEF CountInv
<1>7. CASE Hold \/ ExportFails \/ ExportErrs \/ ExportSends
  <2>1. UNCHANGED <<feed, queue, refused, skippedInvalid>> /\ InBatch' = InBatch
    <3>1. InBatch' = InBatch
      BY <1>7, ExportedIds DEF Hold, InBatch
    <3> QED BY <1>7, <3>1 DEF Hold, ExportFails, ExportErrs, ExportSends, filter
  <2>2. chainSetup.unsendable = {}
          => flush.at = "export" /\ flush'.at = "decide" /\ flush'.err = flush.err
    <3>1. CASE ExportErrs
      BY <3>1 DEF ExportErrs, Buildable
    <3>2. CASE Hold \/ ExportFails \/ ExportSends
      <4>1. flush.at = "export" /\ flush' = After
        BY <3>2 DEF Hold, ExportFails, ExportSends
      <4>2. After.at = "decide" /\ After.err = flush.err
        BY FlushFields DEF After
      <4> QED BY <4>1, <4>2
    <3> QED BY <1>7, <3>1, <3>2
  <2>3. chainSetup.unsendable = {} => \A i \in Ids : OnItsWay(i)' => OnItsWay(i)
    BY <2>1, <2>2 DEF OnItsWay, Ahead, NotStored
  <2>4. chainSetup'.unsendable = {} => skippedInvalid' <= Counts(Spent)'
    BY <2>1, <2>3, CountQuiet
  <2>5. \A i, j \in DOMAIN batch' : batch'[i].id = batch'[j].id => i = j
    <3>1. DOMAIN batch' = DOMAIN batch /\ \A i \in DOMAIN batch : batch'[i].id = batch[i].id
      BY <1>7, ExportedIds DEF Hold
    <3> QED BY <3>1 DEF CountInv
  <2> QED BY <2>1, <2>4, <2>5 DEF CountInv
<1>8. CASE Retry
  <2>1. UNCHANGED <<feed, queue, batch, refused, skippedInvalid>> /\ InBatch' = InBatch
    BY <1>8 DEF Retry, filter, sinkVars, InBatch
  <2>2. flush.at = "decide" /\ flush.err # "none" /\ flush'.at = "store"
    BY <1>8 DEF Retry, Retried, ChainType
  <2>3. \A i \in Ids : OnItsWay(i)' => OnItsWay(i)
    BY <2>1, <2>2 DEF OnItsWay, Ahead, NotStored
  <2>4. chainSetup'.unsendable = {} => skippedInvalid' <= Counts(Spent)'
    BY <2>1, <2>3, CountQuiet
  <2> QED BY <2>1, <2>4 DEF CountInv
<1>9. CASE EndFlush
  <2>1. InBatch' = {} /\ UNCHANGED <<feed, queue, refused, skippedInvalid>> /\ batch' = << >>
    BY <1>9, Emptied DEF EndFlush, filter, sinkVars
  <2>2. \A i \in Ids : OnItsWay(i)' => OnItsWay(i)
    BY <2>1 DEF OnItsWay, Ahead
  <2>3. chainSetup'.unsendable = {} => skippedInvalid' <= Counts(Spent)'
    BY <2>1, <2>2, CountQuiet
  <2>4. \A i, j \in DOMAIN batch' : batch'[i].id = batch'[j].id => i = j
    BY <2>1
  <2> QED BY <2>1, <2>3, <2>4 DEF CountInv
<1> QED BY <1>1, <1>2, <1>3, <1>4, <1>5, <1>6, <1>7, <1>8, <1>9
        DEF ChainActions, Worker

-----------------------------------------------------------------------------
(***************************************************************************)
(* The theorems about the chain.                                           *)
(***************************************************************************)

\* The types of the chain's state (SinkChain.tla's variables).
THEOREM ChainTyped == ChainSpec => []ChainType
BY TypeInit, TypeStep, PTL DEF ChainSpec

\* Whatever a poller is told is kept is stored, on its way, malformed or
\* counted as dropped, and with an exporter that can build its request nothing
\* is counted that the daemon stored: for every feed, every order of the
\* snapshot, the publishes, the failures, the retries and the shutdown.
THEOREM ReportedKept == ChainSpec => []ReportedIsKept
<1>1. KeptInv /\ PlaceInv => ReportedIsKept
  BY DEF KeptInv, PlaceInv, ReportedIsKept, Added, Sendable
<1> QED BY <1>1, TypeInit, TypeStep, KeptInit, KeptStep, PlaceInit, PlaceStep, PTL DEF ChainSpec

\* The store holds only events as they were published, however often a batch is
\* retried after the exporter redacted in place what it was handed
\* (RedactEnvelope): cloneBatch shares an envelope only where Clone fails, and of
\* those the store keeps none (UnclonableAssumption, envelopeToRow).
THEOREM OriginalsKept == ChainSpec => []StoreKeepsOriginals
<1>1. OriginalInv => StoreKeepsOriginals
  BY DEF OriginalInv
<1> QED BY <1>1, OriginalInit, OriginalStep, PTL DEF ChainSpec

\* Nothing is exported once the share boundary has refused for shareGateEvery,
\* whenever the rule changes and however far apart the exports are
\* (sharedSink.isHeld).
THEOREM ExportsAllowed == ChainSpec => []ExportIsAllowed
<1>1. GateInv => ExportIsAllowed
  BY DEF GateInv
<1> QED BY <1>1, GateInit, GateStep, PTL DEF ChainSpec

\* With an exporter that can build its request, the collector gets an event at
\* most once more than the store refused it: the first part of
\* RepeatsAreRetries.
THEOREM CollectorBounded == ChainSpec => []CollectorRepeats
<1>1. ChainType /\ RepeatInv => CollectorRepeats
  <2> SUFFICES ASSUME ChainType, RepeatInv, chainSetup.unsendable = {}, NEW i \in Ids
               PROVE  received[i] <= 1 + refused[i]
    BY DEF CollectorRepeats, Sendable
  <2>1. received[i] \in Nat /\ refused[i] \in Nat
    BY DEF RepeatInv
  <2>2. Due(i) \in Int /\ Due(i) <= 1 + refused[i]
    BY <2>1 DEF Due
  <2>3. received[i] <= IF i \in InBatch THEN Due(i) ELSE 1 + refused[i]
    BY DEF RepeatInv
  <2> QED BY <2>1, <2>2, <2>3
<1> QED BY <1>1, TypeInit, TypeStep, PlaceInit, PlaceStep, RepeatInit, RepeatStep, PTL
        DEF ChainSpec

\* The collector gets an event again, and the store counts a malformed one
\* again, at most once for each attempt the store refused (AsyncBus.retryFlush,
\* MultiSink.AppendBatch, Store.skippedInvalid).
THEOREM RepeatsBounded == ChainSpec => []RepeatsAreRetries
<1>1. RepeatInv /\ CountInv /\ CollectorRepeats => RepeatsAreRetries
  <2> SUFFICES ASSUME RepeatInv, CountInv, CollectorRepeats, chainSetup.unsendable = {}
               PROVE  skippedInvalid <= Counts(refused)
    BY DEF RepeatsAreRetries, Counts, Sendable
  <2>1. Spent \in [Ids -> Int] /\ refused \in [Ids -> Int]
    BY DEF Spent, RepeatInv
  <2>2. \A i \in Malformed : refused[i] >= Spent[i] + IF i \in {} THEN 1 ELSE 0
    BY MalformedAssumption DEF Spent, RepeatInv
  <2>3. Counts(Spent) \in Int /\ Counts(refused) \in Int
        /\ Counts(refused) >= Counts(Spent) + Cardinality({})
    BY <2>1, <2>2, CountsGrow, {} \in SUBSET Malformed
  <2> QED BY <2>3, FS_EmptySet DEF CountInv
<1> QED BY <1>1, CollectorBounded, TypeInit, TypeStep, PlaceInit, PlaceStep, RepeatInit,
           RepeatStep, CountInit, CountStep, PTL DEF ChainSpec

-----------------------------------------------------------------------------
(***************************************************************************)
(* BindsTheStrictest of BoundaryRules.                                     *)
(*                                                                         *)
(* The fold over the rules is followed rule by rule (EvaluateSteps): after *)
(* k rules the first of the strictest of those that may bind leads         *)
(* (BoundStep).  Match is what the operators mean for the windows that are *)
(* known (MatchMeans), and a lift names a local rule only (RuleInv).       *)
(***************************************************************************)

\* What binds after each rule of the list.
LEMMA EvaluateSteps ==
  ASSUME NEW S, NEW rules \in Seq(S), NEW left, NEW out
  PROVE  \E h : /\ h[0] = NoRule
                /\ \A k \in 1 .. Len(rules) : h[k] = stricter(h[k - 1], rules[k], left, out)
                /\ Evaluate(rules, left, out) = h[Len(rules)]
<1> DEFINE n == Len(rules)
           V == ToSet(rules) \cup {NoRule}
           G == [kb \in (1 .. n) \X V |-> stricter(kb[2], rules[kb[1]], left, out)]
           F == CHOOSE f : f = [s \in SUBSET DOMAIN rules |->
                  IF s = {} THEN NoRule ELSE stricter(f[s \ {Max(s)}], rules[Max(s)], left, out)]
           h == [k \in 0 .. n |-> F[1 .. k]]
<1>1. n \in Nat /\ DOMAIN rules = 1 .. n
  OBVIOUS
<1>2. ASSUME NEW k \in 1 .. n, NEW b \in V PROVE stricter(b, rules[k], left, out) \in V
  BY <1>1 DEF stricter, ToSet
<1>3. G \in [(1 .. n) \X V -> V]
  BY <1>2
<1>4. \E f : f = [s \in SUBSET DOMAIN rules |->
              IF s = {} THEN NoRule ELSE stricter(f[s \ {Max(s)}], rules[Max(s)], left, out)]
  <2>1. NoRule \in V
    OBVIOUS
  <2>2. PICK f : IsLeftFold(f, n, V, NoRule, G)
    <3> HIDE DEF G, V, n
    <3> QED BY <1>1, <1>3, <2>1, LeftFoldExists
  <2>3. ASSUME NEW s \in SUBSET (1 .. n)
        PROVE  f[s] = IF s = {} THEN NoRule ELSE stricter(f[s \ {Max(s)}], rules[Max(s)], left, out)
    <3>1. s # {} => Max(s) \in 1 .. n /\ f[s \ {Max(s)}] \in V
      BY <1>1, <2>2, MaxOfPositions DEF IsLeftFold
    <3>2. s # {} => G[<<Max(s), f[s \ {Max(s)}]>>] = stricter(f[s \ {Max(s)}], rules[Max(s)], left, out)
      BY <3>1
    <3>3. f[s] = IF s = {} THEN NoRule ELSE G[<<Max(s), f[s \ {Max(s)}]>>]
      BY <2>2 DEF IsLeftFold
    <3> QED BY <3>2, <3>3
  <2>4. f = [s \in SUBSET (1 .. n) |-> f[s]]
    BY <2>2 DEF IsLeftFold
  <2> QED BY <1>1, <2>3, <2>4, Zenon
<1>5. F = [s \in SUBSET DOMAIN rules |->
             IF s = {} THEN NoRule ELSE stricter(F[s \ {Max(s)}], rules[Max(s)], left, out)]
  BY <1>4
<1>6. Evaluate(rules, left, out) = F[DOMAIN rules]
  BY DEF Evaluate, FoldLeft, MapThenFoldSet
<1> HIDE DEF F, V, G
<1>7. h[0] = NoRule
  BY <1>1, <1>5
<1>8. ASSUME NEW k \in 1 .. n PROVE h[k] = stricter(h[k - 1], rules[k], left, out)
  <2>1. 1 .. k \in SUBSET DOMAIN rules /\ 1 .. k # {} /\ k \in Nat \ {0} /\ k - 1 \in 0 .. n /\ k \in 0 .. n
    BY <1>1
  <2>2. Max(1 .. k) = k /\ (1 .. k) \ {k} = 1 .. k - 1
    BY <2>1, MaxOfAll
  <2>3. F[1 .. k] = stricter(F[1 .. k - 1], rules[k], left, out)
    BY <1>5, <2>1, <2>2
  <2> QED BY <2>1, <2>3
<1>9. Evaluate(rules, left, out) = h[n]
  BY <1>1, <1>6
<1> QED BY <1>7, <1>8, <1>9

\* The first k rules that may bind, and what the strictest of them is.
May(rules, left, out, k) ==
  {i \in 1 .. k : rules[i].name \notin out /\ Match(rules[i], left) /\ rules[i].enforced}

\* Rule i is the first of the strictest of C.
Leads(rules, C, i) ==
  /\ i \in C
  /\ \A j \in C : /\ strictness(rules[j]) <= strictness(rules[i])
                  /\ strictness(rules[j]) = strictness(rules[i]) => i <= j

\* b is what binds of the rules C.
Bound(b, rules, C) ==
  IF C = {} THEN b = NoRule ELSE \E i \in C : Leads(rules, C, i) /\ b = rules[i]

\* Strictness is a number.
LEMMA StrictnessType ==
  ASSUME NEW r \in Rule PROVE strictness(r) \in Nat
BY DEF Rule, Require, strictness

\* One rule more.
LEMMA BoundStep ==
  ASSUME NEW rules \in Seq(Rule), NEW left, NEW out, NEW k \in 1 .. Len(rules), NEW b,
         Bound(b, rules, May(rules, left, out, k - 1))
  PROVE  Bound(stricter(b, rules[k], left, out), rules, May(rules, left, out, k))
<1> DEFINE C == May(rules, left, out, k - 1)
           D == May(rules, left, out, k)
           c == stricter(b, rules[k], left, out)
           can == rules[k].name \notin out /\ Match(rules[k], left) /\ rules[k].enforced
<1>1. k \in Nat \ {0} /\ \A i \in 1 .. k : i \in 1 .. Len(rules) /\ rules[i] \in Rule
  OBVIOUS
<1>2. \A i \in 1 .. k : strictness(rules[i]) \in Nat
  BY <1>1, StrictnessType
<1>3. D = IF can THEN C \cup {k} ELSE C
  BY <1>1 DEF May
<1>4. C \subseteq 1 .. k - 1 /\ k \notin C
  BY <1>1 DEF May
<1>5. \A i \in C : rules[i] # NoRule
  BY DEF May, NoRule
<1> HIDE DEF C, D, can
<1>6. CASE ~can
  <2>1. c = b
    BY <1>6 DEF stricter, can
  <2> QED BY <1>3, <1>6, <2>1 DEF C, D
<1>7. CASE can /\ C = {}
  <2>1. b = NoRule
    BY <1>7 DEF Bound, C
  <2>2. c = rules[k]
    BY <1>7, <2>1 DEF stricter, can
  <2>3. D = {k} /\ Leads(rules, D, k)
    BY <1>1, <1>2, <1>3, <1>7 DEF Leads
  <2> QED BY <2>2, <2>3 DEF Bound, D
<1>8. CASE can /\ C # {}
  <2>1. PICK i \in C : Leads(rules, C, i) /\ b = rules[i]
    BY <1>8 DEF Bound, C
  <2>2. i \in 1 .. k - 1 /\ i \in 1 .. k /\ k \in 1 .. k /\ i < k
    BY <1>1, <1>4
  <2>3. CASE strictness(rules[k]) > strictness(rules[i])
    <3>1. c = rules[k]
      BY <1>8, <2>1, <2>3 DEF stricter, can
    <3>2. ASSUME NEW j \in C
          PROVE  j \in 1 .. k /\ strictness(rules[j]) < strictness(rules[k])
      <4>1. j \in 1 .. k /\ strictness(rules[j]) <= strictness(rules[i])
        BY <1>1, <1>4, <2>1 DEF Leads
      <4> QED BY <1>2, <2>2, <2>3, <4>1
    <3>3. Leads(rules, D, k)
      BY <1>2, <1>3, <1>8, <2>2, <3>2 DEF Leads
    <3> QED BY <1>3, <1>8, <3>1, <3>3 DEF Bound, D
  <2>4. CASE ~(strictness(rules[k]) > strictness(rules[i]))
    <3>1. c = b
      BY <1>5, <2>1, <2>4 DEF stricter
    <3>2. Leads(rules, D, i)
      BY <1>2, <1>3, <1>8, <2>1, <2>2, <2>4 DEF Leads
    <3> QED BY <1>3, <1>8, <2>1, <3>1, <3>2 DEF Bound, D
  <2> QED BY <2>3, <2>4
<1> QED BY <1>6, <1>7, <1>8

\* Evaluate: the first of the strictest binds.
LEMMA EvaluateBinds ==
  ASSUME NEW rules \in Seq(Rule), NEW left, NEW out
  PROVE  Bound(Evaluate(rules, left, out), rules, May(rules, left, out, Len(rules)))
<1>1. PICK h : /\ h[0] = NoRule
               /\ \A k \in 1 .. Len(rules) : h[k] = stricter(h[k - 1], rules[k], left, out)
               /\ Evaluate(rules, left, out) = h[Len(rules)]
  BY EvaluateSteps
<1> DEFINE T == {k \in 0 .. Len(rules) : ~Bound(h[k], rules, May(rules, left, out, k))}
<1>2. T = {}
  <2> SUFFICES ASSUME T # {} PROVE FALSE
    OBVIOUS
  <2>1. PICK k \in T : \A m \in T : k <= m
    <3>1. T \in SUBSET Nat
      OBVIOUS
    <3> HIDE DEF T
    <3> QED BY <3>1, LeastNat
  <2>2. k \in 0 .. Len(rules) /\ ~Bound(h[k], rules, May(rules, left, out, k))
    OBVIOUS
  <2>3. k # 0
    BY <1>1, <2>2 DEF Bound, May
  <2>4. k - 1 \in 0 .. Len(rules) /\ k \in 1 .. Len(rules) /\ k - 1 \notin T
    BY <2>1, <2>2, <2>3
  <2>5. Bound(h[k - 1], rules, May(rules, left, out, k - 1))
    BY <2>4
  <2>6. h[k] = stricter(h[k - 1], rules[k], left, out)
    BY <1>1, <2>4
  <2> QED BY <2>2, <2>4, <2>5, <2>6, BoundStep
<1>3. Len(rules) \in 0 .. Len(rules)
  OBVIOUS
<1>4. Bound(h[Len(rules)], rules, May(rules, left, out, Len(rules)))
  BY <1>2, <1>3
<1> QED BY <1>1, <1>4

\* Types; a name is written once, and what is lifted is the name of a local rule.
RuleInv ==
  /\ ruleList \in Seq(Rule)
  /\ planLeftPct \in [Windows -> LeftPct \cup {Unknown}]
  /\ \A i, j \in DOMAIN ruleList : ruleList[i].name = ruleList[j].name => i = j
  /\ lifted \subseteq extraRules

\* There are no rules.
LEMMA RuleInit == RulesInit => RuleInv
<1> SUFFICES ASSUME RulesInit PROVE RuleInv
  OBVIOUS
<1>1. ruleList = << >> /\ lifted = {} /\ planLeftPct \in [Windows -> LeftPct \cup {Unknown}]
  BY DEF RulesInit
<1> QED BY <1>1 DEF RuleInv

\* Every step keeps the names apart and the lifts local.
LEMMA RuleStep == RuleInv /\ [RulesNext]_ruleVars => RuleInv'
<1> SUFFICES ASSUME RuleInv, [RulesNext]_ruleVars PROVE RuleInv'
  OBVIOUS
<1> USE DEF RuleInv
<1>1. ASSUME NEW r \in RuleMenu, AddRule(r) PROVE RuleInv'
  <2>1. r \in Rule /\ ruleList' = Append(ruleList, r) /\ UNCHANGED <<planLeftPct, lifted>>
        /\ r.name \notin Names
    BY <1>1, RulesAssumption DEF AddRule
  <2>2. ruleList' \in Seq(Rule) /\ Len(ruleList') = Len(ruleList) + 1
    BY <2>1
  <2>3. /\ DOMAIN ruleList = 1 .. Len(ruleList) /\ DOMAIN ruleList' = 1 .. Len(ruleList) + 1
        /\ \A i \in DOMAIN ruleList : i \in DOMAIN ruleList' /\ ruleList'[i] = ruleList[i]
        /\ ruleList'[Len(ruleList) + 1] = r /\ Len(ruleList) \in Nat
    BY <2>1
  <2>4. \A i \in DOMAIN ruleList : ruleList[i].name # r.name
    BY <2>1 DEF Names
  <2>5. \A i, j \in DOMAIN ruleList' : ruleList'[i].name = ruleList'[j].name => i = j
    BY <2>3, <2>4
  <2>6. extraRules \subseteq extraRules'
    BY <2>3 DEF extraRules, Names
  <2> QED BY <2>1, <2>2, <2>5, <2>6
<1>2. ASSUME NEW i \in DOMAIN ruleList, Promote(i) PROVE RuleInv'
  <2>1. ruleList' = [ruleList EXCEPT ![i].enforced = TRUE] /\ UNCHANGED <<planLeftPct, lifted>>
    BY <1>2 DEF Promote
  <2>2. ruleList[i] \in Rule
    OBVIOUS
  <2>3. [ruleList[i] EXCEPT !.enforced = TRUE] \in Rule
    BY <2>2 DEF Rule
  <2>4. ruleList' \in Seq(Rule) /\ DOMAIN ruleList' = DOMAIN ruleList
    BY <2>1, <2>3
  <2>5. \A j \in DOMAIN ruleList : ruleList'[j].name = ruleList[j].name /\ ruleList'[j].org = ruleList[j].org
    BY <2>1, <2>2 DEF Rule
  <2>6. extraRules' = extraRules
    BY <2>4, <2>5 DEF extraRules, Names
  <2> QED BY <2>1, <2>4, <2>5, <2>6
<1>3. CASE Lift
  BY <1>3 DEF Lift, extraRules, Names
<1>4. CASE Measure
  BY <1>4 DEF Measure, extraRules, Names
<1>5. CASE UNCHANGED ruleVars
  BY <1>5 DEF ruleVars, extraRules, Names
<1> QED BY <1>1, <1>2, <1>3, <1>4, <1>5 DEF RulesNext

\* Match reads a plan condition as an operator does.
LEMMA MatchMeans ==
  ASSUME RuleInv, NEW r \in Rule
  PROVE  Match(r, planLeftPct) <=> Means(r)
<1> DEFINE h == planLeftPct["5h"]
           w == planLeftPct["week"]
           v == planLeft(planLeftPct, r.window)
<1>1. h \in Nat \cup {Unknown} /\ w \in Nat \cup {Unknown} /\ r.number \in Nat /\ Unknown = -1
  BY RulesAssumption DEF RuleInv, Windows, Rule, Unknown
<1>2. r.op \in {"<", "<=", ">", ">=", "==", "none"} /\ r.window \in {"5h", "week", "any"}
  BY DEF Rule, Ops, Windows, AnyWindow
<1>3. \A x : x \in KnownWindows(r.window) <=>
              \/ x = "5h" /\ r.window # "week" /\ h # Unknown
              \/ x = "week" /\ r.window # "5h" /\ w # Unknown
  BY <1>2 DEF KnownWindows, Windows, AnyWindow
<1>4. v = IF r.window # "any" THEN planLeftPct[r.window]
          ELSE IF h = Unknown \/ (w # Unknown /\ w < h) THEN w ELSE h
  BY DEF planLeft, AnyWindow
<1> HIDE DEF h, w, v
<1>5. CASE r.op = "none"
  BY <1>5 DEF Match, Means
<1>6. CASE r.op # "none"
  <2>1. Match(r, planLeftPct) <=> v # Unknown /\ compare(v, r.op, r.number)
    BY <1>6 DEF Match, v
  <2>2. v # Unknown <=> KnownWindows(r.window) # {}
    BY <1>1, <1>2, <1>3, <1>4 DEF h, w
  <2> DEFINE K == KnownWindows(r.window)
  <2>3. ASSUME v # Unknown
        PROVE  /\ v \in Nat
               /\ \E x \in K : planLeftPct[x] = v
               /\ \A x \in K : planLeftPct[x] >= v /\ planLeftPct[x] \in Nat
    BY <1>1, <1>2, <1>3, <1>4, <2>3 DEF h, w
  <2>4. CASE v = Unknown
    BY <1>6, <2>1, <2>2, <2>4 DEF Means
  <2>5. CASE v # Unknown
    <3>1. PICK x \in K : planLeftPct[x] = v
      BY <2>3, <2>5
    <3>2. v \in Nat /\ \A y \in K : planLeftPct[y] >= v /\ planLeftPct[y] \in Nat
      BY <2>3, <2>5
    <3>3. K # {}
      BY <3>1
    <3> HIDE DEF K
    <3>4. Means(r) <=> CASE r.op = ">=" -> \A y \in K : planLeftPct[y] >= r.number
                       [] r.op = ">"  -> (\A y \in K : planLeftPct[y] >= r.number)
                                         /\ ~(\E y \in K : planLeftPct[y] = r.number)
                       [] r.op = "<=" -> \E y \in K : planLeftPct[y] <= r.number
                       [] r.op = "<"  -> \E y \in K : planLeftPct[y] < r.number
                       [] r.op = "==" -> (\A y \in K : planLeftPct[y] >= r.number)
                                         /\ (\E y \in K : planLeftPct[y] = r.number)
      BY <1>6, <3>3, Zenon DEF Means, K
    <3>5. CASE r.op = ">="
      <4>1. Match(r, planLeftPct) <=> v >= r.number
        BY <2>1, <2>5, <3>5 DEF compare
      <4>2. Means(r) <=> \A y \in K : planLeftPct[y] >= r.number
        BY <3>4, <3>5
      <4> QED BY <1>1, <3>1, <3>2, <4>1, <4>2
    <3>6. CASE r.op = ">"
      <4>1. Match(r, planLeftPct) <=> v > r.number
        BY <2>1, <2>5, <3>6 DEF compare
      <4>2. Means(r) <=> (\A y \in K : planLeftPct[y] >= r.number)
                          /\ ~(\E y \in K : planLeftPct[y] = r.number)
        BY <3>4, <3>6
      <4> QED BY <1>1, <3>1, <3>2, <4>1, <4>2
    <3>7. CASE r.op = "<="
      <4>1. Match(r, planLeftPct) <=> v <= r.number
        BY <2>1, <2>5, <3>7 DEF compare
      <4>2. Means(r) <=> \E y \in K : planLeftPct[y] <= r.number
        BY <3>4, <3>7
      <4> QED BY <1>1, <3>1, <3>2, <4>1, <4>2
    <3>8. CASE r.op = "<"
      <4>1. Match(r, planLeftPct) <=> v < r.number
        BY <2>1, <2>5, <3>8 DEF compare
      <4>2. Means(r) <=> \E y \in K : planLeftPct[y] < r.number
        BY <3>4, <3>8
      <4> QED BY <1>1, <3>1, <3>2, <4>1, <4>2
    <3>9. CASE r.op = "=="
      <4>1. Match(r, planLeftPct) <=> v = r.number
        BY <2>1, <2>5, <3>9 DEF compare
      <4>2. Means(r) <=> (\A y \in K : planLeftPct[y] >= r.number)
                          /\ (\E y \in K : planLeftPct[y] = r.number)
        BY <3>4, <3>9
      <4> QED BY <1>1, <3>1, <3>2, <4>1, <4>2
    <3> QED BY <1>2, <1>6, <3>5, <3>6, <3>7, <3>8, <3>9
  <2> QED BY <2>4, <2>5
<1> QED BY <1>5, <1>6

\* Of the rules whose condition holds and that no allowance lifts, the first
\* of the strictest binds, and an organisation's rule is never lifted
\* (Evaluate, ReadVerdict's second evaluation without the lifted rules).
THEOREM StrictestBinds == RulesSpec => []BindsTheStrictest
<1>1. RuleInv => BindsTheStrictest
  <2> SUFFICES ASSUME RuleInv PROVE BindsTheStrictest
    OBVIOUS
  <2> DEFINE n == Len(ruleList)
             all == May(ruleList, planLeftPct, {}, n)
             rest == May(ruleList, planLeftPct, lifted, n)
             first == Evaluate(ruleList, planLeftPct, {})
             second == Evaluate(ruleList, planLeftPct, lifted)
             binding == {i \in DOMAIN ruleList : Binds(i)}
  <2>1. ruleList \in Seq(Rule) /\ DOMAIN ruleList = 1 .. n /\ n \in Nat
    BY DEF RuleInv
  <2>2. Bound(first, ruleList, all) /\ Bound(second, ruleList, rest)
    BY <2>1, EvaluateBinds
  <2>3. ASSUME NEW i \in 1 .. n PROVE Binds(i) <=> i \in rest
    <3>1. ruleList[i] \in Rule
      BY <2>1
    <3>2. Match(ruleList[i], planLeftPct) <=> Means(ruleList[i])
      BY <3>1, MatchMeans
    <3>3. ruleList[i].org => ruleList[i].name \notin lifted
      BY <2>1 DEF RuleInv, extraRules, Names
    <3> QED BY <3>2, <3>3 DEF Binds, May
  <2>4. binding = rest
    BY <2>1, <2>3 DEF May
  <2>5. Bound(Binding, ruleList, rest)
    <3>1. CASE first = NoRule
      <4>1. Binding = first
        BY <3>1 DEF Binding
      <4>2. \A i \in all : ruleList[i] # NoRule
        BY DEF May, NoRule
      <4>3. all = {}
        BY <2>2, <3>1, <4>2 DEF Bound
      <4>4. rest = {}
        BY <4>3 DEF May
      <4> QED BY <3>1, <4>1, <4>4 DEF Bound
    <3>2. CASE first # NoRule /\ ~ \E i \in DOMAIN ruleList :
             ruleList[i].enforced /\ Match(ruleList[i], planLeftPct) /\ ruleList[i].name \in lifted
      <4>1. Binding = first
        BY <3>2 DEF Binding
      <4>2. rest = all
        BY <2>1, <3>2 DEF May
      <4> QED BY <2>2, <4>1, <4>2
    <3>3. CASE first # NoRule /\ \E i \in DOMAIN ruleList :
             ruleList[i].enforced /\ Match(ruleList[i], planLeftPct) /\ ruleList[i].name \in lifted
      <4>1. Binding = second
        BY <3>3 DEF Binding
      <4> QED BY <2>2, <4>1
    <3> QED BY <3>1, <3>2, <3>3
  <2> DEFINE strictest == {i \in binding : \A j \in binding :
                             strictness(ruleList[j]) <= strictness(ruleList[i])}
  <2>6. CASE binding = {}
    BY <2>4, <2>5, <2>6 DEF Bound, BindsTheStrictest
  <2>7. CASE binding # {}
    <3>1. PICK i \in rest : Leads(ruleList, rest, i) /\ Binding = ruleList[i]
      BY <2>4, <2>5, <2>7 DEF Bound
    <3>2. i \in strictest
      BY <2>4, <3>1 DEF Leads
    <3>3. ASSUME NEW j \in strictest PROVE i <= j
      <4>1. j \in rest /\ j \in 1 .. n /\ i \in 1 .. n
        BY <2>1, <2>4
      <4>2. strictness(ruleList[j]) \in Nat /\ strictness(ruleList[i]) \in Nat
        BY <2>1, <4>1, StrictnessType
      <4>3. strictness(ruleList[i]) <= strictness(ruleList[j])
        BY <3>2
      <4>4. strictness(ruleList[j]) <= strictness(ruleList[i])
        BY <3>2
      <4> QED BY <3>1, <4>1, <4>2, <4>3, <4>4 DEF Leads
    <3>4. \E k \in strictest : (\A j \in strictest : k <= j) /\ Binding = ruleList[k]
      BY <3>1, <3>2, <3>3
    <3> QED BY <2>7, <3>4 DEF BindsTheStrictest
  <2> QED BY <2>6, <2>7
<1> QED BY <1>1, RuleInit, RuleStep, PTL DEF RulesSpec

-----------------------------------------------------------------------------
(***************************************************************************)
(* LoopIsCounted of LoopBreaker.                                           *)
(*                                                                         *)
(* The log is the end of the session's calls, so what is read is the last  *)
(* window and one call more (LoopInv).  The last progress there is no      *)
(* earlier than the whole session's (LaterInTheWindow), so the calls since *)
(* are an end of the session's since its last (SinceTail), and a loop of   *)
(* an end is a loop of the whole (TailLooping): the figure is never more.  *)
(* Where the window remembers the edits, a loop that fits is found in full *)
(* (CountedInFull); a longer one is counted by the rounds that fit, for a  *)
(* loop found shorter would go round through the whole window, as two      *)
(* cycles that overlap by both periods do (CyclesMeet, CountedByRounds).   *)
(***************************************************************************)

\* How many rounds of p calls fit in n.
LEMMA RoundsFit ==
  ASSUME NEW n \in Nat, NEW p \in Nat \ {0}, NEW r \in Nat
  PROVE  n \div p \in Nat /\ (r <= n \div p <=> p * r <= n)
<1>1. PICK q \in Nat, s \in 0 .. p - 1 : q = n \div p /\ n = q * p + s
  BY DivMod
<1>2. CASE r < q
  <2>1. r * p + p <= q * p
    BY <1>2, Apart
  <2>2. r * p \in Nat /\ q * p \in Nat /\ p * r = r * p
    OBVIOUS
  <2> QED BY <1>1, <1>2, <2>1, <2>2
<1>3. CASE r = q
  <2>1. q * p \in Nat /\ p * r = q * p
    BY <1>3
  <2> QED BY <1>1, <1>3, <2>1
<1>4. CASE q < r
  <2>1. q * p + p <= r * p
    BY <1>4, Apart
  <2>2. r * p \in Nat /\ q * p \in Nat /\ p * r = r * p
    OBVIOUS
  <2> QED BY <1>1, <1>4, <2>1, <2>2
<1> QED BY <1>2, <1>3, <1>4

\* A round back, the remainder is the same.
LEMMA RoundBack ==
  ASSUME NEW p \in Nat \ {0}, NEW j \in Nat
  PROVE  j % p \in 0 .. p - 1 /\ IF j < p THEN j % p = j ELSE j % p = (j - p) % p
<1>1. PICK q \in Nat, s \in 0 .. p - 1 : q = j \div p /\ s = j % p /\ j = q * p + s
  BY DivMod
<1>2. CASE j < p
  <2>1. q * p + s = 0 * p + j /\ j \in 0 .. p - 1 /\ 0 \in Nat
    BY <1>1, <1>2
  <2>2. s = j
    BY <2>1, DivUnique
  <2> QED BY <1>1, <1>2, <2>2
<1>3. CASE j >= p
  <2>1. j - p \in Nat
    BY <1>3
  <2>2. PICK b \in Nat, t \in 0 .. p - 1 : b = (j - p) \div p /\ t = (j - p) % p /\ j - p = b * p + t
    BY <2>1, DivMod
  <2>3. (b + 1) * p = b * p + p /\ b * p \in Nat /\ b + 1 \in Nat
    OBVIOUS
  <2>4. q * p + s = (b + 1) * p + t
    BY <1>1, <2>2, <2>3
  <2>5. s = t
    BY <2>3, <2>4, DivUnique
  <2> QED BY <1>1, <1>3, <2>2, <2>5
<1> QED BY <1>2, <1>3

\* The j-th call before the last.
At(t, j) == t[Len(t) - j]

\* The last m calls go round in p.
Cyclic(t, p, m) == \A j \in p .. m - 1 : At(t, j) = At(t, j - p)

\* Going round in p is repeating the call p before.
LEMMA RoundsCyclic ==
  ASSUME NEW t, NEW p \in Nat \ {0}, NEW m \in Nat
  PROVE  (\A j \in 0 .. m - 1 : At(t, j) = At(t, j % p)) <=> Cyclic(t, p, m)
<1>1. ASSUME \A j \in 0 .. m - 1 : At(t, j) = At(t, j % p) PROVE Cyclic(t, p, m)
  <2> SUFFICES ASSUME NEW j \in p .. m - 1 PROVE At(t, j) = At(t, j - p)
    BY DEF Cyclic
  <2>1. j \in 0 .. m - 1 /\ j - p \in 0 .. m - 1 /\ ~(j < p) /\ j \in Nat
    OBVIOUS
  <2>2. j % p = (j - p) % p
    BY <2>1, RoundBack
  <2> QED BY <1>1, <2>1, <2>2
<1>2. ASSUME Cyclic(t, p, m), NEW i \in 0 .. m - 1, At(t, i) # At(t, i % p) PROVE FALSE
  <2> DEFINE T == {j \in 0 .. m - 1 : At(t, j) # At(t, j % p)}
  <2>1. T \in SUBSET Nat /\ T # {}
    <3>1. i \in T
      BY <1>2
    <3>2. T \subseteq Nat
      OBVIOUS
    <3> QED BY <3>1, <3>2
  <2>2. PICK j \in T : \A k \in T : j <= k
    <3> HIDE DEF T
    <3> QED BY <2>1, LeastNat
  <2>3. j \in 0 .. m - 1 /\ At(t, j) # At(t, j % p) /\ j \in Nat
    OBVIOUS
  <2>4. ~(j < p)
    BY <2>3, RoundBack
  <2>5. j - p \in 0 .. m - 1 /\ j \in p .. m - 1 /\ j - p < j
    BY <2>3, <2>4
  <2>6. j - p \notin T
    BY <2>2, <2>3, <2>5
  <2>7. At(t, j - p) = At(t, (j - p) % p)
    BY <2>5, <2>6
  <2>8. j % p = (j - p) % p
    BY <2>3, <2>4, RoundBack
  <2>9. At(t, j) = At(t, j - p)
    BY <1>2, <2>5 DEF Cyclic
  <2> QED BY <2>3, <2>7, <2>8, <2>9
<1> QED BY <1>1, <1>2

\* What Repeats counts.
LEMMA RepeatsIs ==
  ASSUME NEW t \in Seq(Tools), NEW p \in Nat \ {0}, p <= Len(t)
  PROVE  /\ Repeats(t, p) \in Nat \ {0}
         /\ p * Repeats(t, p) \in Nat /\ p * Repeats(t, p) <= Len(t)
         /\ Cyclic(t, p, p * Repeats(t, p))
         /\ \A r \in Nat \ {0} : p * r <= Len(t) /\ Cyclic(t, p, p * r) => r <= Repeats(t, p)
<1> DEFINE n == Len(t) \div p
           T == {r \in 1 .. n : \A j \in 0 .. p * r - 1 : t[Len(t) - j] = t[Len(t) - (j % p)]}
<1>1. Len(t) \in Nat /\ n \in Nat
  BY RoundsFit
<1>2. \A r \in Nat : p * r \in Nat /\ (r <= n <=> p * r <= Len(t))
  BY <1>1, RoundsFit
<1>3. Repeats(t, p) = Max(T)
  BY DEF Repeats
<1>4. ASSUME NEW r \in Nat
      PROVE  (\A j \in 0 .. p * r - 1 : t[Len(t) - j] = t[Len(t) - (j % p)]) <=> Cyclic(t, p, p * r)
  BY <1>2, RoundsCyclic DEF At
<1> HIDE DEF n
<1>5. ASSUME NEW r PROVE r \in T <=> r \in Nat \ {0} /\ p * r <= Len(t) /\ Cyclic(t, p, p * r)
  <2>1. r \in 1 .. n <=> r \in Nat \ {0} /\ p * r <= Len(t)
    <3>1. CASE r \in Nat
      <4>1. r <= n <=> p * r <= Len(t)
        BY <1>2, <3>1
      <4>2. r \in 1 .. n <=> r # 0 /\ r <= n
        BY <1>1, <3>1
      <4> QED BY <3>1, <4>1, <4>2
    <3>2. CASE r \notin Nat
      BY <1>1, <3>2
    <3> QED BY <3>1, <3>2
  <2>2. r \in T <=> /\ r \in 1 .. n
                   /\ \A j \in 0 .. p * r - 1 : t[Len(t) - j] = t[Len(t) - (j % p)]
    OBVIOUS
  <2> HIDE DEF T
  <2> QED BY <1>4, <2>1, <2>2
<1>6. T \in SUBSET (1 .. n)
  OBVIOUS
<1> HIDE DEF T
<1>7. 1 \in T
  <2>1. p * 1 = p /\ 1 \in Nat \ {0}
    OBVIOUS
  <2>2. Cyclic(t, p, p)
    BY DEF Cyclic
  <2> QED BY <1>5, <2>1, <2>2
<1>8. Max(T) \in T /\ \A y \in T : Max(T) >= y
  BY <1>1, <1>6, <1>7, MaxOfPositions
<1> DEFINE R == Repeats(t, p)
<1>9. R \in T /\ \A y \in T : R >= y
  BY <1>3, <1>8
<1> HIDE DEF R
<1>10. R \in Nat \ {0} /\ p * R <= Len(t) /\ Cyclic(t, p, p * R)
  BY <1>5, <1>9
<1>11. p * R \in Nat
  BY <1>2, <1>10
<1>12. ASSUME NEW r \in Nat \ {0}, p * r <= Len(t), Cyclic(t, p, p * r) PROVE r <= R
  <2>1. r \in T
    BY <1>5, <1>12
  <2> QED BY <1>9, <1>10, <2>1
<1> QED BY <1>10, <1>11, <1>12 DEF R

\* t is the end of u.
IsTail(t, u) ==
  /\ t \in Seq(Tools) /\ u \in Seq(Tools)
  /\ 1 <= Len(t) /\ Len(t) <= Len(u)
  /\ \A j \in 0 .. Len(t) - 1 : At(t, j) = At(u, j)

\* The end goes round where the whole does.
LEMMA TailCyclic ==
  ASSUME NEW t, NEW u, IsTail(t, u), NEW p \in Nat \ {0}, NEW m \in Nat, m <= Len(t)
  PROVE  Cyclic(t, p, m) <=> Cyclic(u, p, m)
<1>1. Len(t) \in Nat
  BY DEF IsTail
<1>2. ASSUME NEW j \in p .. m - 1 PROVE At(t, j) = At(u, j) /\ At(t, j - p) = At(u, j - p)
  <2>1. j \in 0 .. Len(t) - 1 /\ j - p \in 0 .. Len(t) - 1
    BY <1>1
  <2> QED BY <2>1 DEF IsTail
<1> QED BY <1>2 DEF Cyclic

\* The end has the latest calls of the whole.
LEMMA TailSame ==
  ASSUME NEW t, NEW u, IsTail(t, u), NEW p \in Nat, p <= Len(t)
  PROVE  AllSame(t, p) <=> AllSame(u, p)
<1>1. Len(t) \in Nat /\ Len(u) \in Nat /\ 1 <= Len(t)
  BY DEF IsTail
<1>2. ASSUME NEW j \in 0 .. p - 1 PROVE t[Len(t) - j] = u[Len(u) - j]
  <2>1. j \in 0 .. Len(t) - 1
    BY <1>1
  <2> QED BY <2>1 DEF IsTail, At
<1>3. t[Len(t)] = u[Len(u)]
  <2>1. 0 \in 0 .. Len(t) - 1 /\ Len(t) - 0 = Len(t) /\ Len(u) - 0 = Len(u)
    BY <1>1
  <2> QED BY <2>1 DEF IsTail, At
<1> QED BY <1>2, <1>3 DEF AllSame

\* The calls of the loop of period p.
Span(t, p) == p * Repeats(t, p)

\* What more rounds add.
LEMMA MoreRounds ==
  ASSUME NEW p \in Nat \ {0}, NEW r \in Nat, NEW s \in Nat
  PROVE  /\ p * r \in Nat /\ p * s \in Nat
         /\ r <= s <=> p * r <= p * s
         /\ r < s => p * r + p <= p * s
<1>1. p * r = r * p /\ p * s = s * p /\ p * r \in Nat /\ p * s \in Nat
  OBVIOUS
<1>2. r < s => r * p + p <= s * p
  BY Apart
<1>3. s < r => s * p + p <= r * p
  BY Apart
<1>4. r = s => p * r = p * s
  OBVIOUS
<1> QED BY <1>1, <1>2, <1>3, <1>4

\* The end has no more rounds than the whole, and as many when they fit in it.
LEMMA TailRepeats ==
  ASSUME NEW t, NEW u, IsTail(t, u), NEW p \in Nat \ {0}, p <= Len(t)
  PROVE  /\ Repeats(t, p) \in Nat \ {0} /\ Repeats(u, p) \in Nat \ {0}
         /\ Span(t, p) \in Nat /\ Span(u, p) \in Nat
         /\ Repeats(t, p) <= Repeats(u, p) /\ Span(t, p) <= Span(u, p)
         /\ Span(u, p) <= Len(t) => Repeats(t, p) = Repeats(u, p) /\ Span(t, p) = Span(u, p)
<1>1. t \in Seq(Tools) /\ u \in Seq(Tools) /\ p <= Len(u) /\ Len(t) \in Nat /\ Len(u) \in Nat
      /\ Len(t) <= Len(u)
  BY DEF IsTail
<1> DEFINE a == Repeats(t, p)
           b == Repeats(u, p)
<1>2. /\ a \in Nat \ {0} /\ p * a \in Nat /\ p * a <= Len(t) /\ Cyclic(t, p, p * a)
      /\ \A r \in Nat \ {0} : p * r <= Len(t) /\ Cyclic(t, p, p * r) => r <= a
  BY <1>1, RepeatsIs
<1>3. /\ b \in Nat \ {0} /\ p * b \in Nat /\ p * b <= Len(u) /\ Cyclic(u, p, p * b)
      /\ \A r \in Nat \ {0} : p * r <= Len(u) /\ Cyclic(u, p, p * r) => r <= b
  BY <1>1, RepeatsIs
<1>4. Span(t, p) = p * a /\ Span(u, p) = p * b
  BY DEF Span
<1> HIDE DEF a, b
<1>5. a <= b
  <2>1. Cyclic(u, p, p * a)
    BY <1>2, TailCyclic
  <2>2. p * a <= Len(u)
    BY <1>1, <1>2
  <2> QED BY <1>2, <1>3, <2>1, <2>2
<1>6. p * a <= p * b
  BY <1>2, <1>3, <1>5, MoreRounds
<1>7. ASSUME p * b <= Len(t) PROVE a = b
  <2>1. Cyclic(t, p, p * b)
    BY <1>3, <1>7, TailCyclic
  <2>2. b <= a
    BY <1>2, <1>3, <1>7, <2>1
  <2> QED BY <1>2, <1>3, <1>5, <2>2
<1> QED BY <1>2, <1>3, <1>4, <1>5, <1>6, <1>7 DEF a, b

\* A loop of the end is a loop of the whole; a loop of the whole that fits in
\* the end is a loop of the end.
LEMMA TailLooping ==
  ASSUME NEW t, NEW u, IsTail(t, u), NEW p \in Nat \ {0}
  PROVE  /\ Looping(t, p) => Looping(u, p) /\ Span(t, p) <= Span(u, p)
         /\ Looping(u, p) /\ Span(u, p) <= Len(t) => Looping(t, p) /\ Span(t, p) = Span(u, p)
<1>0. Len(t) \in Nat /\ Len(u) \in Nat /\ Len(t) <= Len(u) /\ u \in Seq(Tools) /\ MinRepeats \in Nat
  BY LoopAssumption DEF IsTail
<1>1. ASSUME Looping(t, p) PROVE Looping(u, p) /\ Span(t, p) <= Span(u, p)
  <2>1. p <= Len(t)
    BY <1>1 DEF Looping
  <2>2. p <= Len(u)
    BY <1>0, <2>1
  <2>3. /\ Repeats(t, p) \in Nat \ {0} /\ Repeats(u, p) \in Nat \ {0}
        /\ Repeats(t, p) <= Repeats(u, p) /\ Span(t, p) <= Span(u, p)
    BY <2>1, TailRepeats
  <2>4. AllSame(t, p) <=> AllSame(u, p)
    BY <2>1, TailSame
  <2> QED BY <1>0, <1>1, <2>2, <2>3, <2>4 DEF Looping
<1>2. ASSUME Looping(u, p), Span(u, p) <= Len(t) PROVE Looping(t, p) /\ Span(t, p) = Span(u, p)
  <2>1. p <= Len(u)
    BY <1>2 DEF Looping
  <2>2. Repeats(u, p) \in Nat \ {0}
    BY <1>0, <2>1, RepeatsIs
  <2>3. p <= Span(u, p) /\ Span(u, p) \in Nat
    <3>1. 1 <= Repeats(u, p) /\ p * 1 = p
      BY <2>2
    <3> QED BY <2>2, <3>1, MoreRounds DEF Span
  <2>4. p <= Len(t)
    BY <1>0, <1>2, <2>3
  <2>5. Repeats(t, p) = Repeats(u, p) /\ Span(t, p) = Span(u, p)
    BY <1>2, <2>4, TailRepeats
  <2>6. AllSame(t, p) <=> AllSame(u, p)
    BY <2>4, TailSame
  <2> QED BY <1>2, <2>4, <2>5, <2>6 DEF Looping
<1> QED BY <1>1, <1>2

\* The last progress after each call.
LEMMA ProgressSteps ==
  ASSUME NEW S, NEW calls \in Seq(S)
  PROVE  \E h : /\ h[0] = 1
                /\ \A k \in 1 .. Len(calls) : h[k] = progress(calls, h[k - 1], k)
                /\ lastProgress(calls) = h[Len(calls)]
<1> DEFINE n == Len(calls)
           Q == [i \in DOMAIN calls |-> i]
           V == Nat
           G == [kb \in (1 .. n) \X V |-> progress(calls, kb[2], kb[1])]
           F == CHOOSE f : f = [s \in SUBSET DOMAIN Q |->
                  IF s = {} THEN 1 ELSE progress(calls, f[s \ {Max(s)}], Q[Max(s)])]
           h == [k \in 0 .. n |-> F[1 .. k]]
<1>1. n \in Nat /\ DOMAIN Q = 1 .. n /\ \A i \in 1 .. n : Q[i] = i
  BY LoopAssumption
<1>2. ASSUME NEW k \in 1 .. n, NEW b \in V PROVE progress(calls, b, k) \in V
  BY DEF progress
<1>3. G \in [(1 .. n) \X V -> V]
  BY <1>2
<1>4. \E f : f = [s \in SUBSET DOMAIN Q |->
              IF s = {} THEN 1 ELSE progress(calls, f[s \ {Max(s)}], Q[Max(s)])]
  <2>1. 1 \in V
    OBVIOUS
  <2>2. PICK f : IsLeftFold(f, n, V, 1, G)
    <3> HIDE DEF G, V, n
    <3> QED BY <1>1, <1>3, <2>1, LeftFoldExists
  <2>3. ASSUME NEW s \in SUBSET (1 .. n)
        PROVE  f[s] = IF s = {} THEN 1 ELSE progress(calls, f[s \ {Max(s)}], Q[Max(s)])
    <3>1. s # {} => Max(s) \in 1 .. n /\ f[s \ {Max(s)}] \in V
      BY <1>1, <2>2, MaxOfPositions DEF IsLeftFold
    <3>2. s # {} => Q[Max(s)] = Max(s)
      BY <1>1, <3>1
    <3>3. s # {} => G[<<Max(s), f[s \ {Max(s)}]>>] = progress(calls, f[s \ {Max(s)}], Max(s))
      BY <3>1
    <3>4. f[s] = IF s = {} THEN 1 ELSE G[<<Max(s), f[s \ {Max(s)}]>>]
      BY <2>2 DEF IsLeftFold
    <3> HIDE DEF G, Q
    <3> QED BY <3>2, <3>3, <3>4
  <2>4. f = [s \in SUBSET (1 .. n) |-> f[s]]
    BY <2>2 DEF IsLeftFold
  <2> HIDE DEF Q, n
  <2>5. f = [s \in SUBSET DOMAIN Q |-> IF s = {} THEN 1 ELSE progress(calls, f[s \ {Max(s)}], Q[Max(s)])]
    BY <1>1, <2>3, <2>4, Zenon
  <2> QED BY <2>5
<1>5. F = [s \in SUBSET DOMAIN Q |->
             IF s = {} THEN 1 ELSE progress(calls, F[s \ {Max(s)}], Q[Max(s)])]
  BY <1>4
<1>6. lastProgress(calls) = F[DOMAIN Q]
  BY DEF lastProgress, FoldLeft, MapThenFoldSet
<1> HIDE DEF F, V, G, Q
<1>7. h[0] = 1
  BY <1>1, <1>5
<1>8. ASSUME NEW k \in 1 .. n PROVE h[k] = progress(calls, h[k - 1], k)
  <2>1. 1 .. k \in SUBSET DOMAIN Q /\ 1 .. k # {} /\ k \in Nat \ {0} /\ k - 1 \in 0 .. n /\ k \in 0 .. n
    <3> HIDE DEF n, h
    <3>1. k \in Nat \ {0} /\ k \in 0 .. n /\ k - 1 \in 0 .. n
      BY <1>1
    <3>2. k \in 1 .. k /\ 1 .. k \subseteq 1 .. n
      BY <1>1
    <3> QED BY <1>1, <3>1, <3>2
  <2>2. Max(1 .. k) = k /\ (1 .. k) \ {k} = 1 .. k - 1 /\ Q[k] = k
    BY <1>1, <2>1, MaxOfAll
  <2>3. F[1 .. k] = progress(calls, F[1 .. k - 1], k)
    BY <1>5, <2>1, <2>2
  <2> QED BY <2>1, <2>3
<1>9. lastProgress(calls) = h[n]
  BY <1>1, <1>6
<1> QED BY <1>7, <1>8, <1>9

\* The best loop after each period.
LEMMA BetterSteps ==
  ASSUME NEW calls
  PROVE  \E h : /\ h[0] = NoLoop
                /\ \A k \in 1 .. MaxPeriod : h[k] = better(sinceProgress(calls), h[k - 1], k)
                /\ ReadLoop(calls) = h[MaxPeriod]
<1> DEFINE n == MaxPeriod
           Q == [p \in 1 .. MaxPeriod |-> p]
           V == {NoLoop} \cup {[calls |-> Min({p * Repeats(sinceProgress(calls), p), LoopWindow}), period |-> p] : p \in 1 .. MaxPeriod}
           G == [kb \in (1 .. n) \X V |-> better(sinceProgress(calls), kb[2], kb[1])]
           F == CHOOSE f : f = [s \in SUBSET DOMAIN Q |->
                  IF s = {} THEN NoLoop ELSE better(sinceProgress(calls), f[s \ {Max(s)}], Q[Max(s)])]
           h == [k \in 0 .. n |-> F[1 .. k]]
<1>1. n \in Nat /\ DOMAIN Q = 1 .. n /\ \A i \in 1 .. n : Q[i] = i
  BY LoopAssumption
<1>2. ASSUME NEW k \in 1 .. n, NEW b \in V PROVE better(sinceProgress(calls), b, k) \in V
  BY DEF better
<1>3. G \in [(1 .. n) \X V -> V]
  BY <1>2
<1>4. \E f : f = [s \in SUBSET DOMAIN Q |->
              IF s = {} THEN NoLoop ELSE better(sinceProgress(calls), f[s \ {Max(s)}], Q[Max(s)])]
  <2>1. NoLoop \in V
    OBVIOUS
  <2>2. PICK f : IsLeftFold(f, n, V, NoLoop, G)
    <3> HIDE DEF G, V, n
    <3> QED BY <1>1, <1>3, <2>1, LeftFoldExists
  <2>3. ASSUME NEW s \in SUBSET (1 .. n)
        PROVE  f[s] = IF s = {} THEN NoLoop ELSE better(sinceProgress(calls), f[s \ {Max(s)}], Q[Max(s)])
    <3>1. s # {} => Max(s) \in 1 .. n /\ f[s \ {Max(s)}] \in V
      BY <1>1, <2>2, MaxOfPositions DEF IsLeftFold
    <3>2. s # {} => Q[Max(s)] = Max(s)
      BY <1>1, <3>1
    <3>3. s # {} => G[<<Max(s), f[s \ {Max(s)}]>>] = better(sinceProgress(calls), f[s \ {Max(s)}], Max(s))
      BY <3>1
    <3>4. f[s] = IF s = {} THEN NoLoop ELSE G[<<Max(s), f[s \ {Max(s)}]>>]
      BY <2>2 DEF IsLeftFold
    <3> HIDE DEF G, Q
    <3> QED BY <3>2, <3>3, <3>4
  <2>4. f = [s \in SUBSET (1 .. n) |-> f[s]]
    BY <2>2 DEF IsLeftFold
  <2> HIDE DEF Q, n
  <2>5. f = [s \in SUBSET DOMAIN Q |-> IF s = {} THEN NoLoop ELSE better(sinceProgress(calls), f[s \ {Max(s)}], Q[Max(s)])]
    BY <1>1, <2>3, <2>4, Zenon
  <2> QED BY <2>5
<1>5. F = [s \in SUBSET DOMAIN Q |->
             IF s = {} THEN NoLoop ELSE better(sinceProgress(calls), F[s \ {Max(s)}], Q[Max(s)])]
  BY <1>4
<1>6. ReadLoop(calls) = F[DOMAIN Q]
  BY DEF ReadLoop, FoldLeft, MapThenFoldSet
<1> HIDE DEF F, V, G, Q
<1>7. h[0] = NoLoop
  BY <1>1, <1>5
<1>8. ASSUME NEW k \in 1 .. n PROVE h[k] = better(sinceProgress(calls), h[k - 1], k)
  <2>1. 1 .. k \in SUBSET DOMAIN Q /\ 1 .. k # {} /\ k \in Nat \ {0} /\ k - 1 \in 0 .. n /\ k \in 0 .. n
    <3> HIDE DEF n, h
    <3>1. k \in Nat \ {0} /\ k \in 0 .. n /\ k - 1 \in 0 .. n
      BY <1>1
    <3>2. k \in 1 .. k /\ 1 .. k \subseteq 1 .. n
      BY <1>1
    <3> QED BY <1>1, <3>1, <3>2
  <2>2. Max(1 .. k) = k /\ (1 .. k) \ {k} = 1 .. k - 1 /\ Q[k] = k
    BY <1>1, <2>1, MaxOfAll
  <2>3. F[1 .. k] = better(sinceProgress(calls), F[1 .. k - 1], k)
    BY <1>5, <2>1, <2>2
  <2> QED BY <2>1, <2>3
<1>9. ReadLoop(calls) = h[n]
  BY <1>1, <1>6
<1> QED BY <1>7, <1>8, <1>9

\* The lesser of two.
LEMMA MinOfTwo ==
  ASSUME NEW a \in Nat, NEW b \in Nat
  PROVE  Min({a, b}) = IF a <= b THEN a ELSE b
<1> DEFINE m == IF a <= b THEN a ELSE b
<1>1. m \in {a, b} /\ \A y \in {a, b} : m <= y
  OBVIOUS
<1>2. ASSUME NEW x \in {a, b}, \A y \in {a, b} : x <= y PROVE x = m
  BY <1>2
<1> HIDE DEF m
<1>3. Min({a, b}) = m
  BY <1>1, <1>2 DEF Min
<1> QED BY <1>3 DEF m

\* A loop has two rounds at least, and fits in the calls.
LEMMA LoopSpan ==
  ASSUME NEW t \in Seq(Tools), NEW p \in Nat \ {0}, Looping(t, p)
  PROVE  /\ Repeats(t, p) \in Nat \ {0} /\ Span(t, p) \in Nat
         /\ 0 < Span(t, p) /\ Span(t, p) <= Len(t) /\ p <= Len(t)
<1>1. p <= Len(t)
  BY DEF Looping
<1>2. Repeats(t, p) \in Nat \ {0} /\ p * Repeats(t, p) \in Nat /\ p * Repeats(t, p) <= Len(t)
  BY <1>1, RepeatsIs
<1>3. p * 1 <= p * Repeats(t, p) /\ p * 1 = p
  BY <1>2, MoreRounds, 1 \in Nat, \A r \in Nat \ {0} : 1 <= r /\ r \in Nat
<1> QED BY <1>1, <1>2, <1>3 DEF Span

\* b is the reading of the loops L of t: the longest, as far as the window
\* tells their lengths apart.
Best(b, t, L) ==
  IF L = {} THEN b = NoLoop
  ELSE \E p \in L : /\ b.period = p
                    /\ b.calls = IF Span(t, p) <= LoopWindow THEN Span(t, p) ELSE LoopWindow
                    /\ \A q \in L : Span(t, q) <= Span(t, p) \/ Span(t, p) > LoopWindow

\* The periods up to k that loop.
LoopsTo(t, k) == {p \in 1 .. k : Looping(t, p)}

\* One period more.
LEMMA BestStep ==
  ASSUME NEW t \in Seq(Tools), NEW b, NEW k \in 1 .. MaxPeriod, Best(b, t, LoopsTo(t, k - 1))
  PROVE  Best(better(t, b, k), t, LoopsTo(t, k))
<1>0. MaxPeriod \in Nat /\ LoopWindow \in Nat \ {0} /\ k \in Nat \ {0}
  BY LoopAssumption
<1> DEFINE L == LoopsTo(t, k - 1)
           M == LoopsTo(t, k)
<1>1. ASSUME NEW p \in M PROVE p \in Nat \ {0} /\ Span(t, p) \in Nat /\ 0 < Span(t, p)
  <2>1. p \in Nat \ {0} /\ Looping(t, p)
    BY <1>0 DEF LoopsTo
  <2> QED BY <2>1, LoopSpan
<1>2. M = IF Looping(t, k) THEN L \cup {k} ELSE L
  BY <1>0 DEF LoopsTo
<1>3. better(t, b, k) = IF Looping(t, k) /\ Span(t, k) > b.calls
                        THEN [calls |-> Min({Span(t, k), LoopWindow}), period |-> k] ELSE b
  BY DEF better, Span
<1>b. Best(b, t, L)
  OBVIOUS
<1> SUFFICES Best(better(t, b, k), t, M)
  OBVIOUS
<1> HIDE DEF L, M
<1>4. CASE ~Looping(t, k)
  BY <1>2, <1>3, <1>4, <1>b
<1>5. CASE Looping(t, k)
  <2>1. M = L \cup {k} /\ k \in M
    BY <1>2, <1>5
  <2>2. Span(t, k) \in Nat /\ 0 < Span(t, k)
    BY <1>1, <2>1
  <2> DEFINE c == [calls |-> Min({Span(t, k), LoopWindow}), period |-> k]
  <2>3. c.period = k /\ c.calls = IF Span(t, k) <= LoopWindow THEN Span(t, k) ELSE LoopWindow
    BY <1>0, <2>2, MinOfTwo
  <2> HIDE DEF c
  <2>4. CASE L = {}
    <3>1. b = NoLoop
      BY <1>b, <2>4 DEF Best
    <3>2. better(t, b, k) = c
      BY <1>3, <1>5, <2>2, <3>1 DEF NoLoop, c
    <3> QED BY <2>1, <2>2, <2>3, <2>4, <3>2 DEF Best
  <2>5. CASE L # {}
    <3>1. PICK p \in L : /\ b.period = p
                         /\ b.calls = IF Span(t, p) <= LoopWindow THEN Span(t, p) ELSE LoopWindow
                         /\ \A q \in L : Span(t, q) <= Span(t, p) \/ Span(t, p) > LoopWindow
      BY <1>b, <2>5 DEF Best
    <3>2. p \in M /\ Span(t, p) \in Nat
      BY <1>1, <2>1
    <3>3. CASE Span(t, k) > b.calls
      <4>1. better(t, b, k) = c
        BY <1>3, <1>5, <3>3 DEF c
      <4>2. ASSUME NEW q \in M PROVE Span(t, q) <= Span(t, k) \/ Span(t, k) > LoopWindow
        <5>1. Span(t, q) \in Nat
          BY <1>1
        <5>2. CASE q = k
          BY <5>1, <5>2
        <5>3. CASE q \in L
          BY <1>0, <2>2, <3>1, <3>2, <3>3, <5>1, <5>3
        <5> QED BY <2>1, <5>2, <5>3
      <4> QED BY <2>1, <2>3, <4>1, <4>2 DEF Best
    <3>4. CASE ~(Span(t, k) > b.calls)
      <4>1. better(t, b, k) = b
        BY <1>3, <3>4
      <4>2. ASSUME NEW q \in M PROVE Span(t, q) <= Span(t, p) \/ Span(t, p) > LoopWindow
        <5>1. CASE q = k
          BY <1>0, <2>2, <3>1, <3>2, <3>4, <5>1
        <5>2. CASE q \in L
          BY <3>1, <5>2
        <5> QED BY <2>1, <5>1, <5>2
      <4> QED BY <2>1, <3>1, <3>2, <4>1, <4>2 DEF Best
    <3> QED BY <3>3, <3>4
  <2> QED BY <2>4, <2>5
<1> QED BY <1>4, <1>5

\* ReadLoop finds the longest loop since the last progress.
LEMMA ReadLoopIs ==
  ASSUME NEW calls, sinceProgress(calls) \in Seq(Tools)
  PROVE  Best(ReadLoop(calls), sinceProgress(calls), LoopsTo(sinceProgress(calls), MaxPeriod))
<1> DEFINE t == sinceProgress(calls)
<1>1. PICK h : /\ h[0] = NoLoop
               /\ \A k \in 1 .. MaxPeriod : h[k] = better(t, h[k - 1], k)
               /\ ReadLoop(calls) = h[MaxPeriod]
  BY BetterSteps
<1>2. t \in Seq(Tools) /\ MaxPeriod \in Nat \ {0}
  BY LoopAssumption
<1> HIDE DEF t
<1> DEFINE T == {k \in 0 .. MaxPeriod : ~Best(h[k], t, LoopsTo(t, k))}
<1>3. T = {}
  <2> SUFFICES ASSUME T # {} PROVE FALSE
    OBVIOUS
  <2>1. PICK k \in T : \A j \in T : k <= j
    <3>1. T \in SUBSET Nat
      OBVIOUS
    <3> HIDE DEF T
    <3> QED BY <3>1, LeastNat
  <2>2. k \in 0 .. MaxPeriod /\ ~Best(h[k], t, LoopsTo(t, k))
    OBVIOUS
  <2>3. k # 0
    <3>1. LoopsTo(t, 0) = {}
      BY DEF LoopsTo
    <3> QED BY <1>1, <2>2, <3>1 DEF Best
  <2>4. k \in 1 .. MaxPeriod /\ k - 1 \in 0 .. MaxPeriod /\ k - 1 < k
    BY <1>2, <2>2, <2>3
  <2>5. k - 1 \notin T
    <3> HIDE DEF T
    <3> QED BY <2>1, <2>2, <2>4
  <2>6. Best(h[k - 1], t, LoopsTo(t, k - 1))
    BY <2>4, <2>5
  <2>7. h[k] = better(t, h[k - 1], k)
    BY <1>1, <2>4
  <2> QED BY <1>2, <2>2, <2>4, <2>6, <2>7, BestStep
<1>4. MaxPeriod \in 0 .. MaxPeriod
  BY <1>2
<1>5. Best(h[MaxPeriod], t, LoopsTo(t, MaxPeriod))
  BY <1>3, <1>4
<1> QED BY <1>1, <1>5 DEF t

\* The longest loop of the whole.
Longest(u) ==
  IF LoopsTo(u, MaxPeriod) = {} THEN 0 ELSE Max({Span(u, p) : p \in LoopsTo(u, MaxPeriod)})

\* What the longest is.
LEMMA LongestIs ==
  ASSUME NEW u \in Seq(Tools)
  PROVE  /\ Longest(u) \in 0 .. Len(u)
         /\ \A p \in LoopsTo(u, MaxPeriod) : Span(u, p) \in Nat /\ Span(u, p) <= Longest(u)
         /\ Longest(u) > 0 => \E p \in LoopsTo(u, MaxPeriod) : Longest(u) = Span(u, p)
<1> DEFINE L == LoopsTo(u, MaxPeriod)
           T == {Span(u, p) : p \in L}
<1>1. ASSUME NEW p \in L PROVE Span(u, p) \in 1 .. Len(u)
  <2>1. p \in Nat \ {0} /\ Looping(u, p)
    BY LoopAssumption DEF LoopsTo
  <2> QED BY <2>1, LoopSpan
<1>2. Len(u) \in Nat
  OBVIOUS
<1>3. Longest(u) = IF L = {} THEN 0 ELSE Max(T)
  BY DEF Longest
<1>4. CASE L = {}
  BY <1>2, <1>3, <1>4
<1>5. CASE L # {}
  <2>1. T \in SUBSET (1 .. Len(u)) /\ T # {}
    BY <1>1, <1>5
  <2>2. \A y : y \in T <=> \E p \in L : y = Span(u, p)
    OBVIOUS
  <2> HIDE DEF T, L
  <2>3. Max(T) \in T /\ \A y \in T : Max(T) >= y
    BY <1>2, <2>1, MaxOfPositions
  <2>4. Longest(u) = Max(T) /\ Max(T) \in 1 .. Len(u)
    BY <1>3, <1>5, <2>1, <2>3
  <2>5. ASSUME NEW p \in L PROVE Span(u, p) \in Nat /\ Span(u, p) <= Longest(u)
    <3>1. Span(u, p) \in T
      BY <2>2
    <3>2. Max(T) >= Span(u, p) /\ Span(u, p) \in 1 .. Len(u)
      BY <1>1, <2>3, <3>1
    <3> QED BY <2>4, <3>2
  <2>6. \E p \in L : Longest(u) = Span(u, p)
    BY <2>2, <2>3, <2>4
  <2>7. Longest(u) \in 0 .. Len(u)
    BY <2>4
  <2> QED BY <2>5, <2>6, <2>7 DEF L
<1> QED BY <1>4, <1>5

\* A loop of the end is one of the whole.
LEMMA TailLoops ==
  ASSUME NEW t, NEW u, IsTail(t, u), NEW p \in LoopsTo(t, MaxPeriod)
  PROVE  /\ p \in LoopsTo(u, MaxPeriod) /\ p \in Nat \ {0}
         /\ Span(t, p) \in Nat /\ 0 < Span(t, p) /\ Span(t, p) <= Len(t)
         /\ Span(u, p) \in Nat /\ Span(t, p) <= Span(u, p)
<1>1. p \in 1 .. MaxPeriod /\ p \in Nat \ {0} /\ Looping(t, p)
  BY LoopAssumption DEF LoopsTo
<1>2. t \in Seq(Tools) /\ u \in Seq(Tools)
  BY DEF IsTail
<1>3. Looping(u, p) /\ Span(t, p) <= Span(u, p)
  BY <1>1, TailLooping
<1>4. Span(t, p) \in Nat /\ 0 < Span(t, p) /\ Span(t, p) <= Len(t) /\ Span(u, p) \in Nat
  BY <1>1, <1>2, <1>3, LoopSpan
<1> QED BY <1>1, <1>3, <1>4 DEF LoopsTo

\* The reading of the end never exceeds the whole.
LEMMA NeverMore ==
  ASSUME NEW t, NEW u, IsTail(t, u), NEW b, Best(b, t, LoopsTo(t, MaxPeriod))
  PROVE  b.calls <= Longest(u)
<1>0. LoopWindow \in Nat /\ u \in Seq(Tools)
  BY LoopAssumption DEF IsTail
<1>1. Longest(u) \in Nat /\ \A p \in LoopsTo(u, MaxPeriod) : Span(u, p) \in Nat /\ Span(u, p) <= Longest(u)
  <2>1. Len(u) \in Nat
    BY <1>0
  <2> QED BY <1>0, <2>1, LongestIs
<1>2. CASE LoopsTo(t, MaxPeriod) = {}
  BY <1>1, <1>2 DEF Best, NoLoop
<1>3. CASE LoopsTo(t, MaxPeriod) # {}
  <2>1. PICK p \in LoopsTo(t, MaxPeriod) :
           b.calls = IF Span(t, p) <= LoopWindow THEN Span(t, p) ELSE LoopWindow
    BY <1>3 DEF Best
  <2>2. Span(t, p) \in Nat /\ Span(u, p) \in Nat /\ Span(t, p) <= Span(u, p) /\ Span(u, p) <= Longest(u)
    BY <1>1, TailLoops
  <2> QED BY <1>0, <1>1, <2>1, <2>2
<1> QED BY <1>2, <1>3

\* A loop the window holds is counted in full.
LEMMA CountedInFull ==
  ASSUME NEW t, NEW u, IsTail(t, u), NEW b, Best(b, t, LoopsTo(t, MaxPeriod)),
         Longest(u) <= LoopWindow, Longest(u) <= Len(t)
  PROVE  b.calls = Longest(u)
<1>0. LoopWindow \in Nat /\ u \in Seq(Tools) /\ Len(u) \in Nat /\ Len(t) \in Nat
  BY LoopAssumption DEF IsTail
<1>1. /\ Longest(u) \in Nat
      /\ \A p \in LoopsTo(u, MaxPeriod) : Span(u, p) \in Nat /\ Span(u, p) <= Longest(u)
      /\ Longest(u) > 0 => \E p \in LoopsTo(u, MaxPeriod) : Longest(u) = Span(u, p)
  BY <1>0, LongestIs
<1>2. ASSUME NEW p \in LoopsTo(u, MaxPeriod)
      PROVE  p \in LoopsTo(t, MaxPeriod) /\ Span(t, p) = Span(u, p)
  <2>1. p \in 1 .. MaxPeriod /\ p \in Nat \ {0} /\ Looping(u, p)
    BY LoopAssumption DEF LoopsTo
  <2>2. Span(u, p) <= Len(t)
    BY <1>0, <1>1
  <2> QED BY <2>1, <2>2, TailLooping DEF LoopsTo
<1>3. CASE Longest(u) = 0
  <2>1. ASSUME NEW p \in LoopsTo(t, MaxPeriod) PROVE FALSE
    <3>1. p \in LoopsTo(u, MaxPeriod) /\ 0 < Span(t, p) /\ Span(t, p) \in Nat
          /\ Span(u, p) \in Nat /\ Span(t, p) <= Span(u, p)
      BY TailLoops
    <3> QED BY <1>1, <1>3, <3>1
  <2> QED BY <1>3, <2>1 DEF Best, NoLoop
<1>4. CASE Longest(u) > 0
  <2>1. PICK q \in LoopsTo(u, MaxPeriod) : Longest(u) = Span(u, q)
    BY <1>1, <1>4
  <2>2. q \in LoopsTo(t, MaxPeriod) /\ Span(t, q) = Longest(u)
    BY <1>2, <2>1
  <2>3. PICK p \in LoopsTo(t, MaxPeriod) :
          /\ b.calls = IF Span(t, p) <= LoopWindow THEN Span(t, p) ELSE LoopWindow
          /\ Span(t, q) <= Span(t, p) \/ Span(t, p) > LoopWindow
    BY <2>2 DEF Best
  <2>4. Span(t, p) \in Nat /\ Span(t, p) <= Longest(u)
    <3>1. p \in LoopsTo(u, MaxPeriod) /\ Span(t, p) \in Nat /\ Span(u, p) \in Nat /\ Span(t, p) <= Span(u, p)
      BY TailLoops
    <3> QED BY <1>1, <3>1
  <2> QED BY <1>0, <1>1, <2>2, <2>3, <2>4
<1> QED BY <1>1, <1>3, <1>4

\* Two cycles that overlap by the sum of their periods are one.
LEMMA CyclesMeet ==
  ASSUME NEW t, NEW p \in Nat \ {0}, NEW q \in Nat \ {0}, NEW l \in Nat, NEW m \in Nat,
         p + q <= l, m <= l + q, Cyclic(t, p, l), Cyclic(t, q, m)
  PROVE  Cyclic(t, p, m)
<1> SUFFICES ASSUME NEW j \in p .. m - 1 PROVE At(t, j) = At(t, j - p)
  BY DEF Cyclic
<1>1. CASE j < l
  BY <1>1 DEF Cyclic
<1>2. CASE j >= l
  <2>1. j \in q .. m - 1 /\ j - q \in p .. l - 1 /\ j - p \in q .. m - 1
    BY <1>2
  <2>2. At(t, j) = At(t, j - q) /\ At(t, j - q) = At(t, (j - q) - p) /\ At(t, j - p) = At(t, (j - p) - q)
    BY <2>1 DEF Cyclic
  <2>3. (j - q) - p = (j - p) - q
    OBVIOUS
  <2> QED BY <2>2, <2>3
<1> QED BY <1>1, <1>2

\* A loop longer than the window is counted by the rounds that fit.
LEMMA CountedByRounds ==
  ASSUME NEW t, NEW u, IsTail(t, u), NEW b, Best(b, t, LoopsTo(t, MaxPeriod)),
         Longest(u) > LoopWindow, Len(t) = LoopWindow + 1
  PROVE  /\ b.period \in LoopsTo(u, MaxPeriod)
         /\ b.calls = Min({LoopWindow, b.period * ((LoopWindow + 1) \div b.period)})
<1> DEFINE W == LoopWindow
<1>0. /\ W \in Nat \ {0} /\ u \in Seq(Tools) /\ Len(u) \in Nat /\ t \in Seq(Tools) /\ Len(u) >= Len(t)
      /\ MinRepeats \in Nat /\ MinRepeats >= 2 /\ MaxPeriod \in Nat \ {0} /\ MinRepeats * MaxPeriod <= W + 1
  BY LoopAssumption DEF IsTail
<1>1. PICK q \in LoopsTo(u, MaxPeriod) : Longest(u) = Span(u, q)
  <2>1. Longest(u) \in Nat /\ (Longest(u) > 0 => \E p \in LoopsTo(u, MaxPeriod) : Longest(u) = Span(u, p))
    BY <1>0, LongestIs
  <2> QED BY <1>0, <2>1
<1>2. q \in 1 .. MaxPeriod /\ q \in Nat \ {0} /\ Looping(u, q) /\ Span(u, q) \in Nat /\ W + 1 <= Span(u, q)
  <2>1. q \in 1 .. MaxPeriod /\ q \in Nat \ {0} /\ Looping(u, q)
    BY LoopAssumption DEF LoopsTo
  <2>2. Span(u, q) \in Nat
    BY <1>0, <2>1, LoopSpan
  <2> QED BY <1>0, <1>1, <2>1, <2>2
<1>3. Cyclic(t, q, W + 1)
  <2>1. Cyclic(u, q, Span(u, q))
    <3>1. q <= Len(u)
      BY <1>2 DEF Looping
    <3> QED BY <1>0, <1>2, <3>1, RepeatsIs DEF Span
  <2>2. Cyclic(u, q, W + 1)
    <3>1. q .. (W + 1) - 1 \subseteq q .. Span(u, q) - 1
      BY <1>0, <1>2
    <3> QED BY <2>1, <3>1 DEF Cyclic
  <2>3. W + 1 \in Nat /\ W + 1 <= Len(t)
    BY <1>0
  <2> QED BY <1>2, <2>2, <2>3, TailCyclic
<1>4. PICK n \in Nat : /\ n = (W + 1) \div q
                       /\ \A r \in Nat : r <= n <=> q * r <= W + 1
  <2>1. W + 1 \in Nat
    BY <1>0
  <2>2. (W + 1) \div q \in Nat /\ \A r \in Nat : r <= (W + 1) \div q <=> q * r <= W + 1
    BY <1>2, <2>1, 0 \in Nat, RoundsFit
  <2> QED BY <2>2
<1>5. MinRepeats <= n /\ 2 <= n
  <2>1. q * MinRepeats <= MinRepeats * MaxPeriod
    <3>1. q <= MaxPeriod /\ q \in Nat /\ MinRepeats \in Nat \ {0}
      BY <1>0, <1>2
    <3>2. MinRepeats * q <= MinRepeats * MaxPeriod /\ MinRepeats * q = q * MinRepeats
      BY <1>0, <3>1, MoreRounds
    <3> QED BY <3>2
  <2>2. q * MinRepeats <= W + 1
    <3>1. q * MinRepeats \in Nat /\ MinRepeats * MaxPeriod \in Nat
      BY <1>0, <1>2
    <3> QED BY <1>0, <2>1, <3>1
  <2>3. MinRepeats <= n
    BY <1>0, <1>4, <2>2
  <2> QED BY <1>0, <2>3
<1>6. /\ q * n \in Nat /\ q * n <= W + 1 /\ W + 2 <= q * n + q /\ q * 2 <= q * n
  <2>0. \A r \in Nat : r <= n <=> q * r <= W + 1
    BY <1>4
  <2>1. q * n \in Nat /\ q * n <= W + 1
    <3>1. n <= n
      OBVIOUS
    <3>2. q * n <= W + 1
      BY <2>0, <3>1, Zenon
    <3> QED BY <1>2, <3>2
  <2>2. ~(q * (n + 1) <= W + 1) /\ q * (n + 1) = q * n + q
    <3>1. n + 1 \in Nat /\ ~(n + 1 <= n)
      OBVIOUS
    <3>2. ~(q * (n + 1) <= W + 1)
      BY <2>0, <3>1, Zenon
    <3> QED BY <1>2, <3>2
  <2>3. q * 2 <= q * n
    BY <1>2, <1>5, MoreRounds, 2 \in Nat
  <2> QED BY <1>0, <1>2, <2>1, <2>2, <2>3
<1>7. q \in LoopsTo(t, MaxPeriod) /\ q * n <= Span(t, q) /\ Span(t, q) \in Nat
  <2>1. q <= Len(t)
    BY <1>0, <1>2, <1>6
  <2>2. Cyclic(t, q, q * n)
    BY <1>0, <1>2, <1>3, <1>6 DEF Cyclic
  <2>3. n \in Nat \ {0} /\ q * n <= Len(t)
    BY <1>5, <1>6
  <2>4. n <= Repeats(t, q) /\ Repeats(t, q) \in Nat
    BY <1>0, <1>2, <2>1, <2>2, <2>3, RepeatsIs
  <2>5. q * n <= Span(t, q) /\ Span(t, q) \in Nat
    BY <1>2, <2>4, MoreRounds DEF Span
  <2>6. MinRepeats <= Repeats(t, q) /\ 2 <= Repeats(t, q)
    BY <1>0, <1>5, <2>4
  <2>7. AllSame(t, q) <=> AllSame(u, q)
    BY <1>2, <2>1, TailSame
  <2>8. Looping(t, q)
    BY <1>2, <2>1, <2>6, <2>7 DEF Looping
  <2> QED BY <1>2, <2>5, <2>8 DEF LoopsTo
<1>8. PICK p \in LoopsTo(t, MaxPeriod) :
        /\ b.period = p
        /\ b.calls = IF Span(t, p) <= W THEN Span(t, p) ELSE W
        /\ Span(t, q) <= Span(t, p) \/ Span(t, p) > W
  BY <1>7 DEF Best
<1>9. /\ p \in LoopsTo(u, MaxPeriod) /\ p \in Nat \ {0} /\ Span(t, p) \in Nat
      /\ Span(t, p) <= W + 1 /\ q * n <= Span(t, p)
  <2>1. /\ p \in LoopsTo(u, MaxPeriod) /\ p \in Nat \ {0} /\ Span(t, p) \in Nat
        /\ Span(t, p) <= W + 1
    BY TailLoops
  <2> QED BY <1>0, <1>6, <1>7, <1>8, <2>1
<1>10. PICK m \in Nat : /\ m = (W + 1) \div p
                        /\ \A r \in Nat : r <= m <=> p * r <= W + 1
  <2>1. W + 1 \in Nat
    BY <1>0
  <2>2. (W + 1) \div p \in Nat /\ \A r \in Nat : r <= (W + 1) \div p <=> p * r <= W + 1
    BY <1>9, <2>1, 0 \in Nat, RoundsFit
  <2> QED BY <2>2
<1>11. Span(t, p) = p * m
  <2> DEFINE r == Repeats(t, p)
  <2>1. p <= Len(t)
    BY DEF LoopsTo, Looping
  <2>2. /\ r \in Nat \ {0} /\ Cyclic(t, p, p * r)
        /\ \A k \in Nat \ {0} : p * k <= Len(t) /\ Cyclic(t, p, p * k) => k <= r
    BY <1>0, <1>9, <2>1, RepeatsIs
  <2>3. Span(t, p) = p * r
    BY DEF Span
  <2> HIDE DEF r
  <2>4. r <= m
    BY <1>9, <1>10, <2>2, <2>3
  <2>5. ASSUME r < m PROVE FALSE
    <3>1. p * r + p <= p * m /\ p * m \in Nat /\ p * m <= W + 1
      <4>1. m <= m
        OBVIOUS
      <4>2. p * m <= W + 1
        BY <1>10, <4>1, Zenon
      <4> QED BY <1>9, <2>2, <2>5, <4>2, MoreRounds
    <3>2. p * r \in Nat /\ q * n <= p * r
      BY <1>9, <2>3
    <3>3. p < q
      BY <1>0, <1>2, <1>6, <1>9, <3>1, <3>2
    <3>4. p + q <= p * r /\ W + 1 <= p * r + q
      <4>1. q * 2 = q + q
        BY <1>2
      <4>2. q + q <= q * n /\ W + 2 <= q * n + q /\ q * n \in Nat
        BY <1>6, <4>1
      <4>3. \A x, y \in Nat : q + q <= x /\ W + 2 <= x + q /\ x <= y => p + q <= y /\ W + 1 <= y + q
        BY <1>0, <1>2, <1>9, <3>3
      <4> QED BY <3>2, <4>2, <4>3
    <3>5. W + 1 \in Nat /\ q \in Nat \ {0} /\ p \in Nat \ {0}
      BY <1>0, <1>2, <1>9
    <3>6. Cyclic(t, p, W + 1)
      BY <1>3, <2>2, <3>2, <3>4, <3>5, CyclesMeet
    <3>7. Cyclic(t, p, p * m)
      BY <1>0, <1>9, <3>1, <3>6 DEF Cyclic
    <3>8. m \in Nat \ {0} /\ p * m <= Len(t)
      BY <2>2, <2>5, <3>1
    <3>9. m <= r
      BY <2>2, <3>7, <3>8
    <3> QED BY <2>2, <2>5, <3>9
  <2>6. r = m
    BY <2>2, <2>4, <2>5
  <2> QED BY <2>3, <2>6
<1>12. Min({W, p * m}) = IF W <= p * m THEN W ELSE p * m
  <2>1. p * m \in Nat
    BY <1>9, <1>11
  <2> QED BY <1>0, <2>1, MinOfTwo
<1>13. b.calls = Min({W, p * m})
  <2> HIDE DEF W
  <2> QED BY <1>0, <1>8, <1>9, <1>11, <1>12
<1> QED BY <1>8, <1>9, <1>10, <1>13

\* The latest n calls are an end of the calls.
LEMMA LatestIs ==
  ASSUME NEW s \in Seq(Tools), NEW n \in Nat \ {0}
  PROVE  /\ LatestCalls(s, n) \in Seq(Tools)
         /\ Len(LatestCalls(s, n)) = IF Len(s) > n THEN n ELSE Len(s)
         /\ \A i \in 1 .. Len(LatestCalls(s, n)) :
              LatestCalls(s, n)[i] = s[i + (Len(s) - Len(LatestCalls(s, n)))]
<1> DEFINE a == IF Len(s) > n THEN Len(s) - n + 1 ELSE 1
<1>1. Len(s) \in Nat /\ a \in 1 .. Len(s) + 1
  OBVIOUS
<1>2. LatestCalls(s, n) = SubSeq(s, a, Len(s))
  BY DEF LatestCalls
<1> HIDE DEF a
<1>3. /\ SubSeq(s, a, Len(s)) \in Seq(Tools)
      /\ Len(SubSeq(s, a, Len(s))) = IF a <= Len(s) THEN Len(s) - a + 1 ELSE 0
      /\ \A i \in 1 .. Len(s) - a + 1 : SubSeq(s, a, Len(s))[i] = s[a + i - 1]
  BY <1>1, SubSeqProperties
<1>4. Len(LatestCalls(s, n)) = Len(s) - a + 1
  BY <1>1, <1>2, <1>3
<1>5. Len(LatestCalls(s, n)) = IF Len(s) > n THEN n ELSE Len(s)
  BY <1>1, <1>4 DEF a
<1>6. \A i \in 1 .. Len(s) - a + 1 : a + i - 1 = i + (Len(s) - Len(LatestCalls(s, n)))
  BY <1>1, <1>4
<1>7. \A i \in 1 .. Len(s) - a + 1 : LatestCalls(s, n)[i] = s[i + (Len(s) - Len(LatestCalls(s, n)))]
  BY <1>2, <1>3, <1>6
<1> QED BY <1>2, <1>3, <1>4, <1>5, <1>7

\* c is m without its first d calls.
Drops(c, m, d) ==
  /\ c \in Seq(Tools) /\ m \in Seq(Tools) /\ d \in Nat
  /\ Len(c) + d = Len(m) /\ Len(c) >= 1
  /\ \A i \in 1 .. Len(c) : c[i] = m[i + d]

\* The start moves only to the call at hand.
LEMMA ProgressRange ==
  ASSUME NEW c \in Seq(Tools), NEW h, h[0] = 1,
         \A k \in 1 .. Len(c) : h[k] = progress(c, h[k - 1], k),
         NEW k \in 1 .. Len(c)
  PROVE  h[k] \in 1 .. k
<1> DEFINE T == {i \in 1 .. Len(c) : h[i] \notin 1 .. i}
<1>0. Len(c) \in Nat
  OBVIOUS
<1>1. T = {}
  <2> SUFFICES ASSUME T # {} PROVE FALSE
    OBVIOUS
  <2>1. T \in SUBSET Nat
    OBVIOUS
  <2>2. PICK i \in T : \A j \in T : i <= j
    <3> HIDE DEF T
    <3> QED BY <2>1, LeastNat
  <2>3. i \in 1 .. Len(c) /\ h[i] \notin 1 .. i /\ i \in Nat
    OBVIOUS
  <2>4. h[i] = progress(c, h[i - 1], i)
    BY <2>3
  <2>5. CASE i = 1
    <3>1. h[i - 1] = 1 /\ i \in 1 .. i
      BY <2>5
    <3> QED BY <2>3, <2>4, <2>5, <3>1 DEF progress
  <2>6. CASE i > 1
    <3>1. i - 1 \in 1 .. Len(c) /\ i - 1 < i
      BY <2>3, <2>6
    <3>2. i - 1 \notin T
      <4> HIDE DEF T
      <4> QED BY <2>2, <2>3, <3>1
    <3>3. h[i - 1] \in 1 .. i - 1
      BY <3>1, <3>2
    <3>4. progress(c, h[i - 1], i) \in {h[i - 1], i}
      BY DEF progress
    <3>5. h[i] \in 1 .. i
      BY <2>3, <2>4, <3>3, <3>4
    <3> QED BY <2>3, <3>5
  <2> QED BY <2>3, <2>5, <2>6
<1> QED BY <1>1

\* An edit that has left the window may look like progress, and never the other
\* way round: a window finds its last progress no earlier than the whole does.
LEMMA LaterInTheWindow ==
  ASSUME NEW c, NEW m, NEW d, Drops(c, m, d)
  PROVE  /\ lastProgress(c) \in 1 .. Len(c) /\ lastProgress(m) \in 1 .. Len(m)
         /\ lastProgress(m) <= lastProgress(c) + d
<1>0. /\ c \in Seq(Tools) /\ m \in Seq(Tools) /\ d \in Nat /\ Len(c) \in Nat \ {0} /\ Len(m) \in Nat \ {0}
      /\ Len(c) + d = Len(m) /\ \A i \in 1 .. Len(c) : c[i] = m[i + d]
  BY DEF Drops
<1>1. PICK h : /\ h[0] = 1 /\ \A k \in 1 .. Len(c) : h[k] = progress(c, h[k - 1], k)
               /\ lastProgress(c) = h[Len(c)]
  BY <1>0, ProgressSteps
<1>2. PICK g : /\ g[0] = 1 /\ \A k \in 1 .. Len(m) : g[k] = progress(m, g[k - 1], k)
               /\ lastProgress(m) = g[Len(m)]
  BY <1>0, ProgressSteps
<1>3. \A k \in 1 .. Len(c) : h[k] \in 1 .. k
  BY <1>0, <1>1, ProgressRange
<1>4. \A k \in 1 .. Len(m) : g[k] \in 1 .. k
  BY <1>0, <1>2, ProgressRange
<1> DEFINE T == {k \in 1 .. Len(c) : ~(g[k + d] <= h[k] + d)}
<1>5. T = {}
  <2> SUFFICES ASSUME T # {} PROVE FALSE
    OBVIOUS
  <2>1. T \in SUBSET Nat
    OBVIOUS
  <2>2. PICK k \in T : \A j \in T : k <= j
    <3> HIDE DEF T
    <3> QED BY <2>1, LeastNat
  <2>3. k \in 1 .. Len(c) /\ ~(g[k + d] <= h[k] + d) /\ k \in Nat /\ k + d \in 1 .. Len(m)
    BY <1>0
  <2>4. h[k] = progress(c, h[k - 1], k) /\ h[k] \in 1 .. k /\ g[k + d] \in 1 .. k + d
    BY <1>1, <1>3, <1>4, <2>3
  <2>5. h[k] # k
    BY <1>0, <2>3, <2>4
  <2>6. k > 1
    BY <2>3, <2>4, <2>5
  <2>7. k - 1 \in 1 .. Len(c) /\ (k - 1) + d \in 1 .. Len(m) /\ (k + d) - 1 = (k - 1) + d
    BY <1>0, <2>3, <2>6
  <2>8. k - 1 \notin T
    <3> HIDE DEF T
    <3> QED BY <2>2, <2>3, <2>7
  <2>9. g[(k - 1) + d] <= h[k - 1] + d /\ h[k - 1] \in 1 .. k - 1 /\ g[(k - 1) + d] \in 1 .. (k - 1) + d
    BY <1>3, <1>4, <2>7, <2>8
  <2>10. h[k] = h[k - 1] /\ ~(c[k] \in EditCalls /\ \A j \in h[k - 1] .. k - 1 : c[j] # c[k])
    BY <2>4, <2>5 DEF progress
  <2>11. g[k + d] = progress(m, g[(k - 1) + d], k + d)
    BY <1>2, <2>3, <2>7
  <2>12. ~(m[k + d] \in EditCalls /\ \A j \in g[(k - 1) + d] .. (k + d) - 1 : m[j] # m[k + d])
    <3>1. CASE c[k] \notin EditCalls
      BY <1>0, <2>3, <3>1
    <3>2. CASE \E j \in h[k - 1] .. k - 1 : c[j] = c[k]
      <4>1. PICK j \in h[k - 1] .. k - 1 : c[j] = c[k]
        BY <3>2
      <4>2. j \in 1 .. Len(c) /\ j + d \in g[(k - 1) + d] .. (k + d) - 1
        <5>1. h[k - 1] \in Nat /\ g[(k - 1) + d] \in Nat /\ h[k - 1] >= 1
          BY <2>9
        <5>2. j \in Nat /\ j >= h[k - 1] /\ j <= k - 1
          BY <2>3, <5>1
        <5>3. j \in 1 .. Len(c)
          BY <1>0, <2>3, <5>1, <5>2
        <5>4. g[(k - 1) + d] <= j + d /\ j + d <= (k + d) - 1
          BY <1>0, <2>3, <2>9, <5>1, <5>2
        <5> QED BY <1>0, <2>3, <5>1, <5>2, <5>3, <5>4
      <4>3. m[j + d] = m[k + d]
        BY <1>0, <2>3, <4>1, <4>2
      <4> QED BY <4>2, <4>3
    <3> QED BY <2>10, <3>1, <3>2
  <2>13. g[k + d] = g[(k - 1) + d]
    BY <2>11, <2>12 DEF progress
  <2> QED BY <1>0, <2>3, <2>9, <2>10, <2>13
<1>6. Len(c) \in 1 .. Len(c) /\ Len(m) \in 1 .. Len(m)
  BY <1>0
<1>7. g[Len(c) + d] <= h[Len(c)] + d
  BY <1>5, <1>6
<1> QED BY <1>0, <1>1, <1>2, <1>3, <1>4, <1>6, <1>7

\* The calls since the last progress are the latest ones.
LEMMA SinceIs ==
  ASSUME NEW s \in Seq(Tools), lastProgress(s) \in 1 .. Len(s)
  PROVE  /\ sinceProgress(s) \in Seq(Tools)
         /\ Len(sinceProgress(s)) = Len(s) - lastProgress(s) + 1
         /\ \A j \in 0 .. Len(sinceProgress(s)) - 1 : At(sinceProgress(s), j) = At(s, j)
<1> DEFINE a == lastProgress(s)
           t == SubSeq(s, a, Len(s))
<1>1. sinceProgress(s) = t
  BY DEF sinceProgress
<1>2. Len(s) \in Nat /\ a \in 1 .. Len(s)
  OBVIOUS
<1>3. /\ t \in Seq(Tools)
      /\ Len(t) = Len(s) - a + 1
      /\ \A i \in 1 .. Len(s) - a + 1 : t[i] = s[a + i - 1]
  <2> HIDE DEF a
  <2> QED BY <1>2, SubSeqProperties
<1> HIDE DEF a, t
<1>4. ASSUME NEW j \in 0 .. Len(t) - 1 PROVE t[Len(t) - j] = s[Len(s) - j]
  <2>1. Len(t) - j \in 1 .. Len(s) - a + 1 /\ a + (Len(t) - j) - 1 = Len(s) - j
    BY <1>2, <1>3
  <2> QED BY <1>3, <2>1
<1> QED BY <1>1, <1>3, <1>4 DEF a, At

\* What is left since the window's last progress is an end of what is left
\* since the whole's.
LEMMA SinceTail ==
  ASSUME NEW c, NEW m, NEW d, Drops(c, m, d)
  PROVE  IsTail(sinceProgress(c), sinceProgress(m)) /\ Len(sinceProgress(c)) <= Len(c)
<1>0. /\ c \in Seq(Tools) /\ m \in Seq(Tools) /\ d \in Nat /\ Len(c) \in Nat \ {0} /\ Len(m) \in Nat \ {0}
      /\ Len(c) + d = Len(m) /\ \A i \in 1 .. Len(c) : c[i] = m[i + d]
  BY DEF Drops
<1>1. /\ lastProgress(c) \in 1 .. Len(c) /\ lastProgress(m) \in 1 .. Len(m)
      /\ lastProgress(m) <= lastProgress(c) + d
  BY LaterInTheWindow
<1> DEFINE t == sinceProgress(c)
           u == sinceProgress(m)
<1>2. t \in Seq(Tools) /\ Len(t) = Len(c) - lastProgress(c) + 1 /\ \A j \in 0 .. Len(t) - 1 : At(t, j) = At(c, j)
  BY <1>0, <1>1, SinceIs
<1>3. u \in Seq(Tools) /\ Len(u) = Len(m) - lastProgress(m) + 1 /\ \A j \in 0 .. Len(u) - 1 : At(u, j) = At(m, j)
  BY <1>0, <1>1, SinceIs
<1> HIDE DEF t, u
<1>4. 1 <= Len(t) /\ Len(t) <= Len(u) /\ Len(t) <= Len(c)
  BY <1>0, <1>1, <1>2, <1>3
<1>5. ASSUME NEW j \in 0 .. Len(t) - 1 PROVE At(t, j) = At(u, j)
  <2>1. j \in 0 .. Len(u) - 1 /\ Len(c) - j \in 1 .. Len(c) /\ (Len(c) - j) + d = Len(m) - j
    BY <1>0, <1>2, <1>3, <1>4
  <2>2. At(c, j) = At(m, j)
    BY <1>0, <2>1 DEF At
  <2> QED BY <1>2, <1>3, <2>1, <2>2
<1>6. IsTail(t, u)
  BY <1>2, <1>3, <1>4, <1>5 DEF IsTail
<1> QED BY <1>4, <1>6 DEF t, u

\* The invariant: the log is the end of the session's calls, a window of them
\* at least, and the reading is of the latest window and one call more.
LoopInv ==
  /\ made \in Seq(Tools) /\ callLog \in Seq(Tools)
  /\ Len(callLog) <= Len(made)
  /\ Len(callLog) = Len(made) \/ Len(callLog) >= LoopWindow
  /\ \A i \in 1 .. Len(callLog) : callLog[i] = made[i + (Len(made) - Len(callLog))]
  /\ made # << >> => reading = ReadLoop(Seen)

\* Nothing was called.
LEMMA LoopInvInit == LoopInit => LoopInv
BY DEF LoopInit, LoopInv

\* The session's next call, and what the log then holds of it.
LEMMA LoopInvStep == LoopInv /\ [LoopNext]_loopVars => LoopInv'
<1> SUFFICES ASSUME LoopInv, [LoopNext]_loopVars PROVE LoopInv'
  OBVIOUS
<1>0. LoopWindow \in Nat \ {0} /\ LogCap \in Nat \ {0} /\ LogCap >= LoopWindow
  BY LoopAssumption
<1>i. /\ made \in Seq(Tools) /\ callLog \in Seq(Tools) /\ Len(made) \in Nat /\ Len(callLog) \in Nat
      /\ Len(callLog) <= Len(made)
      /\ Len(callLog) = Len(made) \/ Len(callLog) >= LoopWindow
      /\ \A i \in 1 .. Len(callLog) : callLog[i] = made[i + (Len(made) - Len(callLog))]
  BY DEF LoopInv
<1>1. ASSUME NEW c \in Tools, readLoop(c) PROVE LoopInv'
  <2> DEFINE m == Append(made, c)
             l == Append(callLog, c)
             r == RecentCalls
             s == LatestCalls(m, LoopWindow + 1)
  <2>1. made' = m /\ callLog' = Cut(l) /\ reading' = ReadLoop(Append(r, c))
    BY <1>1 DEF readLoop
  <2>2. /\ m \in Seq(Tools) /\ Len(m) = Len(made) + 1 /\ m # << >>
        /\ \A i \in 1 .. Len(made) : m[i] = made[i]
        /\ m[Len(made) + 1] = c
    BY <1>i, AppendProperties
  <2>3. /\ l \in Seq(Tools) /\ Len(l) = Len(callLog) + 1
        /\ \A i \in 1 .. Len(callLog) : l[i] = callLog[i]
        /\ l[Len(callLog) + 1] = c
    BY <1>i, AppendProperties
  <2>4. /\ r \in Seq(Tools)
        /\ Len(r) = IF Len(callLog) > LoopWindow THEN LoopWindow ELSE Len(callLog)
        /\ \A i \in 1 .. Len(r) : r[i] = callLog[i + (Len(callLog) - Len(r))]
    BY <1>0, <1>i, LatestIs DEF RecentCalls
  <2> HIDE DEF r
  <2>5. /\ Append(r, c) \in Seq(Tools) /\ Len(Append(r, c)) = Len(r) + 1
        /\ \A i \in 1 .. Len(r) : Append(r, c)[i] = r[i]
        /\ Append(r, c)[Len(r) + 1] = c
    BY <2>4, AppendProperties
  <2> HIDE DEF m, l
  <2>6. /\ s \in Seq(Tools)
        /\ Len(s) = IF Len(m) > LoopWindow + 1 THEN LoopWindow + 1 ELSE Len(m)
        /\ \A i \in 1 .. Len(s) : s[i] = m[i + (Len(m) - Len(s))]
    <3>1. LoopWindow + 1 \in Nat \ {0}
      BY <1>0
    <3> QED BY <2>2, <3>1, LatestIs
  <2> HIDE DEF s
  <2>7. Append(r, c) = s
    <3>1. Len(r) \in Nat /\ Len(s) = Len(r) + 1 /\ Len(r) <= Len(callLog)
      BY <1>0, <1>i, <2>2, <2>4, <2>6
    <3>2. ASSUME NEW i \in 1 .. Len(r) PROVE Append(r, c)[i] = s[i]
      <4> DEFINE k == i + (Len(callLog) - Len(r))
      <4>1. k \in 1 .. Len(callLog) /\ k + (Len(made) - Len(callLog)) = i + (Len(m) - Len(s))
        BY <1>i, <2>2, <3>1
      <4> HIDE DEF k
      <4>2. r[i] = callLog[k]
        BY <2>4 DEF k
      <4>3. callLog[k] = made[k + (Len(made) - Len(callLog))]
        BY <1>i, <4>1
      <4>4. k + (Len(made) - Len(callLog)) \in 1 .. Len(made)
        BY <1>i, <4>1
      <4>5. made[i + (Len(m) - Len(s))] = m[i + (Len(m) - Len(s))]
        BY <2>2, <4>1, <4>4
      <4>6. s[i] = m[i + (Len(m) - Len(s))]
        BY <2>6, <3>1
      <4> QED BY <2>5, <4>1, <4>2, <4>3, <4>5, <4>6
    <3>3. s[Len(r) + 1] = c
      <4>1. Len(s) \in 1 .. Len(s) /\ Len(s) + (Len(m) - Len(s)) = Len(made) + 1
        BY <1>i, <2>2, <3>1
      <4> QED BY <2>2, <2>6, <3>1, <4>1
    <3>4. \A i \in 1 .. Len(s) : Append(r, c)[i] = s[i]
      <4>1. \A i \in 1 .. Len(s) : i \in 1 .. Len(r) \/ i = Len(r) + 1
        BY <3>1
      <4> QED BY <2>5, <3>2, <3>3, <4>1
    <3> QED BY <2>5, <2>6, <3>1, <3>4, SeqEqual
  <2>8. reading' = ReadLoop(Seen')
    BY <2>1, <2>7 DEF Seen, s
  <2>9. \A i \in 1 .. Len(l) : l[i] = m[i + (Len(m) - Len(l))]
    <3>1. ASSUME NEW i \in 1 .. Len(callLog) PROVE l[i] = m[i + (Len(m) - Len(l))]
      <4>1. i + (Len(made) - Len(callLog)) \in 1 .. Len(made) /\ Len(m) - Len(l) = Len(made) - Len(callLog)
        BY <1>i, <2>2, <2>3
      <4> QED BY <1>i, <2>2, <2>3, <4>1
    <3>2. l[Len(callLog) + 1] = m[(Len(callLog) + 1) + (Len(m) - Len(l))]
      <4>1. (Len(callLog) + 1) + (Len(m) - Len(l)) = Len(made) + 1
        BY <1>i, <2>2, <2>3
      <4> QED BY <2>2, <2>3, <4>1
    <3>3. \A i \in 1 .. Len(l) : i \in 1 .. Len(callLog) \/ i = Len(callLog) + 1
      BY <1>i, <2>3
    <3> QED BY <3>1, <3>2, <3>3
  <2>10. /\ Cut(l) \in Seq(Tools) /\ Len(Cut(l)) <= Len(m)
         /\ Len(Cut(l)) = Len(m) \/ Len(Cut(l)) >= LoopWindow
         /\ \A i \in 1 .. Len(Cut(l)) : Cut(l)[i] = m[i + (Len(m) - Len(Cut(l)))]
    <3>0. Len(l) \in Nat /\ Len(m) \in Nat /\ Len(l) <= Len(m) /\ (Len(l) = Len(m) \/ Len(l) >= LoopWindow)
      BY <1>0, <1>i, <2>2, <2>3
    <3>1. CASE Len(l) <= LogCap
      <4>1. Cut(l) = l
        BY <1>0, <3>0, <3>1 DEF Cut
      <4> QED BY <2>3, <2>9, <3>0, <4>1
    <3>2. CASE Len(l) > LogCap
      <4> DEFINE x == LatestCalls(l, LoopWindow)
      <4>1. Cut(l) = x
        BY <3>2 DEF Cut
      <4>2. /\ x \in Seq(Tools) /\ Len(x) = IF Len(l) > LoopWindow THEN LoopWindow ELSE Len(l)
            /\ \A i \in 1 .. Len(x) : x[i] = l[i + (Len(l) - Len(x))]
        BY <1>0, <2>3, LatestIs
      <4> HIDE DEF x
      <4>3. Len(x) = LoopWindow /\ Len(x) <= Len(l)
        BY <1>0, <3>0, <3>2, <4>2
      <4>4. ASSUME NEW i \in 1 .. Len(x) PROVE x[i] = m[i + (Len(m) - Len(x))]
        <5>1. i + (Len(l) - Len(x)) \in 1 .. Len(l)
              /\ (i + (Len(l) - Len(x))) + (Len(m) - Len(l)) = i + (Len(m) - Len(x))
          BY <1>0, <3>0, <4>3
        <5>2. l[i + (Len(l) - Len(x))] = m[(i + (Len(l) - Len(x))) + (Len(m) - Len(l))]
          BY <2>9, <5>1
        <5> QED BY <4>2, <5>1, <5>2
      <4>5. x \in Seq(Tools) /\ Len(x) <= Len(m) /\ Len(x) >= LoopWindow
        BY <1>0, <3>0, <4>2, <4>3
      <4> QED BY <4>1, <4>4, <4>5
    <3> QED BY <3>0, <3>1, <3>2, <1>0
  <2> QED BY <2>1, <2>2, <2>8, <2>10 DEF LoopInv
<1>2. CASE UNCHANGED loopVars
  <2>1. made' = made /\ callLog' = callLog /\ reading' = reading
    BY <1>2 DEF loopVars
  <2>2. Seen' = Seen
    BY <2>1 DEF Seen
  <2> QED BY <2>1, <2>2 DEF LoopInv
<1> QED BY <1>1, <1>2 DEF LoopNext

\* What the invariant says of the figure.
LEMMA LoopInvCounts == LoopInv => LoopIsCounted
<1> SUFFICES ASSUME LoopInv, made # << >> PROVE LoopIsCounted
  BY DEF LoopIsCounted
<1>0. LoopWindow \in Nat \ {0} /\ LoopWindow + 1 \in Nat \ {0}
  BY LoopAssumption
<1>1. made \in Seq(Tools) /\ Len(made) \in Nat \ {0} /\ reading = ReadLoop(Seen)
  BY DEF LoopInv
<1>2. /\ Seen \in Seq(Tools)
      /\ Len(Seen) = IF Len(made) > LoopWindow + 1 THEN LoopWindow + 1 ELSE Len(made)
      /\ \A i \in 1 .. Len(Seen) : Seen[i] = made[i + (Len(made) - Len(Seen))]
  BY <1>0, <1>1, LatestIs DEF Seen
<1> DEFINE d == Len(made) - Len(Seen)
           t == sinceProgress(Seen)
           u == Whole
           b == reading
<1>3. Drops(Seen, made, d)
  <2>1. d \in Nat /\ Len(Seen) + d = Len(made) /\ Len(Seen) >= 1
    BY <1>0, <1>1, <1>2
  <2>2. \A i \in 1 .. Len(Seen) : Seen[i] = made[i + d]
    BY <1>2
  <2> HIDE DEF d
  <2> QED BY <1>1, <1>2, <2>1, <2>2 DEF Drops
<1>4. IsTail(t, u) /\ Len(t) <= Len(Seen)
  BY <1>3, SinceTail DEF Whole
<1>5. t \in Seq(Tools) /\ u \in Seq(Tools) /\ Len(t) \in Nat /\ Len(u) \in Nat /\ Len(t) <= Len(u)
  BY <1>4 DEF IsTail
<1>6. Best(b, t, LoopsTo(t, MaxPeriod))
  BY <1>1, <1>5, ReadLoopIs
<1>7. Remembered => Len(t) = IF Len(u) < Len(Seen) THEN Len(u) ELSE Len(Seen)
  BY DEF Remembered
<1>8. Len(u) <= Len(made)
  <2>1. lastProgress(made) \in 1 .. Len(made)
    BY <1>3, LaterInTheWindow
  <2>2. Len(sinceProgress(made)) = Len(made) - lastProgress(made) + 1
    BY <1>1, <2>1, SinceIs
  <2> QED BY <1>1, <2>1, <2>2 DEF Whole
<1> HIDE DEF d, t, u, b
<1>9. b.calls <= Longest(u)
  BY <1>4, <1>6, NeverMore
<1>10. Longest(u) \in 0 .. Len(u)
  BY <1>5, LongestIs
<1>11. ASSUME Remembered, Longest(u) <= LoopWindow PROVE b.calls = Longest(u)
  <2>1. Longest(u) <= Len(t)
    BY <1>0, <1>1, <1>2, <1>5, <1>7, <1>8, <1>10, <1>11
  <2> QED BY <1>4, <1>6, <1>11, <2>1, CountedInFull
<1>12. ASSUME Remembered, ~(Longest(u) <= LoopWindow)
       PROVE  /\ b.period \in LoopsTo(u, MaxPeriod)
              /\ b.calls = Min({LoopWindow, b.period * ((LoopWindow + 1) \div b.period)})
  <2>1. Longest(u) > LoopWindow /\ Len(t) = LoopWindow + 1
    BY <1>0, <1>1, <1>2, <1>5, <1>7, <1>8, <1>10, <1>12
  <2> QED BY <1>4, <1>6, <2>1, CountedByRounds
<1>13. LoopsTo(u, MaxPeriod) = {p \in 1 .. MaxPeriod : Looping(Whole, p)}
  BY DEF LoopsTo, u
<1>14. Longest(u) = IF LoopsTo(u, MaxPeriod) = {} THEN 0
                    ELSE Max({p * Repeats(Whole, p) : p \in LoopsTo(u, MaxPeriod)})
  BY DEF Longest, Span, u
<1>15. b = reading
  BY DEF b
<1> QED BY <1>9, <1>11, <1>12, <1>13, <1>14, <1>15, Zenon DEF LoopIsCounted

\* The figure of the loop breaker (ReadLoop over RecentCalls) never exceeds
\* what the session's whole history shows, however often the log was cut; and
\* while the window remembers the edits it is that figure, or the whole rounds
\* that fit in it.
THEOREM LoopsCounted == LoopSpec => []LoopIsCounted
<1>1. LoopInit => LoopInv
  BY LoopInvInit
<1>2. LoopInv /\ [LoopNext]_loopVars => LoopInv'
  BY LoopInvStep
<1>3. LoopInv => LoopIsCounted
  BY LoopInvCounts
<1> QED BY <1>1, <1>2, <1>3, PTL DEF LoopSpec
=============================================================================
