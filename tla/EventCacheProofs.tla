-------------------------- MODULE EventCacheProofs --------------------------
(***************************************************************************)
(* Two results about the cache, for every number of readers and whatever   *)
(* the writers of the store and the clock do.                              *)
(*                                                                         *)
(* It makes one full read at a time: c.filling[t] is there exactly while   *)
(* one reader is inside its full read, and no reader waits for a read that *)
(* is not under way.                                                       *)
(*                                                                         *)
(* It answers as the store does.  The invariant says when a window is      *)
(* right: below a tail row that still holds its event, and but for the     *)
(* rows the change log names since the window's seq, it holds the stored   *)
(* events.  VACUUM is why that is enough: it moves rows only down and in   *)
(* order, so a row that stayed shows that all below it did.                *)
(***************************************************************************)
EXTENDS EventCache, FiniteSetTheorems, SequenceTheorems,
        WellFoundedInduction, TLAPS

\* Reader r makes a full read: c.filling[t] is its entry.
Reads(r) == call[r].at \in {"filling", "read"}

\* ReadEvents waits on f.done only while somebody is there to close it.
WaiterHasAFill ==
  \A r \in Readers : call[r].at = "waiting" => \E q \in Readers : Reads(q)

\* The fields of a call, whatever they hold.
Shaped(c) ==
  c = [at |-> c.at, from |-> c.from, oldest |-> c.oldest, fresh |-> c.fresh]

CallInv ==
  /\ filling \in BOOLEAN
  /\ call = [r \in Readers |-> call[r]]
  /\ \A r \in Readers : Shaped(call[r])

FillInv ==
  /\ filling => \E r \in Readers : Reads(r)
  /\ \A r \in Readers : Reads(r) \/ call[r].at = "waiting" => filling
  /\ \A q, r \in Readers : Reads(q) /\ Reads(r) => q = r

-----------------------------------------------------------------------------

\* What the steps of a reader make of its call, and of the others.
LEMMA CallSteps ==
  ASSUME CallInv, NEW r \in Readers
  PROVE
    /\ \A start : Begin(r, start) =>
         /\ filling' = filling /\ ~Reads(r) /\ call[r].at # "waiting"
         /\ Shaped(call'[r]) /\ call'[r].at = "looking"
         /\ call' = [q \in Readers |-> IF q = r THEN call'[r] ELSE call[q]]
    /\ Answer(r) \/ AnswerFails(r) \/ CancelWait(r) =>
         /\ filling' = filling /\ ~Reads(r) /\ call'[r] = Idle
         /\ call' = [q \in Readers |-> IF q = r THEN call'[r] ELSE call[q]]
    /\ NeedFull(r) =>
         /\ filling' = TRUE /\ call[r].at = "looking" /\ Shaped(call'[r])
         /\ call'[r].at = (IF filling THEN "waiting" ELSE "filling")
         /\ call' = [q \in Readers |-> IF q = r THEN call'[r] ELSE call[q]]
    /\ Snapshot(r) =>
         /\ filling' = filling /\ Reads(r) /\ Shaped(call'[r]) /\ call'[r].at = "read"
         /\ call' = [q \in Readers |-> IF q = r THEN call'[r] ELSE call[q]]
    /\ Install(r) \/ FillFails(r) =>
         /\ filling' = FALSE /\ Reads(r) /\ call'[r] = Idle
         /\ \A q \in Readers \ {r} :
              /\ Shaped(call'[q])
              /\ call'[q].at = (IF call[q].at = "waiting" THEN "looking" ELSE call[q].at)
         /\ call' = [q \in Readers |-> call'[q]]
PROOF
<1>s. Shaped(call[r]) /\ \A q \in Readers : Shaped(call[q])
  BY DEF CallInv
<1>i. Idle.at = "idle"
  BY DEF Idle
<1>e. \A c : [call EXCEPT ![r] = c] = [q \in Readers |-> IF q = r THEN c ELSE call[q]]
  BY DEF CallInv
<1>1. ASSUME NEW start, Begin(r, start)
      PROVE  /\ filling' = filling /\ ~Reads(r) /\ call[r].at # "waiting"
             /\ Shaped(call'[r]) /\ call'[r].at = "looking"
             /\ call' = [q \in Readers |-> IF q = r THEN call'[r] ELSE call[q]]
  <2> DEFINE b == [at |-> "looking", from |-> start, oldest |-> now - Span, fresh |-> NoCache]
  <2>1. /\ call[r] = Idle /\ filling' = filling
        /\ call' = [q \in Readers |-> IF q = r THEN b ELSE call[q]]
    BY <1>1, <1>e DEF Begin
  <2>2. call'[r] = b
    BY <2>1
  <2>3. Shaped(b) /\ b.at = "looking"
    BY DEF Shaped
  <2> HIDE DEF b
  <2> QED BY <1>i, <2>1, <2>2, <2>3 DEF Reads
<1>2. ASSUME Answer(r) \/ AnswerFails(r) \/ CancelWait(r)
      PROVE  /\ filling' = filling /\ ~Reads(r) /\ call'[r] = Idle
             /\ call' = [q \in Readers |-> IF q = r THEN call'[r] ELSE call[q]]
  <2>1. /\ filling' = filling /\ call[r].at \in {"looking", "waiting"}
        /\ call' = [q \in Readers |-> IF q = r THEN Idle ELSE call[q]]
    BY <1>2, <1>e DEF Answer, AnswerFails, CancelWait, Return, Answerable, Looking
  <2> QED BY <2>1 DEF Reads
<1>3. ASSUME NeedFull(r)
      PROVE  /\ filling' = TRUE /\ call[r].at = "looking" /\ Shaped(call'[r])
             /\ call'[r].at = (IF filling THEN "waiting" ELSE "filling")
             /\ call' = [q \in Readers |-> IF q = r THEN call'[r] ELSE call[q]]
  <2> DEFINE p == IF filling THEN "waiting" ELSE "filling"
  <2>1. filling' = TRUE /\ call[r].at = "looking" /\ call' = [call EXCEPT ![r].at = p]
    BY <1>3 DEF NeedFull, Looking
  <2> HIDE DEF p
  <2>2. call' = [q \in Readers |-> IF q = r THEN [call[r] EXCEPT !.at = p] ELSE call[q]]
    BY <2>1 DEF CallInv
  <2>3. call'[r] = [call[r] EXCEPT !.at = p]
    BY <2>2
  <2>4. Shaped(call'[r]) /\ call'[r].at = p
    BY <1>s, <2>3 DEF Shaped
  <2> QED BY <2>1, <2>2, <2>3, <2>4 DEF p
<1>4. ASSUME Snapshot(r)
      PROVE  /\ filling' = filling /\ Reads(r) /\ Shaped(call'[r]) /\ call'[r].at = "read"
             /\ call' = [q \in Readers |-> IF q = r THEN call'[r] ELSE call[q]]
  <2> DEFINE w == FullRead(call[r].from)
  <2>1. /\ filling' = filling /\ call[r].at = "filling"
        /\ call' = [call EXCEPT ![r].at = "read", ![r].fresh = w]
    BY <1>4 DEF Snapshot
  <2> HIDE DEF w
  <2>2. call' = [q \in Readers |-> IF q = r THEN [call[r] EXCEPT !.at = "read", !.fresh = w]
                                   ELSE call[q]]
    BY <2>1 DEF CallInv
  <2>3. call'[r] = [call[r] EXCEPT !.at = "read", !.fresh = w]
    BY <2>2
  <2>4. Shaped(call'[r]) /\ call'[r].at = "read"
    BY <1>s, <2>3 DEF Shaped
  <2> QED BY <2>1, <2>2, <2>3, <2>4 DEF Reads
<1>5. ASSUME Install(r) \/ FillFails(r)
      PROVE  /\ filling' = FALSE /\ Reads(r) /\ call'[r] = Idle
             /\ \A q \in Readers \ {r} :
                  /\ Shaped(call'[q])
                  /\ call'[q].at = (IF call[q].at = "waiting" THEN "looking" ELSE call[q].at)
             /\ call' = [q \in Readers |-> call'[q]]
  <2>1. /\ filling' = FALSE /\ Reads(r)
        /\ call' = [q \in Readers |->
                      IF q = r THEN Idle
                      ELSE IF call[q].at = "waiting" THEN [call[q] EXCEPT !.at = "looking"]
                      ELSE call[q]]
    BY <1>5 DEF Install, FillFails, Release, Reads
  <2>2. ASSUME NEW q \in Readers \ {r}
        PROVE  /\ Shaped(call'[q])
               /\ call'[q].at = (IF call[q].at = "waiting" THEN "looking" ELSE call[q].at)
    <3>1. CASE call[q].at = "waiting"
      <4>1. call'[q] = [call[q] EXCEPT !.at = "looking"]
        BY <2>1, <3>1
      <4>2. Shaped(call[q])
        BY <1>s
      <4> QED BY <3>1, <4>1, <4>2 DEF Shaped
    <3>2. CASE call[q].at # "waiting"
      <4>1. call'[q] = call[q]
        BY <2>1, <3>2
      <4> QED BY <1>s, <3>2, <4>1
    <3> QED BY <3>1, <3>2
  <2> QED BY <2>1, <2>2
<1> QED BY <1>1, <1>2, <1>3, <1>4, <1>5

\* No reader is in a call.
LEMMA FillInit == Init => CallInv /\ FillInv
PROOF
<1> SUFFICES ASSUME Init PROVE CallInv /\ FillInv
  OBVIOUS
<1>1. Shaped(Idle) /\ Idle.at = "idle"
  BY DEF Shaped, Idle
<1>2. filling = FALSE /\ call = [r \in Readers |-> Idle]
  BY DEF Init
<1> QED BY <1>1, <1>2 DEF CallInv, FillInv, Reads

\* Every step keeps one full read per entry of c.filling.
LEMMA FillStep == CallInv /\ FillInv /\ [Next]_vars => CallInv' /\ FillInv'
PROOF
<1> SUFFICES ASSUME CallInv, FillInv, [Next]_vars PROVE CallInv' /\ FillInv'
  OBVIOUS
<1>i. Shaped(Idle) /\ Idle.at = "idle"
  BY DEF Shaped, Idle
\* The store's writers, the clock and the idle timer leave the calls alone.
<1>1. CASE Write \/ Tick \/ SetBack \/ IdleDrop \/ UNCHANGED vars
  <2>1. UNCHANGED <<call, filling>>
    BY <1>1 DEF Write, Insert, Restamp, Prune, Vacuum, Tick, SetBack, IdleDrop, vars
  <2> QED BY <2>1 DEF CallInv, FillInv, Reads
<1>2. ASSUME NEW r \in Readers, filling' = filling, Shaped(call'[r]),
             call' = [q \in Readers |-> IF q = r THEN call'[r] ELSE call[q]],
             (call'[r].at \in {"filling", "read"}) <=> Reads(r), call'[r].at # "waiting"
      PROVE  CallInv' /\ FillInv'
  <2>1. \A q \in Readers \ {r} : call'[q] = call[q]
    BY <1>2
  <2>2. CallInv'
    BY <1>2, <2>1 DEF CallInv
  <2>3. \A q \in Readers : (Reads(q))' <=> Reads(q)
    BY <1>2, <2>1 DEF Reads
  <2> QED BY <1>2, <2>1, <2>2, <2>3 DEF FillInv
<1>3. ASSUME NEW r \in Readers, NEW start \in Froms, Begin(r, start)
      PROVE  CallInv' /\ FillInv'
  BY <1>2, <1>3, CallSteps DEF Reads
<1>4. ASSUME NEW r \in Readers, Answer(r) \/ AnswerFails(r) \/ CancelWait(r)
      PROVE  CallInv' /\ FillInv'
  <2>1. /\ filling' = filling /\ ~Reads(r) /\ call'[r] = Idle
        /\ call' = [q \in Readers |-> IF q = r THEN call'[r] ELSE call[q]]
    BY <1>4, CallSteps
  <2> QED BY <1>2, <1>i, <2>1
<1>5. ASSUME NEW r \in Readers, Snapshot(r)
      PROVE  CallInv' /\ FillInv'
  BY <1>2, <1>5, CallSteps
<1>6. ASSUME NEW r \in Readers, NeedFull(r)
      PROVE  CallInv' /\ FillInv'
  <2>1. /\ filling' = TRUE /\ call[r].at = "looking" /\ Shaped(call'[r])
        /\ call'[r].at = (IF filling THEN "waiting" ELSE "filling")
        /\ call' = [q \in Readers |-> IF q = r THEN call'[r] ELSE call[q]]
    BY <1>6, CallSteps
  <2>2. \A q \in Readers \ {r} : call'[q] = call[q]
    BY <2>1
  <2>3. CallInv'
    BY <2>1, <2>2 DEF CallInv
  <2>4. CASE filling
    BY <2>1, <2>2, <2>3, <2>4 DEF FillInv, Reads
  <2>5. CASE ~filling
    BY <2>1, <2>2, <2>3, <2>5 DEF FillInv, Reads
  <2> QED BY <2>4, <2>5
<1>7. ASSUME NEW r \in Readers, Install(r) \/ FillFails(r)
      PROVE  CallInv' /\ FillInv'
  <2>1. /\ filling' = FALSE /\ Reads(r) /\ call'[r] = Idle
        /\ \A q \in Readers \ {r} :
             /\ Shaped(call'[q])
             /\ call'[q].at = (IF call[q].at = "waiting" THEN "looking" ELSE call[q].at)
        /\ call' = [q \in Readers |-> call'[q]]
    BY <1>7, CallSteps
  <2>2. \A q \in Readers : Shaped(call'[q])
    BY <1>i, <2>1
  <2>3. CallInv'
    BY <2>1, <2>2 DEF CallInv
  <2>4. \A q \in Readers \ {r} : ~Reads(q)
    BY <2>1 DEF FillInv
  <2>5. \A q \in Readers : call'[q].at \notin {"filling", "read", "waiting"}
    BY <1>i, <2>1, <2>4 DEF Reads
  <2> QED BY <2>1, <2>3, <2>5 DEF FillInv, Reads
<1> QED BY <1>1, <1>3, <1>4, <1>5, <1>6, <1>7 DEF Next, Reader

\* ReadEvents: "One per type at a time: wait for the one in flight". For any
\* number of readers and any writer, there is one full read while c.filling
\* has its entry and none otherwise, and who waits has a read to wait for:
\* the entry never outlives its read, also where the read fails.
THEOREM OneFullRead == Spec => [](OneFill /\ WaiterHasAFill)
PROOF
<1>1. CallInv /\ FillInv => OneFill /\ WaiterHasAFill
  <2> SUFFICES ASSUME CallInv, FillInv PROVE OneFill /\ WaiterHasAFill
    OBVIOUS
  <2> DEFINE S == {r \in Readers : call[r].at \in {"filling", "read"}}
  <2>1. CASE filling
    <3>1. PICK r \in Readers : Reads(r)
      BY <2>1 DEF FillInv
    <3>2. S = {r}
      BY <3>1 DEF FillInv, Reads
    <3>3. Cardinality(S) = 1
      BY <3>2, FS_Singleton
    <3> QED BY <2>1, <3>1, <3>3 DEF OneFill, WaiterHasAFill
  <2>2. CASE ~filling
    <3>1. S = {} /\ \A r \in Readers : call[r].at # "waiting"
      BY <2>2 DEF FillInv, Reads
    <3>2. Cardinality(S) = 0
      BY <3>1, FS_EmptySet
    <3> QED BY <2>2, <3>1, <3>2 DEF OneFill, WaiterHasAFill
  <2> QED BY <2>1, <2>2 DEF CallInv
<1> QED BY <1>1, FillInit, FillStep, PTL DEF Spec

-----------------------------------------------------------------------------
(***************************************************************************)
(* Rowids in order.  Induction is by the least counterexample.             *)
(***************************************************************************)

\* A set of numbers has a least member.
LEMMA LeastNat == \A T \in SUBSET Nat : T # {} => \E m \in T : \A k \in T : m <= k
PROOF
<1> SUFFICES ASSUME NEW T \in SUBSET Nat, T # {} PROVE \E m \in T : \A k \in T : m <= k
  OBVIOUS
<1> DEFINE R == {ss \in Nat \X Nat : ss[1] < ss[2]}
<1>1. IsWellFoundedOn(R, Nat)
  BY NatLessThanWellFounded DEF OpToRel
<1> HIDE DEF R
<1>2. PICK m \in T : \A k \in T : ~(<<k, m>> \in R)
  BY <1>1, WFMin
<1>3. ASSUME NEW k \in T PROVE m <= k
  <2>1. <<k, m>> \in R <=> k < m
    BY DEF R
  <2> QED BY <1>2, <2>1
<1> QED BY <1>3

Rising(f, n) == \A i, j \in 1 .. n : i < j => f[i] < f[j]

\* A finite set of numbers has an ascending enumeration.
LEMMA RisingExists ==
  \A n \in Nat : \A S \in SUBSET Nat :
    IsFiniteSet(S) /\ Cardinality(S) = n => \E f \in [1 .. n -> S] : Rising(f, n)
PROOF
<1> DEFINE P(n) == \A S \in SUBSET Nat :
              IsFiniteSet(S) /\ Cardinality(S) = n => \E f \in [1 .. n -> S] : Rising(f, n)
           T == {n \in Nat : ~P(n)}
<1>1. SUFFICES ASSUME T # {} PROVE FALSE
  OBVIOUS
<1>2. PICK n \in T : \A k \in T : n <= k
  BY <1>1, LeastNat
<1>3. n \in Nat /\ ~P(n) /\ \A k \in Nat : k < n => P(k)
  BY <1>2
<1>4. PICK S \in SUBSET Nat : /\ IsFiniteSet(S) /\ Cardinality(S) = n
                              /\ \A f \in [1 .. n -> S] : ~Rising(f, n)
  BY <1>3
<1> HIDE DEF T
<1>5. CASE n = 0
  <2>1. [i \in 1 .. n |-> 0] \in [1 .. n -> S] /\ Rising([i \in 1 .. n |-> 0], n)
    BY <1>5 DEF Rising
  <2> QED BY <1>4, <2>1
<1>6. CASE n # 0
  <2>1. S # {}
    BY <1>4, <1>6, FS_EmptySet
  <2>2. PICK m \in S : \A k \in S : m <= k
    BY <2>1, LeastNat
  <2>3. /\ IsFiniteSet(S \ {m}) /\ Cardinality(S \ {m}) = n - 1
        /\ S \ {m} \in SUBSET Nat /\ n - 1 \in Nat /\ n - 1 < n
    BY <1>3, <1>4, <1>6, <2>2, FS_RemoveElement
  <2>4. P(n - 1)
    BY <1>3, <2>3
  <2>5. PICK g \in [1 .. n - 1 -> S \ {m}] : Rising(g, n - 1)
    BY <2>3, <2>4
  <2> DEFINE f == [i \in 1 .. n |-> IF i = 1 THEN m ELSE g[i - 1]]
  <2>6. \A i \in 1 .. n : i # 1 => i - 1 \in 1 .. n - 1
    BY <1>3
  <2>7. \A i \in 1 .. n : f[i] = IF i = 1 THEN m ELSE g[i - 1]
    OBVIOUS
  <2>8. \A i \in 1 .. n : f[i] \in S
    BY <2>5, <2>6, <2>7
  <2>9. f \in [1 .. n -> S]
    BY <2>8
  <2> HIDE DEF f
  <2>10. ASSUME NEW i \in 1 .. n, NEW j \in 1 .. n, i < j PROVE f[i] < f[j]
    <3>1. j # 1 /\ j - 1 \in 1 .. n - 1 /\ f[j] = g[j - 1]
      BY <1>3, <2>6, <2>7, <2>10
    <3>2. CASE i = 1
      <4>1. g[j - 1] \in S /\ g[j - 1] # m
        BY <2>5, <3>1
      <4>2. f[i] = m /\ m \in Nat /\ g[j - 1] \in Nat /\ m <= g[j - 1]
        BY <2>2, <2>7, <3>2, <4>1
      <4> QED BY <3>1, <4>1, <4>2
    <3>3. CASE i # 1
      <4>1. i - 1 \in 1 .. n - 1 /\ f[i] = g[i - 1] /\ i - 1 < j - 1
        BY <1>3, <2>6, <2>7, <2>10, <3>3
      <4> QED BY <2>5, <3>1, <4>1 DEF Rising
    <3> QED BY <3>2, <3>3
  <2>11. Rising(f, n)
    BY <2>10 DEF Rising
  <2> QED BY <1>4, <2>9, <2>11
<1> QED BY <1>5, <1>6

\* InOrder lists a finite set of rowids, each once, in ascending order.
LEMMA InOrderIs ==
  ASSUME NEW S \in SUBSET Nat, IsFiniteSet(S)
  PROVE  /\ Cardinality(S) \in Nat
         /\ InOrder(S) \in [1 .. Cardinality(S) -> S]
         /\ Rising(InOrder(S), Cardinality(S))
         /\ \A x \in S : \E i \in 1 .. Cardinality(S) : InOrder(S)[i] = x
         /\ InOrder(S) \in Seq(S) /\ Len(InOrder(S)) = Cardinality(S)
PROOF
<1> DEFINE n == Cardinality(S)
           f == InOrder(S)
<1>1. n \in Nat
  BY FS_CardinalityType
<1>2. f \in [1 .. n -> S] /\ Rising(f, n)
  <2>1. PICK g \in [1 .. n -> S] : Rising(g, n)
    BY <1>1, RisingExists
  <2>2. \E h \in [1 .. n -> S] : \A i, j \in DOMAIN h : i < j => h[i] < h[j]
    BY <2>1 DEF Rising
  <2>3. f \in [1 .. n -> S] /\ \A i, j \in DOMAIN f : i < j => f[i] < f[j]
    BY <2>2 DEF InOrder
  <2>4. DOMAIN f = 1 .. n
    BY <2>3
  <2> QED BY <2>3, <2>4 DEF Rising
<1> HIDE DEF f
<1>3. \A x \in S : \E i \in 1 .. n : f[i] = x
  <2>1. \A i, j \in 1 .. n : f[i] = f[j] => i = j
    <3> SUFFICES ASSUME NEW i \in 1 .. n, NEW j \in 1 .. n, f[i] = f[j] PROVE i = j
      OBVIOUS
    <3>1. f[i] \in Nat /\ f[j] \in Nat
      BY <1>2
    <3>2. i \in Nat /\ j \in Nat
      BY <1>1
    <3>3. ~(i < j) /\ ~(j < i)
      BY <1>2, <3>1 DEF Rising
    <3> QED BY <3>2, <3>3
  <2>2. f \in Injection(1 .. n, S)
    BY <1>2, <2>1 DEF Injection, IsInjective
  <2>3. Cardinality(1 .. n) = n
    BY <1>1, FS_Interval
  <2>4. f \in Surjection(1 .. n, S)
    BY <2>2, <2>3, FS_Injection
  <2> QED BY <2>4 DEF Surjection
<1>4. f \in Seq(S) /\ Len(f) = n
  BY <1>1, <1>2
<1> QED BY <1>1, <1>2, <1>3, <1>4 DEF f

\* The largest of a finite set of rowids.
LEMMA MaxIs ==
  ASSUME NEW S \in SUBSET Nat, IsFiniteSet(S), S # {}
  PROVE  Max(S) \in S /\ \A y \in S : y <= Max(S)
PROOF
<1> DEFINE n == Cardinality(S)
           f == InOrder(S)
<1>1. n \in Nat /\ n # 0
  BY FS_CardinalityType, FS_EmptySet
<1>2. /\ f \in [1 .. n -> S] /\ Rising(f, n)
      /\ \A x \in S : \E i \in 1 .. n : f[i] = x
  BY InOrderIs
<1> HIDE DEF f
<1>3. n \in 1 .. n /\ f[n] \in S
  BY <1>1, <1>2
<1>4. \A y \in S : f[n] >= y
  <2> SUFFICES ASSUME NEW y \in S PROVE f[n] >= y
    OBVIOUS
  <2>1. PICK i \in 1 .. n : f[i] = y
    BY <1>2
  <2>2. i = n \/ f[i] < f[n]
    BY <1>1, <1>2, <1>3 DEF Rising
  <2>3. y \in Nat /\ f[n] \in Nat
    BY <1>3
  <2> QED BY <2>1, <2>2, <2>3
<1>5. Max(S) \in S /\ \A y \in S : Max(S) >= y
  BY <1>3, <1>4 DEF Max
<1> QED BY <1>5

\* Numbers in ascending order are as far apart as their places, at least: a
\* row never moves up when VACUUM renumbers, and where one stays, all below it
\* do.
LEMMA OrderSpread ==
  ASSUME NEW S \in SUBSET (Nat \ {0}), IsFiniteSet(S)
  PROVE  LET f == InOrder(S) IN
         \A j \in 1 .. Cardinality(S) :
           /\ f[j] \in S /\ f[j] >= j
           /\ f[j] = j => \A i \in 1 .. j : f[i] = i
PROOF
<1> DEFINE n == Cardinality(S)
           f == InOrder(S)
<1>1. n \in Nat /\ f \in [1 .. n -> S] /\ Rising(f, n)
  BY InOrderIs
<1> HIDE DEF f
<1>2. \A i, j \in 1 .. n : i <= j => f[i] + (j - i) <= f[j]
  <2> DEFINE T == {j \in 1 .. n : \E i \in 1 .. n : i <= j /\ ~(f[i] + (j - i) <= f[j])}
  <2>1. SUFFICES ASSUME T # {} PROVE FALSE
    OBVIOUS
  <2>2. T \in SUBSET Nat
    BY <1>1
  <2>3. PICK j \in T : \A k \in T : j <= k
    BY <2>1, <2>2, LeastNat
  <2>4. PICK i \in 1 .. n : i <= j /\ ~(f[i] + (j - i) <= f[j])
    OBVIOUS
  <2>5. j \in 1 .. n /\ f[i] \in Nat /\ f[j] \in Nat
    BY <1>1
  <2>6. i # j
    BY <1>1, <2>4, <2>5
  <2>7. j - 1 \in 1 .. n /\ i <= j - 1 /\ j - 1 \notin T
    BY <1>1, <2>3, <2>4, <2>5, <2>6
  <2>8. f[i] + ((j - 1) - i) <= f[j - 1]
    BY <2>7
  <2>9. f[j - 1] < f[j] /\ f[j - 1] \in Nat
    <3>1. j - 1 < j
      BY <2>5
    <3>2. f[j - 1] < f[j]
      BY <1>1, <2>5, <2>7, <3>1 DEF Rising
    <3>3. f[j - 1] \in S
      BY <1>1, <2>7
    <3> QED BY <3>2, <3>3
  <2> QED BY <1>1, <2>4, <2>5, <2>8, <2>9
<1>s. /\ \A i \in 1 .. n : f[i] \in S
      /\ \A x \in S : x \in Nat /\ x >= 1
  BY <1>1
<1>3. ASSUME NEW j \in 1 .. n
      PROVE  /\ f[j] \in S /\ f[j] >= j
             /\ f[j] = j => \A i \in 1 .. j : f[i] = i
  <2>1. 1 \in 1 .. n /\ j \in Nat /\ j >= 1
    BY <1>1
  <2>2. f[j] \in S /\ f[1] \in S /\ f[1] >= 1 /\ f[1] \in Nat /\ f[j] \in Nat
    BY <1>s, <2>1
  <2>3. f[j] >= j
    BY <1>2, <2>1, <2>2
  <2>4. ASSUME f[j] = j, NEW i \in 1 .. j PROVE f[i] = i
    <3>1. i \in 1 .. n /\ i <= j /\ 1 <= i /\ f[i] \in Nat
      <4>1. i \in 1 .. n /\ i <= j /\ 1 <= i
        BY <1>1, <2>1
      <4> QED BY <1>s, <4>1
    <3>2. f[i] + (j - i) <= f[j]
      BY <1>2, <3>1
    <3>3. f[1] + (i - 1) <= f[i]
      BY <1>2, <2>1, <3>1
    <3> QED BY <2>1, <2>2, <2>4, <3>1, <3>2, <3>3
  <2> QED BY <2>2, <2>3, <2>4
<1> QED BY <1>3 DEF f

-----------------------------------------------------------------------------
(***************************************************************************)
(* The window.  What makes one right is a relation between it and the      *)
(* store, so it is stated of a store, its rows R, its log L of which q     *)
(* changes were ever made, the ids U it ever held and the latest time h:   *)
(* a step of another process is a change of that store under the window.   *)
(***************************************************************************)

EventsIn(R, floor) ==
  {[row |-> n, id |-> R[n].id, stamp |-> R[n].stamp] :
     n \in {m \in DOMAIN R : R[m].id \in Typed /\ Ts[R[m].id] >= floor}}

ChangedIn(L, q, s) == {L[k] : k \in {j \in 1 .. Len(L) : q - Len(L) + j > s}}

StillIn(t, R) == t.row \in DOMAIN R /\ R[t.row].id = t.id

\* Up to row n, and but for the rows the log names, the window holds the events
\* that are stored, as far back as changes are logged.
Agrees(c, n, R, L, q, h) ==
  \A e \in EventsIn(R, c.floor) \cup DOMAIN c.events :
    e.row <= n /\ e.row \notin ChangedIn(L, q, c.seq) /\ Ts[e.id] >= h - Horizon
      => (e \in EventsIn(R, c.floor) <=> e \in DOMAIN c.events)

\* A window that the change log still reaches agrees with the store up to every
\* row of its tail that holds the event it held. No row of the tail has moved
\* up, so one that holds its event has never moved.
WindowOf(c, R, L, q, U, h) ==
  /\ c = [floor |-> c.floor, seq |-> c.seq, tail |-> c.tail, events |-> c.events]
  /\ c.floor \in Int /\ c.seq \in Nat /\ c.seq <= q
  /\ c.events = SetToBag(DOMAIN c.events)
  /\ \A e \in DOMAIN c.events : e.row \in Nat \ {0} /\ Ts[e.id] \in Int /\ Ts[e.id] >= c.floor
  /\ \A t \in c.tail : /\ t.row \in Nat /\ t.id \in U
                       /\ \A n \in DOMAIN R : R[n].id = t.id => n <= t.row
  /\ q - Len(L) <= c.seq =>
       \A t \in c.tail : StillIn(t, R) => Agrees(c, t.row, R, L, q, h)

Right(c) == WindowOf(c, rows, log, seq, used, high)

StoredRow == [id : Ids, stamp : Stamps]

StoreInv ==
  /\ rows \in [DOMAIN rows -> StoredRow]
  /\ IsFiniteSet(DOMAIN rows) /\ DOMAIN rows \in SUBSET (Nat \ {0})
  /\ \A m, n \in DOMAIN rows : rows[m].id = rows[n].id => m = n
  /\ \A n \in DOMAIN rows : rows[n].id \in used
  /\ log \in Seq(Nat) /\ seq \in Nat /\ Len(log) <= seq

ClockInv == now \in Int /\ high \in Int /\ now <= high /\ high - Slack <= now

\* No call asks for events older than the change log covers.
CallerInv ==
  \A r \in Readers : call[r].at # "idle" =>
    /\ call[r].from \in Int /\ call[r].oldest \in Int
    /\ call[r].oldest <= call[r].from /\ high - Horizon <= call[r].oldest

WindowInv ==
  /\ cache # NoCache => Right(cache)
  /\ \A r \in Readers : call[r].at = "read" => Right(call[r].fresh)

CacheInv == CallInv /\ StoreInv /\ ClockInv /\ CallerInv /\ WindowInv

-----------------------------------------------------------------------------
(***************************************************************************)
(* The store as the window sees it.                                        *)
(***************************************************************************)

\* What the cache reads, said of the store of this moment.
LEMMA SameStore ==
  /\ \A floor : StoreEvents(floor) = EventsIn(rows, floor)
  /\ \A s : ChangedSince(s) = ChangedIn(log, seq, s)
  /\ \A T : Still(T) = {t \in T : StillIn(t, rows)}
BY DEF StoreEvents, EventsIn, ChangedSince, ChangedIn, Still, StillIn

\* When a record is an event of the store.
LEMMA InEvents ==
  \A R, floor, e :
    e \in EventsIn(R, floor) <=>
      /\ e.row \in DOMAIN R /\ R[e.row].id \in Typed /\ Ts[R[e.row].id] >= floor
      /\ e = [row |-> e.row, id |-> R[e.row].id, stamp |-> R[e.row].stamp]
BY DEF EventsIn

\* The fields of a stored event.
LEMMA EventFields ==
  \A R, floor : \A e \in EventsIn(R, floor) :
    /\ e.row \in DOMAIN R /\ e.id = R[e.row].id /\ e.id \in Typed /\ e.id \in Ids
    /\ Ts[e.id] >= floor /\ Ts[e.id] \in Int
PROOF
<1> SUFFICES ASSUME NEW R, NEW floor, NEW e \in EventsIn(R, floor)
             PROVE  /\ e.row \in DOMAIN R /\ e.id = R[e.row].id /\ e.id \in Typed /\ e.id \in Ids
                    /\ Ts[e.id] >= floor /\ Ts[e.id] \in Int
  OBVIOUS
<1>1. PICK n \in DOMAIN R : /\ R[n].id \in Typed /\ Ts[R[n].id] >= floor
                            /\ e = [row |-> n, id |-> R[n].id, stamp |-> R[n].stamp]
  BY DEF EventsIn
<1>2. e.row = n /\ e.id = R[n].id
  BY <1>1
<1> QED BY <1>1, <1>2, WindowAssumption

\* since keeps what is recent enough of a window's events.
LEMMA SinceIs ==
  \A D, start : Since(SetToBag(D), start) = SetToBag({e \in D : Ts[e.id] >= start})
BY DEF Since, RestrictDomain, Restrict, SetToBag

\* What LogChange does to the changes since s, while the log reaches back to s.
LEMMA LogStep ==
  ASSUME StoreInv, NEW changed \in SUBSET DOMAIN rows, LogChange(changed)
  PROVE  LET young == {n \in changed : Ts[rows[n].id] >= now - Horizon} IN
         /\ log' \in Seq(Nat) /\ seq' \in Nat /\ seq <= seq' /\ Len(log') <= seq'
         /\ \A s \in Nat : s <= seq /\ seq' - Len(log') <= s =>
              /\ seq - Len(log) <= s
              /\ ChangedIn(log', seq', s) = ChangedIn(log, seq, s) \cup young
PROOF
<1> DEFINE young == {n \in changed : Ts[rows[n].id] >= now - Horizon}
           y == Cardinality(young)
           o == InOrder(young)
           new == log \o o
           a == IF Len(new) > LogKeep THEN Len(new) - LogKeep + 1 ELSE 1
<1>1. log \in Seq(Nat) /\ seq \in Nat /\ Len(log) <= seq /\ Len(log) \in Nat
  BY DEF StoreInv
<1>2. young \in SUBSET Nat /\ IsFiniteSet(young)
  BY FS_Subset DEF StoreInv
<1>3. seq' = seq + y /\ log' = SubSeq(new, a, Len(new))
  BY DEF LogChange
<1> HIDE DEF young
<1>4. /\ y \in Nat /\ o \in [1 .. y -> young] /\ o \in Seq(Nat) /\ Len(o) = y
      /\ \A x \in young : \E i \in 1 .. y : o[i] = x
  <2>1. /\ y \in Nat /\ o \in [1 .. y -> young] /\ o \in Seq(young) /\ Len(o) = y
        /\ \A x \in young : \E i \in 1 .. y : o[i] = x
    BY <1>2, InOrderIs
  <2>2. o \in Seq(Nat)
    <3>1. o \in [1 .. y -> Nat]
      BY <1>2, <2>1
    <3> QED BY <2>1, <3>1
  <2> QED BY <2>1, <2>2
<1> HIDE DEF y, o
<1>5. /\ new \in Seq(Nat) /\ Len(new) = Len(log) + y
      /\ \A k \in 1 .. Len(log) : new[k] = log[k]
      /\ \A k \in 1 .. y : new[Len(log) + k] = o[k]
  <2>1. new \in Seq(Nat) /\ Len(new) = Len(log) + y
    <3>1. new \in Seq(Nat)
      BY <1>1, <1>4
    <3>2. Len(new) = Len(log) + Len(o)
      <4>1. log \in Seq(Nat) /\ o \in Seq(Nat)
        BY <1>1, <1>4
      <4> QED BY <4>1
    <3> QED BY <1>4, <3>1, <3>2
  <2>2. \A k \in 1 .. Len(log) : new[k] = log[k]
    BY <1>1, <1>4
  <2>3. ASSUME NEW k \in 1 .. y PROVE new[Len(log) + k] = o[k]
    <3>1. Len(log) + k \in 1 .. Len(log) + Len(o) /\ ~(Len(log) + k <= Len(log))
          /\ (Len(log) + k) - Len(log) = k
      BY <1>1, <1>4
    <3> QED BY <1>1, <1>4, <3>1
  <2> QED BY <2>1, <2>2, <2>3
<1> HIDE DEF new
<1>6. a \in Nat /\ a >= 1 /\ a <= Len(new) + 1
  BY <1>1, <1>4, <1>5, WindowAssumption
<1> HIDE DEF a
<1>7. /\ log' \in Seq(Nat) /\ Len(log') = Len(new) - a + 1 /\ Len(log') \in Nat
      /\ \A j \in 1 .. Len(log') : log'[j] = new[a - 1 + j]
  <2>1. \A i \in a .. Len(new) : new[i] \in Nat
    BY <1>5, <1>6
  <2>2. CASE a <= Len(new)
    BY <1>1, <1>3, <1>4, <1>5, <1>6, <2>1, <2>2
  <2>3. CASE a = Len(new) + 1
    BY <1>1, <1>3, <1>4, <1>5, <1>6, <2>3
  <2> QED BY <1>1, <1>4, <1>5, <1>6, <2>2, <2>3
<1>n. /\ a \in Nat /\ a >= 1 /\ y \in Nat /\ seq \in Nat /\ Len(log) \in Nat /\ Len(log) <= seq
      /\ Len(log') = Len(log) + y - a + 1 /\ Len(new) = Len(log) + y /\ seq' = seq + y
  BY <1>1, <1>3, <1>4, <1>5, <1>6, <1>7
<1>8. seq' \in Nat /\ seq <= seq' /\ Len(log') <= seq'
  BY <1>1, <1>3, <1>4, <1>5, <1>6, <1>7
<1>9. ASSUME NEW s \in Nat, s <= seq, seq' - Len(log') <= s
      PROVE  /\ seq - Len(log) <= s
             /\ ChangedIn(log', seq', s) = ChangedIn(log, seq, s) \cup young
  <2>1. seq - Len(log) + (a - 1) <= s
    BY <1>1, <1>3, <1>4, <1>5, <1>6, <1>7, <1>9
  <2>2. seq - Len(log) <= s
    BY <1>1, <1>6, <2>1
  <2>3. ASSUME NEW v \in ChangedIn(log', seq', s)
        PROVE  v \in ChangedIn(log, seq, s) \cup young
    <3>1. PICK j \in 1 .. Len(log') : v = log'[j] /\ seq' - Len(log') + j > s
      BY DEF ChangedIn
    <3>2. v = new[a - 1 + j] /\ a - 1 + j \in 1 .. Len(new) /\ seq - Len(log) + (a - 1 + j) > s
      <4>1. v = new[a - 1 + j] /\ j \in Nat /\ j >= 1 /\ j <= Len(log')
        BY <1>7, <3>1
      <4>2. a - 1 + j \in 1 .. Len(new)
        BY <1>1, <1>4, <1>5, <1>6, <1>7, <4>1
      <4>3. seq' - Len(log') + j = seq - Len(log) + (a - 1 + j)
        BY <1>n, <4>1
      <4> QED BY <3>1, <4>1, <4>2, <4>3
    <3>3. CASE a - 1 + j <= Len(log)
      <4>1. a - 1 + j \in 1 .. Len(log)
        BY <1>1, <3>2, <3>3
      <4>2. v = log[a - 1 + j]
        BY <1>5, <3>2, <4>1
      <4> QED BY <3>2, <4>1, <4>2 DEF ChangedIn
    <3>4. CASE a - 1 + j > Len(log)
      <4> DEFINE k == a - 1 + j - Len(log)
      <4>1. k \in 1 .. y /\ Len(log) + k = a - 1 + j
        BY <1>1, <1>4, <1>5, <1>6, <3>2, <3>4
      <4>2. v = o[k]
        BY <1>5, <3>2, <4>1
      <4> QED BY <1>4, <4>1, <4>2
    <3> QED BY <1>1, <1>6, <3>2, <3>3, <3>4
  <2>4. ASSUME NEW k \in 1 .. Len(new), seq - Len(log) + k > s
        PROVE  new[k] \in ChangedIn(log', seq', s)
    <3> DEFINE j == k - (a - 1)
    <3>0. k \in Nat /\ k <= Len(new) /\ k > a - 1
      BY <1>1, <1>5, <1>6, <2>1, <2>4
    <3>1. j \in 1 .. Len(log') /\ a - 1 + j = k /\ seq' - Len(log') + j > s
      <4>1. j \in Int /\ a - 1 + j = k /\ j >= 1
        BY <1>6, <3>0
      <4>2. j <= Len(log')
        BY <1>1, <1>4, <1>5, <1>6, <1>7, <3>0
      <4>3. seq' - Len(log') + j = seq - Len(log) + k
        BY <1>n, <3>0
      <4> QED BY <1>7, <2>4, <4>1, <4>2, <4>3
    <3>2. log'[j] = new[k]
      BY <1>7, <3>1
    <3> HIDE DEF j
    <3> QED BY <3>1, <3>2 DEF ChangedIn
  <2>5. ASSUME NEW v \in ChangedIn(log, seq, s) PROVE v \in ChangedIn(log', seq', s)
    <3>1. PICK k \in 1 .. Len(log) : v = log[k] /\ seq - Len(log) + k > s
      BY DEF ChangedIn
    <3>2. k \in 1 .. Len(new) /\ new[k] = v
      <4>1. k \in 1 .. Len(new)
        BY <1>1, <1>4, <1>5
      <4> QED BY <1>5, <3>1, <4>1
    <3> QED BY <2>4, <3>1, <3>2
  <2>6. ASSUME NEW v \in young PROVE v \in ChangedIn(log', seq', s)
    <3>1. PICK i \in 1 .. y : o[i] = v
      BY <1>4
    <3>2. Len(log) + i \in 1 .. Len(new) /\ new[Len(log) + i] = v
      <4>1. Len(log) + i \in 1 .. Len(new)
        BY <1>n
      <4> QED BY <1>5, <3>1, <4>1
    <3>3. seq - Len(log) + (Len(log) + i) > s
      BY <1>1, <1>4, <1>9, <3>1
    <3> QED BY <2>4, <3>2, <3>3
  <2> QED BY <2>2, <2>3, <2>5, <2>6
<1> QED BY <1>7, <1>8, <1>9 DEF young

-----------------------------------------------------------------------------
(***************************************************************************)
(* The store changes under a window.                                       *)
(***************************************************************************)

\* A change of the store that moves no row of the tail up, brings none of its
\* events back, and logs what it does to the recent events below such a row.
Moves(c, R, L, q, U, h, R2, L2, q2, U2, h2) ==
  /\ q \in Nat /\ q2 \in Nat /\ h \in Int /\ h2 \in Int
  /\ q <= q2 /\ U \subseteq U2 /\ h <= h2
  /\ \A t \in c.tail : \A n \in DOMAIN R2 : R2[n].id = t.id => n <= t.row
  /\ \A t \in c.tail : StillIn(t, R2) => StillIn(t, R)
  /\ q2 - Len(L2) <= c.seq =>
       /\ q - Len(L) <= c.seq
       /\ ChangedIn(L, q, c.seq) \subseteq ChangedIn(L2, q2, c.seq)
       /\ \A t \in c.tail : StillIn(t, R2) =>
            \A e \in EventsIn(R, c.floor) \cup EventsIn(R2, c.floor) :
              e.row <= t.row /\ e.row \notin ChangedIn(L2, q2, c.seq) /\ Ts[e.id] >= h2 - Horizon
                => (e \in EventsIn(R2, c.floor) <=> e \in EventsIn(R, c.floor))

\* Such a change leaves a window right.
LEMMA WindowKept ==
  ASSUME NEW c, NEW R, NEW L, NEW q, NEW U, NEW h, NEW R2, NEW L2, NEW q2, NEW U2, NEW h2,
         WindowOf(c, R, L, q, U, h), Moves(c, R, L, q, U, h, R2, L2, q2, U2, h2)
  PROVE  WindowOf(c, R2, L2, q2, U2, h2)
PROOF
<1>1. /\ c = [floor |-> c.floor, seq |-> c.seq, tail |-> c.tail, events |-> c.events]
      /\ c.floor \in Int /\ c.seq \in Nat /\ c.seq <= q
      /\ c.events = SetToBag(DOMAIN c.events)
      /\ \A e \in DOMAIN c.events : /\ e.row \in Nat \ {0} /\ Ts[e.id] \in Int
                                    /\ Ts[e.id] >= c.floor
      /\ \A t \in c.tail : t.row \in Nat /\ t.id \in U
  BY DEF WindowOf
<1>2. /\ c.seq <= q2
      /\ \A t \in c.tail : /\ t.row \in Nat /\ t.id \in U2
                           /\ \A n \in DOMAIN R2 : R2[n].id = t.id => n <= t.row
  BY <1>1 DEF Moves
<1>3. ASSUME q2 - Len(L2) <= c.seq, NEW t \in c.tail, StillIn(t, R2)
      PROVE  Agrees(c, t.row, R2, L2, q2, h2)
  <2>1. Agrees(c, t.row, R, L, q, h)
    BY <1>3 DEF WindowOf, Moves
  <2> SUFFICES ASSUME NEW e \in EventsIn(R2, c.floor) \cup DOMAIN c.events,
                      e.row <= t.row, e.row \notin ChangedIn(L2, q2, c.seq),
                      Ts[e.id] >= h2 - Horizon
               PROVE  e \in EventsIn(R2, c.floor) <=> e \in DOMAIN c.events
    BY DEF Agrees
  <2>2. Ts[e.id] \in Int
    BY <1>1, EventFields
  <2>3. Ts[e.id] >= h - Horizon /\ e.row \notin ChangedIn(L, q, c.seq)
    BY <1>3, <2>2, WindowAssumption DEF Moves
  <2>4. e \in EventsIn(R, c.floor) \cup DOMAIN c.events
          => (e \in EventsIn(R, c.floor) <=> e \in DOMAIN c.events)
    BY <2>1, <2>3 DEF Agrees
  <2>5. e \in EventsIn(R, c.floor) \cup EventsIn(R2, c.floor)
          => (e \in EventsIn(R2, c.floor) <=> e \in EventsIn(R, c.floor))
    BY <1>3 DEF Moves
  <2> QED BY <2>4, <2>5
<1> QED BY <1>1, <1>2, <1>3 DEF WindowOf

\* Right, in the next state.
RightNext(c) == WindowOf(c, rows', log', seq', used', high')

\* A table without rows.
LEMMA NoRows == \A f, S : f \in [{} -> S] => f = << >>
PROOF
<1> SUFFICES ASSUME NEW f, NEW S, f \in [{} -> S] PROVE f = << >>
  OBVIOUS
<1>1. 1 .. 0 = {}
  OBVIOUS
<1>2. f \in Seq(S) /\ Len(f) = 0
  BY <1>1
<1> QED BY <1>2, EmptySeq

\* AppendBatch: the new row is past every row of every tail.
LEMMA InsertKeeps ==
  ASSUME ~Reinsert, StoreInv, ClockInv, NEW i \in Ids, Insert(i)
  PROVE  StoreInv' /\ \A c : Right(c) => RightNext(c)
PROOF
<1> DEFINE n == IF rows = << >> THEN 1 ELSE Max(DOMAIN rows) + 1
           row == [id |-> i, stamp |-> "metered"]
<1>1. /\ rows' = [m \in DOMAIN rows \cup {n} |-> IF m = n THEN row ELSE rows[m]]
      /\ used' = used \cup {i} /\ i \notin used /\ i \notin StoredIds
      /\ UNCHANGED <<log, seq, now, high>>
  BY DEF Insert, clock
<1>2. n \in Nat \ {0} /\ \A m \in DOMAIN rows : m < n
  <2>1. CASE rows = << >>
    BY <2>1
  <2>2. CASE rows # << >>
    <3>1. DOMAIN rows # {}
      BY <2>2, NoRows DEF StoreInv
    <3>2. Max(DOMAIN rows) \in DOMAIN rows /\ \A m \in DOMAIN rows : m <= Max(DOMAIN rows)
      BY <3>1, MaxIs DEF StoreInv
    <3>3. \A m \in DOMAIN rows : m \in Nat
      BY DEF StoreInv
    <3> QED BY <2>2, <3>2, <3>3
  <2> QED BY <2>1, <2>2
<1>3. row \in StoredRow
  BY DEF StoredRow, Stamps
<1> HIDE DEF n, row
<1>4. /\ DOMAIN rows' = DOMAIN rows \cup {n} /\ n \notin DOMAIN rows
      /\ \A m \in DOMAIN rows : rows'[m] = rows[m]
      /\ rows'[n] = row /\ row.id = i
  <2>1. n \notin DOMAIN rows
    BY <1>2
  <2> QED BY <1>1, <2>1 DEF row
<1>5. StoreInv'
  <2>1. rows' \in [DOMAIN rows' -> StoredRow]
    <3>1. \A m \in DOMAIN rows : rows[m] \in StoredRow
      BY DEF StoreInv
    <3> QED BY <1>1, <1>3, <1>4, <3>1
  <2>2. IsFiniteSet(DOMAIN rows')
    BY <1>4, FS_AddElement DEF StoreInv
  <2>3. DOMAIN rows' \in SUBSET (Nat \ {0})
    BY <1>2, <1>4 DEF StoreInv
  <2>4. \A m \in DOMAIN rows : rows[m].id # i
    BY <1>1 DEF StoreInv
  <2>5. \A m, k \in DOMAIN rows' : rows'[m].id = rows'[k].id => m = k
    BY <1>4, <2>4 DEF StoreInv
  <2>6. \A m \in DOMAIN rows' : rows'[m].id \in used'
    BY <1>1, <1>4 DEF StoreInv
  <2> QED BY <1>1, <2>1, <2>2, <2>3, <2>5, <2>6 DEF StoreInv
<1>6. ASSUME NEW c, Right(c) PROVE RightNext(c)
  <2>1. \A t \in c.tail : t.id # i /\ \A m \in DOMAIN rows : rows[m].id = t.id => m <= t.row
    BY <1>1, <1>6 DEF Right, WindowOf
  <2>2. \A t \in c.tail : StillIn(t, rows') => StillIn(t, rows) /\ t.row < n
    BY <1>2, <1>4, <2>1 DEF StillIn
  <2>3. ASSUME NEW t \in c.tail, StillIn(t, rows'),
               NEW e \in EventsIn(rows, c.floor) \cup EventsIn(rows', c.floor), e.row <= t.row
        PROVE  e \in EventsIn(rows', c.floor) <=> e \in EventsIn(rows, c.floor)
    <3>1. e.row \in DOMAIN rows' /\ t.row \in DOMAIN rows /\ t.row < n
      BY <1>4, <2>2, <2>3, EventFields DEF StillIn
    <3>2. e.row # n /\ e.row \in DOMAIN rows
      BY <1>2, <1>4, <2>3, <3>1 DEF StoreInv
    <3> QED BY <1>4, <3>2, InEvents
  <2>4. \A t \in c.tail : \A m \in DOMAIN rows' : rows'[m].id = t.id => m <= t.row
    BY <1>4, <2>1
  <2>5. seq \in Nat /\ high \in Int /\ used \subseteq used' /\ UNCHANGED <<log, seq, high>>
    BY <1>1 DEF StoreInv, ClockInv
  <2>6. WindowOf(c, rows, log, seq, used, high)
    BY <1>6 DEF Right
  <2>7. Moves(c, rows, log, seq, used, high, rows', log, seq, used', high)
    <3>1. seq <= seq /\ high <= high
      BY <2>5
    <3>2. \A t \in c.tail : StillIn(t, rows') =>
            \A e \in EventsIn(rows, c.floor) \cup EventsIn(rows', c.floor) :
              e.row <= t.row /\ e.row \notin ChangedIn(log, seq, c.seq) /\ Ts[e.id] >= high - Horizon
                => (e \in EventsIn(rows', c.floor) <=> e \in EventsIn(rows, c.floor))
      BY <2>3
    <3>3. \A t \in c.tail : StillIn(t, rows') => StillIn(t, rows)
      BY <2>2
    <3> QED BY <2>4, <2>5, <3>1, <3>2, <3>3 DEF Moves
  <2>8. WindowOf(c, rows', log, seq, used', high)
    BY <2>6, <2>7, WindowKept
  <2> QED BY <2>5, <2>8 DEF RightNext
<1> QED BY <1>5, <1>6

\* A statement that changes or deletes rows, and whose triggers log the young
\* ones among them: what goes unlogged is older than the cache ever answers.
LEMMA LoggedKeeps ==
  ASSUME StoreInv, ClockInv, NEW changed \in SUBSET DOMAIN rows, LogChange(changed),
         DOMAIN rows' \in SUBSET DOMAIN rows, rows' \in [DOMAIN rows' -> StoredRow],
         \A n \in DOMAIN rows' : rows'[n].id = rows[n].id,
         \A n \in DOMAIN rows \ changed : n \in DOMAIN rows' /\ rows'[n] = rows[n],
         UNCHANGED <<used, now, high>>
  PROVE  StoreInv' /\ \A c : Right(c) => RightNext(c)
PROOF
<1> DEFINE young == {n \in changed : Ts[rows[n].id] >= now - Horizon}
<1>1. /\ log' \in Seq(Nat) /\ seq' \in Nat /\ seq <= seq' /\ Len(log') <= seq'
      /\ \A s \in Nat : s <= seq /\ seq' - Len(log') <= s =>
           /\ seq - Len(log) <= s
           /\ ChangedIn(log', seq', s) = ChangedIn(log, seq, s) \cup young
  BY LogStep
<1>2. StoreInv'
  <2>1. IsFiniteSet(DOMAIN rows')
    BY FS_Subset DEF StoreInv
  <2>2. DOMAIN rows' \in SUBSET (Nat \ {0})
    BY DEF StoreInv
  <2>3. \A m, n \in DOMAIN rows' : rows'[m].id = rows'[n].id => m = n
    BY DEF StoreInv
  <2>4. \A n \in DOMAIN rows' : rows'[n].id \in used'
    BY DEF StoreInv
  <2> QED BY <1>1, <2>1, <2>2, <2>3, <2>4 DEF StoreInv
<1>3. \A n \in changed : Ts[rows[n].id] >= high - Horizon => n \in young
  <2> SUFFICES ASSUME NEW n \in changed, Ts[rows[n].id] >= high - Horizon
               PROVE  Ts[rows[n].id] >= now - Horizon
    OBVIOUS
  <2>1. rows[n].id \in Ids
    BY DEF StoreInv, StoredRow
  <2>2. Ts[rows[n].id] \in Int /\ now \in Int /\ high \in Int /\ Horizon \in Int /\ now <= high
    BY <2>1, WindowAssumption DEF ClockInv
  <2> QED BY <2>2
<1> HIDE DEF young
<1>4. ASSUME NEW c, Right(c) PROVE RightNext(c)
  <2>1. /\ WindowOf(c, rows, log, seq, used, high) /\ c.seq \in Nat /\ c.seq <= seq
        /\ \A t \in c.tail : \A m \in DOMAIN rows : rows[m].id = t.id => m <= t.row
    BY <1>4 DEF Right, WindowOf
  <2>2. /\ \A t \in c.tail : \A m \in DOMAIN rows' : rows'[m].id = t.id => m <= t.row
        /\ \A t \in c.tail : StillIn(t, rows') => StillIn(t, rows)
    BY <2>1 DEF StillIn
  <2>3. ASSUME seq' - Len(log') <= c.seq
        PROVE  /\ seq - Len(log) <= c.seq
               /\ ChangedIn(log', seq', c.seq) = ChangedIn(log, seq, c.seq) \cup young
    BY <1>1, <2>1, <2>3
  <2>4. ASSUME seq' - Len(log') <= c.seq,
               NEW e \in EventsIn(rows, c.floor) \cup EventsIn(rows', c.floor),
               e.row \notin ChangedIn(log', seq', c.seq), Ts[e.id] >= high - Horizon
        PROVE  e \in EventsIn(rows', c.floor) <=> e \in EventsIn(rows, c.floor)
    <3>1. e.row \in DOMAIN rows /\ e.id = rows[e.row].id
      BY EventFields
    <3>2. e.row \notin changed
      BY <1>3, <2>3, <2>4, <3>1
    <3>3. e.row \in DOMAIN rows' /\ rows'[e.row] = rows[e.row]
      BY <3>1, <3>2
    <3> QED BY <3>1, <3>3, InEvents
  <2>5. ASSUME seq' - Len(log') <= c.seq
        PROVE  \A t \in c.tail : StillIn(t, rows') =>
            \A e \in EventsIn(rows, c.floor) \cup EventsIn(rows', c.floor) :
              e.row <= t.row /\ e.row \notin ChangedIn(log', seq', c.seq) /\ Ts[e.id] >= high - Horizon
                => (e \in EventsIn(rows', c.floor) <=> e \in EventsIn(rows, c.floor))
    BY <2>4, <2>5
  <2>6. seq \in Nat /\ seq' \in Nat /\ high \in Int /\ high <= high /\ seq <= seq' /\ used \subseteq used
    BY <1>1 DEF StoreInv, ClockInv
  <2>7. Moves(c, rows, log, seq, used, high, rows', log', seq', used, high)
    BY <2>2, <2>3, <2>5, <2>6 DEF Moves
  <2>8. WindowOf(c, rows', log', seq', used, high)
    BY <2>1, <2>7, WindowKept
  <2> QED BY <2>8 DEF RightNext
<1> QED BY <1>2, <1>4

\* RestampPlanIncluded and RestampMetered.
LEMMA RestampKeeps ==
  ASSUME StoreInv, ClockInv, NEW ids, NEW stamp \in Stamps, Restamp(ids, stamp)
  PROVE  StoreInv' /\ \A c : Right(c) => RightNext(c)
PROOF
<1> DEFINE changed == {n \in DOMAIN rows : rows[n].id \in ids /\ rows[n].stamp # stamp}
<1>1. /\ rows' = [n \in DOMAIN rows |->
                    IF n \in changed THEN [rows[n] EXCEPT !.stamp = stamp] ELSE rows[n]]
      /\ LogChange(changed) /\ UNCHANGED <<used, now, high>>
  BY DEF Restamp, clock
<1>2. changed \in SUBSET DOMAIN rows
  OBVIOUS
<1> HIDE DEF changed
<1>3. \A n \in DOMAIN rows : rows[n] \in [id : Ids, stamp : Stamps]
  BY DEF StoreInv, StoredRow
<1>4. DOMAIN rows' = DOMAIN rows
  BY <1>1
<1>5. \A n \in DOMAIN rows : rows'[n] \in StoredRow /\ rows'[n].id = rows[n].id
  BY <1>1, <1>3 DEF StoredRow
<1>6. \A n \in DOMAIN rows \ changed : n \in DOMAIN rows' /\ rows'[n] = rows[n]
  BY <1>1
<1>7. rows' \in [DOMAIN rows' -> StoredRow]
  BY <1>1, <1>4, <1>5
<1> QED BY <1>1, <1>2, <1>4, <1>5, <1>6, <1>7, LoggedKeeps

\* A DELETE of retention.
LEMMA PruneKeeps ==
  ASSUME StoreInv, ClockInv, NEW p \in Policies, Prune(p)
  PROVE  StoreInv' /\ \A c : Right(c) => RightNext(c)
PROOF
<1> DEFINE gone == {n \in DOMAIN rows : /\ rows[n].id \in p.covers
                                        /\ Ts[rows[n].id] < now - p.keep}
<1>1. /\ rows' = [n \in DOMAIN rows \ gone |-> rows[n]]
      /\ LogChange(gone) /\ UNCHANGED <<used, now, high>>
  BY DEF Prune, clock
<1>2. gone \in SUBSET DOMAIN rows
  OBVIOUS
<1> HIDE DEF gone
<1>3. DOMAIN rows' = DOMAIN rows \ gone /\ \A n \in DOMAIN rows' : rows'[n] = rows[n]
  BY <1>1
<1>4. rows' \in [DOMAIN rows' -> StoredRow]
  <2>1. \A n \in DOMAIN rows : rows[n] \in StoredRow
    BY DEF StoreInv
  <2> QED BY <1>1, <1>3, <2>1
<1>5. /\ DOMAIN rows' \in SUBSET DOMAIN rows
      /\ \A n \in DOMAIN rows' : rows'[n].id = rows[n].id
      /\ \A n \in DOMAIN rows \ gone : n \in DOMAIN rows' /\ rows'[n] = rows[n]
  BY <1>3
<1> QED BY <1>1, <1>2, <1>4, <1>5, LoggedKeeps

\* VACUUM logs nothing, and needs not: a tail row that still holds its event
\* was not moved, so no row below it was.
LEMMA VacuumKeeps ==
  ASSUME StoreInv, ClockInv, Vacuum
  PROVE  StoreInv' /\ \A c : Right(c) => RightNext(c)
PROOF
<1> DEFINE S == DOMAIN rows
           k == Cardinality(S)
           order == InOrder(S)
<1>0. S \in SUBSET Nat /\ S \in SUBSET (Nat \ {0}) /\ IsFiniteSet(S)
  BY DEF StoreInv
<1>1. k \in Nat /\ order \in [1 .. k -> S] /\ Rising(order, k) /\ Len(order) = k
  BY <1>0, InOrderIs
<1>2. \A j \in 1 .. k : /\ order[j] \in S /\ order[j] >= j
                        /\ order[j] = j => \A i \in 1 .. j : order[i] = i
  BY <1>0, OrderSpread
<1>3. rows' = [n \in 1 .. k |-> rows[order[n]]] /\ UNCHANGED <<log, seq, used, now, high>>
  BY <1>1 DEF Vacuum, clock
<1> HIDE DEF order, k
<1>4. DOMAIN rows' = 1 .. k /\ \A n \in 1 .. k : rows'[n] = rows[order[n]]
  BY <1>3
<1>5. StoreInv'
  <2>1. rows' \in [DOMAIN rows' -> StoredRow]
    <3>1. \A n \in S : rows[n] \in StoredRow
      BY DEF StoreInv
    <3> QED BY <1>2, <1>3, <1>4, <3>1
  <2>2. IsFiniteSet(DOMAIN rows') /\ DOMAIN rows' \in SUBSET (Nat \ {0})
    BY <1>1, <1>4, FS_Interval
  <2>3. ASSUME NEW m \in 1 .. k, NEW n \in 1 .. k, rows'[m].id = rows'[n].id PROVE m = n
    <3>1. order[m] = order[n] /\ order[m] \in Nat
      BY <1>0, <1>2, <1>4, <2>3 DEF StoreInv
    <3>2. ~(m < n) /\ ~(n < m)
      BY <1>1, <3>1 DEF Rising
    <3>3. m \in Nat /\ n \in Nat
      BY <1>1
    <3> QED BY <3>2, <3>3
  <2>4. \A n \in DOMAIN rows' : rows'[n].id \in used'
    BY <1>2, <1>3, <1>4 DEF StoreInv
  <2>5. \A m, n \in DOMAIN rows' : rows'[m].id = rows'[n].id => m = n
    BY <1>4, <2>3
  <2> QED BY <1>3, <2>1, <2>2, <2>4, <2>5 DEF StoreInv
<1>6. ASSUME NEW c, Right(c) PROVE RightNext(c)
  <2>1. /\ WindowOf(c, rows, log, seq, used, high)
        /\ \A t \in c.tail : t.row \in Nat /\ \A m \in S : rows[m].id = t.id => m <= t.row
    BY <1>6 DEF Right, WindowOf
  <2>2. ASSUME NEW t \in c.tail, NEW n \in DOMAIN rows', rows'[n].id = t.id
        PROVE  n <= t.row /\ order[n] <= t.row
    <3>1. n \in 1 .. k /\ order[n] \in S /\ rows[order[n]].id = t.id /\ n <= order[n]
      BY <1>2, <1>4, <2>2
    <3>2. order[n] <= t.row /\ t.row \in Nat
      BY <2>1, <3>1
    <3>3. n \in Nat /\ order[n] \in Nat
      BY <1>0, <1>1, <3>1
    <3> QED BY <3>1, <3>2, <3>3
  <2>3. ASSUME NEW t \in c.tail, StillIn(t, rows')
        PROVE  /\ StillIn(t, rows)
               /\ \A i \in 1 .. t.row : i \in S /\ i \in DOMAIN rows' /\ rows'[i] = rows[i]
    <3>1. t.row \in 1 .. k /\ rows'[t.row].id = t.id
      BY <1>4, <2>3 DEF StillIn
    <3>2. order[t.row] <= t.row /\ order[t.row] >= t.row /\ order[t.row] \in Nat /\ t.row \in Nat
      BY <1>0, <1>2, <1>4, <2>1, <2>2, <3>1
    <3>3. order[t.row] = t.row
      BY <3>2
    <3>4. \A i \in 1 .. t.row : order[i] = i /\ i \in 1 .. k
      BY <1>1, <1>2, <3>1, <3>3
    <3>5. \A i \in 1 .. t.row : i \in S /\ i \in DOMAIN rows' /\ rows'[i] = rows[i]
      BY <1>2, <1>4, <3>4
    <3>6. StillIn(t, rows)
      BY <1>2, <1>4, <3>1, <3>3 DEF StillIn
    <3> QED BY <3>5, <3>6
  <2>4. ASSUME NEW t \in c.tail, StillIn(t, rows'),
               NEW e \in EventsIn(rows, c.floor) \cup EventsIn(rows', c.floor), e.row <= t.row
        PROVE  e \in EventsIn(rows', c.floor) <=> e \in EventsIn(rows, c.floor)
    <3>1. e.row \in S \cup (1 .. k)
      BY <1>4, EventFields
    <3>2. e.row \in 1 .. t.row
      BY <1>0, <1>1, <2>1, <2>4, <3>1
    <3>3. e.row \in S /\ e.row \in DOMAIN rows' /\ rows'[e.row] = rows[e.row]
      BY <2>3, <2>4, <3>2
    <3> QED BY <3>3, InEvents
  <2>5. /\ \A t \in c.tail : StillIn(t, rows') => StillIn(t, rows)
        /\ \A t \in c.tail : \A m \in DOMAIN rows' : rows'[m].id = t.id => m <= t.row
    BY <2>2, <2>3
  <2>6. \A t \in c.tail : StillIn(t, rows') =>
          \A e \in EventsIn(rows, c.floor) \cup EventsIn(rows', c.floor) :
            e.row <= t.row /\ e.row \notin ChangedIn(log, seq, c.seq) /\ Ts[e.id] >= high - Horizon
              => (e \in EventsIn(rows', c.floor) <=> e \in EventsIn(rows, c.floor))
    BY <2>4
  <2>7. seq \in Nat /\ high \in Int /\ seq <= seq /\ high <= high /\ used \subseteq used
    BY DEF StoreInv, ClockInv
  <2>8. Moves(c, rows, log, seq, used, high, rows', log, seq, used, high)
    BY <2>5, <2>6, <2>7 DEF Moves
  <2>9. WindowOf(c, rows', log, seq, used, high)
    BY <2>1, <2>8, WindowKept
  <2> QED BY <1>3, <2>9 DEF RightNext
<1> QED BY <1>5, <1>6

\* The clock: what falls out of the horizon need not agree any more.
LEMMA ClockKeeps ==
  ASSUME StoreInv, ClockInv, Tick \/ SetBack
  PROVE  StoreInv' /\ ClockInv' /\ \A c : Right(c) => RightNext(c)
PROOF
<1>1. UNCHANGED <<rows, log, seq, used>>
  BY DEF Tick, SetBack, store
<1>2. StoreInv'
  BY <1>1 DEF StoreInv
<1>3. /\ now \in Int /\ high \in Int /\ Slack \in Int /\ Slack >= 0
      /\ now <= high /\ high - Slack <= now
  BY WindowAssumption DEF ClockInv, Slack
<1>4. ASSUME Tick PROVE ClockInv' /\ high <= high'
  <2>1. now' = now + 1 /\ high' = Max({high, now + 1})
    BY <1>4 DEF Tick
  <2>2. high' = IF high >= now + 1 THEN high ELSE now + 1
    <3>1. CASE high >= now + 1
      <4>1. high \in {high, now + 1} /\ \A y \in {high, now + 1} : high >= y
        BY <1>3, <3>1
      <4>2. /\ Max({high, now + 1}) \in {high, now + 1}
            /\ \A y \in {high, now + 1} : Max({high, now + 1}) >= y
        BY <4>1 DEF Max
      <4> QED BY <1>3, <2>1, <3>1, <4>2
    <3>2. CASE ~(high >= now + 1)
      <4>1. now + 1 \in {high, now + 1} /\ \A y \in {high, now + 1} : now + 1 >= y
        BY <1>3, <3>2
      <4>2. /\ Max({high, now + 1}) \in {high, now + 1}
            /\ \A y \in {high, now + 1} : Max({high, now + 1}) >= y
        BY <4>1 DEF Max
      <4> QED BY <1>3, <2>1, <3>2, <4>2
    <3> QED BY <3>1, <3>2
  <2> QED BY <1>3, <2>1, <2>2 DEF ClockInv
<1>5. ASSUME SetBack PROVE ClockInv' /\ high <= high'
  <2>1. now' \in (high - Slack) .. (now - 1) /\ high' = high
    BY <1>5 DEF SetBack
  <2> QED BY <1>3, <2>1 DEF ClockInv
<1>6. ClockInv' /\ high <= high' /\ high' \in Int
  BY <1>4, <1>5 DEF ClockInv
<1>7. ASSUME NEW c, Right(c) PROVE RightNext(c)
  <2>1. WindowOf(c, rows, log, seq, used, high) /\ seq \in Nat /\ seq <= seq
    BY <1>7 DEF Right, StoreInv
  <2>2. \A t \in c.tail : \A m \in DOMAIN rows : rows[m].id = t.id => m <= t.row
    BY <2>1 DEF WindowOf
  <2>3. Moves(c, rows, log, seq, used, high, rows, log, seq, used, high')
    BY <1>3, <1>6, <2>1, <2>2 DEF Moves
  <2>4. WindowOf(c, rows, log, seq, used, high')
    BY <2>1, <2>3, WindowKept
  <2> QED BY <1>1, <2>4 DEF RightNext
<1> QED BY <1>2, <1>6, <1>7

-----------------------------------------------------------------------------
(***************************************************************************)
(* The window is read, or brought up to date.                              *)
(***************************************************************************)

\* A window just read: it is of this moment, and holds the events that are
\* stored, as far back as changes are logged.
Current(c) ==
  /\ c = [floor |-> c.floor, seq |-> c.seq, tail |-> c.tail, events |-> c.events]
  /\ c.floor \in Int /\ c.seq = seq /\ c.tail = SnapTail
  /\ c.events = SetToBag(DOMAIN c.events)
  /\ \A e \in DOMAIN c.events : e.row \in Nat \ {0} /\ Ts[e.id] \in Int /\ Ts[e.id] >= c.floor
  /\ \A e \in StoreEvents(c.floor) \cup DOMAIN c.events :
       Ts[e.id] >= high - Horizon => (e \in StoreEvents(c.floor) <=> e \in DOMAIN c.events)

\* A window of this moment is right.
LEMMA CurrentIsRight ==
  ASSUME StoreInv, NEW c, Current(c)
  PROVE  Right(c)
PROOF
<1>1. \A t \in SnapTail : t.row \in DOMAIN rows /\ t.id = rows[t.row].id
  <2> SUFFICES ASSUME NEW t \in SnapTail PROVE t.row \in DOMAIN rows /\ t.id = rows[t.row].id
    OBVIOUS
  <2>1. PICK n \in DOMAIN rows : t = [row |-> n, id |-> rows[n].id]
    BY DEF SnapTail
  <2> QED BY <2>1
<1>2. ASSUME NEW t \in c.tail
      PROVE  t.row \in Nat /\ t.id \in used /\ \A n \in DOMAIN rows : rows[n].id = t.id => n <= t.row
  <2>1. t.row \in DOMAIN rows /\ t.id = rows[t.row].id
    BY <1>1 DEF Current
  <2>2. t.row \in Nat /\ t.id \in used /\ t.row <= t.row
    BY <2>1 DEF StoreInv
  <2> QED BY <2>1, <2>2 DEF StoreInv
<1>3. \A n : Agrees(c, n, rows, log, seq, high)
  BY SameStore DEF Current, Agrees
<1>4. c.seq \in Nat /\ c.seq <= seq
  BY DEF Current, StoreInv
<1> QED BY <1>2, <1>3, <1>4 DEF Current, Right, WindowOf

\* The bag of a set, and of two sets without a common member.
LEMMA BagOf ==
  /\ \A D : DOMAIN SetToBag(D) = D
  /\ \A A, B : A \cap B = {} => SetToBag(A) (+) SetToBag(B) = SetToBag(A \cup B)
PROOF
<1>1. \A D : DOMAIN SetToBag(D) = D
  BY DEF SetToBag
<1>2. ASSUME NEW A, NEW B, A \cap B = {} PROVE SetToBag(A) (+) SetToBag(B) = SetToBag(A \cup B)
  BY <1>2 DEF SetToBag, (+)
<1> QED BY <1>1, <1>2

\* What the store holds, by the row.
LEMMA StoreFields ==
  ASSUME StoreInv
  PROVE  \A floor : \A e \in StoreEvents(floor) :
           e.row \in Nat \ {0} /\ Ts[e.id] \in Int /\ Ts[e.id] >= floor
PROOF
<1> SUFFICES ASSUME NEW floor, NEW e \in StoreEvents(floor)
             PROVE  e.row \in Nat \ {0} /\ Ts[e.id] \in Int /\ Ts[e.id] >= floor
  OBVIOUS
<1>1. e.row \in DOMAIN rows /\ Ts[e.id] \in Int /\ Ts[e.id] >= floor
  BY SameStore, EventFields
<1> QED BY <1>1 DEF StoreInv

\* A later floor leaves out what is older.
LEMMA LaterFloor ==
  ASSUME NEW a \in Int, NEW b \in Int, a <= b
  PROVE  StoreEvents(b) = {e \in StoreEvents(a) : Ts[e.id] >= b}
PROOF
<1>1. ASSUME NEW e \in StoreEvents(b) PROVE e \in StoreEvents(a) /\ Ts[e.id] >= b
  <2>1. Ts[e.id] \in Int /\ Ts[e.id] >= b /\ e.id = rows[e.row].id
    BY SameStore, EventFields
  <2>2. Ts[e.id] >= a
    BY <2>1
  <2> QED BY <2>1, <2>2, SameStore, InEvents
<1>2. ASSUME NEW e \in StoreEvents(a), Ts[e.id] >= b PROVE e \in StoreEvents(b)
  BY <1>2, SameStore, InEvents, EventFields
<1> QED BY <1>1, <1>2

\* fullRead gives a window of this moment.
LEMMA FullReadCurrent ==
  ASSUME StoreInv, NEW start \in Int
  PROVE  Current(FullRead(start))
PROOF
<1> DEFINE c == FullRead(start)
<1>1. /\ c = [floor |-> c.floor, seq |-> c.seq, tail |-> c.tail, events |-> c.events]
      /\ c.floor = start /\ c.seq = seq /\ c.tail = SnapTail
      /\ c.events = SetToBag(StoreEvents(start))
  BY DEF FullRead
<1>2. DOMAIN c.events = StoreEvents(start)
  BY <1>1, BagOf
<1> HIDE DEF c
<1>3. Current(c)
  BY <1>1, <1>2, StoreFields DEF Current
<1> QED BY <1>3 DEF c

\* trim.
LEMMA TrimCurrent ==
  ASSUME StoreInv, NEW c, Current(c), NEW floor \in Int
  PROVE  /\ Current(Trim(c, floor))
         /\ Trim(c, floor).floor = IF c.floor >= floor THEN c.floor ELSE floor
PROOF
<1>1. CASE c.floor >= floor
  BY <1>1 DEF Trim
<1>2. CASE ~(c.floor >= floor)
  <2> DEFINE d == Trim(c, floor)
             D == DOMAIN c.events
             F == {e \in D : Ts[e.id] >= floor}
  <2>1. c = [floor |-> c.floor, seq |-> c.seq, tail |-> c.tail, events |-> c.events]
    BY DEF Current
  <2>2. /\ d = [floor |-> floor, seq |-> c.seq, tail |-> c.tail, events |-> Since(c.events, floor)]
    BY <1>2, <2>1 DEF Trim
  <2>3. Since(c.events, floor) = SetToBag(F)
    BY SinceIs DEF Current
  <2>4. /\ d = [floor |-> d.floor, seq |-> d.seq, tail |-> d.tail, events |-> d.events]
        /\ d.floor = floor /\ d.seq = seq /\ d.tail = SnapTail /\ d.events = SetToBag(F)
    BY <2>2, <2>3 DEF Current
  <2>5. DOMAIN d.events = F
    BY <2>4, BagOf
  <2>6. StoreEvents(floor) = {e \in StoreEvents(c.floor) : Ts[e.id] >= floor}
    <3>1. c.floor \in Int /\ c.floor <= floor
      BY <1>2 DEF Current
    <3> QED BY <3>1, LaterFloor
  <2> HIDE DEF d
  <2>7. \A e \in F : e.row \in Nat \ {0} /\ Ts[e.id] \in Int /\ Ts[e.id] >= floor
    BY DEF Current
  <2>8. \A e \in StoreEvents(floor) \cup F :
          Ts[e.id] >= high - Horizon => (e \in StoreEvents(floor) <=> e \in F)
    BY <2>6 DEF Current
  <2>9. Current(d)
    BY <2>4, <2>5, <2>7, <2>8 DEF Current
  <2> QED BY <1>2, <2>4, <2>9 DEF d
<1> QED BY <1>1, <1>2

\* While CanUpdate, the change log reaches back to the window.
LEMMA LogReaches ==
  ASSUME StoreInv, NEW c, c.seq \in Nat, c.seq <= seq, CanUpdate(c)
  PROVE  seq - Len(log) <= c.seq
PROOF
<1>1. seq \in Nat /\ Len(log) \in Nat
  BY DEF StoreInv
<1>2. ~(seq > c.seq /\ (FirstSeq = 0 \/ FirstSeq > c.seq + 1))
  BY DEF CanUpdate
<1>3. CASE seq > c.seq
  <2>1. FirstSeq # 0 /\ ~(FirstSeq > c.seq + 1)
    BY <1>2, <1>3
  <2>2. FirstSeq = seq - Len(log) + 1
    BY <2>1 DEF FirstSeq
  <2> QED BY <1>1, <2>1, <2>2
<1>4. CASE ~(seq > c.seq)
  BY <1>1, <1>4
<1> QED BY <1>3, <1>4

\* update: what the log names and what is past the last known row is read
\* again, and the rest is as it was.
LEMMA UpdateCurrent ==
  ASSUME StoreInv, ClockInv, NEW c, Right(c), CanUpdate(c)
  PROVE  Current(Update(c)) /\ Update(c).floor = c.floor
PROOF
<1> DEFINE known   == KnownThrough(c.tail)
           changed == ChangedSince(c.seq)
           D       == DOMAIN c.events
           E       == StoreEvents(c.floor)
           kept    == {e \in D : e.row <= known /\ e.row \notin changed}
           reread  == {e \in E : e.row \in changed /\ e.row <= known}
           added   == {e \in E : e.row > known}
           F       == (kept \cup reread) \cup added
           u       == Update(c)
<1>1. /\ c = [floor |-> c.floor, seq |-> c.seq, tail |-> c.tail, events |-> c.events]
      /\ c.floor \in Int /\ c.seq \in Nat /\ c.seq <= seq
      /\ c.events = SetToBag(D)
      /\ \A e \in D : e.row \in Nat \ {0} /\ Ts[e.id] \in Int /\ Ts[e.id] >= c.floor
      /\ seq - Len(log) <= c.seq =>
           \A t \in c.tail : StillIn(t, rows) => Agrees(c, t.row, rows, log, seq, high)
  BY DEF Right, WindowOf
<1>2. seq - Len(log) <= c.seq
  BY <1>1, LogReaches
<1>3. \A e \in E : e.row \in Nat \ {0} /\ Ts[e.id] \in Int /\ Ts[e.id] >= c.floor
  BY StoreFields
<1>4. /\ known \in Nat
      /\ known = 0 \/ Agrees(c, known, rows, log, seq, high)
  <2>1. CASE c.tail = {}
    BY <2>1 DEF KnownThrough
  <2>2. CASE c.tail # {}
    <3> DEFINE S == Still(c.tail)
               ns == {t.row : t \in S}
    <3>1. known = Max(ns)
      BY <2>2 DEF KnownThrough
    <3>2. S # {} /\ S = {t \in c.tail : StillIn(t, rows)}
      BY <2>2, SameStore DEF CanUpdate
    <3> HIDE DEF known, S
    <3>3. ns # {} /\ ns \subseteq DOMAIN rows
      BY <3>2 DEF StillIn
    <3>4. ns \in SUBSET Nat /\ IsFiniteSet(ns)
      BY <3>3, FS_Subset DEF StoreInv
    <3>5. Max(ns) \in ns
      BY <3>3, <3>4, MaxIs
    <3>6. PICK t \in S : known = t.row
      BY <3>1, <3>5
    <3>7. Agrees(c, t.row, rows, log, seq, high)
      BY <1>1, <1>2, <3>2, <3>6
    <3>8. known \in Nat
      BY <3>1, <3>4, <3>5
    <3> QED BY <3>6, <3>7, <3>8
  <2> QED BY <2>1, <2>2
<1>5. Restrict(c.events, kept) = SetToBag(kept)
  <2>1. c.events = SetToBag(D)
    BY <1>1
  <2> QED BY <2>1 DEF Restrict, SetToBag
<1>6. u = [floor |-> c.floor, seq |-> seq, tail |-> SnapTail,
           events |-> (SetToBag(kept) (+) SetToBag(reread)) (+) SetToBag(added)]
  <2> DEFINE B == (Restrict(c.events, kept) (+) SetToBag(reread)) (+) SetToBag(added)
  <2>1. u = [c EXCEPT !.events = B, !.seq = seq, !.tail = SnapTail]
    BY DEF Update, RestrictDomain
  <2> HIDE DEF B, u
  <2>2. u = [floor |-> c.floor, seq |-> seq, tail |-> SnapTail, events |-> B]
    BY <1>1, <2>1
  <2> QED BY <1>5, <2>2 DEF B
<1>7. ChangedIn(log, seq, c.seq) = changed /\ EventsIn(rows, c.floor) = E
  BY SameStore
<1> HIDE DEF u, known, changed, E, D
<1>8. kept \cap reread = {} /\ (kept \cup reread) \cap added = {}
  <2>1. kept \cap reread = {}
    OBVIOUS
  <2>2. \A e \in kept \cup reread : ~(e.row > known)
    BY <1>1, <1>3, <1>4
  <2> QED BY <2>1, <2>2
<1>9. (SetToBag(kept) (+) SetToBag(reread)) (+) SetToBag(added) = SetToBag(F)
  <2>1. SetToBag(kept) (+) SetToBag(reread) = SetToBag(kept \cup reread)
    BY <1>8, BagOf
  <2> QED BY <1>8, <2>1, BagOf
<1>10. /\ u = [floor |-> u.floor, seq |-> u.seq, tail |-> u.tail, events |-> u.events]
       /\ u.floor = c.floor /\ u.seq = seq /\ u.tail = SnapTail /\ u.events = SetToBag(F)
       /\ DOMAIN u.events = F
  BY <1>6, <1>9, BagOf
<1>11. \A e \in F : e.row \in Nat \ {0} /\ Ts[e.id] \in Int /\ Ts[e.id] >= c.floor
  BY <1>1, <1>3
<1>12. ASSUME NEW e \in E \cup F, Ts[e.id] >= high - Horizon PROVE e \in E <=> e \in F
  <2>0. e.row \in Nat /\ e.row # 0 /\ known \in Nat
    BY <1>3, <1>4, <1>11
  <2>1. CASE e.row > known
    <3>1. ~(e.row <= known)
      BY <2>0, <2>1
    <3> QED BY <2>1, <3>1
  <2>2. CASE e.row <= known /\ e.row \in changed
    <3>1. ~(e.row > known)
      BY <2>0, <2>2
    <3> QED BY <2>2, <3>1
  <2>3. CASE e.row <= known /\ e.row \notin changed
    <3>1. ~(e.row > known) /\ known # 0
      BY <2>0, <2>3
    <3>2. Agrees(c, known, rows, log, seq, high)
      BY <1>4, <3>1
    <3>3. e \in E \cup D => (e \in E <=> e \in D)
      BY <1>7, <1>12, <2>3, <3>2 DEF Agrees, D
    <3> QED BY <2>3, <3>1, <3>3
  <2> QED BY <2>0, <2>1, <2>2, <2>3
<1>13. Current(u)
  <2>1. \A e \in StoreEvents(u.floor) \cup DOMAIN u.events :
          Ts[e.id] >= high - Horizon => (e \in StoreEvents(u.floor) <=> e \in DOMAIN u.events)
    BY <1>10, <1>12 DEF E
  <2> QED BY <1>1, <1>10, <1>11, <2>1 DEF Current
<1> QED BY <1>10, <1>13 DEF u

\* A window of this moment answers a call as the store does.
LEMMA CurrentAnswers ==
  ASSUME StoreInv, ClockInv, NEW c, Current(c), NEW from \in Int, c.floor <= from,
         high - Horizon <= from
  PROVE  Since(c.events, from) = SetToBag(StoreEvents(from))
PROOF
<1> DEFINE D == DOMAIN c.events
<1>1. c.floor \in Int /\ high - Horizon \in Int
  BY WindowAssumption DEF Current, ClockInv
<1>2. StoreEvents(from) = {e \in StoreEvents(c.floor) : Ts[e.id] >= from}
  BY <1>1, LaterFloor
<1>3. \A e \in StoreEvents(c.floor) \cup D : Ts[e.id] \in Int
  BY StoreFields DEF Current
<1>4. \A e \in StoreEvents(c.floor) \cup D : Ts[e.id] >= from =>
        (e \in StoreEvents(c.floor) <=> e \in D)
  BY <1>1, <1>3 DEF Current
<1>5. {e \in D : Ts[e.id] >= from} = StoreEvents(from)
  BY <1>2, <1>4
<1>6. c.events = SetToBag(D)
  BY DEF Current
<1> QED BY <1>5, <1>6, SinceIs

-----------------------------------------------------------------------------
(***************************************************************************)
(* The invariant of the cache.                                             *)
(***************************************************************************)

\* There is no window yet.
LEMMA CacheInit == Init => CacheInv
PROOF
<1> SUFFICES ASSUME Init PROVE CacheInv
  OBVIOUS
<1>1. CallInv
  BY FillInit
<1>2. StoreInv
  <2>1. rows = << >> /\ log = << >> /\ seq = 0 /\ Len(log) = 0
    BY DEF Init
  <2>2. DOMAIN rows = {}
    BY <2>1
  <2>3. rows \in [DOMAIN rows -> StoredRow] /\ log \in Seq(Nat)
    BY <2>1, <2>2
  <2>4. IsFiniteSet(DOMAIN rows)
    BY <2>2, FS_EmptySet
  <2> QED BY <2>1, <2>2, <2>3, <2>4 DEF StoreInv
<1>3. ClockInv
  BY WindowAssumption DEF Init, ClockInv, Slack
<1>4. \A r \in Readers : call[r].at = "idle"
  BY DEF Init, Idle
<1>5. CallerInv /\ WindowInv
  BY <1>4 DEF Init, CallerInv, WindowInv
<1> QED BY <1>1, <1>2, <1>3, <1>5 DEF CacheInv

\* A step of a call leaves its bounds and the full read it holds as they are,
\* but for the step that reads.
LEMMA CallKept ==
  ASSUME CallInv, NEW r \in Readers, Reader(r) \/ CancelWait(r), NEW q \in Readers
  PROVE  /\ call'[q].at # "idle" => /\ call[q].at # "idle"
                                    /\ call'[q].from = call[q].from
                                    /\ call'[q].oldest = call[q].oldest
         /\ call'[q].at = "read" =>
              \/ call[q].at = "read" /\ call'[q].fresh = call[q].fresh
              \/ Snapshot(r) /\ call[q].at = "filling" /\ call'[q].fresh = FullRead(call[q].from)
PROOF
<1>s. Shaped(call[r]) /\ Shaped(call[q]) /\ call = [p \in Readers |-> call[p]]
  BY DEF CallInv
<1>i. Idle.at = "idle"
  BY DEF Idle
<1>1. CASE Answer(r) \/ AnswerFails(r) \/ CancelWait(r)
  <2>1. call' = [call EXCEPT ![r] = Idle]
    BY <1>1 DEF Answer, AnswerFails, CancelWait, Return
  <2>2. call'[q] = IF q = r THEN Idle ELSE call[q]
    BY <1>s, <2>1
  <2> QED BY <1>i, <2>2
<1>2. CASE NeedFull(r)
  <2> DEFINE p == IF filling THEN "waiting" ELSE "filling"
  <2>1. call[r].at = "looking" /\ call' = [call EXCEPT ![r].at = p]
    BY <1>2 DEF NeedFull, Looking
  <2>2. p # "read"
    OBVIOUS
  <2> HIDE DEF p
  <2>3. call'[q] = IF q = r THEN [call[r] EXCEPT !.at = p] ELSE call[q]
    BY <1>s, <2>1
  <2> QED BY <1>s, <2>1, <2>2, <2>3 DEF Shaped
<1>3. CASE Snapshot(r)
  <2> DEFINE w == FullRead(call[r].from)
  <2>1. call[r].at = "filling" /\ call' = [call EXCEPT ![r].at = "read", ![r].fresh = w]
    BY <1>3 DEF Snapshot
  <2> HIDE DEF w
  <2>2. call'[q] = IF q = r THEN [call[r] EXCEPT !.at = "read", !.fresh = w] ELSE call[q]
    BY <1>s, <2>1
  <2>3. CASE q = r
    <3>1. call'[q].from = call[q].from /\ call'[q].oldest = call[q].oldest /\ call'[q].fresh = w
      BY <1>s, <2>2, <2>3 DEF Shaped
    <3> QED BY <1>3, <2>1, <2>3, <3>1 DEF w
  <2> QED BY <2>2, <2>3
<1>4. CASE Install(r) \/ FillFails(r)
  <2>1. call' = [p \in Readers |->
                   IF p = r THEN Idle
                   ELSE IF call[p].at = "waiting" THEN [call[p] EXCEPT !.at = "looking"]
                   ELSE call[p]]
    BY <1>4 DEF Install, FillFails, Release
  <2>2. call'[q] = IF q = r THEN Idle
                   ELSE IF call[q].at = "waiting" THEN [call[q] EXCEPT !.at = "looking"]
                   ELSE call[q]
    BY <2>1
  <2> QED BY <1>i, <1>s, <2>2 DEF Shaped
<1> QED BY <1>1, <1>2, <1>3, <1>4 DEF Reader

\* The steps of the other processes.
LEMMA WriteStep ==
  ASSUME ~Reinsert, CacheInv, Write \/ Tick \/ SetBack
  PROVE  StoreInv' /\ ClockInv' /\ CallerInv' /\ WindowInv'
PROOF
<1>0. StoreInv /\ ClockInv /\ CallerInv /\ WindowInv
  BY DEF CacheInv
<1>1. UNCHANGED <<cache, call>>
  BY DEF Write, Insert, Restamp, Prune, Vacuum, Tick, SetBack
<1>2. ASSUME Write PROVE UNCHANGED <<now, high>>
  BY <1>2 DEF Write, Insert, Restamp, Prune, Vacuum, clock
<1>3. ASSUME Write PROVE StoreInv' /\ \A c : Right(c) => RightNext(c)
  <2>1. CASE \E i \in Ids : Insert(i)
    BY <1>0, <2>1, InsertKeeps
  <2>2. CASE \E ids \in Batches, stamp \in Stamps : Restamp(ids, stamp)
    BY <1>0, <2>2, RestampKeeps
  <2>3. CASE \E p \in Policies : Prune(p)
    BY <1>0, <2>3, PruneKeeps
  <2>4. CASE Vacuum
    BY <1>0, <2>4, VacuumKeeps
  <2> QED BY <1>3, <2>1, <2>2, <2>3, <2>4 DEF Write
<1>4. StoreInv' /\ ClockInv' /\ \A c : Right(c) => RightNext(c)
  <2>1. CASE Write
    BY <1>0, <1>2, <1>3, <2>1 DEF ClockInv
  <2>2. CASE Tick \/ SetBack
    BY <1>0, <2>2, ClockKeeps
  <2> QED BY <2>1, <2>2
<1>5. CallerInv'
  <2>1. CASE Tick
    <3>1. \A r \in Readers : call[r] # Idle => high' - Horizon <= call[r].oldest
      BY <2>1 DEF Tick, InTime
    <3>2. Idle.at = "idle"
      BY DEF Idle
    <3> QED BY <1>0, <1>1, <3>1, <3>2 DEF CallerInv
  <2>2. CASE SetBack \/ Write
    <3>1. high' = high
      BY <1>2, <2>2 DEF SetBack
    <3> QED BY <1>0, <1>1, <3>1 DEF CallerInv
  <2> QED BY <2>1, <2>2
<1>6. WindowInv'
  BY <1>0, <1>1, <1>4 DEF WindowInv, Right, RightNext
<1> QED BY <1>4, <1>5, <1>6

\* The steps of a call.
LEMMA ReaderStep ==
  ASSUME CacheInv, NEW r \in Readers, Reader(r) \/ CancelWait(r)
  PROVE  StoreInv' /\ ClockInv' /\ CallerInv' /\ WindowInv'
PROOF
<1>0. CallInv /\ StoreInv /\ ClockInv /\ CallerInv /\ WindowInv
  BY DEF CacheInv
<1>1. UNCHANGED <<rows, log, seq, used, now, high>>
  BY DEF Reader, CancelWait, Answer, AnswerFails, NeedFull, Snapshot, Install, FillFails,
         store, clock
<1>2. StoreInv' /\ ClockInv'
  BY <1>0, <1>1 DEF StoreInv, ClockInv
<1>3. \A c : Right(c) => RightNext(c)
  BY <1>1 DEF Right, RightNext
<1>4. \A q \in Readers :
        /\ call'[q].at # "idle" => /\ call[q].at # "idle"
                                   /\ call'[q].from = call[q].from
                                   /\ call'[q].oldest = call[q].oldest
        /\ call'[q].at = "read" =>
             \/ call[q].at = "read" /\ call'[q].fresh = call[q].fresh
             \/ Snapshot(r) /\ call[q].at = "filling" /\ call'[q].fresh = FullRead(call[q].from)
  BY <1>0, CallKept
<1>5. CallerInv'
  BY <1>0, <1>1, <1>4 DEF CallerInv
<1>6. ASSUME NEW q \in Readers, call'[q].at = "read" PROVE RightNext(call'[q].fresh)
  <2>1. CASE call[q].at = "read" /\ call'[q].fresh = call[q].fresh
    BY <1>0, <1>3, <2>1 DEF WindowInv
  <2>2. CASE call[q].at = "filling" /\ call'[q].fresh = FullRead(call[q].from)
    <3>1. call[q].from \in Int
      BY <1>0, <2>2 DEF CallerInv
    <3>2. Right(FullRead(call[q].from))
      BY <1>0, <3>1, FullReadCurrent, CurrentIsRight
    <3> QED BY <1>3, <2>2, <3>2
  <2> QED BY <1>4, <1>6, <2>1, <2>2
<1>7. ASSUME cache' # NoCache PROVE RightNext(cache')
  <2>1. CASE Answer(r)
    <3>1. /\ call[r].at = "looking" /\ cache # NoCache /\ CanUpdate(cache)
          /\ cache' = Trim(Update(cache), call[r].oldest)
      BY <2>1 DEF Answer, Answerable, Answered, Looking, Covers
    <3>2. Right(cache) /\ call[r].oldest \in Int
      BY <1>0, <3>1 DEF WindowInv, CallerInv
    <3>3. Current(Update(cache))
      BY <1>0, <3>1, <3>2, UpdateCurrent
    <3>4. Current(Trim(Update(cache), call[r].oldest))
      BY <1>0, <3>2, <3>3, TrimCurrent
    <3>5. Right(Trim(Update(cache), call[r].oldest))
      BY <1>0, <3>4, CurrentIsRight
    <3> QED BY <1>3, <3>1, <3>5
  <2>2. CASE Install(r)
    <3>1. Right(call[r].fresh) /\ cache' = call[r].fresh
      BY <1>0, <2>2 DEF WindowInv, Install
    <3> QED BY <1>3, <3>1
  <2>3. CASE ~Answer(r) /\ ~Install(r)
    <3>1. cache' = cache
      BY <2>3 DEF Reader, CancelWait, AnswerFails, NeedFull, Snapshot, FillFails
    <3>2. Right(cache)
      BY <1>0, <1>7, <3>1 DEF WindowInv
    <3> QED BY <1>3, <3>1, <3>2
  <2> QED BY <2>1, <2>2, <2>3
<1>8. WindowInv'
  BY <1>6, <1>7 DEF WindowInv, Right, RightNext
<1> QED BY <1>2, <1>5, <1>8

\* A call begins, with no older events in its reach than the log covers.
LEMMA BeginStep ==
  ASSUME CacheInv, NEW r \in Readers, NEW start \in Froms, Begin(r, start)
  PROVE  StoreInv' /\ ClockInv' /\ CallerInv' /\ WindowInv'
PROOF
<1>0. CallInv /\ StoreInv /\ ClockInv /\ CallerInv /\ WindowInv
  BY DEF CacheInv
<1> DEFINE b == [at |-> "looking", from |-> start, oldest |-> now - Span, fresh |-> NoCache]
<1>1. /\ UNCHANGED <<rows, log, seq, used, now, high, cache>>
      /\ call' = [call EXCEPT ![r] = b] /\ start >= now - Span
  BY DEF Begin, store, clock
<1>2. StoreInv' /\ ClockInv'
  BY <1>0, <1>1 DEF StoreInv, ClockInv
<1>3. b.at = "looking" /\ b.from = start /\ b.oldest = now - Span
  OBVIOUS
<1> HIDE DEF b
<1>4. \A q \in Readers : call'[q] = IF q = r THEN b ELSE call[q]
  BY <1>0, <1>1 DEF CallInv
<1>5. /\ start \in Int /\ now - Span \in Int /\ now - Span <= start
      /\ high - Horizon <= now - Span
  <2>1. start \in Int /\ Span \in Int /\ Horizon \in Int /\ now \in Int /\ high \in Int
    BY <1>0, WindowAssumption DEF ClockInv
  <2>2. high - (Horizon - Span) <= now
    BY <1>0 DEF ClockInv, Slack
  <2> QED BY <1>1, <2>1, <2>2
<1>6. CallerInv'
  <2> SUFFICES ASSUME NEW q \in Readers, call'[q].at # "idle"
               PROVE  /\ call'[q].from \in Int /\ call'[q].oldest \in Int
                      /\ call'[q].oldest <= call'[q].from /\ high' - Horizon <= call'[q].oldest
    BY DEF CallerInv
  <2>1. CASE q = r
    BY <1>1, <1>3, <1>4, <1>5, <2>1
  <2>2. CASE q # r
    BY <1>0, <1>1, <1>4, <2>2 DEF CallerInv
  <2> QED BY <2>1, <2>2
<1>7. WindowInv'
  <2>1. \A c : Right(c) => RightNext(c)
    BY <1>1 DEF Right, RightNext
  <2>2. cache' # NoCache => RightNext(cache')
    BY <1>0, <1>1, <2>1 DEF WindowInv
  <2>3. \A q \in Readers : call'[q].at = "read" => RightNext(call'[q].fresh)
    BY <1>0, <1>3, <1>4, <2>1 DEF WindowInv
  <2> QED BY <2>2, <2>3 DEF WindowInv, Right, RightNext
<1> QED BY <1>2, <1>6, <1>7

\* Every step keeps the windows right.
LEMMA CacheStep ==
  ~Reinsert /\ CacheInv /\ FillInv /\ [Next]_vars => CacheInv' /\ FillInv'
PROOF
<1> SUFFICES ASSUME ~Reinsert, CacheInv, FillInv, [Next]_vars PROVE CacheInv' /\ FillInv'
  OBVIOUS
<1>0. CallInv /\ StoreInv /\ ClockInv /\ CallerInv /\ WindowInv
  BY DEF CacheInv
<1>1. CallInv' /\ FillInv'
  BY <1>0, FillStep
<1>2. StoreInv' /\ ClockInv' /\ CallerInv' /\ WindowInv'
  <2>1. CASE Write \/ Tick \/ SetBack
    BY <2>1, WriteStep
  <2>2. ASSUME NEW r \in Readers, NEW start \in Froms, Begin(r, start)
        PROVE  StoreInv' /\ ClockInv' /\ CallerInv' /\ WindowInv'
    BY <2>2, BeginStep
  <2>3. ASSUME NEW r \in Readers, Reader(r) \/ CancelWait(r)
        PROVE  StoreInv' /\ ClockInv' /\ CallerInv' /\ WindowInv'
    BY <2>3, ReaderStep
  <2>4. CASE IdleDrop
    <3>1. UNCHANGED <<rows, log, seq, used, now, high, call>> /\ cache' = NoCache
      BY <2>4 DEF IdleDrop, store, clock
    <3>2. StoreInv' /\ ClockInv' /\ CallerInv'
      BY <1>0, <3>1 DEF StoreInv, ClockInv, CallerInv
    <3>3. WindowInv'
      BY <1>0, <3>1 DEF WindowInv, Right
    <3> QED BY <3>2, <3>3
  <2>5. CASE UNCHANGED vars
    <3>1. UNCHANGED <<rows, log, seq, used, now, high, call, cache>>
      BY <2>5 DEF vars
    <3>2. StoreInv' /\ ClockInv' /\ CallerInv'
      BY <1>0, <3>1 DEF StoreInv, ClockInv, CallerInv
    <3>3. WindowInv'
      BY <1>0, <3>1 DEF WindowInv, Right
    <3> QED BY <3>2, <3>3
  <2> QED BY <2>1, <2>2, <2>3, <2>4, <2>5 DEF Next
<1> QED BY <1>1, <1>2 DEF CacheInv

\* A right window answers as the store does.
LEMMA CacheAnswers == CacheInv => AnswersAsTheStore
PROOF
<1> SUFFICES ASSUME CacheInv, NEW r \in Readers, Answerable(r)
             PROVE  Since(Answered(r).events, call[r].from) = SetToBag(StoreEvents(call[r].from))
  BY DEF AnswersAsTheStore
<1> DEFINE from == call[r].from
           oldest == call[r].oldest
           u == Update(cache)
           w == Trim(u, oldest)
<1>0. StoreInv /\ ClockInv /\ CallerInv /\ WindowInv
  BY DEF CacheInv
<1>1. call[r].at = "looking" /\ cache # NoCache /\ cache.floor <= from /\ CanUpdate(cache)
  BY DEF Answerable, Looking, Covers
<1>2. from \in Int /\ oldest \in Int /\ oldest <= from /\ high - Horizon <= oldest
  BY <1>0, <1>1 DEF CallerInv
<1>3. Right(cache)
  BY <1>0, <1>1 DEF WindowInv
<1>4. Current(u) /\ u.floor = cache.floor
  BY <1>0, <1>1, <1>3, UpdateCurrent
<1> HIDE DEF u
<1>5. Current(w) /\ w.floor = IF u.floor >= oldest THEN u.floor ELSE oldest
  BY <1>0, <1>2, <1>4, TrimCurrent
<1>6. w.floor <= from /\ high - Horizon <= from
  <2>1. high \in Int /\ Horizon \in Int
    BY <1>0, WindowAssumption DEF ClockInv
  <2>2. high - Horizon <= from
    BY <1>2, <2>1
  <2> QED BY <1>1, <1>2, <1>4, <1>5, <2>2
<1> HIDE DEF w, from
<1>7. Since(w.events, from) = SetToBag(StoreEvents(from))
  BY <1>0, <1>2, <1>5, <1>6, CurrentAnswers
<1> QED BY <1>7 DEF Answered, w, u, from

\* Whatever is inserted, restamped, pruned, renumbered, expired or read again,
\* by whichever process and in whatever order: a call that the window answers
\* gets exactly the stored events of its range, each once.  An event that
\* retention deleted must not be stored again under a rowid it gave up; the run
\* cache_reused_rowid shows what happens when it is.
THEOREM CacheIsTheStore == ~Reinsert => (Spec => []AnswersAsTheStore)
PROOF
<1> SUFFICES ASSUME ~Reinsert PROVE Spec => []AnswersAsTheStore
  OBVIOUS
<1>1. Init => CacheInv /\ FillInv
  BY CacheInit, FillInit
<1>2. CacheInv /\ FillInv /\ [Next]_vars => (CacheInv /\ FillInv)'
  BY CacheStep
<1>3. CacheInv => AnswersAsTheStore
  BY CacheAnswers
<1> QED BY <1>1, <1>2, <1>3, PTL DEF Spec
=============================================================================
