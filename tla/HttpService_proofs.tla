--------------------------- MODULE HttpService_proofs ----------------------------
(***************************************************************************)
(* The executor loses and doubles no permit and serves its queue in order, *)
(* for every number of permits and every set of operations; and what the   *)
(* routes keep true, for every set of requests, of inputs and of permits:  *)
(* they use the executor as it is meant to be used, so that its theorems   *)
(* hold of the service; they restore with envelopes that match, and refuse *)
(* no redaction that they have stored.                                     *)
(***************************************************************************)
EXTENDS HttpService, FiniteSetTheorems, SequenceTheorems, TLAPS

--------------------------------------------------------------------------------
(***************************************************************************)
(* The executor by itself                                                  *)
(***************************************************************************)

\* The operations that hold a permit are counted.
HoldersFinite == IsFiniteSet(granted) /\ IsFiniteSet(running)

\* The inductive invariant: permits can only be counted if no operation is in two
\* places, and the queue can only be skipped if nobody waits for a free permit.
ExecutorIInv ==
    /\ ExecutorTypeOK
    /\ HoldersFinite
    /\ OnePlace
    /\ NoIdlePermit
    /\ PermitsConserved

--------------------------------------------------------------------------------

LEMMA InitExecutorIInv == InitExecutor => ExecutorIInv
<1> SUFFICES ASSUME InitExecutor PROVE ExecutorIInv
  OBVIOUS
<1>1. ExecutorTypeOK
  BY ParallelismAssumption, EmptySeq DEF InitExecutor, ExecutorTypeOK
<1>2. HoldersFinite
  BY FS_EmptySet DEF InitExecutor, HoldersFinite
<1>3. OnePlace
  BY DEF InitExecutor, OnePlace, Waiting
<1>4. NoIdlePermit
  BY DEF InitExecutor, NoIdlePermit
<1>5. PermitsConserved
  BY ParallelismAssumption, FS_EmptySet DEF InitExecutor, PermitsConserved
<1>6. QED
  BY <1>1, <1>2, <1>3, <1>4, <1>5 DEF ExecutorIInv

\* The queue without the element at i keeps every other element once.
LEMMA QueueWithout ==
    ASSUME NEW S, NEW q \in Seq(S), NEW i \in DOMAIN q,
           \A j, k \in DOMAIN q : q[j] = q[k] => j = k
    PROVE  LET rest == SubSeq(q, 1, i - 1) \o SubSeq(q, i + 1, Len(q))
           IN  /\ rest \in Seq(S)
               /\ \A j \in DOMAIN rest : \E k \in DOMAIN q \ {i} : rest[j] = q[k]
               /\ \A j, k \in DOMAIN rest : rest[j] = rest[k] => j = k
<1> DEFINE before == SubSeq(q, 1, i - 1)
           after == SubSeq(q, i + 1, Len(q))
           rest == before \o after
           from(j) == IF j <= i - 1 THEN j ELSE j + 1
<1>0. DOMAIN q = 1..Len(q) /\ Len(q) \in Nat /\ i \in 1..Len(q)
  BY LenProperties
<1>1. \A j \in 1..Len(q) : q[j] \in S
  BY <1>0, ElementOfSeq
<1>2. /\ before \in Seq(S)
      /\ Len(before) = i - 1
      /\ \A j \in 1..(i - 1) : before[j] = q[j]
  <2>1. \A j \in 1..(i - 1) : q[j] \in S
    BY <1>0, <1>1
  <2>2. 1 \in Int /\ i - 1 \in Int
    BY <1>0
  <2>3. /\ before \in Seq(S)
        /\ Len(before) = IF 1 <= i - 1 THEN (i - 1) - 1 + 1 ELSE 0
        /\ \A j \in 1 .. (i - 1) - 1 + 1 : before[j] = q[1 + j - 1]
    BY <2>1, <2>2, SubSeqProperties
  <2>4. QED
    BY <1>0, <2>3
<1>3. /\ after \in Seq(S)
      /\ Len(after) = Len(q) - i
      /\ \A j \in 1..(Len(q) - i) : after[j] = q[i + j]
  <2>1. \A j \in (i + 1)..Len(q) : q[j] \in S
    BY <1>0, <1>1
  <2>2. i + 1 \in Int /\ Len(q) \in Int
    BY <1>0
  <2>3. /\ after \in Seq(S)
        /\ Len(after) = IF i + 1 <= Len(q) THEN Len(q) - (i + 1) + 1 ELSE 0
        /\ \A j \in 1 .. Len(q) - (i + 1) + 1 : after[j] = q[(i + 1) + j - 1]
    BY <2>1, <2>2, SubSeqProperties
  <2>4. QED
    BY <1>0, <2>3
<1> HIDE DEF before, after, rest
<1>4. /\ rest \in Seq(S)
      /\ Len(rest) = Len(q) - 1
      /\ \A j \in 1..(Len(q) - 1) :
            rest[j] = IF j <= i - 1 THEN before[j] ELSE after[j - (i - 1)]
  <2>1. rest = before \o after
    BY DEF rest
  <2>2. /\ rest \in Seq(S)
        /\ Len(rest) = Len(before) + Len(after)
        /\ \A j \in 1 .. Len(before) + Len(after) :
              rest[j] = IF j <= Len(before) THEN before[j] ELSE after[j - Len(before)]
    <3>1. before \in Seq(S) /\ after \in Seq(S)
      BY <1>2, <1>3
    <3>2. /\ before \o after \in Seq(S)
          /\ Len(before \o after) = Len(before) + Len(after)
          /\ \A j \in 1 .. Len(before) + Len(after) : (before \o after)[j] =
                IF j <= Len(before) THEN before[j] ELSE after[j - Len(before)]
      BY <3>1, ConcatProperties, Zenon
    <3>3. QED
      BY <2>1, <3>2, Zenon
  <2>3. Len(before) + Len(after) = Len(q) - 1
    BY <1>0, <1>2, <1>3
  <2>4. QED
    BY <1>2, <2>2, <2>3
<1>5. DOMAIN rest = 1..(Len(q) - 1)
  BY <1>4, LenProperties
<1>6. \A j \in DOMAIN rest : from(j) \in DOMAIN q \ {i} /\ rest[j] = q[from(j)]
  <2> SUFFICES ASSUME NEW j \in DOMAIN rest
               PROVE  from(j) \in DOMAIN q \ {i} /\ rest[j] = q[from(j)]
    OBVIOUS
  <2>1. CASE j <= i - 1
    BY <1>0, <1>2, <1>4, <1>5, <2>1
  <2>2. CASE ~(j <= i - 1)
    <3>1. j - (i - 1) \in 1..(Len(q) - i)
      BY <1>0, <1>5, <2>2
    <3>2. rest[j] = after[j - (i - 1)]
      BY <1>0, <1>2, <1>4, <1>5, <2>2
    <3>3. rest[j] = q[i + (j - (i - 1))]
      BY <1>3, <3>1, <3>2
    <3>4. i + (j - (i - 1)) = j + 1
      BY <1>0, <1>5
    <3>5. QED
      BY <1>0, <1>5, <2>2, <3>3, <3>4
  <2>3. QED
    BY <2>1, <2>2
<1>7. \A j, k \in DOMAIN rest : rest[j] = rest[k] => j = k
  <2> SUFFICES ASSUME NEW j \in DOMAIN rest, NEW k \in DOMAIN rest, rest[j] = rest[k]
               PROVE  j = k
    OBVIOUS
  <2>1. from(j) = from(k)
    BY <1>6
  <2>2. QED
    BY <1>0, <1>5, <2>1
<1>8. QED
  BY <1>4, <1>6, <1>7 DEF rest, before, after

\* A permit that is given back goes to the first in the queue, or becomes free.
LEMMA ReleaseKeeps ==
    ASSUME ExecutorTypeOK, OnePlace, NoIdlePermit,
           NEW holders \in SUBSET granted, IsFiniteSet(holders), Release(holders)
    PROVE  /\ available' \in Nat
           /\ waiting' \in Seq(Operations)
           /\ granted' \subseteq Operations
           /\ IsFiniteSet(granted')
           /\ Waiting' \subseteq Waiting
           /\ granted' \subseteq holders \cup Waiting
           /\ Waiting' \cap granted' = {}
           /\ \A i, j \in DOMAIN waiting' : waiting'[i] = waiting'[j] => i = j
           /\ waiting' # <<>> => available' = 0
           /\ available' + Cardinality(granted') = available + Cardinality(holders) + 1
<1> USE DEF ExecutorTypeOK
<1>1. available \in Nat /\ Cardinality(holders) \in Nat
  BY ParallelismAssumption, FS_CardinalityType
<1>2. CASE waiting = <<>>
  BY <1>1, <1>2 DEF Release, OnePlace, Waiting
<1>3. CASE waiting # <<>>
  <2>1. /\ DOMAIN waiting = 1..Len(waiting)
        /\ Len(waiting) \in Nat \ {0}
        /\ waiting' = Tail(waiting)
        /\ granted' = holders \cup {Head(waiting)}
        /\ available' = available
    BY <1>3, LenProperties, EmptySeq DEF Release
  <2>2. /\ Head(waiting) \in Operations
        /\ waiting' \in Seq(Operations)
        /\ Len(waiting') = Len(waiting) - 1
        /\ \A i \in 1..Len(waiting') : waiting'[i] = waiting[i + 1]
    BY <1>3, <2>1, HeadTailProperties
  <2>3. DOMAIN waiting' = 1..(Len(waiting) - 1)
    BY <2>2, LenProperties
  <2>4. Head(waiting) = waiting[1] /\ 1 \in DOMAIN waiting
    BY <1>3, <2>1
  <2>5. \A i \in DOMAIN waiting' : i + 1 \in DOMAIN waiting /\ waiting'[i] = waiting[i + 1]
    BY <2>1, <2>2, <2>3
  <2>6. Waiting' \subseteq Waiting
    BY <2>5 DEF Waiting
  <2>7. Head(waiting) \in Waiting
    BY <2>4 DEF Waiting
  <2>8. Head(waiting) \notin Waiting'
    <3>1. \A i \in DOMAIN waiting' : waiting[i + 1] # waiting[1]
      <4> SUFFICES ASSUME NEW i \in DOMAIN waiting', waiting[i + 1] = waiting[1]
                   PROVE  FALSE
        OBVIOUS
      <4>1. i + 1 = 1
        BY <2>4, <2>5 DEF OnePlace
      <4>2. QED
        BY <2>1, <2>3, <4>1
    <3>2. QED
      BY <2>4, <2>5, <3>1 DEF Waiting
  <2>9. Waiting' \cap granted' = {}
    BY <2>1, <2>6, <2>8 DEF OnePlace
  <2>10. \A i, j \in DOMAIN waiting' : waiting'[i] = waiting'[j] => i = j
    <3> SUFFICES ASSUME NEW i \in DOMAIN waiting', NEW j \in DOMAIN waiting',
                        waiting'[i] = waiting'[j]
                 PROVE  i = j
      OBVIOUS
    <3>1. i + 1 = j + 1
      BY <2>5 DEF OnePlace
    <3>2. QED
      BY <2>1, <2>3, <3>1
  <2>11. Head(waiting) \notin holders
    BY <2>7 DEF OnePlace
  <2>12. IsFiniteSet(granted') /\ Cardinality(granted') = Cardinality(holders) + 1
    BY <2>1, <2>11, FS_AddElement
  <2>13. available' = 0
    BY <1>3, <2>1 DEF NoIdlePermit
  <2>14. QED
    BY <1>1, <2>1, <2>2, <2>6, <2>7, <2>9, <2>10, <2>12, <2>13
<1>4. QED
  BY <1>2, <1>3

LEMMA RunKeeps ==
    ASSUME ExecutorIInv, NEW o \in Operations, Run(o)
    PROVE  ExecutorIInv'
<1> USE DEF ExecutorIInv, ExecutorTypeOK, HoldersFinite
<1>1. /\ available \in Nat /\ Cardinality(granted) \in Nat /\ Cardinality(running) \in Nat
      /\ DOMAIN waiting = 1..Len(waiting) /\ Len(waiting) \in Nat
  BY ParallelismAssumption, FS_CardinalityType, LenProperties
<1>2. CASE available > 0
  <2>1. /\ available' = available - 1 /\ granted' = granted \cup {o}
        /\ waiting' = waiting /\ running' = running
    BY <1>2 DEF Run
  <2>2. IsFiniteSet(granted') /\ Cardinality(granted') = Cardinality(granted) + 1
    BY <2>1, FS_AddElement DEF Run
  <2>3. PermitsConserved'
    BY <1>1, <2>1, <2>2 DEF PermitsConserved
  <2>4. ExecutorTypeOK'
    BY <1>1, <1>2, <2>1, ParallelismAssumption
  <2>5. OnePlace'
    BY <2>1 DEF OnePlace, Waiting, Run
  <2>6. NoIdlePermit'
    BY <1>1, <1>2, <2>1 DEF NoIdlePermit
  <2>7. QED
    BY <2>1, <2>2, <2>3, <2>4, <2>5, <2>6
<1>3. CASE ~(available > 0)
  <2>1. /\ waiting' = Append(waiting, o) /\ available' = available
        /\ granted' = granted /\ running' = running
    BY <1>3 DEF Run
  <2>2. /\ waiting' \in Seq(Operations)
        /\ Len(waiting') = Len(waiting) + 1
        /\ DOMAIN waiting' = 1..(Len(waiting) + 1)
        /\ \A i \in 1..Len(waiting) : waiting'[i] = waiting[i]
        /\ waiting'[Len(waiting) + 1] = o
    BY <1>1, <2>1
  <2>3. Waiting' = Waiting \cup {o}
    <3>1. ASSUME NEW w \in Waiting' PROVE w \in Waiting \cup {o}
      <4>1. PICK i \in DOMAIN waiting' : w = waiting'[i]
        BY DEF Waiting
      <4>2. i \in 1..Len(waiting) \/ i = Len(waiting) + 1
        BY <1>1, <2>2
      <4>3. QED
        BY <1>1, <2>2, <4>1, <4>2 DEF Waiting
    <3>2. ASSUME NEW w \in Waiting PROVE w \in Waiting'
      <4>1. PICK i \in DOMAIN waiting : w = waiting[i]
        BY DEF Waiting
      <4>2. i \in DOMAIN waiting' /\ waiting'[i] = w
        BY <1>1, <2>2, <4>1
      <4>3. QED
        BY <4>2 DEF Waiting
    <3>3. o \in Waiting'
      <4>1. Len(waiting) + 1 \in DOMAIN waiting'
        BY <1>1, <2>2
      <4>2. QED
        BY <2>2, <4>1 DEF Waiting
    <3>4. QED
      BY <3>1, <3>2, <3>3
  <2>4. \A i, j \in DOMAIN waiting' : waiting'[i] = waiting'[j] => i = j
    <3>1. \A i \in 1..Len(waiting) : waiting[i] # o
      BY <1>1 DEF Run, Waiting
    <3>2. QED
      BY <1>1, <2>2, <3>1 DEF OnePlace
  <2>5. OnePlace'
    BY <2>1, <2>3, <2>4 DEF OnePlace, Run
  <2>6. NoIdlePermit'
    BY <1>1, <1>3, <2>1 DEF NoIdlePermit
  <2>7. PermitsConserved'
    BY <2>1 DEF PermitsConserved
  <2>8. QED
    BY <2>1, <2>2, <2>5, <2>6, <2>7
<1>4. QED
  BY <1>2, <1>3

LEMMA SpawnKeeps ==
    ASSUME ExecutorIInv, NEW o \in Operations, Spawn(o)
    PROVE  ExecutorIInv'
<1> USE DEF ExecutorIInv, ExecutorTypeOK, HoldersFinite
<1>1. /\ o \in granted /\ o \notin running
      /\ granted' = granted \ {o} /\ running' = running \cup {o}
      /\ available' = available /\ waiting' = waiting
  BY DEF Spawn, OnePlace
<1>2. /\ IsFiniteSet(granted') /\ Cardinality(granted') = Cardinality(granted) - 1
      /\ IsFiniteSet(running') /\ Cardinality(running') = Cardinality(running) + 1
  BY <1>1, FS_AddElement, FS_RemoveElement
<1>3. available \in Nat /\ Cardinality(granted) \in Nat /\ Cardinality(running) \in Nat
  BY ParallelismAssumption, FS_CardinalityType
<1>4. PermitsConserved'
  BY <1>1, <1>2, <1>3 DEF PermitsConserved
<1>5. OnePlace'
  BY <1>1 DEF OnePlace, Waiting
<1>6. NoIdlePermit'
  BY <1>1 DEF NoIdlePermit
<1>7. QED
  BY <1>1, <1>2, <1>4, <1>5, <1>6

\* Whoever had the permit that is given back, with the operations that keep theirs.
LEMMA ReleaseKeepsIInv ==
    ASSUME ExecutorIInv, NEW holders \in SUBSET granted, Release(holders),
           running' \subseteq running,
           IsFiniteSet(holders), IsFiniteSet(running'),
           Cardinality(holders) + Cardinality(running') + 1
               = Cardinality(granted) + Cardinality(running)
    PROVE  ExecutorIInv'
<1>0. /\ ExecutorTypeOK /\ HoldersFinite /\ OnePlace /\ NoIdlePermit /\ PermitsConserved
      /\ running' \subseteq Operations /\ running \cap Waiting = {}
      /\ granted \cap running = {}
  BY DEF ExecutorIInv, ExecutorTypeOK, OnePlace
<1>1. /\ available' \in Nat
      /\ waiting' \in Seq(Operations)
      /\ granted' \subseteq Operations
      /\ IsFiniteSet(granted')
      /\ Waiting' \subseteq Waiting
      /\ granted' \subseteq holders \cup Waiting
      /\ Waiting' \cap granted' = {}
      /\ \A i, j \in DOMAIN waiting' : waiting'[i] = waiting'[j] => i = j
      /\ waiting' # <<>> => available' = 0
      /\ available' + Cardinality(granted') = available + Cardinality(holders) + 1
  BY <1>0, ReleaseKeeps
<1>2. /\ Cardinality(granted) \in Nat /\ Cardinality(running) \in Nat
      /\ Cardinality(holders) \in Nat /\ Cardinality(running') \in Nat
      /\ Cardinality(granted') \in Nat /\ available \in Nat /\ Parallelism \in Nat
  BY <1>0, <1>1, FS_CardinalityType, ParallelismAssumption DEF ExecutorTypeOK, HoldersFinite
<1>3. PermitsConserved'
  <2>1. available + Cardinality(granted) + Cardinality(running) = Parallelism
    BY <1>0 DEF PermitsConserved
  <2>2. /\ available' + Cardinality(granted') = available + Cardinality(holders) + 1
        /\ Cardinality(holders) + Cardinality(running') + 1
             = Cardinality(granted) + Cardinality(running)
        /\ available' \in Nat
    BY <1>1
  <2>3. available' + Cardinality(granted') + Cardinality(running') = Parallelism
    <3> DEFINE a == available'   g == Cardinality(granted')   h == Cardinality(holders)
               r == Cardinality(running')   G == Cardinality(granted)
               R == Cardinality(running)   b == available
    <3>1. a \in Nat /\ g \in Nat /\ h \in Nat /\ r \in Nat /\ G \in Nat /\ R \in Nat /\ b \in Nat
      BY <1>2, <2>2
    <3>2. a + g = b + h + 1 /\ h + r + 1 = G + R /\ b + G + R = Parallelism
      BY <2>1, <2>2
    <3> HIDE DEF a, g, h, r, G, R, b
    <3>3. a + g + r = Parallelism
      BY <3>1, <3>2
    <3>4. QED
      BY <3>3 DEF a, g, r
  <2>4. QED
    BY <2>3 DEF PermitsConserved
<1>4. available' \in 0..Parallelism
  BY <1>1, <1>2, <1>3 DEF PermitsConserved
<1>5. OnePlace'
  BY <1>0, <1>1 DEF OnePlace
<1>6. NoIdlePermit'
  BY <1>1 DEF NoIdlePermit
<1>7. QED
  BY <1>0, <1>1, <1>3, <1>4, <1>5, <1>6 DEF ExecutorIInv, ExecutorTypeOK, HoldersFinite

LEMMA ReturnKeeps ==
    ASSUME ExecutorIInv, NEW o \in Operations, Return(o)
    PROVE  ExecutorIInv'
<1>1. IsFiniteSet(granted) /\ IsFiniteSet(running)
  BY DEF ExecutorIInv, HoldersFinite
<1>2. o \in running /\ running' = running \ {o} /\ Release(granted)
  BY DEF Return
<1>3. IsFiniteSet(running') /\ Cardinality(running') = Cardinality(running) - 1
  BY <1>1, <1>2, FS_RemoveElement
<1>4. Cardinality(granted) \in Nat /\ Cardinality(running) \in Nat
  BY <1>1, FS_CardinalityType
<1>5. Cardinality(granted) + Cardinality(running') + 1
        = Cardinality(granted) + Cardinality(running)
  BY <1>3, <1>4
<1>6. QED
  BY <1>1, <1>2, <1>3, <1>5, ReleaseKeepsIInv

LEMMA DropKeeps ==
    ASSUME ExecutorIInv, NEW o \in Operations, Drop(o)
    PROVE  ExecutorIInv'
<1>1. IsFiniteSet(granted) /\ IsFiniteSet(running)
  BY DEF ExecutorIInv, HoldersFinite
<1>2. CASE Leave(o) /\ UNCHANGED <<available, granted, running>>
  <2>1. PICK i \in DOMAIN waiting :
            waiting' = SubSeq(waiting, 1, i - 1) \o SubSeq(waiting, i + 1, Len(waiting))
    BY <1>2 DEF Leave
  <2>2. waiting \in Seq(Operations) /\ waiting # <<>>
    BY <2>1 DEF ExecutorIInv, ExecutorTypeOK
  <2>3. \A j, k \in DOMAIN waiting : waiting[j] = waiting[k] => j = k
    BY DEF ExecutorIInv, OnePlace
  <2>4. /\ waiting' \in Seq(Operations)
        /\ \A j \in DOMAIN waiting' : \E k \in DOMAIN waiting \ {i} : waiting'[j] = waiting[k]
        /\ \A j, k \in DOMAIN waiting' : waiting'[j] = waiting'[k] => j = k
    <3> DEFINE rest == SubSeq(waiting, 1, i - 1) \o SubSeq(waiting, i + 1, Len(waiting))
    <3>1. /\ rest \in Seq(Operations)
          /\ \A j \in DOMAIN rest : \E k \in DOMAIN waiting \ {i} : rest[j] = waiting[k]
          /\ \A j, k \in DOMAIN rest : rest[j] = rest[k] => j = k
      BY <2>2, <2>3, QueueWithout, Zenon
    <3>2. waiting' = rest
      BY <2>1
    <3> HIDE DEF rest
    <3>3. QED
      BY <3>1, <3>2, Zenon
  <2>5. Waiting' \subseteq Waiting
    BY <2>4 DEF Waiting
  <2>6. OnePlace'
    BY <1>2, <2>4, <2>5 DEF OnePlace, ExecutorIInv
  <2>7. NoIdlePermit'
    BY <1>2, <2>2 DEF NoIdlePermit, ExecutorIInv
  <2>8. PermitsConserved' /\ HoldersFinite'
    BY <1>2 DEF PermitsConserved, HoldersFinite, ExecutorIInv
  <2>9. ExecutorTypeOK'
    BY <1>2, <2>4 DEF ExecutorTypeOK, ExecutorIInv
  <2>10. QED
    BY <2>6, <2>7, <2>8, <2>9 DEF ExecutorIInv
<1>3. CASE o \in granted /\ Release(granted \ {o}) /\ UNCHANGED running
  <2>1. IsFiniteSet(granted \ {o}) /\ Cardinality(granted \ {o}) = Cardinality(granted) - 1
    BY <1>1, <1>3, FS_RemoveElement
  <2>2. Cardinality(granted) \in Nat /\ Cardinality(running) \in Nat
    BY <1>1, FS_CardinalityType
  <2>3. Cardinality(granted \ {o}) + Cardinality(running') + 1
          = Cardinality(granted) + Cardinality(running)
    BY <1>3, <2>1, <2>2
  <2>4. granted \ {o} \in SUBSET granted /\ running' \subseteq running /\ IsFiniteSet(running')
    BY <1>1, <1>3
  <2>5. QED
    BY <1>3, <2>1, <2>3, <2>4, ReleaseKeepsIInv
<1>4. CASE o \in running /\ UNCHANGED executorVars
  BY <1>4 DEF executorVars, ExecutorIInv, ExecutorTypeOK, HoldersFinite, OnePlace, Waiting,
              NoIdlePermit, PermitsConserved
<1>5. QED
  BY <1>2, <1>3, <1>4 DEF Drop

LEMMA ExecutorStep == ExecutorIInv /\ [ExecutorNext]_executorVars => ExecutorIInv'
<1> SUFFICES ASSUME ExecutorIInv, [ExecutorNext]_executorVars PROVE ExecutorIInv'
  OBVIOUS
<1>1. CASE ExecutorNext
  <2>1. PICK o \in Operations : Run(o) \/ Spawn(o) \/ Return(o) \/ Drop(o)
    BY <1>1 DEF ExecutorNext
  <2>2. QED
    BY <2>1, RunKeeps, SpawnKeeps, ReturnKeeps, DropKeeps
<1>2. CASE UNCHANGED executorVars
  BY <1>2 DEF executorVars, ExecutorIInv, ExecutorTypeOK, HoldersFinite, OnePlace, Waiting,
              NoIdlePermit, PermitsConserved
<1>3. QED
  BY <1>1, <1>2

LEMMA ExecutorInvariance == ExecutorSpec => []ExecutorIInv
  BY InitExecutorIInv, ExecutorStep, PTL DEF ExecutorSpec

\* However futures are dropped, every permit is free, granted or with a closure:
\* never more closures run than there are permits.
THEOREM ExecutorPermits == ExecutorSpec => []PermitsConserved
<1>1. ExecutorIInv => PermitsConserved
  BY DEF ExecutorIInv
<1>2. QED
  BY <1>1, ExecutorInvariance, PTL

\* No operation waits while a permit is free.
THEOREM ExecutorKeepsBusy == ExecutorSpec => []NoIdlePermit
<1>1. ExecutorIInv => NoIdlePermit
  BY DEF ExecutorIInv
<1>2. QED
  BY <1>1, ExecutorInvariance, PTL

\* A step never hands a permit to an operation while one that queued before it
\* still waits.
LEMMA NoOvertakingStep ==
    ASSUME ExecutorIInv, ExecutorNext,
           NEW i \in DOMAIN waiting, NEW j \in DOMAIN waiting, i < j,
           waiting[j] \in granted'
    PROVE  waiting[i] \notin Waiting'
<1>1. waiting \in Seq(Operations) /\ DOMAIN waiting = 1..Len(waiting) /\ waiting # <<>>
  BY LenProperties DEF ExecutorIInv, ExecutorTypeOK
<1>2. waiting[j] \in Waiting /\ waiting[j] \notin granted
  BY DEF Waiting, ExecutorIInv, OnePlace
<1>3. PICK o \in Operations : Run(o) \/ Spawn(o) \/ Return(o) \/ Drop(o)
  BY DEF ExecutorNext
<1>4. waiting[j] # Head(waiting)
  <2>1. Head(waiting) = waiting[1] /\ 1 \in DOMAIN waiting /\ j # 1
    BY <1>1
  <2>2. QED
    BY <2>1 DEF ExecutorIInv, OnePlace
<1>5. ASSUME NEW holders \in SUBSET granted, Release(holders) PROVE FALSE
  BY <1>1, <1>2, <1>4, <1>5 DEF Release
<1>6. CASE Run(o)
  BY <1>2, <1>6 DEF Run
<1>7. CASE Spawn(o)
  BY <1>2, <1>7 DEF Spawn
<1>8. CASE Return(o)
  BY <1>5, <1>8 DEF Return
<1>9. CASE Drop(o)
  BY <1>2, <1>5, <1>9 DEF Drop, executorVars
<1>10. QED
  BY <1>3, <1>6, <1>7, <1>8, <1>9

\* The queue is served in the order of the calls, whoever is dropped.
THEOREM ExecutorOrder == ExecutorSpec => NoOvertaking
<1>1. ExecutorIInv /\ [ExecutorNext]_executorVars => [OvertakesNone]_executorVars
  <2> SUFFICES ASSUME ExecutorIInv, ExecutorNext,
                      NEW i \in DOMAIN waiting, NEW j \in DOMAIN waiting, i < j,
                      waiting[j] \in granted'
               PROVE  waiting[i] \notin {waiting'[k] : k \in DOMAIN waiting'}
    BY DEF OvertakesNone
  <2>1. waiting[i] \notin Waiting'
    BY NoOvertakingStep
  <2>2. QED
    BY <2>1 DEF Waiting
<1>2. QED
  BY <1>1, ExecutorInvariance, PTL DEF ExecutorSpec, NoOvertaking

--------------------------------------------------------------------------------
(***************************************************************************)
(* The executor within the service                                         *)
(***************************************************************************)

\* An answer, or a wait for something else than a permit, leaves the executor
\* alone; the other steps of a handler are steps of run.
LEMMA HandlerUsesExecutor ==
    ASSUME NEW r \in Requests, Handler(r)
    PROVE  ExecutorNext \/ UNCHANGED executorVars
<1> USE DEF Requests
<1>1. CASE HandleRedact(r)
  BY <1>1 DEF HandleRedact, Answer, Block, Await, ExecutorNext
<1>2. CASE HandleRestore(r)
  BY <1>2 DEF HandleRestore, RejectBody, Answer, Block, ExecutorNext
<1>3. CASE HandleInspect(r)
  BY <1>3 DEF HandleInspect, Block, ExecutorNext
<1>4. CASE Go(r)
  BY <1>4 DEF Go, ExecutorNext
<1>5. CASE Finish(r)
  BY <1>5 DEF Finish, ExecutorNext
<1>6. CASE Resume(r)
  BY <1>6 DEF Resume, Answer, Await
<1>7. CASE AuditReply(r)
  BY <1>7 DEF AuditReply
<1>8. QED
  BY <1>1, <1>2, <1>3, <1>4, <1>5, <1>6, <1>7 DEF Handler

LEMMA StoreUsesExecutor ==
    ASSUME NEW r \in Requests, Store(r)
    PROVE  ExecutorNext \/ UNCHANGED executorVars
<1> USE DEF Requests
<1>1. CASE LoadReply(r)
  BY <1>1 DEF LoadReply, Answer, Block, ExecutorNext
<1>2. CASE SaveReply(r)
  BY <1>2 DEF SaveReply, Answer, Block, ExecutorNext
<1>3. QED
  BY <1>1, <1>2 DEF Store

LEMMA StepUsesExecutor == [Next]_vars => [ExecutorNext]_executorVars
<1> SUFFICES ASSUME [Next]_vars PROVE ExecutorNext \/ UNCHANGED executorVars
  OBVIOUS
<1>1. CASE UNCHANGED vars
  BY <1>1 DEF vars, executorVars
<1>2. CASE Next
  <2>1. PICK r \in Requests : Send(r) \/ Handler(r) \/ Store(r) \/ Disconnect(r)
    BY <1>2 DEF Next
  <2>2. CASE Send(r)
    BY <2>2 DEF Send
  <2>3. CASE Disconnect(r)
    BY <2>3 DEF Disconnect, ExecutorNext, Requests
  <2>4. QED
    BY <2>1, <2>2, <2>3, HandlerUsesExecutor, StoreUsesExecutor
<1>3. QED
  BY <1>1, <1>2

\* Whatever handlers do and however clients leave, the permits and the queue
\* change by the steps of run alone.
THEOREM ServiceUsesExecutor == Spec => UsesExecutor
<1>1. Init => InitExecutor
  BY DEF Init
<1>2. QED
  BY <1>1, StepUsesExecutor, PTL DEF Spec, UsesExecutor, ExecutorSpec

\* Never more blocking operations of the service run than there are permits.
THEOREM ServicePermits == Spec => []PermitsConserved
  BY ServiceUsesExecutor, ExecutorPermits, PTL DEF UsesExecutor

\* Requests get their permits in the order in which they asked.
THEOREM ServiceOrder == Spec => NoOvertaking
  BY ServiceUsesExecutor, ExecutorOrder, PTL DEF UsesExecutor

--------------------------------------------------------------------------------
(***************************************************************************)
(* What is true of a request on its way                                    *)
(***************************************************************************)

ServiceTypeOK ==
    /\ DOMAIN input = Requests
    /\ DOMAIN stage = Requests
    /\ DOMAIN reply = Requests
    /\ DOMAIN status = Requests
    /\ version \in Nat

\* Only an answer has a status, and what has not been handled has stored nothing.
StatusIsAnswer(r) ==
    /\ stage[r] # "answered" => status[r] = 0
    /\ stage[r] = "idle" => r \notin saved

Matching(r) ==
    LET i == input[r] IN
    /\ i.session # Absent =>
        /\ i.session.seal = "session" /\ i.session.key = "ours"
        /\ i.permit # Absent => i.permit.scope = i.session.scope
    /\ i.permit # Absent => i.permit.seal = "permit" /\ i.permit.key = "ours"
    /\ i.ext # "none" => version > 0

\* A session has been sent, or it has been loaded and the permits are open.
Restorable(r) ==
    LET i == input[r] IN
    \/ i.session # Absent /\ i.ext = "none"
    \/ i.session = Absent /\ i.ext # "none" /\ version > 0 /\ PermitsOpen(i)

\* What a restoration has established when it gets to a stage.
Restoring(r) ==
    LET i == input[r] IN
    i.route = "restore" =>
        /\ stage[r] \in {"idle", "permits", "load", "restore", "answered", "dropped"}
        /\ stage[r] \in {"permits", "load"} => i.session = Absent /\ i.ext # "none"
        /\ stage[r] = "permits" /\ reply[r] = Ok => PermitsOpen(i)
        /\ stage[r] = "load" => PermitsOpen(i)
        /\ stage[r] = "restore" => Restorable(r)
        /\ stage[r] = "restore" /\ reply[r] = Ok => Matching(r)
        /\ status[r] = 200 => Matching(r)

\* Where a redaction is that has been stored, and what can still be answered.
Redacting(r) ==
    input[r].route = "redact" =>
        /\ stage[r] \in {"idle", "redact", "load", "save", "secure", "audit",
                         "answered", "dropped"}
        /\ stage[r] = "secure" => reply[r] \in {Pending, Ok, JoinFailed, EncryptionFailed}
        /\ r \in saved => stage[r] \in {"secure", "audit", "answered", "dropped"}
        /\ r \in saved /\ status[r] \in 400..499 => reply[r] = AuditFailed

RestorationIInv ==
    /\ ServiceTypeOK
    /\ \A r \in Requests : StatusIsAnswer(r) /\ Restoring(r)

RedactionIInv ==
    /\ ServiceTypeOK
    /\ \A r \in Requests : StatusIsAnswer(r) /\ Redacting(r)

Step(r) == Send(r) \/ Handler(r) \/ Store(r) \/ Disconnect(r)

\* A step of one request leaves the others where they are, and the version of the
\* conversation only grows.
LeavesOthers(r) ==
    /\ \A q \in Requests \ {r} : /\ input'[q] = input[q]
                                 /\ stage'[q] = stage[q]
                                 /\ reply'[q] = reply[q]
                                 /\ status'[q] = status[q]
                                 /\ q \in saved' <=> q \in saved
    /\ version' >= version
    /\ ServiceTypeOK'

--------------------------------------------------------------------------------

LEMMA StepLeavesOthers ==
    ASSUME ServiceTypeOK, NEW r \in Requests, Step(r)
    PROVE  LeavesOthers(r)
<1> USE DEF ServiceTypeOK, LeavesOthers, Answer, Answered, Block, Await, RejectBody
<1>1. CASE Send(r)
  BY <1>1 DEF Send
<1>2. CASE HandleRedact(r)
  BY <1>2 DEF HandleRedact
<1>3. CASE HandleRestore(r)
  BY <1>3 DEF HandleRestore
<1>4. CASE HandleInspect(r)
  BY <1>4 DEF HandleInspect
<1>5. CASE Go(r)
  BY <1>5 DEF Go, httpVars
<1>6. CASE Finish(r)
  BY <1>6 DEF Finish
<1>7. CASE Resume(r)
  BY <1>7 DEF Resume
<1>8. CASE AuditReply(r)
  BY <1>8 DEF AuditReply
<1>9. CASE LoadReply(r)
  BY <1>9 DEF LoadReply
<1>10. CASE SaveReply(r)
  BY <1>10 DEF SaveReply
<1>11. CASE Disconnect(r)
  BY <1>11 DEF Disconnect
<1>12. QED
  BY <1>1, <1>2, <1>3, <1>4, <1>5, <1>6, <1>7, <1>8, <1>9, <1>10, <1>11
     DEF Step, Handler, Store

\* Only an answer gives a request a status, and only a save stores its session.
LEMMA StatusKept ==
    ASSUME ServiceTypeOK, NEW r \in Requests, StatusIsAnswer(r), Step(r)
    PROVE  StatusIsAnswer(r)'
<1> USE DEF ServiceTypeOK, StatusIsAnswer, Answer, Answered, Block, Await, RejectBody
<1>1. CASE Send(r)
  BY <1>1 DEF Send
<1>2. CASE HandleRedact(r)
  BY <1>2 DEF HandleRedact
<1>3. CASE HandleRestore(r)
  BY <1>3 DEF HandleRestore
<1>4. CASE HandleInspect(r)
  BY <1>4 DEF HandleInspect
<1>5. CASE Go(r)
  BY <1>5 DEF Go, httpVars
<1>6. CASE Finish(r)
  BY <1>6 DEF Finish
<1>7. CASE Resume(r)
  BY <1>7 DEF Resume, BlockingStages
<1>8. CASE AuditReply(r)
  BY <1>8 DEF AuditReply
<1>9. CASE LoadReply(r)
  BY <1>9 DEF LoadReply
<1>10. CASE SaveReply(r)
  BY <1>10 DEF SaveReply
<1>11. CASE Disconnect(r)
  BY <1>11 DEF Disconnect
<1>12. QED
  BY <1>1, <1>2, <1>3, <1>4, <1>5, <1>6, <1>7, <1>8, <1>9, <1>10, <1>11
     DEF Step, Handler, Store

LEMMA NoErrorIs200 ==
    ASSUME NEW r \in Requests, NEW error, error # Ok, input[r].route # "inspect"
    PROVE  StatusOf(r, error) # 200
<1>1. StatusForError(error) # 200
  BY DEF StatusForError
<1>2. QED
  BY <1>1 DEF StatusOf

\* What the restoration itself checks, on top of what the handler has checked.
LEMMA RestoreAnswerMatches ==
    ASSUME NEW r \in Requests, Restorable(r),
           LET i == input[r] IN
           (IF i.ext = "none" THEN RestoreFromSession(i) ELSE RestoreAnswer(i, "a")) = Ok
    PROVE  Matching(r)
<1> DEFINE i == input[r]
<1> USE DEF Ok, Error, SessionClosed, PermitClosed, PermitMismatch, MalformedToken
<1>1. CASE i.ext = "none"
  <2>1. i.session # Absent
    BY <1>1 DEF Restorable, Restoring
  <2>2. RestoreFromSession(i) = Ok
    BY <1>1
  <2>3. Opens(i.session, "session") /\ PermitsOpen(i) /\ RestoreAnswer(i, i.session.scope) = Ok
    BY <2>2 DEF RestoreFromSession
  <2>4. i.permit # Absent => Authorizes(i.permit, i.session.scope)
    BY <2>3 DEF RestoreAnswer
  <2>5. QED
    BY <1>1, <2>1, <2>3, <2>4 DEF Matching, Opens, PermitsOpen, Authorizes
<1>2. CASE i.ext # "none"
  BY <1>2 DEF Restorable, Matching, Opens, PermitsOpen
<1>3. QED
  BY <1>1, <1>2

LEMMA InputKept ==
    ASSUME NEW r \in Requests, Step(r), ~Send(r)
    PROVE  input' = input
<1>1. CASE HandleRedact(r) \/ HandleRestore(r) \/ HandleInspect(r)
  BY <1>1 DEF HandleRedact, HandleRestore, HandleInspect
<1>2. CASE Go(r)
  BY <1>2 DEF Go, httpVars
<1>3. CASE Finish(r) \/ Resume(r) \/ AuditReply(r)
  BY <1>3 DEF Finish, Resume, AuditReply
<1>4. CASE Store(r) \/ Disconnect(r)
  BY <1>4 DEF Store, Disconnect, LoadReply, SaveReply
<1>5. QED
  BY <1>1, <1>2, <1>3, <1>4 DEF Step, Handler

\* A restoration gets to every stage with what it has to have established.
LEMMA RestoringKept ==
    ASSUME ServiceTypeOK, NEW r \in Requests, StatusIsAnswer(r), Restoring(r), Step(r)
    PROVE  Restoring(r)'
<1> USE DEF ServiceTypeOK
<1>0. SUFFICES ASSUME (input[r].route = "restore")'
               PROVE  Restoring(r)'
  BY DEF Restoring
<1>1. CASE Send(r)
  BY <1>1 DEF Send, StatusIsAnswer, Restoring
<1> SUFFICES ASSUME ~Send(r) PROVE Restoring(r)'
  BY <1>1
<1>a. input' = input /\ input[r].route = "restore"
  BY <1>0, InputKept
<1>2. CASE HandleRedact(r) \/ HandleInspect(r)
  BY <1>a, <1>2 DEF HandleRedact, HandleInspect
<1>3. CASE HandleRestore(r)
  <2> DEFINE i == input[r]
  <2>1. stage[r] = "idle" /\ status[r] = 0 /\ version' = version
    BY <1>a, <1>3 DEF HandleRestore, StatusIsAnswer
  <2>2. CASE RejectBody(r)
    BY <1>a, <2>1, <2>2 DEF RejectBody, Restoring
  <2>3. CASE Answer(r, BothOrNeither) \/ Answer(r, NoStore)
    <3>1. BothOrNeither # Ok /\ NoStore # Ok
      BY DEF BothOrNeither, NoStore, Ok, Error
    <3>2. QED
      BY <1>a, <2>1, <2>3, <3>1, NoErrorIs200 DEF Answer, Answered, Restoring
  <2>4. CASE i.session # Absent /\ i.ext = "none" /\ Block(r, "restore")
    BY <1>a, <2>1, <2>4 DEF Block, Restoring, Restorable, Pending, Ok, Error
  <2>5. CASE i.session = Absent /\ i.ext # "none" /\ Block(r, "permits")
    BY <1>a, <2>1, <2>5 DEF Block, Restoring, Pending, Ok, Error
  <2>6. QED
    BY <1>3, <2>2, <2>3, <2>4, <2>5 DEF HandleRestore
<1>4. CASE Go(r)
  BY <1>a, <1>4 DEF Go, httpVars, Restoring, Restorable, Matching
<1>5. CASE Finish(r)
  <2>1. stage' = stage /\ status' = status /\ version' = version
    BY <1>5 DEF Finish
  <2>2. CASE stage[r] = "permits"
    <3>1. reply'[r] \in {JoinFailed} \cup {IF PermitsOpen(input[r]) THEN Ok ELSE PermitClosed}
      BY <1>a, <1>5, <2>2 DEF Finish, Answers
    <3>2. reply'[r] = Ok => PermitsOpen(input[r])
      BY <3>1 DEF JoinFailed, PermitClosed, Ok, Error
    <3>3. QED
      BY <1>a, <2>1, <2>2, <3>2 DEF Restoring, Restorable, Matching
  <2>3. CASE stage[r] = "restore"
    <3>1. reply'[r] \in {JoinFailed} \cup
              {IF input[r].ext = "none" THEN RestoreFromSession(input[r])
               ELSE RestoreAnswer(input[r], "a")}
      BY <1>a, <1>5, <2>3 DEF Finish, Answers
    <3>2. Restorable(r)
      BY <1>a, <2>3 DEF Restoring
    <3>3. reply'[r] = Ok => Matching(r)
      BY <3>1, <3>2, RestoreAnswerMatches DEF JoinFailed, Ok, Error
    <3>4. QED
      BY <1>a, <2>1, <2>3, <3>2, <3>3 DEF Restoring, Restorable, Matching
  <2>4. CASE stage[r] \notin {"permits", "restore"}
    BY <1>a, <2>1, <2>4 DEF Restoring, Restorable, Matching
  <2>5. QED
    BY <2>2, <2>3, <2>4
<1>6. CASE Resume(r)
  <2>1. status[r] = 0 /\ version' = version
    BY <1>6 DEF Resume, StatusIsAnswer, BlockingStages
  <2>2. stage[r] \in {"permits", "restore"}
    BY <1>a, <1>6 DEF Resume, Restoring, BlockingStages
  <2>3. CASE reply[r] # Ok /\ Answer(r, reply[r])
    BY <1>a, <2>1, <2>3, NoErrorIs200 DEF Answer, Answered, Restoring
  <2>4. CASE Answer(r, BlankExternalId)
    <3>1. BlankExternalId # Ok
      BY DEF BlankExternalId, Ok, Error
    <3>2. QED
      BY <1>a, <2>1, <2>4, <3>1, NoErrorIs200 DEF Answer, Answered, Restoring
  <2>5. CASE stage[r] = "permits" /\ reply[r] = Ok /\ Await(r, "load")
    BY <1>a, <2>1, <2>5 DEF Await, Restoring, Restorable, Matching
  <2>6. CASE stage[r] = "restore" /\ reply[r] = Ok /\ Answer(r, Ok)
    BY <1>a, <2>1, <2>6 DEF Answer, Answered, Restoring, Restorable, Matching
  <2>7. QED
    BY <1>6, <2>2, <2>3, <2>4, <2>5, <2>6 DEF Resume
<1>7. CASE AuditReply(r)
  BY <1>a, <1>7 DEF AuditReply, Restoring
<1>8. CASE LoadReply(r)
  <2>1. stage[r] = "load" /\ version' = version /\ status[r] = 0
    BY <1>8 DEF LoadReply, StatusIsAnswer
  <2>2. input[r].session = Absent /\ input[r].ext # "none" /\ PermitsOpen(input[r])
    BY <1>a, <2>1 DEF Restoring
  <2>3. CASE \E error \in {NoLatest, StoreError("unavailable"), StoreError("invalid")} : Answer(r, error)
    <3>1. NoLatest # Ok /\ StoreError("unavailable") # Ok /\ StoreError("invalid") # Ok
      BY DEF NoLatest, StoreError, Ok, Error
    <3>2. QED
      BY <1>a, <2>1, <2>3, <3>1, NoErrorIs200 DEF Answer, Answered, Restoring
  <2>4. CASE version # 0 /\ Block(r, "restore")
    BY <1>a, <2>1, <2>2, <2>4 DEF Block, Restoring, Restorable, Pending, Ok, Error
  <2>5. QED
    <3>1. input[r].route # "redact"
      BY <1>a
    <3>2. \/ version = 0 /\ Answer(r, NoLatest)
          \/ version # 0 /\ Block(r, "restore")
          \/ \E kind \in {"unavailable", "invalid"} : Answer(r, StoreError(kind))
      BY <1>8, <3>1 DEF LoadReply
    <3>3. QED
      BY <2>3, <2>4, <3>2
<1>9. CASE SaveReply(r)
  BY <1>a, <1>9 DEF SaveReply, Restoring
<1>10. CASE Disconnect(r)
  <2>1. stage'[r] = "dropped" /\ status' = status /\ status[r] = 0
    BY <1>10 DEF Disconnect, StatusIsAnswer
  <2>2. QED
    BY <1>a, <2>1 DEF Restoring
<1>11. QED
  BY <1>2, <1>3, <1>4, <1>5, <1>6, <1>7, <1>8, <1>9, <1>10 DEF Step, Handler, Store

\* What another request has established stays: its session is its own, and the
\* conversation does not disappear.
LEMMA OthersKept ==
    ASSUME ServiceTypeOK, NEW r \in Requests, LeavesOthers(r),
           NEW q \in Requests \ {r}, StatusIsAnswer(q)
    PROVE  /\ StatusIsAnswer(q)'
           /\ Restoring(q) => Restoring(q)'
           /\ Redacting(q) => Redacting(q)'
<1>1. /\ input'[q] = input[q] /\ stage'[q] = stage[q] /\ reply'[q] = reply[q]
      /\ status'[q] = status[q] /\ (q \in saved' <=> q \in saved)
  BY DEF LeavesOthers
<1>2. version > 0 => version' > 0
  BY DEF LeavesOthers, ServiceTypeOK
<1>3. StatusIsAnswer(q)'
  BY <1>1 DEF StatusIsAnswer
<1>4. Matching(q) => Matching(q)'
  BY <1>1, <1>2 DEF Matching
<1>5. Restorable(q) => Restorable(q)'
  BY <1>1, <1>2 DEF Restorable
<1>6. Restoring(q) => Restoring(q)'
  BY <1>1, <1>4, <1>5 DEF Restoring
<1>7. Redacting(q) => Redacting(q)'
  BY <1>1 DEF Redacting
<1>8. QED
  BY <1>3, <1>6, <1>7

LEMMA InitServiceIInv == Init => RestorationIInv /\ RedactionIInv
<1> SUFFICES ASSUME Init PROVE RestorationIInv /\ RedactionIInv
  OBVIOUS
<1>1. ServiceTypeOK
  BY DEF Init, ServiceTypeOK
<1>2. ASSUME NEW r \in Requests PROVE StatusIsAnswer(r) /\ Restoring(r) /\ Redacting(r)
  <2>1. /\ stage[r] = "idle" /\ status[r] = 0 /\ saved = {}
        /\ input[r].route = "not sent"
    BY DEF Init, NotSent
  <2>2. QED
    BY <2>1 DEF StatusIsAnswer, Restoring, Redacting
<1>3. QED
  BY <1>1, <1>2 DEF RestorationIInv, RedactionIInv

LEMMA RestorationStep == RestorationIInv /\ [Next]_vars => RestorationIInv'
<1> SUFFICES ASSUME RestorationIInv, [Next]_vars PROVE RestorationIInv'
  OBVIOUS
<1>1. CASE UNCHANGED vars
  BY <1>1 DEF vars, httpVars, RestorationIInv, ServiceTypeOK, StatusIsAnswer, Restoring,
              Restorable, Matching
<1>2. CASE Next
  <2>1. PICK r \in Requests : Step(r)
    BY <1>2 DEF Next, Step
  <2>2. ServiceTypeOK /\ \A q \in Requests : StatusIsAnswer(q) /\ Restoring(q)
    BY DEF RestorationIInv
  <2>3. LeavesOthers(r)
    BY <2>1, <2>2, StepLeavesOthers
  <2>4. StatusIsAnswer(r)' /\ Restoring(r)'
    BY <2>1, <2>2, StatusKept, RestoringKept
  <2>5. \A q \in Requests \ {r} : StatusIsAnswer(q)' /\ Restoring(q)'
    BY <2>2, <2>3, OthersKept
  <2>6. ServiceTypeOK'
    BY <2>3 DEF LeavesOthers
  <2>7. QED
    BY <2>4, <2>5, <2>6 DEF RestorationIInv, Requests
<1>3. QED
  BY <1>1, <1>2

\* A restoration that succeeds was asked for with envelopes of this service, each
\* in its place and all of one scope, whatever other requests do.
THEOREM ServiceRestoresMatching == Spec => []RestoredWithMatchingEnvelopes
<1>1. RestorationIInv => RestoredWithMatchingEnvelopes
  <2> SUFFICES ASSUME RestorationIInv, NEW r \in Requests,
                      input[r].route = "restore", status[r] = 200
               PROVE  LET i == input[r] IN
                      /\ i.session # Absent =>
                          /\ i.session.seal = "session" /\ i.session.key = "ours"
                          /\ i.permit # Absent => i.permit.scope = i.session.scope
                      /\ i.permit # Absent => i.permit.seal = "permit" /\ i.permit.key = "ours"
                      /\ i.ext # "none" => version > 0
    BY DEF RestoredWithMatchingEnvelopes
  <2>1. Matching(r)
    BY DEF RestorationIInv, Restoring
  <2>2. QED
    BY <2>1 DEF Matching
<1>2. QED
  BY <1>1, InitServiceIInv, RestorationStep, PTL DEF Spec

\* A redaction that has been stored is past every error of the client's, unless it
\* is the audit copy's that is taken for one.
LEMMA RedactingKept ==
    ASSUME ServiceTypeOK, NEW r \in Requests, StatusIsAnswer(r), Redacting(r), Step(r)
    PROVE  Redacting(r)'
<1> USE DEF ServiceTypeOK
<1>0. SUFFICES ASSUME (input[r].route = "redact")'
               PROVE  Redacting(r)'
  BY DEF Redacting
<1>1. CASE Send(r)
  BY <1>1 DEF Send, StatusIsAnswer, Redacting
<1> SUFFICES ASSUME ~Send(r) PROVE Redacting(r)'
  BY <1>1
<1>a. input' = input /\ input[r].route = "redact"
  BY <1>0, InputKept
<1>b. Ok # JoinFailed /\ Ok # Pending /\ Ok # EncryptionFailed /\ Pending # JoinFailed
  BY DEF Ok, JoinFailed, Pending, EncryptionFailed, Error
<1>c. /\ StatusOf(r, Ok) = 200
      /\ StatusOf(r, JoinFailed) = 500
      /\ StatusOf(r, EncryptionFailed) = 500
      /\ StatusOf(r, StoreError("unavailable")) = 503
  <2>1. /\ StatusForError(JoinFailed) = 500
        /\ StatusForError(EncryptionFailed) = 500
    BY DEF StatusForError, JoinFailed, EncryptionFailed, Error
  <2>2. StatusForError(StoreError("unavailable")) = 503
    BY DEF StatusForError, StoreError, Error
  <2>3. StoreError("unavailable") # Ok
    BY DEF StoreError, Ok, Error
  <2>4. QED
    BY <1>a, <1>b, <2>1, <2>2, <2>3 DEF StatusOf
<1>2. CASE HandleRedact(r)
  BY <1>a, <1>2 DEF HandleRedact, Answer, Answered, Block, Await, Redacting, StatusIsAnswer
<1>3. CASE HandleRestore(r) \/ HandleInspect(r)
  BY <1>a, <1>3 DEF HandleRestore, HandleInspect
<1>4. CASE Go(r)
  BY <1>a, <1>4 DEF Go, httpVars, Redacting
<1>5. CASE Finish(r)
  <2>1. /\ stage' = stage /\ status' = status /\ saved' = saved
        /\ status[r] = 0
    BY <1>5 DEF Finish, BlockingStages, StatusIsAnswer
  <2>2. CASE stage[r] = "secure"
    <3>1. reply'[r] \in {JoinFailed} \cup {Ok, EncryptionFailed}
      BY <1>5, <2>2 DEF Finish, Answers
    <3>2. QED
      BY <1>a, <2>1, <3>1 DEF Redacting
  <2>3. QED
    BY <1>a, <2>1, <2>2 DEF Redacting
<1>6. CASE Resume(r)
  <2>1. stage[r] \in {"redact", "secure"} /\ saved' = saved /\ status[r] = 0
    BY <1>a, <1>6 DEF Resume, BlockingStages, Redacting, StatusIsAnswer
  <2>2. CASE stage[r] = "redact"
    BY <1>a, <1>6, <2>1, <2>2 DEF Resume, Answer, Answered, Await, Redacting
  <2>3. CASE stage[r] = "secure"
    <3>1. reply[r] \in {Ok, JoinFailed, EncryptionFailed}
      BY <1>a, <1>6, <2>3 DEF Resume, Redacting
    <3>2. CASE Answer(r, reply[r])
      <4>1. status'[r] \in {200, 500} /\ stage'[r] = "answered"
        BY <1>c, <3>1, <3>2 DEF Answer, Answered
      <4>2. QED
        BY <1>a, <4>1 DEF Redacting
    <3>3. CASE Await(r, "audit")
      BY <1>a, <2>1, <3>3 DEF Await, Redacting
    <3>4. QED
      BY <1>6, <2>3, <3>2, <3>3 DEF Resume
  <2>4. QED
    BY <2>1, <2>2, <2>3
<1>7. CASE AuditReply(r)
  <2>1. PICK answer \in {Ok, AuditFailed} :
           reply' = [reply EXCEPT ![r] = answer] /\ Answered(r, answer)
    BY <1>7 DEF AuditReply
  <2>2. stage'[r] = "answered" /\ reply'[r] = answer /\ status'[r] = StatusOf(r, answer)
    BY <2>1 DEF Answered
  <2>3. reply'[r] = AuditFailed \/ status'[r] = 200
    BY <1>c, <2>1, <2>2
  <2>4. QED
    BY <1>a, <2>2, <2>3 DEF Redacting
<1>8. CASE LoadReply(r)
  BY <1>a, <1>8 DEF LoadReply, Answer, Answered, Block, Redacting
<1>9. CASE SaveReply(r)
  <2>1. stage[r] = "save" /\ r \notin saved /\ status[r] = 0
    BY <1>a, <1>9 DEF SaveReply, Redacting, StatusIsAnswer
  <2>2. CASE Block(r, "secure")
    BY <1>a, <2>1, <2>2 DEF Block, Redacting
  <2>3. CASE saved' = saved /\ \E error : Answer(r, error)
    BY <1>a, <2>1, <2>3 DEF Answer, Answered, Redacting
  <2>4. CASE Answer(r, StoreError("unavailable"))
    <3>1. status'[r] = 503 /\ stage'[r] = "answered"
      BY <1>c, <2>4 DEF Answer, Answered
    <3>2. QED
      BY <1>a, <3>1 DEF Redacting
  <2>5. QED
    BY <1>9, <2>2, <2>3, <2>4 DEF SaveReply
<1>10. CASE Disconnect(r)
  <2>1. stage'[r] = "dropped" /\ status' = status /\ status[r] = 0
    BY <1>10 DEF Disconnect, StatusIsAnswer
  <2>2. QED
    BY <1>a, <2>1 DEF Redacting
<1>11. QED
  BY <1>2, <1>3, <1>4, <1>5, <1>6, <1>7, <1>8, <1>9, <1>10 DEF Step, Handler, Store

LEMMA RedactionStep == RedactionIInv /\ [Next]_vars => RedactionIInv'
<1> SUFFICES ASSUME RedactionIInv, [Next]_vars PROVE RedactionIInv'
  OBVIOUS
<1>1. CASE UNCHANGED vars
  BY <1>1 DEF vars, httpVars, RedactionIInv, ServiceTypeOK, StatusIsAnswer, Redacting
<1>2. CASE Next
  <2>1. PICK r \in Requests : Step(r)
    BY <1>2 DEF Next, Step
  <2>2. ServiceTypeOK /\ \A q \in Requests : StatusIsAnswer(q) /\ Redacting(q)
    BY DEF RedactionIInv
  <2>3. LeavesOthers(r)
    BY <2>1, <2>2, StepLeavesOthers
  <2>4. StatusIsAnswer(r)' /\ Redacting(r)'
    BY <2>1, <2>2, StatusKept, RedactingKept
  <2>5. \A q \in Requests \ {r} : StatusIsAnswer(q)' /\ Redacting(q)'
    BY <2>2, <2>3, OthersKept
  <2>6. ServiceTypeOK'
    BY <2>3 DEF LeavesOthers
  <2>7. QED
    BY <2>4, <2>5, <2>6 DEF RedactionIInv, Requests
<1>3. QED
  BY <1>1, <1>2

\* No redaction is stored and refused with a status of the client's, so that it can
\* be corrected and repeated; whatever words the path of the audit directory has,
\* only the failure of the copy in it can be reported so.
THEOREM ServiceRefusalsStoreNothing == Spec => []RefusedRedactionsStoreNothing
<1>1. RedactionIInv => RefusedRedactionsStoreNothing
  BY DEF RedactionIInv, Redacting, RefusedRedactionsStoreNothing
<1>2. QED
  BY <1>1, InitServiceIInv, RedactionStep, PTL DEF Spec
=============================================================================
