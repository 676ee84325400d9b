------------------------ MODULE RedactionSession_proofs ------------------------
(***************************************************************************)
(* What the replacement processor keeps true of its allocations, proved    *)
(* for all sets of kinds, values and scopes.                               *)
(***************************************************************************)
EXTENDS RedactionSession, TLAPS

\* n is the largest counter of the tokens of this kind, 0 if there are none.
IsLargestCounter(m, kind, n) ==
    /\ \A k \in DOMAIN m : m[k].token.kind = kind => m[k].token.counter =< n
    /\ \/ n = 0
       \/ \E k \in DOMAIN m : m[k].token.kind = kind /\ m[k].token.counter = n

\* Tokens carry the scope, and the kind of the value they stand for.
TokensLabelled(m, scope) ==
    \A k \in DOMAIN m : m[k].token.scope = scope /\ m[k].token.kind = k.kind

\* Every entry of m1 is in m2 with its token and no fewer occurrences.
Continues(m1, m2) ==
    \A k \in DOMAIN m1 : /\ k \in DOMAIN m2
                         /\ m2[k].token = m1[k].token
                         /\ m2[k].occurrences >= m1[k].occurrences

\* What the loop of redact_fragment keeps true of its processor.
Consistent(p) ==
    /\ TokensLabelled(p.allocations, p.scope)
    /\ TokensDistinct(p.allocations)
    /\ \A kind \in Kinds : IsLargestCounter(p.allocations, kind, p.counters[kind])
    /\ \A i \in DOMAIN p.applied :
         /\ p.applied[i].key \in DOMAIN p.allocations
         /\ p.allocations[p.applied[i].key].token = p.applied[i].token

HasLargestCounter(m, kind) ==
    \E n \in {0} \cup {m[k].token.counter : k \in DOMAIN m} :
        IsLargestCounter(m, kind, n)

--------------------------------------------------------------------------------

\* Entries continue themselves.
LEMMA ContinuesReflexive ==
    ASSUME NEW m, IsEntries(m)
    PROVE  Continues(m, m)
<1>1. \A k \in DOMAIN m : m[k].occurrences \in Nat
  BY DEF IsEntries, Allocation
<1>2. QED
  BY <1>1 DEF Continues

\* What continues entries that continue others continues those.
LEMMA ContinuesTransitive ==
    ASSUME NEW m1, NEW m2, NEW m3, IsEntries(m1), IsEntries(m2), IsEntries(m3),
           Continues(m1, m2), Continues(m2, m3)
    PROVE  Continues(m1, m3)
<1>1. /\ \A k \in DOMAIN m1 : m1[k].occurrences \in Nat
      /\ \A k \in DOMAIN m2 : m2[k].occurrences \in Nat
      /\ \A k \in DOMAIN m3 : m3[k].occurrences \in Nat
  BY DEF IsEntries, Allocation
<1>2. QED
  BY <1>1 DEF Continues

\* The processor of a request without a prior session is consistent.
LEMMA NewProcessorConsistent ==
    ASSUME NEW scope \in Scopes, NEW ext \in ExternalIdOption
    PROVE  /\ IsProcessor(NewProcessor(scope, ext))
           /\ Consistent(NewProcessor(scope, ext))
<1> DEFINE p == NewProcessor(scope, ext)
<1>1. p.allocations = [k \in {} |-> k] /\ p.applied = <<>>
  BY DEF NewProcessor
<1>2. DOMAIN p.allocations = {} /\ DOMAIN p.applied = {}
  BY <1>1
<1>3. IsProcessor(p)
  BY <1>1 DEF NewProcessor, IsProcessor, IsEntries
<1>4. \A kind \in Kinds : p.counters[kind] = 0
  BY DEF NewProcessor
<1>5. Consistent(p)
  BY <1>2, <1>4 DEF Consistent, TokensLabelled, TokensDistinct, IsLargestCounter
<1>6. QED
  BY <1>3, <1>5

\* with_prior_session resumes every counter at the largest counter of the
\* prior tokens of its kind, if there is one.
LEMMA LargestCounterCorrect ==
    ASSUME NEW m, IsEntries(m), NEW kind \in Kinds, HasLargestCounter(m, kind)
    PROVE  /\ LargestCounter(m, kind) \in Nat
           /\ IsLargestCounter(m, kind, LargestCounter(m, kind))
<1> DEFINE S == {0} \cup {m[k].token.counter :
                    k \in {j \in DOMAIN m : m[j].token.kind = kind}}
<1>1. \A k \in DOMAIN m : m[k].token.counter \in Nat
  BY DEF IsEntries, Allocation, Token
<1>2. S \subseteq Nat
  BY <1>1
<1>3. PICK n : IsLargestCounter(m, kind, n) /\ n \in Nat
  BY <1>1 DEF HasLargestCounter
<1>4. n \in S /\ \A x \in S : n >= x
  BY <1>1, <1>3 DEF IsLargestCounter
<1>5. LargestCounter(m, kind) = CHOOSE x \in S : \A y \in S : x >= y
  BY DEF LargestCounter, Max
<1>6. LargestCounter(m, kind) \in S /\ \A y \in S : LargestCounter(m, kind) >= y
  BY <1>4, <1>5
<1>7. QED
  BY <1>1, <1>2, <1>6 DEF IsLargestCounter

\* with_prior_session turns a sound stored session into a consistent processor.
LEMMA WithPriorSessionConsistent ==
    ASSUME NEW s, IsSession(s), NEW ext \in ExternalIdOption,
           TokensLabelled(s.entries, s.scope),
           TokensDistinct(s.entries),
           \A kind \in Kinds : HasLargestCounter(s.entries, kind)
    PROVE  /\ IsProcessor(WithPriorSession(s, ext))
           /\ Consistent(WithPriorSession(s, ext))
<1> DEFINE p == WithPriorSession(s, ext)
<1>1. /\ p.scope = s.scope
      /\ p.allocations = s.entries
      /\ p.applied = <<>>
      /\ p.counters = [kind \in Kinds |-> LargestCounter(s.entries, kind)]
  BY DEF WithPriorSession
<1>2. s.scope \in Scopes /\ s.ext \in ExternalIdOption /\ IsEntries(s.entries)
  BY DEF IsSession
<1>3. \A kind \in Kinds : /\ p.counters[kind] \in Nat
                          /\ IsLargestCounter(s.entries, kind, p.counters[kind])
  BY <1>1, <1>2, LargestCounterCorrect
<1>4. IsProcessor(p)
  <2>1. p.counters \in [Kinds -> Nat]
    BY <1>1, <1>3
  <2>2. p.ext \in ExternalIdOption
    BY <1>2 DEF WithPriorSession, ExternalIdOption
  <2>3. QED
    BY <1>1, <1>2, <2>1, <2>2 DEF WithPriorSession, IsProcessor
<1>5. Consistent(p)
  BY <1>1, <1>3 DEF Consistent
<1>6. QED
  BY <1>4, <1>5

\* Replacing a finding keeps the processor consistent: a value that has a
\* token keeps it, and a new value gets a token that no other value has.
LEMMA ReplaceFindingConsistent ==
    ASSUME NEW p, IsProcessor(p), Consistent(p), NEW key \in Keys
    PROVE  /\ IsProcessor(ReplaceFinding(p, key))
           /\ Consistent(ReplaceFinding(p, key))
           /\ Continues(p.allocations, ReplaceFinding(p, key).allocations)
<1> DEFINE q == ReplaceFinding(p, key)
           m == p.allocations
<1>1. /\ p.scope \in Scopes
      /\ p.counters \in [Kinds -> Nat]
      /\ p.applied \in Seq(AppliedReplacement)
      /\ DOMAIN m \subseteq Keys
      /\ \A k \in DOMAIN m : m[k] \in Allocation
      /\ key.kind \in Kinds
  BY DEF IsProcessor, IsEntries, Keys
<1>2. /\ q.scope = p.scope
      /\ q.ext = p.ext
      /\ DOMAIN q.allocations = DOMAIN m \cup {key}
      /\ q.allocations[key] = AllocationFor(p, key)
      /\ \A k \in DOMAIN m : k # key => q.allocations[k] = m[k]
      /\ q.counters = CountersAfter(p, key)
      /\ q.applied = Append(p.applied,
                        [key |-> key, token |-> AllocationFor(p, key).token])
  <2>1. /\ q.scope = p.scope
        /\ q.ext = p.ext
        /\ q.counters = CountersAfter(p, key)
        /\ q.applied = Append(p.applied,
                          [key |-> key, token |-> AllocationFor(p, key).token])
    BY DEF ReplaceFinding
  <2>2. q.allocations = [k \in DOMAIN m \cup {key} |->
                            IF k = key THEN AllocationFor(p, key) ELSE m[k]]
    BY DEF ReplaceFinding
  <2>3. /\ DOMAIN q.allocations = DOMAIN m \cup {key}
        /\ q.allocations[key] = AllocationFor(p, key)
        /\ \A k \in DOMAIN m : k # key => q.allocations[k] = m[k]
    BY <2>2
  <2> HIDE DEF q, m
  <2>4. QED
    BY <2>1, <2>3
<1>3. AllocationFor(p, key) \in Allocation
  <2>1. CASE key \in DOMAIN m
    BY <1>1, <2>1 DEF AllocationFor, Allocation
  <2>2. CASE key \notin DOMAIN m
    <3>1. p.counters[key.kind] + 1 \in Nat \ {0}
      BY <1>1
    <3>2. QED
      BY <1>1, <2>2, <3>1 DEF AllocationFor, Allocation, Token
  <2>3. QED
    BY <2>1, <2>2
<1>4. CountersAfter(p, key) \in [Kinds -> Nat]
  BY <1>1 DEF CountersAfter
<1>5. IsProcessor(q)
  <2>1. IsEntries(q.allocations)
    <3>1. q.allocations = [k \in DOMAIN m \cup {key} |->
                             IF k = key THEN AllocationFor(p, key) ELSE m[k]]
      BY DEF ReplaceFinding
    <3>2. QED
      BY <1>1, <1>3, <3>1 DEF IsEntries
  <2>2. [key |-> key, token |-> AllocationFor(p, key).token] \in AppliedReplacement
    BY <1>3 DEF Allocation, AppliedReplacement
  <2>3. q.applied \in Seq(AppliedReplacement)
    BY <1>1, <1>2, <2>2
  <2>4. q.ext \in ExternalIdOption
    BY <1>2 DEF IsProcessor
  <2>5. QED
    BY <1>1, <1>2, <1>4, <2>1, <2>3, <2>4 DEF ReplaceFinding, IsProcessor
<1>6. Continues(m, q.allocations)
  <2>1. ASSUME NEW k \in DOMAIN m
        PROVE  /\ q.allocations[k].token = m[k].token
               /\ q.allocations[k].occurrences >= m[k].occurrences
    <3>1. m[k].occurrences \in Nat
      BY <1>1 DEF Allocation
    <3>2. QED
      BY <1>2, <3>1 DEF AllocationFor
  <2>2. QED
    BY <1>2, <2>1 DEF Continues
<1>7. TokensLabelled(q.allocations, q.scope)
  BY <1>2 DEF Consistent, TokensLabelled, AllocationFor
<1>8. \A kind \in Kinds :
        IsLargestCounter(q.allocations, kind, q.counters[kind])
  <2> SUFFICES ASSUME NEW kind \in Kinds
               PROVE  IsLargestCounter(q.allocations, kind, q.counters[kind])
    OBVIOUS
  <2>1. IsLargestCounter(m, kind, p.counters[kind])
    BY DEF Consistent
  <2>2. \A k \in DOMAIN m : m[k].token.counter \in Nat
    BY <1>1 DEF Allocation, Token
  <2>3. CASE key \in DOMAIN m
    <3>1. q.counters = p.counters /\ DOMAIN q.allocations = DOMAIN m
      BY <1>2, <2>3 DEF CountersAfter
    <3>2. \A k \in DOMAIN m : q.allocations[k].token = m[k].token
      BY <1>6 DEF Continues
    <3>3. QED
      BY <2>1, <3>1, <3>2 DEF IsLargestCounter
  <2>4. CASE key \notin DOMAIN m
    <3>1. \A k \in DOMAIN m : q.allocations[k] = m[k]
      BY <1>2, <2>4
    <3>2. q.allocations[key].token = [scope |-> p.scope, kind |-> key.kind,
                                      counter |-> p.counters[key.kind] + 1]
      BY <1>2, <2>4 DEF AllocationFor
    <3>3. CASE kind = key.kind
      <4>1. q.counters[kind] = p.counters[kind] + 1
        BY <1>1, <1>2, <2>4, <3>3 DEF CountersAfter
      <4>2. q.counters[kind] \in Nat /\ p.counters[kind] \in Nat
        BY <1>1, <4>1
      <4>3. QED
        BY <1>2, <2>1, <2>2, <3>1, <3>2, <3>3, <4>1, <4>2 DEF IsLargestCounter
    <3>4. CASE kind # key.kind
      <4>1. q.counters[kind] = p.counters[kind]
        BY <1>1, <1>2, <2>4, <3>4 DEF CountersAfter
      <4>2. QED
        BY <1>2, <2>1, <3>1, <3>2, <3>4, <4>1 DEF IsLargestCounter
    <3>5. QED
      BY <3>3, <3>4
  <2>5. QED
    BY <2>3, <2>4
<1>9. TokensDistinct(q.allocations)
  <2>1. CASE key \in DOMAIN m
    <3>1. \A k \in DOMAIN m : q.allocations[k].token = m[k].token
      BY <1>6 DEF Continues
    <3>2. QED
      BY <1>2, <2>1, <3>1 DEF Consistent, TokensDistinct
  <2>2. CASE key \notin DOMAIN m
    <3>1. \A k \in DOMAIN m : q.allocations[k] = m[k]
      BY <1>2, <2>2
    <3>2. q.allocations[key].token = [scope |-> p.scope, kind |-> key.kind,
                                      counter |-> p.counters[key.kind] + 1]
      BY <1>2, <2>2 DEF AllocationFor
    <3>3. ASSUME NEW k \in DOMAIN m
          PROVE  m[k].token # q.allocations[key].token
      <4>1. m[k].token.counter \in Nat /\ p.counters[key.kind] \in Nat
        BY <1>1 DEF Allocation, Token
      <4>2. m[k].token.kind = key.kind
              => m[k].token.counter =< p.counters[key.kind]
        BY <1>1 DEF Consistent, IsLargestCounter
      <4>3. QED
        BY <3>2, <4>1, <4>2
    <3>4. QED
      BY <1>2, <3>1, <3>3 DEF Consistent, TokensDistinct
  <2>3. QED
    BY <2>1, <2>2
<1>10. \A i \in DOMAIN q.applied :
         /\ q.applied[i].key \in DOMAIN q.allocations
         /\ q.allocations[q.applied[i].key].token = q.applied[i].token
  <2> SUFFICES ASSUME NEW i \in DOMAIN q.applied
               PROVE  /\ q.applied[i].key \in DOMAIN q.allocations
                      /\ q.allocations[q.applied[i].key].token
                            = q.applied[i].token
    OBVIOUS
  <2>1. CASE i \in DOMAIN p.applied
    <3>1. q.applied[i] = p.applied[i]
      BY <1>1, <1>2, <2>1
    <3>2. /\ p.applied[i].key \in DOMAIN m
          /\ m[p.applied[i].key].token = p.applied[i].token
      BY <2>1 DEF Consistent
    <3>3. QED
      BY <1>6, <3>1, <3>2 DEF Continues
  <2>2. CASE i \notin DOMAIN p.applied
    <3>1. q.applied[i] = [key |-> key, token |-> AllocationFor(p, key).token]
      BY <1>1, <1>2, <2>2
    <3>2. QED
      BY <1>2, <3>1
  <2>3. QED
    BY <2>1, <2>2
<1>11. QED
  BY <1>5, <1>6, <1>7, <1>8, <1>9, <1>10 DEF Consistent

\* build_session lists only tokens that its entries hold.
LEMMA BuildSessionSound ==
    ASSUME NEW p, IsProcessor(p), Consistent(p)
    PROVE  /\ IsSession(BuildSession(p))
           /\ IssuedTokens(p) \subseteq TokensOf(p.allocations)
           /\ \A kind \in Kinds : HasLargestCounter(p.allocations, kind)
<1>1. /\ p.scope \in Scopes /\ p.ext \in ExternalIdOption
      /\ IsEntries(p.allocations)
      /\ p.applied \in Seq(AppliedReplacement)
      /\ p.counters \in [Kinds -> Nat]
  BY DEF IsProcessor
<1>2. IssuedTokens(p) \subseteq TokensOf(p.allocations)
  BY DEF Consistent, IssuedTokens, TokensOf
<1>3. IssuedTokens(p) \subseteq Token
  <2>1. \A i \in DOMAIN p.applied : p.applied[i] \in AppliedReplacement
    BY <1>1
  <2>2. QED
    BY <2>1 DEF IssuedTokens, AppliedReplacement
<1>4. IsSession(BuildSession(p))
  BY <1>1, <1>3 DEF BuildSession, IsSession
<1>5. \A kind \in Kinds : HasLargestCounter(p.allocations, kind)
  <2> SUFFICES ASSUME NEW kind \in Kinds
               PROVE  HasLargestCounter(p.allocations, kind)
    OBVIOUS
  <2>1. IsLargestCounter(p.allocations, kind, p.counters[kind])
    BY DEF Consistent
  <2>2. p.counters[kind] \in {0} \cup {p.allocations[k].token.counter :
                                        k \in DOMAIN p.allocations}
    BY <2>1 DEF IsLargestCounter
  <2>3. QED
    BY <2>1, <2>2 DEF HasLargestCounter
<1>6. QED
  BY <1>2, <1>4, <1>5

\* The token map of a restore context gives every token the value of its entry,
\* when no two entries share a token.
LEMMA TokenRestoresEntry ==
    ASSUME NEW s, TokensDistinct(s.entries), NEW key \in DOMAIN s.entries
    PROVE  OriginalOf(s, s.entries[key].token) = key.original
<1> DEFINE IsHolder(k) == s.entries[k].token = s.entries[key].token
<1>1. \A k \in DOMAIN s.entries : IsHolder(k) => k = key
  BY DEF TokensDistinct
<1>2. IsHolder(key)
  OBVIOUS
<1> HIDE DEF IsHolder
<1>3. (CHOOSE k \in DOMAIN s.entries : IsHolder(k)) = key
  BY <1>1, <1>2
<1>4. QED
  BY <1>3 DEF OriginalOf, IsHolder
=============================================================================
