-------------------------- MODULE RestoreState_proofs ---------------------------
(***************************************************************************)
(* Proofs about RestoreState: however redactors fork, build and are lost,  *)
(* whatever is offered to the state, and from whatever parts it was made,  *)
(* the texts that it has advanced to restore, and nothing else does.       *)
(***************************************************************************)
EXTENDS RestoreState, RedactionSession_proofs, InductionLemmas

--------------------------------------------------------------------------------
(***************************************************************************)
(* Normalising permits                                                     *)
(***************************************************************************)

RestorePermit == [scope : Scopes, ext : ExternalIdOption, issued : SUBSET Token]

\* The tokens of these permits.
IssuedBy(permits) == UNION {permits[i].issued : i \in DOMAIN permits}

\* Each token has one permit, and no permit is empty.
Partitioned(permits) ==
    \A i, j \in DOMAIN permits :
        /\ permits[i].issued # {}
        /\ i # j => permits[i].issued \cap permits[j].issued = {}

\* The n-th permit that is retained is at the place of rank n.
LEMMA RetainedPlaces ==
    ASSUME NEW permits \in Seq(RestorePermit)
    PROVE  LET S == Retained(permits) IN
           /\ S \subseteq DOMAIN permits /\ S \subseteq Nat \ {0}
           /\ IsFiniteSet(S) /\ Cardinality(S) \in Nat
           /\ \A n \in 1..Cardinality(S) :
                 PlaceOfNth(permits, n) \in S /\ RankIn(S, PlaceOfNth(permits, n)) = n
           /\ \A i \in S : /\ RankIn(S, i) \in 1..Cardinality(S)
                           /\ PlaceOfNth(permits, RankIn(S, i)) = i
<1> DEFINE S == Retained(permits)
<1>1. DOMAIN permits = 1..Len(permits) /\ Len(permits) \in Nat
  OBVIOUS
<1>2. S \subseteq DOMAIN permits /\ S \subseteq Nat \ {0}
  BY <1>1 DEF Retained
<1>3. IsFiniteSet(S)
  <2>1. IsFiniteSet(1..Len(permits)) /\ S \in SUBSET (1..Len(permits))
    BY <1>1, <1>2, FS_Interval
  <2>2. QED
    BY <2>1, FS_Subset
<1>4. /\ Cardinality(S) \in Nat
      /\ \A i \in S : RankIn(S, i) \in 1..Cardinality(S)
      /\ \A i, k \in S : RankIn(S, i) = RankIn(S, k) => i = k
      /\ \A n \in 1..Cardinality(S) : \E i \in S : RankIn(S, i) = n
  BY <1>2, <1>3, RanksNumber
<1>5. \A n : PlaceOfNth(permits, n) = CHOOSE i \in S : RankIn(S, i) = n
  BY DEF PlaceOfNth, RankIn
<1> HIDE DEF S
<1>6. \A n \in 1..Cardinality(S) :
         PlaceOfNth(permits, n) \in S /\ RankIn(S, PlaceOfNth(permits, n)) = n
  BY <1>4, <1>5
<1>7. \A i \in S : PlaceOfNth(permits, RankIn(S, i)) = i
  BY <1>4, <1>6
<1>8. QED
  BY <1>2, <1>3, <1>4, <1>6, <1>7 DEF S

\* A permit that is retained keeps its context, and the tokens that it is the
\* first to authorise.
LEMMA NormalizedPermits ==
    ASSUME NEW permits \in Seq(RestorePermit)
    PROVE  LET normal == NormalizePermits(permits)
               S == Retained(permits) IN
           /\ normal \in Seq(RestorePermit)
           /\ Len(normal) = Cardinality(S) /\ DOMAIN normal = 1..Cardinality(S)
           /\ \A n \in DOMAIN normal :
                 LET i == PlaceOfNth(permits, n) IN
                 /\ i \in S /\ i \in DOMAIN permits
                 /\ normal[n].scope = permits[i].scope
                 /\ normal[n].ext = permits[i].ext
                 /\ normal[n].issued = FirstAuthorized(permits, i)
<1> DEFINE S == Retained(permits)
           normal == NormalizePermits(permits)
<1>1. /\ S \subseteq DOMAIN permits /\ Cardinality(S) \in Nat
      /\ \A n \in 1..Cardinality(S) : PlaceOfNth(permits, n) \in S
  BY RetainedPlaces
<1>2. normal = [n \in 1..Cardinality(S) |-> NthRetained(permits, n)]
  BY DEF NormalizePermits
<1>3. ASSUME NEW n \in 1..Cardinality(S)
      PROVE  LET i == PlaceOfNth(permits, n) IN
             /\ NthRetained(permits, n) \in RestorePermit
             /\ NthRetained(permits, n).scope = permits[i].scope
             /\ NthRetained(permits, n).ext = permits[i].ext
             /\ NthRetained(permits, n).issued = FirstAuthorized(permits, i)
  <2> DEFINE i == PlaceOfNth(permits, n)
             first == FirstAuthorized(permits, i)
  <2>1. permits[i] \in RestorePermit
    BY <1>1
  <2>2. first \subseteq permits[i].issued
    BY DEF FirstAuthorized
  <2>3. NthRetained(permits, n) = [permits[i] EXCEPT !.issued = first]
    BY DEF NthRetained
  <2> HIDE DEF i, first
  <2>4. QED
    BY <2>1, <2>2, <2>3 DEF RestorePermit, i, first
<1>4. normal \in [1..Cardinality(S) -> RestorePermit]
  BY <1>2, <1>3
<1>5. normal \in Seq(RestorePermit) /\ Len(normal) = Cardinality(S)
  BY <1>1, <1>4
<1>6. QED
  BY <1>1, <1>2, <1>3, <1>5

\* What is left of the permits partitions their tokens.
LEMMA NormalizedPartition ==
    ASSUME NEW permits \in Seq(RestorePermit)
    PROVE  Partitioned(NormalizePermits(permits))
<1> DEFINE S == Retained(permits)
           normal == NormalizePermits(permits)
           place(n) == PlaceOfNth(permits, n)
<1>1. \A n \in DOMAIN normal : /\ place(n) \in S /\ place(n) \in DOMAIN permits
                               /\ normal[n].issued = FirstAuthorized(permits, place(n))
  BY NormalizedPermits
<1>2. \A n \in DOMAIN normal : normal[n].issued # {}
  BY <1>1 DEF Retained
<1>3. \A m, n \in DOMAIN normal : m # n => place(m) # place(n)
  BY NormalizedPermits, RetainedPlaces
<1>4. ASSUME NEW i \in DOMAIN permits, NEW j \in DOMAIN permits, i < j
      PROVE  FirstAuthorized(permits, i) \cap FirstAuthorized(permits, j) = {}
  <2>1. i \in 1..(j - 1)
    BY <1>4
  <2>2. QED
    BY <2>1 DEF FirstAuthorized
<1>5. \A m, n \in DOMAIN normal :
         m # n => normal[m].issued \cap normal[n].issued = {}
  <2> SUFFICES ASSUME NEW m \in DOMAIN normal, NEW n \in DOMAIN normal, m # n
               PROVE  normal[m].issued \cap normal[n].issued = {}
    OBVIOUS
  <2>1. place(m) \in DOMAIN permits /\ place(n) \in DOMAIN permits /\ place(m) # place(n)
    BY <1>1, <1>3
  <2>2. place(m) < place(n) \/ place(n) < place(m)
    BY <2>1
  <2>3. FirstAuthorized(permits, place(m)) \cap FirstAuthorized(permits, place(n)) = {}
    BY <1>4, <2>1, <2>2
  <2>4. QED
    BY <1>1, <2>3
<1>6. QED
  BY <1>2, <1>5 DEF Partitioned

\* No token is lost, and none is added.
LEMMA NormalizedAuthorizes ==
    ASSUME NEW permits \in Seq(RestorePermit)
    PROVE  IssuedBy(NormalizePermits(permits)) = IssuedBy(permits)
<1> DEFINE S == Retained(permits)
           normal == NormalizePermits(permits)
<1>1. ASSUME NEW token \in IssuedBy(normal) PROVE token \in IssuedBy(permits)
  <2>1. PICK n \in DOMAIN normal : token \in normal[n].issued
    BY DEF IssuedBy
  <2>2. PICK i \in DOMAIN permits : token \in FirstAuthorized(permits, i)
    BY <2>1, NormalizedPermits
  <2>3. QED
    BY <2>2 DEF FirstAuthorized, IssuedBy
<1>2. ASSUME NEW token \in IssuedBy(permits) PROVE token \in IssuedBy(normal)
  <2> DEFINE holders == {i \in DOMAIN permits : token \in permits[i].issued}
  <2>1. DOMAIN permits = 1..Len(permits) /\ Len(permits) \in Nat
    OBVIOUS
  <2>2. /\ holders \in SUBSET (1..Len(permits)) /\ holders \subseteq Nat
        /\ holders # {}
    BY <2>1 DEF IssuedBy
  <2>3. IsFiniteSet(holders)
    <3>1. IsFiniteSet(1..Len(permits))
      BY <2>1, FS_Interval
    <3>2. QED
      BY <2>2, <3>1, FS_Subset
  <2>4. PICK i \in holders : \A j \in holders : j >= i
    BY <2>2, <2>3, LeastElement
  <2>5. \A j \in 1..(i - 1) : token \notin permits[j].issued
    BY <2>1, <2>2, <2>4
  <2>6. token \in FirstAuthorized(permits, i)
    BY <2>5 DEF FirstAuthorized
  <2>7. i \in S
    BY <2>6 DEF Retained
  <2>8. PICK n \in 1..Cardinality(S) : PlaceOfNth(permits, n) = i
    BY <2>7, RetainedPlaces
  <2>9. n \in DOMAIN normal /\ token \in normal[n].issued
    BY <2>6, <2>8, NormalizedPermits
  <2>10. QED
    BY <2>9 DEF IssuedBy
<1>3. QED
  BY <1>1, <1>2

\* Permits at the beginning that partition their tokens already stay as they are.
LEMMA NormalizedPrefix ==
    ASSUME NEW permits \in Seq(RestorePermit), NEW k \in 0..Len(permits),
           Partitioned(SubSeq(permits, 1, k))
    PROVE  LET normal == NormalizePermits(permits) IN
           /\ Len(normal) >= k
           /\ \A n \in 1..k : normal[n] = permits[n]
           /\ SubSeq(normal, 1, k) = SubSeq(permits, 1, k)
<1> DEFINE S == Retained(permits)
           normal == NormalizePermits(permits)
<1>1. /\ DOMAIN permits = 1..Len(permits) /\ Len(permits) \in Nat
      /\ k \in Nat /\ 1..k \subseteq DOMAIN permits
  OBVIOUS
<1>2. /\ DOMAIN SubSeq(permits, 1, k) = 1..k
      /\ \A i \in 1..k : SubSeq(permits, 1, k)[i] = permits[i]
  BY <1>1
<1>3. \A i, j \in 1..k :
         /\ permits[i].issued # {}
         /\ i # j => permits[i].issued \cap permits[j].issued = {}
  BY <1>2 DEF Partitioned
<1>4. \A i \in 1..k : FirstAuthorized(permits, i) = permits[i].issued
  <2> SUFFICES ASSUME NEW i \in 1..k
               PROVE  FirstAuthorized(permits, i) = permits[i].issued
    OBVIOUS
  <2>1. \A j \in 1..(i - 1) : j \in 1..k /\ j # i
    BY <1>1
  <2>2. QED
    BY <1>3, <2>1 DEF FirstAuthorized
<1>5. 1..k \subseteq S
  BY <1>1, <1>3, <1>4 DEF Retained
<1>6. S \subseteq Nat \ {0} /\ Cardinality(S) \in Nat
  BY RetainedPlaces
<1>7. ASSUME NEW n \in 1..k
      PROVE  n \in DOMAIN normal /\ normal[n] = permits[n]
  <2>1. n \in Nat /\ 1..n \subseteq S /\ n \in S
    BY <1>1, <1>5
  <2>2. RankIn(S, n) = n
    BY <1>6, <2>1, RankOfPrefix
  <2>3. n \in 1..Cardinality(S) /\ PlaceOfNth(permits, n) = n
    BY <2>1, <2>2, RetainedPlaces
  <2>4. /\ normal[n].scope = permits[n].scope
        /\ normal[n].ext = permits[n].ext
        /\ normal[n].issued = permits[n].issued
        /\ n \in DOMAIN normal
    BY <1>4, <2>3, NormalizedPermits
  <2>5. normal[n] \in RestorePermit /\ permits[n] \in RestorePermit
    BY <1>1, <2>4, NormalizedPermits
  <2>6. QED
    BY <2>4, <2>5 DEF RestorePermit
<1>8. normal \in Seq(RestorePermit) /\ DOMAIN normal = 1..Len(normal) /\ Len(normal) \in Nat
  BY NormalizedPermits
<1>9. Len(normal) >= k
  <2>1. CASE k = 0
    BY <1>8, <2>1
  <2>2. CASE k # 0
    <3>1. k \in 1..k
      BY <1>1, <2>2
    <3>2. QED
      BY <1>7, <1>8, <3>1
  <2>3. QED
    BY <2>1, <2>2
<1>10. SubSeq(normal, 1, k) = SubSeq(permits, 1, k)
  BY <1>1, <1>7, <1>8, <1>9
<1>11. QED
  BY <1>7, <1>9, <1>10

--------------------------------------------------------------------------------
(***************************************************************************)
(* The inductive invariant                                                 *)
(***************************************************************************)

\* A session that validate_session and with_prior_session accept.
SessionSound(s) ==
    /\ IsSession(s)
    /\ TokensLabelled(s.entries, s.scope)
    /\ TokensDistinct(s.entries)
    /\ \A kind \in Kinds : HasLargestCounter(s.entries, kind)
    /\ s.issued \subseteq TokensOf(s.entries)

\* Every replacement of the text is one that the entries stand for.
TextIn(text, entries) ==
    \A a \in text : a.key \in DOMAIN entries /\ entries[a.key].token = a.token

TokensIn(text) == {a.token : a \in text}

BuiltSound(b) ==
    /\ SessionSound(b.session)
    /\ b.text \subseteq AppliedReplacement
    /\ TextIn(b.text, b.session.entries)
    /\ b.session.issued = TokensIn(b.text)

\* A redactor extends the session that it started from.
RedactorSound(r) == Running(r) =>
    /\ IsProcessor(redactor[r]) /\ Consistent(redactor[r])
    /\ base[r] # NoState =>
         /\ IsSession(base[r].session)
         /\ redactor[r].scope = base[r].session.scope
         /\ Continues(base[r].session.entries, redactor[r].allocations)

\* A state that holds exactly the permits of the texts it has advanced to.
StateHolds(st, text) ==
    /\ st = [session |-> st.session, permits |-> st.permits]
    /\ SessionSound(st.session)
    /\ st.permits \in Seq(RestorePermit)
    /\ \A i \in DOMAIN st.permits : PermitAccepted(st.session, st.permits[i])
    /\ Partitioned(st.permits)
    /\ IssuedBy(st.permits) = TokensIn(text)
    /\ TextIn(text, st.session.entries)

\* Before there is a state, every redactor has the scope it has drawn, and what
\* it has built is part of what it has.
NoStateYet ==
    /\ delivered = {}
    /\ \A r \in Redactors : Running(r) => redactor[r].scope = r
    /\ \A b \in built :
         /\ Running(b.session.scope)
         /\ Continues(b.session.entries, redactor[b.session.scope].allocations)

IInv ==
    /\ DOMAIN redactor = Redactors /\ DOMAIN base = Redactors
    /\ delivered \subseteq AppliedReplacement
    /\ \A r \in Redactors : RedactorSound(r)
    /\ \A b \in built : BuiltSound(b)
    /\ state # NoState => StateHolds(state, delivered)
    /\ state = NoState => NoStateYet

--------------------------------------------------------------------------------
(***************************************************************************)
(* Auxiliary facts                                                         *)
(***************************************************************************)

\* A processor is not mistaken for a redactor that does not run.
LEMMA ProcessorRuns ==
    ASSUME NEW p, IsProcessor(p)
    PROVE  p \notin {NotStarted, Lost}
<1>1. "scope" \in DOMAIN p
  BY DEF IsProcessor
<1>2. DOMAIN NotStarted = {"applied"} /\ DOMAIN Lost = {"applied"}
  BY DEF NotStarted, Lost
<1>3. "scope" \notin {"applied"}
  OBVIOUS
<1>4. QED
  BY <1>1, <1>2, <1>3

\* A state is not mistaken for the absence of one.
LEMMA FromPartsIsState ==
    ASSUME NEW s, NEW permits
    PROVE  FromParts(s, permits) # NoState
<1>1. "session" \in DOMAIN FromParts(s, permits)
  BY DEF FromParts
<1>2. DOMAIN NoState = {"permits"} /\ "session" \notin {"permits"}
  BY DEF NoState
<1>3. QED
  BY <1>1, <1>2

\* The permit of a session that was built authorises its text.
LEMMA PermitOfSession ==
    ASSUME NEW s, SessionSound(s)
    PROVE  /\ CreateRestorePermit(s) \in RestorePermit
           /\ CreateRestorePermit(s).issued = s.issued
           /\ PermitAccepted(s, CreateRestorePermit(s))
           /\ PermitsOfText(s) \in Seq(RestorePermit)
           /\ IssuedBy(PermitsOfText(s)) = s.issued
<1>1. /\ CreateRestorePermit(s) \in RestorePermit
      /\ CreateRestorePermit(s).issued = s.issued
      /\ PermitAccepted(s, CreateRestorePermit(s))
  BY DEF SessionSound, IsSession, CreateRestorePermit, RestorePermit, PermitAccepted
<1>2. CASE s.issued = {}
  <2>1. PermitsOfText(s) = <<>>
    BY <1>2 DEF PermitsOfText
  <2>2. QED
    BY <1>1, <1>2, <2>1 DEF IssuedBy
<1>3. CASE s.issued # {}
  <2> DEFINE p == CreateRestorePermit(s)
  <2>1. PermitsOfText(s) = <<p>>
    BY <1>3 DEF PermitsOfText
  <2> HIDE DEF p
  <2>2. DOMAIN <<p>> = {1} /\ <<p>>[1] = p /\ (p \in RestorePermit => <<p>> \in Seq(RestorePermit))
    OBVIOUS
  <2>3. IssuedBy(<<p>>) = p.issued
    BY <2>2 DEF IssuedBy
  <2>4. QED
    BY <1>1, <2>1, <2>2, <2>3 DEF p
<1>4. QED
  BY <1>2, <1>3

\* from_parts makes a state that holds the permits of exactly these texts.
LEMMA FromPartsHolds ==
    ASSUME NEW s, SessionSound(s), NEW permits \in Seq(RestorePermit),
           \A i \in DOMAIN permits : PermitAccepted(s, permits[i]),
           NEW text, TextIn(text, s.entries), IssuedBy(permits) = TokensIn(text)
    PROVE  /\ StateHolds(FromParts(s, permits), text)
           /\ FromParts(s, permits) # NoState
<1> DEFINE normal == NormalizePermits(permits)
<1>1. /\ FromParts(s, permits) = [session |-> s, permits |-> normal]
      /\ FromParts(s, permits).session = s /\ FromParts(s, permits).permits = normal
  BY DEF FromParts
<1>2. ASSUME NEW n \in DOMAIN normal PROVE PermitAccepted(s, normal[n])
  <2>1. PICK i \in DOMAIN permits : /\ normal[n].scope = permits[i].scope
                                   /\ normal[n].ext = permits[i].ext
                                   /\ normal[n].issued = FirstAuthorized(permits, i)
    BY NormalizedPermits
  <2>2. QED
    BY <2>1 DEF PermitAccepted, FirstAuthorized
<1>3. normal \in Seq(RestorePermit)
  BY NormalizedPermits
<1> HIDE DEF normal
<1>4. Partitioned(normal) /\ IssuedBy(normal) = TokensIn(text)
  BY NormalizedPartition, NormalizedAuthorizes DEF normal
<1>5. QED
  BY <1>1, <1>2, <1>3, <1>4, FromPartsIsState DEF StateHolds

--------------------------------------------------------------------------------
(***************************************************************************)
(* The invariant holds initially and is preserved by every action          *)
(***************************************************************************)

LEMMA InitIInv == Init => IInv
<1> SUFFICES ASSUME Init PROVE IInv
  OBVIOUS
<1>1. \A r \in Redactors : ~Running(r)
  BY DEF Init, Running
<1>2. QED
  BY <1>1 DEF Init, IInv, RedactorSound, NoStateYet

LEMMA StartIInv ==
    ASSUME IInv, NEW r \in Redactors, NEW ext \in ExternalIdOption, Start(r, ext)
    PROVE  IInv'
<1>1. /\ state' = state /\ built' = built /\ delivered' = delivered
      /\ base' = [base EXCEPT ![r] = state] /\ redactor[r] = NotStarted
  BY DEF Start
<1>2. PICK p : /\ redactor' = [redactor EXCEPT ![r] = p]
               /\ \/ state = NoState /\ p = NewProcessor(r, ext)
                  \/ state # NoState /\ p = WithPriorSession(state.session, ext)
  BY DEF Start
<1>3. /\ DOMAIN redactor' = Redactors /\ DOMAIN base' = Redactors
      /\ redactor'[r] = p /\ base'[r] = state
      /\ \A q \in Redactors : q # r => redactor'[q] = redactor[q] /\ base'[q] = base[q]
  BY <1>1, <1>2 DEF IInv
<1>4. IsProcessor(p) /\ Consistent(p)
  <2>1. CASE state = NoState
    BY <1>2, <2>1, NewProcessorConsistent DEF Redactors
  <2>2. CASE state # NoState
    BY <1>2, <2>2, WithPriorSessionConsistent DEF IInv, StateHolds, SessionSound
  <2>3. QED
    BY <2>1, <2>2
<1>5. state # NoState =>
         /\ IsSession(state.session)
         /\ p.scope = state.session.scope
         /\ Continues(state.session.entries, p.allocations)
  <2> SUFFICES ASSUME state # NoState
               PROVE  /\ IsSession(state.session)
                      /\ p.scope = state.session.scope
                      /\ Continues(state.session.entries, p.allocations)
    OBVIOUS
  <2>1. IsSession(state.session) /\ IsEntries(state.session.entries)
    BY DEF IInv, StateHolds, SessionSound, IsSession
  <2>2. p.scope = state.session.scope /\ p.allocations = state.session.entries
    BY <1>2 DEF WithPriorSession
  <2>3. QED
    BY <2>1, <2>2, ContinuesReflexive
<1>6. \A q \in Redactors : RedactorSound(q)'
  BY <1>3, <1>4, <1>5 DEF IInv, RedactorSound, Running
<1>7. state' = NoState => NoStateYet'
  <2> SUFFICES ASSUME state = NoState PROVE NoStateYet'
    BY <1>1
  <2>1. NoStateYet
    BY DEF IInv
  <2>2. \A q \in Redactors : Running(q)' => redactor'[q].scope = q
    <3>1. p.scope = r
      BY <1>2 DEF NewProcessor
    <3>2. QED
      BY <1>3, <2>1, <3>1 DEF NoStateYet, Running
  <2>3. \A b \in built : b.session.scope \in Redactors /\ b.session.scope # r
    BY <1>1, <2>1 DEF NoStateYet, Running, IInv, BuiltSound, SessionSound, IsSession, Redactors
  <2>4. QED
    BY <1>1, <1>3, <2>1, <2>2, <2>3 DEF NoStateYet, Running
<1>8. QED
  BY <1>1, <1>3, <1>6, <1>7 DEF IInv, StateHolds, BuiltSound

LEMMA RedactFindingIInv ==
    ASSUME IInv, NEW r \in Redactors, NEW key \in Keys, RedactFinding(r, key)
    PROVE  IInv'
<1> DEFINE p == redactor[r]
           q == ReplaceFinding(p, key)
<1>1. /\ state' = state /\ built' = built /\ delivered' = delivered /\ base' = base
      /\ redactor' = [redactor EXCEPT ![r] = q] /\ Running(r)
  BY DEF RedactFinding
<1>2. IsProcessor(p) /\ Consistent(p) /\ IsEntries(p.allocations)
  BY <1>1 DEF IInv, RedactorSound, IsProcessor
<1>3. /\ IsProcessor(q) /\ Consistent(q) /\ IsEntries(q.allocations)
      /\ Continues(p.allocations, q.allocations) /\ q.scope = p.scope
  <2>1. /\ IsProcessor(q) /\ Consistent(q)
        /\ Continues(p.allocations, q.allocations)
    BY <1>2, ReplaceFindingConsistent
  <2>2. QED
    BY <2>1 DEF IsProcessor, ReplaceFinding
<1> HIDE DEF q
<1>4. /\ DOMAIN redactor' = Redactors /\ redactor'[r] = q
      /\ \A other \in Redactors : other # r => redactor'[other] = redactor[other]
  BY <1>1 DEF IInv
<1>5. Running(r)'
  BY <1>3, <1>4, ProcessorRuns DEF Running
<1>6. RedactorSound(r)'
  <2>1. ASSUME base[r] # NoState
        PROVE  /\ IsSession(base[r].session)
               /\ q.scope = base[r].session.scope
               /\ Continues(base[r].session.entries, q.allocations)
    <3>1. /\ IsSession(base[r].session) /\ IsEntries(base[r].session.entries)
          /\ p.scope = base[r].session.scope
          /\ Continues(base[r].session.entries, p.allocations)
      BY <1>1, <2>1 DEF IInv, RedactorSound, IsSession
    <3>2. QED
      BY <1>2, <1>3, <3>1, ContinuesTransitive
  <2>2. QED
    BY <1>1, <1>3, <1>4, <2>1 DEF RedactorSound
<1>7. \A other \in Redactors : RedactorSound(other)'
  <2>1. \A other \in Redactors : other # r => RedactorSound(other)'
    BY <1>1, <1>4 DEF IInv, RedactorSound, Running
  <2>2. QED
    BY <1>6, <2>1
<1>8. state' = NoState => NoStateYet'
  <2> SUFFICES ASSUME state = NoState PROVE NoStateYet'
    BY <1>1
  <2>1. NoStateYet
    BY DEF IInv
  <2>2. \A other \in Redactors : Running(other)' => redactor'[other].scope = other
    BY <1>1, <1>3, <1>4, <2>1 DEF NoStateYet, Running
  <2>3. ASSUME NEW b \in built
        PROVE  /\ Running(b.session.scope)'
               /\ Continues(b.session.entries, redactor'[b.session.scope].allocations)
    <3>1. /\ b.session.scope \in Redactors /\ IsEntries(b.session.entries)
          /\ Running(b.session.scope)
          /\ Continues(b.session.entries, redactor[b.session.scope].allocations)
      BY <2>1, <2>3 DEF NoStateYet, IInv, BuiltSound, SessionSound, IsSession, Redactors
    <3>2. CASE b.session.scope = r
      BY <1>2, <1>3, <1>4, <1>5, <3>1, <3>2, ContinuesTransitive
    <3>3. CASE b.session.scope # r
      BY <1>4, <3>1, <3>3 DEF Running
    <3>4. QED
      BY <3>2, <3>3
  <2>4. QED
    BY <1>1, <2>1, <2>2, <2>3 DEF NoStateYet
<1>9. QED
  BY <1>1, <1>4, <1>7, <1>8 DEF IInv, StateHolds, BuiltSound

LEMMA BuildIInv ==
    ASSUME IInv, NEW r \in Redactors, Build(r)
    PROVE  IInv'
<1> DEFINE p == redactor[r]
           b == [session |-> BuildSession(p),
                 text |-> {p.applied[i] : i \in DOMAIN p.applied}]
<1>1. /\ state' = state /\ redactor' = redactor /\ delivered' = delivered /\ base' = base
      /\ built' = built \cup {b} /\ Running(r)
  BY DEF Build
<1>2. IsProcessor(p) /\ Consistent(p) /\ IsEntries(p.allocations)
  BY <1>1 DEF IInv, RedactorSound, IsProcessor
<1>3. /\ b.session.entries = p.allocations /\ b.session.scope = p.scope
      /\ b.session.issued = IssuedTokens(p) /\ b.session = BuildSession(p)
      /\ b.text = {p.applied[i] : i \in DOMAIN p.applied}
  BY DEF BuildSession
<1>4. BuiltSound(b)
  <2>1. SessionSound(b.session)
    BY <1>2, <1>3, BuildSessionSound DEF SessionSound, Consistent
  <2>2. b.text \subseteq AppliedReplacement
    BY <1>2, <1>3 DEF IsProcessor
  <2>3. TextIn(b.text, b.session.entries)
    BY <1>2, <1>3 DEF Consistent, TextIn
  <2>4. b.session.issued = TokensIn(b.text)
    BY <1>3 DEF IssuedTokens, TokensIn
  <2>5. QED
    BY <2>1, <2>2, <2>3, <2>4 DEF BuiltSound
<1>5. state' = NoState => NoStateYet'
  <2> SUFFICES ASSUME state = NoState PROVE NoStateYet'
    BY <1>1
  <2>1. NoStateYet
    BY DEF IInv
  <2>2. p.scope = r
    BY <1>1, <2>1 DEF NoStateYet
  <2>3. Continues(b.session.entries, p.allocations)
    BY <1>2, <1>3, ContinuesReflexive
  <2> HIDE DEF b
  <2>4. QED
    BY <1>1, <1>3, <2>1, <2>2, <2>3 DEF NoStateYet, Running
<1> HIDE DEF b
<1>6. QED
  BY <1>1, <1>4, <1>5 DEF IInv, StateHolds, RedactorSound, Running, BuiltSound

\* A step that makes or advances the state leaves the redactors as they are.
LEMMA AdoptIInv ==
    ASSUME IInv, UNCHANGED <<redactor, base, built>>, state' # NoState,
           StateHolds(state', delivered'), delivered' \subseteq AppliedReplacement
    PROVE  IInv'
BY DEF IInv, RedactorSound, Running, BuiltSound

LEMMA NewIInv ==
    ASSUME IInv, NEW b \in built, New(b)
    PROVE  IInv'
<1> DEFINE s == b.session
           permits == PermitsOfText(s)
<1>1. /\ PartsAccepted(s, permits) /\ state' = FromParts(s, permits)
      /\ delivered' = b.text /\ UNCHANGED <<redactor, base, built>>
  BY DEF New
<1>2. BuiltSound(b)
  BY DEF IInv
<1>3. permits \in Seq(RestorePermit) /\ IssuedBy(permits) = TokensIn(b.text)
  BY <1>2, PermitOfSession DEF BuiltSound
<1>4. \A i \in DOMAIN permits : PermitAccepted(s, permits[i])
  BY <1>1 DEF PartsAccepted
<1> HIDE DEF permits
<1>5. StateHolds(state', delivered') /\ state' # NoState
  BY <1>1, <1>2, <1>3, <1>4, FromPartsHolds DEF BuiltSound
<1>6. QED
  BY <1>1, <1>2, <1>5, AdoptIInv DEF BuiltSound

\* Permits that fit a session of the same redactor are for values that stand in
\* that session, whether they were built before it or after.
LEMMA PartsOfOneRedactor ==
    ASSUME IInv, state = NoState, NEW b \in built, NEW c \in built,
           PermitAccepted(b.session, CreateRestorePermit(c.session))
    PROVE  TextIn(c.text, b.session.entries)
<1> DEFINE r == b.session.scope
           all == redactor[r].allocations
<1>1. /\ c.session.scope = r /\ c.session.issued \subseteq TokensOf(b.session.entries)
  BY DEF PermitAccepted, CreateRestorePermit
<1>2. BuiltSound(b) /\ BuiltSound(c) /\ NoStateYet
  BY DEF IInv
<1>3. /\ Running(r) /\ Continues(b.session.entries, all) /\ Continues(c.session.entries, all)
      /\ r \in Redactors
  BY <1>1, <1>2 DEF NoStateYet, BuiltSound, SessionSound, IsSession, Redactors
<1>4. TokensDistinct(all)
  BY <1>3 DEF IInv, RedactorSound, Consistent
<1>5. ASSUME NEW a \in c.text
      PROVE  a.key \in DOMAIN b.session.entries /\ b.session.entries[a.key].token = a.token
  <2>1. a.key \in DOMAIN c.session.entries /\ c.session.entries[a.key].token = a.token
    BY <1>2 DEF BuiltSound, TextIn
  <2>2. a.key \in DOMAIN all /\ all[a.key].token = a.token
    BY <1>3, <2>1 DEF Continues
  <2>3. a.token \in TokensOf(b.session.entries)
    BY <1>1, <1>2 DEF BuiltSound, TokensIn
  <2>4. PICK k \in DOMAIN b.session.entries : b.session.entries[k].token = a.token
    BY <2>3 DEF TokensOf
  <2>5. k \in DOMAIN all /\ all[k].token = a.token
    BY <1>3, <2>4 DEF Continues
  <2>6. k = a.key
    BY <1>4, <2>2, <2>5 DEF TokensDistinct
  <2>7. QED
    BY <2>4, <2>6
<1>6. QED
  BY <1>5 DEF TextIn

LEMMA AssembleIInv ==
    ASSUME IInv, NEW b \in built, Assemble(b)
    PROVE  IInv'
<1> DEFINE s == b.session
<1>1. state = NoState /\ UNCHANGED <<redactor, base, built>>
  BY DEF Assemble
<1>2. PICK n \in 0..MaxBuilt : \E parts \in [1..n -> built] :
        LET permits == [i \in 1..n |-> CreateRestorePermit(parts[i].session)]
        IN /\ PartsAccepted(s, permits)
           /\ state' = FromParts(s, permits)
           /\ delivered' = UNION {parts[i].text : i \in 1..n}
  BY DEF Assemble
<1>3. PICK parts \in [1..n -> built] :
        LET permits == [i \in 1..n |-> CreateRestorePermit(parts[i].session)]
        IN /\ PartsAccepted(s, permits)
           /\ state' = FromParts(s, permits)
           /\ delivered' = UNION {parts[i].text : i \in 1..n}
  BY <1>2
<1> DEFINE permits == [i \in 1..n |-> CreateRestorePermit(parts[i].session)]
           text == UNION {parts[i].text : i \in 1..n}
<1>4. n \in Nat
  BY BoundsAssumption
<1>5. \A i \in 1..n : /\ parts[i] \in built /\ BuiltSound(parts[i])
                      /\ permits[i] = CreateRestorePermit(parts[i].session)
                      /\ permits[i] \in RestorePermit
                      /\ permits[i].issued = TokensIn(parts[i].text)
  BY PermitOfSession DEF IInv, BuiltSound
<1>6. permits \in Seq(RestorePermit) /\ DOMAIN permits = 1..n
  BY <1>4, <1>5
<1>7. \A i \in 1..n : PermitAccepted(s, permits[i])
  BY <1>3, <1>6 DEF PartsAccepted
<1>8. \A i \in 1..n : TextIn(parts[i].text, s.entries)
  BY <1>1, <1>5, <1>7, PartsOfOneRedactor
<1>9. TextIn(text, s.entries)
  BY <1>8 DEF TextIn
<1>10. IssuedBy(permits) = TokensIn(text)
  <2>1. \A token : token \in IssuedBy(permits)
                      <=> \E i \in 1..n : token \in TokensIn(parts[i].text)
    BY <1>5, <1>6 DEF IssuedBy
  <2>2. \A token : token \in TokensIn(text)
                      <=> \E i \in 1..n : token \in TokensIn(parts[i].text)
    BY DEF TokensIn
  <2>3. QED
    BY <2>1, <2>2
<1>11. text \subseteq AppliedReplacement
  BY <1>5 DEF BuiltSound
<1>12. state' = FromParts(s, permits) /\ delivered' = text /\ SessionSound(s)
  BY <1>3 DEF IInv, BuiltSound
<1> HIDE DEF permits, text
<1>13. StateHolds(state', delivered') /\ state' # NoState
  BY <1>6, <1>7, <1>9, <1>10, <1>12, FromPartsHolds
<1>14. QED
  BY <1>1, <1>11, <1>12, <1>13, AdoptIInv

\* The permits that a state has, and the one of a text that it advances to.
LEMMA PermitsAfterAdvance ==
    ASSUME IInv, state # NoState, NEW b \in built
    PROVE  /\ PermitsAfter(b.session) \in Seq(RestorePermit)
           /\ IssuedBy(PermitsAfter(b.session)) = TokensIn(delivered \cup b.text)
           /\ Len(state.permits) \in 0..Len(PermitsAfter(b.session))
           /\ SubSeq(PermitsAfter(b.session), 1, Len(state.permits)) = state.permits
<1> DEFINE old == state.permits
           new == PermitsOfText(b.session)
           permits == PermitsAfter(b.session)
<1>1. /\ StateHolds(state, delivered) /\ BuiltSound(b)
      /\ old \in Seq(RestorePermit) /\ new \in Seq(RestorePermit)
      /\ IssuedBy(old) = TokensIn(delivered) /\ IssuedBy(new) = TokensIn(b.text)
  BY PermitOfSession DEF IInv, StateHolds, BuiltSound
<1>2. permits = old \o new
  BY DEF PermitsAfter
<1> HIDE DEF old, new, permits
<1>3. /\ permits \in Seq(RestorePermit)
      /\ Len(permits) = Len(old) + Len(new) /\ Len(old) \in Nat /\ Len(new) \in Nat
      /\ DOMAIN permits = 1..(Len(old) + Len(new))
      /\ DOMAIN old = 1..Len(old) /\ DOMAIN new = 1..Len(new)
      /\ \A i \in 1..Len(old) : permits[i] = old[i]
      /\ \A i \in 1..Len(new) : permits[Len(old) + i] = new[i]
  BY <1>1, <1>2
<1>4. IssuedBy(permits) = IssuedBy(old) \cup IssuedBy(new)
  <2>1. ASSUME NEW token \in IssuedBy(permits)
        PROVE  token \in IssuedBy(old) \cup IssuedBy(new)
    <3>1. PICK i \in DOMAIN permits : token \in permits[i].issued
      BY DEF IssuedBy
    <3>2. CASE i \in 1..Len(old)
      BY <1>3, <3>1, <3>2 DEF IssuedBy
    <3>3. CASE i \notin 1..Len(old)
      <4>1. i - Len(old) \in DOMAIN new /\ i = Len(old) + (i - Len(old))
        BY <1>3, <3>3
      <4>2. permits[i] = new[i - Len(old)]
        BY <1>3, <4>1
      <4>3. QED
        BY <3>1, <4>1, <4>2 DEF IssuedBy
    <3>4. QED
      BY <3>2, <3>3
  <2>2. ASSUME NEW token \in IssuedBy(old) PROVE token \in IssuedBy(permits)
    <3>1. PICK i \in DOMAIN old : token \in old[i].issued
      BY DEF IssuedBy
    <3>2. i \in DOMAIN permits /\ permits[i] = old[i]
      BY <1>3
    <3>3. QED
      BY <3>1, <3>2 DEF IssuedBy
  <2>3. ASSUME NEW token \in IssuedBy(new) PROVE token \in IssuedBy(permits)
    <3>1. PICK i \in DOMAIN new : token \in new[i].issued
      BY DEF IssuedBy
    <3>2. Len(old) + i \in DOMAIN permits /\ permits[Len(old) + i] = new[i]
      BY <1>3
    <3>3. QED
      BY <3>1, <3>2 DEF IssuedBy
  <2>4. QED
    BY <2>1, <2>2, <2>3
<1>5. TokensIn(delivered \cup b.text) = TokensIn(delivered) \cup TokensIn(b.text)
  BY DEF TokensIn
<1>6. SubSeq(permits, 1, Len(old)) = old
  BY <1>1, <1>3
<1>7. Len(old) \in 0..Len(permits)
  BY <1>3
<1>8. /\ permits \in Seq(RestorePermit)
      /\ IssuedBy(permits) = TokensIn(delivered \cup b.text)
  BY <1>1, <1>3, <1>4, <1>5
<1>9. QED
  BY <1>6, <1>7, <1>8 DEF old, permits

LEMMA AdvanceIInv ==
    ASSUME IInv, NEW b \in built, Advance(b)
    PROVE  IInv'
<1> DEFINE s == b.session
<1>1. state # NoState /\ UNCHANGED <<redactor, base, built>>
  BY DEF Advance
<1>2. CASE ~AdvanceAccepted(s)
  <2>1. UNCHANGED vars
    BY <1>2 DEF Advance, vars
  <2>2. QED
    BY <2>1 DEF IInv, RedactorSound, Running, BuiltSound, StateHolds, NoStateYet, vars
<1>3. CASE AdvanceAccepted(s)
  <2> DEFINE permits == PermitsAfter(s)
             text == delivered \cup b.text
  <2>1. state' = FromParts(s, permits) /\ delivered' = text
    BY <1>3 DEF Advance
  <2>2. BuiltSound(b) /\ StateHolds(state, delivered) /\ delivered \subseteq AppliedReplacement
    BY <1>1 DEF IInv
  <2>3. ContinuityHolds(state.session, s) /\ PartsAccepted(s, permits)
    BY <1>3 DEF AdvanceAccepted
  <2>4. TextIn(text, s.entries)
    BY <2>2, <2>3 DEF TextIn, BuiltSound, StateHolds, ContinuityHolds
  <2>5. permits \in Seq(RestorePermit) /\ IssuedBy(permits) = TokensIn(text)
    BY <1>1, PermitsAfterAdvance
  <2>6. \A i \in DOMAIN permits : PermitAccepted(s, permits[i])
    BY <2>3 DEF PartsAccepted
  <2> HIDE DEF permits, text
  <2>7. StateHolds(state', delivered') /\ state' # NoState
    BY <2>1, <2>2, <2>4, <2>5, <2>6, FromPartsHolds DEF BuiltSound
  <2>8. QED
    BY <1>1, <2>1, <2>2, <2>7, AdoptIInv DEF BuiltSound, text
<1>4. QED
  BY <1>2, <1>3

LEMMA RestartIInv ==
    ASSUME IInv, Restart
    PROVE  IInv'
<1>1. /\ state # NoState /\ PartsAccepted(state.session, state.permits)
      /\ state' = FromParts(state.session, state.permits) /\ delivered' = delivered
      /\ redactor' = [r \in Redactors |->
                          IF redactor[r] = NotStarted THEN NotStarted ELSE Lost]
      /\ base' = [r \in Redactors |-> NoState] /\ built' = {}
  BY DEF Restart
<1>2. StateHolds(state, delivered) /\ delivered \subseteq AppliedReplacement
  BY <1>1 DEF IInv
<1>3. StateHolds(state', delivered') /\ state' # NoState
  BY <1>1, <1>2, FromPartsHolds DEF StateHolds, PartsAccepted
<1>4. \A r \in Redactors : ~Running(r)'
  BY <1>1 DEF Running
<1>5. QED
  BY <1>1, <1>2, <1>3, <1>4 DEF IInv, RedactorSound

LEMMA NextIInv ==
    ASSUME IInv, [Next]_vars
    PROVE  IInv'
<1>1. CASE UNCHANGED vars
  BY <1>1 DEF IInv, RedactorSound, Running, BuiltSound, StateHolds, NoStateYet, vars
<1>2. CASE Next
  BY <1>2, StartIInv, RedactFindingIInv, BuildIInv, NewIInv, AssembleIInv,
     AdvanceIInv, RestartIInv DEF Next
<1>3. QED
  BY <1>1, <1>2

--------------------------------------------------------------------------------
(***************************************************************************)
(* The theorems                                                            *)
(***************************************************************************)

THEOREM Invariance == Spec => []IInv
<1>1. QED
  BY InitIInv, NextIInv, PTL DEF Spec

\* PermitSet holds what the sequence of permits holds.
LEMMA PermitSetOf ==
    /\ AuthorizedTokens(PermitSet) = IssuedBy(state.permits)
    /\ \A p \in PermitSet : \E i \in DOMAIN state.permits : p = state.permits[i]
BY DEF PermitSet, AuthorizedTokens, IssuedBy

\* Every variable keeps its type: what a program keeps of a conversation, its
\* redactors and the sessions that they have built.
THEOREM TypeCorrect == Spec => []TypeOK
<1>1. IInv => TypeOK
  <2> SUFFICES ASSUME IInv PROVE TypeOK
    OBVIOUS
  <2>1. ASSUME state # NoState
        PROVE  /\ state \in [session : {state.session}, permits : Seq(PermitSet)]
               /\ IsSession(state.session)
               /\ \A p \in PermitSet : IsPermit(p)
    <3>1. /\ state = [session |-> state.session, permits |-> state.permits]
          /\ state.permits \in Seq(RestorePermit) /\ IsSession(state.session)
      BY <2>1 DEF IInv, StateHolds, SessionSound
    <3>2. state.permits \in Seq(PermitSet)
      BY <3>1 DEF PermitSet
    <3>3. ASSUME NEW i \in DOMAIN state.permits PROVE IsPermit(state.permits[i])
      <4>1. state.permits[i] \in RestorePermit
        BY <3>1
      <4>2. QED
        BY <4>1 DEF IsPermit, RestorePermit
    <3>4. QED
      BY <3>1, <3>2, <3>3, PermitSetOf
  <2>2. \A r \in Redactors : Running(r) => IsProcessor(redactor[r])
    BY DEF IInv, RedactorSound
  <2>3. \A b \in built : IsSession(b.session) /\ b.text \subseteq AppliedReplacement
    BY DEF IInv, BuiltSound, SessionSound
  <2>4. QED
    BY <2>1, <2>2, <2>3 DEF IInv, TypeOK
<1>2. QED
  BY <1>1, Invariance, PTL

\* Every text that the state has advanced to restores completely, for ever: the
\* permits are accepted by the latest session, each token is authorised, and it
\* stands for the value that it has replaced.
THEOREM TextsRestore == Spec => []DeliveredTextsRestore
<1>1. IInv => DeliveredTextsRestore
  <2> SUFFICES ASSUME IInv, NEW a \in delivered
               PROVE  RestoresTo(state.session, PermitSet, a.token, a.key.original)
    BY DEF DeliveredTextsRestore
  <2>1. StateHolds(state, delivered)
    BY DEF IInv, NoStateYet
  <2>2. \A p \in PermitSet : PermitAccepted(state.session, p)
    BY <2>1, PermitSetOf DEF StateHolds
  <2>3. a.token \in AuthorizedTokens(PermitSet)
    BY <2>1, PermitSetOf DEF StateHolds, TokensIn
  <2>4. OriginalOf(state.session, a.token) = a.key.original
    BY <2>1, TokenRestoresEntry DEF StateHolds, SessionSound, TextIn
  <2>5. QED
    BY <2>2, <2>3, <2>4 DEF RestoresTo
<1>2. QED
  BY <1>1, Invariance, PTL

\* Nothing is authorised but the tokens of texts that the state has advanced to:
\* forks that were refused stay without effect.
THEOREM NothingElseAuthorized == Spec => []OnlyDeliveredAuthorized
<1>1. IInv => OnlyDeliveredAuthorized
  <2> SUFFICES ASSUME IInv PROVE OnlyDeliveredAuthorized
    OBVIOUS
  <2>1. IssuedBy(state.permits) = TokensIn(delivered)
    BY DEF IInv, StateHolds, NoStateYet, NoState, IssuedBy, TokensIn
  <2>2. QED
    BY <2>1, PermitSetOf DEF OnlyDeliveredAuthorized, TokensIn
<1>2. QED
  BY <1>1, Invariance, PTL

\* Each token has one permit, and no permit is empty, in whatever order permits
\* came: the permits do not grow with repeated tokens.
THEOREM PermitsPartition == Spec => []PermitsPartitionTokens
<1>1. IInv => PermitsPartitionTokens
  <2> SUFFICES ASSUME IInv PROVE PermitsPartitionTokens
    OBVIOUS
  <2>1. Partitioned(state.permits)
    BY DEF IInv, StateHolds, Partitioned, NoState
  <2>2. QED
    BY <2>1 DEF Partitioned, PermitsPartitionTokens
<1>2. QED
  BY <1>1, Invariance, PTL

\* Used by one redactor at a time, a conversation never gets stuck.
THEOREM LinearUse == Spec => []LinearUseAccepted
<1>1. IInv => LinearUseAccepted
  <2> SUFFICES ASSUME IInv, state # NoState, NEW r \in Redactors, Running(r),
                      base[r] = state, redactor[r].ext = state.session.ext
               PROVE  AdvanceAccepted(BuildSession(redactor[r]))
    BY DEF LinearUseAccepted
  <2> DEFINE p == redactor[r]
             s == BuildSession(p)
             old == state.session
  <2>1. /\ IsProcessor(p) /\ Consistent(p)
        /\ p.scope = old.scope /\ Continues(old.entries, p.allocations)
        /\ StateHolds(state, delivered)
    BY DEF IInv, RedactorSound
  <2>2. /\ s.scope = p.scope /\ s.ext = p.ext /\ s.entries = p.allocations
        /\ s.issued = IssuedTokens(p)
    BY DEF BuildSession
  <2>3. SessionSound(s)
    BY <2>1, <2>2, BuildSessionSound DEF SessionSound, Consistent
  <2> HIDE DEF s
  <2>4. ValidSession(s)
    BY <2>3 DEF SessionSound, TokensLabelled, ValidSession
  <2>5. ContinuityHolds(old, s)
    BY <2>1, <2>2 DEF ContinuityHolds, Continues
  <2>6. TokensOf(old.entries) \subseteq TokensOf(s.entries)
    BY <2>5 DEF TokensOf, ContinuityHolds
  <2>7. ASSUME NEW i \in DOMAIN state.permits PROVE PermitAccepted(s, state.permits[i])
    <3>1. PermitAccepted(old, state.permits[i])
      BY <2>1 DEF StateHolds
    <3>2. QED
      BY <2>5, <2>6, <3>1 DEF PermitAccepted, ContinuityHolds
  <2>8. ASSUME NEW i \in DOMAIN PermitsOfText(s)
        PROVE  PermitAccepted(s, PermitsOfText(s)[i])
    <3>1. PermitsOfText(s) = <<>> \/ PermitsOfText(s) = <<CreateRestorePermit(s)>>
      BY DEF PermitsOfText
    <3>2. PermitsOfText(s)[i] = CreateRestorePermit(s)
      BY <2>8, <3>1
    <3>3. QED
      BY <2>3, <3>2, PermitOfSession
  <2>9. ASSUME NEW i \in DOMAIN PermitsAfter(s)
        PROVE  PermitAccepted(s, PermitsAfter(s)[i])
    <3> DEFINE new == PermitsOfText(s)
    <3>1. PermitsAfter(s) = state.permits \o new
      BY DEF PermitsAfter
    <3>2. state.permits \in Seq(RestorePermit) /\ new \in Seq(RestorePermit)
      BY <2>1, <2>3, PermitOfSession DEF StateHolds
    <3> HIDE DEF new
    <3>3. \/ i \in DOMAIN state.permits /\ PermitsAfter(s)[i] = state.permits[i]
          \/ /\ i - Len(state.permits) \in DOMAIN new
             /\ PermitsAfter(s)[i] = new[i - Len(state.permits)]
      BY <2>9, <3>1, <3>2
    <3>4. QED
      BY <2>7, <2>8, <3>3 DEF new
  <2>10. QED
    BY <2>4, <2>5, <2>9 DEF AdvanceAccepted, PartsAccepted, s
<1>2. QED
  BY <1>1, Invariance, PTL

\* The serialised state is accepted when it is read back, and is the same.
THEOREM Reloads == Spec => []StateReloads
<1>1. IInv => StateReloads
  <2> SUFFICES ASSUME IInv, state # NoState
               PROVE  /\ PartsAccepted(state.session, state.permits)
                      /\ FromParts(state.session, state.permits) = state
    BY DEF StateReloads
  <2> DEFINE permits == state.permits
             normal == NormalizePermits(permits)
             S == Retained(permits)
  <2>1. StateHolds(state, delivered)
    BY DEF IInv
  <2>2. PartsAccepted(state.session, permits)
    BY <2>1 DEF StateHolds, SessionSound, TokensLabelled, PartsAccepted, ValidSession
  <2>3. /\ permits \in Seq(RestorePermit) /\ DOMAIN permits = 1..Len(permits)
        /\ Len(permits) \in Nat /\ Partitioned(permits)
        /\ SubSeq(permits, 1, Len(permits)) = permits
    BY <2>1 DEF StateHolds
  <2> HIDE DEF permits, normal
  <2>4. Len(normal) >= Len(permits) /\ \A n \in 1..Len(permits) : normal[n] = permits[n]
    <3>1. Len(permits) \in 0..Len(permits)
      BY <2>3
    <3>2. Partitioned(SubSeq(permits, 1, Len(permits)))
      BY <2>3
    <3>3. QED
      BY <2>3, <3>1, <3>2, NormalizedPrefix DEF normal
  <2>5. /\ normal \in Seq(RestorePermit) /\ DOMAIN normal = 1..Len(normal)
        /\ Len(normal) = Cardinality(S) /\ Cardinality(S) \in Nat
    BY <2>3, NormalizedPermits, RetainedPlaces DEF normal
  <2>6. Cardinality(S) =< Len(permits)
    <3>1. S \in SUBSET (1..Len(permits))
      BY <2>3, RetainedPlaces
    <3>2. IsFiniteSet(1..Len(permits)) /\ Cardinality(1..Len(permits)) = Len(permits)
      BY <2>3, FS_Interval
    <3>3. QED
      BY <3>1, <3>2, FS_Subset
  <2>7. normal = permits
    BY <2>3, <2>4, <2>5, <2>6
  <2>8. QED
    BY <2>1, <2>2, <2>7 DEF FromParts, StateHolds, permits, normal
<1>2. QED
  BY <1>1, Invariance, PTL

\* No step takes a permit back, or changes one.
THEOREM PermitsGrow == Spec => PermitsOnlyGrow
<1>1. ASSUME IInv, [Next]_vars
      PROVE  [/\ Len(state'.permits) >= Len(state.permits)
              /\ SubSeq(state'.permits, 1, Len(state.permits)) = state.permits]_vars
  <2>1. state.permits \in Seq(RestorePermit)
    <3>1. CASE state = NoState
      <4>1. state.permits = <<>>
        BY <3>1 DEF NoState
      <4>2. QED
        BY <4>1
    <3>2. CASE state # NoState
      BY <1>1, <3>2 DEF IInv, StateHolds
    <3>3. QED
      BY <3>1, <3>2
  <2>2. CASE state' = state
    BY <2>1, <2>2
  <2>3. CASE state = NoState /\ state' # NoState
    <3>1. state.permits = <<>> /\ Len(state.permits) = 0
      BY <2>3 DEF NoState
    <3>2. state'.permits \in Seq(RestorePermit)
      BY <1>1, <2>3, NextIInv DEF IInv, StateHolds
    <3>3. QED
      BY <3>1, <3>2
  <2>4. CASE state # NoState /\ \E b \in built : Advance(b)
    <3>1. PICK b \in built : Advance(b)
      BY <2>4
    <3>2. CASE ~AdvanceAccepted(b.session)
      BY <2>2, <3>1, <3>2 DEF Advance
    <3>3. CASE AdvanceAccepted(b.session)
      <4> DEFINE permits == PermitsAfter(b.session)
      <4>1. state'.permits = NormalizePermits(permits)
        BY <3>1, <3>3 DEF Advance, FromParts
      <4>2. /\ permits \in Seq(RestorePermit) /\ Len(state.permits) \in 0..Len(permits)
            /\ SubSeq(permits, 1, Len(state.permits)) = state.permits
        BY <1>1, <2>4, PermitsAfterAdvance
      <4>3. Partitioned(state.permits)
        BY <1>1, <2>4 DEF IInv, StateHolds
      <4>4. QED
        BY <4>1, <4>2, <4>3, NormalizedPrefix
    <3>4. QED
      BY <3>2, <3>3
  <2>5. CASE state # NoState /\ Restart
    <3>1. state'.permits = NormalizePermits(state.permits)
      BY <2>5 DEF Restart, FromParts
    <3>2. Partitioned(state.permits) /\ Len(state.permits) \in 0..Len(state.permits)
          /\ SubSeq(state.permits, 1, Len(state.permits)) = state.permits
      BY <1>1, <2>1, <2>5 DEF IInv, StateHolds
    <3>3. QED
      BY <2>1, <3>1, <3>2, NormalizedPrefix
  <2>6. \/ state' = state
        \/ state = NoState /\ state' # NoState
        \/ state # NoState /\ ((\E b \in built : Advance(b)) \/ Restart)
    BY <1>1, FromPartsIsState
       DEF Next, Start, RedactFinding, Build, New, Assemble, Advance, Restart, vars
  <2>7. QED
    BY <2>2, <2>3, <2>4, <2>5, <2>6
<1>2. QED
  BY <1>1, Invariance, PTL DEF Spec, PermitsOnlyGrow
=============================================================================
