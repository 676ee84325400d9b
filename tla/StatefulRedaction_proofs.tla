------------------------ MODULE StatefulRedaction_proofs ------------------------
(***************************************************************************)
(* Proofs about StatefulRedaction, over a store that keeps its keys and    *)
(* over one that lets them expire.                                         *)
(***************************************************************************)
EXTENDS StatefulRedaction, RedactionSession_proofs, FiniteSetTheorems

--------------------------------------------------------------------------------
(***************************************************************************)
(* The inductive invariant                                                 *)
(***************************************************************************)

\* The processor works for the conversation that its request names, under a
\* scope that was drawn for that conversation.
ProcessorSound(r) ==
    /\ proc[r].ext = target[r]
    /\ target[proc[r].scope] = target[r]
    /\ Consistent(proc[r])

\* The stored session is one that a request of its conversation can continue.
StoreSound(e) == store[e] # NoSession =>
    LET s == store[e].session IN
    /\ s.ext = e
    /\ target[s.scope] = e
    /\ TokensLabelled(s.entries, s.scope)
    /\ TokensDistinct(s.entries)
    /\ \A kind \in Kinds : HasLargestCounter(s.entries, kind)
    /\ s.issued \subseteq TokensOf(s.entries)

\* A processor extends the session that its request loaded.
BuildsOnBase(r) == base[r] # NoSession =>
    /\ proc[r].scope = base[r].session.scope
    /\ Continues(base[r].session.entries, proc[r].allocations)

\* What a request loaded is the current version or an older one.
VersionsOrdered(r) == base[r] # NoSession =>
    /\ store[target[r]] # NoSession
    /\ base[r].version =< store[target[r]].version
    /\ base[r].version = store[target[r]].version => base[r] = store[target[r]]

\* What an applied save wrote is still part of the conversation.
AppliedContained(r) == Applied(r) =>
    /\ store[target[r]] # NoSession
    /\ store[target[r]].session.scope = proc[r].scope
    /\ Continues(proc[r].allocations, store[target[r]].session.entries)

\* The script is sent after the processor is done, and a handler that has seen
\* its save succeed has had its script applied.
HandlerAndScript(r) ==
    /\ pc[r] = "arrived" => base[r] = NoSession
    /\ pc[r] \in {"arrived", "redacting"} => script[r] = "unsent"
    /\ pc[r] \in {"securing", "responded"} => Applied(r)

\* Every version up to the current one was written by an applied save.
VersionsWritten(e) == store[e] # NoSession =>
    \A n \in 1..store[e].version :
        \E q \in Requests : Applied(q) /\ target[q] = e /\ NextVersion(q) = n

IInv ==
    /\ TypeOK
    /\ \A r \in Requests : /\ ProcessorSound(r)
                           /\ BuildsOnBase(r)
                           /\ VersionsOrdered(r)
                           /\ AppliedContained(r)
                           /\ HandlerAndScript(r)
    /\ \A e \in ExternalIds : StoreSound(e) /\ VersionsWritten(e)
    /\ ConflictsHaveAWinner

--------------------------------------------------------------------------------
(***************************************************************************)
(* Auxiliary facts                                                         *)
(***************************************************************************)

\* A stored session that is sound passes the validation of the next request.
LEMMA StoredSessionValid ==
    ASSUME NEW e \in ExternalIds, StoreSound(e), store[e] # NoSession
    PROVE  ValidPriorSession(store[e].session, e)
BY DEF StoreSound, TokensLabelled, ValidPriorSession, ValidSession

\* What save_latest writes is not mistaken for the absence of a session.
LEMMA StoredIsNotNoSession ==
    ASSUME NEW s, NEW v \in Nat \ {0}
    PROVE  [session |-> s, version |-> v] # NoSession
<1>1. [session |-> s, version |-> v].version = v /\ NoSession.version = 0
  BY DEF NoSession
<1>2. QED
  BY <1>1

\* The version check succeeds only on the very session that was loaded.
LEMMA MatchingVersionIsBase ==
    ASSUME IInv, NEW r \in Requests, VersionMatches(r)
    PROVE  store[target[r]] = base[r]
BY DEF IInv, VersionsOrdered, VersionMatches

--------------------------------------------------------------------------------
(***************************************************************************)
(* The invariant holds initially and is preserved by every action          *)
(***************************************************************************)

LEMMA InitIInv == Init => IInv
<1> SUFFICES ASSUME Init PROVE IInv
  OBVIOUS
<1>1. /\ target \in [Requests -> ExternalIds]
      /\ \A r \in Requests : /\ proc[r] = NewProcessor(r, target[r])
                             /\ base[r] = NoSession
                             /\ script[r] = "unsent"
                             /\ pc[r] = "arrived"
      /\ \A e \in ExternalIds : store[e] = NoSession
      /\ DOMAIN proc = Requests /\ DOMAIN base = Requests
      /\ DOMAIN store = ExternalIds
  BY DEF Init
<1>2. \A r \in Requests : IsProcessor(proc[r]) /\ Consistent(proc[r])
  BY <1>1, NewProcessorConsistent DEF Requests, ExternalIdOption
<1>3. TypeOK
  BY <1>1, <1>2 DEF TypeOK, Init, ActiveStates, ScriptStates
<1>4. \A r \in Requests : ProcessorSound(r)
  BY <1>1, <1>2 DEF ProcessorSound, NewProcessor
<1>5. \A r \in Requests : /\ BuildsOnBase(r) /\ VersionsOrdered(r)
                          /\ AppliedContained(r) /\ HandlerAndScript(r)
  BY <1>1 DEF BuildsOnBase, VersionsOrdered, AppliedContained,
              HandlerAndScript, Applied
<1>6. \A e \in ExternalIds : StoreSound(e) /\ VersionsWritten(e)
  BY <1>1 DEF StoreSound, VersionsWritten
<1>7. ConflictsHaveAWinner
  BY <1>1 DEF ConflictsHaveAWinner
<1>8. QED
  BY <1>3, <1>4, <1>5, <1>6, <1>7 DEF IInv

\* A step of the handler alone: only pc changes.
LEMMA HandlerStep ==
    ASSUME IInv, NEW r \in Requests,
           NEW state \in ActiveStates \cup EndStates,
           pc' = [pc EXCEPT ![r] = state],
           UNCHANGED <<store, target, base, proc, script>>,
           state \notin {"arrived", "redacting"},
           state \in {"securing", "responded"} => Applied(r)
    PROVE  IInv'
<1>1. TypeOK'
  BY DEF IInv, TypeOK
<1>2. \A q \in Requests : /\ ProcessorSound(q)' /\ BuildsOnBase(q)'
                          /\ VersionsOrdered(q)' /\ AppliedContained(q)'
  BY DEF IInv, ProcessorSound, BuildsOnBase, VersionsOrdered,
         AppliedContained, Applied
<1>3. \A q \in Requests : HandlerAndScript(q)'
  <2> SUFFICES ASSUME NEW q \in Requests PROVE HandlerAndScript(q)'
    OBVIOUS
  <2>1. HandlerAndScript(q) /\ pc \in [Requests -> ActiveStates \cup EndStates]
    BY DEF IInv, TypeOK
  <2>2. QED
    BY <2>1 DEF HandlerAndScript, Applied
<1>4. \A e \in ExternalIds : StoreSound(e)' /\ VersionsWritten(e)'
  BY DEF IInv, StoreSound, VersionsWritten, Applied, NextVersion
<1>5. ConflictsHaveAWinner'
  BY DEF IInv, ConflictsHaveAWinner, Applied, NextVersion
<1>6. QED
  BY <1>1, <1>2, <1>3, <1>4, <1>5 DEF IInv

LEMMA LoadStep ==
    ASSUME IInv, NEW r \in Requests, Load(r)
    PROVE  IInv'
<1> DEFINE e == target[r]
           latest == store[e]
<1>1. /\ pc[r] = "arrived"
      /\ script[r] = "unsent"
      /\ base[r] = NoSession
      /\ e \in ExternalIds
      /\ UNCHANGED <<store, target, script>>
      /\ base' = [base EXCEPT ![r] = latest]
  BY DEF Load, IInv, HandlerAndScript, TypeOK
<1>2. latest # NoSession =>
        /\ IsStoredSession(latest)
        /\ ValidPriorSession(latest.session, e)
  BY <1>1, StoredSessionValid DEF IInv, TypeOK
<1>3. pc' = [pc EXCEPT ![r] = "redacting"]
  BY <1>2 DEF Load
<1>4. \/ latest = NoSession /\ proc' = proc
      \/ /\ latest # NoSession
         /\ proc' = [proc EXCEPT ![r] = WithPriorSession(latest.session, e)]
  BY <1>2 DEF Load
<1>5. \A q \in Requests : q # r => base'[q] = base[q] /\ proc'[q] = proc[q]
  BY <1>1, <1>4 DEF IInv, TypeOK
<1>6. base'[r] = latest
  BY <1>1 DEF IInv, TypeOK
<1>7. /\ IsProcessor(proc'[r])
      /\ Consistent(proc'[r])
      /\ proc'[r].ext = e
      /\ target[proc'[r].scope] = e
      /\ latest # NoSession =>
            /\ proc'[r].scope = latest.session.scope
            /\ Continues(latest.session.entries, proc'[r].allocations)
  <2>1. CASE latest = NoSession
    BY <1>4, <2>1 DEF IInv, TypeOK, ProcessorSound
  <2>2. CASE latest # NoSession
    <3>1. proc'[r] = WithPriorSession(latest.session, e)
      BY <1>4, <2>2 DEF IInv, TypeOK
    <3>2. IsSession(latest.session)
      BY <1>2, <2>2 DEF IsStoredSession
    <3>3. /\ latest.session.ext = e
          /\ target[latest.session.scope] = e
          /\ TokensLabelled(latest.session.entries, latest.session.scope)
          /\ TokensDistinct(latest.session.entries)
          /\ \A kind \in Kinds : HasLargestCounter(latest.session.entries, kind)
      BY <1>1, <2>2 DEF IInv, StoreSound
    <3>4. IsProcessor(proc'[r]) /\ Consistent(proc'[r])
      BY <1>1, <3>1, <3>2, <3>3, WithPriorSessionConsistent DEF ExternalIdOption
    <3>5. /\ proc'[r].scope = latest.session.scope
          /\ proc'[r].ext = e
          /\ proc'[r].allocations = latest.session.entries
      BY <3>1, <3>3 DEF WithPriorSession
    <3>6. Continues(latest.session.entries, proc'[r].allocations)
      BY <3>2, <3>5, ContinuesReflexive DEF IsSession
    <3>7. QED
      BY <3>3, <3>4, <3>5, <3>6
  <2>3. QED
    BY <2>1, <2>2
<1>8. TypeOK'
  <2>1. DOMAIN base' = Requests /\ DOMAIN proc' = Requests
    BY <1>1, <1>4 DEF IInv, TypeOK
  <2>2. \A q \in Requests : IsProcessor(proc'[q])
    BY <1>5, <1>7 DEF IInv, TypeOK
  <2>3. \A q \in Requests : base'[q] = NoSession \/ IsStoredSession(base'[q])
    BY <1>2, <1>5, <1>6 DEF IInv, TypeOK
  <2>4. pc' \in [Requests -> ActiveStates \cup EndStates]
    BY <1>3 DEF IInv, TypeOK, ActiveStates
  <2>5. QED
    BY <1>1, <2>1, <2>2, <2>3, <2>4 DEF IInv, TypeOK
<1>9. \A q \in Requests : ProcessorSound(q)'
  BY <1>1, <1>5, <1>7 DEF IInv, ProcessorSound
<1>10. \A q \in Requests : BuildsOnBase(q)'
  BY <1>5, <1>6, <1>7 DEF IInv, BuildsOnBase
<1>11. \A q \in Requests : VersionsOrdered(q)'
  <2>1. latest # NoSession => latest.version =< latest.version
    BY <1>2 DEF IsStoredSession
  <2>2. QED
    BY <1>1, <1>5, <1>6, <2>1 DEF IInv, VersionsOrdered
<1>12. \A q \in Requests : Applied(q) => q # r
  BY <1>1 DEF Applied
<1>13. \A q \in Requests : AppliedContained(q)'
  BY <1>1, <1>5, <1>12 DEF IInv, AppliedContained, Applied
<1>14. \A q \in Requests : HandlerAndScript(q)'
  BY <1>1, <1>3, <1>5 DEF IInv, TypeOK, HandlerAndScript, Applied
<1>15. \A f \in ExternalIds : StoreSound(f)'
  BY <1>1 DEF IInv, StoreSound
<1>16. \A q \in Requests : q # r => NextVersion(q)' = NextVersion(q)
  BY <1>5 DEF NextVersion
<1>17. \A f \in ExternalIds : VersionsWritten(f)'
  BY <1>1, <1>12, <1>16 DEF IInv, VersionsWritten, Applied
<1>18. ConflictsHaveAWinner'
  BY <1>1, <1>12, <1>16 DEF IInv, ConflictsHaveAWinner, Applied
<1>19. QED
  BY <1>8, <1>9, <1>10, <1>11, <1>13, <1>14, <1>15, <1>17, <1>18 DEF IInv

LEMMA RedactFindingStep ==
    ASSUME IInv, NEW r \in Requests, NEW key \in Keys, RedactFinding(r, key)
    PROVE  IInv'
<1>1. /\ pc[r] = "redacting"
      /\ script[r] = "unsent"
      /\ UNCHANGED <<store, target, pc, base, script>>
      /\ proc' = [proc EXCEPT ![r] = ReplaceFinding(proc[r], key)]
  BY DEF RedactFinding, IInv, HandlerAndScript
<1>2. /\ \A q \in Requests : q # r => proc'[q] = proc[q]
      /\ proc'[r] = ReplaceFinding(proc[r], key)
      /\ DOMAIN proc' = Requests
  BY <1>1 DEF IInv, TypeOK
<1>3. /\ IsProcessor(proc[r])
      /\ Consistent(proc[r])
  BY DEF IInv, TypeOK, ProcessorSound
<1>4. /\ IsProcessor(proc'[r])
      /\ Consistent(proc'[r])
      /\ Continues(proc[r].allocations, proc'[r].allocations)
      /\ proc'[r].scope = proc[r].scope
      /\ proc'[r].ext = proc[r].ext
  <2>1. /\ IsProcessor(ReplaceFinding(proc[r], key))
        /\ Consistent(ReplaceFinding(proc[r], key))
        /\ Continues(proc[r].allocations, ReplaceFinding(proc[r], key).allocations)
    BY <1>3, ReplaceFindingConsistent
  <2>2. /\ ReplaceFinding(proc[r], key).scope = proc[r].scope
        /\ ReplaceFinding(proc[r], key).ext = proc[r].ext
    BY DEF ReplaceFinding
  <2>3. QED
    BY <1>2, <2>1, <2>2
<1>5. TypeOK'
  BY <1>1, <1>2, <1>4 DEF IInv, TypeOK
<1>6. \A q \in Requests : ProcessorSound(q)'
  BY <1>1, <1>2, <1>4 DEF IInv, ProcessorSound
<1>7. \A q \in Requests : BuildsOnBase(q)'
  <2>1. BuildsOnBase(r)'
    <3> SUFFICES ASSUME base[r] # NoSession
                 PROVE  /\ proc'[r].scope = base[r].session.scope
                        /\ Continues(base[r].session.entries,
                                     proc'[r].allocations)
      BY <1>1 DEF BuildsOnBase
    <3>1. /\ proc[r].scope = base[r].session.scope
          /\ Continues(base[r].session.entries, proc[r].allocations)
      BY DEF IInv, BuildsOnBase
    <3>2. IsEntries(base[r].session.entries)
      BY DEF IInv, TypeOK, IsStoredSession, IsSession
    <3>3. QED
      BY <1>3, <1>4, <3>1, <3>2, ContinuesTransitive DEF IsProcessor
  <2>2. \A q \in Requests : q # r => BuildsOnBase(q)'
    BY <1>1, <1>2 DEF IInv, BuildsOnBase
  <2>3. QED
    BY <2>1, <2>2
<1>8. \A q \in Requests : VersionsOrdered(q)' /\ HandlerAndScript(q)'
  BY <1>1 DEF IInv, VersionsOrdered, HandlerAndScript, Applied
<1>9. \A q \in Requests : AppliedContained(q)'
  BY <1>1, <1>2 DEF IInv, AppliedContained, Applied
<1>10. \A e \in ExternalIds : StoreSound(e)' /\ VersionsWritten(e)'
  BY <1>1 DEF IInv, StoreSound, VersionsWritten, Applied, NextVersion
<1>11. ConflictsHaveAWinner'
  BY <1>1 DEF IInv, ConflictsHaveAWinner, Applied, NextVersion
<1>12. QED
  BY <1>5, <1>6, <1>7, <1>8, <1>9, <1>10, <1>11 DEF IInv

\* A step that changes only what became of a script that is not applied by it,
\* and possibly lets the handler wait for it.
LEMMA ScriptStep ==
    ASSUME IInv, NEW r \in Requests, NEW outcome \in {"sent", "lost"},
           ~Applied(r),
           script' = [script EXCEPT ![r] = outcome],
           UNCHANGED <<store, target, base, proc>>,
           \/ UNCHANGED pc /\ script[r] = "sent"
           \/ pc' = [pc EXCEPT ![r] = "saving"]
    PROVE  IInv'
<1>1. /\ \A q \in Requests : q # r => script'[q] = script[q]
      /\ script'[r] = outcome
      /\ script' \in [Requests -> ScriptStates]
  BY DEF IInv, TypeOK, ScriptStates
<1>2. \A q \in Requests : Applied(q)' <=> Applied(q)
  BY <1>1 DEF Applied
<1>3. TypeOK'
  BY <1>1 DEF IInv, TypeOK, ActiveStates
<1>4. \A q \in Requests : /\ ProcessorSound(q)' /\ BuildsOnBase(q)'
                          /\ VersionsOrdered(q)'
  BY DEF IInv, ProcessorSound, BuildsOnBase, VersionsOrdered
<1>5. \A q \in Requests : AppliedContained(q)'
  BY <1>2 DEF IInv, AppliedContained
<1>6. \A q \in Requests : HandlerAndScript(q)'
  BY <1>1, <1>2 DEF IInv, TypeOK, HandlerAndScript
<1>7. \A e \in ExternalIds : StoreSound(e)'
  BY DEF IInv, StoreSound
<1>8. \A e \in ExternalIds : VersionsWritten(e)'
  BY <1>2 DEF IInv, VersionsWritten, NextVersion
<1>9. ConflictsHaveAWinner'
  BY <1>1, <1>2 DEF IInv, ConflictsHaveAWinner, NextVersion
<1>10. QED
  BY <1>3, <1>4, <1>5, <1>6, <1>7, <1>8, <1>9 DEF IInv

LEMMA RefusedSaveStep ==
    ASSUME IInv, NEW r \in Requests, ExecuteSave(r), ~VersionMatches(r)
    PROVE  IInv'
<1> DEFINE e == target[r]
<1>1. /\ script[r] = "sent"
      /\ script' = [script EXCEPT ![r] = "refused"]
      /\ UNCHANGED <<store, target, pc, base, proc>>
      /\ e \in ExternalIds
  BY DEF ExecuteSave, IInv, TypeOK
<1>2. /\ \A q \in Requests : q # r => script'[q] = script[q]
      /\ script'[r] = "refused"
      /\ script' \in [Requests -> ScriptStates]
  BY <1>1 DEF IInv, TypeOK, ScriptStates
<1>3. \A q \in Requests : Applied(q)' <=> Applied(q)
  BY <1>1, <1>2 DEF Applied
<1>4. TypeOK'
  BY <1>1, <1>2 DEF IInv, TypeOK
<1>5. \A q \in Requests : /\ ProcessorSound(q)' /\ BuildsOnBase(q)'
                          /\ VersionsOrdered(q)'
  BY <1>1 DEF IInv, ProcessorSound, BuildsOnBase, VersionsOrdered
<1>6. \A q \in Requests : AppliedContained(q)' /\ HandlerAndScript(q)'
  BY <1>1, <1>2, <1>3 DEF IInv, AppliedContained, HandlerAndScript
<1>7. \A f \in ExternalIds : StoreSound(f)' /\ VersionsWritten(f)'
  BY <1>1, <1>3 DEF IInv, StoreSound, VersionsWritten, NextVersion
<1>8. \E q \in Requests : /\ Applied(q) /\ target[q] = e
                          /\ NextVersion(q) = NextVersion(r)
  <2>1. store[e] # NoSession /\ IsStoredSession(store[e])
    BY <1>1 DEF VersionMatches, IInv, VersionsOrdered, TypeOK
  <2>2. NextVersion(r) \in 1..store[e].version
    <3>1. store[e].version \in Nat \ {0}
      BY <2>1 DEF IsStoredSession
    <3>2. base[r] # NoSession =>
            /\ base[r].version \in Nat \ {0}
            /\ base[r].version =< store[e].version
            /\ base[r].version # store[e].version
      BY <2>1 DEF VersionMatches, IInv, TypeOK, VersionsOrdered, IsStoredSession
    <3>3. QED
      BY <3>1, <3>2 DEF NextVersion
  <2>3. QED
    BY <1>1, <2>1, <2>2 DEF IInv, VersionsWritten
<1>9. ConflictsHaveAWinner'
  BY <1>1, <1>2, <1>3, <1>8 DEF IInv, ConflictsHaveAWinner, NextVersion
<1>10. QED
  BY <1>4, <1>5, <1>6, <1>7, <1>9 DEF IInv

LEMMA AppliedSaveStep ==
    ASSUME IInv, NEW r \in Requests, ExecuteSave(r), VersionMatches(r)
    PROVE  IInv'
<1> DEFINE e == target[r]
           new == [session |-> BuildSession(proc[r]), version |-> NextVersion(r)]
<1>1. /\ script[r] = "sent"
      /\ script' = [script EXCEPT ![r] = "applied"]
      /\ store' = [store EXCEPT ![e] = new]
      /\ UNCHANGED <<target, pc, base, proc>>
      /\ e \in ExternalIds
  BY DEF ExecuteSave, IInv, TypeOK
<1>2. /\ store'[e] = new
      /\ \A f \in ExternalIds : f # e => store'[f] = store[f]
      /\ DOMAIN store' = ExternalIds
  BY <1>1 DEF IInv, TypeOK
<1>3. /\ \A q \in Requests : q # r => script'[q] = script[q]
      /\ script'[r] = "applied"
      /\ script' \in [Requests -> ScriptStates]
  BY <1>1 DEF IInv, TypeOK, ScriptStates
<1>4. store[e] = base[r]
  BY MatchingVersionIsBase
<1>5. /\ NextVersion(r) \in Nat \ {0}
      /\ store[e] # NoSession =>
            /\ store[e].version \in Nat \ {0}
            /\ NextVersion(r) = store[e].version + 1
  BY <1>1, <1>4 DEF NextVersion, IInv, TypeOK, IsStoredSession
<1>6. new # NoSession
  BY <1>5, StoredIsNotNoSession
<1>7. IsProcessor(proc[r]) /\ Consistent(proc[r]) /\ IsEntries(proc[r].allocations)
  BY DEF IInv, TypeOK, ProcessorSound, IsProcessor
<1>8. /\ IsSession(BuildSession(proc[r]))
      /\ IssuedTokens(proc[r]) \subseteq TokensOf(proc[r].allocations)
      /\ \A kind \in Kinds : HasLargestCounter(proc[r].allocations, kind)
  BY <1>7, BuildSessionSound
<1>9. TypeOK'
  <2>1. IsStoredSession(new)
    BY <1>5, <1>8 DEF IsStoredSession
  <2>2. QED
    BY <1>1, <1>2, <1>3, <2>1 DEF IInv, TypeOK
<1>10. \A q \in Requests : ProcessorSound(q)' /\ BuildsOnBase(q)'
  BY <1>1 DEF IInv, ProcessorSound, BuildsOnBase
<1>11. \A q \in Requests : VersionsOrdered(q)'
  <2> SUFFICES ASSUME NEW q \in Requests, base[q] # NoSession
               PROVE  /\ store'[target[q]] # NoSession
                      /\ base[q].version =< store'[target[q]].version
                      /\ base[q].version = store'[target[q]].version
                            => base[q] = store'[target[q]]
    BY <1>1 DEF VersionsOrdered
  <2>1. /\ store[target[q]] # NoSession
        /\ base[q].version =< store[target[q]].version
        /\ base[q].version = store[target[q]].version
              => base[q] = store[target[q]]
        /\ base[q].version \in Nat
        /\ target[q] \in ExternalIds
    BY DEF IInv, TypeOK, VersionsOrdered, IsStoredSession
  <2>2. CASE target[q] = e
    BY <1>2, <1>5, <1>6, <2>1, <2>2
  <2>3. CASE target[q] # e
    BY <1>2, <2>1, <2>3
  <2>4. QED
    BY <2>2, <2>3
<1>12. \A q \in Requests : AppliedContained(q)'
  <2> SUFFICES ASSUME NEW q \in Requests, Applied(q)'
               PROVE  /\ store'[target[q]] # NoSession
                      /\ store'[target[q]].session.scope = proc[q].scope
                      /\ Continues(proc[q].allocations,
                                   store'[target[q]].session.entries)
    BY <1>1 DEF AppliedContained
  <2>1. /\ new.session.scope = proc[r].scope
        /\ new.session.entries = proc[r].allocations
    BY DEF BuildSession
  <2>2. CASE q = r
    BY <1>2, <1>6, <1>7, <2>1, <2>2, ContinuesReflexive
  <2>3. CASE q # r /\ target[q] # e
    <3>1. Applied(q) /\ target[q] \in ExternalIds
      BY <1>3, <2>3 DEF Applied, IInv, TypeOK
    <3>2. QED
      BY <1>2, <2>3, <3>1 DEF IInv, AppliedContained
  <2>4. CASE q # r /\ target[q] = e
    <3>1. Applied(q)
      BY <1>3, <2>4 DEF Applied
    <3>2. /\ store[e] # NoSession
          /\ store[e].session.scope = proc[q].scope
          /\ Continues(proc[q].allocations, store[e].session.entries)
      BY <2>4, <3>1 DEF IInv, AppliedContained
    <3>3. /\ proc[r].scope = store[e].session.scope
          /\ Continues(store[e].session.entries, proc[r].allocations)
      BY <1>4, <3>2 DEF IInv, BuildsOnBase
    <3>4. IsEntries(proc[q].allocations) /\ IsEntries(store[e].session.entries)
      BY <1>1, <3>2 DEF IInv, TypeOK, IsProcessor, IsStoredSession, IsSession
    <3>5. Continues(proc[q].allocations, proc[r].allocations)
      BY <1>7, <3>2, <3>3, <3>4, ContinuesTransitive
    <3>6. QED
      BY <1>2, <1>6, <2>1, <2>4, <3>2, <3>3, <3>5
  <2>5. QED
    BY <2>2, <2>3, <2>4
<1>13. \A q \in Requests : HandlerAndScript(q)'
  BY <1>1, <1>3 DEF IInv, HandlerAndScript, Applied
<1>14. \A f \in ExternalIds : StoreSound(f)'
  <2>1. StoreSound(e)'
    <3>1. /\ new.session.ext = e
          /\ target[new.session.scope] = e
          /\ TokensLabelled(new.session.entries, new.session.scope)
          /\ TokensDistinct(new.session.entries)
          /\ \A kind \in Kinds : HasLargestCounter(new.session.entries, kind)
          /\ new.session.issued \subseteq TokensOf(new.session.entries)
      BY <1>7, <1>8 DEF BuildSession, IInv, ProcessorSound, Consistent
    <3>2. QED
      BY <1>1, <1>2, <3>1 DEF StoreSound
  <2>2. \A f \in ExternalIds : f # e => StoreSound(f)'
    BY <1>1, <1>2 DEF IInv, StoreSound
  <2>3. QED
    BY <1>1, <2>1, <2>2
<1>15. \A q \in Requests : Applied(q) => Applied(q)'
  BY <1>3 DEF Applied
<1>16. \A q \in Requests : NextVersion(q)' = NextVersion(q)
  BY <1>1 DEF NextVersion
<1>17. \A f \in ExternalIds : VersionsWritten(f)'
  <2>1. VersionsWritten(e)'
    <3> SUFFICES ASSUME NEW n \in 1..new.version
                 PROVE  \E q \in Requests : /\ Applied(q)' /\ target[q] = e
                                            /\ NextVersion(q) = n
      BY <1>1, <1>2, <1>16 DEF VersionsWritten
    <3>1. CASE n = NextVersion(r)
      BY <1>3, <3>1 DEF Applied
    <3>2. CASE n # NextVersion(r)
      <4>1. store[e] # NoSession /\ n \in 1..store[e].version
        BY <1>4, <1>5, <3>2 DEF NextVersion
      <4>2. PICK q \in Requests : Applied(q) /\ target[q] = e /\ NextVersion(q) = n
        BY <1>1, <4>1 DEF IInv, VersionsWritten
      <4>3. QED
        BY <1>15, <4>2
    <3>3. QED
      BY <3>1, <3>2
  <2>2. \A f \in ExternalIds : f # e => VersionsWritten(f)'
    BY <1>1, <1>2, <1>15, <1>16 DEF IInv, VersionsWritten
  <2>3. QED
    BY <1>1, <2>1, <2>2
<1>18. ConflictsHaveAWinner'
  BY <1>1, <1>3, <1>15, <1>16 DEF IInv, ConflictsHaveAWinner
<1>19. QED
  BY <1>9, <1>10, <1>11, <1>12, <1>13, <1>14, <1>17, <1>18 DEF IInv

LEMMA NextIInv == IInv /\ [Next]_vars => IInv'
<1> SUFFICES ASSUME IInv, [Next]_vars PROVE IInv'
  OBVIOUS
<1>1. CASE UNCHANGED vars
  <2>1. UNCHANGED <<store, target, pc, base, proc, script>>
    BY <1>1 DEF vars
  <2>2. QED
    BY <2>1 DEF IInv, TypeOK, ProcessorSound, BuildsOnBase, VersionsOrdered,
                AppliedContained, HandlerAndScript, StoreSound, VersionsWritten,
                ConflictsHaveAWinner, Applied, NextVersion
<1>2. ASSUME NEW r \in Requests, RequestStep(r) PROVE IInv'
  <2> USE DEF ActiveStates, EndStates
  <2>1. CASE Load(r)
    BY <2>1, LoadStep
  <2>2. CASE LoadUnavailable(r)
    BY <2>2, HandlerStep DEF LoadUnavailable
  <2>3. CASE \E key \in Keys : RedactFinding(r, key)
    BY <2>3, RedactFindingStep
  <2>4. CASE SendSave(r)
    <3>1. script[r] = "unsent"
      BY <2>4 DEF SendSave, IInv, HandlerAndScript
    <3>2. QED
      BY <2>4, <3>1, ScriptStep DEF SendSave, Applied
  <2>5. CASE ExecuteSave(r)
    BY <2>5, RefusedSaveStep, AppliedSaveStep
  <2>6. CASE LoseSave(r)
    BY <2>6, ScriptStep DEF LoseSave, Applied
  <2>7. CASE SaveReply(r)
    BY <2>7, HandlerStep DEF SaveReply, Applied
  <2>8. CASE SaveUnavailable(r)
    BY <2>8, HandlerStep DEF SaveUnavailable
  <2>9. CASE Respond(r)
    <3>1. Applied(r)
      BY <2>9 DEF Respond, IInv, HandlerAndScript
    <3>2. /\ pc' = [pc EXCEPT ![r] = "responded"]
          /\ UNCHANGED <<store, target, base, proc, script>>
      BY <2>9 DEF Respond
    <3>3. QED
      BY <3>1, <3>2, HandlerStep
  <2>10. CASE SecureFails(r)
    <3>1. /\ pc' = [pc EXCEPT ![r] = "failed"]
          /\ UNCHANGED <<store, target, base, proc, script>>
      BY <2>10 DEF SecureFails
    <3>2. QED
      BY <3>1, HandlerStep
  <2>11. CASE Abandon(r)
    <3>1. /\ pc' = [pc EXCEPT ![r] = "abandoned"]
          /\ UNCHANGED <<store, target, base, proc, script>>
      BY <2>11 DEF Abandon
    <3>2. QED
      BY <3>1, HandlerStep
  <2>12. CASE FailBeforeSave(r)
    <3>1. /\ pc' = [pc EXCEPT ![r] = "failed"]
          /\ UNCHANGED <<store, target, base, proc, script>>
      BY <2>12 DEF FailBeforeSave
    <3>2. QED
      BY <3>1, HandlerStep
  <2>13. QED
    BY <1>2, <2>1, <2>2, <2>3, <2>4, <2>5, <2>6, <2>7, <2>8, <2>9, <2>10, <2>11,
       <2>12 DEF RequestStep
<1>3. CASE Idle
  BY <1>1, <1>3 DEF Idle
<1>4. QED
  BY <1>1, <1>2, <1>3 DEF Next

--------------------------------------------------------------------------------
(***************************************************************************)
(* The theorems                                                            *)
(***************************************************************************)

\* The invariant holds in every reachable state, for any number of requests,
\* conversations, kinds and values and for texts of any length.
THEOREM Invariance == Spec => []IInv
<1>1. Init => IInv
  BY InitIInv
<1>2. IInv /\ [Next]_vars => IInv'
  BY NextIInv
<1>3. QED
  BY <1>1, <1>2, PTL DEF Spec

\* Type correctness of the protocol.
THEOREM TypeCorrect == Spec => []TypeOK
<1>1. IInv => TypeOK
  BY DEF IInv
<1>2. QED
  BY <1>1, Invariance, PTL

\* The next request of a conversation never fails the validation of the session
\* that the previous ones left in the store.
THEOREM SessionsStayUsable == Spec => []StoredSessionsUsable
<1>1. IInv => StoredSessionsUsable
  BY StoredSessionValid DEF IInv, StoredSessionsUsable
<1>2. QED
  BY <1>1, Invariance, PTL

\* A refused save lost to an applied save of the same version.
THEOREM ConflictsAreReal == Spec => []ConflictsHaveAWinner
<1>1. IInv => ConflictsHaveAWinner
  BY DEF IInv
<1>2. QED
  BY <1>1, Invariance, PTL

\* The saved redactions agree on the meaning of every token.
THEOREM TokensStayUnambiguous == Spec => []TokensMeanOneValue
<1>1. ASSUME IInv PROVE TokensMeanOneValue
  <2> SUFFICES ASSUME NEW r \in Requests, NEW q \in Requests,
                      Applied(r), Applied(q),
                      NEW i \in DOMAIN proc[r].applied,
                      NEW j \in DOMAIN proc[q].applied
               PROVE  proc[r].applied[i].token = proc[q].applied[j].token
                        <=> /\ proc[r].applied[i].key = proc[q].applied[j].key
                            /\ target[r] = target[q]
    BY DEF TokensMeanOneValue
  <2> DEFINE a == proc[r].applied[i]
             b == proc[q].applied[j]
             mr == proc[r].allocations
             mq == proc[q].allocations
  <2>1. /\ a.key \in DOMAIN mr /\ mr[a.key].token = a.token
        /\ b.key \in DOMAIN mq /\ mq[b.key].token = b.token
    BY <1>1 DEF IInv, ProcessorSound, Consistent
  <2>2. CASE target[r] = target[q]
    <3> DEFINE m == store[target[r]].session.entries
    <3>1. Continues(mr, m) /\ Continues(mq, m) /\ TokensDistinct(m)
      BY <1>1, <2>2 DEF IInv, TypeOK, AppliedContained, StoreSound
    <3>2. /\ a.key \in DOMAIN m /\ m[a.key].token = a.token
          /\ b.key \in DOMAIN m /\ m[b.key].token = b.token
      BY <2>1, <3>1 DEF Continues
    <3>3. QED
      BY <2>2, <3>1, <3>2 DEF TokensDistinct
  <2>3. CASE target[r] # target[q]
    <3>1. a.token.scope = proc[r].scope /\ b.token.scope = proc[q].scope
      BY <1>1, <2>1 DEF IInv, ProcessorSound, Consistent, TokensLabelled
    <3>2. target[proc[r].scope] = target[r] /\ target[proc[q].scope] = target[q]
      BY <1>1 DEF IInv, ProcessorSound
    <3>3. QED
      BY <2>3, <3>1, <3>2
  <2>4. QED
    BY <2>2, <2>3
<1>2. QED
  BY <1>1, Invariance, PTL

\* A permit that was handed out is accepted against every later session of its
\* conversation, and restores every token of its response to what it replaced.
THEOREM PermitsNeverGoStale == Spec => []PermitsStayGood
<1>1. ASSUME IInv PROVE PermitsStayGood
  <2> SUFFICES ASSUME NEW r \in Requests, pc[r] = "responded"
               PROVE  /\ store[target[r]] # NoSession
                      /\ PermitAccepted(store[target[r]].session, PermitOf(r))
                      /\ \A i \in DOMAIN proc[r].applied :
                           RestoreAnswers(target[r], {PermitOf(r)},
                                          proc[r].applied[i].token,
                                          proc[r].applied[i].key.original)
    BY DEF PermitsStayGood
  <2> DEFINE s == store[target[r]].session
  <2>1. Applied(r)
    BY <1>1 DEF IInv, HandlerAndScript
  <2>2. /\ store[target[r]] # NoSession
        /\ s.scope = proc[r].scope
        /\ Continues(proc[r].allocations, s.entries)
        /\ s.ext = target[r]
        /\ TokensDistinct(s.entries)
    BY <1>1, <2>1 DEF IInv, TypeOK, AppliedContained, StoreSound
  <2>3. /\ PermitOf(r).scope = proc[r].scope
        /\ PermitOf(r).ext = target[r]
        /\ PermitOf(r).issued = IssuedTokens(proc[r])
    BY <1>1 DEF PermitOf, CreateRestorePermit, BuildSession, IInv, ProcessorSound
  <2>4. ASSUME NEW i \in DOMAIN proc[r].applied
        PROVE  /\ proc[r].applied[i].key \in DOMAIN s.entries
               /\ s.entries[proc[r].applied[i].key].token
                     = proc[r].applied[i].token
    BY <1>1, <2>2 DEF IInv, ProcessorSound, Consistent, Continues
  <2>5. PermitAccepted(s, PermitOf(r))
    BY <2>2, <2>3, <2>4 DEF PermitAccepted, IssuedTokens, TokensOf
  <2>6. ASSUME NEW i \in DOMAIN proc[r].applied
        PROVE  RestoreAnswers(target[r], {PermitOf(r)},
                              proc[r].applied[i].token,
                              proc[r].applied[i].key.original)
    <3> DEFINE token == proc[r].applied[i].token
               key == proc[r].applied[i].key
    <3>1. token \in AuthorizedTokens({PermitOf(r)})
      BY <2>3 DEF AuthorizedTokens, IssuedTokens
    <3>2. OriginalOf(s, token) = key.original
      BY <2>2, <2>4, TokenRestoresEntry
    <3>3. QED
      BY <2>2, <2>5, <3>1, <3>2 DEF RestoreAnswers, RestoresTo
  <2>7. QED
    BY <2>2, <2>5, <2>6
<1>2. QED
  BY <1>1, Invariance, PTL

\* What a sound processor has replaced, its session and permit restore.
LEMMA SoundResponses ==
    ASSUME TypeOK, \A r \in Requests : ProcessorSound(r)
    PROVE  ResponsesSelfContained
<1> SUFFICES ASSUME NEW r \in Requests
             PROVE  LET s == BuildSession(proc[r]) IN
                    /\ ValidSession(s)
                    /\ \A i \in DOMAIN proc[r].applied :
                         RestoresTo(s, {PermitOf(r)},
                                    proc[r].applied[i].token,
                                    proc[r].applied[i].key.original)
  BY DEF ResponsesSelfContained
<1> DEFINE s == BuildSession(proc[r])
<1>1. Consistent(proc[r]) /\ IsProcessor(proc[r])
  BY DEF TypeOK, ProcessorSound
<1>2. ValidSession(s)
  BY <1>1 DEF Consistent, TokensLabelled, ValidSession, BuildSession,
              IssuedTokens, TokensOf
<1>3. PermitAccepted(s, PermitOf(r))
  BY <1>2 DEF PermitAccepted, PermitOf, CreateRestorePermit, ValidSession
<1>4. ASSUME NEW i \in DOMAIN proc[r].applied
      PROVE  RestoresTo(s, {PermitOf(r)}, proc[r].applied[i].token,
                        proc[r].applied[i].key.original)
  <2> DEFINE a == proc[r].applied[i]
  <2>1. /\ a.key \in DOMAIN s.entries
        /\ s.entries[a.key].token = a.token
        /\ TokensDistinct(s.entries)
    BY <1>1, <1>2 DEF Consistent, BuildSession, ValidSession
  <2>2. OriginalOf(s, a.token) = a.key.original
    BY <2>1, TokenRestoresEntry
  <2>3. a.token \in AuthorizedTokens({PermitOf(r)})
    BY DEF AuthorizedTokens, PermitOf, CreateRestorePermit, BuildSession,
           IssuedTokens
  <2>4. QED
    BY <1>3, <2>2, <2>3 DEF RestoresTo
<1>5. QED
  BY <1>2, <1>4

\* The session and the permit of a response are good for each other.
THEOREM ResponsesStandAlone == Spec => []ResponsesSelfContained
<1>1. IInv => ResponsesSelfContained
  BY SoundResponses DEF IInv
<1>2. QED
  BY <1>1, Invariance, PTL

\* A save is applied only over the very session that its request loaded.
THEOREM NoLostUpdate == Spec => NoSilentOverwrite
<1>1. ASSUME IInv, [Next]_vars, NEW r \in Requests, ~Applied(r), Applied(r)'
      PROVE  store[target[r]] = base[r]
  <2>1. CASE UNCHANGED vars
    BY <1>1, <2>1 DEF vars, Applied
  <2>2. CASE Idle
    BY <1>1, <2>2 DEF Idle, vars, Applied
  <2>3. ASSUME NEW q \in Requests, RequestStep(q)
        PROVE  ExecuteSave(r) /\ VersionMatches(r)
    <3>1. script' # script
      BY <1>1 DEF Applied
    <3>2. script \in [Requests -> ScriptStates]
      BY <1>1 DEF IInv, TypeOK
    <3>3. CASE SendSave(q)
      BY <1>1, <3>2, <3>3 DEF SendSave, Applied
    <3>4. CASE LoseSave(q)
      BY <1>1, <3>2, <3>4 DEF LoseSave, Applied
    <3>5. CASE ExecuteSave(q)
      BY <1>1, <3>2, <3>5 DEF ExecuteSave, Applied
    <3>6. QED
      BY <2>3, <3>1, <3>3, <3>4, <3>5
         DEF RequestStep, Load, LoadUnavailable, FailBeforeSave, RedactFinding, SaveReply,
             SaveUnavailable, Respond, SecureFails, Abandon
  <2>4. QED
    BY <1>1, <2>1, <2>2, <2>3, MatchingVersionIsBase DEF Next
<1>2. IInv /\ [Next]_vars => [\A r \in Requests :
        ~Applied(r) /\ Applied(r)' => store[target[r]] = base[r]]_vars
  BY <1>1
<1>3. QED
  BY <1>2, Invariance, PTL DEF Spec, NoSilentOverwrite

\* Only an applied save changes the store.
LEMMA StoreChange ==
    ASSUME IInv, [Next]_vars, store' # store
    PROVE  \E r \in Requests : ExecuteSave(r) /\ VersionMatches(r)
<1>1. PICK r \in Requests : RequestStep(r)
  BY DEF Next, Idle, vars
<1>2. ExecuteSave(r) /\ VersionMatches(r)
  BY <1>1 DEF RequestStep, Load, LoadUnavailable, FailBeforeSave, RedactFinding, SendSave,
              ExecuteSave, LoseSave, SaveReply, SaveUnavailable, Respond,
              SecureFails, Abandon
<1>3. QED
  BY <1>2

\* A conversation keeps its scope, its tokens and its counts.
THEOREM ConversationsGrow == Spec => ConversationsOnlyGrow
<1> DEFINE Grows(e) ==
      store[e] # NoSession =>
        /\ store'[e] # NoSession
        /\ store'[e].session.scope = store[e].session.scope
        /\ Continues(store[e].session.entries, store'[e].session.entries)
<1>1. ASSUME IInv, [Next]_vars, NEW e \in ExternalIds PROVE Grows(e)
  <2>1. IsStoredSession(store[e]) \/ store[e] = NoSession
    BY <1>1 DEF IInv, TypeOK
  <2>2. CASE store' = store
    BY <2>1, <2>2, ContinuesReflexive DEF IsStoredSession, IsSession
  <2>3. CASE store' # store
    <3>1. PICK r \in Requests : ExecuteSave(r) /\ VersionMatches(r)
      BY <1>1, <2>3, StoreChange
    <3>2. /\ store' = [store EXCEPT ![target[r]] =
                         [session |-> BuildSession(proc[r]),
                          version |-> NextVersion(r)]]
          /\ store[target[r]] = base[r]
      BY <1>1, <3>1, MatchingVersionIsBase DEF ExecuteSave
    <3>3. CASE e # target[r]
      <4>1. store'[e] = store[e]
        BY <1>1, <3>2, <3>3 DEF IInv, TypeOK
      <4>2. QED
        BY <2>1, <4>1, ContinuesReflexive DEF IsStoredSession, IsSession
    <3>4. CASE e = target[r]
      <4>1. store'[e] = [session |-> BuildSession(proc[r]),
                         version |-> NextVersion(r)]
        BY <1>1, <3>2, <3>4 DEF IInv, TypeOK
      <4>2. store[e] # NoSession => NextVersion(r) \in Nat \ {0}
        BY <2>1, <3>2, <3>4 DEF NextVersion, IsStoredSession
      <4>3. store[e] # NoSession =>
              /\ proc[r].scope = store[e].session.scope
              /\ Continues(store[e].session.entries, proc[r].allocations)
        BY <1>1, <3>2, <3>4 DEF IInv, BuildsOnBase
      <4>4. QED
        BY <4>1, <4>2, <4>3, StoredIsNotNoSession DEF BuildSession
    <3>5. QED
      BY <3>3, <3>4
  <2>4. QED
    BY <2>2, <2>3
<1>2. IInv /\ [Next]_vars => [\A e \in ExternalIds : Grows(e)]_vars
  BY <1>1
<1>3. (\A e \in ExternalIds : Grows(e)) =>
        \A e \in ExternalIds : store[e] # NoSession =>
          /\ store'[e] # NoSession
          /\ store'[e].session.scope = store[e].session.scope
          /\ \A k \in DOMAIN store[e].session.entries :
               LET old == store[e].session.entries[k] IN
               /\ k \in DOMAIN store'[e].session.entries
               /\ store'[e].session.entries[k].token = old.token
               /\ store'[e].session.entries[k].occurrences >= old.occurrences
  BY DEF Continues
<1> HIDE DEF Grows
<1>4. QED
  BY <1>2, <1>3, Invariance, PTL DEF Spec, ConversationsOnlyGrow

--------------------------------------------------------------------------------
(***************************************************************************)
(* The count of occurrences                                                *)
(***************************************************************************)

\* The places at which a processor has replaced a value.
Places(p, k) == {i \in DOMAIN p.applied : p.applied[i].key = k}

CountIn(entries, k) == IF k \in DOMAIN entries THEN entries[k].occurrences ELSE 0

StoredCount(stored, k) ==
    IF stored = NoSession THEN 0 ELSE CountIn(stored.session.entries, k)

\* A processor has counted what its request loaded and what it has replaced.
ProcessorCounts(r) == \A k \in Keys :
    CountIn(proc[r].allocations, k)
        = StoredCount(base[r], k) + Cardinality(Places(proc[r], k))

\* The store has counted what the saved redactions have replaced.
ConversationCounts(e) == \A k \in Keys :
    /\ IsFiniteSet(SavedReplacements(e, k))
    /\ Cardinality(SavedReplacements(e, k)) = StoredCount(store[e], k)

CountsSound ==
    /\ \A r \in Requests : ProcessorCounts(r)
    /\ \A e \in ExternalIds : ConversationCounts(e)

\* Every place is a position of the applied replacements, so there are finitely
\* many of them.
LEMMA PlacesFinite ==
    ASSUME NEW p, IsProcessor(p), NEW k
    PROVE  IsFiniteSet(Places(p, k)) /\ Cardinality(Places(p, k)) \in Nat
<1>1. DOMAIN p.applied = 1..Len(p.applied) /\ Len(p.applied) \in Nat
  BY DEF IsProcessor
<1> DEFINE n == Len(p.applied)
<1>2. IsFiniteSet(1..n)
  <2>1. 1 \in Int /\ n \in Int
    BY <1>1
  <2> HIDE DEF n
  <2>2. QED
    BY <2>1, FS_Interval
<1>3. Places(p, k) \subseteq 1..Len(p.applied)
  BY <1>1 DEF Places
<1>4. IsFiniteSet(Places(p, k))
  BY <1>2, <1>3, FS_Subset
<1>5. QED
  BY <1>4, FS_CardinalityType

\* A count is a natural number.
LEMMA CountType ==
    ASSUME NEW entries, IsEntries(entries), NEW k
    PROVE  CountIn(entries, k) \in Nat
BY DEF CountIn, IsEntries, Allocation

\* A processor that has replaced nothing has no places.
LEMMA NoPlacesYet ==
    ASSUME NEW p, p.applied = <<>>, NEW k
    PROVE  Cardinality(Places(p, k)) = 0
<1>1. Places(p, k) = {}
  BY DEF Places
<1>2. QED
  BY <1>1, FS_EmptySet

\* Replacing a finding adds one to the count of its value, and one place.
LEMMA ReplaceFindingCounts ==
    ASSUME NEW p, IsProcessor(p), NEW key \in Keys, NEW k \in Keys
    PROVE  LET q == ReplaceFinding(p, key) IN
           \/ /\ k = key
              /\ CountIn(q.allocations, k) = CountIn(p.allocations, k) + 1
              /\ Cardinality(Places(q, k)) = Cardinality(Places(p, k)) + 1
           \/ /\ k # key
              /\ CountIn(q.allocations, k) = CountIn(p.allocations, k)
              /\ Cardinality(Places(q, k)) = Cardinality(Places(p, k))
<1> DEFINE q == ReplaceFinding(p, key)
           n == Len(p.applied)
<1>1. /\ p.applied \in Seq(AppliedReplacement)
      /\ DOMAIN p.applied = 1..n
      /\ n \in Nat
  BY DEF IsProcessor
<1>2. /\ DOMAIN q.allocations = DOMAIN p.allocations \cup {key}
      /\ q.allocations[key] = AllocationFor(p, key)
      /\ \A j \in DOMAIN p.allocations : j # key =>
            q.allocations[j] = p.allocations[j]
      /\ q.applied = Append(p.applied,
                        [key |-> key, token |-> AllocationFor(p, key).token])
  BY DEF ReplaceFinding
<1>3. /\ DOMAIN q.applied = 1..(n + 1)
      /\ q.applied[n + 1].key = key
      /\ \A i \in 1..n : q.applied[i] = p.applied[i]
  BY <1>1, <1>2
<1>4. CASE k = key
  <2>1. Places(q, k) = Places(p, k) \cup {n + 1}
    BY <1>1, <1>3, <1>4 DEF Places
  <2>2. n + 1 \notin Places(p, k)
    BY <1>1 DEF Places
  <2>3. Cardinality(Places(q, k)) = Cardinality(Places(p, k)) + 1
    BY <2>1, <2>2, PlacesFinite, FS_AddElement
  <2>4. CountIn(q.allocations, k) = CountIn(p.allocations, k) + 1
    BY <1>2, <1>4 DEF CountIn, AllocationFor
  <2>5. QED
    BY <1>4, <2>3, <2>4
<1>5. CASE k # key
  <2>1. Places(q, k) = Places(p, k)
    BY <1>1, <1>3, <1>5 DEF Places
  <2>2. CountIn(q.allocations, k) = CountIn(p.allocations, k)
    BY <1>2, <1>5 DEF CountIn
  <2>3. QED
    BY <1>5, <2>1, <2>2
<1>6. QED
  BY <1>4, <1>5

\* The saved replacements depend on the applied saves and their processors only.
LEMMA SavedReplacementsKept ==
    ASSUME UNCHANGED target,
           \A r \in Requests : /\ Applied(r)' <=> Applied(r)
                               /\ Applied(r) => proc'[r] = proc[r],
           NEW e, NEW k
    PROVE  SavedReplacements(e, k)' = SavedReplacements(e, k)
<1>1. {q \in Requests : Applied(q) /\ target[q] = e}'
        = {q \in Requests : Applied(q) /\ target[q] = e}
  OBVIOUS
<1>2. \A r \in {q \in Requests : Applied(q) /\ target[q] = e} :
        {<<r, i>> : i \in {j \in DOMAIN proc[r].applied :
                             proc[r].applied[j].key = k}}'
          = {<<r, i>> : i \in {j \in DOMAIN proc[r].applied :
                                 proc[r].applied[j].key = k}}
  OBVIOUS
<1>3. QED
  BY <1>1, <1>2 DEF SavedReplacements

LEMMA InitCounts == Init => CountsSound
<1> SUFFICES ASSUME Init PROVE CountsSound
  OBVIOUS
<1>1. ASSUME NEW r \in Requests PROVE ProcessorCounts(r)
  <2>1. /\ base[r] = NoSession
        /\ proc[r].allocations = [k \in {} |-> k]
        /\ proc[r].applied = <<>>
    BY DEF Init, NewProcessor
  <2>2. \A k \in Keys : CountIn(proc[r].allocations, k) = 0
    BY <2>1 DEF CountIn
  <2>3. \A k \in Keys : StoredCount(base[r], k) = 0
    BY <2>1 DEF StoredCount
  <2>4. \A k \in Keys : Cardinality(Places(proc[r], k)) = 0
    BY <2>1, NoPlacesYet
  <2>5. QED
    BY <2>2, <2>3, <2>4 DEF ProcessorCounts
<1>2. ASSUME NEW e \in ExternalIds PROVE ConversationCounts(e)
  <2>1. {q \in Requests : Applied(q) /\ target[q] = e} = {}
    BY DEF Init, Applied
  <2>2. \A k \in Keys : SavedReplacements(e, k) = {}
    BY <2>1 DEF SavedReplacements
  <2>3. \A k \in Keys : StoredCount(store[e], k) = 0
    BY DEF Init, StoredCount
  <2>4. QED
    BY <2>2, <2>3, FS_EmptySet DEF ConversationCounts
<1>3. QED
  BY <1>1, <1>2 DEF CountsSound

\* A step that saves nothing and leaves the processors alone keeps the counts.
LEMMA UncountedStep ==
    ASSUME CountsSound, UNCHANGED <<store, target, base, proc>>,
           \A r \in Requests : Applied(r)' <=> Applied(r)
    PROVE  CountsSound'
<1>1. \A r \in Requests : ProcessorCounts(r)'
  BY DEF CountsSound, ProcessorCounts, Places, StoredCount
<1>2. \A e \in ExternalIds, k \in Keys :
        SavedReplacements(e, k)' = SavedReplacements(e, k)
  BY SavedReplacementsKept
<1>3. \A e \in ExternalIds : ConversationCounts(e)'
  BY <1>2 DEF CountsSound, ConversationCounts, StoredCount
<1>4. QED
  BY <1>1, <1>3 DEF CountsSound

LEMMA LoadCounts ==
    ASSUME IInv, CountsSound, NEW r \in Requests, Load(r)
    PROVE  CountsSound'
<1> DEFINE latest == store[target[r]]
<1>1. /\ script[r] = "unsent"
      /\ base[r] = NoSession
      /\ UNCHANGED <<store, target, script>>
      /\ base' = [base EXCEPT ![r] = latest]
      /\ target[r] \in ExternalIds
  BY DEF Load, IInv, HandlerAndScript, TypeOK
<1>2. latest # NoSession => ValidPriorSession(latest.session, target[r])
  BY <1>1, StoredSessionValid DEF IInv
<1>3. \/ latest = NoSession /\ proc' = proc
      \/ /\ latest # NoSession
         /\ proc' = [proc EXCEPT ![r] =
                        WithPriorSession(latest.session, target[r])]
  BY <1>2 DEF Load
<1>4. /\ \A q \in Requests : q # r => base'[q] = base[q] /\ proc'[q] = proc[q]
      /\ base'[r] = latest
  BY <1>1, <1>3 DEF IInv, TypeOK
<1>5. ProcessorCounts(r)'
  <2>1. CASE latest = NoSession
    <3>1. base'[r] = base[r] /\ proc'[r] = proc[r]
      BY <1>1, <1>3, <1>4, <2>1
    <3>2. QED
      BY <3>1 DEF CountsSound, ProcessorCounts, Places, StoredCount
  <2>2. CASE latest # NoSession
    <3>1. /\ proc'[r].allocations = latest.session.entries
          /\ proc'[r].applied = <<>>
      BY <1>3, <2>2 DEF IInv, TypeOK, WithPriorSession
    <3>2. \A k \in Keys : /\ Cardinality(Places(proc'[r], k)) = 0
                          /\ CountIn(latest.session.entries, k) \in Nat
      BY <1>1, <2>2, <3>1, NoPlacesYet, CountType
         DEF IInv, TypeOK, IsStoredSession, IsSession
    <3>3. QED
      BY <1>4, <2>2, <3>1, <3>2 DEF ProcessorCounts, StoredCount
  <2>3. QED
    BY <2>1, <2>2
<1>6. \A q \in Requests : q # r => ProcessorCounts(q)'
  BY <1>4 DEF CountsSound, ProcessorCounts, Places, StoredCount
<1>7. \A q \in Requests : /\ Applied(q)' <=> Applied(q)
                          /\ Applied(q) => proc'[q] = proc[q]
  BY <1>1, <1>4 DEF Applied
<1>8. \A e \in ExternalIds, k \in Keys :
        SavedReplacements(e, k)' = SavedReplacements(e, k)
  BY <1>1, <1>7, SavedReplacementsKept
<1>9. \A e \in ExternalIds : ConversationCounts(e)'
  BY <1>1, <1>8 DEF CountsSound, ConversationCounts, StoredCount
<1>10. QED
  BY <1>5, <1>6, <1>9 DEF CountsSound

LEMMA RedactFindingCounts ==
    ASSUME IInv, CountsSound, NEW r \in Requests, NEW key \in Keys,
           RedactFinding(r, key)
    PROVE  CountsSound'
<1>1. /\ script[r] = "unsent"
      /\ UNCHANGED <<store, target, base, script>>
      /\ proc' = [proc EXCEPT ![r] = ReplaceFinding(proc[r], key)]
  BY DEF RedactFinding, IInv, HandlerAndScript
<1>2. /\ \A q \in Requests : q # r => proc'[q] = proc[q]
      /\ proc'[r] = ReplaceFinding(proc[r], key)
      /\ IsProcessor(proc[r])
  BY <1>1 DEF IInv, TypeOK
<1>3. ProcessorCounts(r)'
  <2> SUFFICES ASSUME NEW k \in Keys
               PROVE  CountIn(proc'[r].allocations, k)
                        = StoredCount(base[r], k) + Cardinality(Places(proc'[r], k))
    BY <1>1 DEF ProcessorCounts
  <2>1. /\ CountIn(proc[r].allocations, k)
             = StoredCount(base[r], k) + Cardinality(Places(proc[r], k))
        /\ Cardinality(Places(proc[r], k)) \in Nat
    BY <1>2, PlacesFinite DEF CountsSound, ProcessorCounts
  <2>2. StoredCount(base[r], k) \in Nat
    BY CountType DEF StoredCount, IInv, TypeOK, IsStoredSession, IsSession
  <2>3. QED
    BY <1>2, <2>1, <2>2, ReplaceFindingCounts
<1>4. \A q \in Requests : q # r => ProcessorCounts(q)'
  BY <1>1, <1>2 DEF CountsSound, ProcessorCounts, Places, StoredCount
<1>5. \A q \in Requests : /\ Applied(q)' <=> Applied(q)
                          /\ Applied(q) => proc'[q] = proc[q]
  BY <1>1, <1>2 DEF Applied
<1>6. \A e \in ExternalIds, k \in Keys :
        SavedReplacements(e, k)' = SavedReplacements(e, k)
  BY <1>1, <1>5, SavedReplacementsKept
<1>7. \A e \in ExternalIds : ConversationCounts(e)'
  BY <1>1, <1>6 DEF CountsSound, ConversationCounts, StoredCount
<1>8. QED
  BY <1>3, <1>4, <1>7 DEF CountsSound

\* An applied save adds exactly the places of its processor.
LEMMA SaveCounts ==
    ASSUME IInv, CountsSound, NEW r \in Requests, ExecuteSave(r), VersionMatches(r)
    PROVE  CountsSound'
<1> DEFINE e == target[r]
           new == [session |-> BuildSession(proc[r]), version |-> NextVersion(r)]
           Pairs(k) == {<<r, i>> : i \in Places(proc[r], k)}
<1>1. /\ script[r] = "sent"
      /\ script' = [script EXCEPT ![r] = "applied"]
      /\ store' = [store EXCEPT ![e] = new]
      /\ UNCHANGED <<target, pc, base, proc>>
      /\ e \in ExternalIds
      /\ store[e] = base[r]
      /\ IsProcessor(proc[r])
  BY MatchingVersionIsBase DEF ExecuteSave, IInv, TypeOK
<1>2. /\ store'[e] = new
      /\ \A f \in ExternalIds : f # e => store'[f] = store[f]
  BY <1>1 DEF IInv, TypeOK
<1>3. new # NoSession
  <2>1. NextVersion(r) \in Nat \ {0}
    BY DEF NextVersion, IInv, TypeOK, IsStoredSession
  <2>2. QED
    BY <2>1, StoredIsNotNoSession
<1>4. {q \in Requests : Applied(q)}' = {q \in Requests : Applied(q)} \cup {r}
  BY <1>1 DEF Applied, IInv, TypeOK
<1>5. ~Applied(r)
  BY <1>1 DEF Applied
<1>6. \A q \in Requests : ProcessorCounts(q)'
  BY <1>1 DEF CountsSound, ProcessorCounts, Places, StoredCount
<1>7. ASSUME NEW f \in ExternalIds, f # e PROVE ConversationCounts(f)'
  <2>1. {q \in Requests : Applied(q) /\ target[q] = f}'
          = {q \in Requests : Applied(q) /\ target[q] = f}
    BY <1>1, <1>4, <1>7
  <2>2. \A k \in Keys : SavedReplacements(f, k)' = SavedReplacements(f, k)
    BY <1>1, <2>1 DEF SavedReplacements
  <2>3. QED
    BY <1>2, <1>7, <2>2 DEF CountsSound, ConversationCounts, StoredCount
<1>8. ASSUME NEW k \in Keys
      PROVE  /\ IsFiniteSet(SavedReplacements(e, k)')
             /\ Cardinality(SavedReplacements(e, k)') = StoredCount(store'[e], k)
  <2>1. {q \in Requests : Applied(q) /\ target[q] = e}'
          = {q \in Requests : Applied(q) /\ target[q] = e} \cup {r}
    BY <1>1, <1>4
  <2>2. SavedReplacements(e, k)' = SavedReplacements(e, k) \cup Pairs(k)
    BY <1>1, <2>1 DEF SavedReplacements, Places
  <2>3. \A pair \in SavedReplacements(e, k) : pair \notin Pairs(k)
    <3>1. \A pair \in SavedReplacements(e, k) : pair[1] # r
      BY <1>5 DEF SavedReplacements
    <3>2. \A pair \in Pairs(k) : pair[1] = r
      OBVIOUS
    <3>3. QED
      BY <3>1, <3>2
  <2>4. /\ IsFiniteSet(Places(proc[r], k))
        /\ Cardinality(Places(proc[r], k)) \in Nat
    BY <1>1, PlacesFinite
  <2>5. ExistsBijection(Places(proc[r], k), Pairs(k))
    <3> DEFINE pairing == [i \in Places(proc[r], k) |-> <<r, i>>]
    <3>1. pairing \in Bijection(Places(proc[r], k), Pairs(k))
      BY DEF Bijection, Injection, Surjection, IsInjective
    <3>2. QED
      BY <3>1 DEF ExistsBijection
  <2>6. /\ IsFiniteSet(Pairs(k))
        /\ Cardinality(Pairs(k)) = Cardinality(Places(proc[r], k))
    BY <2>4, <2>5, FS_Bijection
  <2>7. /\ IsFiniteSet(SavedReplacements(e, k))
        /\ Cardinality(SavedReplacements(e, k)) = StoredCount(base[r], k)
        /\ Cardinality(SavedReplacements(e, k)) \in Nat
    BY <1>1, FS_CardinalityType DEF CountsSound, ConversationCounts
  <2>8. SavedReplacements(e, k) \cap Pairs(k) = {}
    BY <2>3
  <2>9. /\ IsFiniteSet(SavedReplacements(e, k) \cup Pairs(k))
        /\ Cardinality(SavedReplacements(e, k) \cup Pairs(k))
             = StoredCount(base[r], k) + Cardinality(Places(proc[r], k))
    <3> DEFINE Earlier == SavedReplacements(e, k)
    <3>1. Cardinality(Earlier \cap Pairs(k)) = 0
      BY <2>8, FS_EmptySet
    <3> HIDE DEF Pairs, Earlier
    <3>2. /\ IsFiniteSet(Earlier \cup Pairs(k))
          /\ Cardinality(Earlier \cup Pairs(k))
               = Cardinality(Earlier) + Cardinality(Pairs(k))
                   - Cardinality(Earlier \cap Pairs(k))
      BY <2>6, <2>7, FS_Union DEF Earlier
    <3>3. QED
      BY <2>4, <2>6, <2>7, <3>1, <3>2 DEF Earlier
  <2>10. StoredCount(store'[e], k) = CountIn(proc[r].allocations, k)
    BY <1>2, <1>3 DEF StoredCount, BuildSession
  <2>11. CountIn(proc[r].allocations, k)
           = StoredCount(base[r], k) + Cardinality(Places(proc[r], k))
    BY DEF CountsSound, ProcessorCounts
  <2>12. QED
    BY <2>2, <2>9, <2>10, <2>11
<1>9. ConversationCounts(e)'
  BY <1>1, <1>8 DEF ConversationCounts
<1>10. QED
  BY <1>1, <1>6, <1>7, <1>9 DEF CountsSound

LEMMA NextCounts == IInv /\ CountsSound /\ [Next]_vars => CountsSound'
<1> SUFFICES ASSUME IInv, CountsSound, [Next]_vars PROVE CountsSound'
  OBVIOUS
<1>1. CASE UNCHANGED vars
  <2>1. UNCHANGED <<store, target, base, proc, script>>
    BY <1>1 DEF vars
  <2>2. QED
    BY <2>1, UncountedStep DEF Applied
<1>2. ASSUME NEW r \in Requests, RequestStep(r) PROVE CountsSound'
  <2>1. script \in [Requests -> ScriptStates]
    BY DEF IInv, TypeOK
  <2>2. CASE Load(r)
    BY <2>2, LoadCounts
  <2>3. CASE \E key \in Keys : RedactFinding(r, key)
    BY <2>3, RedactFindingCounts
  <2>4. CASE SendSave(r)
    <3>1. script[r] = "unsent"
      BY <2>4 DEF SendSave, IInv, HandlerAndScript
    <3>2. QED
      BY <2>1, <2>4, <3>1, UncountedStep DEF SendSave, Applied
  <2>5. CASE ExecuteSave(r)
    <3>1. CASE VersionMatches(r)
      BY <2>5, <3>1, SaveCounts
    <3>2. CASE ~VersionMatches(r)
      BY <2>1, <2>5, <3>2, UncountedStep DEF ExecuteSave, Applied
    <3>3. QED
      BY <3>1, <3>2
  <2>6. CASE LoseSave(r)
    BY <2>1, <2>6, UncountedStep DEF LoseSave, Applied
  <2>7. CASE \/ LoadUnavailable(r) \/ FailBeforeSave(r) \/ SaveReply(r)
             \/ SaveUnavailable(r) \/ Respond(r) \/ SecureFails(r) \/ Abandon(r)
    <3>1. UNCHANGED <<store, target, base, proc, script>>
      BY <2>7 DEF LoadUnavailable, FailBeforeSave, SaveReply, SaveUnavailable,
                  Respond, SecureFails, Abandon
    <3>2. QED
      BY <3>1, UncountedStep DEF Applied
  <2>8. QED
    BY <1>2, <2>2, <2>3, <2>4, <2>5, <2>6, <2>7 DEF RequestStep
<1>3. QED
  BY <1>1, <1>2 DEF Next, Idle

\* However requests interleave, fail and are retried by their clients, a stored
\* session counts every saved replacement of the conversation once.
THEOREM OccurrencesCounted == Spec => []OccurrencesExact
<1>1. Init => CountsSound
  BY InitCounts
<1>2. IInv /\ CountsSound /\ [Next]_vars => CountsSound'
  BY NextCounts
<1>3. IInv /\ CountsSound => OccurrencesExact
  <2> SUFFICES ASSUME IInv, CountsSound,
                      NEW e \in ExternalIds, store[e] # NoSession,
                      NEW k \in DOMAIN store[e].session.entries
               PROVE  store[e].session.entries[k].occurrences
                        = Cardinality(SavedReplacements(e, k))
    BY DEF OccurrencesExact
  <2>1. k \in Keys
    BY DEF IInv, TypeOK, IsStoredSession, IsSession, IsEntries
  <2>2. QED
    BY <2>1 DEF CountsSound, ConversationCounts, StoredCount, CountIn
<1>4. QED
  BY <1>1, <1>2, <1>3, Invariance, PTL DEF Spec

--------------------------------------------------------------------------------
(***************************************************************************)
(* Implementation of the abstract specification                            *)
(***************************************************************************)

\* A step that touches none of what the mapping reads is a stuttering step.
LEMMA StutteringStep ==
    ASSUME UNCHANGED <<store, target>>,
           \A r \in Requests :
                /\ Applied(r)' <=> Applied(r)
                /\ pc'[r] = "responded" <=> pc[r] = "responded"
                /\ pc[r] = "responded" => proc'[r] = proc[r]
    PROVE  UNCHANGED Atomic!vars
<1>1. [e \in ExternalIds |-> DictionaryOf(e)]' = [e \in ExternalIds |-> DictionaryOf(e)]
  BY DEF DictionaryOf
<1>2. {r \in Requests : Applied(r)}' = {r \in Requests : Applied(r)}
  OBVIOUS
<1>3. {q \in Requests : pc[q] = "responded"}' = {q \in Requests : pc[q] = "responded"}
  OBVIOUS
<1>4. \A r \in Requests : pc[r] = "responded" => AnswerOf(r)' = AnswerOf(r)
  BY DEF AnswerOf
<1>5. [r \in {q \in Requests : pc[q] = "responded"} |-> AnswerOf(r)]'
        = [r \in {q \in Requests : pc[q] = "responded"} |-> AnswerOf(r)]
  BY <1>3, <1>4
<1>6. QED
  BY <1>1, <1>2, <1>5 DEF Atomic!vars

\* The dictionaries never use one token for two values.
LEMMA DictionariesUnambiguous ==
    IInv => Atomic!Unambiguous([e \in ExternalIds |-> DictionaryOf(e)])
<1> SUFFICES ASSUME IInv,
                    NEW d \in ExternalIds, NEW e \in ExternalIds,
                    NEW k \in DOMAIN DictionaryOf(d),
                    NEW j \in DOMAIN DictionaryOf(e),
                    DictionaryOf(d)[k] = DictionaryOf(e)[j]
             PROVE  d = e /\ k = j
  BY DEF Atomic!Unambiguous
<1>1. store[d] # NoSession /\ store[e] # NoSession
  BY DEF DictionaryOf
<1>2. /\ k \in DOMAIN store[d].session.entries
      /\ j \in DOMAIN store[e].session.entries
      /\ store[d].session.entries[k].token = store[e].session.entries[j].token
  BY <1>1 DEF DictionaryOf
<1>3. /\ TokensLabelled(store[d].session.entries, store[d].session.scope)
      /\ TokensLabelled(store[e].session.entries, store[e].session.scope)
      /\ TokensDistinct(store[d].session.entries)
      /\ target[store[d].session.scope] = d
      /\ target[store[e].session.scope] = e
  BY <1>1 DEF IInv, StoreSound
<1>4. d = e
  BY <1>2, <1>3 DEF TokensLabelled
<1>5. QED
  BY <1>2, <1>3, <1>4 DEF TokensDistinct

LEMMA DictionariesStayUnambiguous ==
    IInv' => Atomic!Unambiguous([e \in ExternalIds |-> DictionaryOf(e)])'
  BY DictionariesUnambiguous, PTL

\* An applied save is the atomic commit of its request.
LEMMA CommitStep ==
    ASSUME IInv, IInv', NEW r \in Requests, ExecuteSave(r), VersionMatches(r)
    PROVE  Atomic!Commit(r)
<1> DEFINE new == [session |-> BuildSession(proc[r]), version |-> NextVersion(r)]
           e == target[r]
<1>1. /\ script[r] = "sent"
      /\ script' = [script EXCEPT ![r] = "applied"]
      /\ store' = [store EXCEPT ![e] = new]
      /\ UNCHANGED <<target, pc, base, proc>>
      /\ store[e] = base[r]
      /\ e \in ExternalIds
      /\ DOMAIN store = ExternalIds
  BY MatchingVersionIsBase DEF ExecuteSave, IInv, TypeOK
<1>2. {q \in Requests : Applied(q)}' = {q \in Requests : Applied(q)} \cup {r}
  BY <1>1 DEF Applied, IInv, TypeOK
<1>3. r \notin {q \in Requests : Applied(q)}
  BY <1>1 DEF Applied
<1>4. \A f \in ExternalIds : f # e => DictionaryOf(f)' = DictionaryOf(f)
  BY <1>1 DEF DictionaryOf
<1>5. Atomic!ExtendedBy(DictionaryOf(e), DictionaryOf(e)')
  <2>1. CASE store[e] = NoSession
    BY <2>1 DEF Atomic!ExtendedBy, DictionaryOf
  <2>2. CASE store[e] # NoSession
    <3>1. /\ Continues(store[e].session.entries, proc[r].allocations)
          /\ NextVersion(r) \in Nat \ {0}
      BY <1>1, <2>2 DEF IInv, TypeOK, BuildsOnBase, NextVersion, IsStoredSession
    <3>2. store'[e] = new /\ new # NoSession
      BY <1>1, <3>1, StoredIsNotNoSession
    <3>3. DictionaryOf(e)' = [k \in DOMAIN proc[r].allocations |->
                                proc[r].allocations[k].token]
      BY <1>1, <3>2 DEF DictionaryOf, BuildSession
    <3>4. DictionaryOf(e) = [k \in DOMAIN store[e].session.entries |->
                                store[e].session.entries[k].token]
      BY <2>2 DEF DictionaryOf
    <3>5. QED
      BY <3>1, <3>3, <3>4 DEF Atomic!ExtendedBy, Continues
  <2>3. QED
    BY <2>1, <2>2
<1>6. Atomic!Unambiguous([f \in ExternalIds |-> DictionaryOf(f)])'
  BY DictionariesStayUnambiguous
<1>7. UNCHANGED [q \in {x \in Requests : pc[x] = "responded"} |-> AnswerOf(q)]
  BY <1>1 DEF AnswerOf
<1>8. QED
  BY <1>1, <1>2, <1>3, <1>4, <1>5, <1>6, <1>7 DEF Atomic!Commit

\* A response is an answer from the dictionary of its conversation.
LEMMA AnswerStep ==
    ASSUME IInv, NEW r \in Requests, Respond(r)
    PROVE  Atomic!Answer(r)
<1> DEFINE e == target[r]
           Told == [q \in {x \in Requests : pc[x] = "responded"} |-> AnswerOf(q)]
<1>1. /\ pc[r] = "securing"
      /\ pc' = [pc EXCEPT ![r] = "responded"]
      /\ UNCHANGED <<store, target, base, proc, script>>
      /\ e \in ExternalIds
      /\ pc \in [Requests -> ActiveStates \cup EndStates]
  BY DEF Respond, IInv, TypeOK
<1>2. Applied(r)
  BY <1>1 DEF IInv, HandlerAndScript
<1>3. {x \in Requests : pc[x] = "responded"}'
        = {x \in Requests : pc[x] = "responded"} \cup {r}
  BY <1>1
<1>4. DOMAIN Told' = DOMAIN Told \cup {r} /\ r \notin DOMAIN Told
  BY <1>1, <1>3
<1>5. Atomic!ExtendedBy(Told, Told')
  BY <1>1, <1>3 DEF Atomic!ExtendedBy, AnswerOf
<1>6. Told'[r] \subseteq Atomic!Meanings(DictionaryOf(e))
  <2>1. Told'[r] = AnswerOf(r)
    BY <1>1, <1>3 DEF AnswerOf
  <2>2. /\ store[e] # NoSession
        /\ Continues(proc[r].allocations, store[e].session.entries)
    BY <1>2 DEF IInv, AppliedContained
  <2>3. ASSUME NEW i \in DOMAIN proc[r].applied
        PROVE  LET a == proc[r].applied[i] IN
               /\ a.key \in DOMAIN store[e].session.entries
               /\ store[e].session.entries[a.key].token = a.token
    BY <2>2 DEF IInv, ProcessorSound, Consistent, Continues
  <2>4. DictionaryOf(e) = [k \in DOMAIN store[e].session.entries |->
                             store[e].session.entries[k].token]
    BY <2>2 DEF DictionaryOf
  <2>5. ASSUME NEW i \in DOMAIN proc[r].applied
        PROVE  <<proc[r].applied[i].token, proc[r].applied[i].key>>
                 \in Atomic!Meanings(DictionaryOf(e))
    <3> DEFINE a == proc[r].applied[i]
               D == DictionaryOf(e)
    <3>1. a.key \in DOMAIN D /\ D[a.key] = a.token
      BY <2>3, <2>4
    <3>2. <<D[a.key], a.key>> \in Atomic!Meanings(D)
      BY <3>1 DEF Atomic!Meanings
    <3>3. QED
      BY <3>1, <3>2
  <2>6. QED
    BY <2>1, <2>5 DEF AnswerOf
<1>7. UNCHANGED [f \in ExternalIds |-> DictionaryOf(f)]
  BY <1>1 DEF DictionaryOf
<1>8. UNCHANGED {q \in Requests : Applied(q)}
  BY <1>1 DEF Applied
<1>9. QED
  BY <1>1, <1>2, <1>4, <1>5, <1>6, <1>7, <1>8 DEF Atomic!Answer

\* Every step of a request is a step of the abstract specification.
LEMMA AbstractStep ==
    ASSUME IInv, IInv', NEW r \in Requests, RequestStep(r)
    PROVE  Atomic!Next \/ UNCHANGED Atomic!vars
<1> USE DEF Applied
<1>0. /\ pc \in [Requests -> ActiveStates \cup EndStates]
      /\ script \in [Requests -> ScriptStates]
      /\ DOMAIN proc = Requests
  BY DEF IInv, TypeOK
<1>1. CASE Load(r)
  BY <1>0, <1>1, StutteringStep DEF Load
<1>2. CASE LoadUnavailable(r)
  BY <1>0, <1>2, StutteringStep DEF LoadUnavailable
<1>3. CASE \E key \in Keys : RedactFinding(r, key)
  BY <1>0, <1>3, StutteringStep DEF RedactFinding
<1>4. CASE SendSave(r)
  <2>1. script[r] # "applied"
    BY <1>4 DEF SendSave, IInv, HandlerAndScript
  <2>2. QED
    BY <1>0, <1>4, <2>1, StutteringStep DEF SendSave
<1>5. CASE ExecuteSave(r)
  <2>1. CASE VersionMatches(r)
    BY <1>5, <2>1, CommitStep DEF Atomic!Next
  <2>2. CASE ~VersionMatches(r)
    BY <1>0, <1>5, <2>2, StutteringStep DEF ExecuteSave
  <2>3. QED
    BY <2>1, <2>2
<1>6. CASE LoseSave(r)
  BY <1>0, <1>6, StutteringStep DEF LoseSave
<1>7. CASE SaveReply(r)
  BY <1>0, <1>7, StutteringStep DEF SaveReply
<1>8. CASE SaveUnavailable(r)
  BY <1>0, <1>8, StutteringStep DEF SaveUnavailable
<1>9. CASE Respond(r)
  BY <1>9, AnswerStep DEF Atomic!Next
<1>10. CASE SecureFails(r)
  BY <1>0, <1>10, StutteringStep DEF SecureFails
<1>11. CASE Abandon(r)
  BY <1>0, <1>11, StutteringStep DEF Abandon, ActiveStates
<1>12. CASE FailBeforeSave(r)
  BY <1>0, <1>12, StutteringStep DEF FailBeforeSave
<1>13. QED
  BY <1>1, <1>2, <1>3, <1>4, <1>5, <1>6, <1>7, <1>8, <1>9, <1>10, <1>11, <1>12
     DEF RequestStep

\* Load, redact, compare-and-set save and response implement one atomic update
\* of the dictionary of a conversation, followed by an answer from it.
THEOREM Refinement == Spec => ImplementsConversations
<1>1. Init => Atomic!Init
  <2> SUFFICES ASSUME Init PROVE Atomic!Init
    OBVIOUS
  <2>1. \A e \in ExternalIds : DictionaryOf(e) = [k \in {} |-> k]
    BY DEF Init, DictionaryOf
  <2>2. {r \in Requests : Applied(r)} = {}
    BY DEF Init, Applied
  <2>3. {q \in Requests : pc[q] = "responded"} = {}
    BY DEF Init
  <2>4. [r \in {q \in Requests : pc[q] = "responded"} |-> AnswerOf(r)]
          = [r \in {} |-> r]
    BY <2>3
  <2>5. QED
    BY <2>1, <2>2, <2>4 DEF Init, Atomic!Init
<1>2. IInv /\ IInv' /\ [Next]_vars => [Atomic!Next]_(Atomic!vars)
  <2> SUFFICES ASSUME IInv, IInv', [Next]_vars
               PROVE  Atomic!Next \/ UNCHANGED Atomic!vars
    OBVIOUS
  <2>1. CASE \E r \in Requests : RequestStep(r)
    BY <2>1, AbstractStep
  <2>2. CASE UNCHANGED vars
    BY <2>2, StutteringStep DEF vars, Applied
  <2>3. QED
    BY <2>1, <2>2 DEF Next, Idle
<1>3. QED
  BY <1>1, <1>2, Invariance, PTL DEF Spec, ImplementsConversations, Atomic!Spec

--------------------------------------------------------------------------------
(***************************************************************************)
(* A store that lets its keys expire                                       *)
(*                                                                         *)
(* When keys expire, versions no longer say which session a request has    *)
(* loaded, and a conversation may start again under another scope.  What   *)
(* remains is that each processor and each stored session is sound by      *)
(* itself, whatever the store has held before.                             *)
(***************************************************************************)

\* The inductive invariant.
SoundInv ==
    /\ TypeOK
    /\ \A r \in Requests : ProcessorSound(r)
    /\ \A e \in ExternalIds : StoreSound(e)

\* The handler continues a sound session with a sound processor.
LEMMA ExpiringLoad ==
    ASSUME SoundInv, NEW r \in Requests, Load(r)
    PROVE  SoundInv'
<1> DEFINE e == target[r]
           latest == store[e]
<1>1. /\ e \in ExternalIds
      /\ UNCHANGED <<store, target, script>>
      /\ base' = [base EXCEPT ![r] = latest]
      /\ pc' \in [Requests -> ActiveStates \cup EndStates]
  BY DEF Load, SoundInv, TypeOK, ActiveStates, EndStates
<1>2. latest # NoSession => IsStoredSession(latest)
  BY <1>1 DEF SoundInv, TypeOK
<1>3. \/ proc' = proc
      \/ /\ latest # NoSession
         /\ proc' = [proc EXCEPT ![r] = WithPriorSession(latest.session, e)]
  BY DEF Load
<1>4. \A q \in Requests : q # r => base'[q] = base[q] /\ proc'[q] = proc[q]
  BY <1>1, <1>3 DEF SoundInv, TypeOK
<1>5. /\ IsProcessor(proc'[r])
      /\ Consistent(proc'[r])
      /\ proc'[r].ext = e
      /\ target[proc'[r].scope] = e
  <2>1. CASE proc' = proc
    BY <2>1 DEF SoundInv, TypeOK, ProcessorSound
  <2>2. CASE /\ latest # NoSession
             /\ proc' = [proc EXCEPT ![r] = WithPriorSession(latest.session, e)]
    <3>1. proc'[r] = WithPriorSession(latest.session, e)
      BY <2>2 DEF SoundInv, TypeOK
    <3>2. IsSession(latest.session)
      BY <1>2, <2>2 DEF IsStoredSession
    <3>3. /\ latest.session.ext = e
          /\ target[latest.session.scope] = e
          /\ TokensLabelled(latest.session.entries, latest.session.scope)
          /\ TokensDistinct(latest.session.entries)
          /\ \A kind \in Kinds : HasLargestCounter(latest.session.entries, kind)
      BY <1>1, <2>2 DEF SoundInv, StoreSound
    <3>4. IsProcessor(proc'[r]) /\ Consistent(proc'[r])
      BY <1>1, <3>1, <3>2, <3>3, WithPriorSessionConsistent DEF ExternalIdOption
    <3>5. proc'[r].scope = latest.session.scope /\ proc'[r].ext = e
      BY <3>1, <3>3 DEF WithPriorSession
    <3>6. QED
      BY <3>3, <3>4, <3>5
  <2>3. QED
    BY <1>3, <2>1, <2>2
<1>6. TypeOK'
  <2>1. DOMAIN base' = Requests /\ DOMAIN proc' = Requests
    BY <1>1, <1>3 DEF SoundInv, TypeOK
  <2>2. \A q \in Requests : IsProcessor(proc'[q])
    BY <1>4, <1>5 DEF SoundInv, TypeOK
  <2>3. base'[r] = latest
    BY <1>1 DEF SoundInv, TypeOK
  <2>4. \A q \in Requests : base'[q] = NoSession \/ IsStoredSession(base'[q])
    BY <1>2, <1>4, <2>3 DEF SoundInv, TypeOK
  <2>5. QED
    BY <1>1, <2>1, <2>2, <2>4 DEF SoundInv, TypeOK
<1>7. \A q \in Requests : ProcessorSound(q)'
  BY <1>1, <1>4, <1>5 DEF SoundInv, ProcessorSound
<1>8. \A f \in ExternalIds : StoreSound(f)'
  BY <1>1 DEF SoundInv, StoreSound
<1>9. QED
  BY <1>6, <1>7, <1>8 DEF SoundInv

\* Replacing a finding keeps the processor sound.
LEMMA ExpiringFinding ==
    ASSUME SoundInv, NEW r \in Requests, NEW key \in Keys, RedactFinding(r, key)
    PROVE  SoundInv'
<1>1. /\ UNCHANGED <<store, target, pc, base, script>>
      /\ proc' = [proc EXCEPT ![r] = ReplaceFinding(proc[r], key)]
  BY DEF RedactFinding
<1>2. /\ \A q \in Requests : q # r => proc'[q] = proc[q]
      /\ proc'[r] = ReplaceFinding(proc[r], key)
      /\ DOMAIN proc' = Requests
  BY <1>1 DEF SoundInv, TypeOK
<1>3. IsProcessor(proc[r]) /\ Consistent(proc[r])
  BY DEF SoundInv, TypeOK, ProcessorSound
<1>4. IsProcessor(proc'[r]) /\ Consistent(proc'[r])
  BY <1>2, <1>3, ReplaceFindingConsistent
<1>5. proc'[r].scope = proc[r].scope /\ proc'[r].ext = proc[r].ext
  BY <1>2 DEF ReplaceFinding
<1>6. TypeOK'
  BY <1>1, <1>2, <1>4 DEF SoundInv, TypeOK
<1>7. \A q \in Requests : ProcessorSound(q)'
  BY <1>1, <1>2, <1>4, <1>5 DEF SoundInv, ProcessorSound
<1>8. QED
  BY <1>1, <1>6, <1>7 DEF SoundInv, StoreSound

\* What is stored was built by a sound processor, even where it overwrites.
LEMMA ExpiringSave ==
    ASSUME SoundInv, NEW r \in Requests, ExecuteSave(r)
    PROVE  SoundInv'
<1> DEFINE e == target[r]
           new == [session |-> BuildSession(proc[r]), version |-> NextVersion(r)]
<1>1. /\ UNCHANGED <<target, pc, base, proc>>
      /\ script' \in [Requests -> ScriptStates]
      /\ e \in ExternalIds
  BY DEF ExecuteSave, SoundInv, TypeOK, ScriptStates
<1>2. IsProcessor(proc[r]) /\ Consistent(proc[r])
  BY DEF SoundInv, TypeOK, ProcessorSound
<1>3. /\ IsSession(BuildSession(proc[r]))
      /\ IssuedTokens(proc[r]) \subseteq TokensOf(proc[r].allocations)
      /\ \A kind \in Kinds : HasLargestCounter(proc[r].allocations, kind)
  BY <1>2, BuildSessionSound
<1>4. NextVersion(r) \in Nat \ {0}
  BY DEF NextVersion, SoundInv, TypeOK, IsStoredSession
<1>5. IsStoredSession(new)
  BY <1>3, <1>4 DEF IsStoredSession
<1>6. \/ store' = store
      \/ store' = [store EXCEPT ![e] = new]
  BY DEF ExecuteSave
<1>7. TypeOK'
  BY <1>1, <1>5, <1>6 DEF SoundInv, TypeOK
<1>8. ASSUME NEW f \in ExternalIds PROVE StoreSound(f)'
  <2>1. CASE store'[f] = store[f]
    BY <1>1, <2>1 DEF SoundInv, StoreSound
  <2>2. CASE f = e /\ store'[f] = new
    <3>1. /\ new.session.ext = f
          /\ target[new.session.scope] = f
          /\ new.session.scope = proc[r].scope
          /\ new.session.entries = proc[r].allocations
          /\ new.session.issued = IssuedTokens(proc[r])
      BY <2>2 DEF BuildSession, SoundInv, ProcessorSound
    <3>2. QED
      BY <1>1, <1>2, <1>3, <2>2, <3>1 DEF StoreSound, Consistent
  <2>3. QED
    BY <1>6, <2>1, <2>2 DEF SoundInv, TypeOK
<1>9. \A q \in Requests : ProcessorSound(q)'
  BY <1>1 DEF SoundInv, ProcessorSound
<1>10. QED
  BY <1>7, <1>8, <1>9 DEF SoundInv

\* The other steps change neither a processor nor what is stored, unless a key
\* expires.
LEMMA ExpiringOther ==
    ASSUME SoundInv,
           UNCHANGED <<target, base, proc>>,
           pc' \in [Requests -> ActiveStates \cup EndStates],
           script' \in [Requests -> ScriptStates],
           DOMAIN store' = ExternalIds,
           \A e \in ExternalIds : store'[e] \in {store[e], NoSession}
    PROVE  SoundInv'
<1>1. TypeOK'
  BY DEF SoundInv, TypeOK
<1>2. \A q \in Requests : ProcessorSound(q)'
  BY DEF SoundInv, ProcessorSound
<1>3. \A e \in ExternalIds : StoreSound(e)'
  BY DEF SoundInv, StoreSound
<1>4. QED
  BY <1>1, <1>2, <1>3 DEF SoundInv

LEMMA ExpiringStep == SoundInv /\ [NextWithTtl]_vars => SoundInv'
<1> SUFFICES ASSUME SoundInv, [NextWithTtl]_vars PROVE SoundInv'
  OBVIOUS
<1>1. TypeOK
  BY DEF SoundInv
<1>2. CASE \E r \in Requests : RequestStep(r)
  <2>1. PICK r \in Requests : RequestStep(r)
    BY <1>2
  <2>2. CASE Load(r)
    BY <2>2, ExpiringLoad
  <2>3. CASE \E key \in Keys : RedactFinding(r, key)
    BY <2>3, ExpiringFinding
  <2>4. CASE ExecuteSave(r)
    BY <2>4, ExpiringSave
  <2>5. CASE \/ LoadUnavailable(r) \/ FailBeforeSave(r) \/ SaveReply(r)
             \/ SaveUnavailable(r) \/ Respond(r) \/ SecureFails(r) \/ Abandon(r)
    <3>1. /\ UNCHANGED <<store, target, base, proc, script>>
          /\ pc' \in [Requests -> ActiveStates \cup EndStates]
      BY <1>1, <2>5 DEF TypeOK, LoadUnavailable, FailBeforeSave, SaveReply,
         SaveUnavailable, Respond, SecureFails, Abandon, ActiveStates, EndStates
    <3>2. QED
      BY <1>1, <3>1, ExpiringOther DEF TypeOK
  <2>6. CASE SendSave(r) \/ LoseSave(r)
    <3>1. /\ UNCHANGED <<store, target, base, proc>>
          /\ pc' \in [Requests -> ActiveStates \cup EndStates]
          /\ script' \in [Requests -> ScriptStates]
      BY <1>1, <2>6 DEF TypeOK, SendSave, LoseSave, ActiveStates, ScriptStates
    <3>2. QED
      BY <1>1, <3>1, ExpiringOther DEF TypeOK
  <2>7. QED
    BY <2>1, <2>2, <2>3, <2>4, <2>5, <2>6 DEF RequestStep
<1>3. CASE \E e \in ExternalIds : Expire(e)
  <2>1. PICK e \in ExternalIds : Expire(e)
    BY <1>3
  <2>2. /\ UNCHANGED <<target, pc, base, proc, script>>
        /\ store' = [store EXCEPT ![e] = NoSession]
    BY <2>1 DEF Expire
  <2>3. QED
    BY <1>1, <2>2, ExpiringOther DEF TypeOK
<1>4. CASE UNCHANGED vars
  BY <1>1, <1>4, ExpiringOther DEF vars, TypeOK
<1>5. QED
  BY <1>2, <1>3, <1>4 DEF NextWithTtl, Next, Idle

\* Whenever keys expire and saves overwrite each other, processors and stored
\* sessions stay sound.
THEOREM ExpiringInvariance == ExpiringSpec => []SoundInv
<1>1. Init => SoundInv
  BY InitIInv DEF IInv, SoundInv
<1>2. QED
  BY <1>1, ExpiringStep, PTL DEF ExpiringSpec

\* Whatever is left of a conversation whose key has expired, perhaps more than
\* once, the next request can continue it.
THEOREM ExpiringSessionsStayUsable == ExpiringSpec => []StoredSessionsUsable
<1>1. SoundInv => StoredSessionsUsable
  BY StoredSessionValid DEF SoundInv, StoredSessionsUsable
<1>2. QED
  BY <1>1, ExpiringInvariance, PTL

\* A response restores its text with the session and the permit that it carries,
\* also when the store has lost or overwritten the conversation.
THEOREM ExpiringResponsesStandAlone == ExpiringSpec => []ResponsesSelfContained
<1>1. SoundInv => ResponsesSelfContained
  BY SoundResponses DEF SoundInv
<1>2. QED
  BY <1>1, ExpiringInvariance, PTL
=============================================================================
