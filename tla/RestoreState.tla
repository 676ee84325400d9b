------------------------------ MODULE RestoreState ------------------------------
(***************************************************************************)
(* RestoreState: what an embedding program keeps of one conversation, the  *)
(* latest session and the permits of the texts that were sent.  Redactors  *)
(* (SessionRedactor) start from the session of the state, redact fragments *)
(* one after the other, and build sessions; the state advances to a built  *)
(* session, or refuses it.  Nothing stops a program from starting two      *)
(* redactors from one state, from offering their sessions late, twice or   *)
(* out of order, or from stopping and reloading the serialised state.      *)
(*                                                                         *)
(* A redactor is identified by the random scope it draws.  Permits carry   *)
(* random identifiers that never clash; they are left out.                 *)
(***************************************************************************)
EXTENDS RedactionSession

CONSTANTS
    MaxFindings,    \* bound: the findings of the fragments of a redactor
    MaxBuilt        \* bound: the sessions that are kept to advance to

ASSUME BoundsAssumption == MaxFindings \in Nat /\ MaxBuilt \in Nat

Redactors == Scopes

VARIABLES
    state,      \* the restore state, or NoState
    redactor,   \* redactor -> its processor, or what it is instead
    base,       \* redactor -> the state that it started from
    built,      \* the sessions that redactors have built, with their texts
    delivered   \* the replacements in the texts that the state has advanced to

vars == <<state, redactor, base, built, delivered>>

NoState == [permits |-> <<>>]

\* A redactor that has not been started, and one that a restart has lost.
NotStarted == [applied |-> "not started"]
Lost == [applied |-> "lost"]

Running(r) == redactor[r] \notin {NotStarted, Lost}

--------------------------------------------------------------------------------
(***************************************************************************)
(* Permits and continuity                                                  *)
(***************************************************************************)

\* Mutant: the tokens that an earlier permit authorises are kept.
FirstAuthorizedAll(permits, i) == permits[i].issued

\* Mutant: the last permit for a token wins.
FirstAuthorizedLast(permits, i) ==
    permits[i].issued \ UNION {permits[j].issued : j \in (i + 1)..Len(permits)}

\* The tokens that the permit at this place is the first to authorise.
FirstAuthorized(permits, i) ==
    permits[i].issued \ UNION {permits[j].issued : j \in 1..(i - 1)}

\* The places of the permits that are the first to authorise a token.
Retained(permits) == {i \in DOMAIN permits : FirstAuthorized(permits, i) # {}}

PlaceOfNth(permits, n) ==
    CHOOSE i \in Retained(permits) :
        Cardinality({j \in Retained(permits) : j =< i}) = n

NthRetained(permits, n) ==
    LET i == PlaceOfNth(permits, n)
    IN [permits[i] EXCEPT !.issued = FirstAuthorized(permits, i)]

NormalizePermits(permits) ==
    [n \in 1..Cardinality(Retained(permits)) |-> NthRetained(permits, n)]

\* The conditions under which from_parts does not fail.
PartsAccepted(s, permits) ==
    /\ ValidSession(s)
    /\ \A i \in DOMAIN permits : PermitAccepted(s, permits[i])

FromParts(s, permits) == [session |-> s, permits |-> NormalizePermits(permits)]

\* The permit of a session, if its text has issued a token.
PermitsOfText(s) == IF s.issued = {} THEN <<>> ELSE <<CreateRestorePermit(s)>>

\* Mutant: the entries are not compared.
ContinuityHoldsOfContext(previous, next) ==
    previous.scope = next.scope /\ previous.ext = next.ext

\* Mutant: every value has to occur again.
ContinuityHoldsStrictly(previous, next) ==
    /\ ContinuityHoldsOfContext(previous, next)
    /\ \A k \in DOMAIN previous.entries :
         /\ k \in DOMAIN next.entries
         /\ next.entries[k].token = previous.entries[k].token
         /\ next.entries[k].occurrences > previous.entries[k].occurrences

ContinuityHolds(previous, next) ==
    /\ previous.scope = next.scope
    /\ previous.ext = next.ext
    /\ \A k \in DOMAIN previous.entries :
         /\ k \in DOMAIN next.entries
         /\ next.entries[k].token = previous.entries[k].token
         /\ next.entries[k].occurrences >= previous.entries[k].occurrences

\* Mutant: only the permit of the new text is kept.
PermitsAfterLatestOnly(s) == PermitsOfText(s)

PermitsAfter(s) == state.permits \o PermitsOfText(s)

\* The conditions under which advance does not fail.
AdvanceAccepted(s) ==
    /\ ValidSession(s)
    /\ ContinuityHolds(state.session, s)
    /\ PartsAccepted(s, PermitsAfter(s))

--------------------------------------------------------------------------------

Init ==
    /\ state = NoState
    /\ redactor = [r \in Redactors |-> NotStarted]
    /\ base = [r \in Redactors |-> NoState]
    /\ built = {}
    /\ delivered = {}

\* A redactor starts, from the session of the state if there is one.
Start(r, ext) ==
    /\ redactor[r] = NotStarted
    /\ base' = [base EXCEPT ![r] = state]
    /\ \/ /\ state = NoState
          /\ redactor' = [redactor EXCEPT ![r] = NewProcessor(r, ext)]
       \/ /\ state # NoState
          /\ ValidPriorSession(state.session, ext)
          /\ redactor' = [redactor EXCEPT ![r] =
                                WithPriorSession(state.session, ext)]
    /\ UNCHANGED <<state, built, delivered>>

\* The next finding of a fragment is replaced.
RedactFinding(r, key) ==
    /\ Running(r)
    /\ Len(redactor[r].applied) < MaxFindings
    /\ redactor' = [redactor EXCEPT ![r] = ReplaceFinding(redactor[r], key)]
    /\ UNCHANGED <<state, base, built, delivered>>

\* A session is built from what the redactor has replaced so far.
Build(r) ==
    /\ Running(r)
    /\ Cardinality(built) < MaxBuilt
    /\ built' = built \cup
            {[session |-> BuildSession(redactor[r]),
              text |-> {redactor[r].applied[i] : i \in DOMAIN redactor[r].applied}]}
    /\ UNCHANGED <<state, redactor, base, delivered>>

\* A state is made from the first session.
New(b) ==
    /\ state = NoState
    /\ PartsAccepted(b.session, PermitsOfText(b.session))
    /\ state' = FromParts(b.session, PermitsOfText(b.session))
    /\ delivered' = b.text
    /\ UNCHANGED <<redactor, base, built>>

\* A state is made of a session and permits that the program has collected, in
\* any order.  Permits that are created twice differ in their identifiers.
Assemble(b) ==
    /\ state = NoState
    /\ \E n \in 0..MaxBuilt : \E parts \in [1..n -> built] :
          LET permits == [i \in 1..n |-> CreateRestorePermit(parts[i].session)]
          IN /\ PartsAccepted(b.session, permits)
             /\ state' = FromParts(b.session, permits)
             /\ delivered' = UNION {parts[i].text : i \in 1..n}
    /\ UNCHANGED <<redactor, base, built>>

\* Mutant: the new permit is pushed without normalising the permits.
AdvanceUnnormalized(b) ==
    /\ state # NoState
    /\ IF AdvanceAccepted(b.session)
       THEN /\ state' = [session |-> b.session, permits |-> PermitsAfter(b.session)]
            /\ delivered' = delivered \cup b.text
       ELSE UNCHANGED <<state, delivered>>
    /\ UNCHANGED <<redactor, base, built>>

\* The state advances to a session; a refused session leaves it as it is.
Advance(b) ==
    /\ state # NoState
    /\ IF AdvanceAccepted(b.session)
       THEN /\ state' = FromParts(b.session, PermitsAfter(b.session))
            /\ delivered' = delivered \cup b.text
       ELSE UNCHANGED <<state, delivered>>
    /\ UNCHANGED <<redactor, base, built>>

\* The program stops and reloads the state it has serialised; redactors and
\* the sessions that were not advanced to are lost.
Restart ==
    /\ state # NoState
    /\ PartsAccepted(state.session, state.permits)
    /\ state' = FromParts(state.session, state.permits)
    /\ redactor' = [r \in Redactors |->
                        IF redactor[r] = NotStarted THEN NotStarted ELSE Lost]
    /\ base' = [r \in Redactors |-> NoState]
    /\ built' = {}
    /\ UNCHANGED delivered

Next ==
    \/ \E r \in Redactors :
        \/ \E ext \in ExternalIdOption : Start(r, ext)
        \/ \E key \in Keys : RedactFinding(r, key)
        \/ Build(r)
    \/ \E b \in built : New(b) \/ Assemble(b) \/ Advance(b)
    \/ Restart

Spec == Init /\ [][Next]_vars

--------------------------------------------------------------------------------
(***************************************************************************)
(* Properties                                                              *)
(***************************************************************************)

PermitSet == {state.permits[i] : i \in DOMAIN state.permits}

IsPermit(p) ==
    p \in [scope : Scopes, ext : ExternalIdOption, issued : SUBSET Token]

TypeOK ==
    /\ \/ state = NoState
       \/ /\ state \in [session : {state.session}, permits : Seq(PermitSet)]
          /\ IsSession(state.session)
          /\ \A p \in PermitSet : IsPermit(p)
    /\ DOMAIN redactor = Redactors
    /\ \A r \in Redactors : Running(r) => IsProcessor(redactor[r])
    /\ \A b \in built : IsSession(b.session) /\ b.text \subseteq AppliedReplacement
    /\ delivered \subseteq AppliedReplacement

\* Every text that the state has advanced to restores completely, however many
\* sessions, forks and restarts have followed: restore_context accepts the
\* permits, each token is authorised and stands for the value it replaced.
DeliveredTextsRestore ==
    \A a \in delivered :
        RestoresTo(state.session, PermitSet, a.token, a.key.original)

\* Nothing else is authorised: a token that only a refused fork has issued is
\* skipped by a restore.
OnlyDeliveredAuthorized ==
    AuthorizedTokens(PermitSet) = {a.token : a \in delivered}

\* A token is authorised by one permit, and no permit is empty.
PermitsPartitionTokens ==
    \A i, j \in DOMAIN state.permits :
        /\ state.permits[i].issued # {}
        /\ i # j => state.permits[i].issued \cap state.permits[j].issued = {}

\* Used by one redactor at a time a conversation never gets stuck: while no
\* other session has been advanced to since a redactor started, the session that
\* it builds is accepted, unless it names an external_id where there was none.
LinearUseAccepted ==
    state # NoState =>
        \A r \in Redactors :
            /\ Running(r)
            /\ base[r] = state
            /\ redactor[r].ext = state.session.ext
            => AdvanceAccepted(BuildSession(redactor[r]))

\* The serialised state is accepted when it is read back, and is the same.
StateReloads ==
    state # NoState =>
        /\ PartsAccepted(state.session, state.permits)
        /\ FromParts(state.session, state.permits) = state

\* Permits that were given are never taken back or changed.
PermitsOnlyGrow ==
    [][/\ Len(state'.permits) >= Len(state.permits)
       /\ SubSeq(state'.permits, 1, Len(state.permits)) = state.permits]_vars
=============================================================================
