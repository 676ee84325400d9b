--------------------------- MODULE StatefulRedaction ---------------------------
(***************************************************************************)
(* Stateful redaction over a session store: concurrent POST /redact/text   *)
(* requests that name an external_id.  Each request loads the latest       *)
(* session of its external_id, redacts its text on top of it, saves the    *)
(* new session under the version it loaded, and only then encrypts the     *)
(* session and the restore permit that the response carries.               *)
(*                                                                         *)
(* The save is a script that the store executes atomically.  It is a       *)
(* message: it may be lost, its reply may be lost, and it may still be     *)
(* executed after its sender has given up.  A request is identified by the *)
(* random scope that its processor draws (64 bits: two requests never draw *)
(* one scope).  Spec has a store that keeps its keys, ExpiringSpec one     *)
(* configured with a TTL.                                                  *)
(***************************************************************************)
EXTENDS RedactionSession

CONSTANT MaxFindings     \* bound: the findings of one text

ASSUME MaxFindingsAssumption == MaxFindings \in Nat

Requests == Scopes

VARIABLES
    store,      \* external_id -> the stored session with its version
    target,     \* request -> the external_id it names
    pc,         \* request -> where its handler stands
    base,       \* request -> what load_latest returned to it
    proc,       \* request -> its replacement processor
    script      \* request -> what became of its save script

vars == <<store, target, pc, base, proc, script>>

ActiveStates == {"arrived", "redacting", "saving", "securing"}
EndStates == {"responded", "conflict", "unavailable", "failed", "abandoned"}
ScriptStates == {"unsent", "sent", "applied", "refused", "lost"}

\* What load_latest returns when there is no session: versions start at 1.
NoSession == [version |-> 0]

IsStoredSession(x) ==
    /\ x \in [session : {x.session}, version : Nat \ {0}]
    /\ IsSession(x.session)

--------------------------------------------------------------------------------

Init ==
    /\ store = [e \in ExternalIds |-> NoSession]
    /\ target \in [Requests -> ExternalIds]
    /\ pc = [r \in Requests |-> "arrived"]
    /\ base = [r \in Requests |-> NoSession]
    /\ proc = [r \in Requests |-> NewProcessor(r, target[r])]
    /\ script = [r \in Requests |-> "unsent"]

\* The handler has loaded the latest session.  With a prior session that is
\* valid the processor continues it, without one it keeps the new scope, and
\* a prior session that fails validation fails the request.
Load(r) ==
    LET latest == store[target[r]] IN
    /\ pc[r] = "arrived"
    /\ base' = [base EXCEPT ![r] = latest]
    /\ IF latest = NoSession
       THEN /\ pc' = [pc EXCEPT ![r] = "redacting"]
            /\ UNCHANGED proc
       ELSE IF ValidPriorSession(latest.session, target[r])
       THEN /\ pc' = [pc EXCEPT ![r] = "redacting"]
            /\ proc' = [proc EXCEPT ![r] =
                            WithPriorSession(latest.session, target[r])]
       ELSE /\ pc' = [pc EXCEPT ![r] = "failed"]
            /\ UNCHANGED proc
    /\ UNCHANGED <<store, target, script>>

\* The store does not answer the load.
LoadUnavailable(r) ==
    /\ pc[r] = "arrived"
    /\ pc' = [pc EXCEPT ![r] = "unavailable"]
    /\ UNCHANGED <<store, target, base, proc, script>>

\* The request fails before its script is sent: an invalid policy, a blank
\* external_id, no configured store, a stored session that does not decrypt, a
\* blocking task that cannot be joined, or a session that does not encrypt.
FailBeforeSave(r) ==
    /\ pc[r] \in {"arrived", "redacting"}
    /\ pc' = [pc EXCEPT ![r] = "failed"]
    /\ UNCHANGED <<store, target, base, proc, script>>

\* The next finding of the text is replaced.
RedactFinding(r, key) ==
    /\ pc[r] = "redacting"
    /\ Len(proc[r].applied) < MaxFindings
    /\ proc' = [proc EXCEPT ![r] = ReplaceFinding(proc[r], key)]
    /\ UNCHANGED <<store, target, pc, base, script>>

\* The text has no further finding: the session is built, and the script that
\* saves it is sent.
SendSave(r) ==
    /\ pc[r] = "redacting"
    /\ pc' = [pc EXCEPT ![r] = "saving"]
    /\ script' = [script EXCEPT ![r] = "sent"]
    /\ UNCHANGED <<store, target, base, proc>>

\* Mutant: a save writes the version it expects.
NextVersionUnchanged(r) == IF base[r] = NoSession THEN 1 ELSE base[r].version

\* The version that save_latest writes: one past the version it expects.
NextVersion(r) == IF base[r] = NoSession THEN 1 ELSE base[r].version + 1

\* Mutant: the script checks only that a session is there.
VersionMatchesAny(r) ==
    store[target[r]] = NoSession => base[r] = NoSession

\* Mutant: the script compares with the version that it is to write.
VersionMatchesNext(r) ==
    LET current == store[target[r]] IN
    IF current = NoSession
    THEN base[r] = NoSession
    ELSE base[r] # NoSession /\ current.version = NextVersion(r)

\* The version check of the script.
VersionMatches(r) ==
    LET current == store[target[r]] IN
    IF current = NoSession
    THEN base[r] = NoSession
    ELSE base[r] # NoSession /\ current.version = base[r].version

\* The store executes the script, whether or not its sender still waits.
ExecuteSave(r) ==
    /\ script[r] = "sent"
    /\ IF VersionMatches(r)
       THEN /\ store' = [store EXCEPT ![target[r]] =
                            [session |-> BuildSession(proc[r]),
                             version |-> NextVersion(r)]]
            /\ script' = [script EXCEPT ![r] = "applied"]
       ELSE /\ script' = [script EXCEPT ![r] = "refused"]
            /\ UNCHANGED store
    /\ UNCHANGED <<target, pc, base, proc>>

\* The script never reaches the store.
LoseSave(r) ==
    /\ script[r] = "sent"
    /\ script' = [script EXCEPT ![r] = "lost"]
    /\ UNCHANGED <<store, target, pc, base, proc>>

\* Mutant: a refused save is taken for an applied one.
SaveReplyIgnoringConflict(r) ==
    /\ pc[r] = "saving"
    /\ script[r] \in {"applied", "refused"}
    /\ pc' = [pc EXCEPT ![r] = "securing"]
    /\ UNCHANGED <<store, target, base, proc, script>>

\* The reply of the script arrives.
SaveReply(r) ==
    /\ pc[r] = "saving"
    /\ \/ /\ script[r] = "applied"
          /\ pc' = [pc EXCEPT ![r] = "securing"]
       \/ /\ script[r] = "refused"
          /\ pc' = [pc EXCEPT ![r] = "conflict"]
    /\ UNCHANGED <<store, target, base, proc, script>>

\* The connection fails while the handler waits for the reply.
SaveUnavailable(r) ==
    /\ pc[r] = "saving"
    /\ pc' = [pc EXCEPT ![r] = "unavailable"]
    /\ UNCHANGED <<store, target, base, proc, script>>

\* Session and permit are encrypted, the audit copy is written, and the
\* response leaves with the permit.
Respond(r) ==
    /\ pc[r] = "securing"
    /\ pc' = [pc EXCEPT ![r] = "responded"]
    /\ UNCHANGED <<store, target, base, proc, script>>

\* Encryption or the audit write fails: the client gets an error although the
\* session is stored.
SecureFails(r) ==
    /\ pc[r] = "securing"
    /\ pc' = [pc EXCEPT ![r] = "failed"]
    /\ UNCHANGED <<store, target, base, proc, script>>

\* The client disconnects, and the handler's future is dropped.
Abandon(r) ==
    /\ pc[r] \in ActiveStates
    /\ pc' = [pc EXCEPT ![r] = "abandoned"]
    /\ UNCHANGED <<store, target, base, proc, script>>

\* The key of an external_id reaches its TTL.
Expire(e) ==
    /\ store[e] # NoSession
    /\ store' = [store EXCEPT ![e] = NoSession]
    /\ UNCHANGED <<target, pc, base, proc, script>>

Settled(r) == pc[r] \in EndStates /\ script[r] # "sent"

\* All requests are over: the system idles.
Idle ==
    /\ \A r \in Requests : Settled(r)
    /\ UNCHANGED vars

RequestStep(r) ==
    \/ Load(r)
    \/ LoadUnavailable(r)
    \/ FailBeforeSave(r)
    \/ \E key \in Keys : RedactFinding(r, key)
    \/ SendSave(r)
    \/ ExecuteSave(r)
    \/ LoseSave(r)
    \/ SaveReply(r)
    \/ SaveUnavailable(r)
    \/ Respond(r)
    \/ SecureFails(r)
    \/ Abandon(r)

Next == (\E r \in Requests : RequestStep(r)) \/ Idle

NextWithTtl == Next \/ \E e \in ExternalIds : Expire(e)

Spec == Init /\ [][Next]_vars

ExpiringSpec == Init /\ [][NextWithTtl]_vars

--------------------------------------------------------------------------------
(***************************************************************************)
(* Properties                                                              *)
(***************************************************************************)

\* The types of the variables.
TypeOK ==
    /\ DOMAIN store = ExternalIds
    /\ \A e \in ExternalIds : store[e] = NoSession \/ IsStoredSession(store[e])
    /\ target \in [Requests -> ExternalIds]
    /\ pc \in [Requests -> ActiveStates \cup EndStates]
    /\ DOMAIN base = Requests
    /\ \A r \in Requests : base[r] = NoSession \/ IsStoredSession(base[r])
    /\ DOMAIN proc = Requests
    /\ \A r \in Requests : IsProcessor(proc[r])
    /\ script \in [Requests -> ScriptStates]

Applied(r) == script[r] = "applied"

\* The permit that the response to this request carries.
PermitOf(r) == CreateRestorePermit(BuildSession(proc[r]))

\* POST /restore/text with an external_id and these permits, asked now, puts
\* this value in the place of this token.
RestoreAnswers(e, permits, token, original) ==
    /\ store[e] # NoSession
    /\ RestoresTo(store[e].session, permits, token, original)

\* A permit that was handed out stays good: whatever other requests have done
\* to the conversation since, it is accepted against the latest session and
\* every token of its response restores to the value it stood for.
PermitsStayGood ==
    \A r \in Requests : pc[r] = "responded" =>
        /\ store[target[r]] # NoSession
        /\ PermitAccepted(store[target[r]].session, PermitOf(r))
        /\ \A i \in DOMAIN proc[r].applied :
                RestoreAnswers(target[r], {PermitOf(r)},
                               proc[r].applied[i].token,
                               proc[r].applied[i].key.original)

\* A response is good for what it carries: the session and the permit in it are
\* accepted together, also when the store has lost the conversation since, and
\* restore every token of the response's text to the value it replaced.
ResponsesSelfContained ==
    \A r \in Requests : pc[r] = "responded" =>
        /\ ValidSession(BuildSession(proc[r]))
        /\ \A i \in DOMAIN proc[r].applied :
                RestoresTo(BuildSession(proc[r]), {PermitOf(r)},
                           proc[r].applied[i].token,
                           proc[r].applied[i].key.original)

\* Within a conversation and across conversations, the saved redactions agree
\* on what every token means: one token never stands for two values, and one
\* value of a conversation never gets two tokens.
TokensMeanOneValue ==
    \A r, q \in Requests : Applied(r) /\ Applied(q) =>
        \A i \in DOMAIN proc[r].applied, j \in DOMAIN proc[q].applied :
            LET a == proc[r].applied[i]
                b == proc[q].applied[j] IN
            a.token = b.token <=> (a.key = b.key /\ target[r] = target[q])

\* The stored session passes the validation that the next request of the
\* conversation runs on it: a conversation never gets stuck on its own state.
StoredSessionsUsable ==
    \A e \in ExternalIds : store[e] # NoSession =>
        ValidPriorSession(store[e].session, e)

\* The places at which saved redactions of a conversation replaced a value.
SavedReplacements(e, k) ==
    UNION {{<<r, i>> : i \in {j \in DOMAIN proc[r].applied :
                                proc[r].applied[j].key = k}} :
             r \in {q \in Requests : Applied(q) /\ target[q] = e}}

\* The occurrences that a stored session counts for a value are the times that
\* the saved redactions of the conversation replaced it: no saved redaction is
\* lost or counted twice.
OccurrencesExact ==
    \A e \in ExternalIds : store[e] # NoSession =>
        \A k \in DOMAIN store[e].session.entries :
            store[e].session.entries[k].occurrences =
                Cardinality(SavedReplacements(e, k))

\* A save is refused only because another request has saved the very version
\* that this one wanted to write: whenever one loses, another has won.
ConflictsHaveAWinner ==
    \A r \in Requests : script[r] = "refused" =>
        \E q \in Requests : /\ Applied(q)
                            /\ target[q] = target[r]
                            /\ NextVersion(q) = NextVersion(r)

\* README: "concurrent writes use version checks and fail on conflict instead
\* of silently overwriting".  A save that is applied replaces exactly what its
\* request loaded.
NoSilentOverwrite ==
    [][\A r \in Requests :
        ~Applied(r) /\ Applied(r)' => store[target[r]] = base[r]]_vars

\* A conversation only grows: its session keeps its scope, and every value
\* keeps its token and its count of occurrences.
ConversationsOnlyGrow ==
    [][\A e \in ExternalIds : store[e] # NoSession =>
        /\ store'[e] # NoSession
        /\ store'[e].session.scope = store[e].session.scope
        /\ \A k \in DOMAIN store[e].session.entries :
             LET old == store[e].session.entries[k] IN
             /\ k \in DOMAIN store'[e].session.entries
             /\ store'[e].session.entries[k].token = old.token
             /\ store'[e].session.entries[k].occurrences >= old.occurrences
      ]_vars

--------------------------------------------------------------------------------
(***************************************************************************)
(* Implementation of the abstract specification                            *)
(***************************************************************************)

\* The dictionary of a conversation: the tokens of its stored session.
DictionaryOf(e) ==
    IF store[e] = NoSession
    THEN [k \in {} |-> k]
    ELSE [k \in DOMAIN store[e].session.entries |->
            store[e].session.entries[k].token]

\* What the response to a request says that its tokens mean.
AnswerOf(r) ==
    {<<proc[r].applied[i].token, proc[r].applied[i].key>> :
        i \in DOMAIN proc[r].applied}

Atomic == INSTANCE Conversations WITH
    book <- [e \in ExternalIds |-> DictionaryOf(e)],
    committed <- {r \in Requests : Applied(r)},
    answer <- [r \in {q \in Requests : pc[q] = "responded"} |-> AnswerOf(r)]

\* Load, redact, compare-and-set save and response, with everything that can
\* go wrong between them, behave as one atomic update of the conversation's
\* dictionary followed by an answer from it.
ImplementsConversations == Atomic!Spec
=============================================================================
