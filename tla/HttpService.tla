------------------------------- MODULE HttpService ------------------------------
(***************************************************************************)
(* The routes of the HTTP service from the request to the status of its    *)
(* response: what is checked in which order, which work goes through the   *)
(* blocking executor, where the session store is awaited, and which status *)
(* an error is reported under.  Redaction and restoration themselves are   *)
(* the subject of StatefulRedaction; here a conversation is its version.   *)
(*                                                                         *)
(* What the service hands out is sealed: an envelope opens only in the     *)
(* format that it was sealed in (session or permit, which have associated  *)
(* data of their own) and with the passphrase it was sealed with.          *)
(***************************************************************************)
EXTENDS BlockingExecutor

CONSTANTS
    AuditPathWords,     \* the words of the directory for audit copies that a
                        \* status depends on
    Inputs              \* request -> what its client may send: see Input

ASSUME InputsAssumption == DOMAIN Inputs = Operations

VARIABLES
    storeConfigured,    \* whether the service has a session store
    input,      \* request -> its content, or NotSent
    stage,      \* request -> what its handler is at
    reply,      \* request -> the answer of its blocking operation or its audit copy
    loaded,     \* request -> the version of the conversation it has loaded
    version,    \* the version of the stored conversation, 0 if there is none
    saved,      \* the requests whose session has been stored
    status      \* request -> the status of its response, 0 until then

httpVars == <<storeConfigured, input, stage, reply, loaded, version, saved, status>>
vars == <<available, waiting, granted, running, httpVars>>

\* A request has one blocking operation at a time, which bears its name.
Requests == Operations

--------------------------------------------------------------------------------
(***************************************************************************)
(* Sealed sessions and permits                                             *)
(***************************************************************************)

Absent == [seal |-> "absent"]

\* What a client may send in the place of a sealed session or permit: whatever
\* this service, or one with another passphrase, has sealed for a scope.
Envelope == [seal : {"session", "permit"}, key : {"ours", "other"}, scope : {"a", "b"}]

\* Mutant: the data that an envelope is bound to is not compared.
OpensWhateverSealed(envelope, seal) == envelope.key = "ours"

\* An envelope opens: it parses, its version, passphrase and associated data fit.
Opens(envelope, seal) ==
    /\ envelope.seal = seal
    /\ envelope.key = "ours"

\* A permit is accepted against a session: their scopes agree.  The stored
\* conversation has the scope "a".
Authorizes(permit, scope) == permit.scope = scope

(***************************************************************************)
(* Requests                                                                *)
(***************************************************************************)

NotSent == [route |-> "not sent"]

\* "omitted": the body does not have the field restore_permits.
Input ==
    [route : {"redact"}, ext : {"none", "blank", "given"}, policy : {"valid", "invalid"}]
    \cup [route : {"restore"}, ext : {"none", "blank", "given"},
          session : Envelope \cup {Absent}, permit : Envelope \cup {Absent},
          body : {"complete", "omitted"},
          text : {"plain", "malformed token", "malformed token permit"}]
    \cup [route : {"inspect"}, session : Envelope]

(***************************************************************************)
(* Errors and their status                                                 *)
(***************************************************************************)

\* An error: the store error in its chain, or that it is the audit copy's, and
\* those words of its outermost message that status_for_error looks for.
Error(cause, words) == [cause |-> cause, words |-> words]

NoPolicy == Error("none", {"invalid redaction policy"})
NoStore == Error("none", {"external_id"})
BlankExternalId == Error("none", {"external_id"})
BothOrNeither == Error("none", {"must provide", "external_id", "restore"})
NoLatest == Error("none", {"no latest session", "external_id"})
PermitClosed == Error("none", {"decrypt", "restore", "permit"})
PermitMismatch == Error("none", {"restore", "permit"})
SessionClosed == Error("none", {"decrypt"})
\* The message quotes the token, whatever words are in it.
MalformedToken(text) ==
    Error("none", IF text = "malformed token permit" THEN {"permit"} ELSE {})
\* The message quotes the path of the directory, whatever words are in it.
AuditFailed == Error("audit", AuditPathWords)
\* The stored session is not valid, or belongs to another external_id.
PriorInvalid == Error("none", {})
PriorOfAnother == Error("none", {"external_id"})
JoinFailed == Error("none", {})
StoreError(kind) == Error(kind, {})

\* Mutant: secure_artifact calls encrypt_artifact of the service, whose error
\* names the restore permit.
EncryptionFailedNamingPermit == Error("none", {"restore", "permit"})

\* The errors of secure_artifact name a session or a payload, nothing else.
EncryptionFailed == Error("none", {})

Ok == Error("ok", {})
Pending == Error("pending", {})

StatusForError(error) ==
    CASE error.cause = "conflict" -> 409
      [] error.cause = "unavailable" -> 503
      [] error.cause = "invalid" -> 500
      [] OTHER ->
            IF "no latest session" \in error.words THEN 404
            ELSE IF error.words \cap {"external_id", "must provide",
                                      "invalid redaction policy"} # {} THEN 400
            ELSE IF error.words \cap {"permit", "decrypt", "restore"} # {} THEN 422
            ELSE 500

StatusOf(r, error) ==
    IF error = Ok THEN 200
    ELSE IF input[r].route = "inspect" THEN 422
    ELSE StatusForError(error)

--------------------------------------------------------------------------------
(***************************************************************************)
(* The handlers                                                            *)
(***************************************************************************)

BlockingStages == {"redact", "secure", "permits", "restore", "inspect"}

Answered(r, error) ==
    /\ stage' = [stage EXCEPT ![r] = "answered"]
    /\ status' = [status EXCEPT ![r] = StatusOf(r, error)]

Answer(r, error) ==
    /\ Answered(r, error)
    /\ UNCHANGED <<reply, executorVars>>

\* The handler calls run: from here on it waits for a permit or an answer.
Block(r, next) ==
    /\ Run(r)
    /\ stage' = [stage EXCEPT ![r] = next]
    /\ reply' = [reply EXCEPT ![r] = Pending]
    /\ UNCHANGED status

Await(r, next) ==
    /\ stage' = [stage EXCEPT ![r] = next]
    /\ UNCHANGED <<reply, status, executorVars>>

Init ==
    /\ InitExecutor
    /\ storeConfigured \in BOOLEAN
    /\ input = [r \in Requests |-> NotSent]
    /\ stage = [r \in Requests |-> "idle"]
    /\ reply = [r \in Requests |-> Pending]
    /\ loaded = [r \in Requests |-> 0]
    /\ version = 0
    /\ saved = {}
    /\ status = [r \in Requests |-> 0]

\* A request arrives.  Its fields were sent before the handler runs, so that the
\* status of an early answer is known from them.
Send(r) ==
    /\ stage[r] = "idle"
    /\ input[r] = NotSent
    /\ \E i \in Inputs[r] : input' = [input EXCEPT ![r] = i]
    /\ UNCHANGED <<storeConfigured, stage, reply, loaded, version, saved, status, executorVars>>

\* Mutant: the handler asks for its permit before it awaits the store.
HandleRedactPermitFirst(r) ==
    LET i == input[r] IN
    /\ stage[r] = "idle"
    /\ i.route = "redact"
    /\ \/ i.policy = "invalid" /\ Answer(r, NoPolicy)
       \/ /\ i.policy = "valid"
          /\ \/ i.ext = "none" /\ Block(r, "redact")
             \/ i.ext # "none" /\ Block(r, "load")
    /\ UNCHANGED <<storeConfigured, input, loaded, version, saved>>

\* The early returns of redact_text_inner, and where it first waits.
HandleRedact(r) ==
    LET i == input[r] IN
    /\ stage[r] = "idle"
    /\ i.route = "redact"
    /\ \/ i.policy = "invalid" /\ Answer(r, NoPolicy)
       \/ /\ i.policy = "valid"
          /\ \/ i.ext = "none" /\ Block(r, "redact")
             \/ i.ext # "none" /\ ~storeConfigured /\ Answer(r, NoStore)
             \/ i.ext = "blank" /\ storeConfigured /\ Answer(r, BlankExternalId)
             \/ i.ext = "given" /\ storeConfigured /\ Await(r, "load")
    /\ UNCHANGED <<storeConfigured, input, loaded, version, saved>>

\* The body is rejected before the handler when a field is missing.
RejectBody(r) ==
    /\ stage' = [stage EXCEPT ![r] = "answered"]
    /\ status' = [status EXCEPT ![r] = 422]
    /\ UNCHANGED <<reply, executorVars>>

\* The four combinations of session and external_id of restore_text_inner.
HandleRestore(r) ==
    LET i == input[r] IN
    /\ stage[r] = "idle"
    /\ i.route = "restore"
    /\ \/ i.body = "omitted" /\ RejectBody(r)
       \/ /\ i.body = "complete"
          /\ \/ (i.session = Absent) = (i.ext = "none") /\ Answer(r, BothOrNeither)
             \/ i.session # Absent /\ i.ext = "none" /\ Block(r, "restore")
             \/ /\ i.session = Absent /\ i.ext # "none"
                /\ \/ ~storeConfigured /\ Answer(r, NoStore)
                   \/ storeConfigured /\ Block(r, "permits")
    /\ UNCHANGED <<storeConfigured, input, loaded, version, saved>>

HandleInspect(r) ==
    /\ stage[r] = "idle"
    /\ input[r].route = "inspect"
    /\ Block(r, "inspect")
    /\ UNCHANGED <<storeConfigured, input, loaded, version, saved>>

(***************************************************************************)
(* What the blocking operations answer                                     *)
(***************************************************************************)

\* The permits of the request open; none at all are open too.
PermitsOpen(i) == i.permit = Absent \/ Opens(i.permit, "permit")

\* The answer to a text that is restored with a session of this scope.
RestoreAnswer(i, scope) ==
    IF i.permit # Absent /\ ~Authorizes(i.permit, scope) THEN PermitMismatch
    ELSE IF i.text = "plain" THEN Ok
    ELSE MalformedToken(i.text)

\* restore_text_from_encrypted_session: session first, then permits, then both.
RestoreFromSession(i) ==
    IF ~Opens(i.session, "session") THEN SessionClosed
    ELSE IF ~PermitsOpen(i) THEN PermitClosed
    ELSE RestoreAnswer(i, i.session.scope)

Answers(r) ==
    LET i == input[r] IN
    {JoinFailed} \cup
    CASE stage[r] = "redact" ->
            IF i.ext = "none" THEN {Ok, EncryptionFailed}
            ELSE IF loaded[r] = 0 THEN {Ok}
            ELSE {Ok, PriorInvalid, PriorOfAnother}
      [] stage[r] = "secure" -> {Ok, EncryptionFailed}
      [] stage[r] = "permits" -> {IF PermitsOpen(i) THEN Ok ELSE PermitClosed}
      [] stage[r] = "restore" ->
            {IF i.ext = "none" THEN RestoreFromSession(i) ELSE RestoreAnswer(i, "a")}
      [] stage[r] = "inspect" ->
            {IF Opens(i.session, "session") THEN Ok ELSE SessionClosed}
      [] OTHER -> {}

\* The closure ends.  Nobody hears of it when its request was dropped.
Finish(r) ==
    /\ Return(r)
    /\ \/ /\ stage[r] \in BlockingStages
          /\ \E answer \in Answers(r) : reply' = [reply EXCEPT ![r] = answer]
       \/ /\ stage[r] = "dropped"
          /\ UNCHANGED reply
    /\ UNCHANGED <<storeConfigured, input, stage, loaded, version, saved, status>>

Go(r) ==
    /\ Spawn(r)
    /\ UNCHANGED httpVars

\* The handler goes on when its blocking operation has answered.
Resume(r) ==
    /\ stage[r] \in BlockingStages
    /\ reply[r] # Pending
    /\ \/ reply[r] # Ok /\ Answer(r, reply[r])
       \/ /\ reply[r] = Ok
          /\ \/ stage[r] = "redact" /\ input[r].ext = "none" /\ Await(r, "audit")
             \/ stage[r] = "redact" /\ input[r].ext # "none" /\ Await(r, "save")
             \/ stage[r] = "secure" /\ Await(r, "audit")
             \/ stage[r] = "permits" /\ input[r].ext = "blank" /\ Answer(r, BlankExternalId)
             \/ stage[r] = "permits" /\ input[r].ext # "blank" /\ Await(r, "load")
             \/ stage[r] \in {"restore", "inspect"} /\ Answer(r, Ok)
    /\ UNCHANGED <<storeConfigured, input, loaded, version, saved>>

(***************************************************************************)
(* The session store and the audit copy                                    *)
(***************************************************************************)

\* The store answers with the conversation, or fails.
LoadReply(r) ==
    /\ stage[r] = "load"
    /\ \/ /\ input[r].route = "redact"
          /\ Block(r, "redact")
       \/ /\ input[r].route = "restore"
          /\ IF version = 0 THEN Answer(r, NoLatest) ELSE Block(r, "restore")
       \/ \E kind \in {"unavailable", "invalid"} : Answer(r, StoreError(kind))
    /\ loaded' = [loaded EXCEPT ![r] = version]
    /\ UNCHANGED <<storeConfigured, input, version, saved>>

\* The store applies or refuses the save; its answer may be lost.
SaveReply(r) ==
    /\ stage[r] = "save"
    /\ \/ /\ version = loaded[r]
          /\ version' = version + 1
          /\ saved' = saved \cup {r}
          /\ Block(r, "secure") \/ Answer(r, StoreError("unavailable"))
       \/ /\ version # loaded[r]
          /\ Answer(r, StoreError("conflict"))
          /\ UNCHANGED <<version, saved>>
       \/ /\ \E kind \in {"unavailable", "invalid"} : Answer(r, StoreError(kind))
          /\ UNCHANGED <<version, saved>>
    /\ UNCHANGED <<storeConfigured, input, loaded>>

\* The audit copy of the session is written, or there is no directory for it.
AuditReply(r) ==
    /\ stage[r] = "audit"
    /\ \E answer \in {Ok, AuditFailed} :
          /\ reply' = [reply EXCEPT ![r] = answer]
          /\ Answered(r, answer)
    /\ UNCHANGED <<storeConfigured, input, loaded, version, saved, executorVars>>

\* Mutant: a permit that was granted to the future goes with it.
DisconnectLosingPermit(r) ==
    /\ stage[r] \notin {"idle", "answered", "dropped"}
    /\ stage' = [stage EXCEPT ![r] = "dropped"]
    /\ waiting' = SelectSeq(waiting, LAMBDA other : other # r)
    /\ granted' = granted \ {r}
    /\ UNCHANGED <<storeConfigured, input, reply, loaded, status, version, saved, available, running>>

\* The client disconnects, and the future of the handler is dropped.  A save
\* that is on its way is applied or not.
Disconnect(r) ==
    /\ stage[r] \notin {"idle", "answered", "dropped"}
    /\ stage' = [stage EXCEPT ![r] = "dropped"]
    /\ IF r \in Waiting \cup granted \cup running
       THEN Drop(r)
       ELSE UNCHANGED executorVars
    /\ \/ UNCHANGED <<version, saved>>
       \/ /\ stage[r] = "save"
          /\ version = loaded[r]
          /\ version' = version + 1
          /\ saved' = saved \cup {r}
    /\ UNCHANGED <<storeConfigured, input, reply, loaded, status>>

Store(r) == LoadReply(r) \/ SaveReply(r)

Handler(r) ==
    \/ HandleRedact(r) \/ HandleRestore(r) \/ HandleInspect(r)
    \/ Go(r) \/ Finish(r) \/ Resume(r) \/ AuditReply(r)

Next == \E r \in Requests : Send(r) \/ Handler(r) \/ Store(r) \/ Disconnect(r)

Spec == Init /\ [][Next]_vars

\* The runtime polls what is ready, closures end (they compute, and wait for
\* nothing: the service configures no model), and files are written or fail.
\* Nothing is assumed of the session store and of clients.
Fairness == \A r \in Requests : WF_vars(Handler(r))

FairSpec == Spec /\ Fairness

--------------------------------------------------------------------------------
(***************************************************************************)
(* Properties                                                              *)
(***************************************************************************)

\* The service uses the executor as it is meant to be used: whatever handlers do
\* and however clients leave, its permits and its queue change by the steps of
\* run alone.  With the theorems about the executor, never more operations run
\* than it has permits.
UsesExecutor == ExecutorSpec

\* A redaction that is refused with a status of the client's (4xx) has not been
\* stored, so that the client may correct and repeat it without counting its
\* values twice.  It depends on the words of every error after the save.  The one
\* exception is the error of the audit copy, for which the directory's path
\* decides: it may make a 4xx of a redaction that is stored.
RefusedRedactionsStoreNothing ==
    \A r \in Requests :
        /\ input[r].route = "redact" /\ status[r] \in 400..499
        /\ reply[r] # AuditFailed
        => r \notin saved

\* A restoration that succeeds was asked for with envelopes of this service, each
\* in its place and all of one scope; anything mixed up is refused.
RestoredWithMatchingEnvelopes ==
    \A r \in Requests :
        LET i == input[r] IN
        i.route = "restore" /\ status[r] = 200 =>
            /\ i.session # Absent =>
                /\ i.session.seal = "session" /\ i.session.key = "ours"
                /\ i.permit # Absent => i.permit.scope = i.session.scope
            /\ i.permit # Absent => i.permit.seal = "permit" /\ i.permit.key = "ours"
            /\ i.ext # "none" => version > 0

UsesStore(i) == i.route # "inspect" /\ i.ext # "none"

Over(r) == stage[r] \in {"answered", "dropped"}

\* A session store that never answers holds up nobody who does not need it: no
\* permit is kept while the store is awaited.
AnsweredWithoutStore ==
    \A r \in Requests :
        (input[r] # NotSent /\ ~UsesStore(input[r])) ~> Over(r)

\* Every request is answered if the store answers: permits are handed on, and
\* the queue is served in order.
AnsweredWhenStoreAnswers ==
    (\A r \in Requests : WF_vars(Store(r))) =>
        \A r \in Requests : input[r] # NotSent ~> Over(r)
=============================================================================
