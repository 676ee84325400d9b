# Verification of redactor

`redactor` replaces sensitive values in texts by tokens, keeps the mapping in a
*session*, and puts the values back for holders of a *restore permit*. This
directory holds TLA+ models of the parts of it that keep state, run concurrently
or decide what is redacted, the TLC instances that check them, and proofs
checked by TLAPS. Paths below are relative to the repository; `core` stands for
`crates/redactor/src`, `http` for `crates/redactor-http/src`, `valkey` for
`crates/redactor-session-store-valkey/src` and `app` for
`crates/redactor-app/src`.

## The system

| Component | State | Operations | What makes it correct |
|---|---|---|---|
| Replacement processor (`core/replace/processor.rs`, `token.rs`) | allocations by (kind, value), a counter per kind, the applied replacements, a random scope | new, with_prior_session, redact_fragment, build_session | a token stands for one value, and a value of a session has one token, also when a session is continued |
| Sessions and permits (`core/session/state.rs`, `permit.rs`, `restore.rs`) | none; immutable data | validate_session, create_restore_permit, authorized_tokens, restore_text | a permit authorises its text's tokens against its own and later sessions |
| Session store (`core/session/store.rs`, `valkey/store.rs`) | per external_id: the encrypted latest session and its version, perhaps with a TTL | load_latest, save_latest (a script that the server runs atomically) | no update is lost |
| Stateful redaction (`http/routes/redact.rs`, `core/service.rs`) | what a request has loaded, its processor, its save in flight | load, redact, save, encrypt, respond | a conversation only grows, and every response stays restorable |
| Restore state (`core/session/state.rs`) | the latest session of a program's conversation, and its permits | new, from_parts, advance, reload | texts advanced to stay restorable; forks cannot change a token's meaning |
| Streaming restore (`core/session/streaming_restore.rs`) | the characters held back | push_str, finish | the same answer as for the whole text, bounded memory, nothing lost |
| Detection (`core/detect`, `core/redactor/detection.rs`) | the findings of one call | contextual assignments, custom strings, lines and files, patterns; two selections of non-overlapping findings | selected findings are disjoint, and the right one of two that overlap is kept |
| Git diff ranges (`core/input.rs`) | a line automaton | redactable_ranges | content lines of hunks, each of the right file |
| LLM candidates (`core/llm/mod.rs`) | occupied ranges, consumed positions | discover_candidates, parse_candidates, the filter by ranges | findings lie on what the model named, apart from each other; a failing model costs nothing else |
| Blocking executor (`http/blocking.rs`) | a semaphore with its queue, permits granted to futures, closures on blocking threads | run; its future may be dropped | at most so many closures at once; every operation gets its turn |
| Routes (`http/routes`), errors (`http/http_error.rs`), audit copy (`http/audit.rs`) | what a handler is at | redact, restore, inspect, with early returns, awaits and clients that disconnect | the status tells whether something has been stored; only what was sealed here restores |
| Cryptography (`core/session/crypto.rs`) | none | seal, open | an envelope opens where it belongs |
| Command line, configuration, server (`app`) | the configuration file, session and permit files | redact, detect, restore, inspect-session, serve | what is printed can be restored; no command trips over another's files |

**Interactions.** A request with an `external_id` loads the latest session
through `SessionStore`, hands it to a processor on the blocking executor, saves
the session that the processor builds under the version it has loaded, and then
encrypts session and permit for the response, again on the executor: the store
is awaited between blocking operations, without a permit. `POST /restore/text`
loads the latest session and applies the permits of any earlier response to it.
A program that embeds the library does the same in memory: `SessionRedactor`
continues the session of a `RestoreState`, and the state advances to what it
builds. Detection is a pipeline inside a redaction: the ranges of the input, the
rules in these ranges, a selection, the candidates of a model, and a second
selection of both. The commands of the binary share files: the configuration,
which the first of them creates, and sessions and permits, which `redact` writes
and `restore` reads.

**Hard behaviours.** Requests of one conversation interleave between load and
save; the save is a message that may be lost, answered into the void, or
executed after its sender has given up; a failure after the save returns an
error for a redaction that has taken effect; keys may expire between the two;
futures are dropped at every await, also when a permit has been granted and not
yet used; redactors fork from one state, build sessions repeatedly and offer them
late; the stream is cut anywhere and its marker overlaps itself; overlapping
findings form chains of which the sweep compares neighbours only; candidates are
placed before they are filtered; commands run at the same time and are killed
between two writes. PROJECT.json lists these hazards, each at its line, with the
properties that would catch it going wrong. Some are not avoided by the code but
met by it: nothing promises otherwise, and no property catches them. Their entries
have no property and a note, which names the property that states the condition
they are beyond.

## The modules

| Module | Stands for |
|---|---|
| `RedactionSession` | the data and pure functions: allocation, sessions, validation, permits, what a restore answers |
| `StatefulRedaction` | stateful redaction over a session store, with and without TTL; extends `RedactionSession` |
| `Conversations` | the abstract specification: a conversation is a dictionary that each request extends atomically, at most once |
| `RestoreState` | `RestoreState` with redactors that fork from it; extends `RedactionSession` |
| `StreamingRestore` | `StreamingRestoreContext` next to the restoration of a whole text |
| `BlockingExecutor` | the executor: semaphore, queue, closures, dropped futures |
| `HttpService` | the handlers of the routes on top of the executor; extends `BlockingExecutor` |
| `OverlapSelection` | the sweep that selects non-overlapping findings |
| `GitDiffRanges` | the line automaton of `redactable_ranges` |
| `LlmCandidates` | where the candidates of a model are found and placed |
| `DetectionRules` | what the rules of a policy find; extends `LlmCandidates` |
| `Detection` | the pipeline; extends `GitDiffRanges`, `DetectionRules` and `OverlapSelection` |
| `CommandLine` | the commands and the files they share |
| `MC...` | instances for TLC: symmetry sets and the values of constants |
| `..._proofs` | theorems and proofs |

### RedactionSession

A token is its scope, kind and counter, which is what `format_token` writes and
`parse_token` reads back. The entries of a session are a function from
(kind, value) to token and occurrences: `build_session` lists a map with that
key, and `validate_session` refuses two entries with one. Redacted text,
fingerprints, policy, hints and identifiers that are never compared are left
out. Random scopes are told apart by who draws them: a request, or a redactor,
*is* the scope it would draw, so that two of them never draw the same (64 bits).

### StatefulRedaction

Variables: `store` (the key of each external_id), and for each request its
external_id, program counter, the loaded session with its version, its
processor, and what became of its save script. One action per step of the
handler between two awaits: `Load` (with the validation of the prior session),
`RedactFinding` for each finding, `SendSave`, `ExecuteSave` on the server with
the version check, `SaveReply`, `Respond`. Failures are actions of their own:
`LoadUnavailable`, `FailBeforeSave` (every early return and error before the
script is sent), `LoseSave`, `SaveUnavailable`, `SecureFails`, and `Abandon`
when the client disconnects and the future is dropped. A script that was sent
can be executed at any later time. `Expire` removes a key and is part of
`ExpiringSpec` only, since TTL is off by default. Each request is one HTTP
request; a client that retries is another request.

`Conversations` has no store, versions, messages or failures. The refinement
mapping takes the entries of the stored sessions as dictionaries, the requests
whose script was applied as committed, and what responded requests replaced as
answers. `ImplementsConversations` is that specification under the mapping.

### RestoreState

Variables: the state, the redactors (with, for the properties, the state each
started from), the sessions built so far with their texts, and the replacements
in texts that the state has advanced to. `New` makes a state of a session.
`Assemble` is `from_parts` for a first state: a session and any sequence of
permits of built sessions, in any order and with repetitions (a permit created
twice has two identifiers). `Advance` is offered any session that was ever
built; a refusal leaves everything unchanged. `Restart` reloads the serialised
state and loses redactors and sessions not advanced to. Permit identifiers are
random and never clash; the check for duplicates is left out.
`normalize_permits` is not written as a loop: `Retained` are the places of the
permits that are the first to authorise a token, and the n-th of the result is
the n-th of these.

### StreamingRestore

Text is a sequence of characters with a width in bytes; prefix, suffix, the
tokens and the limit are constants. Since `push_str` pushes its characters one
by one, the model pushes characters: the places where a stream is cut cannot
matter. `RestoreText` translates `restore_text` over `scan_token_like_ranges`.
Validation errors are left out: each accompanies an unresolved token.

### BlockingExecutor and HttpService

`BlockingExecutor` has the free permits, the queue of the semaphore, the
operations whose future has been *granted* a permit that it has not used yet,
and the closures that run. A tokio semaphore is fair: a permit that is given
back goes to the first in the queue (`Release`), whose future goes on when it is
polled (`Spawn`). `Drop` is the end of the future at each of its awaits: it
leaves the queue, gives back a permit that it was granted, or leaves a closure
behind that keeps its permit. The semaphore and its queue are external code, and
modelled as `run` uses them.

`HttpService` has the three handlers: early returns, in their order, blocking
operations, awaits of the store and of the audit copy (`HandleRedact`,
`HandleRestore`, `HandleInspect`, `Go`, `Finish`, `Resume`, `LoadReply`,
`SaveReply`, `AuditReply`), and clients that leave at any await (`Disconnect`). A
request has one blocking operation at a time, so that its name serves for both.
`StatusForError` is the classification of errors: by the store error in the
chain, or by words of the outermost message; an error is the set of the words
that matter, and whether it is the audit copy's. What an envelope opens with is its format, which is also its
associated data, and its passphrase. The conversation is its version here, and
what a processor does to it is `StatefulRedaction`'s subject. `UsesExecutor` is
`ExecutorSpec`: the composition changes the executor by its own steps.

### Detection

A text is a sequence of bytes, and a character of two bytes is two symbols. What
a regular expression or a validator accepts is part of the input: matches, and
assignments with what is known of key and value. `DetectionRules` computes from
them what the rules find: contextual assignments, secrets repeated elsewhere,
custom strings (exact, whatever the case, or as a regular expression, which
stands for a repetition) for the match or its line, and ranges of files that the
policy names. `GitDiffRanges` reads a diff line by
line (`ScanLine`); each line carries, for the properties only, what git means by
it. `LlmCandidates` has the occurrences of a value and the first that is free.

`Detection` goes through the phases of `detect_internal`: building the policy,
scanning, selecting (`Sweep`, one iteration at a time, which is `Select`,
`Replace` or `Drop`), asking the model, placing its candidates one by one,
merging in a second selection, done; or rejected (the policy does not build) and
panicked (a slice inside a character). `ModelFails` stands for the call that
fails and for an answer that cannot be read.

### CommandLine

Commands start at any time, load the configuration, or find it missing and
create it, resolve their settings, and do their work. `fs::write` is two
actions, since it empties the file first; what another command has written in
between is written over. Every step may fail, and `Kill` ends a command between
any two. Sessions, permits and texts are named by the redaction that made them.

## The runs

| Run | Instance | Shows |
|---|---|---|
| `concurrent_requests` | 3 requests, 1 external_id, 1 kind, 2 values, texts of up to 2 findings | no lost update, permits stay good, exact counts, conflicts have a winner, implementation of `Conversations` |
| `two_conversations` | 3 requests, 2 external_ids, 2 kinds, 1 value | tokens distinct across conversations and kinds; the refinement with two dictionaries |
| `expiring_store` | as the first, with TTL | what is stored can always be continued; a response restores its text by itself |
| `restore_state` | 3 redactors, 2 values, 1 kind, external_id or none, up to 2 findings each and 3 built sessions; first states of a session or of up to 3 permits | texts advanced to restore for ever, nothing else is authorised, linear use never gets stuck, reloading changes nothing |
| `streaming_restore` | all streams of up to 9 of 4 characters, limit of 7 bytes, marker `[[R`, suffix `]]`, one character of two bytes | stream and whole text agree, bounded memory, nothing lost |
| `http_service` | 3 requests, 1 permit, with and without a store: one of 17 requests of all routes, two redactions that compete with it | permits are conserved and handed on in order, the handlers implement `ExecutorSpec`, a 4xx means that nothing is stored unless the audit copy failed, only matching envelopes restore, requests are answered |
| `detection` | texts of 6 bytes with every subset of 8 overlapping findings, 3 lists of custom strings and 3 answers of a model; assignments of keys that name several kinds; diffs with changed, deleted, binary and renamed files; characters of two bytes | disjoint selection, a finding is given up only for a preferred one, rules withstand the model, candidates are placed apart and in range, ranges are content, named files are withheld unless a line misleads about them |
| `command_line` | 3 commands, 4 paths; the configuration missing, with settings, with an empty pattern, or of an older version; one redaction, a command that competes with it, and one that reads | what is printed is restorable and is restored, no permit without its session (while others do not write to the two files and they differ), creating the configuration refuses nobody |
| `expiring_store_overwrites` | texts of 1 finding, with TTL | **violation** of `NoSilentOverwrite` |
| `wide_candidates` | two answers of a model that name values with characters of two bytes | **violation** of `DuplicatesMapToDistinctOccurrences` |
| `line_scope` | one rule for lines, every subset of 8 findings | **violation** of `LineScopeRedactsEntireLine` |
| `hunk_lines` | diffs of which a line may start with `-- ` behind its sign | **violation** of `HunkLinesCovered` |

**Bounds.** Three requests are enough for the known hazards: one writes the
version that two race on, or (with TTL) one writes the version that expires, one
writes its replacement, one still expects the first. Two values and two findings
give a new value, a repeated value and a conflicting allocation in one text.
Three built sessions make a state that has advanced once, a fork, and a late
session; three permits of one redactor, a permit that authorises nothing new
between two that do. For the streams, nine characters hold a complete token, a
candidate beyond the limit and partial prefixes around a token; the prefix
overlaps itself in one character like the real one. One permit and three
requests make a queue of two, so that order, dropped waiters and dropped holders
show. The eight findings contain nested ones, touching ones, and chains whose
ends do not overlap, of kinds that are preferred by score in one way and by
containment in the other. Three commands are two that write the same files, or
share one of them, and one that reads while they do.

**Deadlock** is checked except for `StreamingRestore`, `HttpService`,
`Detection` and `CommandLine`: they end when the stream is finished, every
request is over, the findings are selected, every command has ended.

**Fairness.** Only `HttpService` has liveness properties. `FairSpec` assumes
weak fairness of `Handler(r)` for every request: the runtime polls futures that
are ready, closures end, and files are written or fail. Closures compute and
wait for nothing, since the service configures no model. The semaphore is fair
by its queue, not by assumption. Nothing is assumed of clients and of the
session store: `AnsweredWithoutStore` says that requests that need no store are
answered although the store may never be, and `AnsweredWhenStoreAnswers` has the
fairness of `Store(r)` as a hypothesis. All other properties are safety
properties, and the refinements are safety parts.

**Mutants.** Definitions marked "Mutant" are variants of the definition that
follows, with a mistake that code like this could have; they are used by no
specification. PROJECT.json names for every property of every passing run a
mutant under which it fails.

### Findings

*The expiring store.* README.md says that concurrent writes "fail on conflict
instead of silently overwriting". With a TTL they may overwrite: versions restart
at 1 for an absent key, and the script compares numbers only. In the
counterexample one request stores version 1 and the key is loaded by a second;
the key expires; a third request starts afresh and stores its own version 1; the
save of the second, which expects 1, is applied over it. The mapping of the third
response is gone from the store (its own encrypted session still restores it,
`ResponsesSelfContained`). Without TTL `NoSilentOverwrite` is proved.

*Wide candidates.* `collect_match_positions` (`core/llm/mod.rs:273`) resumes one
byte behind the start of a match. When the value starts with a character of
several bytes, this is inside the character, and the next slice panics: every
redaction for which a model names such a value fails, a single occurrence is
enough. The test at `core/llm/mod.rs:294` says that duplicates map to distinct
occurrences, and tries ASCII names.

*Rules for lines.* The finding of a line is a `CustomString`, whose containment
priority (`core/detect/overlap.rs:44`) is below that of every other kind. Any
finding inside the line replaces it, and the rest of the line stays readable. The
test at `core/tests.rs:688` says that the entire line is redacted; its line holds
no other finding. A custom string that contains a finding fares no better, which
`RulesWithstandModel` therefore excepts.

*Hunk lines.* A line of a hunk that starts with `--- ` or `+++ ` is taken for the
header of a file (`core/input.rs:52`): a removed line `-- x` is not searched, and
becomes the path that rules for files are compared with. The test at
`core/input.rs:142` lists every line of its hunk. `CustomFilesWithheld` excepts
such a line, and what follows it in its file (`FileKept`) unless it happens to name
that file or none: those lines are held against the rules for another file. The
next `diff --git` sets the path right again, and the files behind it are withheld;
the run has both.

## The proofs

The theorems hold for any values of the constants under the assumptions that the
modules name: the absent external_id is no external_id, the bounds are natural
numbers, the executor has a permit, and the inputs and invocations are of the
requests and commands there are. Of the inputs of detection they assume their
types, that no match ends before it starts, and of a diff that git has written
it (`WrittenByGit`): headers look like headers, changed lines start with a sign
and stand in hunks of the file that the last header names, and no other line of a
hunk starts with one. That is the output of one `git diff`; in a log of several
commits, a message behind a hunk would look like content. Of the marker they
assume what holds of `[[RDX:v2:` and `]]`: the suffix does not begin with a
character of the prefix, no character is wider than the prefix, the limit has
room for the prefix, and tokens begin and end with the marker.

`RedactionSession_proofs` proves what the processor preserves. `Consistent`
says that its tokens carry its scope and their kind, that they are distinct,
that its counters are the largest of each kind, and that what it has applied is
in its allocations. A new processor is consistent, one that continues a session
is if the session's tokens are labelled and distinct, and replacing a finding
keeps it so. The largest counter of a session is shown to exist where it is
needed (`HasLargestCounter`), since finiteness of the entries is not part of
the types.

`StatefulRedaction_proofs` is about `Spec`, the store that keeps its keys. None
of its properties is inductive alone, and `IInv` is the conjunction that is: that
a matching version means the same session (`VersionsOrdered`) is what makes the
version check safe; that a processor extends what was loaded (`BuildsOnBase`)
then carries every applied save into every later session (`AppliedContained`),
from which `PermitsStayGood`, `TokensMeanOneValue`, `ConversationsOnlyGrow` and
the refinement follow. `VersionsWritten` is the strengthening that
`ConflictsHaveAWinner` needs. Each action has its lemma; handler steps that
change the program counter alone share `HandlerStep`. For the refinement,
`CommitStep` and `AnswerStep` map the two visible actions, `StutteringStep`
everything else.

`OccurrencesExact` needs more than `IInv`: `CountsSound` adds that a processor
counts what its base counted and the places in its text (`ProcessorCounts`), and
that a stored session counts the places of all applied saves
(`ConversationCounts`). A step that applies a save adds one finite set of places
to another that it is disjoint from, and `SavedReplacementsKept` keeps all others
as they are.

The last section of the module is about `ExpiringSpec`. Nothing that relates
versions to sessions survives a TTL. `SoundInv` keeps what is left: each
processor and each stored session is sound by itself. That is enough for
`StoredSessionsUsable` and `ResponsesSelfContained`, whatever is overwritten.

`StreamingRestore_proofs` proves the three properties of `StreamingRestore`, for
every alphabet, marker and limit and for streams of any length. `PendingBounded`
is inductive with the type of what is held back (`HeldBack`), and `NothingLost`
is with the types of the others (`Conserved`). `StreamEqualsWhole` speaks of the
end only. Its invariant `Agrees` says how far the stream has come at every
character: it has restored some first candidates of the text, which are closed
and which the scan of any longer text finds as well (`Parsed`); from there to a
position no candidate can begin whatever follows, since a character that is
there already differs from the prefix (`Dead`); what has gone out is what the scan
would restore up to that position (`Done`), and the text from there on is held
back. What `flush_non_marker_prefix` cuts off is dead (`FlushedIsDead`), a suffix
in what is held back can only be its last characters (`SuffixIsLast`), and so a
candidate that closes is the next one of the scan (`ClosedIsDone`). The
alternative is that the stream has met the limit: then a candidate is open beyond
it, the scan cuts that candidate at a later place than the stream, and it exceeds
the limit in every longer text too (`TooLong`, `UnfitStays`), so that
`CandidatesFit` is false (`UnfitDoesNotFit`).

`Bytes`, `Source`, `Candidates` and `RestoreRanges` are recursive functions on the
numbers up to a length, of which a definition by CHOOSE says nothing until such a
function is shown to exist. `RecursionExists` (in `InductionLemmas`) does that once, for a sequence of
steps: of the lengths for which there is no such function, the least would be
next to one for which there is. `RecursionAgrees` and `RecursionExtends` say that
equal steps give equal results and one more step one more result; what each
definition computes for a text with one more character follows.

`RestoreState_proofs` proves all properties of `RestoreState`. Its invariant
`IInv` says that a running redactor is consistent and extends the state it
started from (`RedactorSound`), that built sessions are valid and hold their texts
(`BuiltSound`), that the state's permits are normalised and authorise exactly the
delivered texts (`StateHolds`), and that before there is a state what a redactor
has built is part of what it has (`NoStateYet`), since its permits may be
collected. The work is in normalising, which is a statement about the
order of a set of places: `RanksNumber` (in `InductionLemmas`) shows that counting the retained places
up to each of them numbers them from 1 without gaps (an injection between finite
sets of one size is onto), and from this follow that nothing authorised is lost, that the results partition
the tokens (`NormalizedPartition`), that a normalised prefix stays where it is
(`NormalizedPrefix`), and so that reading back changes nothing.

`HttpService_proofs` first proves of `ExecutorSpec` that permits are conserved,
that nobody waits while one is free, and that nobody is overtaken.
`ExecutorIInv` adds to these that an operation is in one place and once in the
queue (`OnePlace`), without which a dropped future could free a permit twice,
and that holders are finitely many. It then shows that every step of the service is
one of the executor or none (`StepUsesExecutor`), so that the
service implements `ExecutorSpec` and has its invariants. `RestorationIInv` and
`RedactionIInv` say what a request has established when it gets to a stage, what
can still be answered there, and where one that has been saved can be;
`StatusIsAnswer` says that only an answer has a status. `ServiceRefusalsStoreNothing`
assumes nothing of the path of the audit directory. The error of an audit copy that
cannot be written names that path, and with the right word in it (`AuditPathWords`,
which is `{"permit"}` in the run) a redaction that is stored is answered with a 422.
The property names this as its only exception, and the theorem shows that there is
no other.

`Detection_proofs` proves the six properties of `Detection`, for texts and diffs
of any length, any policy, and any matches and candidates, in three invariants.

- `ScannerIInv` says what the scanner of diffs knows. It is in a hunk exactly
  behind a `@@` of a file that is not binary (`HunkKnown`), its path is that of
  the last header as long as no line has misled since the file began (`FileKnown`,
  with `NamedOnce`), and the ranges so far are bodies of changed lines, of all those
  that are not taken for a header, and of their file where none has misled
  (`RangesKnown`). Since lines stand one behind the other
  (`LineStarts`), ranges are apart (`RangesApart`). `RangesAreContent` follows.
- `DetectionIInv` adds the findings. What the rules find is a finding of a rule
  within the text, whose kind `CustomFile` is that of ranges only
  (`DetectedFound`, which goes through all detectors). The sweep sees what
  follows in the order that it was sorted by, and every finding is pending,
  selected, or given up for one that overlaps it and is preferred to it
  (`Accounted`): what a replacement takes away overlaps the one that replaces
  it, and the invariant holds across all iterations. From this follow
  `UnbeatenSelected` and, since the rules find nothing else in the range of a
  withheld file (`NamedFileAlone`) and no candidate outranks it
  (`NamedFileWithstands`), `CustomFilesWithheld`. `CandidatesPlacedApart`
  holds because an occurrence is looked for that none of the placed ones
  overlaps, and because the filter by ranges only takes away. Comparing with the
  last selected finding only is enough for `SelectedDisjoint`, as what is pending
  starts behind the start of everything selected: a finding that replaces the
  last one cannot reach back further than it did. (`SelectionDisjoint` is the
  same of the sweep by itself, whatever it is given.)
- `RulesIInv` is about the second selection, for `RulesWithstandModel`. A
  finding of a rule could be lost to another one that has replaced a finding of
  the model in between. It is not, because findings of rules that follow each
  other with none between them were apart in the first selection
  (`NextRulesApart`, `SortedRulesApart`); to that end the order of what is
  selected is part of the invariant (`SelectedInOrder`). Since all but custom
  strings and phone numbers win against any score of the model (`StrongWins`),
  they stay (`StrongKept`). None of this needs findings that have a length.

The list of findings is a concatenation of mapped and filtered sequences.
`FlattenJoins` says what flattening computes, by way of a concatenation that is
built from the left (`JoinsNext`); sorting is by rank, and `SortedPlaces` shows that
every finding gets a place of its own.

`InductionLemmas` has what several modules need and what rests on induction:
least and greatest elements, numbering by rank, and the recursive functions on
the numbers up to a length of which the section on streams speaks.

`CommandLine_proofs` proves the four properties of the command line, for any
commands, paths and configurations. `CommandsIInv` says for each stage of a
redaction what it has written to its files while nobody disturbs it and they are
two (what two commands that write the same file leave there is nobody's promise);
`ReadingIInv` carries that to what a later restoration has read, and
`ConfigIInv` says that only a file that was there before can be refused.

Every safety property of a passing run is the subject of a theorem. Only
model-checked are the two liveness properties, `AnsweredWithoutStore` and
`AnsweredWhenStoreAnswers`, since TLAPS does not reason about fairness, and the
four violations, which are single behaviours.

## Not modelled

- **Regular expressions and validators** (`core/detect/regexes.rs`,
  `scanners.rs`, `validators`): predicates on strings without state. What they
  accept is an input of `Detection`.
- **Cryptography** beyond what an envelope opens with: key derivation, cipher and
  randomness are taken to be perfect.
- **The call of the model**: its request, its timeout and the parsing of its
  answer are an answer or a failure. The Valkey client likewise answers, fails or
  loses a message; that the store derives keys on blocking threads of its own,
  beside the executor, is listed as a hazard without a property.
- **TLS, CORS, OpenAPI, the health route, parsing of arguments, overrides of the
  configuration from the environment, layout of output**: no state of the
  program's own, or another library's.
- **What slicing does with findings that are empty**: `SelectedDisjoint` states
  the condition under which the selection is disjoint. A custom regular
  expression that matches the empty string is outside of it.
- **`from_parts` with the permits of forks**: once there is a state, its permits
  come from `advance`. What a caller puts together of sessions that the state has
  refused authorises what the caller has chosen.
- **Display hints, fingerprints, checksums of tokens, statistics other than the
  counts of findings**: nothing depends on them but their own display.
