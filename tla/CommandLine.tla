------------------------------- MODULE CommandLine ------------------------------
(***************************************************************************)
(* The commands of the redactor binary and the files they share: the       *)
(* configuration, which the first command creates, and the session and     *)
(* permit files, which redact writes and restore and inspect read.         *)
(*                                                                         *)
(* Commands run at the same time and may be killed between any two steps.  *)
(* fs::write opens a file, which empties it, and writes to it afterwards.  *)
(* Every redaction has a scope of its own, so that a session, a permit and *)
(* a redacted text are named by the command that has made them.            *)
(***************************************************************************)
EXTENDS Integers, Sequences, FiniteSets

CONSTANTS
    Commands,       \* the commands that are run
    Invocations,    \* for each command, the invocations it may be
    Paths,          \* the paths of session and permit files
    Configurations  \* what the configuration file holds, if it is there

\* Every invocation is of one of the commands; what it names are paths.
ASSUME InvocationsAssumption ==
    /\ "none" \notin Paths
    /\ \A c \in Commands : \A inv \in Invocations[c] :
          /\ inv.kind \in {"redact", "detect", "restore", "inspect", "serve"}
          /\ inv.kind = "redact" => {inv.session, inv.permit} \subseteq Paths \cup {"none"}

VARIABLES
    config,         \* the content of the configuration file
    files,          \* the content of the other files
    invocation,     \* what each command was called with
    stage,          \* what each command does next
    policy,         \* the policy it has resolved
    read,           \* the files it has read
    outcome,        \* how it has ended
    restored,       \* the text that a restore has printed, and the session it is from
    endedBefore     \* which commands had ended when it started

vars == <<config, files, invocation, stage, policy, read, outcome, restored,
          endedBefore>>

(***************************************************************************)
(* Files                                                                   *)
(***************************************************************************)

Missing == [type |-> "missing"]
EmptyFile == [type |-> "empty"]
Mixed == [type |-> "mixed"]

DefaultConfig ==
    [type |-> "config", rules |-> {"Email", "Ip", "Cidr"}, strings |-> <<>>, files |-> {},
     llm |-> "off", valkey |-> FALSE, tls |-> {}]

Sealed(type, c) == [type |-> type, run |-> c, key |-> invocation[c].passphrase]

Opened(content, type, key) == content.type = type /\ content.key = key

(***************************************************************************)
(* Settings                                                                *)
(***************************************************************************)

\* The repeated options of each sort, in a fixed order of the sorts.
CustomOptions ==
    <<[match |-> "Exact", scope |-> "Text"], [match |-> "Contains", scope |-> "Text"],
      [match |-> "Regex", scope |-> "Text"], [match |-> "Exact", scope |-> "Line"],
      [match |-> "Contains", scope |-> "Line"], [match |-> "Regex", scope |-> "Line"]>>

CustomStringsFrom(options) ==
    LET sorts == SelectSeq(CustomOptions, LAMBDA sort : sort \in DOMAIN options)
    IN [i \in DOMAIN sorts |-> [match |-> sorts[i].match, scope |-> sorts[i].scope,
                                pattern |-> options[sorts[i]]]]

\* An option of the command line wins over the configuration, kind by kind.
ResolvedRules(inv, settings) == (settings.rules \ inv.off) \cup inv.on

\* The strings and files of both are searched, those of the configuration first.
ResolvedPolicy(inv, settings) ==
    [rules |-> ResolvedRules(inv, settings),
     strings |-> settings.strings \o CustomStringsFrom(inv.options),
     files |-> settings.files \cup inv.files,
     llm |-> IF inv.llm = "default" THEN settings.llm ELSE inv.llm]

ServerSettings(inv, settings) ==
    [settings EXCEPT !.rules = ResolvedRules(inv, settings), !.valkey = @ \/ inv.valkey]

\* "(" stands for what is no regular expression.
PolicyBuilds(p) ==
    /\ \A i \in DOMAIN p.strings :
          /\ p.strings[i].pattern # ""
          /\ p.strings[i].match = "Regex" => p.strings[i].pattern # "("
    /\ "" \notin p.files

(***************************************************************************)
(* Starting a command                                                      *)
(***************************************************************************)

Init ==
    /\ config \in Configurations \cup {Missing}
    /\ files = [p \in Paths |-> Missing]
    /\ invocation = [c \in Commands |-> [kind |-> "none"]]
    /\ stage = [c \in Commands |-> "not started"]
    /\ policy = [c \in Commands |-> <<>>]
    /\ read = [c \in Commands |-> <<>>]
    /\ outcome = [c \in Commands |-> "none"]
    /\ restored = [c \in Commands |-> <<>>]
    /\ endedBefore = [c \in Commands |-> {}]

Ended(c) == stage[c] = "ended"

GoTo(c, next) ==
    /\ stage' = [stage EXCEPT ![c] = next]
    /\ UNCHANGED outcome

End(c, result) ==
    /\ stage' = [stage EXCEPT ![c] = "ended"]
    /\ outcome' = [outcome EXCEPT ![c] = result]

Start(c) ==
    /\ stage[c] = "not started"
    /\ \E inv \in Invocations[c] :
          invocation' = [invocation EXCEPT ![c] = inv]
    /\ endedBefore' = [endedBefore EXCEPT ![c] = {d \in Commands : Ended(d)}]
    /\ GoTo(c, "loading")
    /\ UNCHANGED <<config, files, policy, read, restored>>

\* Mutant: a configuration must name every section.
SettingsFromAll ==
    IF config.type = "empty" THEN [type |-> "legacy"] ELSE config

\* Sections that a file leaves out have their defaults, all of them in an empty one.
Settings == IF config.type = "empty" THEN DefaultConfig ELSE config

Resolve(c, settings) ==
    /\ policy' = [policy EXCEPT ![c] =
            IF invocation[c].kind \in {"redact", "detect"}
            THEN ResolvedPolicy(invocation[c], settings)
            ELSE IF invocation[c].kind = "serve"
            THEN ServerSettings(invocation[c], settings) ELSE <<>>]
    /\ GoTo(c, invocation[c].kind)

LoadConfig(c) ==
    /\ stage[c] = "loading"
    /\ \/ config.type = "missing" /\ GoTo(c, "creating") /\ UNCHANGED policy
       \/ Settings.type = "config" /\ Resolve(c, Settings)
       \/ Settings.type = "legacy" /\ End(c, "configuration refused") /\ UNCHANGED policy
    /\ UNCHANGED <<config, files, invocation, read, restored, endedBefore>>

\* The configuration is found missing by every command that looks before the
\* first of them has opened it.
OpenConfig(c) ==
    /\ stage[c] = "creating"
    /\ \/ config' = EmptyFile /\ GoTo(c, "writing config")
       \/ End(c, "failed") /\ UNCHANGED config
    /\ UNCHANGED <<files, invocation, policy, read, restored, endedBefore>>

WriteConfig(c) ==
    /\ stage[c] = "writing config"
    /\ \/ config' = DefaultConfig /\ Resolve(c, DefaultConfig)
       \/ End(c, "failed") /\ UNCHANGED <<config, policy>>
    /\ UNCHANGED <<files, invocation, read, restored, endedBefore>>

(***************************************************************************)
(* redact, detect                                                          *)
(***************************************************************************)

\* All that redact does before its first write: its input, its redactor, its
\* options, its passphrase and the redaction.
Redact(c) ==
    /\ stage[c] = "redact"
    /\ LET inv == invocation[c]
       IN \/ End(c, "failed")           \* the input cannot be read
          \/ ~PolicyBuilds(policy[c]) /\ End(c, "failed")
          \/ /\ PolicyBuilds(policy[c])
             /\ \/ inv.session = "none" /\ End(c, "printed")
                \/ /\ inv.session # "none"
                   /\ inv.permit = "none" \/ inv.passphrase = "missing"
                   /\ End(c, "failed")
                \/ /\ inv.session # "none" /\ inv.permit # "none"
                   /\ inv.passphrase # "missing"
                   /\ GoTo(c, "opening session")
    /\ UNCHANGED <<config, files, invocation, policy, read, restored, endedBefore>>

Open(c, path, next) ==
    \/ /\ files' = [files EXCEPT ![path] = EmptyFile]
       /\ GoTo(c, next)
    \/ End(c, "failed") /\ UNCHANGED files

\* What another command has written since the file was opened is written over;
\* if it was longer, its end remains.
Write(c, path, type, next) ==
    \/ /\ \E content \in IF files[path].type = "empty" THEN {Sealed(type, c)}
                         ELSE {Sealed(type, c), Mixed} :
             files' = [files EXCEPT ![path] = content]
       /\ GoTo(c, next)
    \/ End(c, "failed") /\ UNCHANGED files

\* Mutant: the permit is written first.
WriteFilesPermitFirst(c) ==
    /\ \/ /\ stage[c] = "opening session"
          /\ Open(c, invocation[c].permit, "writing session")
       \/ /\ stage[c] = "writing session"
          /\ Write(c, invocation[c].permit, "permit", "opening permit")
       \/ /\ stage[c] = "opening permit"
          /\ Open(c, invocation[c].session, "writing permit")
       \/ /\ stage[c] = "writing permit"
          /\ Write(c, invocation[c].session, "session", "printing")
    /\ UNCHANGED <<config, invocation, policy, read, restored, endedBefore>>

\* Mutant: the text is printed before the permit is written.
WriteFilesPrintingEarly(c) ==
    /\ \/ /\ stage[c] = "opening session"
          /\ Open(c, invocation[c].session, "writing session")
       \/ /\ stage[c] = "writing session"
          /\ Write(c, invocation[c].session, "session", "printing")
    /\ UNCHANGED <<config, invocation, policy, read, restored, endedBefore>>

WriteFiles(c) ==
    /\ \/ /\ stage[c] = "opening session"
          /\ Open(c, invocation[c].session, "writing session")
       \/ /\ stage[c] = "writing session"
          /\ Write(c, invocation[c].session, "session", "opening permit")
       \/ /\ stage[c] = "opening permit"
          /\ Open(c, invocation[c].permit, "writing permit")
       \/ /\ stage[c] = "writing permit"
          /\ Write(c, invocation[c].permit, "permit", "printing")
    /\ UNCHANGED <<config, invocation, policy, read, restored, endedBefore>>

Report(c) ==
    /\ stage[c] = "printing"
    /\ End(c, "printed")
    /\ UNCHANGED <<config, files, invocation, policy, read, restored, endedBefore>>

Detect(c) ==
    /\ stage[c] = "detect"
    /\ \/ End(c, "failed")
       \/ PolicyBuilds(policy[c]) /\ End(c, "printed")
    /\ UNCHANGED <<config, files, invocation, policy, read, restored, endedBefore>>

(***************************************************************************)
(* restore, inspect-session                                                *)
(***************************************************************************)

\* Mutant: the arguments are exchanged, so that the first permit is taken for the
\* session and the session for a permit.
FilesToReadExchanged(inv) == inv.permits \o <<inv.session>>

\* The session first, then the permits in the order they are given.
FilesToRead(inv) == <<inv.session>> \o inv.permits

ReadFile(c) ==
    /\ stage[c] \in {"restore", "inspect"}
    /\ Len(read[c]) < Len(FilesToRead(invocation[c]))
    /\ LET content == files[FilesToRead(invocation[c])[Len(read[c]) + 1]]
       IN IF content.type = "missing" \/ invocation[c].passphrase = "missing"
          THEN End(c, "failed") /\ UNCHANGED read
          ELSE /\ read' = [read EXCEPT ![c] = Append(@, content)]
               /\ UNCHANGED <<stage, outcome>>
    /\ UNCHANGED <<config, files, invocation, policy, restored, endedBefore>>

HasRead(c) ==
    /\ stage[c] \in {"restore", "inspect"}
    /\ Len(read[c]) = Len(FilesToRead(invocation[c]))

AllOpened(c) ==
    LET key == invocation[c].passphrase
    IN /\ Opened(read[c][1], "session", key)
       /\ \A i \in 2..Len(read[c]) : Opened(read[c][i], "permit", key)

PermitsMatch(c) ==
    /\ AllOpened(c)
    /\ \A i \in 2..Len(read[c]) : read[c][i].run = read[c][1].run

\* Texts that have been printed by one of the redactions.
PrintedTexts == {r \in Commands : invocation[r].kind = "redact" /\ outcome[r] = "printed"}

\* Tokens of another scope are left as they are, which is no failure.
RestoredFrom(c, text) ==
    IF read[c][1].run = text THEN read[c][1].run ELSE "tokens left"

\* The text is read as it is, or is a patch, of which git may be asked whether it
\* applies.  Malformed tokens are refused.
Restore(c) ==
    /\ HasRead(c) /\ stage[c] = "restore"
    /\ \/ End(c, "failed") /\ UNCHANGED restored    \* no input, or a patch refused
       \/ /\ PermitsMatch(c)
          /\ ~invocation[c].malformed
          /\ \E text \in PrintedTexts :
                restored' = [restored EXCEPT ![c] =
                                [text |-> text, from |-> RestoredFrom(c, text)]]
          /\ End(c, "restored")
    /\ UNCHANGED <<config, files, invocation, policy, read, endedBefore>>

Inspect(c) ==
    /\ HasRead(c) /\ stage[c] = "inspect"
    /\ IF AllOpened(c) THEN End(c, "printed") ELSE End(c, "failed")
    /\ UNCHANGED <<config, files, invocation, policy, read, restored, endedBefore>>

(***************************************************************************)
(* serve                                                                   *)
(***************************************************************************)

\* The passphrase is checked before the store is connected to, and again before
\* the server listens.  Only a certificate with its key makes it use TLS.
Serve(c) ==
    /\ stage[c] = "serve"
    /\ LET settings == policy[c]
       IN \/ invocation[c].passphrase \in {"missing", "short"} /\ End(c, "failed")
          \/ settings.valkey /\ End(c, "failed")        \* no connection
          \/ End(c, "failed")                           \* the address is in use
          \/ /\ invocation[c].passphrase \notin {"missing", "short"}
             /\ End(c, IF settings.tls = {"cert", "key"} THEN "serving TLS" ELSE "serving")
    /\ UNCHANGED <<config, files, invocation, policy, read, restored, endedBefore>>

Kill(c) ==
    /\ stage[c] \notin {"not started", "ended"}
    /\ End(c, "killed")
    /\ UNCHANGED <<config, files, invocation, policy, read, restored, endedBefore>>

Next ==
    \E c \in Commands :
        \/ Start(c)
        \/ LoadConfig(c)
        \/ OpenConfig(c)
        \/ WriteConfig(c)
        \/ Redact(c)
        \/ WriteFiles(c)
        \/ Report(c)
        \/ Detect(c)
        \/ ReadFile(c)
        \/ Restore(c)
        \/ Inspect(c)
        \/ Serve(c)
        \/ Kill(c)

Spec == Init /\ [][Next]_vars

(***************************************************************************)
(* Properties                                                              *)
(***************************************************************************)

PathsOf(c) ==
    IF invocation[c].kind = "redact" THEN {invocation[c].session, invocation[c].permit} ELSE {}

\* No other command writes to the files of c while c runs, or has since.
Undisturbed(c) ==
    \A d \in Commands \ {c} :
        d \in endedBefore[c] \/ stage[d] \in {"not started", "loading", "creating"}
        \/ PathsOf(d) \cap PathsOf(c) = {}

Holds(c, path, type) == files[path] = Sealed(type, c)

\* A redaction that has printed its text has left the session and the permit that
\* restore it, for its passphrase, unless one file is both or others write there.
PrintedIsRestorable ==
    \A c \in PrintedTexts :
        /\ Undisturbed(c)
        /\ invocation[c].session # "none"
        /\ invocation[c].session # invocation[c].permit
        => /\ Holds(c, invocation[c].session, "session")
           /\ Holds(c, invocation[c].permit, "permit")

\* Whatever fails and whenever it is killed, a command leaves no permit whose
\* session is not in its file, unless one file is both or others write there.
PermitsHaveSessions ==
    \A c \in {d \in Commands : invocation[d].kind = "redact"} :
        /\ Undisturbed(c)
        /\ invocation[c].session # "none"
        /\ invocation[c].permit \notin {"none", invocation[c].session}
        /\ Holds(c, invocation[c].permit, "permit")
        => Holds(c, invocation[c].session, "session")

\* A restoration that starts when a redaction has printed its text, with the files
\* and the passphrase of that redaction, finds a session and a permit that fit,
\* and gives back the original of that text, unless one file is both or others
\* write there.
PrintedRestores ==
    \A c \in {d \in Commands : invocation[d].kind = "restore"}, r \in PrintedTexts :
        /\ Undisturbed(r)
        /\ r \in endedBefore[c]
        /\ invocation[r].session \notin {"none", invocation[r].permit}
        /\ invocation[c].session = invocation[r].session
        /\ invocation[c].permits = <<invocation[r].permit>>
        /\ invocation[c].passphrase = invocation[r].passphrase
        /\ Len(read[c]) = 2
        => /\ PermitsMatch(c)
           /\ restored[c] # <<>> /\ restored[c].text = r => restored[c].from = r

\* No command is refused for the configuration file that another one creates.
CreatedConfigAccepted ==
    \A c \in Commands :
        outcome[c] = "configuration refused" => config.type = "legacy"
=============================================================================
