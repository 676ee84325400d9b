------------------------------ MODULE MCCommandLine -----------------------------
(***************************************************************************)
(* Instances of CommandLine for TLC.                                       *)
(***************************************************************************)
EXTENDS CommandLine, TLC

CONSTANTS c1, c2, c3

Redaction(session, permit, passphrase) ==
    [kind |-> "redact", session |-> session, permit |-> permit, passphrase |-> passphrase,
     on |-> {"Domain"}, off |-> {"Ip"}, files |-> {}, llm |-> "default", options |-> <<>>]

Restoration(session, permits, passphrase) ==
    [kind |-> "restore", session |-> session, permits |-> permits,
     passphrase |-> passphrase, malformed |-> FALSE]

Option(match, pattern) == [match |-> match, scope |-> "Line"] :> pattern

Service(passphrase, valkey) ==
    [kind |-> "serve", passphrase |-> passphrase, valkey |-> valkey, on |-> {"Url"}, off |-> {}]

\* One redaction; another one, of the same or of other files, or another command;
\* and one that reads what they have written.
MCInvocations ==
    (c1 :> {Redaction("s", "p", "key")})
    @@ (c2 :> {Redaction("s", "p", "key"), Redaction("s", "q", "key"),
               Redaction("t", "p", "key"), Redaction("q", "q", "key"),
               Redaction("none", "none", "missing"), Redaction("t", "none", "key"),
               Redaction("t", "q", "missing"), Redaction("t", "q", "other"),
               [Redaction("t", "q", "key") EXCEPT !.options = Option("Exact", "")],
               [Redaction("t", "q", "key") EXCEPT !.options = Option("Regex", "("),
                                                  !.files = {"f"}],
               [kind |-> "detect", on |-> {}, off |-> {}, llm |-> "ollama", files |-> {"f"},
                options |-> Option("Contains", "(")],
               Service("key", FALSE), Service("key", TRUE), Service("short", FALSE)})
    @@ (c3 :> {Restoration("s", <<"p">>, "key"), Restoration("t", <<"q", "p">>, "key"),
               [Restoration("s", <<"p">>, "key") EXCEPT !.malformed = TRUE],
               Restoration("s", <<"p">>, "missing"),
               [kind |-> "inspect", session |-> "s", permits |-> <<>>, passphrase |-> "key"]})

\* Written by a user: with settings, with an empty string, of an older version.
MCConfigurations ==
    {[DefaultConfig EXCEPT !.llm = "ollama", !.valkey = TRUE, !.tls = {"cert", "key"}],
     [DefaultConfig EXCEPT !.tls = {"cert"},
                           !.strings = <<[match |-> "Regex", scope |-> "Text",
                                          pattern |-> ""]>>],
     [type |-> "legacy"]}
=============================================================================
