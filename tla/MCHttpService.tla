----------------------------- MODULE MCHttpService ------------------------------
(***************************************************************************)
(* Instances of HttpService for TLC.                                       *)
(***************************************************************************)
EXTENDS HttpService, TLC

CONSTANTS q1, q2, q3

Sealed(seal, key, scope) == [seal |-> seal, key |-> key, scope |-> scope]

Redaction(ext, policy) == [route |-> "redact", ext |-> ext, policy |-> policy]

Restoration(ext, session, permit, text) ==
    [route |-> "restore", ext |-> ext, session |-> session, permit |-> permit,
     body |-> "complete", text |-> text]

Good == Sealed("permit", "ours", "a")

\* Redactions; restorations with envelopes that fit, are of another service, of
\* another scope, or in the wrong place; inspections.
VariedInputs ==
    {Redaction("given", "invalid"), Redaction("blank", "valid"), Redaction("given", "valid")}
    \cup {Restoration("none", session, Good, "plain") :
            session \in {Sealed("session", "ours", "b"), Sealed("session", "ours", "a"),
                         Sealed("session", "other", "a"), Good}}
    \cup {Restoration("given", Absent, permit, "plain") :
            permit \in {Good, Sealed("permit", "ours", "b"), Sealed("session", "ours", "a")}}
    \cup {Restoration("given", Absent, Good, "malformed token"),
          Restoration("none", Sealed("session", "ours", "a"), Good, "malformed token permit"),
          Restoration("blank", Absent, Good, "plain"),
          Restoration("given", Sealed("session", "ours", "a"), Absent, "plain"),
          [Restoration("given", Absent, Absent, "plain") EXCEPT !.body = "omitted"],
          [route |-> "inspect", session |-> Sealed("session", "ours", "a")],
          [route |-> "inspect", session |-> Good]}

\* One request varies, while others compete for the permit and the conversation.
MCInputs ==
    (q1 :> VariedInputs) @@ (q2 :> {Redaction("given", "valid")})
    @@ (q3 :> {Redaction("none", "valid")})

\* A directory for audit copies whose name has one of the words.
MCAuditPathWords == {"permit"}
=============================================================================
