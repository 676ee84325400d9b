------------------------------- MODULE MCDetection ------------------------------
(***************************************************************************)
(* Instances of Detection for TLC.                                         *)
(***************************************************************************)
EXTENDS Detection

MCNoPath == "no path"

MCUnplaced == -1

Recognized(kind, start, end) == [kind |-> kind, start |-> start, end |-> end]

Policy(rules, strings, files) == [rules |-> rules, strings |-> strings, files |-> files]

Rule(pattern, match, scope) == [pattern |-> pattern, match |-> match, scope |-> scope]

Assigned(start, end, key, valid, colon, plain, secretLike) ==
    [start |-> start, end |-> end, key |-> key, valid |-> valid, colon |-> colon,
     plain |-> plain, secretLike |-> secretLike]

Nothing == [assigned |-> {}, recognized |-> {}]

AllKinds == {"Secret", "Domain", "Url", "Email", "Ip", "Cidr", "Phone", "Person",
             "Organization"}

Candidate(kind, value, confidence) ==
    [kind |-> kind, value |-> value, confidence |-> confidence]

Line(head, path, body, role, file) ==
    [head |-> head, path |-> path, body |-> body, role |-> role, file |-> file]

TextInput(body, rules, found, model, answers) ==
    [kind |-> "Text", source |-> "t",
     lines |-> <<Line("", NoPath, body, "text", NoPath)>>,
     policy |-> rules, found |-> found, model |-> model, answers |-> answers]

Sample == <<"a", "b", "A", "b", "a", "a">>

\* Overlapping findings of every kind, touching, nested and in chains.
Findable ==
    {Recognized("Email", 0, 3), Recognized("Domain", 1, 3), Recognized("Url", 0, 5),
     Recognized("Cidr", 2, 5), Recognized("Phone", 2, 4), Recognized("Secret", 4, 6),
     Recognized("Ip", 3, 6), Recognized("Domain", 3, 5)}

Answers ==
    {<<Candidate("Person", <<"b">>, 100), Candidate("Person", <<"b">>, Unstated)>>,
     <<Candidate("Person", <<"b", "a", "a">>, 101), Candidate("Organization", <<"a">>, 90),
       Candidate("Organization", <<"a">>, 80)>>,
     <<Candidate("Email", <<"a">>, 80), Candidate("Person", <<>>, 80),
       Candidate("Person", <<"b", "A", "b">>, 100)>>}

StringRules ==
    {<<>>, <<Rule(<<"a">>, "Regex", "Text"), Rule(<<"A", "b">>, "Exact", "Text")>>,
     <<Rule(<<"A">>, "Contains", "Text"), Rule(<<"b">>, "Exact", "Line")>>}

OverlappingInputs ==
    {TextInput(Sample, Policy(AllKinds, strings, {}),
               [assigned |-> {}, recognized |-> recognized], TRUE, Answers) :
        strings \in StringRules, recognized \in SUBSET Findable}

\* Every kind of assignment, of keys that name several kinds, and repeated secrets.
AssignmentInputs ==
    {TextInput(<<"a", "a", "b", "nl", "a", "a", "b">>,
               Policy(rules, <<Rule(<<"b">>, "Exact", scope)>>, files),
               [assigned |-> {Assigned(0, 2, key, {"Email", "Domain", "Url"}, colon, TRUE, FALSE)},
                recognized |-> {Recognized("Ip", 1, 3)}], FALSE, {}) :
        rules \in {AllKinds, AllKinds \ {"Email", "Secret"}, {}},
        key \in {{"secret"}, {"email", "host"}, {"host", "url"}, {"name"}},
        colon \in BOOLEAN, scope \in {"Text", "Line"}, files \in {{}, {"t"}, {""}}}

Changed(sign, body, file) == Line(sign, NoPath, body, "content", file)

Marker(head, path) == Line(head, path, <<>>, "header", NoPath)

\* A file that is changed, one that is deleted, a binary one and one that is
\* renamed, behind a summary; a line of the first may look like a header.
Diff(first) ==
    <<Line(" ", NoPath, <<"a", "nl">>, "summary", NoPath),
      Marker("diff --git ", "f"), Marker("--- ", "f"), Marker("+++ ", "f"), Marker("@@", NoPath),
      first, Changed(" ", <<>>, "f"), Changed("+", <<"b">>, "f"), Marker("\\ No newline", NoPath),
      Marker("diff --git ", "g"), Marker("other", NoPath), Marker("--- ", "g"),
      Marker("+++ ", NoPath), Marker("@@", NoPath), Changed("-", <<"b", "nl">>, "g"),
      Marker("diff --git ", "h"), Marker("Binary files ", NoPath), Marker("other", NoPath),
      Marker("diff --git ", "i"), Marker("--- ", "i"), Marker("+++ ", "j"), Marker("@@", NoPath),
      Changed("+", <<"a", "nl">>, "j")>>

GitDiffInputs ==
    {[kind |-> "GitDiff", source |-> NoPath, lines |-> Diff(first),
      policy |-> Policy({"Person"}, <<Rule(<<"a">>, "Exact", "Text")>>, files),
      found |-> Nothing, model |-> TRUE, answers |-> {<<Candidate("Person", <<v>>, Unstated)>> : v \in {"a", "b"}}] :
        first \in {Changed("+", <<"a", "nl">>, "f"),
                   Line("--- ", "a", <<"a", "nl">>, "content", "f"),
                   Line("--- ", "f", <<"a", "nl">>, "content", "f"),
                   Line("+++ ", NoPath, <<"a", "nl">>, "content", "f")},
        files \in SUBSET {"f", "g", "j"}}
    \cup {[kind |-> "GitDiff", source |-> NoPath, lines |-> <<Marker("diff --git ", "f")>>,
           policy |-> Policy({}, <<>>, {}), found |-> Nothing, model |-> TRUE,
           answers |-> {}]}

\* A name of characters of two bytes.
WideInputs ==
    {TextInput(<<"h1", "h2", "a", "h1", "h2">>, Policy(rules, <<>>, {}), Nothing, TRUE,
               {<<Candidate("Person", <<"h1", "h2">>, Unstated),
                  Candidate("Person", <<"h1", "h2">>, Unstated)>>,
                <<Candidate("Person", <<"a", "h1", "h2">>, Unstated)>>}) :
        rules \in {{"Person"}, {"Organization"}, {}}}

MCInputs == OverlappingInputs \cup AssignmentInputs \cup GitDiffInputs \cup WideInputs

\* For the runs that show what a test's name says and the code does not do.
LineScopeInputs ==
    {TextInput(Sample, Policy(AllKinds, <<Rule(<<"A">>, "Exact", "Line")>>, {}),
               [assigned |-> {}, recognized |-> recognized], FALSE, {}) :
        recognized \in SUBSET Findable}
=============================================================================
