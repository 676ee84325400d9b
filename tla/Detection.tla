-------------------------------- MODULE Detection -------------------------------
(***************************************************************************)
(* detect_internal, from the ranges of the input to the findings that are  *)
(* redacted: the scanner of git diffs, the rules of the policy, a first    *)
(* selection, the candidates of a language model if one is configured, and *)
(* a second selection of what the first has left together with them.       *)
(***************************************************************************)
EXTENDS GitDiffRanges, DetectionRules, OverlapSelection

CONSTANT Inputs     \* what there is to redact, with the policy and the model

Rules == [pattern : Seq(STRING), match : {"Exact", "Contains", "Regex"},
          scope : {"Text", "Line"}]

Policies == [rules : SUBSET STRING, strings : Seq(Rules), files : SUBSET (STRING \ {NoPath})]

Assignments == [start : Nat, end : Nat, key : SUBSET STRING, valid : SUBSET STRING,
                colon : BOOLEAN, plain : BOOLEAN, secretLike : BOOLEAN]

Recognitions == [kind : STRING, start : Nat, end : Nat]

Candidates == [kind : STRING, value : Seq(STRING), confidence : Nat \cup {Unstated}]

ASSUME InputsAssumption ==
    \A in \in Inputs :
        /\ in.source \in STRING \cup {NoPath}
        /\ in.lines \in Seq(Lines)
        /\ in.kind = "GitDiff" => WrittenByGit(in.lines)
        /\ in.policy \in Policies
        /\ in.found.assigned \in SUBSET Assignments
        /\ in.found.recognized \in SUBSET Recognitions
        /\ \A m \in in.found.assigned \cup in.found.recognized : m.start <= m.end
        /\ in.answers \in SUBSET Seq(Candidates)

VARIABLES
    phase,          \* what is done next
    input,          \* the element of Inputs
    findings,       \* what the selection under way selects from
    candidates,     \* what the model has named
    next,           \* the first of them that is not placed or skipped yet
    consumed,       \* per value, how many of its positions have been passed
    placed,         \* the findings placed for candidates
    stats           \* llm_request_failed and llm_candidates_total

detectionVars == <<phase, input, findings, candidates, next, consumed, placed, stats>>

vars == <<detectionVars, scannerVars, selectionVars>>

policy == input.policy

text == FlattenSeq([i \in DOMAIN input.lines |->
            (IF input.lines[i].head = "" THEN <<>> ELSE <<input.lines[i].head>>)
            \o input.lines[i].body])

NoStats == [failed |-> FALSE, total |-> 0]

Init ==
    /\ input \in Inputs
    /\ InitScanner(input.lines)
    /\ phase = "building"
    /\ findings = <<>>
    /\ candidates = <<>>
    /\ next = 1
    /\ consumed = <<>>
    /\ placed = <<>>
    /\ stats = NoStats
    /\ pending = <<>>
    /\ selected = <<>>
    /\ dropped = 0

(***************************************************************************)
(* Ranges and rules                                                        *)
(***************************************************************************)

\* try_build: a policy that names an empty string or file makes no redactor.
ValidStructure ==
    /\ \A i \in DOMAIN policy.strings : policy.strings[i].pattern # <<>>
    /\ "" \notin policy.files

Build ==
    /\ phase = "building"
    /\ phase' = IF ValidStructure THEN "scanning" ELSE "rejected"
    /\ UNCHANGED <<input, findings, candidates, next, consumed, placed, stats, scannerVars,
                   selectionVars>>

FindRanges ==
    /\ phase = "scanning"
    /\ unread # <<>>
    /\ \/ input.kind = "GitDiff" /\ ScanLine
       \/ input.kind = "Text" /\ WholeText(input.source)
    /\ UNCHANGED <<detectionVars, selectionVars>>

\* No range of the input may be searched: nothing is, and no model is asked.
NothingToSearch ==
    /\ phase = "scanning"
    /\ unread = <<>> /\ ranges = <<>>
    /\ phase' = "done"
    /\ UNCHANGED <<input, findings, candidates, next, consumed, placed, stats, scannerVars,
                   selectionVars>>

DetectWithPolicy ==
    /\ phase = "scanning"
    /\ unread = <<>> /\ ranges # <<>>
    /\ findings' = Detected(text, input.found, policy, ranges)
    /\ StartSelection(findings')
    /\ phase' = "selecting"
    /\ UNCHANGED <<input, candidates, next, consumed, placed, stats, scannerVars, dropped>>

Selection ==
    /\ phase \in {"selecting", "merging"}
    /\ Sweep
    /\ UNCHANGED <<detectionVars, scannerVars>>

(***************************************************************************)
(* The language model                                                      *)
(***************************************************************************)

WithoutModel ==
    /\ phase = "selecting" /\ pending = <<>>
    /\ ~input.model
    /\ phase' = "done"
    /\ UNCHANGED <<input, findings, candidates, next, consumed, placed, stats, scannerVars,
                   selectionVars>>

\* discover_candidates asks for nothing when the rules allow no kind of the model.
NothingToAsk ==
    /\ phase = "selecting" /\ pending = <<>>
    /\ input.model
    /\ AllowedKinds(policy.rules) = {}
    /\ phase' = "placing"
    /\ UNCHANGED <<input, findings, candidates, next, consumed, placed, stats, scannerVars,
                   selectionVars>>

\* A call that fails, or an answer that cannot be read, is noted and no more.
ModelFails ==
    /\ phase = "selecting" /\ pending = <<>>
    /\ input.model
    /\ AllowedKinds(policy.rules) # {}
    /\ stats' = [stats EXCEPT !.failed = TRUE]
    /\ phase' = "placing"
    /\ UNCHANGED <<input, findings, candidates, next, consumed, placed, scannerVars,
                   selectionVars>>

\* The positions of every value are collected first, whatever its kind.
ModelAnswers ==
    /\ phase = "selecting" /\ pending = <<>>
    /\ input.model
    /\ AllowedKinds(policy.rules) # {}
    /\ \E answer \in input.answers :
          /\ candidates' = answer
          /\ consumed' = [v \in {answer[i].value : i \in DOMAIN answer} |-> 0]
          /\ phase' = IF \E i \in DOMAIN answer : SearchPanics(text, answer[i].value)
                      THEN "panicked" ELSE "placing"
    /\ UNCHANGED <<input, findings, next, placed, stats, scannerVars, selectionVars>>

Placeable(candidate) ==
    candidate.kind \in AllowedKinds(policy.rules) /\ candidate.value # <<>>

SkipCandidate ==
    /\ phase = "placing"
    /\ next <= Len(candidates)
    /\ ~Placeable(candidates[next])
    /\ next' = next + 1
    /\ UNCHANGED <<phase, input, findings, candidates, consumed, placed, stats,
                   scannerVars, selectionVars>>

PlaceCandidate ==
    /\ phase = "placing"
    /\ next <= Len(candidates)
    /\ Placeable(candidates[next])
    /\ LET candidate == candidates[next]
           length == Len(candidate.value)
           positions == Occurrences(text, candidate.value)
           at == NextUnoccupied(positions, consumed[candidate.value], length, Range(placed))
       IN /\ consumed' = [consumed EXCEPT ![candidate.value] = ConsumedAfter(positions, at)]
          /\ placed' = IF at = Unplaced THEN placed
                       ELSE Append(placed,
                                [kind |-> candidate.kind, source |-> "Llm",
                                 confidence |-> Confidence(candidate.confidence),
                                 start |-> at, end |-> at + length])
    /\ next' = next + 1
    /\ UNCHANGED <<phase, input, findings, candidates, stats, scannerVars, selectionVars>>

\* filter_findings_to_ranges: only after every candidate has its position.
AcceptedFromModel ==
    FlattenSeq([i \in DOMAIN placed |->
        IF InSomeRange(placed[i], ranges) THEN <<placed[i]>> ELSE <<>>])

MergeModel ==
    /\ phase = "placing"
    /\ next > Len(candidates)
    /\ findings' = selected \o AcceptedFromModel
    /\ stats' = [stats EXCEPT !.total = @ + Len(AcceptedFromModel)]
    /\ StartSelection(findings')
    /\ phase' = "merging"
    /\ UNCHANGED <<input, candidates, next, consumed, placed, scannerVars, dropped>>

Finish ==
    /\ phase = "merging"
    /\ pending = <<>>
    /\ phase' = "done"
    /\ UNCHANGED <<input, findings, candidates, next, consumed, placed, stats, scannerVars,
                   selectionVars>>

Next ==
    \/ Build
    \/ FindRanges
    \/ NothingToSearch
    \/ DetectWithPolicy
    \/ Selection
    \/ WithoutModel
    \/ NothingToAsk
    \/ ModelFails
    \/ ModelAnswers
    \/ SkipCandidate
    \/ PlaceCandidate
    \/ MergeModel
    \/ Finish

Spec == Init /\ [][Next]_vars

(***************************************************************************)
(* Properties                                                              *)
(***************************************************************************)

Overridden(f, g) ==
    IF Before(f, g) THEN PreferRight(f, g) ELSE ~PreferRight(g, f)

\* A finding is given up only for one that it overlaps and that is preferred to
\* it: what beats everything it overlaps is redacted, however far a chain of
\* overlapping findings reaches.  (A finding that is not the last one selected is
\* never compared again, and one that was dropped never comes back.)
UnbeatenSelected ==
    phase = "done" /\ ranges # <<>> =>
        \A f \in Range(findings) :
            \/ f \in Range(selected)
            \/ \E g \in Range(findings) \ {f} : Overlaps(f, g) /\ Overridden(f, g)

\* Nothing that a rule has found and the first selection kept is given up for
\* what a language model claims, except custom strings, of which a smaller part
\* may be taken, and phone numbers, which a long and confident name outweighs.
RulesWithstandModel ==
    phase = "done" /\ stats.total > 0 =>
        \A f \in Range(findings) :
            f.source = "Rule" /\ f.kind \notin {"CustomString", "Phone"}
            => f \in Range(selected)

\* Findings of the model: each in a range that may be redacted, on an occurrence
\* of a value that the model has named, and no two on the same text.
CandidatesPlacedApart ==
    phase \in {"merging", "done"} =>
        LET ofModel == {i \in DOMAIN findings : findings[i].source = "Llm"}
        IN /\ \A i \in ofModel :
                 /\ InSomeRange(findings[i], ranges)
                 /\ Value(text, findings[i]) \in DOMAIN consumed
           /\ \A i, j \in ofModel :
                 i # j => ~Overlaps(findings[i], findings[j])

\* Of a git diff only the content of changed lines is searched: no header, no
\* hunk header and no binary data is altered.
RangesAreContent ==
    input.kind = "GitDiff" =>
        \A i \in DOMAIN ranges : \E n \in Content(input.lines) :
            /\ ranges[i].start = BodyRange(input.lines, n).start
            /\ ranges[i].end = BodyRange(input.lines, n).end

\* A changed line of a file that the policy names is withheld as a whole, with two
\* exceptions: the line itself is taken for a header, or a line before it, in the
\* same file, is taken for the header of another one.  The next "diff --git" ends
\* the second.
CustomFilesWithheld ==
    phase = "done" /\ input.kind = "GitDiff" =>
        \A n \in Content(input.lines) :
            /\ input.lines[n].file \in policy.files
            /\ ~TakenForHeader(input.lines[n])
            /\ FileKept(input.lines, n)
            => \E f \in Range(selected) :
                  /\ f.kind = "CustomFile"
                  /\ f.start = BodyRange(input.lines, n).start
                  /\ f.end = BodyRange(input.lines, n).end

(***************************************************************************)
(* What the tests of the repository say, and the code does not do          *)
(***************************************************************************)

\* custom_string_line_scope_redacts_entire_line: where a rule for lines matches,
\* no byte of the line is left as it was.
LineScopeRedactsEntireLine ==
    phase = "done" /\ input.kind = "Text" =>
        \A rule \in {r \in Range(policy.strings) : r.scope = "Line"} :
            \A match \in RuleMatches(text, rule) :
                \A at \in LineOf(text, match).start..(LineOf(text, match).end - 1) :
                    \E f \in Range(selected) : f.start <= at /\ at < f.end

\* parse_candidates_maps_duplicate_values_to_distinct_occurrences: where only one
\* value is named, it is placed as often as it is named and occurs.
DuplicatesMapToDistinctOccurrences ==
    /\ phase \in {"merging", "panicked"}
    /\ \A i \in DOMAIN candidates :
          Placeable(candidates[i]) /\ candidates[i].value = candidates[1].value
    => \A i \in DOMAIN candidates :
          Len(placed) >= i
          \/ Cardinality(MatchesOf(text, candidates[i].value)) <= Len(placed)

\* git_diff_ranges_only_cover_hunk_lines: the ranges of a diff are its hunk
\* lines, each of them.
HunkLinesCovered ==
    unread = <<>> /\ input.kind = "GitDiff" =>
        \A n \in Content(input.lines) :
            \E i \in DOMAIN ranges : ranges[i].start = LineStart(input.lines, n) + 1
=============================================================================
