------------------------------ MODULE DetectionRules ----------------------------
(***************************************************************************)
(* What the rules of a policy find in a fragment of text: the contextual   *)
(* assignments and the secrets that repeat them, the patterns of the kinds *)
(* that are enabled, and the strings and files that the user has named.    *)
(*                                                                         *)
(* What a regular expression or a validator accepts is an input: the       *)
(* assignments and the matches of a text are given with the text.          *)
(***************************************************************************)
EXTENDS LlmCandidates, SequencesExt

SmallestOf(S) == CHOOSE x \in S : \A y \in S : x <= y
LargestOf(S) == CHOOSE x \in S : \A y \in S : y <= x

Match(start, end) == [start |-> start, end |-> end]

RuleFinding(kind, confidence, match) ==
    [kind |-> kind, source |-> "Rule", confidence |-> confidence,
     start |-> match.start, end |-> match.end]

\* The findings of one kind and confidence, in any order: two of them that the sort
\* of the selection leaves as they were found are equal.
RuleFindings(kind, confidence, matches) ==
    SetToSeq({RuleFinding(kind, confidence, match) : match \in matches})

\* find_iter, match_indices: from the left, each match behind the one before it;
\* no empty match where a match has just ended.
FindIter(text, end) ==
    LET found == {at \in 0..Len(text) : CharBoundary(text, at) /\ end[at] # Unplaced}
        starts[at \in found] ==
            \A q \in found :
                q < at /\ starts[q] => end[q] <= at /\ ~(end[q] = at /\ end[at] = at)
    IN {Match(at, end[at]) : at \in {q \in found : starts[q]}}

MatchesOf(text, value) ==
    FindIter(text, [at \in 0..Len(text) |->
                        IF Prefixed(text, value, at) THEN at + Len(value) ELSE Unplaced])

(***************************************************************************)
(* Contextual assignments: a key, a separator and a value.                 *)
(***************************************************************************)

ContextualSecretKind(a) ==
    IF a.secretLike \/ (~a.colon /\ a.plain) THEN "Secret" ELSE "None"

ContextualOrder == <<"Email", "Domain", "Url", "Phone", "Person">>

KeyWord == [Email |-> "email", Domain |-> "host", Url |-> "url", Phone |-> "phone",
            Person |-> "name"]

Names(a, kind, rules) ==
    /\ kind \in rules
    /\ KeyWord[kind] \in a.key
    /\ kind \in a.valid
    /\ kind = "Domain" => a.plain

\* A key that names a secret decides; else the first kind that key and value name.
ContextualKind(a, rules) ==
    LET named == {i \in DOMAIN ContextualOrder : Names(a, ContextualOrder[i], rules)}
    IN IF "Secret" \in rules /\ "secret" \in a.key THEN ContextualSecretKind(a)
       ELSE IF named # {} THEN ContextualOrder[SmallestOf(named)]
       ELSE IF "Secret" \in rules /\ a.secretLike THEN "Secret" ELSE "None"

Within(match, range) == range.start <= match.start /\ match.end <= range.end

ContextualOf(kind, assigned, rules, range) ==
    {Match(a.start, a.end) :
        a \in {b \in assigned : Within(b, range) /\ ContextualKind(b, rules) = kind}}

ContextualKinds == <<"Secret">> \o ContextualOrder

Contextual(assigned, rules, range) ==
    FlattenSeq([i \in DOMAIN ContextualKinds |->
        RuleFindings(ContextualKinds[i], 99,
                     ContextualOf(ContextualKinds[i], assigned, rules, range))])

Value(text, match) == SubSeq(text, match.start + 1, match.end)

Shifted(matches, by) == {Match(m.start + by, m.end + by) : m \in matches}

\* propagate_repeated_secrets: every occurrence in the fragment of a value that is
\* a secret somewhere in it, unless something was found in that very range.
Propagated(text, assigned, rules, range) ==
    LET values == {Value(text, m) : m \in ContextualOf("Secret", assigned, rules, range)}
        fragment == Value(text, range)
        known == UNION {ContextualOf(ContextualKinds[i], assigned, rules, range) :
                            i \in DOMAIN ContextualKinds}
    IN RuleFindings("Secret", 95,
           (UNION {Shifted(MatchesOf(fragment, v), range.start) : v \in values}) \ known)

(***************************************************************************)
(* The patterns, in the order they are tried.                              *)
(***************************************************************************)

PatternOrder == <<"Secret", "Email", "Url", "Cidr", "Ip", "Phone", "Domain">>

PatternConfidence ==
    [Secret |-> 92, Email |-> 98, Url |-> 96, Cidr |-> 94, Ip |-> 90, Phone |-> 80,
     Domain |-> 76]

Patterns(recognized, rules, range) ==
    LET matches(kind) == {Match(r.start, r.end) :
                              r \in {q \in recognized : q.kind = kind /\ Within(q, range)}}
    IN FlattenSeq([i \in DOMAIN PatternOrder |->
           IF PatternOrder[i] \in rules
           THEN RuleFindings(PatternOrder[i], PatternConfidence[PatternOrder[i]],
                             matches(PatternOrder[i]))
           ELSE <<>>])

Builtins(text, found, rules, range) ==
    Contextual(found.assigned, rules, range)
    \o (IF "Secret" \in rules THEN Propagated(text, found.assigned, rules, range) ELSE <<>>)
    \o Patterns(found.recognized, rules, range)

(***************************************************************************)
(* Strings that the user has named.  A regular expression stands for the   *)
(* repetition of its pattern, which matches the empty string as well.      *)
(***************************************************************************)

LowerCase(c) == IF c = "A" THEN "a" ELSE c

Lower(text) == [i \in DOMAIN text |-> LowerCase(text[i])]

RepetitionEnd(text, pattern, at) ==
    LET times(k) == \A i \in 1..(k * Len(pattern)) :
                        /\ at + i <= Len(text)
                        /\ text[at + i] = pattern[((i - 1) % Len(pattern)) + 1]
    IN at + Len(pattern) * LargestOf({k \in 0..Len(text) : times(k)})

RuleMatches(text, rule) ==
    CASE rule.match = "Exact"    -> MatchesOf(text, rule.pattern)
      [] rule.match = "Contains" -> MatchesOf(Lower(text), Lower(rule.pattern))
      [] rule.match = "Regex"    ->
            FindIter(text, [at \in 0..Len(text) |-> RepetitionEnd(text, rule.pattern, at)])

LineOf(text, match) ==
    Match(LargestOf({0} \cup {i \in 1..match.start : text[i] = "nl"}),
          SmallestOf({Len(text)} \cup {i \in match.end..(Len(text) - 1) : text[i + 1] = "nl"}))

\* One finding for each match of each rule for the text, in the order of the rules,
\* and then one for each line that a rule for lines matches in.
CustomStrings(text, rules) ==
    LET forLines == {rule \in Range(rules) : rule.scope = "Line"}
        lines == {LineOf(text, m) : m \in UNION {RuleMatches(text, rule) : rule \in forLines}}
    IN FlattenSeq([i \in DOMAIN rules |->
           IF rules[i].scope = "Text"
           THEN RuleFindings("CustomString", 100, RuleMatches(text, rules[i]))
           ELSE <<>>])
       \o RuleFindings("CustomString", 100, lines)

\* A range of a file that the user has named is one finding, and searched no further.
InCustomFile(range, files) == range.path \in files

CustomFiles(ranges, files) ==
    FlattenSeq([i \in DOMAIN ranges |->
        IF InCustomFile(ranges[i], files)
        THEN <<RuleFinding("CustomFile", 100, ranges[i])>>
        ELSE <<>>])

MoveBy(findings, offset) ==
    [i \in DOMAIN findings |->
        [findings[i] EXCEPT !.start = @ + offset, !.end = @ + offset]]

\* detect_with_policy, before the selection.
Detected(text, found, policy, ranges) ==
    CustomFiles(ranges, policy.files)
    \o FlattenSeq([i \in DOMAIN ranges |->
           IF InCustomFile(ranges[i], policy.files)
           THEN <<>>
           ELSE Builtins(text, found, policy.rules, ranges[i])
                \o MoveBy(CustomStrings(Value(text, ranges[i]), policy.strings),
                          ranges[i].start)])
=============================================================================
