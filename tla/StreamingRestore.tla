---------------------------- MODULE StreamingRestore ----------------------------
(***************************************************************************)
(* Restoring one decoded text stream character by character                *)
(* (StreamingRestoreContext), next to the restoration of the whole text    *)
(* (restore_text over scan_token_like_ranges) that it has to agree with.   *)
(*                                                                         *)
(* Text is a sequence of characters, each with its width in bytes; the     *)
(* marker's prefix and suffix are parameters.  A candidate that parses is  *)
(* a token, and a token is authorised or not.  push_str pushes the         *)
(* characters of its fragment one by one and merges nothing across calls,  *)
(* so that where a stream is cut into fragments makes no difference.       *)
(***************************************************************************)
EXTENDS Naturals, Sequences, FiniteSetsExt

CONSTANTS
    Characters,     \* the characters of the stream
    Width,          \* character -> its UTF-8 width
    Prefix,         \* TOKEN_PREFIX
    Suffix,         \* TOKEN_SUFFIX
    Tokens,         \* the candidates that parse_token accepts
    Authorized,     \* the tokens that the permits authorise
    MaxBytes,       \* MAX_TOKEN_CANDIDATE_BYTES
    MaxInput        \* bound: the length of the stream

\* The suffix does not begin with a character of the prefix ("[[RDX:v2:" and
\* "]]"), so that none begins inside of a prefix.
ASSUME MarkerAssumption ==
    /\ Prefix \in Seq(Characters) /\ Suffix \in Seq(Characters)
    /\ Len(Prefix) > 0 /\ Len(Suffix) > 0
    /\ \A i \in 1..Len(Prefix) : Prefix[i] # Suffix[1]

ASSUME WidthAssumption == Width \in [Characters -> Nat \ {0}]

ASSUME BoundAssumption == MaxBytes \in Nat /\ MaxInput \in Nat

VARIABLES
    input,      \* the characters that have been pushed
    pending,    \* what is held back: a candidate, or what may become one
    result,     \* the results of the calls so far, merged
    finished

vars == <<input, pending, result, finished>>

--------------------------------------------------------------------------------
(***************************************************************************)
(* Text and results                                                        *)
(***************************************************************************)
StartsWith(text, s) == Len(s) =< Len(text) /\ SubSeq(text, 1, Len(s)) = s

From(text, i) == SubSeq(text, i, Len(text))

EndsWith(text, s) ==
    Len(s) =< Len(text) /\ From(text, Len(text) - Len(s) + 1) = s

Bytes(text) ==
    LET upTo[n \in 0..Len(text)] ==
            IF n = 0 THEN 0 ELSE upTo[n - 1] + Width[text[n]]
    IN upTo[Len(text)]

\* No character is wider than the prefix, and the limit has room for a prefix
\* (at most 4 bytes, 9 bytes and 4096 bytes).
ASSUME LimitAssumption ==
    /\ \A ch \in Characters : Width[ch] =< Bytes(Prefix)
    /\ Bytes(Prefix) =< MaxBytes

\* parse_token strips the prefix and the suffix.
ASSUME TokensAssumption ==
    /\ Authorized \subseteq Tokens
    /\ \A token \in Tokens : /\ token \in Seq(Characters)
                             /\ StartsWith(token, Prefix)
                             /\ EndsWith(token, Suffix)

\* A result: the restored text in pieces, and the candidates that were skipped
\* or left unresolved.  A piece is a character or the original of a token.
EmptyResult == [pieces |-> <<>>, skipped |-> <<>>, unresolved |-> <<>>]

Piece(text, original) == [text |-> text, original |-> original]

Plain(text) ==
    [EmptyResult EXCEPT !.pieces = [i \in DOMAIN text |-> Piece(<<text[i]>>, FALSE)]]

\* Mutant: an unresolved candidate is reported but does not stay in the text.
UnresolvedDropped(text) == [EmptyResult EXCEPT !.unresolved = <<text>>]

Unresolved(text) == [Plain(text) EXCEPT !.unresolved = <<text>>]

MergeResult(target, source) ==
    [pieces |-> target.pieces \o source.pieces,
     skipped |-> target.skipped \o source.skipped,
     unresolved |-> target.unresolved \o source.unresolved]

RestoreCandidate(candidate) ==
    IF candidate \notin Tokens THEN Unresolved(candidate)
    ELSE IF candidate \notin Authorized
    THEN [Plain(candidate) EXCEPT !.skipped = <<candidate>>]
    ELSE [EmptyResult EXCEPT !.pieces = <<Piece(candidate, TRUE)>>]

--------------------------------------------------------------------------------
(***************************************************************************)
(* Restoring the whole text                                                *)
(***************************************************************************)

\* The positions at or after i where s starts.
Occurrences(text, s, i) == {j \in i..Len(text) : StartsWith(From(text, j), s)}

\* The position after the candidate that starts at i: after the first suffix,
\* or where the limit of an unterminated candidate or the text ends.
CandidateEnd(text, i) ==
    LET body == i + Len(Prefix)
        closing == Occurrences(text, Suffix, body) IN
    IF closing # {}
    THEN Min(closing) + Len(Suffix)
    ELSE Max({j \in body..(Len(text) + 1) :
                Bytes(SubSeq(text, body, j - 1)) =< MaxBytes})

\* Where the scan goes on after the first n candidates.
Cursor(ranges, n) == IF n = 0 THEN 1 ELSE ranges[n].end

\* One more candidate, as long as there is one.
Scan(text, ranges) ==
    LET starts == Occurrences(text, Prefix, Cursor(ranges, Len(ranges))) IN
    IF starts = {}
    THEN ranges
    ELSE Append(ranges, [start |-> Min(starts),
                         end |-> CandidateEnd(text, Min(starts))])

\* The candidates of a text, of which it has no more than characters.
Candidates(text) ==
    LET after[n \in 0..Len(text)] ==
            IF n = 0 THEN <<>> ELSE Scan(text, after[n - 1])
    IN after[Len(text)]

\* The text up to the last of its candidates, restored.
RestoreRanges(text, ranges) ==
    LET upTo[n \in 0..Len(ranges)] ==
            IF n = 0
            THEN EmptyResult
            ELSE MergeResult(
                    MergeResult(upTo[n - 1],
                        Plain(SubSeq(text, Cursor(ranges, n - 1),
                                     ranges[n].start - 1))),
                    RestoreCandidate(
                        SubSeq(text, ranges[n].start, ranges[n].end - 1)))
    IN upTo[Len(ranges)]

RestoreText(text) ==
    LET ranges == Candidates(text) IN
    MergeResult(RestoreRanges(text, ranges),
                Plain(From(text, Cursor(ranges, Len(ranges)))))

--------------------------------------------------------------------------------
(***************************************************************************)
(* Restoring the stream                                                    *)
(***************************************************************************)
IsCandidate(text) == StartsWith(text, Prefix)

\* Whether the text may become a candidate with the characters to come.
MayBecomeCandidate(text) == StartsWith(Prefix, text)

\* Mutant: a text that is no beginning of a prefix goes out as a whole.
KeepFromNothing(text) == IF MayBecomeCandidate(text) THEN 1 ELSE Len(text) + 1

\* Where flush_non_marker_prefix cuts the text: what is before goes out.
KeepFrom(text) ==
    Min({i \in 1..Len(text) : MayBecomeCandidate(From(text, i))}
            \cup {Len(text) + 1})

\* Mutant: the limit is checked before the character is counted.
OverflowsLate(ch) == IsCandidate(pending) /\ Bytes(pending) > MaxBytes

Overflows(ch) == IsCandidate(pending) /\ Bytes(pending) + Width[ch] > MaxBytes

Init ==
    /\ input = <<>>
    /\ pending = <<>>
    /\ result = EmptyResult
    /\ finished = FALSE

PushChar(ch) ==
    LET flushed == IF Overflows(ch) THEN Unresolved(pending) ELSE EmptyResult
        text == IF Overflows(ch) THEN <<ch>> ELSE Append(pending, ch)
        before == MergeResult(result, flushed) IN
    /\ ~finished
    /\ Len(input) < MaxInput
    /\ input' = Append(input, ch)
    /\ IF IsCandidate(text)
       THEN IF EndsWith(text, Suffix)
            THEN /\ pending' = <<>>
                 /\ result' = MergeResult(before, RestoreCandidate(text))
            ELSE /\ pending' = text
                 /\ result' = before
       ELSE /\ pending' = From(text, KeepFrom(text))
            /\ result' = MergeResult(before, Plain(SubSeq(text, 1, KeepFrom(text) - 1)))
    /\ UNCHANGED finished

Finish ==
    /\ ~finished
    /\ finished' = TRUE
    /\ result' = MergeResult(result, IF IsCandidate(pending)
                                     THEN Unresolved(pending)
                                     ELSE Plain(pending))
    /\ pending' = <<>>
    /\ UNCHANGED input

Next == (\E ch \in Characters : PushChar(ch)) \/ Finish

Spec == Init /\ [][Next]_vars

--------------------------------------------------------------------------------
(***************************************************************************)
(* Properties                                                              *)
(***************************************************************************)

\* What is held back is a candidate within the limit that is not closed yet, or
\* the beginning of a prefix: memory is bounded, and a character goes out as
\* soon as it cannot be part of a token any more.
PendingBounded ==
    \/ MayBecomeCandidate(pending)
    \/ /\ IsCandidate(pending)
       /\ Bytes(pending) =< MaxBytes
       /\ Occurrences(pending, Suffix, Len(Prefix) + 1) = {}

\* The text that the pieces of a result stand for.
Source(pieces) ==
    LET upTo[n \in 0..Len(pieces)] ==
            IF n = 0 THEN <<>> ELSE upTo[n - 1] \o pieces[n].text
    IN upTo[Len(pieces)]

\* Nothing of the stream is lost, repeated or reordered.
NothingLost == Source(result.pieces) \o pending = input

\* The candidates of the text are within the limit of the stream.
CandidatesFit(text) ==
    LET ranges == Candidates(text) IN
    \A n \in DOMAIN ranges :
        Bytes(SubSeq(text, ranges[n].start, ranges[n].end - 1)) =< MaxBytes

\* A stream is restored as its whole text would be, with the same candidates
\* skipped and unresolved, unless a candidate exceeds the limit.
StreamEqualsWhole ==
    finished /\ CandidatesFit(input) => result = RestoreText(input)
=============================================================================
