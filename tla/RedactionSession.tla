---------------------------- MODULE RedactionSession ----------------------------
(***************************************************************************)
(* The data of the redactor and the pure functions over it: the allocation *)
(* of tokens by the replacement processor, the session it builds, the      *)
(* validation of a session, restore permits and what they authorise.       *)
(*                                                                         *)
(* A token is the triple that format_token writes and parse_token reads    *)
(* back (scope, kind, counter); the prefix, the padding and the checksum   *)
(* add nothing to what distinguishes two tokens.  The entries of a session *)
(* are a function from the (kind, original) pairs to their allocation:     *)
(* build_session lists a BTreeMap with that key, and validate_session      *)
(* refuses two entries with one pair.  The redacted text, the fingerprints *)
(* the policy and the hints (a function of the pair) are left out.         *)
(***************************************************************************)
EXTENDS Naturals, Sequences, FiniteSetsExt

CONSTANTS
    Kinds,          \* the finding kinds (FindingKind)
    Originals,      \* the sensitive values that texts may hold
    Scopes,         \* the random scope identifiers that processors draw
    ExternalIds,    \* the external identifiers that clients use
    NoExternalId    \* the absent external identifier (None)

ASSUME NoExternalIdAssumption == NoExternalId \notin ExternalIds

Keys == [kind : Kinds, original : Originals]

Token == [scope : Scopes, kind : Kinds, counter : Nat \ {0}]

Allocation == [token : Token, occurrences : Nat \ {0}]

\* The type of the allocation map of a processor and of a session's entries.
IsEntries(m) ==
    /\ DOMAIN m \subseteq Keys
    /\ m \in [DOMAIN m -> Allocation]

ExternalIdOption == ExternalIds \cup {NoExternalId}

IsSession(s) ==
    /\ s \in [scope : Scopes, ext : ExternalIdOption,
              entries : {s.entries}, issued : SUBSET Token]
    /\ IsEntries(s.entries)

AppliedReplacement == [key : Keys, token : Token]

IsProcessor(p) ==
    /\ p \in [scope : Scopes, ext : ExternalIdOption,
              allocations : {p.allocations}, counters : [Kinds -> Nat],
              applied : Seq(AppliedReplacement)]
    /\ IsEntries(p.allocations)

TokensOf(entries) == {entries[k].token : k \in DOMAIN entries}

(***************************************************************************)
(* The replacement processor                                               *)
(***************************************************************************)
\* Mutant: the scope is a default instead of a random identifier.
NewProcessorFixedScope(scope, ext) ==
    [scope |-> CHOOSE fixed \in Scopes : TRUE,
     ext |-> ext,
     allocations |-> [k \in {} |-> k],
     counters |-> [kind \in Kinds |-> 0],
     applied |-> <<>>]

NewProcessor(scope, ext) ==
    [scope |-> scope,
     ext |-> ext,
     allocations |-> [k \in {} |-> k],
     counters |-> [kind \in Kinds |-> 0],
     applied |-> <<>>]

\* The largest counter that a token of this kind has in the prior entries.
LargestCounter(entries, kind) ==
    Max({0} \cup {entries[k].token.counter :
                    k \in {j \in DOMAIN entries : entries[j].token.kind = kind}})

\* Mutant: the processor takes the prior entries over but not their counters.
WithPriorSessionForgettingCounters(prior, ext) ==
    [scope |-> prior.scope,
     ext |-> IF ext = NoExternalId THEN prior.ext ELSE ext,
     allocations |-> prior.entries,
     counters |-> [kind \in Kinds |-> 0],
     applied |-> <<>>]

\* The processor of a new redaction that continues the prior session.
WithPriorSession(prior, ext) ==
    [scope |-> prior.scope,
     ext |-> IF ext = NoExternalId THEN prior.ext ELSE ext,
     allocations |-> prior.entries,
     counters |-> [kind \in Kinds |-> LargestCounter(prior.entries, kind)],
     applied |-> <<>>]

\* Mutant: the counter is read before it is incremented.
AllocationForBeforeIncrement(p, key) ==
    IF key \in DOMAIN p.allocations
    THEN [token |-> p.allocations[key].token,
          occurrences |-> p.allocations[key].occurrences + 1]
    ELSE [token |-> [scope |-> p.scope,
                     kind |-> key.kind,
                     counter |-> p.counters[key.kind]],
          occurrences |-> 1]

\* Mutant: a repeated finding is not counted.
AllocationForWithoutCounting(p, key) ==
    IF key \in DOMAIN p.allocations
    THEN p.allocations[key]
    ELSE [token |-> [scope |-> p.scope,
                     kind |-> key.kind,
                     counter |-> p.counters[key.kind] + 1],
          occurrences |-> 1]

\* The allocation of a finding: the one it has, or a new token of its kind.
AllocationFor(p, key) ==
    IF key \in DOMAIN p.allocations
    THEN [token |-> p.allocations[key].token,
          occurrences |-> p.allocations[key].occurrences + 1]
    ELSE [token |-> [scope |-> p.scope,
                     kind |-> key.kind,
                     counter |-> p.counters[key.kind] + 1],
          occurrences |-> 1]

\* Mutant: a new token leaves the counter of its kind behind.
CountersAfterStuck(p, key) == p.counters

CountersAfter(p, key) ==
    IF key \in DOMAIN p.allocations
    THEN p.counters
    ELSE [p.counters EXCEPT ![key.kind] = @ + 1]

\* One iteration of the loop of redact_fragment: replace one finding.
ReplaceFinding(p, key) ==
    [scope |-> p.scope,
     ext |-> p.ext,
     allocations |-> [k \in DOMAIN p.allocations \cup {key} |->
                        IF k = key THEN AllocationFor(p, key)
                                   ELSE p.allocations[k]],
     counters |-> CountersAfter(p, key),
     applied |-> Append(p.applied,
                        [key |-> key, token |-> AllocationFor(p, key).token])]

IssuedTokens(p) == {p.applied[i].token : i \in DOMAIN p.applied}

BuildSession(p) ==
    [scope |-> p.scope,
     ext |-> p.ext,
     entries |-> p.allocations,
     issued |-> IssuedTokens(p)]

(***************************************************************************)
(* Validation of a session                                                 *)
(***************************************************************************)
\* No two entries have one token.
TokensDistinct(entries) ==
    \A k1, k2 \in DOMAIN entries :
        entries[k1].token = entries[k2].token => k1 = k2

ValidSession(s) ==
    /\ TokensDistinct(s.entries)
    /\ \A k \in DOMAIN s.entries : /\ s.entries[k].token.scope = s.scope
                                   /\ s.entries[k].token.kind = k.kind
    /\ s.issued \subseteq TokensOf(s.entries)

ValidPriorSession(s, ext) ==
    /\ ValidSession(s)
    /\ \/ ext = NoExternalId
       \/ s.ext = NoExternalId
       \/ s.ext = ext

(***************************************************************************)
(* Restore permits                                                         *)
(***************************************************************************)
CreateRestorePermit(s) ==
    [scope |-> s.scope, ext |-> s.ext, issued |-> s.issued]

\* The conditions under which authorized_tokens does not refuse a permit.
PermitAccepted(s, permit) ==
    /\ permit.scope = s.scope
    /\ permit.ext = s.ext
    /\ permit.issued \subseteq TokensOf(s.entries)

AuthorizedTokens(permits) == UNION {permit.issued : permit \in permits}

\* The value that the token map of a restore context gives for a token.
OriginalOf(s, token) ==
    (CHOOSE k \in DOMAIN s.entries : s.entries[k].token = token).original

\* Restoring a text with these permits is accepted, and puts this value in
\* the place of this token.
RestoresTo(s, permits, token, original) ==
    /\ \A permit \in permits : PermitAccepted(s, permit)
    /\ token \in AuthorizedTokens(permits)
    /\ OriginalOf(s, token) = original
=============================================================================
