------------------------------ MODULE Conversations ------------------------------
(***************************************************************************)
(* What stateful redaction promises, without a store, versions, messages   *)
(* or failures: every conversation is a dictionary from values to tokens   *)
(* that only grows; a redaction request adds what its text needs to the    *)
(* dictionary of its conversation in one atomic step, at most once; and it *)
(* is answered, if at all, after that step, with tokens of the dictionary. *)
(***************************************************************************)
CONSTANTS Requests, ExternalIds

VARIABLES
    target,     \* request -> its conversation
    book,       \* conversation -> its dictionary, from values to tokens
    committed,  \* the requests that have taken effect
    answer      \* answered request -> the pairs of token and value it was told

vars == <<target, book, committed, answer>>

Init ==
    /\ target \in [Requests -> ExternalIds]
    /\ book = [e \in ExternalIds |-> [k \in {} |-> k]]
    /\ committed = {}
    /\ answer = [r \in {} |-> r]

\* The one map holds everything that the other does.
ExtendedBy(old, new) ==
    \A k \in DOMAIN old : k \in DOMAIN new /\ new[k] = old[k]

\* No token stands for two values, in one dictionary or in two.
Unambiguous(dictionaries) ==
    \A d, e \in ExternalIds :
        \A k \in DOMAIN dictionaries[d], j \in DOMAIN dictionaries[e] :
            dictionaries[d][k] = dictionaries[e][j] => d = e /\ k = j

Commit(r) ==
    /\ r \notin committed
    /\ committed' = committed \cup {r}
    /\ ExtendedBy(book[target[r]], book'[target[r]])
    /\ \A e \in ExternalIds : e # target[r] => book'[e] = book[e]
    /\ Unambiguous(book')
    /\ UNCHANGED <<target, answer>>

\* The pairs of token and value of a dictionary.
Meanings(dictionary) == {<<dictionary[k], k>> : k \in DOMAIN dictionary}

Answer(r) ==
    /\ r \in committed
    /\ r \notin DOMAIN answer
    /\ DOMAIN answer' = DOMAIN answer \cup {r}
    /\ answer'[r] \subseteq Meanings(book[target[r]])
    /\ ExtendedBy(answer, answer')
    /\ UNCHANGED <<target, book, committed>>

Next == \E r \in Requests : Commit(r) \/ Answer(r)

Spec == Init /\ [][Next]_vars
=============================================================================
