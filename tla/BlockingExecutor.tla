---------------------------- MODULE BlockingExecutor ----------------------------
(***************************************************************************)
(* The executor that bounds the blocking work of the HTTP service.         *)
(* BlockingExecutor::run waits for a permit of a semaphore and moves it    *)
(* into a closure on a blocking thread; the permit is given back when the  *)
(* closure returns or panics, whether or not anybody still waits for it.   *)
(*                                                                         *)
(* The future of run may be dropped at any await: while it waits for the   *)
(* permit, when it has been given one that it has not used yet, and while  *)
(* it waits for the closure, which then goes on by itself.                 *)
(***************************************************************************)
EXTENDS Naturals, FiniteSets, Sequences

CONSTANTS
    Operations,     \* the calls of run; one may be made again when it is over
    Parallelism     \* the permits of the semaphore (available_parallelism)

ASSUME ParallelismAssumption == Parallelism \in Nat \ {0}

VARIABLES
    available,  \* the permits that nobody has
    waiting,    \* the operations that wait for a permit, the first one first
    granted,    \* the operations with a permit whose future has not gone on yet
    running     \* the operations on a blocking thread, with their permit

executorVars == <<available, waiting, granted, running>>

Waiting == {waiting[i] : i \in DOMAIN waiting}

InitExecutor ==
    /\ available = Parallelism
    /\ waiting = <<>>
    /\ granted = {}
    /\ running = {}

\* run asks for a permit: it gets one, or queues.
Run(o) ==
    /\ o \notin Waiting \cup granted \cup running
    /\ IF available > 0
       THEN /\ available' = available - 1
            /\ granted' = granted \cup {o}
            /\ UNCHANGED waiting
       ELSE /\ waiting' = Append(waiting, o)
            /\ UNCHANGED <<available, granted>>
    /\ UNCHANGED running

\* Mutant: a permit that is given back wakes nobody.
ReleaseSilently(holders) ==
    /\ available' = available + 1
    /\ granted' = holders
    /\ UNCHANGED waiting

\* Mutant: the permit goes to the operation that came last.
ReleaseToNewest(holders) ==
    IF waiting = <<>>
    THEN /\ available' = available + 1
         /\ granted' = holders
         /\ UNCHANGED waiting
    ELSE /\ granted' = holders \cup {waiting[Len(waiting)]}
         /\ waiting' = SubSeq(waiting, 1, Len(waiting) - 1)
         /\ UNCHANGED available

\* A permit is given back: the first in the queue gets it, if there is one.
\* "holders" are the operations that keep the permit they were granted.
Release(holders) ==
    IF waiting = <<>>
    THEN /\ available' = available + 1
         /\ granted' = holders
         /\ UNCHANGED waiting
    ELSE /\ granted' = holders \cup {Head(waiting)}
         /\ waiting' = Tail(waiting)
         /\ UNCHANGED available

\* The future goes on with its permit and spawns the closure.
Spawn(o) ==
    /\ o \in granted
    /\ granted' = granted \ {o}
    /\ running' = running \cup {o}
    /\ UNCHANGED <<available, waiting>>

\* The closure ends, with an answer or a panic.
Return(o) ==
    /\ o \in running
    /\ running' = running \ {o}
    /\ Release(granted)

\* An operation leaves the queue.
Leave(o) ==
    \E i \in DOMAIN waiting :
        /\ waiting[i] = o
        /\ waiting' = SubSeq(waiting, 1, i - 1) \o SubSeq(waiting, i + 1, Len(waiting))

\* Mutant: the permit stays with the future, and is given back with it.
DropWithPermit(o) ==
    \/ /\ Leave(o)
       /\ UNCHANGED <<available, granted, running>>
    \/ /\ o \in granted
       /\ Release(granted \ {o})
       /\ UNCHANGED running
    \/ /\ o \in running
       /\ Release(granted)
       /\ UNCHANGED running

\* The future of run is dropped.
Drop(o) ==
    \/ /\ Leave(o)
       /\ UNCHANGED <<available, granted, running>>
    \/ /\ o \in granted
       /\ Release(granted \ {o})
       /\ UNCHANGED running
    \/ /\ o \in running
       /\ UNCHANGED executorVars

ExecutorNext == \E o \in Operations : Run(o) \/ Spawn(o) \/ Return(o) \/ Drop(o)

ExecutorSpec == InitExecutor /\ [][ExecutorNext]_executorVars

--------------------------------------------------------------------------------

ExecutorTypeOK ==
    /\ available \in 0..Parallelism
    /\ waiting \in Seq(Operations)
    /\ granted \subseteq Operations
    /\ running \subseteq Operations

\* Every permit is free, on its way to a future, or with a closure: none is lost
\* or doubled however futures are dropped, so that never more closures run than
\* there are permits, those that were abandoned included.
PermitsConserved ==
    available + Cardinality(granted) + Cardinality(running) = Parallelism

\* Nobody waits while a permit is free.
NoIdlePermit == waiting # <<>> => available = 0

\* An operation is in one place, and once in the queue.
OnePlace ==
    /\ Waiting \cap granted = {} /\ Waiting \cap running = {} /\ granted \cap running = {}
    /\ \A i, j \in DOMAIN waiting : waiting[i] = waiting[j] => i = j

\* A step gives no permit to an operation while one that queued before it waits.
OvertakesNone ==
    \A i, j \in DOMAIN waiting :
        i < j /\ waiting[j] \in granted'
        => waiting[i] \notin {waiting'[k] : k \in DOMAIN waiting'}

\* The queue is served in the order of the calls, whoever leaves it.
NoOvertaking == [][OvertakesNone]_executorVars
=============================================================================
