--------------------------------- MODULE MCSqs ---------------------------------
(***************************************************************************)
(* Small instances of SqsQueues.                                           *)
(***************************************************************************)
EXTENDS SqsQueues

CONSTANTS qa, qb, qa2, nA, nB

\* One queue qa, or a source qa and its dead-letter queue qb; qa2 is a second
\* incarnation of qa's name.
OneName  == [q \in Queues |-> nA]
TwoNames == [q \in Queues |-> IF q = qb THEN nB ELSE nA]

Attr(dlq, max) == [dlq |-> dlq, maxReceive |-> max, allow |-> Names, maxSize |-> 1, perGroup |-> FALSE]

Plain   == [q \in Queues |-> Attr(NoQueue, 0)]
Fixed   == [q \in Queues |-> {}]
\* The second incarnation may be switched to deduplication by group.
Scoped  == [q \in Queues |-> IF q = qa2 THEN {[Attr(NoQueue, 0) EXCEPT !.perGroup = TRUE]} ELSE {}]
Cycle   == [q \in Queues |-> IF q = qb THEN Attr(nA, 1) ELSE Attr(nB, 1)]
=============================================================================
