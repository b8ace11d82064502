----------------------------- MODULE MCSqsSafety -----------------------------
(***************************************************************************)
(* One instance for the safety of three set-ups: a FIFO queue on its own,  *)
(* a FIFO queue with a dead-letter queue, and a standard queue with one.   *)
(* The queues outside the set-up in focus ended before the start, so that  *)
(* nothing happens to them.                                                *)
(***************************************************************************)
EXTENDS MCSqs

CONSTANTS qc, qd, nC, nD   \* the FIFO queue and its dead-letter queue

VARIABLE focus

FourNames == [q \in Queues |-> CASE q = qa -> nA [] q = qb -> nB [] q = qc -> nC [] q = qd -> nD]
Pairs == [q \in Queues |-> CASE q = qa -> Attr(nB, 1) [] q = qc -> Attr(nD, 1)
                             [] q \in {qb, qd} -> Attr(NoQueue, 0)]

\* The dead-letter queues may withdraw their permission.
Permissions == [q \in Queues |-> IF q \in {qb, qd} THEN {[Attr(NoQueue, 0) EXCEPT !.allow = {}]} ELSE {}]

InFocus(f) == CASE f = "fifo" -> {qc} [] f = "fifo redrive" -> {qc, qd} [] f = "redrive" -> {qa, qb}

SafetyInit ==
    /\ focus \in {"fifo", "fifo redrive", "redrive"}
    /\ registry = [n \in Names |-> IF \E q \in InFocus(focus) : NameOf[q] = n
                                   THEN CHOOSE q \in InFocus(focus) : NameOf[q] = n ELSE NoQueue]
    /\ status = [q \in Queues |-> IF q \in InFocus(focus) THEN "running" ELSE "stopped"]
    /\ shutdown = [q \in Queues |-> FALSE]
    /\ attrs = IF focus = "fifo" THEN [Attrs0 EXCEPT ![qc] = Attr(NoQueue, 0)] ELSE Attrs0
    /\ store = [q \in Queues |-> Storage(q)]
    /\ chan = [q \in Queues |-> <<>>]
    /\ pending = [q \in Queues |-> {}]
    /\ quiescing = [q \in Queues |-> FALSE]
    /\ quiesceReply = [q \in Queues |-> "none"]
    /\ stopping = [q \in Queues |-> FALSE]
    /\ polls = [q \in Queues |-> <<>>]
    /\ todo = [q \in Queues |-> <<>>]
    /\ phase = [q \in Queues |-> "select"]
    /\ purgeLeft = [q \in Queues |-> 0]
    /\ provider = [op |-> "none", todo |-> {}, cur |-> NoQueue, all |-> {}]
    /\ nextId = 1
    /\ gone = {}

\* four messages and long polls without redrive, two messages with it
SafetyBound ==
    CASE focus = "fifo" -> provider'.op = "none"
      [] focus = "fifo redrive" -> provider'.op = "none" /\ nextId' <= 3 /\ polls'[qc] = <<>> /\ polls'[qd] = <<>>
      [] focus = "redrive" -> nextId' <= 3 /\ polls'[qa] = <<>> /\ polls'[qb] = <<>>

SafetySpec == SafetyInit /\ [][Next /\ SafetyBound /\ UNCHANGED focus]_<<vars, focus>>
=============================================================================
