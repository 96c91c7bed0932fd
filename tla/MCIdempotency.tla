--------------------------- MODULE MCIdempotency ---------------------------
(* Instances of Idempotency for TLC: several copies of one operation, and   *)
(* one request for another operation under the same key.                    *)
EXTENDS Idempotency

CONSTANTS other, opA, opB

TwoOperations == [r \in Requests |-> IF r = other THEN opB ELSE opA]

\* What a key stands for is kept, with every value of its type: while it lives
\* one request has it, a response is the one of the record it is stored under,
\* and work is done twice only where the first attempt failed.
KeyIsKept == TypeOK /\ ExclusiveWhileLive /\ ResponseOfRecord /\ DoneOnceUnlessFailed
=============================================================================
