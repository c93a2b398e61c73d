---------------------------- MODULE MCThriftRequest ----------------------------
(* A small instance of ThriftRequest: three requests over two workers.     *)
EXTENDS ThriftRequest

CONSTANTS r1, r2, r3, w1, w2

(* r1 and r2 on one connection, r3 on another.                             *)
TwoWorkers == [r \in Requests |-> IF r = r3 THEN w2 ELSE w1]

(* r1's queue and task timeouts differ, so that both its timers are        *)
(* scheduled; the others have none.                                        *)
FirstTimers == [r \in Requests |-> IF r = r1 THEN {"queue", "task"} ELSE {}]

================================================================================
