------------------------------- MODULE MCToolCall -------------------------------
(* A small instance of ToolCall: two writers of one file and a call of a tool *)
(* whose policy allows a retry, idempotent or not.                            *)
EXTENDS ToolCall

CONSTANTS w1, w2, query, notes, s1

Policy(idempotent, retries) == [idempotent |-> idempotent, max_retries |-> retries]
MixedPolicies ==
    [c \in Calls |-> IF c = query THEN {Policy(TRUE, 1), Policy(FALSE, 1), Policy(TRUE, -1)}
                                  ELSE {Policy(FALSE, 0)}]
WrittenFile == [c \in Writers |-> notes]
OneStripe == [c \in Writers |-> s1]
===============================================================================
