----------------------------- MODULE CommandOnce -----------------------------
(***************************************************************************)
(* What the command receipts of                                            *)
(* backend/app/services/workflow_command_executor.py promise their         *)
(* clients: the command behind an identity (actor, type, command id) is    *)
(* decided once, for one payload, and is never undone; a client that is    *)
(* told the result is told the result of a command that took effect for    *)
(* the payload it sent.                                                    *)
(***************************************************************************)
CONSTANTS Request, Identity, Payload, IdentityOf, PayloadOf

VARIABLES
    outcome,    \* outcome[k]: "open", or what was decided for which payload
    answer      \* answer[r]: what the sender of request r was told

vars == <<outcome, answer>>

Open == [status |-> "none"]
Decided(status, p) == [status |-> status, payload |-> p]

Init ==
    /\ outcome = [k \in Identity |-> Open]
    /\ answer = [r \in Request |-> "none"]

\* The command takes effect, or is refused for good.
Decide(r) ==
    LET k == IdentityOf[r] IN
    /\ answer[r] = "none"
    /\ outcome[k] = Open
    /\ \/ /\ outcome' = [outcome EXCEPT ![k] = Decided("succeeded", PayloadOf[r])]
          /\ \E a \in {"result", "lost"} : answer' = [answer EXCEPT ![r] = a]
       \/ /\ outcome' = [outcome EXCEPT ![k] = Decided("failed", PayloadOf[r])]
          /\ \E a \in {"error", "lost"} : answer' = [answer EXCEPT ![r] = a]

\* A repetition is answered from the outcome.
Repeat(r) ==
    LET k == IdentityOf[r] IN
    /\ answer[r] = "none"
    /\ outcome[k] # Open
    /\ \E a \in {"result", "error", "conflict"} :
        /\ a = "conflict" <=> outcome[k].payload # PayloadOf[r]
        /\ a = "result" => outcome[k].status = "succeeded"
        /\ answer' = [answer EXCEPT ![r] = a]
    /\ UNCHANGED outcome

\* The attempt dies with its process or its connection.
Vanish(r) ==
    /\ answer[r] = "none"
    /\ answer' = [answer EXCEPT ![r] = "lost"]
    /\ UNCHANGED outcome

Next == \E r \in Request : Decide(r) \/ Repeat(r) \/ Vanish(r)
Spec == Init /\ [][Next]_vars
=============================================================================
