--------------------------- MODULE CommandReceipt ---------------------------
(***************************************************************************)
(* The transaction that runs a workflow command together with its receipt: *)
(* WorkflowCommandExecutor.execute and WorkflowCommandReceiptService.      *)
(*                                                                         *)
(* Every request works in a session of its own.  The receipt it inserts    *)
(* stays invisible to the others until the commit, but its unique key is   *)
(* taken at once: holder[k] is the request whose open transaction has      *)
(* inserted identity k, and another insert of k waits for it to end        *)
(* (PostgreSQL, read committed).  A client that repeats a command is       *)
(* another request with the same identity.                                 *)
(***************************************************************************)
EXTENDS Naturals

CONSTANTS
    Request,        \* HTTP requests
    Identity,       \* (actor_key, command_type, command_id)
    Payload,        \* payload hashes
    IdentityOf,     \* of a request
    PayloadOf,      \* of a request
    None            \* no request

ASSUME RequestAssumption ==
    /\ IdentityOf \in [Request -> Identity]
    /\ PayloadOf \in [Request -> Payload]
    /\ None \notin Request

VARIABLES
    receipt,    \* receipt[k]: the committed row of identity k; never "processing",
                \* because every operation leaves the commit to execute
    holder,     \* holder[k]: whose open transaction has inserted k, or None
    applied,    \* applied[k]: committed executions of the operation of k
    pc,         \* pc[r]: what the request does next
    reply       \* reply[r]: what its client was told

vars == <<receipt, holder, applied, pc, reply>>

NoReceipt == [status |-> "none"]
Receipt == [status : {"succeeded", "failed"}, payload : Payload]
Row(status, p) == [status |-> status, payload |-> p]
Exists(k) == receipt[k] # NoReceipt

Init ==
    /\ receipt = [k \in Identity |-> NoReceipt]
    /\ holder = [k \in Identity |-> None]
    /\ applied = [k \in Identity |-> 0]
    /\ pc = [r \in Request |-> "sent"]
    /\ reply = [r \in Request |-> "none"]

Goto(r, label) == pc' = [pc EXCEPT ![r] = label]

Answer(r, a) ==
    /\ Goto(r, "done")
    /\ reply' = [reply EXCEPT ![r] = a]

Take(r)    == holder' = [holder EXCEPT ![IdentityOf[r]] = r]
Release(r) == holder' = [k \in Identity |-> IF holder[k] = r THEN None ELSE holder[k]]

-----------------------------------------------------------------------------
(* execute: claim, operation, complete, commit *)

\* Faulty variant: the payload hash is not compared.
Replay_Mutant(k, p) ==
    IF receipt[k].status = "succeeded" THEN "result" ELSE "error"

\* The answer to a request that finds a receipt.
Replay(k, p) ==
    IF receipt[k].payload # p THEN "conflict"
    ELSE IF receipt[k].status = "succeeded" THEN "result" ELSE "error"

\* claim: look the receipt up first.
Find(r) ==
    LET k == IdentityOf[r] IN
    /\ pc[r] = "sent"
    /\ IF Exists(k) THEN Answer(r, Replay(k, PayloadOf[r]))
       ELSE Goto(r, "insert") /\ UNCHANGED reply
    /\ UNCHANGED <<receipt, holder, applied>>

\* Faulty variant: no unique key.
Insert_Mutant(r) ==
    /\ pc[r] = "insert"
    /\ Take(r)
    /\ Goto(r, "run")
    /\ UNCHANGED <<receipt, applied, reply>>

\* claim: insert the row in a savepoint.  Whoever committed it meanwhile makes
\* the insert fail and the row is looked up again.
Insert(r) ==
    LET k == IdentityOf[r] IN
    /\ pc[r] = "insert"
    /\ holder[k] = None
    /\ IF Exists(k)
       THEN Answer(r, Replay(k, PayloadOf[r])) /\ UNCHANGED holder
       ELSE Take(r) /\ Goto(r, "run") /\ UNCHANGED reply
    /\ UNCHANGED <<receipt, applied>>

\* The operation, its effects and the receipt are committed together; the
\* answer may still be lost on its way.
Succeed(r) ==
    LET k == IdentityOf[r] IN
    /\ pc[r] = "run"
    /\ receipt' = [receipt EXCEPT ![k] = Row("succeeded", PayloadOf[r])]
    /\ applied' = [applied EXCEPT ![k] = @ + 1]
    /\ Release(r)
    /\ \E a \in {"result", "lost"} : Answer(r, a)

\* Faulty variant: the operation commits on its own before it fails.
Fail_Mutant(r) ==
    /\ pc[r] = "run"
    /\ applied' = [applied EXCEPT ![IdentityOf[r]] = @ + 1]
    /\ Release(r)
    /\ Goto(r, "claim failure")
    /\ UNCHANGED <<receipt, reply>>

\* The operation raises: effects and receipt are rolled back, the key is free.
Fail(r) ==
    /\ pc[r] = "run"
    /\ Release(r)
    /\ Goto(r, "claim failure")
    /\ UNCHANGED <<receipt, applied, reply>>

-----------------------------------------------------------------------------
(* execute: the failure is claimed again and recorded *)

\* What a request whose operation raised tells its client when somebody else
\* has decided the command meanwhile.
OwnFailure(k, p) == IF receipt[k].payload # p THEN "conflict" ELSE "error"

FindFailure(r) ==
    LET k == IdentityOf[r] IN
    /\ pc[r] = "claim failure"
    /\ IF Exists(k) THEN Answer(r, OwnFailure(k, PayloadOf[r]))
       ELSE Goto(r, "insert failure") /\ UNCHANGED reply
    /\ UNCHANGED <<receipt, holder, applied>>

InsertFailure(r) ==
    LET k == IdentityOf[r] IN
    /\ pc[r] = "insert failure"
    /\ holder[k] = None
    /\ IF Exists(k)
       THEN Answer(r, OwnFailure(k, PayloadOf[r])) /\ UNCHANGED holder
       ELSE Take(r) /\ Goto(r, "record") /\ UNCHANGED reply
    /\ UNCHANGED <<receipt, applied>>

Record(r) ==
    /\ pc[r] = "record"
    /\ receipt' = [receipt EXCEPT ![IdentityOf[r]] = Row("failed", PayloadOf[r])]
    /\ Release(r)
    /\ \E a \in {"error", "lost"} : Answer(r, a)
    /\ UNCHANGED applied

\* Faulty variant: the dead transaction keeps its key.
Crash_Mutant(r) ==
    /\ pc[r] # "done"
    /\ Answer(r, "lost")
    /\ UNCHANGED <<receipt, holder, applied>>

\* The process or its connection dies and the database rolls back.
Crash(r) ==
    /\ pc[r] # "done"
    /\ Release(r)
    /\ Answer(r, "lost")
    /\ UNCHANGED <<receipt, applied>>

Step(r) ==
    \/ Find(r) \/ Insert(r) \/ Succeed(r) \/ Fail(r)
    \/ FindFailure(r) \/ InsertFailure(r) \/ Record(r)

Next == \E r \in Request : Step(r) \/ Crash(r)
Spec == Init /\ [][Next]_vars

\* A handler goes on until it has answered or died; the database wakes the
\* inserts that wait for a key.
FairSpec == Spec /\ \A r \in Request : WF_vars(Step(r))

-----------------------------------------------------------------------------
(* Properties *)

Label == {"sent", "insert", "run", "claim failure", "insert failure", "record", "done"}

TypeOK ==
    /\ receipt \in [Identity -> Receipt \cup {NoReceipt}]
    /\ holder \in [Identity -> Request \cup {None}]
    /\ applied \in [Identity -> Nat]
    /\ pc \in [Request -> Label]
    /\ reply \in [Request -> {"none", "result", "error", "conflict", "lost"}]

\* The receipt and the effects of the command are one: an operation took effect
\* exactly once when the receipt says so, and not at all otherwise, whoever
\* crashed, failed or repeated the command in between.
EffectMatchesReceipt ==
    \A k \in Identity :
        applied[k] = IF Exists(k) /\ receipt[k].status = "succeeded" THEN 1 ELSE 0

\* A client that was told the result sent the payload that took effect, and one
\* that was told of a conflict sent another one.
AnswerIsBacked ==
    \A r \in Request : LET k == IdentityOf[r] IN
        /\ reply[r] = "result" => receipt[k] = Row("succeeded", PayloadOf[r])
        /\ reply[r] = "conflict" => Exists(k) /\ receipt[k].payload # PayloadOf[r]

\* A recorded decision is never replaced, not by a late failure either.
ReceiptIsFinal ==
    [][\A k \in Identity : Exists(k) => receipt'[k] = receipt[k]]_vars

\* No request waits for a key for ever.
EveryRequestIsAnswered == \A r \in Request : <>(pc[r] = "done")

\* Receipts implement the promise of CommandOnce.
Once == INSTANCE CommandOnce WITH outcome <- receipt, answer <- reply
ImplementsOnce == Once!Spec
=============================================================================
