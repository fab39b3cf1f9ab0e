------------------------ MODULE CommandReceiptProofs ------------------------
(***************************************************************************)
(* Proofs about CommandReceipt for any number of requests, identities and  *)
(* payloads: the effect of a command and its receipt are one, decisions    *)
(* are final, and the receipts implement CommandOnce.                      *)
(*                                                                         *)
(* The argument is about the unique key.  Only the request that holds the  *)
(* key of an identity writes its receipt, and the key is held only while   *)
(* the identity is undecided.                                              *)
(***************************************************************************)
EXTENDS CommandReceipt, TLAPS

\* The key of an identity is held by the request that runs or records it ...
KeyIsHeld ==
    /\ \A r \in Request : pc[r] \in {"run", "record"} => holder[IdentityOf[r]] = r
    /\ \A k \in Identity : holder[k] # None =>
            /\ pc[holder[k]] \in {"run", "record"}
            /\ IdentityOf[holder[k]] = k

\* ... and only while the command is undecided.
HeldIsUndecided == \A k \in Identity : holder[k] # None => ~Exists(k)

AnsweredIsDone == \A r \in Request : reply[r] # "none" <=> pc[r] = "done"

IInv ==
    /\ TypeOK
    /\ KeyIsHeld
    /\ HeldIsUndecided
    /\ AnsweredIsDone
    /\ EffectMatchesReceipt
    /\ AnswerIsBacked

LEMMA RowsExist ==
    ASSUME NEW s \in {"succeeded", "failed"}, NEW p \in Payload
    PROVE  /\ Row(s, p) # NoReceipt
           /\ Row(s, p).status = s /\ Row(s, p).payload = p
           /\ Row(s, p) \in Receipt
<1>1. Row(s, p).status = s /\ Row(s, p).payload = p /\ NoReceipt.status = "none"
    BY DEF Row, NoReceipt
<1>2. Row(s, p) # NoReceipt
    BY <1>1
<1>3. Row(s, p) \in Receipt
    BY DEF Row, Receipt
<1> QED
    BY <1>1, <1>2, <1>3

LEMMA InvIsInitial == Init => IInv
    BY RequestAssumption DEF Init, IInv, TypeOK, Label, KeyIsHeld, HeldIsUndecided, AnsweredIsDone,
        EffectMatchesReceipt, AnswerIsBacked, Exists

\* The facts about the constants and the state that every step below uses.
Facts ==
    /\ \A r \in Request : IdentityOf[r] \in Identity /\ PayloadOf[r] \in Payload
    /\ None \notin Request
    /\ pc \in [Request -> Label] /\ holder \in [Identity -> Request \cup {None}]
    /\ reply \in [Request -> {"none", "result", "error", "conflict", "lost"}]
    /\ applied \in [Identity -> Nat]
    /\ receipt \in [Identity -> Receipt \cup {NoReceipt}]

LEMMA InvGivesFacts == IInv => Facts
    BY RequestAssumption DEF IInv, TypeOK, Facts

\* A request that answers without deciding the command.
LEMMA AnswerKeepsInv ==
    ASSUME IInv, NEW r \in Request, NEW a \in {"result", "error", "conflict", "lost"},
           Release(r) \/ (holder' = holder /\ pc[r] \notin {"run", "record"}),
           Answer(r, a), UNCHANGED <<receipt, applied>>,
           a = "result" => receipt[IdentityOf[r]] = Row("succeeded", PayloadOf[r]),
           a = "conflict" => /\ Exists(IdentityOf[r])
                             /\ receipt[IdentityOf[r]].payload # PayloadOf[r]
    PROVE  IInv'
<1>f. Facts
    BY InvGivesFacts
<1> USE <1>f DEF Facts
<1>1. /\ pc' = [pc EXCEPT ![r] = "done"] /\ reply' = [reply EXCEPT ![r] = a]
      /\ receipt' = receipt /\ applied' = applied
    BY DEF Answer, Goto
<1>2. /\ \A k \in Identity : holder'[k] \in {holder[k], None} /\ holder'[k] # r
      /\ \A k \in Identity : holder[k] # r => holder'[k] = holder[k]
      /\ holder' \in [Identity -> Request \cup {None}]
    BY DEF Release, IInv, KeyIsHeld
<1>3. TypeOK'
    BY <1>1, <1>2 DEF IInv, TypeOK, Label
<1>4. KeyIsHeld'
    BY <1>1, <1>2 DEF IInv, KeyIsHeld
<1>5. HeldIsUndecided'
    BY <1>1, <1>2 DEF IInv, HeldIsUndecided, Exists
<1>6. AnsweredIsDone'
    BY <1>1 DEF IInv, AnsweredIsDone
<1>7. EffectMatchesReceipt'
    BY <1>1 DEF IInv, EffectMatchesReceipt, Exists
<1>8. AnswerIsBacked'
    BY <1>1 DEF IInv, AnswerIsBacked, Exists
<1> QED
    BY <1>3, <1>4, <1>5, <1>6, <1>7, <1>8 DEF IInv

\* A request that moves on, taking or releasing its key.
LEMMA MoveKeepsInv ==
    ASSUME IInv, NEW r \in Request, NEW label \in Label \ {"done"}, pc[r] # "done",
           Goto(r, label), UNCHANGED <<receipt, applied, reply>>,
           \/ holder' = holder /\ pc[r] \notin {"run", "record"} /\ label \notin {"run", "record"}
           \/ Release(r) /\ label \notin {"run", "record"}
           \/ /\ Take(r) /\ label \in {"run", "record"}
              /\ holder[IdentityOf[r]] = None /\ ~Exists(IdentityOf[r])
    PROVE  IInv'
<1>f. Facts
    BY InvGivesFacts
<1> USE <1>f DEF Facts
<1>1. /\ pc' = [pc EXCEPT ![r] = label]
      /\ receipt' = receipt /\ applied' = applied /\ reply' = reply
    BY DEF Goto
<1>2. /\ \A k \in Identity : holder[k] \notin {None, r} => holder'[k] = holder[k]
      /\ \A k \in Identity : holder'[k] \in {holder[k], None, r}
      /\ \A k \in Identity : holder'[k] = r <=> label \in {"run", "record"} /\ k = IdentityOf[r]
      /\ holder' \in [Identity -> Request \cup {None}]
      /\ \A k \in Identity : holder'[k] # None => ~Exists(k)
    BY DEF Release, Take, IInv, KeyIsHeld, HeldIsUndecided
<1>3. TypeOK'
    BY <1>1, <1>2 DEF IInv, TypeOK, Label
<1>4. KeyIsHeld'
    BY <1>1, <1>2 DEF IInv, KeyIsHeld
<1>5. HeldIsUndecided'
    BY <1>1, <1>2 DEF HeldIsUndecided, Exists
<1>6. AnsweredIsDone'
    BY <1>1 DEF IInv, AnsweredIsDone
<1>7. EffectMatchesReceipt'
    BY <1>1 DEF IInv, EffectMatchesReceipt, Exists
<1>8. AnswerIsBacked'
    BY <1>1 DEF IInv, AnswerIsBacked, Exists
<1> QED
    BY <1>3, <1>4, <1>5, <1>6, <1>7, <1>8 DEF IInv

\* The holder of a key decides the command: applied grows when it succeeded.
LEMMA DecisionKeepsInv ==
    ASSUME IInv, NEW r \in Request, NEW s \in {"succeeded", "failed"},
           NEW a \in {"result", "error", "lost"},
           pc[r] \in {"run", "record"},
           receipt' = [receipt EXCEPT ![IdentityOf[r]] = Row(s, PayloadOf[r])],
           applied' = IF s = "succeeded" THEN [applied EXCEPT ![IdentityOf[r]] = @ + 1] ELSE applied,
           Release(r), Answer(r, a),
           a = "result" => s = "succeeded"
    PROVE  IInv' /\ ~Exists(IdentityOf[r])
<1>f. Facts
    BY InvGivesFacts
<1> USE <1>f DEF Facts
<1> DEFINE k == IdentityOf[r]
           p == PayloadOf[r]
<1>k. k \in Identity /\ p \in Payload
    OBVIOUS
<1>h. holder[k] = r /\ ~Exists(k)
    BY DEF IInv, KeyIsHeld, HeldIsUndecided
<1>w. /\ Row(s, p) # NoReceipt
      /\ Row(s, p).status = s /\ Row(s, p).payload = p
      /\ Row(s, p) \in Receipt
    BY <1>k, RowsExist
<1>1. /\ pc' = [pc EXCEPT ![r] = "done"] /\ reply' = [reply EXCEPT ![r] = a]
    BY DEF Answer, Goto
<1>2. /\ \A j \in Identity : holder'[j] = IF j = k THEN None ELSE holder[j]
      /\ \A j \in Identity : j # k => holder[j] # r
      /\ holder' \in [Identity -> Request \cup {None}]
    BY <1>h DEF Release, IInv, KeyIsHeld
<1>3. /\ receipt'[k] = Row(s, p)
      /\ \A j \in Identity : j # k => receipt'[j] = receipt[j] /\ applied'[j] = applied[j]
      /\ applied'[k] = IF s = "succeeded" THEN applied[k] + 1 ELSE applied[k]
      /\ applied[k] = 0
    BY <1>k, <1>h DEF IInv, EffectMatchesReceipt
<1>4. TypeOK'
    <2>1. receipt' \in [Identity -> Receipt \cup {NoReceipt}]
        BY <1>k, <1>w
    <2>2. applied' \in [Identity -> Nat]
        BY <1>k
    <2> QED
        BY <1>1, <1>2, <2>1, <2>2 DEF TypeOK, Label
<1>5. KeyIsHeld'
    BY <1>1, <1>2, <1>h DEF IInv, KeyIsHeld
<1>6. HeldIsUndecided'
    BY <1>2, <1>3 DEF IInv, HeldIsUndecided, Exists
<1>7. AnsweredIsDone'
    BY <1>1 DEF IInv, AnsweredIsDone
<1>8. EffectMatchesReceipt'
    BY <1>3, <1>w DEF IInv, EffectMatchesReceipt, Exists
<1>9. AnswerIsBacked'
    <2> SUFFICES ASSUME NEW q \in Request
                 PROVE  /\ reply'[q] = "result" => receipt'[IdentityOf[q]] = Row("succeeded", PayloadOf[q])
                        /\ reply'[q] = "conflict" => Exists(IdentityOf[q])'
                                                     /\ receipt'[IdentityOf[q]].payload # PayloadOf[q]
        BY DEF AnswerIsBacked
    <2>1. CASE q = r
        BY <1>1, <1>3, <2>1
    <2>2. CASE q # r /\ IdentityOf[q] = k
        <3>1. reply[q] \notin {"result", "conflict"}
            BY <1>h, <2>2, RowsExist DEF IInv, AnswerIsBacked, Exists
        <3> QED
            BY <1>1, <2>2, <3>1
    <2>3. CASE q # r /\ IdentityOf[q] # k
        BY <1>1, <1>3, <2>3 DEF IInv, AnswerIsBacked, Exists
    <2> QED
        BY <2>1, <2>2, <2>3
<1> QED
    BY <1>h, <1>4, <1>5, <1>6, <1>7, <1>8, <1>9 DEF IInv

LEMMA InvIsInductive ==
    ASSUME IInv, [Next]_vars
    PROVE  IInv'
<1>f. Facts
    BY InvGivesFacts
<1>1. ASSUME NEW r \in Request, Find(r) \/ Insert(r)
      PROVE  IInv'
    <2> DEFINE k == IdentityOf[r]
               p == PayloadOf[r]
    <2>1. pc[r] \in {"sent", "insert"} /\ UNCHANGED <<receipt, applied>>
        BY <1>1 DEF Find, Insert
    <2>2. CASE Exists(k)
        <3>1. Answer(r, Replay(k, p)) /\ holder' = holder
            BY <1>1, <2>2 DEF Find, Insert
        <3>2. receipt[k] \in Receipt
            BY <1>f, <2>2 DEF Facts, Exists
        <3>3. /\ receipt[k].status \in {"succeeded", "failed"}
              /\ receipt[k] = Row(receipt[k].status, receipt[k].payload)
            BY <3>2 DEF Receipt, Row
        <3>4. /\ Replay(k, p) \in {"result", "error", "conflict", "lost"}
              /\ Replay(k, p) = "result" => receipt[k] = Row("succeeded", p)
              /\ Replay(k, p) = "conflict" => receipt[k].payload # p
            BY <3>3 DEF Replay
        <3> QED
            BY <2>1, <2>2, <3>1, <3>4, AnswerKeepsInv
    <2>3. CASE ~Exists(k)
        <3>1. CASE Find(r)
            <4>1. Goto(r, "insert") /\ UNCHANGED <<receipt, applied, reply>> /\ holder' = holder
                BY <2>3, <3>1 DEF Find
            <4> QED
                BY <2>1, <4>1, MoveKeepsInv DEF Label
        <3>2. CASE Insert(r)
            <4>1. /\ Take(r) /\ Goto(r, "run") /\ UNCHANGED <<receipt, applied, reply>>
                  /\ holder[k] = None
                BY <2>3, <3>2 DEF Insert
            <4> QED
                BY <2>1, <2>3, <4>1, MoveKeepsInv DEF Label
        <3> QED
            BY <1>1, <3>1, <3>2
    <2> QED
        BY <2>2, <2>3
<1>2. ASSUME NEW r \in Request, FindFailure(r) \/ InsertFailure(r)
      PROVE  IInv'
    <2> DEFINE k == IdentityOf[r]
               p == PayloadOf[r]
    <2>1. pc[r] \in {"claim failure", "insert failure"} /\ UNCHANGED <<receipt, applied>>
        BY <1>2 DEF FindFailure, InsertFailure
    <2>2. CASE Exists(k)
        <3>1. Answer(r, OwnFailure(k, p)) /\ holder' = holder
            BY <1>2, <2>2 DEF FindFailure, InsertFailure
        <3>2. /\ OwnFailure(k, p) \in {"error", "conflict"}
              /\ OwnFailure(k, p) = "conflict" => receipt[k].payload # p
            BY DEF OwnFailure
        <3> QED
            BY <2>1, <2>2, <3>1, <3>2, AnswerKeepsInv
    <2>3. CASE ~Exists(k)
        <3>1. CASE FindFailure(r)
            <4>1. Goto(r, "insert failure") /\ UNCHANGED <<receipt, applied, reply>> /\ holder' = holder
                BY <2>3, <3>1 DEF FindFailure
            <4> QED
                BY <2>1, <4>1, MoveKeepsInv DEF Label
        <3>2. CASE InsertFailure(r)
            <4>1. /\ Take(r) /\ Goto(r, "record") /\ UNCHANGED <<receipt, applied, reply>>
                  /\ holder[k] = None
                BY <2>3, <3>2 DEF InsertFailure
            <4> QED
                BY <2>1, <2>3, <4>1, MoveKeepsInv DEF Label
        <3> QED
            BY <1>2, <3>1, <3>2
    <2> QED
        BY <2>2, <2>3
<1>3. ASSUME NEW r \in Request, Succeed(r)
      PROVE  IInv'
    <2>1. PICK a \in {"result", "lost"} : Answer(r, a)
        BY <1>3 DEF Succeed
    <2> QED
        BY <1>3, <2>1, DecisionKeepsInv DEF Succeed
<1>4. ASSUME NEW r \in Request, Record(r)
      PROVE  IInv'
    <2>1. PICK a \in {"error", "lost"} : Answer(r, a)
        BY <1>4 DEF Record
    <2> QED
        BY <1>4, <2>1, DecisionKeepsInv DEF Record
<1>5. ASSUME NEW r \in Request, Fail(r)
      PROVE  IInv'
    BY <1>5, MoveKeepsInv DEF Fail, Label
<1>6. ASSUME NEW r \in Request, Crash(r)
      PROVE  IInv'
    BY <1>6, AnswerKeepsInv DEF Crash
<1>7. CASE UNCHANGED vars
    BY <1>7 DEF vars, IInv, TypeOK, KeyIsHeld, HeldIsUndecided, AnsweredIsDone,
                EffectMatchesReceipt, AnswerIsBacked, Exists
<1> QED
    BY <1>1, <1>2, <1>3, <1>4, <1>5, <1>6, <1>7 DEF Next, Step

LEMMA InvHolds == Spec => []IInv
    BY InvIsInitial, InvIsInductive, PTL DEF Spec

\* The operation of a command took effect exactly once when its receipt says
\* so and not at all otherwise, whoever repeats it, fails or crashes.
THEOREM EffectsMatchReceipts == Spec => []EffectMatchesReceipt
    BY InvHolds, PTL DEF IInv

\* Who was told the result sent the payload that took effect.
THEOREM AnswersAreBacked == Spec => []AnswerIsBacked
    BY InvHolds, PTL DEF IInv

-----------------------------------------------------------------------------
(* The steps in terms of CommandOnce *)

\* Receipts change only from "no receipt", and with the answer they imply.
LEMMA StepImplements ==
    ASSUME IInv, [Next]_vars
    PROVE  [Once!Next]_<<receipt, reply>>
<1>f. Facts
    BY InvGivesFacts
<1>d. \A r \in Request : reply[r] = "none" <=> pc[r] # "done"
    BY DEF IInv, AnsweredIsDone
<1> USE DEF Once!Next, Once!Decide, Once!Repeat, Once!Vanish, Once!Open, Once!Decided, Answer
<1>1. ASSUME NEW r \in Request, NEW s \in {"succeeded", "failed"},
             NEW a \in {"result", "error", "lost"},
             pc[r] \in {"run", "record"},
             receipt' = [receipt EXCEPT ![IdentityOf[r]] = Row(s, PayloadOf[r])],
             reply' = [reply EXCEPT ![r] = a],
             IF s = "succeeded" THEN a \in {"result", "lost"} ELSE a \in {"error", "lost"}
      PROVE  Once!Next
    <2>1. receipt[IdentityOf[r]] = NoReceipt
        BY <1>1, <1>f DEF IInv, KeyIsHeld, HeldIsUndecided, Exists, Facts
    <2>2. Once!Decide(r)
        BY <1>1, <1>d, <2>1 DEF NoReceipt, Row
    <2> QED
        BY <2>2
<1>2. ASSUME NEW r \in Request, Succeed(r)
      PROVE  Once!Next
    <2>1. PICK a \in {"result", "lost"} : reply' = [reply EXCEPT ![r] = a]
        BY <1>2 DEF Succeed
    <2> HIDE DEF Once!Next
    <2> QED
        BY <1>1, <1>2, <2>1 DEF Succeed
<1>3. ASSUME NEW r \in Request, Record(r)
      PROVE  Once!Next
    <2>1. PICK a \in {"error", "lost"} : reply' = [reply EXCEPT ![r] = a]
        BY <1>3 DEF Record
    <2> HIDE DEF Once!Next
    <2> QED
        BY <1>1, <1>3, <2>1 DEF Record
<1>4. ASSUME NEW r \in Request,
             Find(r) \/ Insert(r) \/ FindFailure(r) \/ InsertFailure(r),
             Exists(IdentityOf[r])
      PROVE  Once!Next
    <2> DEFINE k == IdentityOf[r]
               p == PayloadOf[r]
    <2>1. PICK a \in {Replay(k, p), OwnFailure(k, p)} :
            reply' = [reply EXCEPT ![r] = a] /\ receipt' = receipt /\ pc[r] # "done"
        BY <1>4 DEF Find, Insert, FindFailure, InsertFailure
    <2>2. /\ a \in {"result", "error", "conflict"}
          /\ a = "conflict" <=> receipt[k].payload # p
          /\ a = "result" => receipt[k].status = "succeeded"
        BY <2>1 DEF Replay, OwnFailure
    <2>3. Once!Repeat(r)
        BY <1>4, <1>d, <2>1, <2>2 DEF Exists, NoReceipt
    <2> QED
        BY <2>3
<1>5. ASSUME NEW r \in Request, Crash(r)
      PROVE  Once!Next
    <2>1. Once!Vanish(r)
        BY <1>5, <1>d DEF Crash
    <2> QED
        BY <2>1
<1>6. ASSUME NEW r \in Request,
             \/ Fail(r)
             \/ /\ Find(r) \/ Insert(r) \/ FindFailure(r) \/ InsertFailure(r)
                /\ ~Exists(IdentityOf[r])
      PROVE  UNCHANGED <<receipt, reply>>
    BY <1>6 DEF Fail, Find, Insert, FindFailure, InsertFailure
<1>7. CASE UNCHANGED vars
    BY <1>7 DEF vars
<1> HIDE DEF Once!Next
<1> QED
    BY <1>2, <1>3, <1>4, <1>5, <1>6, <1>7 DEF Next, Step

\* For any requests, identities and payloads the receipts implement the
\* promise that a command is decided once and never undone.
THEOREM ReceiptsImplementOnce == Spec => ImplementsOnce
<1>1. Init => Once!Init
    BY DEF Init, Once!Init, Once!Open, NoReceipt
<1>2. IInv /\ [Next]_vars => [Once!Next]_<<receipt, reply>>
    BY StepImplements
<1> QED
    BY <1>1, <1>2, InvHolds, PTL DEF Spec, ImplementsOnce, Once!Spec, Once!vars

\* A decision once recorded is never replaced.
THEOREM ReceiptsAreFinal == Spec => ReceiptIsFinal
<1>1. IInv /\ [Next]_vars => [\A k \in Identity : Exists(k) => receipt'[k] = receipt[k]]_vars
    <2> SUFFICES ASSUME IInv, [Next]_vars, NEW k \in Identity, Exists(k)
                 PROVE  receipt'[k] = receipt[k]
        OBVIOUS
    <2>f. Facts
        BY InvGivesFacts
    <2>1. ASSUME NEW r \in Request, Succeed(r) \/ Record(r)
          PROVE  receipt'[k] = receipt[k]
        <3>1. ~Exists(IdentityOf[r])
            BY <2>1, <2>f DEF IInv, KeyIsHeld, HeldIsUndecided, Facts, Succeed, Record
        <3>2. \A j \in Identity : j # IdentityOf[r] => receipt'[j] = receipt[j]
            BY <2>1, <2>f DEF Succeed, Record, Facts
        <3> QED
            BY <3>1, <3>2
    <2>2. CASE receipt' = receipt
        BY <2>2
    <2>3. receipt' = receipt \/ \E r \in Request : Succeed(r) \/ Record(r)
        BY DEF Next, Step, Find, Insert, Fail, FindFailure, InsertFailure, Crash, vars
    <2> QED
        BY <2>1, <2>2, <2>3
<1> QED
    BY <1>1, InvHolds, PTL DEF Spec, ReceiptIsFinal
=============================================================================
