--------------------------- MODULE WorkItemsProofs ---------------------------
(***************************************************************************)
(* Proofs about WorkItems for any number of tasks, users, requests under   *)
(* way and submissions.                                                    *)
(*                                                                         *)
(* Every command is about one task.  TaskInv states what holds of a task,  *)
(* its node, its run and its submissions; RequestInv what is still true of *)
(* the task a request has loaded, whatever was committed since.  Framing   *)
(* puts together what the one task and the one request of a step do.       *)
(***************************************************************************)
EXTENDS WorkItems, TLAPS

Closed == {"completed", "terminated"}

\* A row has a node exactly if its kind has one; only a run with a closed node is over.
NodeInv(t) ==
    /\ task[t].status = "absent" => task[t] = NoRow
    /\ ~HasNode(t) => node[t] = "none" /\ run[t] = "none"
    /\ HasNode(t) => node[t] # "none" /\ run[t] # "none"
    /\ run[t] \in {"completed", "cancelled"} => node[t] \in Closed
    /\ HasNode(t) /\ task[t].status = "done" => node[t] \in Closed

\* The run of a manual task that is done is over, marked or not; only an archival ends the
\* run of one that is not done.  It is reviewed after a submission only.
ManualInv(t) ==
    Kind(t) = "manual" =>
        /\ task[t].status = "done" => run[t] # "active"
        /\ ~task[t].meta.archived /\ task[t].status # "done" => run[t] = "active"
        /\ task[t].status = "review" => deliverable[t].version > 0
        /\ ~task[t].meta.archived /\ task[t].status = "done" =>
                /\ deliverable[t].version > 0
                /\ deliverable[t].accepted = deliverable[t].version

\* The author of a review node is a user and is not its reviewer.
ReviewInv(t) ==
    Kind(t) = "review" => task[t].creator \in Users /\ task[t].meta.reviewer # task[t].creator

AssigneeInv(t) == task[t].status # "absent" => task[t].assignee \in Users

TaskInv(t) == NodeInv(t) /\ ManualInv(t) /\ ReviewInv(t) /\ AssigneeInv(t)

\* What a request is to write.
WriteInv(q) ==
    /\ q.op \in {"approve", "return"} => HasNode(q.task)
    /\ q.op = "approve" => q.status = "done"
    /\ q.op = "approve" /\ Kind(q.task) = "manual" => deliverable[q.task].version > 0
    /\ q.op = "return" => q.status = "doing"
    /\ q.op \in {"accept", "reject"} => q.status = Keep
    /\ q.op = "archive" => q.status \in {Keep, "done"} /\ q.meta.archived
    /\ q.op = "reject" => Kind(q.task) = "manual"
    /\ Kind(q.task) = "review" => q.meta.reviewer # task[q.task].creator

RequestInv(r) ==
    req[r] # Idle =>
        /\ task[req[r].task].status # "absent"
        /\ req[r].op # "delegate" => WriteInv(req[r])

IInv ==
    /\ TypeOK
    /\ \A t \in Tasks : TaskInv(t)
    /\ \A r \in Requests : RequestInv(r)

USE DEF Kind, HasNode

-----------------------------------------------------------------------------
(* What the parts of an action do, point by point *)

Same(t) == /\ task'[t] = task[t] /\ node'[t] = node[t] /\ run'[t] = run[t]
           /\ deliverable'[t] = deliverable[t]

\* What no command on a task that exists does to it: undo its creation or a submission.
Continues(t) ==
    task[t].status # "absent" =>
        /\ task'[t].status # "absent"
        /\ task'[t].kind = task[t].kind
        /\ task'[t].creator = task[t].creator
        /\ deliverable'[t].version >= deliverable[t].version

LEMMA InvIsInitial == Init => IInv
<1> SUFFICES ASSUME Init PROVE IInv
    OBVIOUS
<1>1. NoRow \in Row
    BY DEF NoRow, Row, NoMeta, Meta, Handshake, Kinds, Status
<1>2. TypeOK
    BY <1>1, WorkItemAssumption DEF Init, TypeOK, EngineState
<1>3. ASSUME NEW t \in Tasks PROVE TaskInv(t)
    BY <1>3 DEF Init, TaskInv, NodeInv, ManualInv, ReviewInv, AssigneeInv, NoRow
<1>4. ASSUME NEW r \in Requests PROVE RequestInv(r)
    BY <1>4 DEF Init, RequestInv
<1> QED
    BY <1>2, <1>3, <1>4 DEF IInv

LEMMA Framing ==
    ASSUME IInv, TypeOK', NEW t \in Tasks,
           \A s \in Tasks \ {t} : Same(s),
           Continues(t), TaskInv(t)',
           \A r \in Requests : req'[r] = req[r] \/ req'[r] = Idle \/ RequestInv(r)'
    PROVE  IInv'
<1>1. ASSUME NEW s \in Tasks PROVE TaskInv(s)'
    <2>1. CASE s = t
        BY <2>1
    <2>2. CASE s # t
        <3>1. Same(s) /\ TaskInv(s)
            BY <2>2, <1>1 DEF IInv
        <3> QED
            BY <3>1 DEF TaskInv, NodeInv, ManualInv, ReviewInv, AssigneeInv, Same
    <2> QED
        BY <2>1, <2>2
<1>2. ASSUME NEW r \in Requests PROVE RequestInv(r)'
    <2>1. CASE req'[r] = req[r] /\ req[r] # Idle
        <3> DEFINE s == req[r].task
        <3>1. s \in Tasks
            BY <2>1, <1>2 DEF IInv, TypeOK, Loaded
        <3>2. /\ task[s].status # "absent"
              /\ req[r].op # "delegate" => WriteInv(req[r])
            BY <2>1, <1>2 DEF IInv, RequestInv
        <3>4. deliverable[s].version \in Nat /\ deliverable'[s].version \in Nat
            BY <3>1, WorkItemAssumption DEF IInv, TypeOK
        <3>3. Continues(s)
            <4>1. CASE s = t
                BY <4>1
            <4>2. CASE s # t
                <5>1. Same(s)
                    BY <4>2, <3>1
                <5> QED
                    BY <5>1, <3>4 DEF Same, Continues
            <4> QED
                BY <4>1, <4>2
        <3>5. task'[s].status # "absent"
            BY <3>2, <3>3 DEF Continues
        <3>6. ASSUME req[r].op # "delegate" PROVE WriteInv(req[r])'
            BY <2>1, <3>2, <3>3, <3>4, <3>6 DEF Continues, WriteInv
        <3> QED
            BY <2>1, <3>5, <3>6 DEF RequestInv
    <2>2. CASE req'[r] = Idle
        BY <2>2 DEF RequestInv
    <2> QED
        BY <2>1, <2>2, <1>2
<1> QED
    BY <1>1, <1>2 DEF IInv

LEMMA StoreEffect ==
    ASSUME TypeOK, NEW t \in Tasks, NEW row \in Row, Store(t, row)
    PROVE  /\ task' \in [Tasks -> Row]
           /\ task'[t] = row
           /\ \A s \in Tasks \ {t} : task'[s] = task[s]
    BY DEF TypeOK, Store

LEMMA SyncStatusEffect ==
    ASSUME TypeOK, NEW t \in Tasks, NEW target \in Status, SyncStatus(t, target)
    PROVE  /\ node' \in [Tasks -> EngineState]
           /\ run' \in [Tasks -> {"none", "active", "completed", "cancelled"}]
           /\ \A s \in Tasks \ {t} : node'[s] = node[s] /\ run'[s] = run[s]
           /\ ~HasNode(t) => node'[t] = node[t] /\ run'[t] = run[t]
           /\ HasNode(t) /\ target = "done" =>
                /\ node'[t] = "completed"
                /\ Kind(t) = "manual" => run'[t] = "completed"
                /\ Kind(t) # "manual" => run'[t] = "active"
           /\ HasNode(t) /\ target # "done" => node'[t] = "acknowledged" /\ run'[t] = "active"
<1>1. CASE ~HasNode(t)
    BY <1>1 DEF TypeOK, SyncStatus
<1>2. CASE HasNode(t) /\ target = "done"
    BY <1>2 DEF TypeOK, SyncStatus, EngineState
<1>3. CASE HasNode(t) /\ target # "done"
    BY <1>3 DEF TypeOK, SyncStatus, EngineState
<1> QED
    BY <1>1, <1>2, <1>3

LEMMA SyncHandshakeEffect ==
    ASSUME TypeOK, NEW t \in Tasks, NEW state \in Operable, SyncHandshake(t, state)
    PROVE  /\ run[t] = "active" /\ node[t] \notin Closed
           /\ node' \in [Tasks -> EngineState] /\ run' = run
           /\ \A s \in Tasks \ {t} : node'[s] = node[s]
           /\ node'[t] \in Operable
    BY DEF TypeOK, SyncHandshake, Operable, EngineState, Closed

LEMMA WritesBackEffect ==
    ASSUME IInv, NEW r \in Requests, NEW op \in Writes, Pending(r, op), WritesBack(r)
    PROVE  LET t == req[r].task
           IN  /\ t \in Tasks
               /\ task[t].status # "absent" /\ WriteInv(req[r])
               /\ task' \in [Tasks -> Row]
               /\ req' \in [Requests -> Loaded \cup {Idle}]
               /\ task'[t].status = IF req[r].status = Keep THEN task[t].status ELSE req[r].status
               /\ task'[t].meta = req[r].meta
               /\ task'[t].kind = task[t].kind /\ task'[t].creator = task[t].creator
               /\ task'[t].assignee = task[t].assignee
               /\ \A s \in Tasks \ {t} : task'[s] = task[s]
               /\ \A q \in Requests : req'[q] = req[q] \/ req'[q] = Idle
<1> DEFINE q == req[r]
           t == q.task
           status == IF q.status = Keep THEN task[t].status ELSE q.status
<1>1. q \in [op : Writes, task : Tasks, status : Status \cup {Keep}, meta : Meta]
    BY DEF IInv, TypeOK, Loaded, Pending, Writes
<1>2. task[t].status # "absent" /\ WriteInv(q)
    BY DEF IInv, RequestInv, Pending, Writes
<1>3. task[t] \in Row
    BY <1>1 DEF IInv, TypeOK
<1>4. status \in Status \cup {"absent"}
    BY <1>1, <1>3 DEF Row, Keep
<1>5. [task[t] EXCEPT !.status = status, !.meta = q.meta] \in Row
    BY <1>1, <1>3, <1>4 DEF Row
<1>6. task' = [task EXCEPT ![t] = [task[t] EXCEPT !.status = status, !.meta = q.meta]]
    BY <1>1 DEF IInv, TypeOK, WritesBack
<1>7. Store(t, [task[t] EXCEPT !.status = status, !.meta = q.meta])
    BY <1>6 DEF Store
<1>8. /\ task' \in [Tasks -> Row]
      /\ task'[t] = [task[t] EXCEPT !.status = status, !.meta = q.meta]
      /\ \A s \in Tasks \ {t} : task'[s] = task[s]
    BY <1>1, <1>5, <1>7, StoreEffect DEF IInv
<1>9. /\ req' \in [Requests -> Loaded \cup {Idle}]
      /\ \A p \in Requests : req'[p] = req[p] \/ req'[p] = Idle
    BY DEF IInv, TypeOK, WritesBack
<1> QED
    BY <1>1, <1>2, <1>3, <1>8, <1>9 DEF Row

\* Whom _activate_template_review finds is not the author.
LEMMA InReviewRows ==
    ASSUME NEW row \in Row, NEW initial, initial \subseteq Users, NEW new \in InReview(row, initial),
           row.kind = "review" => row.creator \in Users
    PROVE  /\ new \in Row
           /\ new.kind = row.kind /\ new.creator = row.creator /\ new.assignee = row.assignee
           /\ new.status \in {"review", "blocked"}
           /\ row.kind = "review" => new.meta.reviewer # row.creator
<1> DEFINE reviewed(u) == [row EXCEPT !.status = "review", !.meta.reviewer = u]
           left        == [row EXCEPT !.status = "blocked", !.meta.reviewer = NoUser]
<1>1. \/ \E u \in Users \ {Executor(row)} : new = reviewed(u)
      \/ new = left
    BY WorkItemAssumption DEF InReview
<1>2. ASSUME NEW u \in Users \cup {NoUser}
      PROVE  /\ reviewed(u) \in Row
             /\ reviewed(u).kind = row.kind /\ reviewed(u).creator = row.creator
             /\ reviewed(u).assignee = row.assignee
             /\ reviewed(u).status = "review" /\ reviewed(u).meta.reviewer = u
    BY <1>2 DEF Row, Meta, Status
<1>3. /\ left \in Row
      /\ left.kind = row.kind /\ left.creator = row.creator /\ left.assignee = row.assignee
      /\ left.status = "blocked" /\ left.meta.reviewer = NoUser
    BY DEF Row, Meta, Status
<1>4. CASE new = left
    BY <1>3, <1>4, WorkItemAssumption
<1>5. ASSUME NEW u \in Users \ {Executor(row)}, new = reviewed(u)
      PROVE  /\ new \in Row
             /\ new.kind = row.kind /\ new.creator = row.creator /\ new.assignee = row.assignee
             /\ new.status \in {"review", "blocked"}
             /\ row.kind = "review" => new.meta.reviewer # row.creator
    <2> HIDE DEF reviewed
    <2> QED
        BY <1>2, <1>5 DEF Executor
<1> QED
    BY <1>1, <1>4, <1>5

-----------------------------------------------------------------------------
(* Every action keeps the invariant *)

LEMMA CreateKeepsInv ==
    ASSUME IInv, NEW t \in Tasks, NEW v \in Users, Create(t, v)
    PROVE  IInv'
<1> DEFINE u == CreatorOf[t]
<1>1. TypeOK /\ u \in Users
    BY WorkItemAssumption DEF IInv
<1>2. UNCHANGED <<replaced, deliverable, req>>
    BY DEF Create, CreateStandalone, CreateManualGraph, CreateProjection, runtime
<1>3. task[t].status = "absent" /\ task[t] = NoRow
    BY DEF Create, IInv, TaskInv, NodeInv
<1>4. node[t] = "none" /\ run[t] = "none"
    BY <1>3 DEF IInv, TaskInv, NodeInv, NoRow
<1>5. Continues(t)
    BY <1>3 DEF Continues
<1>6. CASE CreateStandalone(t, u, v)
    <2> DEFINE row == [NoRow EXCEPT !.status = "todo", !.creator = u, !.assignee = v]
    <2>1. /\ row \in Row /\ row.status = "todo" /\ row.kind = "standalone"
          /\ row.assignee = v
        BY <1>1 DEF NoRow, Row, NoMeta, Meta, Handshake, Kinds, Status
    <2>2. Store(t, row) /\ UNCHANGED <<node, run>>
        BY <1>6 DEF CreateStandalone, Store, runtime
    <2> HIDE DEF row
    <2>3. task' \in [Tasks -> Row] /\ task'[t] = row /\ \A s \in Tasks \ {t} : task'[s] = task[s]
        BY <2>1, <2>2, <1>1, StoreEffect
    <2>4. TypeOK' /\ \A s \in Tasks \ {t} : Same(s)
        BY <2>2, <2>3, <1>1, <1>2 DEF TypeOK, Same
    <2>5. TaskInv(t)'
        BY <2>1, <2>2, <2>3, <1>4 DEF TaskInv, NodeInv, ManualInv, ReviewInv, AssigneeInv
    <2> QED
        BY <2>4, <2>5, <1>2, <1>5, Framing
<1>7. CASE CreateManualGraph(t, u, v)
    <2> DEFINE row == [NoRow EXCEPT !.kind = "manual", !.status = "todo",
                    !.creator = u, !.assignee = v, !.meta.handshake = "assigned"]
    <2>1. /\ row \in Row /\ row.status = "todo" /\ row.kind = "manual"
          /\ row.assignee = v
        BY <1>1 DEF NoRow, Row, NoMeta, Meta, Handshake, Kinds, Status
    <2>2. /\ Store(t, row)
          /\ node' = [node EXCEPT ![t] = "activated"]
          /\ run' = [run EXCEPT ![t] = "active"]
        BY <1>7 DEF CreateManualGraph, Store
    <2> HIDE DEF row
    <2>3. task' \in [Tasks -> Row] /\ task'[t] = row /\ \A s \in Tasks \ {t} : task'[s] = task[s]
        BY <2>1, <2>2, <1>1, StoreEffect
    <2>4. TypeOK' /\ \A s \in Tasks \ {t} : Same(s)
        BY <2>2, <2>3, <1>1, <1>2 DEF TypeOK, EngineState, Same
    <2>5. node'[t] = "activated" /\ run'[t] = "active"
        BY <2>2, <1>1 DEF TypeOK
    <2>6. TaskInv(t)'
        BY <2>1, <2>3, <2>5 DEF TaskInv, NodeInv, ManualInv, ReviewInv, AssigneeInv
    <2> QED
        BY <2>4, <2>6, <1>2, <1>5, Framing
<1>8. CASE CreateProjection(t, u, v)
    <2>1. PICK kind \in {"submit", "review"} :
            LET row == [NoRow EXCEPT !.kind = kind, !.status = "doing", !.creator = u,
                                     !.assignee = v, !.meta.handshake = "assigned"]
            IN  /\ \E new \in IF kind = "submit" THEN {row} ELSE InReview(row, {v}) :
                        task' = [task EXCEPT ![t] = new]
                /\ node' = [node EXCEPT ![t] =
                        IF kind = "submit" THEN "activated" ELSE "acknowledged"]
        BY <1>8 DEF CreateProjection
    <2> DEFINE row == [NoRow EXCEPT !.kind = kind, !.status = "doing", !.creator = u,
                                    !.assignee = v, !.meta.handshake = "assigned"]
    <2>2. /\ row \in Row /\ row.kind = kind /\ row.status = "doing" /\ row.creator = u
          /\ row.assignee = v
        BY <1>1 DEF NoRow, Row, NoMeta, Meta, Handshake, Kinds, Status
    <2>3. PICK new \in IF kind = "submit" THEN {row} ELSE InReview(row, {v}) :
                task' = [task EXCEPT ![t] = new]
        BY <2>1
    <2> HIDE DEF row
    <2>4. /\ new \in Row /\ new.kind = kind /\ new.creator = u /\ new.assignee = v
          /\ new.status \in {"doing", "review", "blocked"}
          /\ kind = "review" => new.meta.reviewer # u
        <3>1. CASE kind = "submit"
            BY <3>1, <2>2, <2>3
        <3>2. CASE kind = "review"
            <4>1. new \in InReview(row, {v}) /\ {v} \subseteq Users
                BY <3>2, <2>3
            <4> QED
                BY <3>2, <4>1, <2>2, <1>1, InReviewRows
        <3> QED
            BY <3>1, <3>2
    <2>5. /\ task' \in [Tasks -> Row] /\ task'[t] = new
          /\ \A s \in Tasks \ {t} : task'[s] = task[s]
        BY <2>3, <2>4, <1>1, StoreEffect DEF Store
    <2>6. /\ node' \in [Tasks -> EngineState] /\ node'[t] \in Operable
          /\ \A s \in Tasks \ {t} : node'[s] = node[s]
        BY <2>1, <1>1 DEF TypeOK, EngineState, Operable
    <2>7. run' = [run EXCEPT ![t] = "active"]
        BY <1>8 DEF CreateProjection
    <2>8. TypeOK' /\ run'[t] = "active" /\ \A s \in Tasks \ {t} : Same(s)
        BY <2>5, <2>6, <2>7, <1>1, <1>2 DEF TypeOK, Same
    <2>9. TaskInv(t)'
        BY <2>4, <2>5, <2>6, <2>8, <1>1 DEF TaskInv, NodeInv, ManualInv, ReviewInv, AssigneeInv, Operable
    <2> QED
        BY <2>8, <2>9, <1>2, <1>5, Framing
<1> QED
    BY <1>6, <1>7, <1>8 DEF Create

\* A command under the row lock that writes a status and tells the node.
LEMMA SyncedKeepsInv ==
    ASSUME IInv, NEW t \in Tasks, NEW row \in Row, NEW target \in {"doing", "review", "done"},
           Store(t, row), SyncStatus(t, target), UNCHANGED <<replaced, req>>,
           row.kind = task[t].kind, row.creator = task[t].creator,
           row.assignee = task[t].assignee,
           row.status = target \/ (row.status = "blocked" /\ target = "review"),
           deliverable' \in [Tasks -> [version : 0 .. MaxVersions, accepted : 0 .. MaxVersions]],
           deliverable'[t].version >= deliverable[t].version,
           \A s \in Tasks \ {t} : deliverable'[s] = deliverable[s],
           task[t].status # "absent",
           ReviewInv(t)',
           row.kind = "manual" => /\ row.status # "done"
                                  /\ row.status = "review" => deliverable'[t].version > 0
    PROVE  IInv'
<1>1. TypeOK /\ TaskInv(t) /\ target \in Status
    BY DEF IInv, Status
<1>2. task' \in [Tasks -> Row] /\ task'[t] = row /\ \A s \in Tasks \ {t} : task'[s] = task[s]
    BY <1>1, StoreEffect
<1>3. /\ node' \in [Tasks -> EngineState]
      /\ run' \in [Tasks -> {"none", "active", "completed", "cancelled"}]
      /\ \A s \in Tasks \ {t} : node'[s] = node[s] /\ run'[s] = run[s]
      /\ ~HasNode(t) => node'[t] = node[t] /\ run'[t] = run[t]
      /\ HasNode(t) /\ target = "done" =>
                /\ node'[t] = "completed"
                /\ Kind(t) = "manual" => run'[t] = "completed"
                /\ Kind(t) # "manual" => run'[t] = "active"
      /\ HasNode(t) /\ target # "done" => node'[t] = "acknowledged" /\ run'[t] = "active"
    BY <1>1, SyncStatusEffect
<1>4. TypeOK' /\ \A s \in Tasks \ {t} : Same(s)
    BY <1>1, <1>2, <1>3 DEF TypeOK, Same
<1>5. Continues(t)
    BY <1>2 DEF Continues
<1>6. NodeInv(t)'
    BY <1>1, <1>2, <1>3 DEF TaskInv, NodeInv, Closed
<1>7. ManualInv(t)'
    BY <1>1, <1>2, <1>3 DEF TaskInv, ManualInv
<1>8. AssigneeInv(t)'
    BY <1>1, <1>2 DEF TaskInv, AssigneeInv
<1> QED
    BY <1>4, <1>5, <1>6, <1>7, <1>8, Framing DEF TaskInv

LEMMA TransitionKeepsInv ==
    ASSUME IInv, NEW t \in Tasks, NEW u \in Users, Transition(t, u)
    PROVE  IInv'
<1> DEFINE from   == task[t].status
           target == CASE from = "todo" -> "doing" [] from = "doing" -> "review"
                       [] from = "review" -> "done"
           row    == [task[t] EXCEPT !.status = target]
<1>1. TypeOK /\ TaskInv(t) /\ task[t] \in Row
    BY DEF IInv, TypeOK
<1>2. from \in {"todo", "doing", "review"}
    BY DEF Transition
<1>3. target \in {"doing", "review", "done"}
    BY <1>2
<1>4. /\ ByStatus(t, target) /\ Store(t, row) /\ SyncStatus(t, target)
      /\ UNCHANGED <<replaced, deliverable, req>>
    BY DEF Transition
<1> HIDE DEF target
<1>5. /\ row \in Row /\ row.status = target
      /\ row.kind = task[t].kind /\ row.creator = task[t].creator /\ row.meta = task[t].meta
      /\ row.assignee = task[t].assignee
    BY <1>1, <1>3 DEF Row, Status
<1>6. row.kind = "manual" => row.status = "doing"
    BY <1>4, <1>5 DEF ByStatus
<1> HIDE DEF row
<1>7. task'[t] = row
    BY <1>1, <1>4, <1>5, StoreEffect
<1>8. ReviewInv(t)'
    BY <1>1, <1>5, <1>7 DEF TaskInv, ReviewInv
<1>9. /\ deliverable' \in [Tasks -> [version : 0 .. MaxVersions, accepted : 0 .. MaxVersions]]
      /\ deliverable'[t].version >= deliverable[t].version
    BY <1>1, <1>4, WorkItemAssumption DEF TypeOK
<1> QED
    BY <1>2, <1>3, <1>4, <1>5, <1>6, <1>8, <1>9, SyncedKeepsInv

LEMMA SubmitKeepsInv ==
    ASSUME IInv, NEW t \in Tasks, NEW u \in Users, Submit(t, u)
    PROVE  IInv'
<1> DEFINE version == deliverable[t].version + 1
           latest  == [version |-> version,
                       accepted |-> IF task[t].kind = "submit" THEN version
                                    ELSE deliverable[t].accepted]
<1>1. TypeOK /\ TaskInv(t) /\ task[t] \in Row
    BY DEF IInv, TypeOK
<1>2. /\ task[t].status = "doing" /\ deliverable[t].version < MaxVersions
      /\ UNCHANGED <<replaced, req>>
    BY DEF Submit
<1>3. deliverable' = [deliverable EXCEPT ![t] = IF ~HasNode(t) THEN deliverable[t] ELSE latest]
    BY <1>1 DEF Submit, TypeOK
<1>4. latest \in [version : 0 .. MaxVersions, accepted : 0 .. MaxVersions]
    BY <1>1, <1>2, WorkItemAssumption DEF TypeOK
<1>5. /\ deliverable' \in [Tasks -> [version : 0 .. MaxVersions, accepted : 0 .. MaxVersions]]
      /\ deliverable'[t].version >= deliverable[t].version
      /\ HasNode(t) => deliverable'[t].version > 0
      /\ \A s \in Tasks \ {t} : deliverable'[s] = deliverable[s]
    BY <1>1, <1>3, <1>4, WorkItemAssumption DEF TypeOK
<1>6. CASE task[t].kind = "submit" /\ Store(t, [task[t] EXCEPT !.status = "done"]) /\ SyncStatus(t, "done")
    <2> DEFINE row == [task[t] EXCEPT !.status = "done"]
    <2>1. /\ row \in Row /\ row.status = "done" /\ row.kind = "submit"
          /\ row.creator = task[t].creator /\ row.assignee = task[t].assignee
        BY <1>1, <1>6 DEF Row, Status
    <2>2. Store(t, row)
        BY <1>6
    <2> HIDE DEF row
    <2>3. ReviewInv(t)'
        BY <1>1, <2>1, <2>2, StoreEffect DEF ReviewInv
    <2> QED
        BY <1>2, <1>5, <1>6, <2>1, <2>2, <2>3, SyncedKeepsInv
<1>7. CASE /\ task[t].kind = "review"
           /\ \E new \in InReview(task[t], {IF task[t].meta.reviewer = NoUser THEN task[t].creator
                                             ELSE task[t].meta.reviewer}) : Store(t, new)
           /\ SyncStatus(t, "review")
    <2>1. PICK new \in InReview(task[t], {IF task[t].meta.reviewer = NoUser THEN task[t].creator
                                          ELSE task[t].meta.reviewer}) : Store(t, new)
        BY <1>7
    <2>2. task[t].creator \in Users
        BY <1>1, <1>7 DEF TaskInv, ReviewInv
    <2>3. {IF task[t].meta.reviewer = NoUser THEN task[t].creator ELSE task[t].meta.reviewer}
            \subseteq Users
        BY <1>1, <2>2 DEF Row, Meta
    <2>4. /\ new \in Row /\ new.kind = "review" /\ new.creator = task[t].creator
          /\ new.assignee = task[t].assignee
          /\ new.status \in {"review", "blocked"}
          /\ new.meta.reviewer # task[t].creator
        BY <1>1, <1>7, <2>2, <2>3, InReviewRows
    <2>5. ReviewInv(t)'
        BY <1>1, <2>1, <2>2, <2>4, StoreEffect DEF ReviewInv
    <2> QED
        BY <1>2, <1>5, <1>7, <2>1, <2>4, <2>5, SyncedKeepsInv
<1>8. CASE /\ ~IsTemplate(t) /\ Store(t, [task[t] EXCEPT !.status = "review"])
           /\ SyncStatus(t, "review")
    <2> DEFINE row == [task[t] EXCEPT !.status = "review"]
    <2>1. /\ row \in Row /\ row.status = "review" /\ row.kind = task[t].kind
          /\ row.creator = task[t].creator /\ row.kind # "review"
          /\ row.assignee = task[t].assignee
        BY <1>1, <1>8 DEF Row, Status, IsTemplate
    <2>2. Store(t, row)
        BY <1>8
    <2> HIDE DEF row
    <2>3. ReviewInv(t)'
        BY <1>1, <2>1, <2>2, StoreEffect DEF ReviewInv
    <2> QED
        BY <1>2, <1>5, <1>8, <2>1, <2>2, <2>3, SyncedKeepsInv
<1> QED
    BY <1>6, <1>7, <1>8 DEF Submit

LEMMA ReassignReviewerKeepsInv ==
    ASSUME IInv, NEW t \in Tasks, NEW u \in Users, NEW v \in Users, ReassignReviewer(t, u, v)
    PROVE  IInv'
<1> DEFINE row == [task[t] EXCEPT !.status = "review", !.meta.reviewer = v]
<1>1. TypeOK /\ TaskInv(t) /\ task[t] \in Row
    BY DEF IInv, TypeOK
<1>2. /\ Store(t, row) /\ SyncStatus(t, "review") /\ UNCHANGED <<replaced, deliverable, req>>
      /\ task[t].kind # "manual" /\ task[t].status # "absent" /\ v # Executor(task[t])
    BY DEF ReassignReviewer, IsTemplate
<1>3. /\ row \in Row /\ row.status = "review" /\ row.meta.reviewer = v
      /\ row.kind = task[t].kind /\ row.creator = task[t].creator
      /\ row.assignee = task[t].assignee
    BY <1>1 DEF Row, Meta, Status
<1> HIDE DEF row
<1>4. task'[t] = row
    BY <1>1, <1>2, <1>3, StoreEffect
<1>5. ReviewInv(t)'
    BY <1>1, <1>2, <1>3, <1>4 DEF TaskInv, ReviewInv, Executor
<1>6. /\ deliverable' \in [Tasks -> [version : 0 .. MaxVersions, accepted : 0 .. MaxVersions]]
      /\ deliverable'[t].version >= deliverable[t].version
    BY <1>1, <1>2, WorkItemAssumption DEF TypeOK
<1> QED
    BY <1>2, <1>3, <1>5, <1>6, SyncedKeepsInv

\* A command that moves a task to another assignee: the node is operable before and after it,
\* or is left alone.
LEMMA MovedKeepsInv ==
    ASSUME IInv, NEW t \in Tasks, NEW row \in Row, Store(t, row),
           row.status = task[t].status, row.kind = task[t].kind, row.creator = task[t].creator,
           row.meta.reviewer = task[t].meta.reviewer, row.meta.archived = task[t].meta.archived,
           task[t].status # "absent", row.assignee \in Users,
           node' \in [Tasks -> EngineState], \A s \in Tasks \ {t} : node'[s] = node[s],
           node'[t] = node[t] \/ (/\ run[t] = "active" /\ node[t] \notin Closed \cup {"none"}
                                 /\ node'[t] \in Operable),
           UNCHANGED <<run, replaced, deliverable>>,
           req' \in [Requests -> Loaded \cup {Idle}],
           \A r \in Requests : req'[r] = req[r] \/ req'[r] = Idle
    PROVE  IInv'
<1>1. TypeOK /\ TaskInv(t)
    BY DEF IInv
<1>2. task' \in [Tasks -> Row] /\ task'[t] = row /\ \A s \in Tasks \ {t} : task'[s] = task[s]
    BY <1>1, StoreEffect
<1>3. TypeOK' /\ \A s \in Tasks \ {t} : Same(s)
    BY <1>1, <1>2 DEF TypeOK, Same
<1>4. Continues(t)
    BY <1>1, <1>2, WorkItemAssumption DEF Continues, TypeOK
<1>5. NodeInv(t)'
    BY <1>1, <1>2 DEF TaskInv, NodeInv, Operable
<1>6. ManualInv(t)' /\ ReviewInv(t)' /\ AssigneeInv(t)'
    BY <1>1, <1>2 DEF TaskInv, ManualInv, ReviewInv, AssigneeInv
<1> QED
    BY <1>3, <1>4, <1>5, <1>6, Framing DEF TaskInv

LEMMA ReassignKeepsInv ==
    ASSUME IInv, NEW t \in Tasks, NEW u \in Users, NEW v \in Users, Reassign(t, u, v)
    PROVE  IInv'
<1> DEFINE row == [task[t] EXCEPT !.assignee = v,
                        !.meta.handshake = IF Kind(t) = "manual" THEN "assigned" ELSE @]
<1>1. TypeOK /\ TaskInv(t) /\ task[t] \in Row
    BY DEF IInv, TypeOK
<1>2. /\ Store(t, row) /\ UNCHANGED <<replaced, deliverable, req>>
      /\ task[t].status # "absent"
    BY DEF Reassign
<1>3. /\ row \in Row /\ row.status = task[t].status /\ row.kind = task[t].kind
      /\ row.creator = task[t].creator /\ row.meta.reviewer = task[t].meta.reviewer
      /\ row.meta.archived = task[t].meta.archived /\ row.assignee = v
    BY <1>1 DEF Row, Meta, Handshake
<1> HIDE DEF row
<1>4. CASE UNCHANGED <<node, run>>
    BY <1>1, <1>2, <1>3, <1>4, MovedKeepsInv DEF TypeOK
<1>5. CASE Kind(t) = "manual" /\ SyncHandshake(t, "activated")
    <2>1. /\ run[t] = "active" /\ node[t] \notin Closed
          /\ node' \in [Tasks -> EngineState] /\ run' = run
          /\ \A s \in Tasks \ {t} : node'[s] = node[s]
          /\ node'[t] \in Operable
        BY <1>1, <1>5, SyncHandshakeEffect DEF Operable
    <2>2. node[t] # "none"
        BY <1>1, <1>5 DEF TaskInv, NodeInv
    <2> QED
        BY <1>1, <1>2, <1>3, <2>1, <2>2, MovedKeepsInv DEF TypeOK
<1> QED
    BY <1>4, <1>5 DEF Reassign

LEMMA DelegateKeepsInv ==
    ASSUME IInv, NEW r \in Requests, NEW v \in Users, Delegate(r, v)
    PROVE  IInv'
<1>1. PICK t \in Tasks : t = req[r].task
    BY DEF Delegate, Pending, IInv, TypeOK, Loaded
<1> DEFINE row == [task[t] EXCEPT !.assignee = v,
                        !.meta.handshake = IF HasNode(t) THEN "assigned" ELSE @]
<1>2. TypeOK /\ TaskInv(t) /\ task[t] \in Row
    BY <1>1 DEF IInv, TypeOK
<1>3. /\ Store(t, row) /\ req' = [req EXCEPT ![r] = Idle]
      /\ UNCHANGED <<replaced, deliverable>>
      /\ task[t].status # "absent"
    BY <1>1 DEF Delegate
<1>4. /\ row \in Row /\ row.status = task[t].status /\ row.kind = task[t].kind
      /\ row.creator = task[t].creator /\ row.meta.reviewer = task[t].meta.reviewer
      /\ row.meta.archived = task[t].meta.archived /\ row.assignee = v
    BY <1>2 DEF Row, Meta, Handshake
<1>5. /\ req' \in [Requests -> Loaded \cup {Idle}]
      /\ \A q \in Requests : req'[q] = req[q] \/ req'[q] = Idle
    BY <1>2, <1>3 DEF TypeOK
<1> HIDE DEF row
<1>6. CASE UNCHANGED <<node, run>>
    BY <1>1, <1>2, <1>3, <1>4, <1>5, <1>6, MovedKeepsInv DEF TypeOK
<1>7. CASE HasNode(t) /\ SyncHandshake(t, "activated")
    <2>1. /\ run[t] = "active" /\ node[t] \notin Closed
          /\ node' \in [Tasks -> EngineState] /\ run' = run
          /\ \A s \in Tasks \ {t} : node'[s] = node[s]
          /\ node'[t] \in Operable
        BY <1>1, <1>2, <1>7, SyncHandshakeEffect DEF Operable
    <2>2. node[t] # "none"
        BY <1>2, <1>7 DEF TaskInv, NodeInv
    <2> QED
        BY <1>1, <1>2, <1>3, <1>4, <1>5, <2>1, <2>2, MovedKeepsInv DEF TypeOK
<1> QED
    BY <1>1, <1>6, <1>7 DEF Delegate

LEMMA TakeoverKeepsInv ==
    ASSUME IInv, NEW t \in Tasks, NEW v \in Users, Takeover(t, v)
    PROVE  IInv'
<1>1. TypeOK /\ TaskInv(t) /\ task[t] \in Row
    BY DEF IInv, TypeOK
<1>2. /\ UNCHANGED <<run, replaced, deliverable, req>>
      /\ run[t] = "active" /\ node[t] \in Operable
      /\ node' = [node EXCEPT ![t] = "activated"]
    BY DEF Takeover
<1>3. /\ node' \in [Tasks -> EngineState] /\ \A s \in Tasks \ {t} : node'[s] = node[s]
      /\ node[t] \notin Closed \cup {"none"} /\ node'[t] \in Operable
    BY <1>1, <1>2 DEF TypeOK, EngineState, Operable, Closed
<1>4. task[t].status # "absent"
    BY <1>1, <1>3 DEF TaskInv, NodeInv, NoRow
<1>5. CASE Kind(t) = "manual"
    <2> DEFINE row == [task[t] EXCEPT !.assignee = v, !.meta.handshake = "assigned"]
    <2>1. Store(t, row)
        BY <1>1, <1>5 DEF Takeover, Store
    <2>2. /\ row \in Row /\ row.status = task[t].status /\ row.kind = task[t].kind
          /\ row.creator = task[t].creator /\ row.meta.reviewer = task[t].meta.reviewer
          /\ row.meta.archived = task[t].meta.archived /\ row.assignee = v
        BY <1>1 DEF Row, Meta, Handshake
    <2> HIDE DEF row
    <2> QED
        BY <1>1, <1>2, <1>3, <1>4, <2>1, <2>2, MovedKeepsInv DEF TypeOK
<1>6. CASE Kind(t) # "manual"
    <2>1. Store(t, task[t]) /\ task[t].assignee \in Users
        BY <1>1, <1>4, <1>6 DEF Takeover, Store, TypeOK, TaskInv, AssigneeInv
    <2> QED
        BY <1>1, <1>2, <1>3, <1>4, <2>1, MovedKeepsInv DEF TypeOK
<1> QED
    BY <1>5, <1>6

LEMMA ReviewStandaloneKeepsInv ==
    ASSUME IInv, NEW t \in Tasks, NEW u \in Users, ReviewStandalone(t, u)
    PROVE  IInv'
<1>1. TypeOK /\ TaskInv(t) /\ task[t] \in Row
    BY DEF IInv, TypeOK
<1>2. ~HasNode(t) /\ task[t].status = "review" /\ UNCHANGED <<node, run, replaced, deliverable, req>>
    BY DEF ReviewStandalone, MayReview, runtime
<1>3. PICK status \in {"done", "doing"} : Store(t, [task[t] EXCEPT !.status = status])
    BY DEF ReviewStandalone
<1> DEFINE row == [task[t] EXCEPT !.status = status]
<1>4. /\ row \in Row /\ row.kind = "standalone" /\ row.status = status /\ row.creator = task[t].creator
      /\ row.assignee = task[t].assignee
    BY <1>1, <1>2 DEF Row, Status
<1>5. Store(t, row)
    BY <1>3
<1> HIDE DEF row
<1>6. task' \in [Tasks -> Row] /\ task'[t] = row /\ \A s \in Tasks \ {t} : task'[s] = task[s]
    BY <1>1, <1>4, <1>5, StoreEffect
<1>7. TypeOK' /\ \A s \in Tasks \ {t} : Same(s)
    BY <1>1, <1>2, <1>6 DEF TypeOK, Same
<1>8. Continues(t)
    BY <1>1, <1>2, <1>4, <1>6, WorkItemAssumption DEF Continues, TypeOK
<1>9. TaskInv(t)'
    BY <1>1, <1>2, <1>4, <1>6 DEF TaskInv, NodeInv, ManualInv, ReviewInv, AssigneeInv
<1> QED
    BY <1>2, <1>7, <1>8, <1>9, Framing

\* The executor closes or replaces the node of a template task.
LEMMA ExecutorKeepsInv ==
    ASSUME IInv, NEW t \in Tasks, Revoke(t) \/ RunEnds(t)
    PROVE  IInv'
<1>1. TypeOK /\ TaskInv(t)
    BY DEF IInv
<1>2. UNCHANGED <<task, deliverable, req>> /\ IsTemplate(t) /\ run[t] = "active"
    BY DEF Revoke, RunEnds
<1>3. HasNode(t) /\ Kind(t) # "manual"
    BY <1>2 DEF IsTemplate
<1>4. Continues(t)
    BY <1>1, <1>2, WorkItemAssumption DEF Continues, TypeOK
<1>5. CASE Revoke(t)
    <2>1. /\ node' = [node EXCEPT ![t] = IF node[t] \in Operable THEN "terminated" ELSE node[t]]
          /\ run' = run
          /\ replaced' = replaced \/ replaced' = [replaced EXCEPT ![t] = TRUE]
        BY <1>1, <1>5 DEF Revoke, TypeOK
    <2>2. /\ node' \in [Tasks -> EngineState] /\ \A s \in Tasks \ {t} : node'[s] = node[s]
          /\ node'[t] = node[t] \/ node'[t] = "terminated"
        BY <1>1, <2>1 DEF TypeOK, EngineState
    <2>3. replaced' \in [Tasks -> BOOLEAN]
        BY <1>1, <2>1 DEF TypeOK
    <2>4. TypeOK' /\ \A s \in Tasks \ {t} : Same(s)
        BY <1>1, <1>2, <2>1, <2>2, <2>3 DEF TypeOK, Same
    <2>5. TaskInv(t)'
        BY <1>1, <1>2, <1>3, <2>1, <2>2 DEF TaskInv, NodeInv, ManualInv, ReviewInv, AssigneeInv, Closed
    <2> QED
        BY <1>2, <1>4, <2>4, <2>5, Framing
<1>6. CASE RunEnds(t)
    <2>1. /\ run' = [run EXCEPT ![t] = "completed"] /\ node' = node /\ replaced' = replaced
          /\ node[t] \notin Operable
        BY <1>6 DEF RunEnds
    <2>2. TypeOK' /\ run'[t] = "completed" /\ \A s \in Tasks \ {t} : Same(s)
        BY <1>1, <1>2, <2>1 DEF TypeOK, Same
    <2>3. node[t] \in Closed
        BY <1>1, <1>3, <2>1 DEF TypeOK, EngineState, Operable, Closed, TaskInv, NodeInv
    <2>4. TaskInv(t)'
        BY <1>1, <1>2, <1>3, <2>1, <2>2, <2>3 DEF TaskInv, NodeInv, ManualInv, ReviewInv, AssigneeInv
    <2> QED
        BY <1>2, <1>4, <2>2, <2>4, Framing
<1> QED
    BY <1>5, <1>6

-----------------------------------------------------------------------------
(* Requests that decide on what they loaded *)

LEMMA BeginKeepsInv ==
    ASSUME IInv, NEW r \in Requests, NEW t \in Tasks, NEW u \in Users, Begin(r, t, u)
    PROVE  IInv'
<1> DEFINE meta == task[t].meta
           Decide(op, status, new) ==
                req' = [req EXCEPT ![r] = [op |-> op, task |-> t, status |-> status, meta |-> new]]
<1>1. TypeOK /\ TaskInv(t) /\ task[t] \in Row /\ meta \in Meta
    BY DEF IInv, TypeOK, Row
<1>2. UNCHANGED <<task, node, run, replaced, deliverable>> /\ task[t].status # "absent"
    BY DEF Begin, runtime
<1>3. ASSUME NEW op \in Writes, NEW status \in Status \cup {Keep}, NEW new \in Meta,
             Decide(op, status, new),
             new.reviewer = meta.reviewer,
             op \in {"approve", "return"} => HasNode(t) /\ task[t].status = "review",
             op = "approve" => status = "done",
             op = "return" => status = "doing",
             op \in {"accept", "reject"} => status = Keep,
             op = "archive" => status \in {Keep, "done"} /\ new.archived,
             op = "reject" => Kind(t) = "manual"
      PROVE  IInv'
    <2> DEFINE q == [op |-> op, task |-> t, status |-> status, meta |-> new]
    <2>1. q \in Loaded
        BY <1>3 DEF Loaded
    <2>2. req' = [req EXCEPT ![r] = q]
        BY <1>3
    <2>3. WriteInv(q)
        BY <1>1, <1>3 DEF WriteInv, TaskInv, ManualInv, ReviewInv
    <2>4. q # Idle /\ q.task = t
        BY DEF Idle
    <2> HIDE DEF q
    <2>5. TypeOK'
        BY <1>1, <1>2, <2>1, <2>2 DEF TypeOK
    <2>6. req'[r] = q /\ \A p \in Requests \ {r} : req'[p] = req[p]
        BY <1>1, <2>2 DEF TypeOK
    <2>7. RequestInv(r)'
        BY <1>2, <2>3, <2>4, <2>6 DEF RequestInv, WriteInv
    <2>8. Continues(t) /\ \A s \in Tasks : Same(s)
        BY <1>1, <1>2, WorkItemAssumption DEF Continues, Same, TypeOK
    <2>9. TaskInv(t)'
        BY <1>1, <1>2 DEF TaskInv, NodeInv, ManualInv, ReviewInv, AssigneeInv
    <2> QED
        BY <2>5, <2>6, <2>7, <2>8, <2>9, Framing
<1>4. ASSUME req' = [req EXCEPT ![r] = [op |-> "delegate", task |-> t,
                                        assignee |-> task[t].assignee]]
      PROVE  IInv'
    <2> DEFINE q == [op |-> "delegate", task |-> t, assignee |-> task[t].assignee]
    <2>1. task[t].assignee \in Users
        BY <1>1, <1>2 DEF TaskInv, AssigneeInv
    <2>2. q \in Loaded /\ q # Idle /\ q.task = t /\ q.op = "delegate"
        BY <2>1 DEF Loaded, Idle
    <2> HIDE DEF q
    <2>3. req' = [req EXCEPT ![r] = q]
        BY <1>4 DEF q
    <2>4. TypeOK'
        BY <1>1, <1>2, <2>2, <2>3 DEF TypeOK
    <2>5. req'[r] = q /\ \A p \in Requests \ {r} : req'[p] = req[p]
        BY <1>1, <2>3 DEF TypeOK
    <2>6. RequestInv(r)'
        BY <1>2, <2>2, <2>5 DEF RequestInv
    <2>7. Continues(t) /\ \A s \in Tasks : Same(s)
        BY <1>1, <1>2, WorkItemAssumption DEF Continues, Same, TypeOK
    <2>8. TaskInv(t)'
        BY <1>1, <1>2 DEF TaskInv, NodeInv, ManualInv, ReviewInv, AssigneeInv
    <2> QED
        BY <2>4, <2>5, <2>6, <2>7, <2>8, Framing
<1> DEFINE accepted == [meta EXCEPT !.handshake = "accepted"]
           rejected == [meta EXCEPT !.handshake = "rejected"]
           archived == [meta EXCEPT !.archived = TRUE]
           status   == IF task[t].status = "done" THEN Keep ELSE "done"
<1>5. /\ accepted \in Meta /\ accepted.reviewer = meta.reviewer
      /\ rejected \in Meta /\ rejected.reviewer = meta.reviewer
      /\ archived \in Meta /\ archived.reviewer = meta.reviewer /\ archived.archived
      /\ status \in {Keep, "done"}
    BY <1>1 DEF Meta, Handshake
<1>6. \/ HasNode(t) /\ MayReview(task[t], u) /\ Decide("approve", "done", meta)
      \/ HasNode(t) /\ MayReview(task[t], u) /\ Decide("return", "doing", meta)
      \/ MayAccept(task[t], u) /\ Decide("accept", Keep, accepted)
      \/ MayReject(task[t], u) /\ Decide("reject", Keep, rejected)
      \/ MayArchive(task[t], u) /\ Decide("archive", status, archived)
      \/ req' = [req EXCEPT ![r] = [op |-> "delegate", task |-> t,
                                    assignee |-> task[t].assignee]]
    BY DEF Begin
<1> HIDE DEF accepted, rejected, archived, status, Decide, meta
<1>7. CASE HasNode(t) /\ MayReview(task[t], u) /\ Decide("approve", "done", meta)
    BY <1>1, <1>3, <1>7 DEF MayReview, Writes, Status
<1>8. CASE HasNode(t) /\ MayReview(task[t], u) /\ Decide("return", "doing", meta)
    BY <1>1, <1>3, <1>8 DEF MayReview, Writes, Status
<1>9. CASE MayAccept(task[t], u) /\ Decide("accept", Keep, accepted)
    BY <1>3, <1>5, <1>9 DEF Writes
<1>10. CASE MayReject(task[t], u) /\ Decide("reject", Keep, rejected)
    BY <1>3, <1>5, <1>10 DEF Writes, MayReject
<1>11. CASE MayArchive(task[t], u) /\ Decide("archive", status, archived)
    BY <1>3, <1>5, <1>11 DEF Writes, Status
<1> QED
    BY <1>4, <1>6, <1>7, <1>8, <1>9, <1>10, <1>11

LEMMA RefuseKeepsInv ==
    ASSUME IInv, NEW r \in Requests, Refuse(r)
    PROVE  IInv'
<1>1. UNCHANGED <<task, node, run, replaced, deliverable>> /\ req' = [req EXCEPT ![r] = Idle]
    BY DEF Refuse, runtime
<1>2. TypeOK' /\ \A q \in Requests : req'[q] = req[q] \/ req'[q] = Idle
    BY <1>1 DEF IInv, TypeOK
<1>3. ASSUME NEW t \in Tasks PROVE TaskInv(t)'
    BY <1>1, <1>3 DEF IInv, TaskInv, NodeInv, ManualInv, ReviewInv, AssigneeInv
<1>4. ASSUME NEW q \in Requests PROVE RequestInv(q)'
    <2>1. CASE req'[q] = req[q]
        BY <1>1, <1>4, <2>1 DEF IInv, RequestInv, WriteInv
    <2>2. CASE req'[q] = Idle
        BY <2>2 DEF RequestInv
    <2> QED
        BY <1>2, <1>4, <2>1, <2>2
<1> QED
    BY <1>2, <1>3, <1>4 DEF IInv

LEMMA ApproveKeepsInv ==
    ASSUME IInv, NEW r \in Requests, Approve(r)
    PROVE  IInv'
<1>a. Pending(r, "approve") /\ WritesBack(r)
    BY DEF Approve
<1>b. PICK t \in Tasks : req[r].task = t
    BY <1>a, WritesBackEffect DEF Writes
<1>1. TypeOK /\ TaskInv(t)
    BY DEF IInv
<1>2. /\ task[t].status # "absent" /\ WriteInv(req[r])
      /\ task' \in [Tasks -> Row]
      /\ req' \in [Requests -> Loaded \cup {Idle}]
      /\ task'[t].status = IF req[r].status = Keep THEN task[t].status ELSE req[r].status
      /\ task'[t].meta = req[r].meta
      /\ task'[t].kind = task[t].kind /\ task'[t].creator = task[t].creator
      /\ task'[t].assignee = task[t].assignee
      /\ \A s \in Tasks \ {t} : task'[s] = task[s]
      /\ \A q \in Requests : req'[q] = req[q] \/ req'[q] = Idle
    BY <1>a, <1>b, WritesBackEffect DEF Writes
<1>3. req[r].op = "approve"
    BY <1>a DEF Pending
<1>4. /\ HasNode(t) /\ task'[t].status = "done" /\ replaced' = replaced
      /\ SyncStatus(t, "done")
      /\ deliverable' = [deliverable EXCEPT ![t].accepted = deliverable[t].version]
      /\ Kind(t) = "manual" => deliverable[t].version > 0
      /\ Kind(t) = "review" => req[r].meta.reviewer # task[t].creator
    BY <1>2, <1>3, <1>b DEF Approve, WriteInv, Keep
<1>5. /\ node' \in [Tasks -> EngineState]
      /\ run' \in [Tasks -> {"none", "active", "completed", "cancelled"}]
      /\ \A s \in Tasks \ {t} : node'[s] = node[s] /\ run'[s] = run[s]
      /\ node'[t] = "completed"
      /\ Kind(t) = "manual" => run'[t] = "completed"
      /\ Kind(t) # "manual" => run'[t] = "active"
    BY <1>1, <1>4, SyncStatusEffect DEF Status
<1>6. /\ deliverable' \in [Tasks -> [version : 0 .. MaxVersions, accepted : 0 .. MaxVersions]]
      /\ \A s \in Tasks \ {t} : deliverable'[s] = deliverable[s]
      /\ deliverable'[t].version = deliverable[t].version
      /\ deliverable'[t].accepted = deliverable[t].version
      /\ deliverable[t].version \in Nat
    BY <1>1, <1>4, WorkItemAssumption DEF TypeOK
<1>7. TypeOK' /\ \A s \in Tasks \ {t} : Same(s)
    BY <1>1, <1>2, <1>4, <1>5, <1>6 DEF TypeOK, Same
<1>8. Continues(t)
    BY <1>2, <1>4, <1>6 DEF Continues
<1>9. NodeInv(t)' /\ ReviewInv(t)' /\ AssigneeInv(t)'
    BY <1>1, <1>2, <1>4, <1>5 DEF TaskInv, NodeInv, ReviewInv, AssigneeInv, Closed
<1>10. ManualInv(t)'
    BY <1>2, <1>4, <1>5, <1>6 DEF ManualInv
<1> QED
    BY <1>1, <1>2, <1>7, <1>8, <1>9, <1>10, Framing DEF TaskInv

LEMMA ReturnKeepsInv ==
    ASSUME IInv, NEW r \in Requests, Return(r)
    PROVE  IInv'
<1>a. Pending(r, "return") /\ WritesBack(r)
    BY DEF Return
<1>b. PICK t \in Tasks : req[r].task = t
    BY <1>a, WritesBackEffect DEF Writes
<1>1. TypeOK /\ TaskInv(t)
    BY DEF IInv
<1>2. /\ task[t].status # "absent" /\ WriteInv(req[r])
      /\ task' \in [Tasks -> Row]
      /\ req' \in [Requests -> Loaded \cup {Idle}]
      /\ task'[t].status = IF req[r].status = Keep THEN task[t].status ELSE req[r].status
      /\ task'[t].meta = req[r].meta
      /\ task'[t].kind = task[t].kind /\ task'[t].creator = task[t].creator
      /\ task'[t].assignee = task[t].assignee
      /\ \A s \in Tasks \ {t} : task'[s] = task[s]
      /\ \A q \in Requests : req'[q] = req[q] \/ req'[q] = Idle
    BY <1>a, <1>b, WritesBackEffect DEF Writes
<1>3. req[r].op = "return"
    BY <1>a DEF Pending
<1>4. /\ HasNode(t) /\ task'[t].status = "doing" /\ UNCHANGED <<replaced, deliverable>>
      /\ SyncStatus(t, "doing")
      /\ Kind(t) = "review" => req[r].meta.reviewer # task[t].creator
    BY <1>2, <1>3, <1>b DEF Return, WriteInv, Keep
<1>5. /\ node' \in [Tasks -> EngineState]
      /\ run' \in [Tasks -> {"none", "active", "completed", "cancelled"}]
      /\ \A s \in Tasks \ {t} : node'[s] = node[s] /\ run'[s] = run[s]
      /\ node'[t] = "acknowledged" /\ run'[t] = "active"
    BY <1>1, <1>4, SyncStatusEffect DEF Status
<1>6. TypeOK' /\ \A s \in Tasks \ {t} : Same(s)
    BY <1>1, <1>2, <1>4, <1>5 DEF TypeOK, Same
<1>7. Continues(t)
    BY <1>1, <1>2, <1>4, WorkItemAssumption DEF Continues, TypeOK
<1>8. TaskInv(t)'
    BY <1>1, <1>2, <1>4, <1>5 DEF TaskInv, NodeInv, ManualInv, ReviewInv, AssigneeInv
<1> QED
    BY <1>1, <1>2, <1>6, <1>7, <1>8, Framing

LEMMA AcceptKeepsInv ==
    ASSUME IInv, NEW r \in Requests, Accept(r)
    PROVE  IInv'
<1>a. Pending(r, "accept") /\ WritesBack(r)
    BY DEF Accept
<1>b. PICK t \in Tasks : req[r].task = t
    BY <1>a, WritesBackEffect DEF Writes
<1>1. TypeOK /\ TaskInv(t)
    BY DEF IInv
<1>2. /\ task[t].status # "absent" /\ WriteInv(req[r])
      /\ task' \in [Tasks -> Row]
      /\ req' \in [Requests -> Loaded \cup {Idle}]
      /\ task'[t].status = IF req[r].status = Keep THEN task[t].status ELSE req[r].status
      /\ task'[t].meta = req[r].meta
      /\ task'[t].kind = task[t].kind /\ task'[t].creator = task[t].creator
      /\ task'[t].assignee = task[t].assignee
      /\ \A s \in Tasks \ {t} : task'[s] = task[s]
      /\ \A q \in Requests : req'[q] = req[q] \/ req'[q] = Idle
    BY <1>a, <1>b, WritesBackEffect DEF Writes
<1>3. req[r].op = "accept"
    BY <1>a DEF Pending
<1>4. /\ task'[t].status = task[t].status /\ UNCHANGED <<replaced, deliverable>>
      /\ Kind(t) = "review" => req[r].meta.reviewer # task[t].creator
    BY <1>2, <1>3, <1>b DEF Accept, WriteInv
<1>5. /\ node' \in [Tasks -> EngineState] /\ run' = run
      /\ \A s \in Tasks \ {t} : node'[s] = node[s]
      /\ node'[t] = node[t] \/ node'[t] \in Operable
      /\ node'[t] # node[t] => run[t] = "active" /\ node[t] \notin Closed
      /\ Kind(t) = "manual" => run[t] = "active"
    <2>1. CASE Kind(t) = "manual"
        <3>1. SyncHandshake(t, "acknowledged")
            BY <2>1, <1>b DEF Accept
        <3> QED
            BY <1>1, <3>1, SyncHandshakeEffect DEF Operable
    <2>2. CASE Kind(t) # "manual"
        BY <1>1, <2>2, <1>b DEF Accept, TypeOK
    <2> QED
        BY <2>1, <2>2
<1>6. HasNode(t) => node[t] # "none"
    BY <1>1 DEF TaskInv, NodeInv
<1>7. ~HasNode(t) => node'[t] = node[t]
    BY <1>1, <1>5 DEF TaskInv, NodeInv
<1>8. TypeOK' /\ \A s \in Tasks \ {t} : Same(s)
    BY <1>1, <1>2, <1>4, <1>5 DEF TypeOK, Same
<1>9. Continues(t)
    BY <1>1, <1>2, <1>4, WorkItemAssumption DEF Continues, TypeOK
<1>10. NodeInv(t)'
    BY <1>1, <1>2, <1>4, <1>5, <1>6, <1>7 DEF TaskInv, NodeInv, Operable
<1>11. ManualInv(t)' /\ ReviewInv(t)' /\ AssigneeInv(t)'
    BY <1>1, <1>2, <1>4, <1>5 DEF TaskInv, ManualInv, ReviewInv, AssigneeInv
<1> QED
    BY <1>1, <1>2, <1>8, <1>9, <1>10, <1>11, Framing DEF TaskInv

LEMMA RejectKeepsInv ==
    ASSUME IInv, NEW r \in Requests, Reject(r)
    PROVE  IInv'
<1>a. Pending(r, "reject") /\ WritesBack(r)
    BY DEF Reject
<1>b. PICK t \in Tasks : req[r].task = t
    BY <1>a, WritesBackEffect DEF Writes
<1>1. TypeOK /\ TaskInv(t)
    BY DEF IInv
<1>2. /\ task[t].status # "absent" /\ WriteInv(req[r])
      /\ task' \in [Tasks -> Row]
      /\ req' \in [Requests -> Loaded \cup {Idle}]
      /\ task'[t].status = IF req[r].status = Keep THEN task[t].status ELSE req[r].status
      /\ task'[t].meta = req[r].meta
      /\ task'[t].kind = task[t].kind /\ task'[t].creator = task[t].creator
      /\ task'[t].assignee = task[t].assignee
      /\ \A s \in Tasks \ {t} : task'[s] = task[s]
      /\ \A q \in Requests : req'[q] = req[q] \/ req'[q] = Idle
    BY <1>a, <1>b, WritesBackEffect DEF Writes
<1>3. req[r].op = "reject"
    BY <1>a DEF Pending
<1>4. /\ task'[t].status = task[t].status /\ UNCHANGED <<replaced, deliverable>>
      /\ Kind(t) = "review" => req[r].meta.reviewer # task[t].creator
    BY <1>2, <1>3, <1>b DEF Reject, WriteInv
<1>5. /\ node' \in [Tasks -> EngineState] /\ run' = run
      /\ \A s \in Tasks \ {t} : node'[s] = node[s]
      /\ node'[t] = node[t] \/ node'[t] \in Operable
      /\ node'[t] # node[t] => run[t] = "active" /\ node[t] \notin Closed
      /\ Kind(t) = "manual" => run[t] = "active"
    <2>1. SyncHandshake(t, "acknowledged")
        BY <1>b DEF Reject
    <2> QED
        BY <1>1, <2>1, SyncHandshakeEffect DEF Operable
<1>6. HasNode(t) => node[t] # "none"
    BY <1>1 DEF TaskInv, NodeInv
<1>7. ~HasNode(t) => node'[t] = node[t]
    BY <1>1, <1>5 DEF TaskInv, NodeInv
<1>8. TypeOK' /\ \A s \in Tasks \ {t} : Same(s)
    BY <1>1, <1>2, <1>4, <1>5 DEF TypeOK, Same
<1>9. Continues(t)
    BY <1>1, <1>2, <1>4, WorkItemAssumption DEF Continues, TypeOK
<1>10. NodeInv(t)'
    BY <1>1, <1>2, <1>4, <1>5, <1>6, <1>7 DEF TaskInv, NodeInv, Operable
<1>11. ManualInv(t)' /\ ReviewInv(t)' /\ AssigneeInv(t)'
    BY <1>1, <1>2, <1>4, <1>5 DEF TaskInv, ManualInv, ReviewInv, AssigneeInv
<1> QED
    BY <1>1, <1>2, <1>8, <1>9, <1>10, <1>11, Framing DEF TaskInv

LEMMA ArchiveKeepsInv ==
    ASSUME IInv, NEW r \in Requests, Archive(r)
    PROVE  IInv'
<1>a. Pending(r, "archive") /\ WritesBack(r)
    BY DEF Archive
<1>b. PICK t \in Tasks : req[r].task = t
    BY <1>a, WritesBackEffect DEF Writes
<1>1. TypeOK /\ TaskInv(t)
    BY DEF IInv
<1>2. /\ task[t].status # "absent" /\ WriteInv(req[r])
      /\ task' \in [Tasks -> Row]
      /\ req' \in [Requests -> Loaded \cup {Idle}]
      /\ task'[t].status = IF req[r].status = Keep THEN task[t].status ELSE req[r].status
      /\ task'[t].meta = req[r].meta
      /\ task'[t].kind = task[t].kind /\ task'[t].creator = task[t].creator
      /\ task'[t].assignee = task[t].assignee
      /\ \A s \in Tasks \ {t} : task'[s] = task[s]
      /\ \A q \in Requests : req'[q] = req[q] \/ req'[q] = Idle
    BY <1>a, <1>b, WritesBackEffect DEF Writes
<1>3. req[r].op = "archive"
    BY <1>a DEF Pending
<1>4. /\ task'[t].status \in {task[t].status, "done"} /\ task'[t].meta.archived
      /\ UNCHANGED <<replaced, deliverable>>
      /\ Kind(t) = "review" => req[r].meta.reviewer # task[t].creator
    BY <1>2, <1>3, <1>b DEF Archive, WriteInv
<1>5. /\ node' \in [Tasks -> EngineState]
      /\ run' \in [Tasks -> {"none", "active", "completed", "cancelled"}]
      /\ \A s \in Tasks \ {t} : node'[s] = node[s] /\ run'[s] = run[s]
      /\ ~HasNode(t) => node'[t] = node[t] /\ run'[t] = run[t]
      /\ HasNode(t) => node'[t] \in Closed /\ run'[t] \in {"completed", "cancelled"}
    <2>1. CASE HasNode(t) /\ run[t] \notin {"completed", "cancelled"}
        <3>1. /\ run' = [run EXCEPT ![t] = "cancelled"]
              /\ node' = [node EXCEPT ![t] = IF node[t] = "completed" THEN node[t] ELSE "terminated"]
            BY <1>1, <2>1, <1>b DEF Archive, TypeOK
        <3> QED
            BY <1>1, <2>1, <3>1 DEF TypeOK, EngineState, Closed
    <2>2. CASE ~(HasNode(t) /\ run[t] \notin {"completed", "cancelled"})
        <3>1. UNCHANGED <<node, run>>
            BY <2>2, <1>b DEF Archive
        <3> QED
            BY <1>1, <2>2, <3>1 DEF TypeOK, TaskInv, NodeInv
    <2> QED
        BY <2>1, <2>2
<1>6. TypeOK' /\ \A s \in Tasks \ {t} : Same(s)
    BY <1>1, <1>2, <1>4, <1>5 DEF TypeOK, Same
<1>7. Continues(t)
    BY <1>1, <1>2, <1>4, WorkItemAssumption DEF Continues, TypeOK
<1>8. NodeInv(t)'
    BY <1>1, <1>2, <1>4, <1>5 DEF TaskInv, NodeInv, Closed
<1>9. ManualInv(t)' /\ ReviewInv(t)' /\ AssigneeInv(t)'
    BY <1>1, <1>2, <1>4, <1>5 DEF TaskInv, ManualInv, ReviewInv, AssigneeInv
<1> QED
    BY <1>1, <1>2, <1>6, <1>7, <1>8, <1>9, Framing DEF TaskInv

-----------------------------------------------------------------------------
(* Theorems *)

LEMMA NextKeepsInv == IInv /\ [Next]_vars => IInv'
<1> SUFFICES ASSUME IInv, [Next]_vars PROVE IInv'
    OBVIOUS
<1>1. ASSUME NEW t \in Tasks, NEW v \in Users, Create(t, v) PROVE IInv'
    BY <1>1, CreateKeepsInv
<1>2. ASSUME NEW t \in Tasks, Locked(t) PROVE IInv'
    BY <1>2, TransitionKeepsInv, SubmitKeepsInv, ReviewStandaloneKeepsInv, ReassignKeepsInv,
        ReassignReviewerKeepsInv DEF Locked
<1>3. ASSUME NEW t \in Tasks, Executes(t) PROVE IInv'
    BY <1>3, ExecutorKeepsInv, TakeoverKeepsInv DEF Executes
<1>4. ASSUME NEW r \in Requests, Request(r) PROVE IInv'
    BY <1>4, BeginKeepsInv, ApproveKeepsInv, ReturnKeepsInv, AcceptKeepsInv, RejectKeepsInv,
        ArchiveKeepsInv, DelegateKeepsInv, RefuseKeepsInv DEF Request
<1>5. CASE UNCHANGED vars
    <2>1. /\ UNCHANGED <<task, node, run, replaced, deliverable, req>>
        BY <1>5 DEF vars
    <2>2. TypeOK'
        BY <2>1 DEF IInv, TypeOK
    <2>3. ASSUME NEW t \in Tasks PROVE TaskInv(t)'
        BY <2>1, <2>3 DEF IInv, TaskInv, NodeInv, ManualInv, ReviewInv, AssigneeInv
    <2>4. ASSUME NEW r \in Requests PROVE RequestInv(r)'
        BY <2>1, <2>4 DEF IInv, RequestInv, WriteInv
    <2> QED
        BY <2>2, <2>3, <2>4 DEF IInv
<1> QED
    BY <1>1, <1>2, <1>3, <1>4, <1>5 DEF Next

LEMMA InvHolds == Spec => []IInv
    BY InvIsInitial, NextKeepsInv, PTL DEF Spec

\* Every row, and what every request has loaded, keeps its shape.
THEOREM WorkItemTypes == Spec => []TypeOK
<1>1. IInv => TypeOK
    BY DEF IInv
<1> QED
    BY <1>1, InvHolds, PTL

\* No order of acceptances, reviews, takeovers, revocations and archivals leaves a work item
\* of a workflow done and its node open (human_task_coordinator.py, the mirroring of tasks).
THEOREM DoneNodesAreClosed == Spec => []DoneMeansNodeClosed
<1>1. IInv => DoneMeansNodeClosed
    BY DEF IInv, TaskInv, NodeInv, DoneMeansNodeClosed, Closed
<1> QED
    BY <1>1, InvHolds, PTL

\* The run of a manual task that is not archived is active exactly as long as the task is open
\* (sync_runtime_for_task_status, although it reads neither the node nor the run).
THEOREM ManualRunsFollowTasks == Spec => []ManualRunFollowsTask
<1>1. IInv => ManualRunFollowsTask
    BY DEF IInv, TaskInv, ManualInv, ManualRunFollowsTask
<1> QED
    BY <1>1, InvHolds, PTL

\* Nobody is designated to review their own work (_activate_template_review and
\* reassign_task_reviewer), whatever metadata overtaken requests write back.
THEOREM ReviewersAreNotAuthors == Spec => []ReviewerIsNotAuthor
<1>1. IInv => ReviewerIsNotAuthor
    BY DEF IInv, TaskInv, ReviewInv, ReviewerIsNotAuthor
<1> QED
    BY <1>1, InvHolds, PTL

\* A manual task is accepted with its latest submission (_record_task_review_result), although
\* its review decides on a row that was loaded before that submission.
THEOREM AcceptedAreLatest == Spec => []AcceptedIsLatest
<1>1. IInv => AcceptedIsLatest
    BY DEF IInv, TaskInv, ManualInv, AcceptedIsLatest
<1> QED
    BY <1>1, InvHolds, PTL

\* The row lock makes a standalone task that is done final (_refresh_task_row_with_lock): the
\* requests that decide on what they loaded return workflow tasks only.
THEOREM StandaloneTasksStayDone == Spec => StandaloneDoneIsFinal
<1>1. ASSUME IInv, [Next]_vars, NEW t \in Tasks, Kind(t) = "standalone", task[t].status = "done"
      PROVE  task'[t].status = "done"
    <2>1. ASSUME NEW s \in Tasks, NEW v \in Users, Create(s, v) PROVE task'[t].status = "done"
        <3>1. s # t
            BY <1>1, <2>1 DEF Create
        <3> QED
            BY <1>1, <2>1, <3>1 DEF Create, CreateStandalone, CreateManualGraph, CreateProjection,
                IInv, TypeOK
    <2>2. ASSUME NEW s \in Tasks, Locked(s) PROVE task'[t].status = "done"
        <3>1. PICK u \in Users :
                \/ Transition(s, u) \/ Submit(s, u) \/ ReviewStandalone(s, u)
                \/ \E v \in Users : Reassign(s, u, v) \/ ReassignReviewer(s, u, v)
            BY <2>2 DEF Locked
        <3>2. task \in [Tasks -> Row]
            BY <1>1 DEF IInv, TypeOK
        <3>3. CASE s = t
            <4>1. ~Transition(s, u) /\ ~Submit(s, u) /\ ~ReviewStandalone(s, u)
                BY <1>1, <3>3 DEF Transition, Submit, ReviewStandalone, MayReview
            <4>2. ASSUME NEW v \in Users, Reassign(s, u, v) PROVE task'[t].status = "done"
                BY <1>1, <3>2, <3>3, <4>2 DEF Reassign, Store, Row
            <4>3. ASSUME NEW v \in Users, ReassignReviewer(s, u, v) PROVE FALSE
                BY <1>1, <3>3, <4>3 DEF ReassignReviewer
            <4> QED
                BY <3>1, <4>1, <4>2, <4>3
        <3>4. CASE s # t
            <4>1. task'[t] = task[t]
                BY <3>1, <3>2, <3>4 DEF Transition, Submit, ReviewStandalone, Reassign,
                    ReassignReviewer, Store
            <4> QED
                BY <1>1, <4>1
        <3> QED
            BY <3>3, <3>4
    <2>3. ASSUME NEW s \in Tasks, Executes(s) PROVE task'[t].status = "done"
        <3>1. ASSUME NEW v \in Users, Takeover(s, v) PROVE task'[t].status = "done"
            BY <1>1, <3>1 DEF Takeover, Store, IInv, TypeOK
        <3> QED
            BY <1>1, <2>3, <3>1 DEF Executes, Revoke, RunEnds
    <2>4. ASSUME NEW r \in Requests, Request(r) PROVE task'[t].status = "done"
        <3>1. ASSUME NEW op \in Writes, Pending(r, op), WritesBack(r) PROVE task'[t].status = "done"
            <4>1. PICK s \in Tasks : req[r].task = s
                BY <1>1, <3>1, WritesBackEffect
            <4>2. /\ WriteInv(req[r])
                  /\ task'[s].status = IF req[r].status = Keep THEN task[s].status ELSE req[r].status
                  /\ s # t => task'[t] = task[t]
                BY <1>1, <3>1, <4>1, WritesBackEffect
            <4>3. req[r].op = op
                BY <3>1 DEF Pending
            <4> QED
                BY <1>1, <4>1, <4>2, <4>3 DEF WriteInv, Writes
        <3>2. ASSUME NEW v \in Users, Delegate(r, v) PROVE task'[t].status = "done"
            <4>1. PICK s \in Tasks : req[r].task = s
                BY <1>1, <3>2 DEF Delegate, Pending, IInv, TypeOK, Loaded
            <4>2. task'[t].status = task[t].status
                BY <1>1, <3>2, <4>1 DEF Delegate, Store, IInv, TypeOK, Row
            <4> QED
                BY <1>1, <4>2
        <3>3. ASSUME UNCHANGED task PROVE task'[t].status = "done"
            BY <1>1, <3>3
        <3> QED
            BY <2>4, <3>1, <3>2, <3>3 DEF Request, Begin, Approve, Return, Accept, Reject, Archive,
                Refuse, Writes
    <2>5. ASSUME UNCHANGED vars PROVE task'[t].status = "done"
        BY <1>1, <2>5 DEF vars
    <2> QED
        BY <1>1, <2>1, <2>2, <2>3, <2>4, <2>5 DEF Next
<1>2. IInv /\ [Next]_vars =>
        [\A t \in Tasks : Kind(t) = "standalone" /\ task[t].status = "done"
                            => task'[t].status = "done"]_vars
    BY <1>1
<1> QED
    BY <1>2, InvHolds, PTL DEF Spec, StandaloneDoneIsFinal
=============================================================================
