------------------------------ MODULE WorkItems ------------------------------
(***************************************************************************)
(* Work items (tasks) and the workflow node each of them stands for:       *)
(* backend/app/services/task_service.py with human_task_coordinator.py,    *)
(* workflow_orchestration_service.py and workflow_delivery_handlers.py.    *)
(*                                                                         *)
(* Commands that take the row lock of the task re-read it under the lock,  *)
(* so they are one step.  The others decide on the row they loaded when    *)
(* the request began and write back later the columns they changed; the    *)
(* free-form metadata of a task is one column, written as a whole.  Such a *)
(* command is two steps: Begin loads the row and decides, the second step  *)
(* writes and commits.  A command that raises rolls back: it is no step.   *)
(***************************************************************************)
EXTENDS Naturals, FiniteSets

CONSTANTS
    Tasks,
    KindsOf,        \* the kinds a task may be created as, per task
    CreatorOf,      \* who creates it
    Users,
    Managers,       \* users with a role of MANAGEMENT_ROLES
    Admins,         \* managers with the role ADMIN
    Fallback,       \* whom _review_fallback_candidates falls back to
    Requests,       \* requests that may be under way at the same time
    MaxVersions     \* bound: submissions of a task

\* "submit" and "review" are template tasks by the completion policy of their node.
Kinds == {"standalone", "manual", "submit", "review"}
NoUser == "nobody"

ASSUME WorkItemAssumption ==
    /\ KindsOf \in [Tasks -> SUBSET Kinds]
    /\ CreatorOf \in [Tasks -> Users]
    /\ Admins \subseteq Managers /\ Managers \subseteq Users
    /\ Fallback \subseteq Users
    /\ NoUser \notin Users
    /\ MaxVersions \in Nat

VARIABLES
    task,       \* row of tasks
    node,       \* engine state of the node instance behind the task
    run,        \* status of the run the node belongs to
    replaced,   \* the node has a newer iteration
    deliverable,\* number of the latest and of the accepted submission, 0: none
    req         \* what a request under way has loaded and decided

vars == <<task, node, run, replaced, deliverable, req>>
runtime == <<node, run, replaced>>

\* The metadata column: acceptance of the assignment, designated reviewer, archive mark.
Handshake == {"none", "assigned", "accepted", "rejected"}
Meta == [handshake : Handshake, reviewer : Users \cup {NoUser}, archived : BOOLEAN]
NoMeta == [handshake |-> "none", reviewer |-> NoUser, archived |-> FALSE]

Status == {"todo", "doing", "review", "blocked", "done"}
Row == [kind : Kinds, status : Status \cup {"absent"}, creator : Users \cup {NoUser},
        assignee : Users \cup {NoUser}, meta : Meta]
NoRow == [kind |-> "standalone", status |-> "absent", creator |-> NoUser,
          assignee |-> NoUser, meta |-> NoMeta]

EngineState == {"none", "activated", "acknowledged", "completed", "terminated"}

\* A request under way: the assignee it saw if it is a delegation, else the columns it
\* is to write.
Writes == {"approve", "return", "accept", "reject", "archive"}
Keep   == "unchanged"
Idle   == [op |-> "none"]
Loaded == [op : {"delegate"}, task : Tasks, assignee : Users]
            \cup [op : Writes, task : Tasks, status : Status \cup {Keep}, meta : Meta]

Kind(t)        == task[t].kind
IsTemplate(t)  == Kind(t) \in {"submit", "review"}
HasNode(t)     == Kind(t) # "standalone"

\* Faulty variant: a closed node may be taken over.
Operable_Mutant == EngineState \ {"none"}

\* ACTIVATED, ACKNOWLEDGED: the states in which a node may be worked on
Operable == {"activated", "acknowledged"}

Init ==
    /\ task = [t \in Tasks |-> NoRow]
    /\ node = [t \in Tasks |-> "none"]
    /\ run = [t \in Tasks |-> "none"]
    /\ replaced = [t \in Tasks |-> FALSE]
    /\ deliverable = [t \in Tasks |-> [version |-> 0, accepted |-> 0]]
    /\ req = [r \in Requests |-> Idle]

-----------------------------------------------------------------------------
(* Writing back *)

Store(t, new) == task' = [task EXCEPT ![t] = new]

\* Faulty variant: the run of a finished manual task is left active.
SyncStatus_Mutant(t, target) ==
    /\ node' = [node EXCEPT ![t] =
            IF ~HasNode(t) THEN @ ELSE IF target = "done" THEN "completed" ELSE "acknowledged"]
    /\ run' = [run EXCEPT ![t] = IF HasNode(t) THEN "active" ELSE @]

\* sync_runtime_for_task_status: neither the state of the node nor that of the run is read.
SyncStatus(t, target) ==
    IF ~HasNode(t)
    THEN UNCHANGED <<node, run>>
    ELSE /\ node' = [node EXCEPT ![t] = IF target = "done" THEN "completed" ELSE "acknowledged"]
         /\ run' = [run EXCEPT ![t] =
                IF target = "done" /\ Kind(t) = "manual" THEN "completed" ELSE "active"]

\* sync_runtime_for_handshake_state raises for an ended run or a closed node.
SyncHandshake(t, state) ==
    /\ run[t] = "active" /\ node[t] \notin {"completed", "terminated"}
    /\ node' = [node EXCEPT ![t] = state]
    /\ UNCHANGED run

\* _maybe_progress_template_graph_after_completion: the cascade behind the node is started
\* for the completion policy of the node, and raises for an old iteration.
MayProgress(t, policy) == Kind(t) = policy => ~replaced[t]

-----------------------------------------------------------------------------
(* Who may do what *)

CanOperate(u, t) == u \in Managers \cup {task[t].creator, task[t].assignee}
CanWork(u, row)  == u \in Managers \cup {row.assignee}

\* Faulty variant: a dedicated review node is taken for a task its assignee has executed.
Executor_Mutant(row) == row.assignee

\* Whose work a template reviewer must not be the author of.
Executor(row) == IF row.kind = "review" THEN row.creator ELSE row.assignee

CanReview(u, row) ==
    IF row.kind \in {"submit", "review"}
    THEN u \in Admins \/ (u # Executor(row) /\ u = row.meta.reviewer)
    ELSE u \in Managers \cup {row.creator}

\* The rows _activate_template_review may leave: a reviewer, or a blocked task.
InReview(row, initial) ==
    LET eligible == initial \ {Executor(row)}
        found    == IF eligible # {} THEN eligible ELSE Fallback \ {Executor(row)}
        reviewed(u) == [row EXCEPT !.status = "review", !.meta.reviewer = u]
    IN  IF found # {} THEN {reviewed(u) : u \in found}
        ELSE {[row EXCEPT !.status = "blocked", !.meta.reviewer = NoUser]}

-----------------------------------------------------------------------------
(* Creation: create_task, the legacy single-node graph, projection tasks *)

CreateStandalone(t, u, v) ==
    /\ "standalone" \in KindsOf[t]
    /\ task' = [task EXCEPT ![t] = [NoRow EXCEPT !.status = "todo", !.creator = u,
                                                 !.assignee = v]]
    /\ UNCHANGED runtime

CreateManualGraph(t, u, v) ==
    /\ "manual" \in KindsOf[t]
    /\ task' = [task EXCEPT ![t] = [NoRow EXCEPT !.kind = "manual", !.status = "todo",
                    !.creator = u, !.assignee = v, !.meta.handshake = "assigned"]]
    /\ node' = [node EXCEPT ![t] = "activated"]
    /\ run' = [run EXCEPT ![t] = "active"]
    /\ UNCHANGED replaced

\* A node whose policy is on_submit_deliverable gets a task in progress, one whose
\* policy is on_review_approved a task its assignee is asked to review at once;
\* both ask for a handshake, which a task that does not may be taken to leave unanswered.
CreateProjection(t, u, v) ==
    /\ \E kind \in KindsOf[t] \cap {"submit", "review"} :
         LET row == [NoRow EXCEPT !.kind = kind, !.status = "doing", !.creator = u,
                                  !.assignee = v, !.meta.handshake = "assigned"]
         IN  /\ \E new \in IF kind = "submit" THEN {row} ELSE InReview(row, {v}) :
                    task' = [task EXCEPT ![t] = new]
             /\ node' = [node EXCEPT ![t] =
                    IF kind = "submit" THEN "activated" ELSE "acknowledged"]
    /\ run' = [run EXCEPT ![t] = "active"]
    /\ UNCHANGED replaced

Create(t, v) ==
    /\ task[t].status = "absent"
    /\ \/ CreateStandalone(t, CreatorOf[t], v)
       \/ CreateManualGraph(t, CreatorOf[t], v)
       \/ CreateProjection(t, CreatorOf[t], v)
    /\ UNCHANGED <<deliverable, req>>

-----------------------------------------------------------------------------
(* Commands under the row lock of the task *)

\* Faulty variant: the status endpoint finishes any task.
ByStatus_Mutant(t, target) == TRUE

\* A manual task of the engine is only started through its status, once it is accepted.
ByStatus(t, target) ==
    Kind(t) = "manual" => target = "doing" /\ task[t].meta.handshake = "accepted"

\* transition_task_status; that it may be refused for a prerequisite is left open.
Transition(t, u) ==
    /\ task[t].status \in {"todo", "doing", "review"}
    /\ LET from   == task[t].status
           target == CASE from = "todo" -> "doing" [] from = "doing" -> "review"
                       [] from = "review" -> "done"
       IN  /\ IF Kind(t) = "standalone"
              THEN IF from = "review" THEN CanReview(u, task[t]) ELSE CanWork(u, task[t])
              ELSE CanOperate(u, t)
           /\ ByStatus(t, target)
           /\ Store(t, [task[t] EXCEPT !.status = target])
           /\ SyncStatus(t, target)
           /\ target = "done" => MayProgress(t, "review")
    /\ UNCHANGED <<replaced, deliverable, req>>

\* update_task, as far as it moves the task to another assignee
Reassign(t, u, v) ==
    /\ task[t].status # "absent"
    /\ CanOperate(u, t)
    /\ v # task[t].assignee
    /\ Store(t, [task[t] EXCEPT !.assignee = v,
                    !.meta.handshake = IF Kind(t) = "manual" THEN "assigned" ELSE @])
    /\ IF Kind(t) = "manual" /\ task[t].status = "todo"
       THEN SyncHandshake(t, "activated")
       ELSE UNCHANGED <<node, run>>
    /\ UNCHANGED <<replaced, deliverable, req>>

\* reassign_task_reviewer
ReassignReviewer(t, u, v) ==
    /\ u \in Admins
    /\ IsTemplate(t)
    /\ task[t].status \in {"blocked", "review"}
    /\ v # Executor(task[t])
    /\ Store(t, [task[t] EXCEPT !.status = "review", !.meta.reviewer = v])
    /\ SyncStatus(t, "review")
    /\ UNCHANGED <<replaced, deliverable, req>>

\* submit_task_deliverable.  The archive mark is looked at before the lock, which a
\* request that began before the archival passes: it guards nothing here.
Submit(t, u) ==
    /\ task[t].status = "doing"
    /\ CanWork(u, task[t])
    /\ deliverable[t].version < MaxVersions
    /\ LET row     == task[t]
           version == deliverable[t].version + 1
       IN  /\ deliverable' = [deliverable EXCEPT ![t] =
                    IF ~HasNode(t) THEN @
                    ELSE [version |-> version,
                          accepted |-> IF row.kind = "submit" THEN version ELSE @.accepted]]
           /\ \/ /\ row.kind = "submit"
                 /\ Store(t, [row EXCEPT !.status = "done"])
                 /\ SyncStatus(t, "done")
                 /\ MayProgress(t, "submit")
              \/ /\ row.kind = "review"
                 /\ \E new \in InReview(row, {IF row.meta.reviewer = NoUser THEN row.creator
                                              ELSE row.meta.reviewer}) : Store(t, new)
                 /\ SyncStatus(t, "review")
              \/ /\ ~IsTemplate(t)
                 /\ Store(t, [row EXCEPT !.status = "review"])
                 /\ SyncStatus(t, "review")
    /\ UNCHANGED <<replaced, req>>

\* Faulty variant: the status is not looked at.
MayReview_Mutant(row, u) == CanReview(u, row)

\* What a review asks of the row it decides on.
MayReview(row, u) == row.status = "review" /\ CanReview(u, row)

\* review_task_deliverable reads a standalone task again under its lock.
ReviewStandalone(t, u) ==
    /\ ~HasNode(t) /\ MayReview(task[t], u)
    /\ \E status \in {"done", "doing"} : Store(t, [task[t] EXCEPT !.status = status])
    /\ UNCHANGED <<runtime, deliverable, req>>

-----------------------------------------------------------------------------
(* Commands that decide on what they loaded *)

\* What accept_task_assignment, reject_task_assignment and archive_task_by_admin ask of
\* the row they have loaded.
MayAccept(row, u) ==
    /\ row.kind \in {"standalone", "manual"} => CanWork(u, row) /\ row.status = "todo"
    /\ row.kind = "manual" => row.meta.handshake = "assigned"

MayReject(row, u) ==
    /\ row.kind = "manual"
    /\ CanWork(u, row)
    /\ row.status = "todo"
    /\ row.meta.handshake \in {"assigned", "accepted"}

MayArchive(row, u) == u \in Admins /\ ~row.meta.archived

\* A request loads the row and decides.  review_task_deliverable goes on with what it
\* loaded unless the task is standalone; its metadata column is written in any case.
Begin(r, t, u) ==
    /\ req[r] = Idle
    /\ task[t].status # "absent"
    /\ LET row  == task[t]
           meta == row.meta
           Decide(op, status, new) ==
                req' = [req EXCEPT ![r] = [op |-> op, task |-> t, status |-> status, meta |-> new]]
       IN  \/ HasNode(t) /\ MayReview(row, u) /\ Decide("approve", "done", meta)
           \/ HasNode(t) /\ MayReview(row, u) /\ Decide("return", "doing", meta)
           \/ MayAccept(row, u) /\ Decide("accept", Keep, [meta EXCEPT !.handshake = "accepted"])
           \/ MayReject(row, u) /\ Decide("reject", Keep, [meta EXCEPT !.handshake = "rejected"])
           \/ MayArchive(row, u) /\ Decide("archive", IF row.status = "done" THEN Keep ELSE "done",
                                           [meta EXCEPT !.archived = TRUE])
           \/ /\ ~IsTemplate(t) /\ CanWork(u, row)
              /\ req' = [req EXCEPT ![r] = [op |-> "delegate", task |-> t,
                                            assignee |-> row.assignee]]
    /\ UNCHANGED <<task, runtime, deliverable>>

Pending(r, op) == req[r] # Idle /\ req[r].op = op

\* The unit of work updates the columns whose value differs from the loaded one.
WritesBack(r) ==
    /\ task' = [task EXCEPT ![req[r].task].status = IF req[r].status = Keep THEN @
                                                    ELSE req[r].status,
                            ![req[r].task].meta = req[r].meta]
    /\ req' = [req EXCEPT ![r] = Idle]

\* The command raises, or its client goes away: the session is rolled back.
Refuse(r) ==
    /\ req[r] # Idle
    /\ req' = [req EXCEPT ![r] = Idle]
    /\ UNCHANGED <<task, runtime, deliverable>>

\* What is accepted is the submission that is the latest when the review commits.
Approve(r) ==
    /\ Pending(r, "approve")
    /\ WritesBack(r)
    /\ deliverable' = [deliverable EXCEPT ![req[r].task].accepted = deliverable[req[r].task].version]
    /\ SyncStatus(req[r].task, "done")
    /\ MayProgress(req[r].task, "review")
    /\ UNCHANGED replaced

Return(r) ==
    /\ Pending(r, "return")
    /\ WritesBack(r)
    /\ SyncStatus(req[r].task, "doing")
    /\ UNCHANGED <<replaced, deliverable>>

\* Neither the status of the task nor the state of the node is looked at for a template task.
Accept(r) ==
    /\ Pending(r, "accept")
    /\ WritesBack(r)
    /\ IF Kind(req[r].task) = "manual" THEN SyncHandshake(req[r].task, "acknowledged")
                                       ELSE UNCHANGED <<node, run>>
    /\ UNCHANGED <<replaced, deliverable>>

Reject(r) ==
    /\ Pending(r, "reject")
    /\ WritesBack(r)
    /\ SyncHandshake(req[r].task, "acknowledged")
    /\ UNCHANGED <<replaced, deliverable>>

\* archive_task_by_admin with cancel_instance_by_admin
Archive(r) ==
    /\ Pending(r, "archive")
    /\ WritesBack(r)
    /\ LET t == req[r].task
       IN  IF HasNode(t) /\ run[t] \notin {"completed", "cancelled"}
           THEN /\ run' = [run EXCEPT ![t] = "cancelled"]
                /\ node' = [node EXCEPT ![t] = IF @ = "completed" THEN @ ELSE "terminated"]
           ELSE UNCHANGED <<node, run>>
    /\ UNCHANGED <<replaced, deliverable>>

\* The assignee must still be the one the request saw when it began.
Undelegated(r) == task[req[r].task].assignee = req[r].assignee

\* delegate_task_assignment; who asks has been allowed to by the assignee it saw.
Delegate(r, v) ==
    /\ Pending(r, "delegate")
    /\ Undelegated(r)
    /\ LET t   == req[r].task
           row == task[t]
       IN  /\ v # row.assignee
           /\ IF HasNode(t)
              THEN row.status = "todo" /\ row.meta.handshake \in {"assigned", "accepted"}
              ELSE row.status \in {"todo", "doing"}
           /\ Store(t, [row EXCEPT !.assignee = v,
                           !.meta.handshake = IF HasNode(t) THEN "assigned" ELSE @])
           /\ IF HasNode(t) THEN SyncHandshake(t, "activated") ELSE UNCHANGED <<node, run>>
    /\ req' = [req EXCEPT ![r] = Idle]
    /\ UNCHANGED <<replaced, deliverable>>

-----------------------------------------------------------------------------
(* What the executor does to the node of a template task *)

\* A race is lost, or a deep reject opens a newer iteration of the node.
Revoke(t) ==
    /\ IsTemplate(t) /\ run[t] = "active"
    /\ \/ node[t] \in Operable /\ UNCHANGED replaced
       \/ ~replaced[t] /\ node[t] # "none" /\ replaced' = [replaced EXCEPT ![t] = TRUE]
    /\ node' = [node EXCEPT ![t] = IF @ \in Operable THEN "terminated" ELSE @]
    /\ UNCHANGED <<task, run, deliverable, req>>

\* takeover_node_instance with sync_work_item_after_takeover
Takeover(t, v) ==
    /\ run[t] = "active"
    /\ node[t] \in Operable
    /\ node' = [node EXCEPT ![t] = "activated"]
    /\ IF Kind(t) = "manual"
       THEN Store(t, [task[t] EXCEPT !.assignee = v, !.meta.handshake = "assigned"])
       ELSE UNCHANGED task
    /\ UNCHANGED <<run, replaced, deliverable, req>>

RunEnds(t) ==
    /\ IsTemplate(t) /\ run[t] = "active"
    /\ node[t] \notin Operable
    /\ run' = [run EXCEPT ![t] = "completed"]
    /\ UNCHANGED <<task, node, replaced, deliverable, req>>

-----------------------------------------------------------------------------

Locked(t) ==
    \E u \in Users :
        \/ Transition(t, u) \/ Submit(t, u) \/ ReviewStandalone(t, u)
        \/ \E v \in Users : Reassign(t, u, v) \/ ReassignReviewer(t, u, v)

Request(r) ==
    \/ \E t \in Tasks, u \in Users : Begin(r, t, u)
    \/ Approve(r) \/ Return(r) \/ Accept(r) \/ Reject(r) \/ Archive(r)
    \/ \E v \in Users : Delegate(r, v)
    \/ Refuse(r)

Executes(t) ==
    \/ Revoke(t) \/ RunEnds(t)
    \/ \E v \in Users : Takeover(t, v)

Next ==
    \/ \E t \in Tasks, v \in Users : Create(t, v)
    \/ \E t \in Tasks : Locked(t) \/ Executes(t)
    \/ \E r \in Requests : Request(r)

Spec == Init /\ [][Next]_vars

-----------------------------------------------------------------------------
(* Properties *)

\* Every variable holds values of its kind.
TypeOK ==
    /\ task \in [Tasks -> Row]
    /\ node \in [Tasks -> EngineState]
    /\ run \in [Tasks -> {"none", "active", "completed", "cancelled"}]
    /\ replaced \in [Tasks -> BOOLEAN]
    /\ deliverable \in [Tasks -> [version : 0 .. MaxVersions, accepted : 0 .. MaxVersions]]
    /\ req \in [Requests -> Loaded \cup {Idle}]

\* A work item of a workflow that is done has a node that is closed, whatever order
\* accepts, reviews, takeovers, revocations and archivals commit in.
DoneMeansNodeClosed ==
    \A t \in Tasks : HasNode(t) /\ task[t].status = "done"
                        => node[t] \in {"completed", "terminated"}

\* The run of a manual task is active exactly as long as the task is open.
ManualRunFollowsTask ==
    \A t \in Tasks : Kind(t) = "manual" /\ ~task[t].meta.archived =>
                        (run[t] = "active" <=> task[t].status # "done")

\* The designated reviewer of a review node is never the author of what is reviewed,
\* whatever metadata overtaken requests write back.
ReviewerIsNotAuthor ==
    \A t \in Tasks : Kind(t) = "review" => task[t].meta.reviewer # task[t].creator

\* What a reviewer of a manual task accepts is the latest submission.
AcceptedIsLatest ==
    \A t \in Tasks : Kind(t) = "manual" /\ task[t].status = "done" /\ ~task[t].meta.archived
                        => /\ deliverable[t].version > 0
                           /\ deliverable[t].accepted = deliverable[t].version

\* A standalone task that is done stays done: reviews, submissions, delegations and
\* transitions that were under way are refused.
StandaloneDoneIsFinal ==
    [][\A t \in Tasks : Kind(t) = "standalone" /\ task[t].status = "done"
                            => task'[t].status = "done"]_vars

\* "DONE tasks are terminal" (task_service.py:3487; ALLOWED_TASK_STATUS_TRANSITIONS, 364, leads
\* nowhere from DONE), stated of every task.
DoneIsTerminal ==
    [][\A t \in Tasks : task[t].status = "done" => task'[t].status = "done"]_vars
=============================================================================
