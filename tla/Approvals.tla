------------------------------ MODULE Approvals ------------------------------
(***************************************************************************)
(* The approval engine, backend/app/services/workflow_engine_service.py,   *)
(* and the graph node an approval may be started for.                      *)
(*                                                                         *)
(* A decision locks neither the approval instance nor its step runs: it    *)
(* loads them, decides on what it loaded and writes back the columns it    *)
(* changed.  It is two steps, Load and then Decide or Refused, and two     *)
(* decisions may overlap.  For an approval of a graph node the run and the *)
(* node are locked in between, after the load, and are read fresh.  A      *)
(* request that raises rolls back: GiveUp.                                 *)
(***************************************************************************)
EXTENDS Naturals, Sequences, FiniteSetsExt

CONSTANTS
    Approval,       \* approval instances
    Users,          \* users the steps are assigned to
    StepLists,      \* step lists an administrator may give the definition
    Requests,       \* requests that may be under way at the same time
    MaxIteration    \* bound: iterations of a step

Step == [type : {"approval", "task", "notify"}, mode : {"single", "all", "any"},
         target : Nat]      \* target: step to return to, 0 for the previous one

ASSUME ApprovalAssumption ==
    /\ StepLists \subseteq Seq(Step)
    /\ \A l \in StepLists :
            l # <<>> /\ \A s \in 1 .. Len(l) : l[s].target \in 0 .. Len(l)
    /\ MaxIteration \in Nat \ {0}

VARIABLES
    definition, \* row of workflow_definitions and its steps
    inst,       \* rows of workflow_instances
    rows,       \* rows[i]: status of the step runs of instance i
    node,       \* the graph node it was started for
    req,        \* what a request under way has loaded
    raced       \* instances a decision was taken on that was loaded before another one

vars == <<definition, inst, rows, node, req, raced>>

Open    == {"in_progress", "returned"}
Decided == {"approved", "completed", "rejected"}
Instance == [status : Open \cup Decided \cup {"absent"}, current : Nat]

\* A row is told by its step, iteration, assignee and the request that created it.
Starting == "start"
Key       == [step : Nat, iter : Nat, who : Users, by : Requests \cup {Starting}]
RunStatus == {"pending", "approved", "rejected", "returned", "skipped"}

Actions == {"approve", "reject", "return"}
NodeState == {"none", "activated", "acknowledged", "suspended", "completed", "terminated"}
Closed == {"completed", "terminated"}
NoSync == <<>>
Idle == [run |-> <<>>]

Init ==
    /\ definition \in [active : BOOLEAN, steps : StepLists]
    /\ inst = [i \in Approval |-> [status |-> "absent", current |-> 0]]
    /\ rows = [i \in Approval |-> <<>>]
    /\ node = [i \in Approval |-> [state |-> "none", synced |-> NoSync]]
    /\ req = [r \in Requests |-> Idle]
    /\ raced = {}

-----------------------------------------------------------------------------
(* Steps, batches and iterations *)

StepOf(s) == definition.steps[s]
Last == Len(definition.steps)

LatestIteration(held, s) == Max({0} \cup {k.iter : k \in {j \in DOMAIN held : j.step = s}})

\* Notify steps complete by themselves: where the instance stops that enters step s.
Stop(s) == Min({j \in s .. Last : StepOf(j).type # "notify"} \cup {Last + 1})

\* Who _resolve_step_assignees may come to, delegates included.
Assignees(s) ==
    IF StepOf(s).type = "notify" \/ StepOf(s).mode # "single"
    THEN (SUBSET Users) \ {{}}
    ELSE {{u} : u \in Users}

\* The batches _enter_step may create for the steps from s to where it stops.
Batches(held, s, by) ==
    LET entered == s .. Min({Stop(s), Last})
    IN  {{k \in [step : entered, iter : 1 .. MaxIteration, who : Users, by : {by}] :
              k.iter = LatestIteration(held, k.step) + 1 /\ k.who \in who[k.step]} :
            who \in {f \in [entered -> SUBSET Users] : \A e \in entered : f[e] \in Assignees(e)}}

WithinBounds(held, s) ==
    \A e \in s .. Min({Stop(s), Last}) : LatestIteration(held, e) < MaxIteration

NewStatus(k) == IF StepOf(k.step).type = "notify" THEN "skipped" ELSE "pending"

Completed(s) ==
    [status |-> IF StepOf(s).type = "approval" THEN "approved" ELSE "completed", current |-> 0]

\* Faulty variant: the instance is left at the notify step it entered.
Entered_Mutant(s, status) ==
    IF Stop(s) > Last THEN Completed(Last) ELSE [status |-> "in_progress", current |-> s]

\* The row of the instance after _enter_step for s; status is what it has there.
Entered(s, status) ==
    IF Stop(s) > Last
    THEN Completed(Last)
    ELSE [status |-> IF Stop(s) = s THEN status ELSE "in_progress", current |-> Stop(s)]

\* Faulty variant: a batch is all runs of the step.
Batch_Mutant(held, k) == {j \in DOMAIN held : j.step = k.step}

Batch(held, k) == {j \in DOMAIN held : j.step = k.step /\ j.iter = k.iter}

-----------------------------------------------------------------------------
(* Definitions and start *)

\* Faulty variant: the steps of a definition in use are replaced.
UpdateDefinition_Mutant(active, steps) ==
    /\ definition' = [active |-> active, steps |-> steps]
    /\ UNCHANGED <<inst, rows, node, req, raced>>

\* update_definition.  The steps are replaced as a whole; a step with a run cannot be
\* deleted (its runs have no other step to belong to), so this raises once one started.
UpdateDefinition(active, steps) ==
    /\ steps # definition.steps => \A i \in Approval : rows[i] = <<>>
    /\ definition' = [active |-> active, steps |-> steps]
    /\ UNCHANGED <<inst, rows, node, req, raced>>

\* start_workflow, by a user or by ensure_instance for a graph node being activated.
Start(i, forNode) ==
    /\ inst[i].status = "absent" /\ definition.active
    /\ inst' = [inst EXCEPT ![i] = Entered(1, "in_progress")]
    /\ \E new \in Batches(rows[i], 1, Starting) :
            rows' = [rows EXCEPT ![i] = [k \in new |-> NewStatus(k)]]
    /\ node' = [node EXCEPT ![i].state = IF forNode THEN "activated" ELSE "none"]
    /\ UNCHANGED <<definition, req, raced>>

-----------------------------------------------------------------------------
(* Decisions *)

\* act_step_run up to its first lock: the assignee of the run, or a manager for them.
\* Bound: no new decision on an instance on which two decisions have overlapped.
Load(r, i, k, action) ==
    /\ req[r] = Idle /\ i \notin raced
    /\ rows[i][k] = "pending"
    /\ req' = [req EXCEPT ![r] = [run |-> k, of |-> i, action |-> action,
                                  inst |-> inst[i], rows |-> rows[i]]]
    /\ UNCHANGED <<definition, inst, rows, node, raced>>

\* Faulty variant: one approval is enough for a batch that needs all of them.
Agreed_Mutant(q) == TRUE

\* The approval of q.run completes its batch, as far as the request knows.
Agreed(q) ==
    StepOf(q.run.step).mode = "all" =>
        \A j \in Batch(q.rows, q.run) \ {q.run} : q.rows[j] = "approved"

\* The siblings that are skipped with the decision.
Skipped(q) ==
    {j \in Batch(q.rows, q.run) \ {q.run} :
        q.rows[j] = "pending" /\ (q.action = "approve" => StepOf(q.run.step).mode = "any")}

\* Step a return leads to, 0 if there is none.
ReturnTarget(s) == IF StepOf(s).target # 0 THEN StepOf(s).target ELSE s - 1

\* The step the decision enters, 0 if it enters none.
EntersStep(q) ==
    CASE q.action = "return" -> ReturnTarget(q.run.step)
      [] q.action = "approve" /\ Agreed(q) /\ q.run.step < Last -> q.run.step + 1
      [] OTHER -> 0

\* The instance as the request leaves it in its own session.
Result(q) ==
    CASE q.action = "reject" -> [status |-> "rejected", current |-> 0]
      [] q.action = "return" -> Entered(ReturnTarget(q.run.step), "returned")
      [] q.action = "approve" /\ ~Agreed(q) -> q.inst
      [] q.action = "approve" /\ Agreed(q) /\ q.run.step < Last ->
            Entered(q.run.step + 1, "in_progress")
      [] OTHER -> Completed(q.run.step)

Verdict(action) ==
    CASE action = "approve" -> "approved" [] action = "reject" -> "rejected"
      [] action = "return" -> "returned"

\* Faulty variant: the status the request came to is not written back.
Merged_Mutant(stored, loaded, new) == [stored EXCEPT !.current = new.current]

\* Only columns that differ from what was loaded are written.
Merged(stored, loaded, new) ==
    [c \in {"status", "current"} |-> IF new[c] = loaded[c] THEN stored[c] ELSE new[c]]

\* Faulty variant: the end of the node is not looked at.
Consume_Mutant(i, sync, decided) ==
    node' = [node EXCEPT ![i] =
        [state |-> IF decided THEN "completed" ELSE "acknowledged", synced |-> sync]]

\* consume_approval_result: nothing for a result already consumed, an error for a closed
\* node.  An approval without a node (state none) has nobody to tell.
Consume(i, sync, decided) ==
    IF node[i].state = "none" \/ node[i].synced = sync
    THEN UNCHANGED node
    ELSE /\ node[i].state \notin Closed
         /\ node' = [node EXCEPT ![i] =
                [state |-> IF decided THEN "completed" ELSE "acknowledged", synced |-> sync]]

\* The rest of act_step_run.
Decide(r) ==
    /\ req[r] # Idle
    /\ LET q == req[r]
           i == q.of
           s == EntersStep(q)
           result == Result(q)
       IN  /\ q.action = "return" => s # 0
           /\ s # 0 => WithinBounds(q.rows, s)
           /\ \E new \in IF s = 0 THEN {{}} ELSE Batches(q.rows, s, r) :
                rows' = [rows EXCEPT ![i] = [k \in DOMAIN rows[i] \cup new |->
                    IF k \in new THEN NewStatus(k)
                    ELSE IF k = q.run THEN Verdict(q.action)
                    ELSE IF k \in Skipped(q) THEN "skipped" ELSE rows[i][k]]]
           /\ inst' = [inst EXCEPT ![i] = Merged(inst[i], q.inst, result)]
           /\ Consume(i, <<q.run, q.action, result.status>>, result.status \in Decided)
           /\ raced' = IF q.rows = rows[i] THEN raced ELSE raced \cup {i}
    /\ req' = [req EXCEPT ![r] = Idle]
    /\ UNCHANGED definition

\* validate_approval_action finds that the decision policy refuses the actor (never a
\* manager) and parks the node, or leaves it if it is the refusal it recorded last.  It
\* looks at the step run as loaded, never at the state of the node.
Refused(r) ==
    /\ req[r] # Idle
    /\ node[req[r].of].state # "none"
    /\ node' = [node EXCEPT ![req[r].of].state = "suspended"]
    /\ req' = [req EXCEPT ![r] = Idle]
    /\ UNCHANGED <<definition, inst, rows, raced>>

GiveUp(r) ==
    /\ req[r] # Idle
    /\ req' = [req EXCEPT ![r] = Idle]
    /\ UNCHANGED <<definition, inst, rows, node, raced>>

\* The engine revokes the node: its approval is not cancelled.
Revoke(i) ==
    /\ node[i].state \in {"activated", "acknowledged", "suspended"}
    /\ node' = [node EXCEPT ![i].state = "terminated"]
    /\ UNCHANGED <<definition, inst, rows, req, raced>>

Next ==
    \/ \E active \in BOOLEAN, steps \in StepLists : UpdateDefinition(active, steps)
    \/ \E i \in Approval, forNode \in BOOLEAN : Start(i, forNode)
    \/ \E r \in Requests, i \in Approval, action \in Actions :
            \E k \in DOMAIN rows[i] : Load(r, i, k, action)
    \/ \E r \in Requests : Decide(r) \/ Refused(r) \/ GiveUp(r)
    \/ \E i \in Approval : Revoke(i)

Spec == Init /\ [][Next]_vars

-----------------------------------------------------------------------------
\* The types; the runs and the current step of an instance are of steps its definition has.
TypeOK ==
    /\ definition \in [active : BOOLEAN, steps : StepLists]
    /\ inst \in [Approval -> Instance]
    /\ DOMAIN rows = Approval
    /\ \A i \in Approval : \A k \in DOMAIN rows[i] :
            k \in Key /\ k.step \in 1 .. Last /\ rows[i][k] \in RunStatus
    /\ \A i \in Approval : node[i].state \in NodeState
    /\ \A i \in Approval : inst[i].current \in 0 .. Last
    /\ raced \subseteq Approval

\* An approval nobody can decide on any more is never left open: unless two decisions on it
\* overlapped (act_step_run takes no lock), an open instance has a pending step run.
OpenHasPending ==
    \A i \in Approval \ raced :
        inst[i].status \in Open => \E k \in DOMAIN rows[i] : rows[i][k] = "pending"

\* Who is asked to decide is asked for the current step and its latest round, and for an open
\* instance: rejects, returns and votes that end a batch leave no pending run behind.
PendingIsCurrent ==
    \A i \in Approval \ raced : \A k \in DOMAIN rows[i] : rows[i][k] = "pending" =>
        /\ inst[i].status \in Open
        /\ k.step = inst[i].current
        /\ k.iter = LatestIteration(rows[i], k.step)

\* The latest round of step s has passed.
Passed(i, s) ==
    LET batch == {k \in DOMAIN rows[i] : k.step = s /\ k.iter = LatestIteration(rows[i], s)}
        with(status) == {k \in batch : rows[i][k] = status}
    IN  IF StepOf(s).mode = "all" THEN batch = with("approved")
        ELSE \E k \in batch : with("approved") = {k} /\ batch \ {k} = with("skipped")

\* An approval is only ever granted after the latest round of each of its steps has passed:
\* everybody approved (parallel_all), or one did and the others were skipped, where no
\* step returns to a later one: such a return skips the steps in between.
ApprovedMeansAgreed ==
    \A i \in Approval \ raced : inst[i].status \in {"approved", "completed"} =>
        \A s \in 1 .. Last : StepOf(s).type = "notify" \/ Passed(i, s)

\* consume_approval_result completes the graph node only for a decided approval.
NodeDoneMeansDecided ==
    \A i \in Approval \ raced : node[i].state = "completed" => inst[i].status \in Decided

\* A decision that was loaded before the graph node was completed or revoked, and comes to be
\* written after it, does not change the outcome of the approval: consume_approval_result
\* raises, or the result is one it has consumed already.
ClosedNodeFrozen ==
    [][\A i \in Approval \ raced : node[i].state \in Closed =>
            inst'[i].status = inst[i].status]_vars
=============================================================================
