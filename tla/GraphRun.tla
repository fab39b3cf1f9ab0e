------------------------------ MODULE GraphRun ------------------------------
(***************************************************************************)
(* One run of the graph-v3 workflow executor of                            *)
(* backend/app/services/workflow_graph_service.py.                         *)
(*                                                                         *)
(* A run is a row of workflow_graph_instances and one node instance per    *)
(* (node key, iteration).  A command of the engine locks the run row, then *)
(* the node row, so these commands are serialised; what a command does     *)
(* after its own update (route, scan the joins, drain the notices, settle  *)
(* the run) is the cascade of _activate_downstream_v3.  The cascade is     *)
(* unbounded, so it is modelled as consecutive steps of ONE transaction:   *)
(* tx names the step that is due, every command waits for tx to be idle,   *)
(* and a property about committed data speaks of the states where tx is    *)
(* idle.  A transaction that raises rolls back: it is no step at all.      *)
(*                                                                         *)
(* The task service is the second writer of the same rows.  Its commands   *)
(* lock the row of the TASK and write node and run without looking at      *)
(* them, so they may write out of turn: to a closed or replaced node, to a *)
(* run that has ended, or a completion that is never routed.  So do the    *)
(* rework of video production and a refused decision on a closed node.     *)
(* stray remembers these rows, and the properties say what holds of the    *)
(* others.                                                                 *)
(***************************************************************************)
EXTENDS Naturals, FiniteSets

CONSTANTS
    Node,           \* node keys of the definition snapshot
    Edge,           \* forward (non-reject) edges <<from, to>>
    NodeType,       \* "task", "approval" (with a decision semantic), "notice"
    JoinMode,       \* "all" or "any", per node
    RoutingMode,    \* "inclusive" (= "parallel") or "exclusive" (= "first_match")
    Condition,      \* per edge: "always", "test" (context decides) or "else"
    Priority,       \* per edge
    KeyOrder,       \* the alphabetical order of the node keys
    Policy,         \* completion_policy: "submit", "review" or "none", per node
    MaxIterations,  \* max_iterations of the run (5 in the code)
    MaxLate         \* bound: how often a row is written out of turn

Iteration == 1 .. MaxIterations

Closed(C) == \A e \in Edge : e[1] \in C => e[2] \in C

\* Nodes reached from a set of nodes along forward edges, the set included.
ReachTable ==
    [S \in SUBSET Node |->
        {n \in Node : \A C \in SUBSET Node : S \subseteq C /\ Closed(C) => n \in C}]
Reachable(S) == ReachTable[S]

Pred(n) == {e[1] : e \in {f \in Edge : f[2] = n}}
Out(n)  == {e \in Edge : e[1] = n}
StartNodes == {n \in Node : Pred(n) = {}}
EndNodes   == {n \in Node : Out(n) = {}}

\* What the template topology validator accepts: a non-empty acyclic graph.
ASSUME GraphAssumption ==
    /\ Node # {}
    /\ IsFiniteSet(Node)
    /\ Edge \subseteq Node \X Node
    /\ NodeType \in [Node -> {"task", "approval", "notice"}]
    /\ JoinMode \in [Node -> {"all", "any"}]
    /\ RoutingMode \in [Node -> {"inclusive", "exclusive"}]
    /\ Condition \in [Edge -> {"always", "test", "else"}]
    /\ Priority \in [Edge -> Nat]
    /\ KeyOrder \in [Node -> Nat]
    /\ \A m, n \in Node : KeyOrder[m] = KeyOrder[n] => m = n
    /\ \A e \in Edge : e[1] \notin Reachable({e[2]})

ASSUME TaskAssumption ==
    /\ Policy \in [Node -> {"submit", "review", "none"}]
    /\ MaxLate \in Nat

ASSUME IterationAssumption == MaxIterations \in Nat \ {0}

VARIABLES
    run,        \* status of the run
    ns,         \* ns[n][i]: engine state of node instance (n, i), or "absent"
    held,       \* held[n][i]: state saved by an active admin suspension, or "none"
    approval,   \* approval[n][i]: the approval-engine instance bound to (n, i)
    traversal,  \* traversal[e][i]: evidence row of edge e out of (e[1], i)
    dep,        \* satisfied activation dependencies <<source, target, iteration>>
    tx,         \* the step of the open transaction that is due
    stray,      \* history: the rows written out of turn
    late        \* history: how often

turn == <<stray, late>>
vars == <<run, ns, held, approval, traversal, dep, tx, turn>>

EngineState == {"absent", "pending", "activated", "acknowledged", "completed",
                "terminated", "skipped", "suspended"}
Operable == {"activated", "acknowledged"}
Live     == Operable \cup {"pending"}
Done     == {"completed", "skipped", "terminated"}

Stage == {"idle", "route", "scan", "drain", "settle"}
Transaction == [stage : Stage, node : Node, iter : Iteration, nested : BOOLEAN,
                todo : SUBSET Node, changed : BOOLEAN, round : Nat]
Idle == [stage |-> "idle", node |-> CHOOSE n \in Node : TRUE, iter |-> 1,
         nested |-> FALSE, todo |-> {}, changed |-> FALSE, round |-> 0]

\* Route out of (n, i); nested when it is the automatic completion of a notice.
Routing(n, i, nested) ==
    [Idle EXCEPT !.stage = "route", !.node = n, !.iter = i, !.nested = nested]
Scanning(i, pending, round) ==
    [Idle EXCEPT !.stage = "scan", !.iter = i, !.todo = pending, !.round = round]
Draining == [Idle EXCEPT !.stage = "drain"]
Settling == [Idle EXCEPT !.stage = "settle"]

Exists(n, i) == ns[n][i] # "absent"
InIteration(i) == \E n \in Node : Exists(n, i)
Newest(n) == CHOOSE i \in Iteration : Exists(n, i) /\ \A j \in Iteration : Exists(n, j) => j <= i
IsStale(n, i) == \E j \in Iteration : j > i /\ Exists(n, j)

\* The node states after the members of S (pairs <<node, iteration>>) move to s.
Moved(S, s) ==
    [n \in Node |-> [i \in Iteration |-> IF <<n, i>> \in S THEN s ELSE ns[n][i]]]

Init ==
    /\ run = "active"
    /\ ns = [n \in Node |-> [i \in Iteration |->
                IF i > 1 THEN "absent"
                ELSE IF n \in StartNodes THEN "activated" ELSE "pending"]]
    /\ held = [n \in Node |-> [i \in Iteration |-> "none"]]
    /\ approval = [n \in Node |-> [i \in Iteration |->
                IF i = 1 /\ n \in StartNodes /\ NodeType[n] = "approval"
                THEN "open" ELSE "none"]]
    /\ traversal = [e \in Edge |-> [i \in Iteration |-> "none"]]
    /\ dep = {}
    /\ tx = Draining
    /\ stray = {}
    /\ late = 0

-----------------------------------------------------------------------------
(* Routing: _activate_downstream_v3 and _evaluate_routes_v3 *)

Before(e, f) ==
    \/ Priority[e] < Priority[f]
    \/ Priority[e] = Priority[f] /\ KeyOrder[e[2]] < KeyOrder[f[2]]

First(E) == {e \in E : \A f \in E : f = e \/ Before(e, f)}

\* Faulty variant: an exclusive choice takes every matching edge.
Selected_Mutant(n, tests) ==
    LET matched == {e \in Out(n) : Condition[e] = "always"} \cup tests
    IN  IF matched # {} THEN matched ELSE {e \in Out(n) : Condition[e] = "else"}

\* tests: the conditional edges whose condition the run context satisfies.
Selected(n, tests) ==
    LET matched    == {e \in Out(n) : Condition[e] = "always"} \cup tests
        fallback   == First({e \in Out(n) : Condition[e] = "else"})
        candidates == IF matched # {} THEN matched ELSE fallback
    IN  IF RoutingMode[n] = "exclusive" THEN First(candidates) ELSE candidates

Conditional(n) == {e \in Out(n) : Condition[e] = "test"}

\* What only the unselected routes reach.
Lost(chosen, others, i) ==
    {m \in Reachable(others) \ Reachable(chosen) : ns[m][i] = "pending"}

\* One evidence row per (source instance, target key); an existing row is kept.
Recorded(n, i, selected) ==
    [e \in Edge |-> [j \in Iteration |->
        IF e \in Out(n) /\ j = i /\ traversal[e][j] = "none"
        THEN IF e \in selected THEN "taken" ELSE "not_taken"
        ELSE traversal[e][j]]]

\* No outgoing edge: the branch ends here.
RouteEnd ==
    /\ tx.stage = "route"
    /\ Out(tx.node) = {}
    /\ tx' = IF tx.nested THEN Draining ELSE Settling
    /\ UNCHANGED <<run, ns, held, approval, traversal, dep, turn>>

\* No route matches: everything still pending in the iteration is skipped and
\* the run fails.
RouteNone ==
    /\ tx.stage = "route"
    /\ Out(tx.node) # {}
    /\ \E tests \in SUBSET Conditional(tx.node) :
        /\ Selected(tx.node, tests) = {}
        /\ traversal' = Recorded(tx.node, tx.iter, {})
    /\ ns' = Moved({<<m, tx.iter>> : m \in {k \in Node \ {tx.node} : ns[k][tx.iter] = "pending"}},
                   "skipped")
    /\ run' = "failed"
    /\ tx' = IF tx.nested THEN Draining ELSE Idle
    /\ UNCHANGED <<held, approval, dep, turn>>

\* Routes are taken: what only the other routes reach is skipped, the pending
\* targets get their dependency and the scan of the iteration begins.
RouteTaken ==
    /\ tx.stage = "route"
    /\ \E tests \in SUBSET Conditional(tx.node) :
        LET selected == Selected(tx.node, tests)
            chosen   == {e[2] : e \in selected}
            others   == {e[2] : e \in Out(tx.node)} \ chosen
            targets  == {m \in chosen : ns[m][tx.iter] = "pending"}
        IN  /\ selected # {}
            /\ traversal' = Recorded(tx.node, tx.iter, selected)
            /\ ns' = Moved(Lost(chosen, others, tx.iter) \X {tx.iter}, "skipped")
            /\ dep' = dep \cup {<<tx.node, m, tx.iter>> : m \in targets}
    /\ tx' = Scanning(tx.iter, {m \in Node : ns'[m][tx.iter] = "pending"}, 1)
    /\ UNCHANGED <<run, held, approval, turn>>

-----------------------------------------------------------------------------
(* The join scan: _scan_ready_nodes_v3 and _resolve_join_outcome_v3 *)

IsNext(m) == m \in tx.todo /\ \A k \in tx.todo : KeyOrder[m] <= KeyOrder[k]

Sources(m, i) == {p \in Pred(m) : Exists(p, i)}
Effective(m, i) == {p \in Sources(m, i) : ns[p][i] \notin {"skipped", "terminated"}}
Winners(m, i) == {p \in Pred(m) : <<p, m, i>> \in dep}
UpstreamBroken(m, i) == \E p \in Sources(m, i) : ns[p][i] = "suspended"

\* Faulty variant: a revoked source keeps its successors waiting.
NeverProduced_Mutant(m, i) ==
    /\ Winners(m, i) = {}
    /\ Sources(m, i) # {}
    /\ \A p \in Sources(m, i) : ns[p][i] \in {"completed", "skipped"}

NeverProduced(m, i) ==
    /\ Winners(m, i) = {}
    /\ Sources(m, i) # {}
    /\ \A p \in Sources(m, i) : ns[p][i] \in Done

\* Faulty variant: every join opens at the first activation.
JoinReady_Mutant(m, i) == Winners(m, i) # {}

JoinReady(m, i) ==
    /\ Winners(m, i) # {}
    /\ \/ JoinMode[m] = "any"
       \/ Effective(m, i) # {} /\ \A p \in Effective(m, i) : ns[p][i] = "completed"

\* Faulty variant: nobody is revoked.
Peers_Mutant(m, i) == {}

\* Waiting sources an "any" join revokes.
Peers(m, i) ==
    IF JoinMode[m] = "any"
    THEN {p \in Pred(m) \ Winners(m, i) : ns[p][i] \in Operable}
    ELSE {}

Resolve(m, changed) ==
    tx' = [tx EXCEPT !.todo = @ \ {m}, !.changed = @ \/ changed]

ScanFail(m) ==
    /\ UpstreamBroken(m, tx.iter)
    /\ run' = "failed"
    /\ Resolve(m, TRUE)
    /\ UNCHANGED <<ns, held, approval, traversal, dep, turn>>

ScanSkip(m) ==
    /\ ~UpstreamBroken(m, tx.iter)
    /\ NeverProduced(m, tx.iter)
    /\ ns' = Moved({<<m, tx.iter>>}, "skipped")
    /\ Resolve(m, TRUE)
    /\ UNCHANGED <<run, held, approval, traversal, dep, turn>>

ScanActivate(m) ==
    /\ ~UpstreamBroken(m, tx.iter)
    /\ JoinReady(m, tx.iter)
    /\ ns' = [n \in Node |-> [i \in Iteration |->
                IF i # tx.iter THEN ns[n][i]
                ELSE IF n = m THEN "activated"
                ELSE IF n \in Peers(m, i) THEN "terminated" ELSE ns[n][i]]]
    /\ approval' = IF NodeType[m] = "approval"
                   THEN [approval EXCEPT ![m][tx.iter] = "open"] ELSE approval
    /\ Resolve(m, TRUE)
    /\ UNCHANGED <<run, held, traversal, dep, turn>>

ScanWait(m) ==
    /\ ~UpstreamBroken(m, tx.iter)
    /\ ~NeverProduced(m, tx.iter)
    /\ ~JoinReady(m, tx.iter)
    /\ Resolve(m, FALSE)
    /\ UNCHANGED <<run, ns, held, approval, traversal, dep, turn>>

Scan ==
    /\ tx.stage = "scan"
    /\ \E m \in Node :
        /\ IsNext(m)
        /\ ScanFail(m) \/ ScanSkip(m) \/ ScanActivate(m) \/ ScanWait(m)

\* A round is over: another one if it changed anything and the cap allows it.
ScanRound ==
    /\ tx.stage = "scan"
    /\ tx.todo = {}
    /\ tx' = IF tx.changed /\ tx.round < Cardinality(Node)
             THEN Scanning(tx.iter, {m \in Node : ns[m][tx.iter] = "pending"}, tx.round + 1)
             ELSE Draining
    /\ UNCHANGED <<run, ns, held, approval, traversal, dep, turn>>

-----------------------------------------------------------------------------
(* Notices complete themselves, then the run settles *)

DrainNotice ==
    /\ tx.stage = "drain"
    /\ \E n \in Node, i \in Iteration :
        /\ NodeType[n] = "notice"
        /\ ns[n][i] = "activated"
        /\ ns' = Moved({<<n, i>>}, "completed")
        /\ tx' = Routing(n, i, TRUE)
    /\ UNCHANGED <<run, held, approval, traversal, dep, turn>>

DrainDone ==
    /\ tx.stage = "drain"
    /\ \A n \in Node, i \in Iteration : NodeType[n] = "notice" => ns[n][i] # "activated"
    /\ tx' = Settling
    /\ UNCHANGED <<run, ns, held, approval, traversal, dep, turn>>

InState(S) == \E n \in Node, i \in Iteration : ns[n][i] \in S
EndReached == \E n \in EndNodes, i \in Iteration : ns[n][i] = "completed"

\* Faulty variant: a suspended node does not keep the run from completing.
Outcome_Mutant ==
    IF run # "active" \/ InState(Operable) THEN run
    ELSE IF InState({"pending"}) \/ ~EndReached THEN "failed"
    ELSE "completed"

\* _maybe_complete_instance_v3
Outcome ==
    IF run # "active" \/ InState(Operable) THEN run
    ELSE IF InState({"suspended", "pending"}) \/ ~EndReached THEN "failed"
    ELSE "completed"

Settle ==
    /\ tx.stage = "settle"
    /\ run' = Outcome
    /\ tx' = Idle
    /\ UNCHANGED <<ns, held, approval, traversal, dep, turn>>

Engine ==
    \/ RouteEnd \/ RouteNone \/ RouteTaken
    \/ Scan \/ ScanRound
    \/ DrainNotice \/ DrainDone \/ Settle

-----------------------------------------------------------------------------
(* Commands of the assignee *)

\* complete_node_instance; a managed approval refuses the COMPLETE command.
Complete(n, i) ==
    /\ tx.stage = "idle"
    /\ ~IsStale(n, i)
    /\ run = "active"
    /\ ns[n][i] = "activated"
    /\ NodeType[n] # "approval"
    /\ ns' = Moved({<<n, i>>}, "completed")
    /\ tx' = Routing(n, i, FALSE)
    /\ UNCHANGED <<run, held, approval, traversal, dep, turn>>

\* Faulty variant: one iteration counter for the whole run.
NextIteration_Mutant(t) ==
    1 + (CHOOSE i \in Iteration : InIteration(i) /\ \A j \in Iteration : InIteration(j) => j <= i)

NextIteration(t) == Newest(t) + 1

\* The replayed nodes are inserted at the next iteration OF THE TARGET; a row
\* that exists already breaks the unique key and the command is rolled back.
ReplayCollides(t) == \E m \in Reachable({t}) : Exists(m, NextIteration(t))

\* Faulty variant: nodes that were not reached yet are forgotten.
Stale_Mutant == {"activated", "acknowledged"}

\* Node states the replay terminates.
Stale == {"pending", "activated", "acknowledged"}

\* Faulty variant: the target waits like the rest of the chain.
ReplayState_Mutant(m, t) == "pending"

ReplayState(m, t) == IF m = t THEN "activated" ELSE "pending"

\* Faulty variant: dependencies survive the replay.
ValidAfterReplay_Mutant(replay, next) == dep

\* Dependencies the replay does not invalidate.
ValidAfterReplay(replay, next) ==
    {d \in dep : d[3] >= next \/ (d[1] \notin replay /\ d[2] \notin replay)}

\* deep_reject_to_upstream from (n, i) to the node t upstream of n (or n).
DeepReject(n, i, t) ==
    /\ tx.stage = "idle"
    /\ run = "active"
    /\ ns[n][i] \in Operable
    /\ n \in Reachable({t})
    /\ NextIteration(t) <= MaxIterations
    /\ ~ReplayCollides(t)
    /\ LET replay == Reachable({t})
           next   == NextIteration(t)
       IN  /\ ns' = [m \in Node |-> [j \in Iteration |->
                        IF m \notin replay THEN ns[m][j]
                        ELSE IF j = next THEN ReplayState(m, t)
                        ELSE IF ns[m][j] \in Stale THEN "terminated" ELSE ns[m][j]]]
           /\ traversal' = [e \in Edge |-> [j \in Iteration |->
                        IF e[1] \in replay /\ j < next /\ traversal[e][j] # "none"
                        THEN "invalidated" ELSE traversal[e][j]]]
           /\ dep' = ValidAfterReplay(replay, next)
    /\ run' = "active"
    /\ UNCHANGED <<held, approval, tx, turn>>

-----------------------------------------------------------------------------
(* Commands of an administrator *)

\* Faulty variant: the state of the node is not looked at.
Takeover_Mutant(n, i) ==
    /\ tx.stage = "idle"
    /\ run = "active"
    /\ Exists(n, i)
    /\ ns' = Moved({<<n, i>>}, "activated")
    /\ UNCHANGED <<run, held, approval, traversal, dep, tx, turn>>

\* takeover_node_instance: the new assignee starts from ACTIVATED.
Takeover(n, i) ==
    /\ tx.stage = "idle"
    /\ run = "active"
    /\ ns[n][i] \in Operable
    /\ ns' = Moved({<<n, i>>}, "activated")
    /\ UNCHANGED <<run, held, approval, traversal, dep, tx, turn>>

\* suspend_node_instance_by_admin: only interruptible capabilities.
Suspend(n, i) ==
    /\ tx.stage = "idle"
    /\ run = "active"
    /\ NodeType[n] # "notice"
    /\ ns[n][i] \in Operable
    /\ ns' = Moved({<<n, i>>}, "suspended")
    /\ held' = [held EXCEPT ![n][i] = ns[n][i]]
    /\ UNCHANGED <<run, approval, traversal, dep, tx, turn>>

\* resume_node_instance_by_admin
Resume(n, i) ==
    /\ tx.stage = "idle"
    /\ run = "active"
    /\ ns[n][i] = "suspended"
    /\ held[n][i] # "none"
    /\ ns' = Moved({<<n, i>>}, held[n][i])
    /\ held' = [held EXCEPT ![n][i] = "none"]
    /\ UNCHANGED <<run, approval, traversal, dep, tx, turn>>

\* Faulty variant: a completed run is cancelled as well.
Cancellable_Mutant == run # "cancelled"

Cancellable == run \in {"active", "failed"}

\* _cancel_single_instance_by_admin; a failed run may still be cancelled.
Cancel ==
    /\ tx.stage = "idle"
    /\ Cancellable
    /\ run' = "cancelled"
    /\ ns' = [n \in Node |-> [i \in Iteration |->
                IF ns[n][i] \in {"absent", "completed"} THEN ns[n][i] ELSE "terminated"]]
    /\ UNCHANGED <<held, approval, traversal, dep, tx, turn>>

-----------------------------------------------------------------------------
(* Decisions of the approval engine, delivered under the same Run lock *)

\* The row (n, i) is written; unless that fits its state it is a stray from now on.
Written(n, i, fits) ==
    \/ fits /\ UNCHANGED turn
    \/ ~fits /\ late < MaxLate /\ late' = late + 1 /\ stray' = stray \cup {<<n, i>>}

\* The decision policy refuses the actor: validate_approval_action parks the
\* node.  It looks at the step run as its request loaded it, never at the node or
\* the run.  Bound: decisions on one approval do not overlap here, so that a decided
\* one has no pending step run (the module Approvals has those that overlap).
ApprovalBlocked(n, i) ==
    /\ tx.stage = "idle"
    /\ approval[n][i] = "open"
    /\ ns' = Moved({<<n, i>>}, "suspended")
    /\ Written(n, i, ns[n][i] \notin Done)
    /\ UNCHANGED <<run, held, approval, traversal, dep, tx>>

\* Faulty variant: a late vote is consumed whatever became of the approval and the node.
ApprovalVote_Mutant(n, i) ==
    /\ tx.stage = "idle"
    /\ approval[n][i] # "none"
    /\ ns' = Moved({<<n, i>>}, "acknowledged")
    /\ UNCHANGED <<run, held, approval, traversal, dep, tx, turn>>

\* consume_approval_result before the last vote.
ApprovalVote(n, i) ==
    /\ tx.stage = "idle"
    /\ approval[n][i] = "open"
    /\ ns[n][i] \notin {"completed", "terminated"}
    /\ ns' = Moved({<<n, i>>}, "acknowledged")
    /\ UNCHANGED <<run, held, approval, traversal, dep, tx, turn>>

\* consume_approval_result with the decision that closes the approval instance.
ApprovalDecided(n, i) ==
    /\ tx.stage = "idle"
    /\ approval[n][i] = "open"
    /\ ns[n][i] \notin {"completed", "terminated"}
    /\ ns' = Moved({<<n, i>>}, "completed")
    /\ approval' = [approval EXCEPT ![n][i] = "closed"]
    /\ tx' = Routing(n, i, FALSE)
    /\ UNCHANGED <<run, held, traversal, dep, turn>>

-----------------------------------------------------------------------------
(* Commands of the other writers: those on the task of a node (TaskService,        *)
(* sync_runtime_for_task_status) and the rework.  They commit between the          *)
(* transactions of the engine, since the row of the run, which they set a column   *)
(* of or refer to, makes them wait.  Bound: a command that has begun to route when *)
(* the run ends is left out.                                                       *)

\* A node that was activated has a task, its approval nodes included; a revoked row
\* is taken to have been activated.
HasTask(n, i) ==
    NodeType[n] # "notice" /\ ns[n][i] \notin {"absent", "pending", "skipped"}

InTurn(n, i) == run = "active" /\ NodeType[n] = "task" /\ ns[n][i] \in Operable

\* sync_runtime_for_task_status sets the node to s and the run to ACTIVE whatever
\* they are; a column is only written where it differs from what the request loaded.
SyncTask(n, i, s) ==
    /\ tx.stage = "idle"
    /\ HasTask(n, i)
    /\ ns' \in {ns, Moved({<<n, i>>}, s)}
    /\ run' \in {run, "active"}
    /\ UNCHANGED <<held, approval, traversal, dep>>

\* The task moves to DOING or REVIEW.
TaskMoves(n, i) ==
    /\ SyncTask(n, i, "acknowledged")
    /\ Written(n, i, InTurn(n, i))
    /\ UNCHANGED tx

\* The task becomes DONE by a command that is not the one its completion policy
\* names: nothing is routed.
TaskCloses(n, i) ==
    /\ Policy[n] # "review"
    /\ SyncTask(n, i, "completed")
    /\ Written(n, i, FALSE)
    /\ UNCHANGED tx

\* The task becomes DONE by the command its policy names:
\* progress_from_completed_node locks the run, refuses a replaced node and routes.
TaskFinishes(n, i) ==
    /\ Policy[n] # "none"
    /\ ~IsStale(n, i)
    /\ SyncTask(n, i, "completed")
    /\ ns'[n][i] = "completed"
    /\ run' = "active"
    /\ Written(n, i, InTurn(n, i))
    /\ tx' = Routing(n, i, FALSE)

\* apply_capture_rejections: a node of any kind that was completed, its newest row when
\* it was loaded, is given back.  Bound: the graph has no aggregation gate, which this
\* command of video production would put back to PENDING.
CaptureReturned(n, i) ==
    /\ tx.stage = "idle"
    /\ ns[n][i] = "completed"
    /\ ns' = Moved({<<n, i>>}, "activated")
    /\ Written(n, i, FALSE)
    /\ UNCHANGED <<run, held, approval, traversal, dep, tx>>

-----------------------------------------------------------------------------
Work ==
    \/ \E n \in Node, i \in Iteration : Complete(n, i)
    \/ \E n, t \in Node, i \in Iteration : DeepReject(n, i, t)
    \/ \E n \in Node, i \in Iteration : Takeover(n, i)
    \/ Cancel

Pause == \E n \in Node, i \in Iteration : Suspend(n, i) \/ Resume(n, i)

Decide ==
    \E n \in Node, i \in Iteration :
        ApprovalBlocked(n, i) \/ ApprovalVote(n, i) \/ ApprovalDecided(n, i)

Tasks ==
    \E n \in Node, i \in Iteration :
        TaskMoves(n, i) \/ TaskCloses(n, i) \/ TaskFinishes(n, i) \/ CaptureReturned(n, i)

Next == Engine \/ Work \/ Tasks \/ Pause \/ Decide
Spec == Init /\ [][Next]_vars

\* Runs no operator pauses and that have no managed approval.
CoreNext == Engine \/ Work \/ Tasks
CoreSpec == Init /\ [][CoreNext]_vars

\* The executor finishes the transaction it opened (one request, one session);
\* assignees finish the tasks that reached them, by the command their policy names.
CoreFairSpec ==
    /\ CoreSpec
    /\ WF_vars(Engine)
    /\ \A n \in Node, i \in Iteration :
            WF_vars(NodeType[n] = "task" /\ (Complete(n, i) \/ TaskFinishes(n, i)))

-----------------------------------------------------------------------------
(* Properties *)

Quiet == tx.stage = "idle"

\* The shape of the rows and of the open transaction.
TypeOK ==
    /\ run \in {"active", "completed", "failed", "cancelled"}
    /\ ns \in [Node -> [Iteration -> EngineState]]
    /\ held \in [Node -> [Iteration -> Operable \cup {"none"}]]
    /\ approval \in [Node -> [Iteration -> {"none", "open", "closed"}]]
    /\ traversal \in [Edge -> [Iteration -> {"none", "taken", "not_taken", "invalidated"}]]
    /\ dep \subseteq Node \X Node \X Iteration
    /\ tx \in Transaction
    /\ stray \subseteq Node \X Iteration
    /\ late \in 0 .. MaxLate

\* Deep reject appends: the iterations of a key have no gap, and a node has
\* every iteration its predecessors have.
IterationsAreClosed ==
    /\ \A n \in Node : Exists(n, 1)
    /\ \A n \in Node, i, j \in Iteration : i < j /\ Exists(n, j) => Exists(n, i)
    /\ \A e \in Edge, i \in Iteration : Exists(e[1], i) => Exists(e[2], i)

\* Deep reject closes the old chain before it opens the new one: what can still
\* be worked on, or still be activated, is the newest iteration of its key.
OnlyNewestIsLive ==
    \A n \in Node, i \in Iteration :
        ns[n][i] \in Live => ~IsStale(n, i) \/ <<n, i>> \in stray

\* A run reported as completed reached an End node and has nothing left that
\* could be worked on, activated or resumed, apart from what was written out of turn.
CompletedRunIsClosed ==
    run = "completed" =>
        /\ EndReached \/ \E n \in EndNodes, i \in Iteration : <<n, i>> \in stray
        /\ \A n \in Node, i \in Iteration :
                ns[n][i] \in Live \cup {"suspended"} => <<n, i>> \in stray

\* Between transactions an active run has a node somebody can act on, as long as
\* nothing was written out of turn (a completion that is not routed strands it).
ActiveRunHasActor ==
    Quiet /\ run = "active" /\ stray = {} => InState(Operable \cup {"suspended"})

\* Between transactions no join of an active run is left behind: a pending node
\* still has a source that may complete (the capped scan missed nothing), or one
\* that was written out of turn.
PendingStillHasSource ==
    Quiet /\ run = "active" =>
        \A n \in Node, i \in Iteration : ns[n][i] = "pending" =>
            \E p \in Sources(n, i) : ns[p][i] \notin Done \/ <<p, i>> \in stray

\* Every valid activation rests on a completed source and on a taken traversal,
\* unless the source was written out of turn (one completed twice chooses again, and
\* keeps the evidence of its first choice).
DependencyIsEarned ==
    \A d \in dep :
        \/ ns[d[1]][d[3]] = "completed" /\ traversal[<<d[1], d[2]>>][d[3]] = "taken"
        \/ <<d[1], d[3]>> \in stray

\* Work behind an all-join never overlaps the work it waits for: while its
\* activation is valid every same-iteration source is closed, or was written out of
\* turn.
AllJoinMeetsSources ==
    \A n \in Node, i \in Iteration :
        /\ JoinMode[n] = "all"
        /\ Winners(n, i) # {}
        /\ ns[n][i] \in Operable \cup {"completed"}
        /\ <<n, i>> \notin stray
        => \A p \in Sources(n, i) : ns[p][i] \in Done \/ <<p, i>> \in stray

Started == Operable \cup {"completed", "suspended"}

\* Two branches that only an exclusive choice can start never both start in one
\* iteration, unless a write out of turn started one or completed the choice
\* again.  It depends on the graph: where the branches never meet again,
\* one that was paused before a replay and one chosen after it can both be live, and
\* deep rejects to both open one iteration of each.
ChoiceIsExclusive ==
    \A n \in Node, i \in Iteration : RoutingMode[n] = "exclusive" =>
        \A e, f \in Out(n) :
            e # f /\ Pred(e[2]) = {n} /\ Pred(f[2]) = {n}
            => \/ ~(ns[e[2]][i] \in Started /\ ns[f[2]][i] \in Started)
               \/ {<<n, i>>, <<e[2], i>>, <<f[2], i>>} \cap stray # {}

\* When a race is over the losing sources are revoked with it, and only a write out of
\* turn gives one back.  It depends on the graph: only sources that have started are
\* revoked, so one at the end of a longer branch may start later.
RaceIsRevoked ==
    Quiet => \A n \in Node, i \in Iteration :
        /\ JoinMode[n] = "any"
        /\ ns[n][i] \in Started
        /\ Winners(n, i) # {}
        /\ <<n, i>> \notin stray
        => \A p \in Pred(n) : ns[p][i] \notin Operable \/ <<p, i>> \in stray

\* The decision of the approval engine and the node it was taken for never
\* drift apart again: a decided node stays completed, as long as decisions on one
\* approval are taken one after the other and no command on its task reopens it.
DecisionIsKept ==
    \A n \in Node, i \in Iteration :
        approval[n][i] = "closed" => ns[n][i] = "completed" \/ <<n, i>> \in stray

\* Closed node instances are never reopened and accepted work is never undone,
\* except by a write out of turn; only a cancellation relabels what was skipped.
ClosedNodeStaysClosed ==
    [][\A n \in Node, i \in Iteration :
        \/ /\ ns[n][i] \in {"completed", "terminated"} => ns'[n][i] = ns[n][i]
           /\ ns[n][i] = "skipped" => ns'[n][i] \in {"skipped", "terminated"}
        \/ <<n, i>> \in stray']_vars

\* As long as nothing is written out of turn the outcome of a run that ended well or
\* was cancelled is final, and a failed run can only be cancelled.
RunOutcomeIsFinal ==
    [][stray' = {} =>
        /\ run \in {"completed", "cancelled"} => run' = run
        /\ run = "failed" => run' \in {"failed", "cancelled"}]_vars

\* What the invariants above rest on: the scan looks at pending rows, approval
\* instances belong to rows, ...
TodoIsPending == tx.stage = "scan" => \A m \in tx.todo : ns[m][tx.iter] = "pending"
ApprovalHasNode ==
    \A n \in Node, i \in Iteration :
        approval[n][i] # "none" => Exists(n, i) /\ NodeType[n] = "approval"

\* ... a transaction routes from a completed node, whose evidence is missing, and
\* evidence is only kept for completed nodes, unless written out of turn ...
RouteIsFresh ==
    /\ tx.stage = "route" =>
        /\ ns[tx.node][tx.iter] = "completed"
        /\ <<tx.node, tx.iter>> \in stray \/ \A e \in Out(tx.node) : traversal[e][tx.iter] = "none"
    /\ \A e \in Edge, i \in Iteration :
        traversal[e][i] # "none" => ns[e[1]][i] = "completed" \/ <<e[1], i>> \in stray

\* ... a completed approval node has no open approval instance, and only a run
\* that has not ended well has an open transaction.
CompletedIsDecided ==
    \A n \in Node, i \in Iteration :
        ns[n][i] = "completed" => approval[n][i] # "open" \/ <<n, i>> \in stray
OpenRun == tx.stage # "idle" /\ stray = {} => run \in {"active", "failed"}

\* A run whose assignees finish their tasks comes to an end, or a write out of turn
\* has changed it.
RunEnds == <>(run # "active" \/ stray # {})
=============================================================================
