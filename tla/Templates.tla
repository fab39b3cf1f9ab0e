------------------------------ MODULE Templates ------------------------------
(***************************************************************************)
(* Graph templates, their versions, and the chains of runs they start:     *)
(* backend/app/services/workflow_graph_template_admin_service.py and       *)
(* workflow_graph_template_chain_service.py.                               *)
(*                                                                         *)
(* A template is a version of a family (base_code).  Of its definition the *)
(* model keeps on_complete, the family of which a run is started when a    *)
(* run of the template completes.  No command locks a template: one that   *)
(* changes a template decides on what it has read and writes later, so it  *)
(* is two steps.  Adding a template is one, and so is archiving one: what  *)
(* it has read as active is active or archived when it writes.  The        *)
(* completion of a run holds the row lock of the run and chains in the     *)
(* same transaction: it is one step.                                       *)
(***************************************************************************)
EXTENDS Naturals, Sequences, Graphs

CONSTANTS
    Families,
    Requests,     \* commands that may be under way at the same time
    MaxVersion,   \* bound: versions of a family
    MaxStarts,    \* bound: runs started by a person
    MaxRuns       \* bound: runs, the chained ones included

NoFamily == "none"

ASSUME TemplateAssumption ==
    /\ NoFamily \notin Families
    /\ MaxVersion \in Nat \ {0}
    /\ MaxRuns \in Nat /\ MaxStarts \in 0 .. MaxRuns

VARIABLES
    template,     \* rows of workflow_graph_templates by family and version
    runs,         \* rows of workflow_graph_instances in the order of their creation
    req,          \* what a command under way has read and decided
    overlapped    \* history: a publication and another command were under way at the same time

vars == <<template, runs, req, overlapped>>

Ids    == Families \X (1 .. MaxVersion)
Targets == Families \cup {NoFamily}
NoRow  == [status |-> "absent", next |-> NoFamily]
Row    == [status : {"absent", "draft", "active", "archived"}, next : Targets]
Idle   == [op |-> "none"]
Ops    == {"save", "delete", "publish"}
Loaded == [op : Ops, id : Ids, next : Targets, siblings : SUBSET Ids]
NoParent == 0
Run    == [id : Ids, next : Targets, passed : SUBSET Families, parent : 0 .. MaxRuns,
           triggered : BOOLEAN]

Init ==
    /\ template = [id \in Ids |-> NoRow]
    /\ runs = <<>>
    /\ req = [r \in Requests |-> Idle]
    /\ overlapped = FALSE

-----------------------------------------------------------------------------
(* The graph of the families that chain *)

Active(id) == template[id].status = "active"
ActiveIn(f) == {id \in Ids : id[1] = f /\ Active(id)}

\* Faulty variant: the version in force is left in force.
Siblings_Mutant(id) == {}

\* _archive_sibling_active_templates
Siblings(id) == ActiveIn(id[1]) \ {id}

\* load_active_on_complete_edges: a dictionary, of several edges of a family the one read last.
ActiveEdges ==
    {edges \in [Families -> Targets] :
        \A f \in Families :
            LET found == {template[id].next : id \in ActiveIn(f)} \ {NoFamily}
            IN  edges[f] \in IF found = {} THEN {NoFamily} ELSE found}

Chaining(edges) ==
    [node |-> Families, edge |-> {<<f, edges[f]>> : f \in {g \in Families : edges[g] # NoFamily}}]

\* What a chain comes to after n: the least set of nodes with the successors of n and of its own.
Reached(G, n) ==
    {m \in G.node : \A C \in SUBSET G.node :
        Successors(G, n) \cup AllSuccessors(G, C) \subseteq C => m \in C}

\* Faulty variant: the chains of the other templates are not followed.
OpenChain_Mutant(f, next) == next # f

\* would_create_template_chain_cycle finds none, with the edge the publication would add.
OpenChain(f, next) ==
    \E edges \in ActiveEdges : f \notin Reached(Chaining([edges EXCEPT ![f] = next]), next)

\* validate_on_complete_for_publish
MayPublish(id) ==
    LET next == template[id].next
    IN  next # NoFamily => /\ next # id[1]
                           /\ ActiveIn(next) # {}
                           /\ OpenChain(id[1], next)

-----------------------------------------------------------------------------
(* Commands on templates *)

\* _get_next_template_version
Unused(f) == {n \in 1 .. MaxVersion : \A m \in n .. MaxVersion : template[<<f, m>>] = NoRow}
LeastOf(S) == CHOOSE n \in S : \A m \in S : n <= m

\* A command that comes upon a publication, or a publication that comes upon a command.
Clash(op) == \E r \in Requests : req[r] # Idle /\ "publish" \in {op, req[r].op}

\* What a command that is one step does to a row.
Put(id, row) ==
    /\ template' = [template EXCEPT ![id] = row]
    /\ overlapped' = (overlapped \/ Clash("put"))
    /\ UNCHANGED <<runs, req>>

\* _create_blank_template, import_template_new
Create(f) ==
    /\ \A n \in 1 .. MaxVersion : template[<<f, n>>] = NoRow
    /\ Put(<<f, 1>>, [status |-> "draft", next |-> NoFamily])

\* _fork_template: the next version, a copy of the source
Fork(id) ==
    /\ template[id] # NoRow
    /\ Unused(id[1]) # {}
    /\ Put(<<id[1], LeastOf(Unused(id[1]))>>, [template[id] EXCEPT !.status = "draft"])

\* update_status to ARCHIVED; what it asks of the schedules is in Schedules.
Archive(id) ==
    /\ Active(id)
    /\ Put(id, [template[id] EXCEPT !.status = "archived"])

HasRuns(id) == \E i \in 1 .. Len(runs) : runs[i].id = id

\* What a command asks of the rows it reads.  A save that changes nothing writes nothing.
Allowed(op, id, next) ==
    /\ template[id].status = "draft"
    /\ op = "save" => next # template[id].next
    /\ op # "save" => next = NoFamily
    /\ op = "delete" => ~HasRuns(id)
    /\ op = "publish" => MayPublish(id)

\* A command reads what it decides on, without a lock ...
Begin(r, op, id, next) ==
    /\ req[r] = Idle
    /\ Allowed(op, id, next)
    /\ req' = [req EXCEPT ![r] = [op |-> op, id |-> id, next |-> next,
                                  siblings |-> IF op = "publish" THEN Siblings(id) ELSE {}]]
    /\ overlapped' = (overlapped \/ Clash(op))
    /\ UNCHANGED <<template, runs>>

Doing(r, op) == req[r] # Idle /\ req[r].op = op

\* ... and writes: save_draft, update_template, import_template_draft write the definition,
Save(r) ==
    /\ Doing(r, "save")
    /\ template' = [template EXCEPT ![req[r].id].next = req[r].next]
    /\ req' = [req EXCEPT ![r] = Idle]
    /\ UNCHANGED <<runs, overlapped>>

\* update_status to ACTIVE the statuses of the template and of the siblings it has read,
Publish(r) ==
    /\ Doing(r, "publish")
    /\ template' = [id \in Ids |->
            IF id = req[r].id THEN [template[id] EXCEPT !.status = "active"]
            ELSE IF id \in req[r].siblings THEN [template[id] EXCEPT !.status = "archived"]
            ELSE template[id]]
    /\ req' = [req EXCEPT ![r] = Idle]
    /\ UNCHANGED <<runs, overlapped>>

\* and delete_template removes the row, which the foreign key of a run prevents.  A command
\* that is about to write that row raises (StaleDataError).
Delete(r) ==
    /\ Doing(r, "delete")
    /\ ~HasRuns(req[r].id)
    /\ template' = [template EXCEPT ![req[r].id] = NoRow]
    /\ req' = [q \in Requests |->
            IF req[q] # Idle /\ req[r].id \in {req[q].id} \cup req[q].siblings THEN Idle ELSE req[q]]
    /\ UNCHANGED <<runs, overlapped>>

\* The command raises, or its client goes away.
Refuse(r) ==
    /\ req[r] # Idle
    /\ req' = [req EXCEPT ![r] = Idle]
    /\ UNCHANGED <<template, runs, overlapped>>

-----------------------------------------------------------------------------
(* Runs and the chains they form *)

\* A run keeps the definition it was started with (definition_snapshot).
NewRun(id, passed, parent) ==
    [id |-> id, next |-> template[id].next, passed |-> passed, parent |-> parent,
     triggered |-> FALSE]

\* create_multi_node_instance, for a person
Start(id) ==
    /\ Active(id)
    /\ Len(runs) < MaxStarts
    /\ runs' = Append(runs, NewRun(id, {}, NoParent))
    /\ UNCHANGED <<template, req, overlapped>>

\* Faulty variant: only a chain back to the family of the run itself is refused.
Chains_Mutant(run) ==
    /\ run.next # NoFamily /\ ~run.triggered
    /\ run.next # run.id[1]
    /\ ActiveIn(run.next) # {}

\* The conditions of maybe_trigger_template_chain.
Chains(run) ==
    /\ run.next # NoFamily /\ ~run.triggered
    /\ run.next \notin run.passed \cup {run.id[1]}
    /\ ActiveIn(run.next) # {}

\* _resolve_next_active_template: the highest version in force
Newest(f) == CHOOSE id \in ActiveIn(f) : \A other \in ActiveIn(f) : other[2] <= id[2]

\* _maybe_complete_instance_v3 and the run it starts.  The status of a run is left out: a command
\* on a task of a completed run makes it active again (sync_runtime_for_task_status), so every run
\* may complete at any time, and again.  Where the department of the run is out of the scope of
\* the next template the whole completion is rolled back, which is no step.
Complete(i) ==
    LET run == runs[i] IN
    /\ Chains(run)
    /\ Len(runs) < MaxRuns
    /\ runs' = Append([runs EXCEPT ![i].triggered = TRUE],
                      NewRun(Newest(run.next), run.passed \cup {run.id[1]}, i))
    /\ UNCHANGED <<template, req, overlapped>>

-----------------------------------------------------------------------------

Next ==
    \/ \E f \in Families : Create(f)
    \/ \E id \in Ids : Fork(id) \/ Archive(id) \/ Start(id)
    \/ \E r \in Requests, op \in Ops, id \in Ids, next \in Targets : Begin(r, op, id, next)
    \/ \E r \in Requests : Save(r) \/ Publish(r) \/ Delete(r) \/ Refuse(r)
    \/ \E i \in 1 .. Len(runs) : Complete(i)

Spec == Init /\ [][Next]_vars

-----------------------------------------------------------------------------
(* Properties *)

\* Every variable holds values of its kind.
TypeOK ==
    /\ template \in [Ids -> Row]
    /\ runs \in Seq(Run) /\ Len(runs) <= MaxRuns
    /\ req \in [Requests -> Loaded \cup {Idle}]
    /\ overlapped \in BOOLEAN

\* Unless a publication and another command were under way at the same time, at most one version
\* of a family is in force; other commands may overlap.
OneVersionInForce ==
    ~overlapped => \A id, other \in Ids : Active(id) /\ Active(other) /\ id[1] = other[1]
                                            => id = other

\* Unless a publication and another command were under way at the same time, the templates in force
\* do not chain in a circle, whatever is forked, saved, published, replaced, archived and deleted
\* in which order, and whichever other commands overlap.
InForceIsAcyclic ==
    ~overlapped => \A edges \in ActiveEdges, f \in Families : f \notin Reached(Chaining(edges), f)

\* A chain of runs is a line that never comes back to a family, also when the templates in
\* force have changed under it or chain in a circle, and when a run completes twice.
Lineage == [node |-> 1 .. Len(runs),
            edge |-> {<<i, runs[i].parent>> : i \in {j \in 1 .. Len(runs) :
                                                        runs[j].parent # NoParent}}]
ChainIsLine ==
    \A i \in Lineage.node :
        /\ \A j \in Lineage.node \ {i} : runs[j].parent # runs[i].parent \/ runs[i].parent = NoParent
        /\ \A j \in Reached(Lineage, i) : runs[j].id[1] # runs[i].id[1]
=============================================================================
