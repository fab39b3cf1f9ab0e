------------------------------ MODULE Schedules ------------------------------
(***************************************************************************)
(* Schedules of graph templates and the job that starts their runs:        *)
(* backend/app/services/workflow_graph_template_schedule_service.py and    *)
(* the cron job of workers/jobs.py.                                        *)
(*                                                                         *)
(* The job loads the schedules that are due, the earliest first, and       *)
(* executes and commits one after the other in one session, whose objects  *)
(* are not expired by a commit.  An execution checks the template and the  *)
(* departments of the schedule, then writes; "run now" executes a schedule *)
(* in a session of its own.  An execution that raises ends the pass.       *)
(* People and other runs launch runs of the same templates too, and nobody *)
(* but an execution asks whether one is active already.                    *)
(***************************************************************************)
EXTENDS Naturals, Sequences, SequencesExt

CONSTANTS
    Schedules,
    TemplateIds,
    TemplateOf,    \* the template of a schedule
    Departments,
    ScopeOf,       \* expand_target_departments: the departments of a schedule
    Requests,      \* "run now" commands that may be under way
    MaxActive      \* bound: active runs of a template in a department

ASSUME ScheduleAssumption ==
    /\ TemplateOf \in [Schedules -> TemplateIds]
    /\ ScopeOf \in [Schedules -> SUBSET Departments]
    /\ TemplateIds \cap Departments = {}
    /\ MaxActive \in Nat

VARIABLES
    template,      \* status of a template, see Templates
    manager,       \* status of the manager of a department
    schedule,      \* status of a schedule
    due,           \* active schedules whose next_run_at has passed, by next_run_at
    run,           \* number of active runs of a template in a department
    job,           \* the pass of the job: what is left of its list, what it has read
    exec,          \* the execution under way in a session
    ended,         \* <<template, department>> of the runs that have ended
    overlapped     \* history: <<template, department>> a run of which was started in spite of
                   \* an active one, or behind the back of an execution that had found none

vars == <<template, manager, schedule, due, run, job, exec, ended, overlapped>>

Job       == "job"
Sessions  == Requests \cup {Job}
Idle      == [op |-> "none"]
Execution == [op : {"execute"}, schedule : Schedules, free : SUBSET Departments]
NoPass    == [left |-> <<>>, read |-> {}]

Init ==
    /\ template = [t \in TemplateIds |-> "active"]
    /\ manager = [d \in Departments |-> "active"]
    /\ schedule = [s \in Schedules |-> "absent"]
    /\ due = <<>>
    /\ run = [t \in TemplateIds |-> [d \in Departments |-> 0]]
    /\ job = NoPass
    /\ exec = [e \in Sessions |-> Idle]
    /\ ended = {}
    /\ overlapped = {}

Due(s)     == Contains(due, s)
NotDue(s)  == due' = Remove(due, s)
Free(s)    == {d \in ScopeOf[s] : run[TemplateOf[s]][d] = 0}

\* Who and what an execution of the schedule relies on: a template in force, and a manager
\* with an active account in every department without a run.
Relies(s)  == {TemplateOf[s]} \cup Free(s)
InOrder(x) == IF x \in TemplateIds THEN template[x] = "active" ELSE manager[x] = "active"
Sound(s)   == \A x \in Relies(s) : InOrder(x)

-----------------------------------------------------------------------------
(* Commands of people *)

\* create_schedule and update_schedule to an active schedule: the template must be in force
\* and no department may have a run; next_run_at is computed anew.
Activate(s) ==
    /\ template[TemplateOf[s]] = "active"
    /\ Free(s) = ScopeOf[s]
    /\ schedule' = [schedule EXCEPT ![s] = "active"]
    /\ NotDue(s)
    /\ UNCHANGED <<template, manager, run, job, exec, ended, overlapped>>

\* The same to a paused one; the schedule of a template that is not in force keeps its status.
Pause(s) ==
    /\ template[TemplateOf[s]] = "active"
    /\ schedule' = [schedule EXCEPT ![s] = "paused"]
    /\ NotDue(s)
    /\ UNCHANGED <<template, manager, run, job, exec, ended, overlapped>>

Retired(t) ==
    /\ template[t] = "active"
    /\ template' = [template EXCEPT ![t] = "archived"]
    /\ UNCHANGED <<manager, schedule, due, run, job, exec, ended, overlapped>>

\* update_status to ARCHIVED: an active schedule forbids it.
Archive(t) ==
    /\ \A s \in Schedules : TemplateOf[s] = t => schedule[s] # "active"
    /\ Retired(t)

\* _archive_sibling_active_templates: the publication of another version asks for nothing.
Supersede(t) == Retired(t)

\* A manager leaves, or comes back or is replaced.
Staff(d) ==
    /\ \E status \in {"active", "left"} \ {manager[d]} :
            manager' = [manager EXCEPT ![d] = status]
    /\ UNCHANGED <<template, schedule, due, run, job, exec, ended, overlapped>>

\* A run completes or is cancelled.
RunEnds(t, d) ==
    /\ run[t][d] > 0
    /\ run' = [run EXCEPT ![t][d] = @ - 1]
    /\ ended' = ended \cup {<<t, d>>}
    /\ UNCHANGED <<template, manager, schedule, due, job, exec, overlapped>>

\* The execution of a session has found the department without a run of the template.
Finds(e, t, d) == exec[e] # Idle /\ TemplateOf[exec[e].schedule] = t /\ d \in exec[e].free

\* A run becomes active and nobody has asked for another one.
Appears(t, d) ==
    /\ run[t][d] < MaxActive
    /\ run' = [run EXCEPT ![t][d] = @ + 1]
    /\ overlapped' = IF run[t][d] > 0 \/ \E e \in Sessions : Finds(e, t, d)
                     THEN overlapped \cup {<<t, d>>} ELSE overlapped
    /\ UNCHANGED <<template, manager, schedule, due, job, exec, ended>>

\* instantiate_graph_template for a person, for a personnel event, or for a run that was
\* completed and chains to the template.
Launch(t, d) == template[t] = "active" /\ Appears(t, d)

\* sync_runtime_for_task_status: the command on a task of a run that has ended sets the run
\* active again.
Reopen(t, d) == <<t, d>> \in ended /\ Appears(t, d)

\* next_run_at of an active schedule passes.
Tick(s) ==
    /\ schedule[s] = "active" /\ ~Due(s)
    /\ due' = Append(due, s)
    /\ UNCHANGED <<template, manager, schedule, run, job, exec, ended, overlapped>>

-----------------------------------------------------------------------------
(* Executions *)

\* Faulty variant: departments that have a run are not skipped.
Started_Mutant(s) == ScopeOf[s]

\* The departments an execution starts a run in.
Started(s) == Free(s)

\* _execute_schedule up to its writes
Execute(e, s) ==
    /\ exec' = [exec EXCEPT ![e] = [op |-> "execute", schedule |-> s, free |-> Started(s)]]
    /\ overlapped' = overlapped \cup
            {<<TemplateOf[s], d>> : d \in {c \in Started(s) :
                \E other \in Sessions \ {e} : Finds(other, TemplateOf[s], c)}}

\* The runs it starts; the others of them fail and are reported.
StartRuns(e) ==
    LET t == TemplateOf[exec[e].schedule]
    IN  \E created \in SUBSET exec[e].free :
            /\ \A d \in created : run[t][d] < MaxActive
            /\ run' = [run EXCEPT ![t] = [d \in Departments |->
                            IF d \in created THEN @[d] + 1 ELSE @[d]]]

\* run_schedule_now; whether the schedule is active is not asked.
RunNow(r, s) ==
    /\ exec[r] = Idle
    /\ schedule[s] # "absent"
    /\ Sound(s)
    /\ Execute(r, s)
    /\ UNCHANGED <<template, manager, schedule, due, run, job, ended>>

RunNowCommits(r) ==
    /\ exec[r] # Idle
    /\ StartRuns(r)
    /\ exec' = [exec EXCEPT ![r] = Idle]
    /\ UNCHANGED <<template, manager, schedule, due, job, ended, overlapped>>

\* run_due_schedules: a pass of the job begins when the one before it is over.
Scan ==
    /\ job = NoPass
    /\ due # <<>>
    /\ job' = [left |-> due, read |-> {}]
    /\ UNCHANGED <<template, manager, schedule, due, run, exec, ended, overlapped>>

\* What the session has read in order it may still hold, and take for in order, until the pass ends.
NextOfPass(s) ==
    /\ job.left # <<>> /\ Head(job.left) = s
    /\ exec[Job] = Idle
    /\ \/ /\ \A x \in Relies(s) : InOrder(x) \/ x \in job.read
          /\ Execute(Job, s)
          /\ job' = [job EXCEPT !.read = @ \cup Relies(s)]
       \/ /\ \E x \in Relies(s) : ~InOrder(x)
          /\ job' = NoPass
          /\ UNCHANGED <<exec, overlapped>>
    /\ UNCHANGED <<template, manager, schedule, due, run, ended>>

\* Faulty variant: the next occurrence is computed when every department got its run only.
Advanced_Mutant(s) == IF Free(s) = {} THEN NotDue(s) ELSE UNCHANGED due

\* next_run_at moves on, however many of the departments failed.
Advanced(s) == NotDue(s)

JobCommits ==
    /\ exec[Job] # Idle
    /\ StartRuns(Job)
    /\ Advanced(exec[Job].schedule)
    /\ exec' = [exec EXCEPT ![Job] = Idle]
    /\ job' = IF Len(job.left) = 1 THEN NoPass ELSE [job EXCEPT !.left = Tail(@)]
    /\ UNCHANGED <<template, manager, schedule, ended, overlapped>>

\* The worker dies.
JobDies ==
    /\ job # NoPass
    /\ job' = NoPass
    /\ exec' = [exec EXCEPT ![Job] = Idle]
    /\ UNCHANGED <<template, manager, schedule, due, run, ended, overlapped>>

-----------------------------------------------------------------------------

Next ==
    \/ \E s \in Schedules : Activate(s) \/ Pause(s) \/ Tick(s) \/ NextOfPass(s)
    \/ \E t \in TemplateIds : Archive(t) \/ Supersede(t)
    \/ \E t \in TemplateIds, d \in Departments : RunEnds(t, d) \/ Launch(t, d) \/ Reopen(t, d)
    \/ \E d \in Departments : Staff(d)
    \/ \E r \in Requests : RunNowCommits(r) \/ \E s \in Schedules : RunNow(r, s)
    \/ Scan \/ JobCommits \/ JobDies

\* The cron job runs again and again, and not every pass dies before its first commit.
Fairness == WF_vars(Scan) /\ SF_vars(\E s \in Schedules : NextOfPass(s)) /\ SF_vars(JobCommits)

Spec == Init /\ [][Next]_vars /\ Fairness

-----------------------------------------------------------------------------
(* Properties *)

\* Every variable holds values of its kind.
TypeOK ==
    /\ template \in [TemplateIds -> {"active", "archived"}]
    /\ manager \in [Departments -> {"active", "left"}]
    /\ schedule \in [Schedules -> {"absent", "active", "paused"}]
    /\ due \in Seq(Schedules)
    /\ run \in [TemplateIds -> [Departments -> 0 .. MaxActive]]
    /\ job \in [left : Seq(Schedules), read : SUBSET (TemplateIds \cup Departments)]
    /\ exec \in [Sessions -> Execution \cup {Idle}]
    /\ ended \subseteq TemplateIds \X Departments
    /\ overlapped \subseteq TemplateIds \X Departments

\* A template has two active runs in a department only if two executions that both found it
\* without one overlapped, or a run was launched or reopened, which looks for no other, beside
\* an active run or an execution that had found none.
OneRunPerDepartment ==
    \A t \in TemplateIds, d \in Departments : <<t, d>> \in overlapped \/ run[t][d] <= 1

\* A schedule that is due stays due for ever only behind, or being, one that cannot be
\* executed: a schedule that raises ends the pass and keeps its place at the head of the list.
Blocked(s) == \E i \in 1 .. Len(due) : /\ ~Sound(due[i])
                                       /\ \E j \in i .. Len(due) : due[j] = s
DueIsServed == \A s \in Schedules : <>[]Due(s) => []<>Blocked(s)
=============================================================================
