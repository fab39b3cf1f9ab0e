--------------------------- MODULE SchedulesProofs ---------------------------
(***************************************************************************)
(* Proof about Schedules for any number of schedules, templates,           *)
(* departments and sessions: what it takes to have two active runs of a    *)
(* template in a department.  A department an execution has found free     *)
(* stays free until the execution commits, unless another execution that   *)
(* found it free, or a run that appears without looking, is recorded in    *)
(* overlapped.                                                             *)
(***************************************************************************)
EXTENDS Schedules, TLAPS

ExecType ==
    /\ run \in [TemplateIds -> [Departments -> Nat]]
    /\ exec \in [Sessions -> Execution \cup {Idle}]

\* Two executions have found the same department free only if that is recorded.
OneAtATime ==
    \A e, f \in Sessions, t \in TemplateIds, d \in Departments :
        Finds(e, t, d) /\ Finds(f, t, d) /\ <<t, d>> \notin overlapped => e = f

FoundFreeIsFree ==
    \A e \in Sessions, t \in TemplateIds, d \in Departments :
        Finds(e, t, d) /\ <<t, d>> \notin overlapped => run[t][d] = 0

IInv == ExecType /\ OneAtATime /\ FoundFreeIsFree /\ OneRunPerDepartment

LEMMA InvIsInitial == Init => IInv
    BY DEF Init, IInv, ExecType, OneAtATime, FoundFreeIsFree, OneRunPerDepartment, Finds

LEMMA UntouchedKeepsInv ==
    ASSUME IInv, UNCHANGED <<run, exec, overlapped>>
    PROVE  IInv'
    BY DEF IInv, ExecType, OneAtATime, FoundFreeIsFree, OneRunPerDepartment, Finds

LEMMA IdleKeepsInv ==
    ASSUME IInv, NEW e \in Sessions, exec' = [exec EXCEPT ![e] = Idle],
           UNCHANGED <<run, overlapped>>
    PROVE  IInv'
<1>1. /\ exec' \in [Sessions -> Execution \cup {Idle}]
      /\ \A f \in Sessions, t \in TemplateIds, d \in Departments :
            Finds(f, t, d)' => Finds(f, t, d)
    BY DEF IInv, ExecType, Finds
<1> QED
    BY <1>1 DEF IInv, ExecType, OneAtATime, FoundFreeIsFree, OneRunPerDepartment

\* An execution reads who is free.
LEMMA ExecuteKeepsInv ==
    ASSUME IInv, NEW e \in Sessions, NEW s \in Schedules, exec[e] = Idle,
           Execute(e, s), UNCHANGED run
    PROVE  IInv'
<1> DEFINE new == [op |-> "execute", schedule |-> s, free |-> Started(s)]
<1>1. /\ TemplateOf[s] \in TemplateIds /\ Started(s) \subseteq Departments
      /\ \A d \in Started(s) : run[TemplateOf[s]][d] = 0
    BY ScheduleAssumption DEF Started, Free
<1>2. new \in Execution /\ new # Idle /\ new.schedule = s /\ new.free = Started(s)
    BY <1>1 DEF Execution, Idle
<1> HIDE DEF new
<1>3. exec' = [exec EXCEPT ![e] = new]
    BY DEF Execute, new
<1>4. /\ exec' \in [Sessions -> Execution \cup {Idle}] /\ exec'[e] = new
      /\ \A f \in Sessions \ {e} : exec'[f] = exec[f]
    BY <1>2, <1>3 DEF IInv, ExecType
<1>5. /\ overlapped \subseteq overlapped'
      /\ \A f \in Sessions \ {e}, d \in Started(s) :
            Finds(f, TemplateOf[s], d) => <<TemplateOf[s], d>> \in overlapped'
    BY DEF Execute
<1>6. \A t \in TemplateIds, d \in Departments :
        /\ Finds(e, t, d)' => t = TemplateOf[s] /\ d \in Started(s)
        /\ \A f \in Sessions \ {e} : Finds(f, t, d)' => Finds(f, t, d)
    BY <1>2, <1>4 DEF Finds
<1>7. OneAtATime'
    BY <1>5, <1>6 DEF IInv, OneAtATime
<1>8. FoundFreeIsFree'
    BY <1>1, <1>5, <1>6 DEF IInv, FoundFreeIsFree
<1> QED
    BY <1>4, <1>5, <1>7, <1>8 DEF IInv, ExecType, OneRunPerDepartment

\* An execution commits the runs it starts.
LEMMA CommitKeepsInv ==
    ASSUME IInv, NEW e \in Sessions, exec[e] # Idle,
           StartRuns(e), exec' = [exec EXCEPT ![e] = Idle], UNCHANGED overlapped
    PROVE  IInv'
<1> DEFINE t == TemplateOf[exec[e].schedule]
<1>1. exec[e] \in Execution
    BY DEF IInv, ExecType
<1>2. t \in TemplateIds
    BY <1>1, ScheduleAssumption DEF Execution
<1>3. PICK created \in SUBSET exec[e].free :
        run' = [run EXCEPT ![t] = [d \in Departments |->
                    IF d \in created THEN run[t][d] + 1 ELSE run[t][d]]]
    BY DEF StartRuns
<1>4. run' \in [TemplateIds -> [Departments -> Nat]]
    BY <1>2, <1>3 DEF IInv, ExecType
<1>5. ASSUME NEW u \in TemplateIds, NEW d \in Departments
      PROVE  /\ u # t \/ d \notin created => run'[u][d] = run[u][d]
             /\ u = t /\ d \in created => run'[u][d] = run[u][d] + 1
    BY <1>2, <1>3, <1>5 DEF IInv, ExecType
<1>6. \A d \in created : Finds(e, t, d)
    BY DEF Finds
<1>7. /\ exec' \in [Sessions -> Execution \cup {Idle}]
      /\ \A f \in Sessions, u \in TemplateIds, d \in Departments :
            Finds(f, u, d)' => f # e /\ Finds(f, u, d)
    BY DEF IInv, ExecType, Finds
<1> HIDE DEF t
<1>8. OneAtATime'
    BY <1>7 DEF IInv, OneAtATime
<1>9. FoundFreeIsFree'
    <2> SUFFICES ASSUME NEW f \in Sessions, NEW u \in TemplateIds, NEW d \in Departments,
                        Finds(f, u, d)', <<u, d>> \notin overlapped
                 PROVE  run'[u][d] = 0
        BY DEF FoundFreeIsFree
    <2>1. f # e /\ Finds(f, u, d)
        BY <1>7
    <2>2. u # t \/ d \notin created
        BY <1>6, <2>1 DEF IInv, OneAtATime
    <2> QED
        BY <1>5, <2>1, <2>2 DEF IInv, FoundFreeIsFree
<1>10. OneRunPerDepartment'
    <2> SUFFICES ASSUME NEW u \in TemplateIds, NEW d \in Departments, <<u, d>> \notin overlapped
                 PROVE  run'[u][d] <= 1
        BY DEF OneRunPerDepartment
    <2>1. run[u][d] <= 1
        BY DEF IInv, OneRunPerDepartment
    <2>2. u = t /\ d \in created => run[u][d] = 0
        BY <1>6 DEF IInv, FoundFreeIsFree
    <2> QED
        BY <1>5, <2>1, <2>2
<1> QED
    BY <1>4, <1>7, <1>8, <1>9, <1>10 DEF IInv, ExecType

LEMMA RunEndsKeepsInv ==
    ASSUME IInv, NEW t \in TemplateIds, NEW d \in Departments, RunEnds(t, d)
    PROVE  IInv'
<1>1. /\ run[t][d] > 0 /\ run' = [run EXCEPT ![t] = [run[t] EXCEPT ![d] = run[t][d] - 1]]
      /\ UNCHANGED <<exec, overlapped>>
    BY DEF RunEnds, IInv, ExecType
<1>2. /\ run' \in [TemplateIds -> [Departments -> Nat]]
      /\ \A u \in TemplateIds, c \in Departments :
            run'[u][c] = run[u][c] \/ (run[u][c] > 0 /\ run'[u][c] < run[u][c])
    BY <1>1 DEF IInv, ExecType
<1>3. OneRunPerDepartment'
    <2> SUFFICES ASSUME NEW u \in TemplateIds, NEW c \in Departments, <<u, c>> \notin overlapped
                 PROVE  run'[u][c] <= 1
        BY <1>1 DEF OneRunPerDepartment
    <2>1. run[u][c] <= 1 /\ run[u][c] \in Nat /\ run'[u][c] \in Nat
        BY <1>2 DEF IInv, ExecType, OneRunPerDepartment
    <2> QED
        BY <1>2, <2>1
<1>4. FoundFreeIsFree' /\ OneAtATime'
    BY <1>1, <1>2 DEF IInv, FoundFreeIsFree, OneAtATime, Finds
<1> QED
    BY <1>1, <1>2, <1>3, <1>4 DEF IInv, ExecType

\* A run that appears unasked for is recorded if it is, or may become, one of two.
LEMMA AppearsKeepsInv ==
    ASSUME IInv, NEW t \in TemplateIds, NEW d \in Departments, Appears(t, d)
    PROVE  IInv'
<1>1. /\ run' = [run EXCEPT ![t] = [run[t] EXCEPT ![d] = run[t][d] + 1]]
      /\ UNCHANGED exec
    BY DEF Appears, IInv, ExecType
<1>2. /\ run' \in [TemplateIds -> [Departments -> Nat]]
      /\ run'[t][d] = run[t][d] + 1
      /\ \A u \in TemplateIds, c \in Departments : <<u, c>> # <<t, d>> => run'[u][c] = run[u][c]
    BY <1>1 DEF IInv, ExecType
<1>3. /\ overlapped \subseteq overlapped'
      /\ <<t, d>> \notin overlapped' => /\ ~(run[t][d] > 0)
                                        /\ \A e \in Sessions : ~Finds(e, t, d)
    BY DEF Appears
<1>4. \A e \in Sessions, u \in TemplateIds, c \in Departments : Finds(e, u, c)' <=> Finds(e, u, c)
    BY <1>1 DEF Finds
<1>5. OneRunPerDepartment'
    <2> SUFFICES ASSUME NEW u \in TemplateIds, NEW c \in Departments, <<u, c>> \notin overlapped'
                 PROVE  run'[u][c] <= 1
        BY DEF OneRunPerDepartment
    <2>1. CASE <<u, c>> = <<t, d>>
        BY <1>2, <1>3, <2>1 DEF IInv, ExecType
    <2>2. CASE <<u, c>> # <<t, d>>
        BY <1>2, <1>3, <2>2 DEF IInv, OneRunPerDepartment
    <2> QED
        BY <2>1, <2>2
<1>6. FoundFreeIsFree'
    <2> SUFFICES ASSUME NEW e \in Sessions, NEW u \in TemplateIds, NEW c \in Departments,
                        Finds(e, u, c), <<u, c>> \notin overlapped'
                 PROVE  run'[u][c] = 0
        BY <1>4 DEF FoundFreeIsFree
    <2>1. <<u, c>> # <<t, d>>
        BY <1>3
    <2> QED
        BY <1>2, <1>3, <2>1 DEF IInv, FoundFreeIsFree
<1>7. OneAtATime'
    BY <1>3, <1>4 DEF IInv, OneAtATime
<1> QED
    BY <1>1, <1>2, <1>5, <1>6, <1>7 DEF IInv, ExecType

LEMMA NextKeepsInv == IInv /\ [Next]_vars => IInv'
<1> SUFFICES ASSUME IInv, [Next]_vars PROVE IInv'
    OBVIOUS
<1>1. ASSUME NEW s \in Schedules, Activate(s) \/ Pause(s) \/ Tick(s) PROVE IInv'
    BY <1>1, UntouchedKeepsInv DEF Activate, Pause, Tick
<1>2. ASSUME NEW t \in TemplateIds, Archive(t) \/ Supersede(t) PROVE IInv'
    BY <1>2, UntouchedKeepsInv DEF Archive, Supersede, Retired
<1>3. ASSUME NEW t \in TemplateIds, NEW d \in Departments, RunEnds(t, d) PROVE IInv'
    BY <1>3, RunEndsKeepsInv
<1>12. ASSUME NEW t \in TemplateIds, NEW d \in Departments, Launch(t, d) \/ Reopen(t, d)
       PROVE  IInv'
    BY <1>12, AppearsKeepsInv DEF Launch, Reopen
<1>4. ASSUME NEW d \in Departments, Staff(d) PROVE IInv'
    BY <1>4, UntouchedKeepsInv DEF Staff
<1>5. ASSUME NEW r \in Requests, RunNowCommits(r) PROVE IInv'
    BY <1>5, CommitKeepsInv DEF RunNowCommits, Sessions
<1>6. ASSUME NEW r \in Requests, NEW s \in Schedules, RunNow(r, s) PROVE IInv'
    BY <1>6, ExecuteKeepsInv DEF RunNow, Sessions
<1>7. CASE Scan
    BY <1>7, UntouchedKeepsInv DEF Scan
<1>8. ASSUME NEW s \in Schedules, NextOfPass(s) PROVE IInv'
    <2>1. CASE Execute(Job, s)
        BY <1>8, <2>1, ExecuteKeepsInv DEF NextOfPass, Sessions
    <2>2. CASE UNCHANGED <<exec, overlapped>>
        BY <1>8, <2>2, UntouchedKeepsInv DEF NextOfPass
    <2> QED
        BY <1>8, <2>1, <2>2 DEF NextOfPass
<1>9. CASE JobCommits
    BY <1>9, CommitKeepsInv DEF JobCommits, Sessions
<1>10. CASE JobDies
    BY <1>10, IdleKeepsInv DEF JobDies, Sessions
<1>11. CASE UNCHANGED vars
    BY <1>11, UntouchedKeepsInv DEF vars
<1> QED
    BY <1>1, <1>2, <1>3, <1>4, <1>5, <1>6, <1>7, <1>8, <1>9, <1>10, <1>11, <1>12 DEF Next

\* A template has two active runs in a department only if executions that had found it
\* without one overlapped, or a run was launched or reopened beside an active run or behind the
\* back of such an execution (_execute_schedule, instantiate_graph_template,
\* sync_runtime_for_task_status).
THEOREM OneRunAtATime == Spec => []OneRunPerDepartment
<1>1. IInv => OneRunPerDepartment
    BY DEF IInv
<1> QED
    BY <1>1, InvIsInitial, NextKeepsInv, PTL DEF Spec
=============================================================================
