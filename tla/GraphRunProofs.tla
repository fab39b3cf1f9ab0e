--------------------------- MODULE GraphRunProofs ---------------------------
(***************************************************************************)
(* Theorems about the executor of one workflow run, for every definition   *)
(* graph and every iteration cap.                                          *)
(***************************************************************************)
EXTENDS GraphRun, WellFoundedInduction, FiniteSetTheorems, TLAPS

-----------------------------------------------------------------------------
(* Facts about the operators *)

LEMMA LeastOfOrder ==
    ASSUME NEW R, IsWellFoundedOn(R, Nat),
           \A x, y \in Nat : y < x => <<y, x>> \in R,
           NEW T \in SUBSET Nat, T # {}
    PROVE  \E x \in T : \A y \in T : x <= y
<1>1. PICK x \in T : \A y \in T : ~(<<y, x>> \in R)
    BY WFMin
<1>2. ASSUME NEW y \in T
      PROVE  x <= y
    <2>1. x \in Nat /\ y \in Nat
        OBVIOUS
    <2>2. ~(y < x)
        BY <1>1, <2>1
    <2> QED
        BY <2>1, <2>2
<1> QED
    BY <1>2

LEMMA LessIsARelation == \A x, y \in Nat : y < x => <<y, x>> \in OpToRel(<, Nat)
    BY DEF OpToRel

LEMMA LeastNatural ==
    ASSUME NEW T \in SUBSET Nat, T # {}
    PROVE  \E x \in T : \A y \in T : x <= y
    BY NatLessThanWellFounded, LeastOfOrder, LessIsARelation, Zenon

\* What the fixpoint of the breadth-first search of the code is: the least
\* closed set of nodes around its start.
LEMMA ReachableIsLeastClosed ==
    ASSUME NEW S \in SUBSET Node
    PROVE  /\ S \subseteq Reachable(S)
           /\ Reachable(S) \subseteq Node
           /\ Closed(Reachable(S))
           /\ \A C \in SUBSET Node : S \subseteq C /\ Closed(C) => Reachable(S) \subseteq C
<1>1. Reachable(S) = {n \in Node : \A C \in SUBSET Node : S \subseteq C /\ Closed(C) => n \in C}
    BY DEF Reachable, ReachTable
<1>2. Closed(Reachable(S))
    <2> SUFFICES ASSUME NEW e \in Edge, e[1] \in Reachable(S)
                 PROVE  e[2] \in Reachable(S)
        BY DEF Closed
    <2>1. e[2] \in Node
        BY GraphAssumption
    <2>2. ASSUME NEW C \in SUBSET Node, S \subseteq C, Closed(C)
          PROVE  e[2] \in C
        <3>1. e[1] \in C
            BY <1>1, <2>2
        <3> QED
            BY <3>1, <2>2 DEF Closed
    <2> QED
        BY <1>1, <2>1, <2>2
<1> QED
    BY <1>1, <1>2

\* The deep reject computes an iteration that is free for its target.
LEMMA NewestIsLargest ==
    ASSUME ns \in [Node -> [Iteration -> EngineState]],
           NEW n \in Node, Exists(n, 1)
    PROVE  /\ Newest(n) \in Iteration
           /\ Exists(n, Newest(n))
           /\ \A j \in Iteration : Exists(n, j) => j <= Newest(n)
<1> DEFINE T == {MaxIterations - i : i \in {j \in Iteration : Exists(n, j)}}
<1>1. T \in SUBSET Nat /\ T # {}
    BY IterationAssumption DEF Iteration
<1>2. PICK x \in T : \A y \in T : x <= y
    BY <1>1, LeastNatural
<1>3. PICK i \in Iteration : Exists(n, i) /\ x = MaxIterations - i
    OBVIOUS
<1>4. \A j \in Iteration : Exists(n, j) => j <= i
    <2> SUFFICES ASSUME NEW j \in Iteration, Exists(n, j)
                 PROVE  j <= i
        OBVIOUS
    <2>1. MaxIterations - j \in T
        OBVIOUS
    <2>2. x <= MaxIterations - j
        BY <1>2, <2>1
    <2> QED
        BY <1>3, <2>2, IterationAssumption DEF Iteration
<1> QED
    BY <1>3, <1>4 DEF Newest

\* The predecessors of a node are the sources of its edges.
LEMMA PredIsASource ==
    ASSUME NEW n, NEW p \in Pred(n)
    PROVE  p \in Node /\ n \in Node /\ <<p, n>> \in Edge
<1>1. PICK e \in Edge : e[2] = n /\ p = e[1]
    BY DEF Pred
<1>2. e = <<e[1], e[2]>> /\ e[1] \in Node /\ e[2] \in Node
    BY GraphAssumption
<1> QED
    BY <1>1, <1>2

LEMMA MovedIsTyped ==
    ASSUME ns \in [Node -> [Iteration -> EngineState]], NEW S, NEW s \in EngineState
    PROVE  Moved(S, s) \in [Node -> [Iteration -> EngineState]]
    BY DEF Moved

\* Every stage record the executor writes is one.
LEMMA StagesAreTyped ==
    ASSUME NEW n \in Node, NEW i \in Iteration, NEW nested \in BOOLEAN,
           NEW pending \in SUBSET Node, NEW round \in Nat
    PROVE  /\ Idle \in Transaction
           /\ Routing(n, i, nested) \in Transaction
           /\ Scanning(i, pending, round) \in Transaction
           /\ Draining \in Transaction
           /\ Settling \in Transaction
<1>1. (CHOOSE m \in Node : TRUE) \in Node
    OBVIOUS
<1>2. 1 \in Iteration
    BY IterationAssumption DEF Iteration
<1> QED
    BY <1>1, <1>2 DEF Idle, Routing, Scanning, Draining, Settling, Stage, Transaction

-----------------------------------------------------------------------------
(* Type correctness *)

\* Every row and every transaction record keeps its shape, whatever commands
\* arrive in whatever order.
THEOREM TypeCorrect == Spec => []TypeOK
<1>1. Init => TypeOK
    <2> SUFFICES ASSUME Init
                 PROVE  TypeOK
        OBVIOUS
    <2>1. Draining \in Transaction
        <3>1. PICK n \in Node : TRUE
            BY GraphAssumption
        <3>2. 1 \in Iteration
            BY IterationAssumption DEF Iteration
        <3> QED
            BY <3>1, <3>2, StagesAreTyped
    <2> QED
        BY <2>1, TaskAssumption DEF Init, TypeOK, EngineState, Operable
<1>2. TypeOK /\ [Next]_vars => TypeOK'
    <2> SUFFICES ASSUME TypeOK, [Next]_vars
                 PROVE  TypeOK'
        OBVIOUS
    <2> USE DEF TypeOK
    <2>tx. /\ tx.node \in Node /\ tx.iter \in Iteration /\ tx.nested \in BOOLEAN
           /\ tx.round + 1 \in Nat
        BY DEF Transaction
    <2>turn. turn' = turn => stray' \subseteq Node \X Iteration /\ late' \in 0 .. MaxLate
        BY DEF turn
    <2>write. ASSUME NEW n \in Node, NEW i \in Iteration, NEW fits, Written(n, i, fits)
              PROVE  stray' \subseteq Node \X Iteration /\ late' \in 0 .. MaxLate
        BY <2>turn, <2>write, TaskAssumption DEF Written, turn
    <2>idle. Idle \in Transaction /\ Draining \in Transaction /\ Settling \in Transaction
        BY <2>tx, StagesAreTyped
    <2>1. CASE Engine
        <3>1. CASE RouteEnd
            BY <2>turn, <2>idle, <3>1 DEF RouteEnd
        <3>2. CASE RouteNone
            <4>1. ns' \in [Node -> [Iteration -> EngineState]]
                BY <3>2, MovedIsTyped DEF RouteNone, EngineState
            <4>2. traversal' \in [Edge -> [Iteration -> {"none", "taken", "not_taken", "invalidated"}]]
                BY <3>2 DEF RouteNone, Recorded
            <4> QED
                BY <2>turn, <2>idle, <3>2, <4>1, <4>2 DEF RouteNone
        <3>3. CASE RouteTaken
            <4>1. PICK tests \in SUBSET Conditional(tx.node) :
                    /\ traversal' = Recorded(tx.node, tx.iter, Selected(tx.node, tests))
                    /\ ns' = Moved(Lost({e[2] : e \in Selected(tx.node, tests)},
                                        {e[2] : e \in Out(tx.node)}
                                            \ {e[2] : e \in Selected(tx.node, tests)},
                                        tx.iter) \X {tx.iter}, "skipped")
                    /\ dep' = dep \cup
                            {<<tx.node, m, tx.iter>> :
                                m \in {k \in {e[2] : e \in Selected(tx.node, tests)} :
                                            ns[k][tx.iter] = "pending"}}
                BY <3>3 DEF RouteTaken
            <4>2. ns' \in [Node -> [Iteration -> EngineState]]
                BY <4>1, MovedIsTyped DEF EngineState
            <4>3. traversal' \in [Edge -> [Iteration -> {"none", "taken", "not_taken", "invalidated"}]]
                BY <4>1 DEF Recorded
            <4>4. dep' \subseteq Node \X Node \X Iteration
                <5>1. Selected(tx.node, tests) \subseteq Edge
                    BY DEF Selected, Out, First, Conditional
                <5>2. \A e \in Selected(tx.node, tests) : e[2] \in Node
                    BY <5>1, GraphAssumption
                <5> QED
                    BY <2>tx, <4>1, <5>2
            <4>5. tx' \in Transaction
                BY <2>tx, <3>3, StagesAreTyped DEF RouteTaken
            <4> QED
                BY <2>turn, <3>3, <4>2, <4>3, <4>4, <4>5 DEF RouteTaken
        <3>4. CASE Scan
            <4>1. PICK m \in Node : ScanFail(m) \/ ScanSkip(m) \/ ScanActivate(m) \/ ScanWait(m)
                BY <3>4 DEF Scan
            <4>2. ASSUME NEW changed \in BOOLEAN, Resolve(m, changed)
                  PROVE  tx' \in Transaction
                BY <4>2 DEF Resolve, Transaction
            <4>3. CASE ScanFail(m)
                BY <2>turn, <4>2, <4>3 DEF ScanFail
            <4>4. CASE ScanSkip(m)
                <5>1. ns' \in [Node -> [Iteration -> EngineState]]
                    BY <4>4, MovedIsTyped DEF ScanSkip, EngineState
                <5> QED
                    BY <2>turn, <4>2, <4>4, <5>1 DEF ScanSkip
            <4>5. CASE ScanActivate(m)
                <5>1. ns' \in [Node -> [Iteration -> EngineState]]
                    BY <4>5 DEF ScanActivate, EngineState
                <5>2. approval' \in [Node -> [Iteration -> {"none", "open", "closed"}]]
                    BY <4>5 DEF ScanActivate
                <5> QED
                    BY <2>turn, <4>2, <4>5, <5>1, <5>2 DEF ScanActivate
            <4>6. CASE ScanWait(m)
                BY <2>turn, <4>2, <4>6 DEF ScanWait
            <4> QED
                BY <4>1, <4>3, <4>4, <4>5, <4>6
        <3>5. CASE ScanRound
            <4>1. tx' \in Transaction
                <5>1. Scanning(tx.iter, {m \in Node : ns[m][tx.iter] = "pending"}, tx.round + 1) \in Transaction
                    <6>1. {m \in Node : ns[m][tx.iter] = "pending"} \in SUBSET Node
                        OBVIOUS
                    <6> HIDE DEF TypeOK
                    <6> QED
                        BY <2>tx, <6>1, StagesAreTyped
                <5>2. \/ tx' = Scanning(tx.iter, {m \in Node : ns[m][tx.iter] = "pending"}, tx.round + 1)
                      \/ tx' = Draining
                    BY <3>5, Zenon DEF ScanRound
                <5> QED
                    BY <2>idle, <5>1, <5>2
            <4> QED
                BY <2>turn, <3>5, <4>1 DEF ScanRound
        <3>6. CASE DrainNotice
            <4>1. PICK n \in Node, i \in Iteration :
                    ns' = Moved({<<n, i>>}, "completed") /\ tx' = Routing(n, i, TRUE)
                BY <3>6 DEF DrainNotice
            <4>2. ns' \in [Node -> [Iteration -> EngineState]]
                BY <4>1, MovedIsTyped DEF EngineState
            <4>3. tx' \in Transaction
                BY <4>1, StagesAreTyped
            <4> QED
                BY <2>turn, <3>6, <4>2, <4>3 DEF DrainNotice
        <3>7. CASE DrainDone
            BY <2>turn, <2>idle, <3>7 DEF DrainDone
        <3>8. CASE Settle
            BY <2>turn, <2>idle, <3>8 DEF Settle, Outcome
        <3> QED
            BY <2>1, <3>1, <3>2, <3>3, <3>4, <3>5, <3>6, <3>7, <3>8 DEF Engine
    <2>2. CASE Work
        <3>1. ASSUME NEW n \in Node, NEW i \in Iteration, Complete(n, i)
              PROVE  TypeOK'
            <4>1. ns' \in [Node -> [Iteration -> EngineState]]
                BY <3>1, MovedIsTyped DEF Complete, EngineState
            <4>2. tx' \in Transaction
                BY <3>1, StagesAreTyped DEF Complete
            <4> QED
                BY <2>turn, <3>1, <4>1, <4>2 DEF Complete
        <3>2. ASSUME NEW n \in Node, NEW t \in Node, NEW i \in Iteration, DeepReject(n, i, t)
              PROVE  TypeOK'
            <4>1. ns' \in [Node -> [Iteration -> EngineState]]
                BY <3>2 DEF DeepReject, ReplayState, EngineState
            <4>2. traversal' \in [Edge -> [Iteration -> {"none", "taken", "not_taken", "invalidated"}]]
                BY <3>2 DEF DeepReject
            <4>3. dep' \subseteq dep
                BY <3>2 DEF DeepReject, ValidAfterReplay
            <4> QED
                BY <2>turn, <3>2, <4>1, <4>2, <4>3 DEF DeepReject
        <3>3. ASSUME NEW n \in Node, NEW i \in Iteration, Takeover(n, i)
              PROVE  TypeOK'
            <4>1. ns' \in [Node -> [Iteration -> EngineState]]
                BY <3>3, MovedIsTyped DEF Takeover, EngineState
            <4> QED
                BY <2>turn, <3>3, <4>1 DEF Takeover
        <3>4. CASE Cancel
            <4>1. ns' \in [Node -> [Iteration -> EngineState]]
                BY <3>4 DEF Cancel, EngineState
            <4> QED
                BY <2>turn, <3>4, <4>1 DEF Cancel
        <3> QED
            BY <2>2, <3>1, <3>2, <3>3, <3>4 DEF Work
    <2>3. CASE Pause
        <3>1. ASSUME NEW n \in Node, NEW i \in Iteration, Suspend(n, i)
              PROVE  TypeOK'
            <4>1. ns' \in [Node -> [Iteration -> EngineState]]
                BY <3>1, MovedIsTyped DEF Suspend, EngineState
            <4> QED
                BY <2>turn, <3>1, <4>1 DEF Suspend
        <3>2. ASSUME NEW n \in Node, NEW i \in Iteration, Resume(n, i)
              PROVE  TypeOK'
            <4>0. held[n][i] \in EngineState /\ ns' = Moved({<<n, i>>}, held[n][i])
                BY <3>2 DEF Resume, EngineState, Operable
            <4>1. ns' \in [Node -> [Iteration -> EngineState]]
                BY <4>0, MovedIsTyped
            <4> QED
                BY <2>turn, <3>2, <4>1 DEF Resume
        <3> QED
            BY <2>3, <3>1, <3>2 DEF Pause
    <2>4. CASE Decide
        <3>1. ASSUME NEW n \in Node, NEW i \in Iteration, ApprovalBlocked(n, i)
              PROVE  TypeOK'
            <4>1. ns' \in [Node -> [Iteration -> EngineState]]
                BY <3>1, MovedIsTyped DEF ApprovalBlocked, EngineState
            <4>2. stray' \subseteq Node \X Iteration /\ late' \in 0 .. MaxLate
                BY <3>1, <2>write DEF ApprovalBlocked
            <4> QED
                BY <3>1, <4>1, <4>2 DEF ApprovalBlocked
        <3>2. ASSUME NEW n \in Node, NEW i \in Iteration, ApprovalVote(n, i)
              PROVE  TypeOK'
            <4>1. ns' \in [Node -> [Iteration -> EngineState]]
                BY <3>2, MovedIsTyped DEF ApprovalVote, EngineState
            <4> QED
                BY <2>turn, <3>2, <4>1 DEF ApprovalVote
        <3>3. ASSUME NEW n \in Node, NEW i \in Iteration, ApprovalDecided(n, i)
              PROVE  TypeOK'
            <4>1. ns' \in [Node -> [Iteration -> EngineState]]
                BY <3>3, MovedIsTyped DEF ApprovalDecided, EngineState
            <4>2. tx' \in Transaction
                BY <3>3, StagesAreTyped DEF ApprovalDecided
            <4> QED
                BY <2>turn, <3>3, <4>1, <4>2 DEF ApprovalDecided
        <3> QED
            BY <2>4, <3>1, <3>2, <3>3 DEF Decide
    <2>5. CASE \E n \in Node, i \in Iteration :
                    TaskMoves(n, i) \/ TaskCloses(n, i) \/ TaskFinishes(n, i)
        <3>1. PICK n \in Node, i \in Iteration :
                TaskMoves(n, i) \/ TaskCloses(n, i) \/ TaskFinishes(n, i)
            BY <2>5
        <3>2. PICK s \in {"acknowledged", "completed"} : SyncTask(n, i, s)
            BY <3>1 DEF TaskMoves, TaskCloses, TaskFinishes
        <3>3. ns' \in [Node -> [Iteration -> EngineState]]
            <4>1. s \in EngineState
                BY <3>2 DEF EngineState
            <4> QED
                BY <3>2, <4>1, MovedIsTyped DEF SyncTask
        <3>4. tx' \in Transaction
            BY <3>1, StagesAreTyped DEF TaskMoves, TaskCloses, TaskFinishes
        <3>5. stray' \subseteq Node \X Iteration /\ late' \in 0 .. MaxLate
            BY <3>1, <2>write DEF TaskMoves, TaskCloses, TaskFinishes
        <3> QED
            BY <3>2, <3>3, <3>4, <3>5 DEF SyncTask
    <2>6. CASE UNCHANGED vars
        BY <2>turn, <2>6 DEF vars
    <2>7. ASSUME NEW n \in Node, NEW i \in Iteration, CaptureReturned(n, i)
          PROVE  TypeOK'
        <3>1. ns' \in [Node -> [Iteration -> EngineState]]
            BY <2>7, MovedIsTyped DEF CaptureReturned, EngineState
        <3>2. stray' \subseteq Node \X Iteration /\ late' \in 0 .. MaxLate
            BY <2>7, <2>write DEF CaptureReturned
        <3> QED
            BY <2>7, <3>1, <3>2 DEF CaptureReturned
    <2> QED
        BY <2>1, <2>2, <2>3, <2>4, <2>5, <2>6, <2>7 DEF Next, Tasks
<1> QED
    BY <1>1, <1>2, PTL DEF Spec

-----------------------------------------------------------------------------
(* What a step may do to the rows *)

RowsKept == \A n \in Node, i \in Iteration : ns'[n][i] = "absent" <=> ns[n][i] = "absent"
CompletedKept ==
    \A n \in Node, i \in Iteration :
        ns[n][i] = "completed" => ns'[n][i] = "completed" \/ <<n, i>> \in stray'
NoNewLive ==
    \A n \in Node, i \in Iteration :
        ns'[n][i] \in Live => ns[n][i] \in Live \/ <<n, i>> \in stray'

\* Only rows that have left the waiting are written out of turn, and they never return.
Touched(n, i) == ns[n][i] \notin {"absent", "pending", "skipped"}
StrayIsTouched == \A n \in Node, i \in Iteration : <<n, i>> \in stray => Touched(n, i)

\* The part of the invariant every later proof leans on.
RowInv ==
    /\ TypeOK /\ IterationsAreClosed /\ TodoIsPending /\ ApprovalHasNode /\ CompletedIsDecided
    /\ StrayIsTouched

\* A row that exists moves to a state other than "absent".
LEMMA MovedRow ==
    ASSUME NEW n \in Node, NEW i \in Iteration, NEW s, ns' = Moved({<<n, i>>}, s),
           s # "absent", ns[n][i] # "absent"
    PROVE  /\ RowsKept
           /\ (ns[n][i] = "completed" => s = "completed" \/ <<n, i>> \in stray') => CompletedKept
           /\ (s \in Live => ns[n][i] \in Live \/ <<n, i>> \in stray') => NoNewLive
<1>1. \A m \in Node, j \in Iteration :
        ns'[m][j] = IF m = n /\ j = i THEN s ELSE ns[m][j]
    BY DEF Moved
<1> QED
    BY <1>1 DEF RowsKept, CompletedKept, NoNewLive

\* What a command on a task does to the row (n, i) of its node, to the run and to the
\* transaction; in turn it works on an open task node of an active run.
TaskWrote(n, i) ==
    /\ tx.stage = "idle"
    /\ ns[n][i] \notin {"absent", "pending", "skipped"}
    /\ ns'[n][i] \in {ns[n][i], "activated", "acknowledged", "completed"}
    /\ \A m \in Node, j \in Iteration : m # n \/ j # i => ns'[m][j] = ns[m][j]
    /\ UNCHANGED <<held, approval, traversal, dep>>
    /\ run' \in {run, "active"}
    /\ stray' \in {stray, stray \cup {<<n, i>>}}
    /\ \/ tx' = tx
       \/ tx' = Routing(n, i, FALSE) /\ ns'[n][i] = "completed" /\ run' = "active" /\ ~IsStale(n, i)
    /\ \/ <<n, i>> \in stray'
       \/ /\ NodeType[n] = "task"
          /\ run = "active" /\ run' = "active"
          /\ ns[n][i] \in Operable
          /\ \/ tx' = tx /\ ns'[n][i] \in Operable
             \/ tx' = Routing(n, i, FALSE) /\ ns'[n][i] = "completed"

LEMMA TasksWrite ==
    ASSUME TypeOK, Tasks
    PROVE  \E n \in Node, i \in Iteration : TaskWrote(n, i)
<1>1. PICK n \in Node, i \in Iteration :
        TaskMoves(n, i) \/ TaskCloses(n, i) \/ TaskFinishes(n, i) \/ CaptureReturned(n, i)
    BY DEF Tasks
<1> SUFFICES TaskWrote(n, i)
    OBVIOUS
<1>2. ASSUME NEW s, SyncTask(n, i, s)
      PROVE  /\ tx.stage = "idle"
             /\ ns[n][i] \notin {"absent", "pending", "skipped"}
             /\ ns'[n][i] \in {ns[n][i], s}
             /\ \A m \in Node, j \in Iteration : m # n \/ j # i => ns'[m][j] = ns[m][j]
             /\ UNCHANGED <<held, approval, traversal, dep>>
             /\ run' \in {run, "active"}
    BY <1>2 DEF SyncTask, HasTask, Moved
<1>3. ASSUME NEW fits, Written(n, i, fits)
      PROVE  /\ stray' \in {stray, stray \cup {<<n, i>>}}
             /\ <<n, i>> \in stray' \/ fits
    BY <1>3 DEF Written, turn
<1>4. CASE TaskMoves(n, i)
    <2>1. SyncTask(n, i, "acknowledged") /\ Written(n, i, InTurn(n, i)) /\ tx' = tx
        BY <1>4 DEF TaskMoves
    <2>2. <<n, i>> \in stray' \/ InTurn(n, i)
        BY <2>1, <1>3
    <2> QED
        BY <2>1, <2>2, <1>2, <1>3 DEF TaskWrote, InTurn, Operable
<1>5. CASE TaskCloses(n, i)
    <2>1. SyncTask(n, i, "completed") /\ Written(n, i, FALSE) /\ tx' = tx
        BY <1>5 DEF TaskCloses
    <2> QED
        BY <2>1, <1>2, <1>3 DEF TaskWrote
<1>6. CASE TaskFinishes(n, i)
    <2>1. /\ SyncTask(n, i, "completed") /\ Written(n, i, InTurn(n, i))
          /\ tx' = Routing(n, i, FALSE) /\ ns'[n][i] = "completed" /\ run' = "active"
          /\ ~IsStale(n, i)
        BY <1>6 DEF TaskFinishes
    <2>2. <<n, i>> \in stray' \/ InTurn(n, i)
        BY <2>1, <1>3
    <2> QED
        BY <2>1, <2>2, <1>2, <1>3 DEF TaskWrote, InTurn
<1>7. CASE CaptureReturned(n, i)
    BY <1>7, <1>3 DEF CaptureReturned, TaskWrote, Moved
<1> QED
    BY <1>1, <1>4, <1>5, <1>6, <1>7

\* Such a command keeps what the other steps keep, unless it writes out of turn.
LEMMA TasksKeepRows ==
    ASSUME TypeOK, NEW n \in Node, NEW i \in Iteration, TaskWrote(n, i)
    PROVE  RowsKept /\ CompletedKept /\ NoNewLive
    BY DEF TaskWrote, RowsKept, CompletedKept, NoNewLive, Operable, Live

\* A refused decision on a closed node is out of turn.
LEMMA BlockedIsWritten ==
    ASSUME NEW n \in Node, NEW i \in Iteration, ApprovalBlocked(n, i)
    PROVE  /\ stray' \in {stray, stray \cup {<<n, i>>}}
           /\ <<n, i>> \in stray' \/ ns[n][i] \notin Done
    BY DEF ApprovalBlocked, Written, turn

\* What was written out of turn is remembered.
LEMMA StraysAreKept ==
    ASSUME TypeOK, [Next]_vars
    PROVE  stray \subseteq stray'
<1>1. CASE Tasks
    BY <1>1, TasksWrite DEF TaskWrote
<1>2. ASSUME NEW n \in Node, NEW i \in Iteration, ApprovalBlocked(n, i)
      PROVE  stray \subseteq stray'
    BY <1>2, BlockedIsWritten
<1>3. CASE Engine
    BY <1>3 DEF Engine, RouteEnd, RouteNone, RouteTaken, Scan, ScanFail, ScanSkip, ScanActivate,
                ScanWait, ScanRound, DrainNotice, DrainDone, Settle, turn
<1>4. CASE Work \/ Pause
    BY <1>4 DEF Work, Pause, Complete, DeepReject, Takeover, Cancel, Suspend, Resume, turn
<1>5. ASSUME NEW n \in Node, NEW i \in Iteration, ApprovalVote(n, i) \/ ApprovalDecided(n, i)
      PROVE  stray \subseteq stray'
    BY <1>5 DEF ApprovalVote, ApprovalDecided, turn
<1>6. CASE UNCHANGED vars
    BY <1>6 DEF vars, turn
<1> QED
    BY <1>1, <1>2, <1>3, <1>4, <1>5, <1>6 DEF Next, Decide

LEMMA EngineKeepsRows ==
    ASSUME TypeOK, TodoIsPending, Engine
    PROVE  RowsKept /\ CompletedKept /\ NoNewLive
<1> USE DEF RowsKept, CompletedKept, NoNewLive, Live, Operable
<1>1. CASE RouteEnd \/ ScanRound \/ DrainDone \/ Settle
    BY <1>1 DEF RouteEnd, ScanRound, DrainDone, Settle
<1>2. CASE RouteNone
    <2> DEFINE S == {<<m, tx.iter>> : m \in {k \in Node \ {tx.node} : ns[k][tx.iter] = "pending"}}
    <2>1. ns' = Moved(S, "skipped")
        BY <1>2 DEF RouteNone
    <2>2. \A n \in Node, i \in Iteration : <<n, i>> \in S => ns[n][i] = "pending"
        OBVIOUS
    <2> HIDE DEF S
    <2>3. \A n \in Node, i \in Iteration :
            ns'[n][i] = IF <<n, i>> \in S THEN "skipped" ELSE ns[n][i]
        BY <2>1 DEF Moved
    <2> QED
        BY <2>2, <2>3
<1>3. CASE RouteTaken
    <2>1. PICK chosen, others : ns' = Moved(Lost(chosen, others, tx.iter) \X {tx.iter}, "skipped")
        BY <1>3 DEF RouteTaken
    <2>2. \A n \in Lost(chosen, others, tx.iter) : ns[n][tx.iter] = "pending"
        BY DEF Lost
    <2>3. \A n \in Node, i \in Iteration :
            ns'[n][i] = IF n \in Lost(chosen, others, tx.iter) /\ i = tx.iter
                        THEN "skipped" ELSE ns[n][i]
        BY <2>1 DEF Moved
    <2> QED
        BY <2>2, <2>3
<1>4. CASE Scan
    <2>1. PICK m \in Node : /\ IsNext(m)
                            /\ ScanFail(m) \/ ScanSkip(m) \/ ScanActivate(m) \/ ScanWait(m)
        BY <1>4 DEF Scan
    <2>2. tx.iter \in Iteration /\ ns[m][tx.iter] = "pending"
        BY <1>4, <2>1 DEF Scan, IsNext, TodoIsPending, TypeOK, Transaction
    <2>3. CASE ScanFail(m) \/ ScanWait(m)
        BY <2>3 DEF ScanFail, ScanWait
    <2>4. CASE ScanSkip(m)
        <3>1. ns' = Moved({<<m, tx.iter>>}, "skipped")
            BY <2>4 DEF ScanSkip
        <3> HIDE DEF RowsKept, CompletedKept, NoNewLive
        <3> QED
            BY <2>2, <3>1, MovedRow
    <2>5. CASE ScanActivate(m)
        <3>1. \A i \in Iteration : \A n \in Peers(m, i) : ns[n][i] \in Operable
            BY DEF Peers
        <3>2. \A n \in Node, i \in Iteration :
                ns'[n][i] = IF i # tx.iter THEN ns[n][i]
                            ELSE IF n = m THEN "activated"
                            ELSE IF n \in Peers(m, i) THEN "terminated" ELSE ns[n][i]
            BY <2>5 DEF ScanActivate
        <3> QED
            BY <2>2, <3>1, <3>2
    <2> QED
        BY <2>1, <2>3, <2>4, <2>5
<1>5. CASE DrainNotice
    <2>1. PICK n \in Node, i \in Iteration :
            ns[n][i] = "activated" /\ ns' = Moved({<<n, i>>}, "completed")
        BY <1>5 DEF DrainNotice
    <2> HIDE DEF RowsKept, CompletedKept, NoNewLive
    <2> QED
        BY <2>1, MovedRow
<1> QED
    BY <1>1, <1>2, <1>3, <1>4, <1>5 DEF Engine

\* The commands that touch one row, and the cancellation.
LEMMA CommandKeepsRows ==
    ASSUME TypeOK,
           \/ \E n \in Node, i \in Iteration : Complete(n, i) \/ Takeover(n, i)
           \/ Cancel
    PROVE  RowsKept /\ CompletedKept /\ NoNewLive
<1> USE DEF Live, Operable
<1>1. ASSUME NEW n \in Node, NEW i \in Iteration, Complete(n, i)
      PROVE  RowsKept /\ CompletedKept /\ NoNewLive
    <2>1. ns[n][i] = "activated" /\ ns' = Moved({<<n, i>>}, "completed")
        BY <1>1 DEF Complete
    <2> QED
        BY <2>1, MovedRow
<1>2. ASSUME NEW n \in Node, NEW i \in Iteration, Takeover(n, i)
      PROVE  RowsKept /\ CompletedKept /\ NoNewLive
    <2>1. ns[n][i] \in Operable /\ ns' = Moved({<<n, i>>}, "activated")
        BY <1>2 DEF Takeover
    <2> QED
        BY <2>1, MovedRow
<1>3. CASE Cancel
    BY <1>3 DEF Cancel, RowsKept, CompletedKept, NoNewLive
<1> QED
    BY <1>1, <1>2, <1>3

LEMMA PauseKeepsRows ==
    ASSUME TypeOK, ApprovalHasNode, Pause \/ Decide
    PROVE  RowsKept /\ CompletedKept
<1> USE DEF Operable
<1>1. ASSUME NEW n \in Node, NEW i \in Iteration, Suspend(n, i)
      PROVE  RowsKept /\ CompletedKept
    <2>1. ns[n][i] \in Operable /\ ns' = Moved({<<n, i>>}, "suspended")
        BY <1>1 DEF Suspend
    <2> QED
        BY <2>1, MovedRow
<1>2. ASSUME NEW n \in Node, NEW i \in Iteration, Resume(n, i)
      PROVE  RowsKept /\ CompletedKept
    <2>1. held[n][i] \in Operable
        BY <1>2 DEF Resume, TypeOK
    <2>2. ns[n][i] = "suspended" /\ ns' = Moved({<<n, i>>}, held[n][i])
        BY <1>2 DEF Resume
    <2> QED
        BY <2>1, <2>2, MovedRow
<1>3. ASSUME NEW n \in Node, NEW i \in Iteration,
             ApprovalBlocked(n, i) \/ ApprovalVote(n, i) \/ ApprovalDecided(n, i)
      PROVE  RowsKept /\ CompletedKept
    <2>1. approval[n][i] = "open"
        BY <1>3 DEF ApprovalBlocked, ApprovalVote, ApprovalDecided
    <2>2. ns[n][i] # "absent"
        BY <2>1 DEF ApprovalHasNode, Exists
    <2>3. ns[n][i] # "completed" \/ <<n, i>> \in stray'
        BY <1>3, BlockedIsWritten DEF ApprovalVote, ApprovalDecided, Done
    <2>4. \E s \in {"suspended", "acknowledged", "completed"} : ns' = Moved({<<n, i>>}, s)
        BY <1>3 DEF ApprovalBlocked, ApprovalVote, ApprovalDecided
    <2> QED
        BY <2>2, <2>3, <2>4, MovedRow
<1> QED
    BY <1>1, <1>2, <1>3 DEF Pause, Decide

\* What a deep reject to t does to the rows: t and all it leads to get one new
\* iteration, and what was live of them is closed.
Appended(t) ==
    LET next == NextIteration(t)
    IN  /\ next \in Iteration /\ next > 1
        /\ \A m \in Reachable({t}) : m \in Node /\ Exists(m, next - 1)
        /\ \A m \in Reachable({t}), j \in Iteration : j >= next => ns[m][j] = "absent"
        /\ \A m \in Node, j \in Iteration :
             ns'[m][j] = IF m \notin Reachable({t}) THEN ns[m][j]
                         ELSE IF j = next THEN ReplayState(m, t)
                         ELSE IF ns[m][j] \in Stale THEN "terminated" ELSE ns[m][j]

\* A deep reject opens one new iteration for the whole replayed chain and
\* closes what was live on it.
LEMMA DeepRejectAppends ==
    ASSUME TypeOK, IterationsAreClosed,
           NEW n \in Node, NEW i \in Iteration, NEW t \in Node, DeepReject(n, i, t)
    PROVE  Appended(t)
<1> DEFINE last == Newest(t)
           next == NextIteration(t)
           R == Reachable({t})
<1>1. last \in Iteration /\ Exists(t, last) /\ next = last + 1
    BY NewestIsLargest DEF TypeOK, IterationsAreClosed, NextIteration
<1>2. next \in Iteration /\ next > 1 /\ last = next - 1
    <2>1. NextIteration(t) <= MaxIterations
        BY DEF DeepReject
    <2> HIDE DEF last
    <2> QED
        BY <1>1, <2>1, IterationAssumption DEF Iteration
<1>3. R \subseteq Node
    BY ReachableIsLeastClosed
<1>4. \A m \in R : Exists(m, last)
    <2> DEFINE C == {m \in Node : Exists(m, last)}
    <2>1. C \in SUBSET Node /\ {t} \subseteq C
        BY <1>1
    <2>2. Closed(C)
        BY <1>1, GraphAssumption DEF Closed, IterationsAreClosed
    <2> QED
        BY <2>1, <2>2, ReachableIsLeastClosed
<1>5. \A m \in R, j \in Iteration : j >= next => ns[m][j] = "absent"
    <2> SUFFICES ASSUME NEW m \in R, NEW j \in Iteration, j >= next, Exists(m, j)
                 PROVE  FALSE
        BY DEF Exists
    <2>1. Exists(m, next)
        BY <1>2, <1>3 DEF IterationsAreClosed, Iteration
    <2> QED
        BY <2>1 DEF DeepReject, ReplayCollides
<1>6. \A m \in Node, j \in Iteration :
        ns'[m][j] = IF m \notin R THEN ns[m][j]
                    ELSE IF j = next THEN ReplayState(m, t)
                    ELSE IF ns[m][j] \in Stale THEN "terminated" ELSE ns[m][j]
    BY DEF DeepReject
<1> QED
    BY <1>1, <1>2, <1>3, <1>4, <1>5, <1>6 DEF Appended

-----------------------------------------------------------------------------
(* Append-only iterations *)

LEMMA DeepRejectClosesIterations ==
    ASSUME TypeOK, IterationsAreClosed,
           NEW n \in Node, NEW i \in Iteration, NEW t \in Node, DeepReject(n, i, t)
    PROVE  IterationsAreClosed'
<1> DEFINE next == NextIteration(t)
           R == Reachable({t})
<1>1. /\ next \in Iteration /\ next > 1
      /\ \A m \in R : m \in Node /\ Exists(m, next - 1)
      /\ \A m \in R, j \in Iteration : j >= next => ns[m][j] = "absent"
      /\ \A m \in Node, j \in Iteration :
            ns'[m][j] = IF m \notin R THEN ns[m][j]
                        ELSE IF j = next THEN ReplayState(m, t)
                        ELSE IF ns[m][j] \in Stale THEN "terminated" ELSE ns[m][j]
    <2>1. Appended(t)
        BY DeepRejectAppends
    <2> QED
        BY <2>1 DEF Appended
<1>2. Closed(R)
    BY ReachableIsLeastClosed
<1> HIDE DEF next, R
<1>3. \A m \in Node, j \in Iteration :
        Exists(m, j)' <=> Exists(m, j) \/ (m \in R /\ j = next)
    BY <1>1 DEF Exists, ReplayState, Stale
<1>4. ASSUME NEW m \in Node
      PROVE  Exists(m, 1)'
    BY <1>3, IterationAssumption DEF IterationsAreClosed, Iteration
<1>5. ASSUME NEW m \in Node, NEW j \in Iteration, NEW k \in Iteration, j < k, Exists(m, k)'
      PROVE  Exists(m, j)'
    <2>1. CASE Exists(m, k)
        BY <1>3, <1>5, <2>1 DEF IterationsAreClosed
    <2>2. CASE m \in R /\ k = next
        <3>1. next - 1 \in Iteration /\ j <= next - 1 /\ Exists(m, next - 1)
            BY <1>1, <1>5, <2>2, IterationAssumption DEF Iteration
        <3>2. j = next - 1 \/ j < next - 1
            BY <1>1, <3>1, IterationAssumption DEF Iteration
        <3>3. Exists(m, j)
            BY <3>1, <3>2 DEF IterationsAreClosed
        <3> QED
            BY <1>3, <3>3
    <2> QED
        BY <1>3, <1>5, <2>1, <2>2
<1>6. ASSUME NEW e \in Edge, NEW j \in Iteration, Exists(e[1], j)'
      PROVE  Exists(e[2], j)'
    <2>1. e[1] \in Node /\ e[2] \in Node
        BY GraphAssumption
    <2> QED
        BY <1>2, <1>3, <1>6, <2>1 DEF IterationsAreClosed, Closed
<1> QED
    BY <1>4, <1>5, <1>6 DEF IterationsAreClosed

\* Rows that stay leave the iterations as they were.
LEMMA KeptRowsStayClosed ==
    ASSUME IterationsAreClosed, RowsKept
    PROVE  IterationsAreClosed'
<1>1. \A n \in Node, i \in Iteration : Exists(n, i)' <=> Exists(n, i)
    BY DEF Exists, RowsKept
<1>2. 1 \in Iteration
    BY IterationAssumption DEF Iteration
<1>3. \A e \in Edge : e[1] \in Node /\ e[2] \in Node
    BY GraphAssumption
<1> QED
    BY <1>1, <1>2, <1>3 DEF IterationsAreClosed
-----------------------------------------------------------------------------
(* The invariant of the rows *)

\* An approval instance opens for a row that is not completed; a row that
\* completes has no open approval instance.
LEMMA ApprovalsFollowRows ==
    ASSUME ApprovalHasNode, CompletedIsDecided, RowsKept, stray \subseteq stray',
           \A n \in Node, i \in Iteration : approval'[n][i] # approval[n][i] =>
                /\ Exists(n, i)
                /\ NodeType[n] = "approval"
                /\ approval'[n][i] = "open" => ns'[n][i] # "completed",
           \A n \in Node, i \in Iteration :
                ns'[n][i] = "completed" /\ ns[n][i] # "completed" =>
                    \/ NodeType[n] # "approval"
                    \/ approval'[n][i] # "open"
                    \/ <<n, i>> \in stray'
    PROVE  ApprovalHasNode' /\ CompletedIsDecided'
<1>1. ApprovalHasNode'
    BY DEF ApprovalHasNode, RowsKept, Exists
<1>2. CompletedIsDecided'
    BY <1>1 DEF ApprovalHasNode, CompletedIsDecided
<1> QED
    BY <1>1, <1>2

LEMMA EngineKeepsRowInv ==
    ASSUME RowInv, Engine
    PROVE  TodoIsPending' /\ ApprovalHasNode' /\ CompletedIsDecided'
<1>r. RowsKept /\ stray \subseteq stray'
    BY EngineKeepsRows, StraysAreKept DEF RowInv, Next
<1>t. /\ tx.node \in Node /\ tx.iter \in Iteration
      /\ ns \in [Node -> [Iteration -> EngineState]]
      /\ approval \in [Node -> [Iteration -> {"none", "open", "closed"}]]
      /\ tx \in Transaction
    BY DEF RowInv, TypeOK, Transaction
<1>s. /\ Idle.stage = "idle" /\ Draining.stage = "drain" /\ Settling.stage = "settle"
      /\ \A n, i, b : Routing(n, i, b).stage = "route"
      /\ \A i, S, k : Scanning(i, S, k).iter = i /\ Scanning(i, S, k).todo = S
    BY DEF Idle, Draining, Settling, Routing, Scanning
<1>i. TodoIsPending /\ ApprovalHasNode /\ CompletedIsDecided
    BY DEF RowInv
<1>1. CASE RouteEnd \/ DrainDone \/ Settle
    <2>1. tx'.stage # "scan"
        BY <1>1, <1>s DEF RouteEnd, DrainDone, Settle
    <2>2. ns' = ns /\ approval' = approval
        BY <1>1 DEF RouteEnd, DrainDone, Settle
    <2> QED
        BY <1>i, <1>r, <2>1, <2>2 DEF TodoIsPending, ApprovalHasNode, CompletedIsDecided, Exists
<1>2. CASE RouteNone
    <2>1. tx'.stage # "scan" /\ approval' = approval
        BY <1>2, <1>s DEF RouteNone
    <2>2. \A n \in Node, i \in Iteration : ns'[n][i] = "completed" => ns[n][i] = "completed"
        <3>1. PICK S : ns' = Moved(S, "skipped")
            BY <1>2 DEF RouteNone
        <3> QED
            BY <3>1 DEF Moved
    <2> QED
        BY <1>i, <1>r, <2>1, <2>2, ApprovalsFollowRows DEF TodoIsPending
<1>3. CASE RouteTaken
    <2>1. /\ tx' = Scanning(tx.iter, {m \in Node : ns'[m][tx.iter] = "pending"}, 1)
          /\ approval' = approval
        BY <1>3 DEF RouteTaken
    <2>2. \A n \in Node, i \in Iteration : ns'[n][i] = "completed" => ns[n][i] = "completed"
        <3>1. PICK S : ns' = Moved(S, "skipped")
            BY <1>3 DEF RouteTaken
        <3> QED
            BY <3>1 DEF Moved
    <2>3. TodoIsPending'
        BY <1>s, <2>1 DEF TodoIsPending
    <2> QED
        BY <1>i, <1>r, <2>1, <2>2, <2>3, ApprovalsFollowRows
<1>4. CASE Scan
    <2>1. PICK m \in Node : /\ IsNext(m)
                            /\ ScanFail(m) \/ ScanSkip(m) \/ ScanActivate(m) \/ ScanWait(m)
        BY <1>4 DEF Scan
    <2>2. ns[m][tx.iter] = "pending" /\ \A k \in tx.todo : k \in Node /\ ns[k][tx.iter] = "pending"
        BY <1>4, <1>i, <1>t, <2>1 DEF Scan, IsNext, TodoIsPending, Transaction
    <2>3. tx'.todo = tx.todo \ {m} /\ tx'.iter = tx.iter
        <3>1. \E b : Resolve(m, b)
            BY <2>1 DEF ScanFail, ScanSkip, ScanActivate, ScanWait
        <3> QED
            BY <1>t, <3>1 DEF Resolve, Transaction
    <2>p. \A n \in Node, i \in Iteration :
            \/ ns'[n][i] = ns[n][i]
            \/ n = m /\ i = tx.iter /\ ns'[n][i] \in {"skipped", "activated"}
            \/ ns[n][i] \in Operable /\ ns'[n][i] = "terminated"
        <3>1. CASE ScanFail(m) \/ ScanWait(m)
            BY <3>1 DEF ScanFail, ScanWait
        <3>2. CASE ScanSkip(m)
            BY <1>t, <3>2 DEF ScanSkip, Moved
        <3>3. CASE ScanActivate(m)
            BY <1>t, <3>3 DEF ScanActivate, Peers
        <3> QED
            BY <2>1, <3>1, <3>2, <3>3
    <2>4. \A k \in Node : k # m /\ ns[k][tx.iter] = "pending" => ns'[k][tx.iter] = "pending"
        BY <1>t, <2>p DEF Operable
    <2>5. TodoIsPending'
        BY <2>2, <2>3, <2>4 DEF TodoIsPending
    <2>6. \A n \in Node, i \in Iteration : ns'[n][i] = "completed" => ns[n][i] = "completed"
        BY <2>p
    <2>7. \A n \in Node, i \in Iteration : approval'[n][i] # approval[n][i] =>
            n = m /\ i = tx.iter /\ NodeType[m] = "approval" /\ ns'[m][tx.iter] = "activated"
        <3>1. CASE ScanActivate(m)
            <4>1. ns'[m][tx.iter] = "activated"
                BY <1>t, <3>1 DEF ScanActivate
            <4>2. \/ approval' = approval
                  \/ NodeType[m] = "approval" /\ approval' = [approval EXCEPT ![m][tx.iter] = "open"]
                BY <3>1, Zenon DEF ScanActivate
            <4> QED
                BY <1>t, <4>1, <4>2
        <3> QED
            BY <2>1, <3>1 DEF ScanFail, ScanSkip, ScanWait
    <2>8. Exists(m, tx.iter)
        BY <2>2 DEF Exists
    <2>9. \A n \in Node, i \in Iteration : approval'[n][i] # approval[n][i] =>
            /\ Exists(n, i)
            /\ NodeType[n] = "approval"
            /\ approval'[n][i] = "open" => ns'[n][i] # "completed"
        BY <2>7, <2>8
    <2> QED
        BY <1>i, <1>r, <2>5, <2>6, <2>9, ApprovalsFollowRows
<1>5. CASE ScanRound
    <2>1. \/ tx' = Scanning(tx.iter, {m \in Node : ns[m][tx.iter] = "pending"}, tx.round + 1)
          \/ tx' = Draining
        BY <1>5, Zenon DEF ScanRound
    <2>2. ns' = ns /\ approval' = approval
        BY <1>5 DEF ScanRound
    <2>3. TodoIsPending'
        BY <1>s, <2>1, <2>2 DEF TodoIsPending
    <2> QED
        BY <1>i, <1>r, <2>2, <2>3 DEF ApprovalHasNode, CompletedIsDecided, Exists
<1>6. CASE DrainNotice
    <2>1. PICK n \in Node, i \in Iteration :
            /\ NodeType[n] = "notice"
            /\ ns' = Moved({<<n, i>>}, "completed")
            /\ tx' = Routing(n, i, TRUE)
        BY <1>6 DEF DrainNotice
    <2>2. tx'.stage # "scan" /\ approval' = approval
        BY <1>6, <1>s, <2>1 DEF DrainNotice
    <2>3. \A m \in Node, j \in Iteration :
            ns'[m][j] = "completed" /\ ns[m][j] # "completed" => NodeType[m] # "approval"
        BY <2>1 DEF Moved
    <2> QED
        BY <1>i, <1>r, <2>2, <2>3, ApprovalsFollowRows DEF TodoIsPending
<1> QED
    BY <1>1, <1>2, <1>3, <1>4, <1>5, <1>6 DEF Engine

LEMMA DeepRejectKeepsCompleted ==
    ASSUME TypeOK, IterationsAreClosed,
           NEW n \in Node, NEW i \in Iteration, NEW t \in Node, DeepReject(n, i, t)
    PROVE  \A m \in Node, j \in Iteration :
                /\ Exists(m, j) => Exists(m, j)'
                /\ ns'[m][j] = "completed" <=> ns[m][j] = "completed"
<1> DEFINE next == NextIteration(t)
           R == Reachable({t})
<1>1. /\ next \in Iteration /\ next > 1
      /\ \A m \in R : m \in Node /\ Exists(m, next - 1)
      /\ \A m \in R, j \in Iteration : j >= next => ns[m][j] = "absent"
      /\ \A m \in Node, j \in Iteration :
            ns'[m][j] = IF m \notin R THEN ns[m][j]
                        ELSE IF j = next THEN ReplayState(m, t)
                        ELSE IF ns[m][j] \in Stale THEN "terminated" ELSE ns[m][j]
    <2>1. Appended(t)
        BY DeepRejectAppends
    <2> QED
        BY <2>1 DEF Appended
<1>2. \A m : ReplayState(m, t) \in {"activated", "pending"}
    BY DEF ReplayState
<1>3. \A m \in R : ns[m][next] = "absent"
    BY <1>1 DEF Iteration
<1> HIDE DEF next, R
<1> QED
    BY <1>1, <1>2, <1>3 DEF Exists, Stale

LEMMA CommandKeepsRowInv ==
    ASSUME RowInv, Work \/ Tasks \/ Pause \/ Decide
    PROVE  IterationsAreClosed' /\ TodoIsPending' /\ ApprovalHasNode' /\ CompletedIsDecided'
<1>i. TypeOK /\ IterationsAreClosed /\ TodoIsPending /\ ApprovalHasNode /\ CompletedIsDecided
    BY DEF RowInv
<1>s. \A n, i, b : Routing(n, i, b).stage = "route"
    BY DEF Idle, Routing
<1>k. stray \subseteq stray'
    BY <1>i, StraysAreKept DEF Next
<1>1. ASSUME NEW n \in Node, NEW i \in Iteration, NEW t \in Node, DeepReject(n, i, t)
      PROVE  IterationsAreClosed' /\ TodoIsPending' /\ ApprovalHasNode' /\ CompletedIsDecided'
    <2>1. IterationsAreClosed'
        BY <1>i, <1>1, DeepRejectClosesIterations
    <2>2. tx.stage = "idle" /\ tx' = tx /\ approval' = approval
        BY <1>1 DEF DeepReject
    <2> QED
        BY <1>i, <1>k, <1>1, <2>1, <2>2, DeepRejectKeepsCompleted
        DEF TodoIsPending, ApprovalHasNode, CompletedIsDecided
<1>2. ASSUME \/ \E n \in Node, i \in Iteration : Complete(n, i) \/ Takeover(n, i)
             \/ Cancel
             \/ Pause \/ Decide
      PROVE  IterationsAreClosed' /\ TodoIsPending' /\ ApprovalHasNode' /\ CompletedIsDecided'
    <2>1. RowsKept
        BY <1>i, <1>2, CommandKeepsRows, PauseKeepsRows
    <2>2. tx'.stage # "scan"
        <3>1. ASSUME NEW n \in Node, NEW i \in Iteration, Complete(n, i) \/ ApprovalDecided(n, i)
              PROVE  tx' = Routing(n, i, FALSE)
            BY <3>1 DEF Complete, ApprovalDecided
        <3>2. CASE \E n \in Node, i \in Iteration : Complete(n, i) \/ ApprovalDecided(n, i)
            BY <1>s, <3>1, <3>2
        <3>3. CASE Cancel \/ \E n \in Node, i \in Iteration : Takeover(n, i)
            BY <3>3 DEF Cancel, Takeover
        <3>4. CASE Pause \/ \E n \in Node, i \in Iteration : ApprovalBlocked(n, i) \/ ApprovalVote(n, i)
            BY <3>4 DEF Pause, Suspend, Resume, ApprovalBlocked, ApprovalVote
        <3> QED
            BY <1>2, <3>2, <3>3, <3>4 DEF Decide
    <2>3. \A m \in Node, j \in Iteration : approval'[m][j] # approval[m][j] =>
            /\ Exists(m, j)
            /\ NodeType[m] = "approval"
            /\ approval'[m][j] = "open" => ns'[m][j] # "completed"
        <3>1. CASE approval' = approval
            BY <3>1
        <3>2. ASSUME NEW n \in Node, NEW i \in Iteration, ApprovalDecided(n, i)
              PROVE  \A m \in Node, j \in Iteration : approval'[m][j] # approval[m][j] =>
                        /\ Exists(m, j)
                        /\ NodeType[m] = "approval"
                        /\ approval'[m][j] = "open" => ns'[m][j] # "completed"
            <4>1. /\ approval[n][i] = "open"
                  /\ approval' = [approval EXCEPT ![n][i] = "closed"]
                BY <3>2 DEF ApprovalDecided
            <4>2. approval \in [Node -> [Iteration -> {"none", "open", "closed"}]]
                BY <1>i DEF TypeOK
            <4>3. Exists(n, i) /\ NodeType[n] = "approval"
                BY <1>i, <4>1 DEF ApprovalHasNode
            <4> QED
                BY <4>1, <4>2, <4>3
        <3>3. approval' = approval \/ \E n \in Node, i \in Iteration : ApprovalDecided(n, i)
            BY <1>2 DEF Complete, Takeover, Cancel, Pause, Suspend, Resume,
                        Decide, ApprovalBlocked, ApprovalVote
        <3> QED
            BY <3>1, <3>2, <3>3
    <2>4. \A m \in Node, j \in Iteration :
            ns'[m][j] = "completed" /\ ns[m][j] # "completed" =>
                \/ NodeType[m] # "approval"
                \/ approval'[m][j] # "open"
                \/ <<m, j>> \in stray'
        <3> DEFINE Decided ==
                \A m \in Node, j \in Iteration :
                    ns'[m][j] = "completed" /\ ns[m][j] # "completed" =>
                        \/ NodeType[m] # "approval"
                        \/ approval'[m][j] # "open"
                        \/ <<m, j>> \in stray'
        <3>1. ASSUME NEW n \in Node, NEW i \in Iteration, NEW s,
                     ns' = Moved({<<n, i>>}, s),
                     s = "completed" => NodeType[n] # "approval" \/ approval'[n][i] # "open"
              PROVE  Decided
            BY <3>1 DEF Moved
        <3>2. ASSUME NEW n \in Node, NEW i \in Iteration, Complete(n, i)
              PROVE  Decided
            BY <3>1, <3>2 DEF Complete
        <3>3. ASSUME NEW n \in Node, NEW i \in Iteration, Takeover(n, i)
              PROVE  Decided
            BY <3>1, <3>3 DEF Takeover
        <3>4. CASE Cancel
            BY <3>4 DEF Cancel
        <3>5. ASSUME NEW n \in Node, NEW i \in Iteration, Suspend(n, i)
              PROVE  Decided
            BY <3>1, <3>5 DEF Suspend
        <3>6. ASSUME NEW n \in Node, NEW i \in Iteration, Resume(n, i)
              PROVE  Decided
            <4>1. held[n][i] # "completed" /\ ns' = Moved({<<n, i>>}, held[n][i])
                BY <1>i, <3>6 DEF Resume, TypeOK, Operable
            <4> QED
                BY <3>1, <4>1
        <3>7. ASSUME NEW n \in Node, NEW i \in Iteration,
                     ApprovalBlocked(n, i) \/ ApprovalVote(n, i)
              PROVE  Decided
            BY <3>1, <3>7 DEF ApprovalBlocked, ApprovalVote
        <3>8. ASSUME NEW n \in Node, NEW i \in Iteration, ApprovalDecided(n, i)
              PROVE  Decided
            <4>1. approval'[n][i] # "open" /\ ns' = Moved({<<n, i>>}, "completed")
                BY <1>i, <3>8 DEF ApprovalDecided, TypeOK
            <4> QED
                BY <3>1, <4>1
        <3> QED
            BY <1>2, <3>2, <3>3, <3>4, <3>5, <3>6, <3>7, <3>8 DEF Pause, Decide
    <2> QED
        BY <1>i, <1>k, <2>1, <2>2, <2>3, <2>4, ApprovalsFollowRows, KeptRowsStayClosed
        DEF TodoIsPending
<1>3. ASSUME NEW n \in Node, NEW i \in Iteration, TaskWrote(n, i)
      PROVE  IterationsAreClosed' /\ TodoIsPending' /\ ApprovalHasNode' /\ CompletedIsDecided'
    <2>1. RowsKept
        BY <1>i, <1>3, TasksKeepRows
    <2>t. (tx' = tx /\ tx.stage = "idle") \/ tx' = Routing(n, i, FALSE)
        BY <1>3 DEF TaskWrote
    <2>s. tx'.stage # "scan"
        BY <1>s, <2>t
    <2>2. approval' = approval
        BY <1>3 DEF TaskWrote
    <2>3. \A m \in Node, j \in Iteration :
            ns'[m][j] = "completed" /\ ns[m][j] # "completed" =>
                NodeType[m] # "approval" \/ <<m, j>> \in stray'
        BY <1>3 DEF TaskWrote
    <2> QED
        BY <1>i, <1>k, <2>1, <2>s, <2>2, <2>3, ApprovalsFollowRows, KeptRowsStayClosed
        DEF TodoIsPending
<1> QED
    BY <1>i, <1>1, <1>2, <1>3, TasksWrite DEF Work

LEMMA TouchedIsKept ==
    ASSUME RowInv, [Next]_vars
    PROVE  \A n \in Node, i \in Iteration : Touched(n, i) => Touched(n, i)'
<1>i. TypeOK /\ IterationsAreClosed /\ TodoIsPending
    BY DEF RowInv
<1> DEFINE Kept == \A n \in Node, i \in Iteration : Touched(n, i) => Touched(n, i)'
<1>2. ASSUME NEW S, NEW s \in {"activated", "acknowledged", "completed", "suspended"},
             ns' = Moved(S, s)
      PROVE  Kept
    BY <1>2 DEF Moved, Touched
<1>3. CASE Engine
    <2>1. CASE RouteEnd \/ ScanRound \/ DrainDone \/ Settle
        BY <2>1 DEF RouteEnd, ScanRound, DrainDone, Settle, Touched
    <2>2. CASE RouteNone
        <3> DEFINE S == {<<m, tx.iter>> : m \in {k \in Node \ {tx.node} : ns[k][tx.iter] = "pending"}}
        <3>1. ns' = Moved(S, "skipped")
            BY <2>2 DEF RouteNone
        <3>2. \A n \in Node, i \in Iteration : <<n, i>> \in S => ~Touched(n, i)
            BY DEF Touched
        <3> HIDE DEF S
        <3> QED
            BY <3>1, <3>2 DEF Moved, Touched
    <2>3. CASE RouteTaken
        <3>1. PICK chosen, others : ns' = Moved(Lost(chosen, others, tx.iter) \X {tx.iter}, "skipped")
            BY <2>3 DEF RouteTaken
        <3> DEFINE S == Lost(chosen, others, tx.iter) \X {tx.iter}
        <3>2. \A n \in Node, i \in Iteration : <<n, i>> \in S => ~Touched(n, i)
            BY DEF Lost, Touched
        <3>3. ns' = Moved(S, "skipped")
            BY <3>1
        <3> HIDE DEF S
        <3> QED
            BY <3>2, <3>3 DEF Moved, Touched
    <2>4. CASE Scan
        <3>1. PICK m \in Node : /\ IsNext(m)
                                /\ ScanFail(m) \/ ScanSkip(m) \/ ScanActivate(m) \/ ScanWait(m)
            BY <2>4 DEF Scan
        <3>2. ns[m][tx.iter] = "pending"
            BY <1>i, <2>4, <3>1 DEF Scan, IsNext, TodoIsPending
        <3>3. CASE ScanFail(m) \/ ScanWait(m)
            BY <3>3 DEF ScanFail, ScanWait, Touched
        <3>4. CASE ScanSkip(m)
            BY <3>2, <3>4 DEF ScanSkip, Moved, Touched
        <3>5. CASE ScanActivate(m)
            BY <3>5 DEF ScanActivate, Touched
        <3> QED
            BY <3>1, <3>3, <3>4, <3>5
    <2>5. CASE DrainNotice
        <3>1. PICK n \in Node, i \in Iteration : ns' = Moved({<<n, i>>}, "completed")
            BY <2>5 DEF DrainNotice
        <3> QED
            BY <3>1 DEF Moved, Touched
    <2> QED
        BY <1>3, <2>1, <2>2, <2>3, <2>4, <2>5 DEF Engine
<1>4. ASSUME NEW n \in Node, NEW i \in Iteration,
             \/ Complete(n, i) \/ Takeover(n, i) \/ Suspend(n, i)
             \/ ApprovalBlocked(n, i) \/ ApprovalVote(n, i) \/ ApprovalDecided(n, i)
      PROVE  Kept
    <2>1. \/ ns' = Moved({<<n, i>>}, "completed")
          \/ ns' = Moved({<<n, i>>}, "activated")
          \/ ns' = Moved({<<n, i>>}, "acknowledged")
          \/ ns' = Moved({<<n, i>>}, "suspended")
        BY <1>4 DEF Complete, Takeover, Suspend, ApprovalBlocked, ApprovalVote, ApprovalDecided
    <2> HIDE DEF Kept
    <2> QED
        BY <1>2, <2>1
<1>5. ASSUME NEW n \in Node, NEW i \in Iteration, Resume(n, i)
      PROVE  Kept
    <2>1. ns' = Moved({<<n, i>>}, held[n][i]) /\ held[n][i] \in Operable
        BY <1>i, <1>5 DEF Resume, TypeOK
    <2> HIDE DEF Kept
    <2> QED
        BY <1>2, <2>1 DEF Operable
<1>6. CASE Cancel
    BY <1>6 DEF Cancel, Touched
<1>7. ASSUME NEW n \in Node, NEW i \in Iteration, NEW t \in Node, DeepReject(n, i, t)
      PROVE  Kept
    <2> DEFINE next == NextIteration(t)
               R == Reachable({t})
    <2>1. /\ next \in Iteration
          /\ \A m \in R, j \in Iteration : j >= next => ns[m][j] = "absent"
          /\ \A m \in Node, j \in Iteration :
                ns'[m][j] = IF m \notin R THEN ns[m][j]
                            ELSE IF j = next THEN ReplayState(m, t)
                            ELSE IF ns[m][j] \in Stale THEN "terminated" ELSE ns[m][j]
        <3>1. Appended(t)
            BY <1>i, <1>7, DeepRejectAppends
        <3> QED
            BY <3>1 DEF Appended
    <2> HIDE DEF next, R
    <2>2. \A m \in R : ns[m][next] = "absent"
        BY <2>1 DEF Iteration
    <2> QED
        BY <2>1, <2>2 DEF Touched, Stale
<1>8. ASSUME NEW n \in Node, NEW i \in Iteration, TaskWrote(n, i)
      PROVE  Kept
    BY <1>8 DEF TaskWrote, Touched
<1>9. CASE UNCHANGED vars
    BY <1>9 DEF vars, Touched
<1> QED
    BY <1>i, <1>3, <1>4, <1>5, <1>6, <1>7, <1>8, <1>9, TasksWrite DEF Next, Work, Pause, Decide

LEMMA StraysAreTouched ==
    ASSUME RowInv, [Next]_vars
    PROVE  StrayIsTouched'
<1>i. TypeOK /\ StrayIsTouched
    BY DEF RowInv
<1>1. ASSUME NEW n \in Node, NEW i \in Iteration, ApprovalBlocked(n, i)
      PROVE  stray' \in {stray, stray \cup {<<n, i>>}} /\ Touched(n, i)'
    BY <1>1, BlockedIsWritten DEF ApprovalBlocked, Moved, Touched
<1>2. ASSUME NEW n \in Node, NEW i \in Iteration, TaskWrote(n, i)
      PROVE  stray' \in {stray, stray \cup {<<n, i>>}} /\ Touched(n, i)'
    BY <1>2 DEF TaskWrote, Touched
<1>3. \/ stray' = stray
      \/ \E n \in Node, i \in Iteration : ApprovalBlocked(n, i) \/ TaskWrote(n, i)
    <2>1. CASE Tasks
        BY <1>i, <2>1, TasksWrite
    <2>2. CASE Engine
        BY <2>2 DEF Engine, RouteEnd, RouteNone, RouteTaken, Scan, ScanFail, ScanSkip,
                    ScanActivate, ScanWait, ScanRound, DrainNotice, DrainDone, Settle, turn
    <2>3. CASE Work \/ Pause \/ Decide \/ UNCHANGED vars
        BY <2>3 DEF Work, Pause, Decide, Complete, DeepReject, Takeover, Cancel, Suspend,
                    Resume, ApprovalVote, ApprovalDecided, turn, vars
    <2> QED
        BY <2>1, <2>2, <2>3 DEF Next
<1> QED
    BY <1>i, <1>1, <1>2, <1>3, TouchedIsKept DEF StrayIsTouched

\* The rows are always those of an append-only history with its approvals.
LEMMA RowsAreSound == Spec => []RowInv
<1>1. Init => /\ IterationsAreClosed /\ TodoIsPending /\ ApprovalHasNode /\ CompletedIsDecided
              /\ StrayIsTouched
    <2> SUFFICES ASSUME Init
                 PROVE  /\ IterationsAreClosed /\ TodoIsPending /\ ApprovalHasNode
                        /\ CompletedIsDecided /\ StrayIsTouched
        OBVIOUS
    <2>1. \A n \in Node, i \in Iteration :
            /\ ns[n][i] = IF i > 1 THEN "absent"
                          ELSE IF n \in StartNodes THEN "activated" ELSE "pending"
            /\ approval[n][i] # "none" => i = 1 /\ NodeType[n] = "approval"
        BY DEF Init
    <2>2. \A n \in Node, i \in Iteration : Exists(n, i) <=> i = 1
        BY <2>1 DEF Exists, Iteration
    <2>3. IterationsAreClosed
        <3>1. \A e \in Edge : e[1] \in Node /\ e[2] \in Node
            BY GraphAssumption
        <3> QED
            BY <2>2, <3>1, IterationAssumption DEF IterationsAreClosed, Iteration
    <2>4. tx.stage # "scan"
        BY DEF Init, Draining, Idle
    <2>5. \A n \in Node, i \in Iteration : ns[n][i] # "completed"
        BY <2>1
    <2>6. StrayIsTouched
        BY DEF Init, StrayIsTouched
    <2> QED
        BY <2>1, <2>2, <2>3, <2>4, <2>5, <2>6 DEF TodoIsPending, ApprovalHasNode, CompletedIsDecided
<1>2. RowInv /\ [Next]_vars =>
        IterationsAreClosed' /\ TodoIsPending' /\ ApprovalHasNode' /\ CompletedIsDecided'
    <2> SUFFICES ASSUME RowInv, [Next]_vars
                 PROVE  IterationsAreClosed' /\ TodoIsPending' /\ ApprovalHasNode' /\ CompletedIsDecided'
        OBVIOUS
    <2>1. CASE Engine
        BY <2>1, EngineKeepsRowInv, EngineKeepsRows, KeptRowsStayClosed DEF RowInv
    <2>2. CASE Work \/ Tasks \/ Pause \/ Decide
        BY <2>2, CommandKeepsRowInv
    <2>3. CASE UNCHANGED vars
        BY <2>3 DEF vars, turn, RowInv, IterationsAreClosed, TodoIsPending, ApprovalHasNode,
                    CompletedIsDecided, Exists
    <2> QED
        BY <2>1, <2>2, <2>3 DEF Next
<1>3. RowInv /\ [Next]_vars => StrayIsTouched'
    BY StraysAreTouched
<1> QED
    BY <1>1, <1>2, <1>3, TypeCorrect, PTL DEF Spec, RowInv

\* Deep reject appends whole chains: no gap in the iterations of a key, and
\* every successor of a replayed node is replayed with it.
THEOREM IterationsClosed == Spec => []IterationsAreClosed
    BY RowsAreSound, PTL DEF RowInv

-----------------------------------------------------------------------------
(* Decisions are kept *)

\* No command and no engine step takes back a completion, unless it is out of turn.
LEMMA CompletedIsKept ==
    ASSUME RowInv, [Next]_vars
    PROVE  CompletedKept
<1>i. TypeOK /\ IterationsAreClosed /\ TodoIsPending /\ ApprovalHasNode /\ CompletedIsDecided
    BY DEF RowInv
<1>1. CASE \E n, t \in Node, i \in Iteration : DeepReject(n, i, t)
    BY <1>i, <1>1, DeepRejectKeepsCompleted DEF CompletedKept
<1>2. CASE UNCHANGED vars
    BY <1>2 DEF vars, CompletedKept
<1>3. CASE Tasks
    BY <1>i, <1>3, TasksWrite, TasksKeepRows
<1> QED
    BY <1>i, <1>1, <1>2, <1>3, EngineKeepsRows, CommandKeepsRows, PauseKeepsRows DEF Next, Work

\* What the approval engine decided stays decided: the node never leaves
\* COMPLETED, whatever administrators, deep rejects or late actors do, where no
\* two decisions on one approval overlap (the bound of ApprovalBlocked) and no
\* command on its task writes it.
THEOREM DecisionsAreKept == Spec => []DecisionIsKept
<1>1. Init => DecisionIsKept
    BY DEF Init, DecisionIsKept
<1>2. RowInv /\ DecisionIsKept /\ [Next]_vars => DecisionIsKept'
    <2> SUFFICES ASSUME RowInv, DecisionIsKept, [Next]_vars
                 PROVE  DecisionIsKept'
        OBVIOUS
    <2>i. TypeOK /\ IterationsAreClosed /\ TodoIsPending /\ ApprovalHasNode /\ CompletedIsDecided
        BY DEF RowInv
    <2>1. CompletedKept /\ stray \subseteq stray'
        BY <2>i, CompletedIsKept, StraysAreKept
    <2>2. \A n \in Node, i \in Iteration :
            approval'[n][i] = "closed" => approval[n][i] = "closed" \/ ns'[n][i] = "completed"
        <3>a. approval \in [Node -> [Iteration -> {"none", "open", "closed"}]]
            BY <2>i DEF TypeOK
        <3>1. ASSUME NEW m \in Node, ScanActivate(m)
              PROVE  \A n \in Node, i \in Iteration :
                        approval'[n][i] = "closed" => approval[n][i] = "closed"
            <4>1. \/ approval' = approval
                  \/ approval' = [approval EXCEPT ![m][tx.iter] = "open"]
                BY <3>1, Zenon DEF ScanActivate
            <4> QED
                BY <3>a, <4>1
        <3>2. ASSUME NEW m \in Node, NEW j \in Iteration, ApprovalDecided(m, j)
              PROVE  \A n \in Node, i \in Iteration :
                        approval'[n][i] = "closed" => approval[n][i] = "closed" \/ ns'[n][i] = "completed"
            <4>1. /\ approval' = [approval EXCEPT ![m][j] = "closed"]
                  /\ ns'[m][j] = "completed"
                BY <3>2 DEF ApprovalDecided, Moved
            <4> QED
                BY <3>a, <4>1
        <3>3. \/ approval' = approval
              \/ \E m \in Node : ScanActivate(m)
              \/ \E m \in Node, j \in Iteration : ApprovalDecided(m, j)
            <4>1. CASE Engine
                BY <4>1 DEF Engine, RouteEnd, RouteNone, RouteTaken, Scan, ScanFail, ScanSkip,
                            ScanWait, ScanRound, DrainNotice, DrainDone, Settle
            <4>2. CASE Work \/ Pause \/ Decide \/ UNCHANGED vars
                BY <4>2 DEF Work, Pause, Decide, Complete, DeepReject, Takeover, Cancel,
                            Suspend, Resume, ApprovalBlocked, ApprovalVote, vars
            <4>3. CASE Tasks
                BY <2>i, <4>3, TasksWrite DEF TaskWrote
            <4> QED
                BY <4>1, <4>2, <4>3 DEF Next
        <3> QED
            BY <3>1, <3>2, <3>3
    <2> QED
        BY <2>1, <2>2 DEF DecisionIsKept, CompletedKept
<1> QED
    BY <1>1, <1>2, RowsAreSound, PTL DEF Spec
-----------------------------------------------------------------------------
(* Activations are earned *)

DependencyIsAnEdge == \A d \in dep : <<d[1], d[2]>> \in Edge
EarnedInv == RouteIsFresh /\ DependencyIsEarned /\ DependencyIsAnEdge

\* Recording the routes of (n, i) writes taken and not_taken over missing
\* evidence only.
LEMMA RecordedIsPointwise ==
    ASSUME NEW n, NEW i, NEW S
    PROVE  \A e \in Edge, j \in Iteration :
                Recorded(n, i, S)[e][j] =
                    IF e \in Out(n) /\ j = i /\ traversal[e][j] = "none"
                    THEN IF e \in S THEN "taken" ELSE "not_taken"
                    ELSE traversal[e][j]
    BY DEF Recorded

\* A transaction that opens with a route from a node it has just completed.
LEMMA OpenedRouteIsFresh ==
    ASSUME RowInv, EarnedInv, CompletedKept, stray \subseteq stray',
           NEW n \in Node, NEW i \in Iteration, NEW nested,
           ns[n][i] # "completed" \/ <<n, i>> \in stray', ns'[n][i] = "completed",
           tx' = Routing(n, i, nested), traversal' = traversal, dep' = dep
    PROVE  EarnedInv'
<1>1. tx'.node = n /\ tx'.iter = i
    BY DEF Routing, Idle
<1>2. ns'[n][i] = "completed"
    OBVIOUS
<1>3. <<n, i>> \in stray' \/ \A e \in Out(n) : traversal[e][i] = "none"
    BY DEF EarnedInv, RouteIsFresh, Out
<1>4. \A d \in dep : d[1] \in Node /\ d[3] \in Iteration
    BY DEF RowInv, TypeOK
<1>5. \A e \in Edge : e[1] \in Node
    BY GraphAssumption
<1>6. RouteIsFresh'
    BY <1>1, <1>2, <1>3, <1>5 DEF EarnedInv, RouteIsFresh, CompletedKept
<1>7. DependencyIsEarned'
    BY <1>4 DEF EarnedInv, DependencyIsEarned, CompletedKept
<1>8. DependencyIsAnEdge'
    BY DEF EarnedInv, DependencyIsAnEdge
<1> QED
    BY <1>6, <1>7, <1>8 DEF EarnedInv

LEMMA EarnedIsInductive ==
    ASSUME RowInv, EarnedInv, [Next]_vars
    PROVE  EarnedInv'
<1>i. /\ TypeOK /\ IterationsAreClosed /\ CompletedIsDecided
      /\ tx.node \in Node /\ tx.iter \in Iteration
    BY DEF RowInv, TypeOK, Transaction
<1>k. CompletedKept /\ stray \subseteq stray'
    BY <1>i, CompletedIsKept, StraysAreKept
<1>g. \A e \in Edge : e[1] \in Node /\ e[2] \in Node /\ e = <<e[1], e[2]>>
    BY GraphAssumption
<1>d. \A d \in dep : d[1] \in Node /\ d[2] \in Node /\ d[3] \in Iteration
    BY <1>i DEF TypeOK
<1>s. /\ Idle.stage = "idle" /\ Draining.stage = "drain" /\ Settling.stage = "settle"
      /\ \A i, S, k : Scanning(i, S, k).stage = "scan"
    BY DEF Idle, Draining, Settling, Scanning
\* Steps that touch neither evidence nor dependencies and open no route.
<1>q. ASSUME traversal' = traversal, dep' = dep, tx'.stage # "route"
      PROVE  EarnedInv'
    BY <1>k, <1>g, <1>d, <1>q
    DEF EarnedInv, RouteIsFresh, DependencyIsEarned, DependencyIsAnEdge, CompletedKept
\* Steps that record the routes of the node just completed.
<1>r. ASSUME tx.stage = "route", tx'.stage # "route",
             NEW S, traversal' = Recorded(tx.node, tx.iter, S),
             \A d \in dep' \ dep : /\ d[1] = tx.node /\ d[3] = tx.iter
                                   /\ <<d[1], d[2]>> \in S \cap Out(tx.node)
      PROVE  EarnedInv'
    <2>1. \A e \in Edge, j \in Iteration :
            traversal'[e][j] = IF e \in Out(tx.node) /\ j = tx.iter /\ traversal[e][j] = "none"
                               THEN IF e \in S THEN "taken" ELSE "not_taken"
                               ELSE traversal[e][j]
        BY <1>r, RecordedIsPointwise
    <2>2. \/ <<tx.node, tx.iter>> \in stray'
          \/ /\ ns'[tx.node][tx.iter] = "completed"
             /\ \A e \in Out(tx.node) : traversal[e][tx.iter] = "none"
        BY <1>i, <1>k, <1>r DEF EarnedInv, RouteIsFresh, CompletedKept
    <2>3. RouteIsFresh'
        BY <1>r, <1>k, <1>g, <2>1, <2>2 DEF EarnedInv, RouteIsFresh, CompletedKept, Out
    <2>4. ASSUME NEW d \in dep'
          PROVE  \/ ns'[d[1]][d[3]] = "completed" /\ traversal'[<<d[1], d[2]>>][d[3]] = "taken"
                 \/ <<d[1], d[3]>> \in stray'
        <3>1. CASE d \in dep
            <4>1. \/ <<d[1], d[3]>> \in stray'
                  \/ /\ ns[d[1]][d[3]] = "completed"
                     /\ traversal[<<d[1], d[2]>>][d[3]] = "taken"
                BY <1>k, <3>1 DEF EarnedInv, DependencyIsEarned
            <4>2. \/ <<d[1], d[3]>> \in stray'
                  \/ ns'[d[1]][d[3]] = "completed"
                BY <1>k, <1>d, <3>1, <4>1 DEF CompletedKept
            <4>3. <<d[1], d[2]>> \in Edge
                BY <3>1 DEF EarnedInv, DependencyIsAnEdge
            <4> QED
                BY <1>d, <2>1, <3>1, <4>1, <4>2, <4>3
        <3>2. CASE d \in dep' \ dep
            <4>1. /\ d[1] = tx.node /\ d[3] = tx.iter
                  /\ <<d[1], d[2]>> \in S /\ <<d[1], d[2]>> \in Out(tx.node)
                BY <1>r, <3>2
            <4>2. <<d[1], d[2]>> \in Edge
                BY <4>1 DEF Out
            <4> QED
                BY <1>i, <2>1, <2>2, <4>1, <4>2
        <3> QED
            BY <3>1, <3>2
    <2>5. DependencyIsAnEdge'
        BY <1>r DEF EarnedInv, DependencyIsAnEdge, Out
    <2> QED
        BY <2>3, <2>4, <2>5 DEF EarnedInv, DependencyIsEarned
<1>1. CASE Engine
    <2>1. CASE RouteEnd \/ Scan \/ ScanRound \/ DrainDone \/ Settle
        <3>1. traversal' = traversal /\ dep' = dep
            BY <2>1 DEF RouteEnd, Scan, ScanFail, ScanSkip, ScanActivate, ScanWait,
                        ScanRound, DrainDone, Settle
        <3>2. tx'.stage # "route"
            <4>1. CASE Scan
                <5>1. tx.stage = "scan" /\ \E m, b : Resolve(m, b)
                    BY <4>1 DEF Scan, ScanFail, ScanSkip, ScanActivate, ScanWait
                <5> QED
                    BY <1>i, <5>1 DEF Resolve, TypeOK, Transaction
            <4>2. CASE RouteEnd \/ ScanRound \/ DrainDone \/ Settle
                <5>1. \/ tx' \in {Draining, Settling, Idle}
                      \/ \E i, S, k : tx' = Scanning(i, S, k)
                    BY <4>2 DEF RouteEnd, ScanRound, DrainDone, Settle
                <5> QED
                    BY <1>s, <5>1
            <4> QED
                BY <2>1, <4>1, <4>2
        <3> QED
            BY <1>q, <3>1, <3>2
    <2>2. CASE RouteNone
        <3>1. tx.stage = "route" /\ tx'.stage # "route" /\ dep' = dep
            BY <1>s, <2>2 DEF RouteNone
        <3>2. traversal' = Recorded(tx.node, tx.iter, {})
            BY <2>2 DEF RouteNone
        <3> QED
            BY <1>r, <3>1, <3>2
    <2>3. CASE RouteTaken
        <3>1. tx.stage = "route" /\ tx'.stage # "route"
            BY <1>s, <2>3 DEF RouteTaken
        <3>2. PICK tests \in SUBSET Conditional(tx.node) :
                /\ traversal' = Recorded(tx.node, tx.iter, Selected(tx.node, tests))
                /\ dep' = dep \cup
                        {<<tx.node, m, tx.iter>> :
                            m \in {k \in {e[2] : e \in Selected(tx.node, tests)} :
                                        ns[k][tx.iter] = "pending"}}
            BY <2>3 DEF RouteTaken
        <3>3. Selected(tx.node, tests) \subseteq Out(tx.node)
            BY DEF Selected, First, Conditional
        <3>4. \A e \in Selected(tx.node, tests) : e = <<tx.node, e[2]>>
            BY <1>g, <3>3 DEF Out
        <3>5. \A d \in dep' \ dep :
                /\ d[1] = tx.node /\ d[3] = tx.iter
                /\ <<d[1], d[2]>> \in Selected(tx.node, tests) \cap Out(tx.node)
            BY <3>2, <3>3, <3>4
        <3> QED
            BY <1>r, <3>1, <3>2, <3>5
    <2>4. CASE DrainNotice
        <3>1. PICK n \in Node, i \in Iteration :
                /\ ns[n][i] = "activated"
                /\ ns' = Moved({<<n, i>>}, "completed")
                /\ tx' = Routing(n, i, TRUE)
            BY <2>4 DEF DrainNotice
        <3>2. traversal' = traversal /\ dep' = dep
            BY <2>4 DEF DrainNotice
        <3> QED
            BY <1>k, <3>1, <3>2, OpenedRouteIsFresh DEF Moved
    <2> QED
        BY <1>1, <2>1, <2>2, <2>3, <2>4 DEF Engine
<1>2. CASE Work
    <2>1. ASSUME NEW n \in Node, NEW i \in Iteration, Complete(n, i)
          PROVE  EarnedInv'
        <3>1. /\ ns[n][i] # "completed" /\ ns' = Moved({<<n, i>>}, "completed")
              /\ tx' = Routing(n, i, FALSE) /\ traversal' = traversal /\ dep' = dep
            BY <2>1 DEF Complete
        <3> QED
            BY <1>k, <3>1, OpenedRouteIsFresh DEF Moved
    <2>2. ASSUME NEW n \in Node, NEW i \in Iteration, NEW t \in Node, DeepReject(n, i, t)
          PROVE  EarnedInv'
        <3> DEFINE next == NextIteration(t)
                   R == Reachable({t})
        <3>1. /\ tx'.stage # "route"
              /\ \A e \in Edge, j \in Iteration :
                    traversal'[e][j] = IF e[1] \in R /\ j < next /\ traversal[e][j] # "none"
                                       THEN "invalidated" ELSE traversal[e][j]
              /\ dep' = {d \in dep : d[3] >= next \/ (d[1] \notin R /\ d[2] \notin R)}
            BY <2>2 DEF DeepReject, ValidAfterReplay
        <3>2. next \in Nat
            <4>1. next \in Iteration
                BY <1>i, <2>2, DeepRejectAppends DEF Appended
            <4> QED
                BY <4>1 DEF Iteration
        <3> HIDE DEF next, R
        <3>3. RouteIsFresh'
            BY <1>k, <1>g, <3>1 DEF EarnedInv, RouteIsFresh, CompletedKept
        <3>4. ASSUME NEW d \in dep'
              PROVE  \/ ns'[d[1]][d[3]] = "completed" /\ traversal'[<<d[1], d[2]>>][d[3]] = "taken"
                 \/ <<d[1], d[3]>> \in stray'
            <4>1. d \in dep /\ (d[3] >= next \/ d[1] \notin R)
                BY <3>1
            <4>2. \/ ns[d[1]][d[3]] = "completed" /\ traversal[<<d[1], d[2]>>][d[3]] = "taken"
                  \/ <<d[1], d[3]>> \in stray'
                BY <1>k, <4>1 DEF EarnedInv, DependencyIsEarned
            <4>3. <<d[1], d[2]>> \in Edge
                BY <4>1 DEF EarnedInv, DependencyIsAnEdge
            <4>4. ~(d[1] \in R /\ d[3] < next)
                BY <1>d, <3>2, <4>1 DEF Iteration
            <4> QED
                BY <1>k, <1>d, <3>1, <4>1, <4>2, <4>3, <4>4 DEF CompletedKept
        <3>5. DependencyIsAnEdge'
            BY <3>1 DEF EarnedInv, DependencyIsAnEdge
        <3> QED
            BY <3>3, <3>4, <3>5 DEF EarnedInv, DependencyIsEarned
    <2>3. CASE \/ \E n \in Node, i \in Iteration : Takeover(n, i)
               \/ Cancel
        BY <1>q, <2>3 DEF Takeover, Cancel
    <2> QED
        BY <1>2, <2>1, <2>2, <2>3 DEF Work
<1>3. CASE Pause \/ Decide
    <2>1. ASSUME NEW n \in Node, NEW i \in Iteration, ApprovalDecided(n, i)
          PROVE  EarnedInv'
        <3>1. ns[n][i] # "completed"
            BY <1>i, <2>1 DEF ApprovalDecided
        <3> QED
            BY <1>k, <2>1, <3>1, OpenedRouteIsFresh DEF ApprovalDecided, Moved
    <2>2. CASE \/ Pause
               \/ \E n \in Node, i \in Iteration : ApprovalBlocked(n, i) \/ ApprovalVote(n, i)
        BY <1>q, <2>2 DEF Pause, Suspend, Resume, ApprovalBlocked, ApprovalVote
    <2> QED
        BY <1>3, <2>1, <2>2 DEF Decide
<1>4. CASE UNCHANGED vars
    BY <1>4 DEF vars, turn, EarnedInv, RouteIsFresh, DependencyIsEarned, DependencyIsAnEdge
<1>5. CASE Tasks
    <2>1. PICK n \in Node, i \in Iteration : TaskWrote(n, i)
        BY <1>i, <1>5, TasksWrite
    <2>2. traversal' = traversal /\ dep' = dep
        BY <2>1 DEF TaskWrote
    <2>3. CASE tx' = tx /\ tx.stage = "idle"
        BY <1>q, <2>2, <2>3
    <2>4. CASE tx' = Routing(n, i, FALSE) /\ ns'[n][i] = "completed"
        <3>1. ns[n][i] # "completed" \/ <<n, i>> \in stray'
            BY <2>1 DEF TaskWrote, Operable
        <3> QED
            BY <1>k, <2>2, <2>4, <3>1, OpenedRouteIsFresh
    <2> QED
        BY <2>1, <2>3, <2>4 DEF TaskWrote
<1> QED
    BY <1>1, <1>2, <1>3, <1>4, <1>5 DEF Next

LEMMA EarnedIsInitial == Init => EarnedInv
<1> SUFFICES ASSUME Init
             PROVE  EarnedInv
    OBVIOUS
<1>1. tx.stage # "route" /\ dep = {}
    BY DEF Init, Draining, Idle
<1>2. \A e \in Edge, i \in Iteration : traversal[e][i] = "none"
    BY DEF Init
<1> QED
    BY <1>1, <1>2 DEF EarnedInv, RouteIsFresh, DependencyIsEarned, DependencyIsAnEdge

\* A node is only ever activated on the strength of a source that completed and
\* of a route that was taken and not invalidated since, unless that source was written
\* out of turn.
THEOREM DependenciesAreEarned == Spec => []DependencyIsEarned
<1>1. Init => EarnedInv
    BY EarnedIsInitial
<1>2. RowInv /\ EarnedInv /\ [Next]_vars => EarnedInv'
    BY EarnedIsInductive
<1>3. EarnedInv => DependencyIsEarned
    BY DEF EarnedInv
<1> QED
    BY <1>1, <1>2, <1>3, RowsAreSound, PTL DEF Spec

-----------------------------------------------------------------------------
(* What has begun *)

\* A node instance somebody has had in hand, on a decided route or an approval.
Begun(n, i) == ns[n][i] \in Started \/ approval[n][i] # "none"

\* An approval instance is created when its node starts ...
ApprovalHasStarted ==
    \A n \in Node, i \in Iteration :
        approval[n][i] # "none" => ns[n][i] \notin {"pending", "skipped"}

\* ... from pending, never for a node that was dropped.
ApprovalsKept ==
    \A n \in Node, i \in Iteration :
        approval[n][i] = "none" /\ ns[n][i] # "pending" => approval'[n][i] = "none"

LEMMA BegunIsReached ==
    ASSUME RowInv, ApprovalHasStarted,
           NEW n \in Node, NEW i \in Iteration, Begun(n, i)
    PROVE  ns[n][i] \notin {"absent", "pending", "skipped"}
    BY DEF Begun, Started, Operable, RowInv, ApprovalHasNode, ApprovalHasStarted, Exists

LEMMA ApprovalsAreStarted ==
    ASSUME RowInv, ApprovalHasStarted, [Next]_vars
    PROVE  ApprovalHasStarted' /\ ApprovalsKept
<1>i. TypeOK /\ TodoIsPending /\ ApprovalHasNode /\ IterationsAreClosed
    BY DEF RowInv
<1>a. ASSUME approval' = approval,
             \A n \in Node, i \in Iteration :
                ns'[n][i] \in {"pending", "skipped"} => ns[n][i] \in {"absent", "pending", "skipped"}
      PROVE  ApprovalHasStarted' /\ ApprovalsKept
    BY <1>i, <1>a DEF ApprovalHasStarted, ApprovalsKept, ApprovalHasNode, Exists
<1>1. CASE Engine
    <2>1. CASE RouteEnd \/ RouteNone \/ RouteTaken
        <3>1. approval' = approval
            BY <2>1 DEF RouteEnd, RouteNone, RouteTaken
        <3>2. ASSUME NEW S, ns' = Moved(S, "skipped"),
                     \A n \in Node, i \in Iteration : <<n, i>> \in S => ns[n][i] = "pending"
              PROVE  \A n \in Node, i \in Iteration :
                        ns'[n][i] \in {"pending", "skipped"} => ns[n][i] \in {"pending", "skipped"}
            BY <3>2 DEF Moved
        <3>3. \A n \in Node, i \in Iteration :
                ns'[n][i] \in {"pending", "skipped"} => ns[n][i] \in {"pending", "skipped"}
            <4>1. CASE RouteEnd
                BY <4>1 DEF RouteEnd
            <4>2. CASE RouteNone
                <5> DEFINE S == {<<m, tx.iter>> :
                                    m \in {k \in Node \ {tx.node} : ns[k][tx.iter] = "pending"}}
                <5>1. ns' = Moved(S, "skipped")
                    BY <4>2 DEF RouteNone
                <5>2. \A n \in Node, i \in Iteration : <<n, i>> \in S => ns[n][i] = "pending"
                    OBVIOUS
                <5> HIDE DEF S
                <5> QED
                    BY <3>2, <5>1, <5>2
            <4>3. CASE RouteTaken
                <5>1. PICK chosen, others :
                        ns' = Moved(Lost(chosen, others, tx.iter) \X {tx.iter}, "skipped")
                    BY <4>3 DEF RouteTaken
                <5> DEFINE S == Lost(chosen, others, tx.iter) \X {tx.iter}
                <5>2. \A n \in Node, i \in Iteration : <<n, i>> \in S => ns[n][i] = "pending"
                    BY DEF Lost
                <5>3. ns' = Moved(S, "skipped")
                    BY <5>1
                <5> HIDE DEF S
                <5> QED
                    BY <3>2, <5>2, <5>3
            <4> QED
                BY <2>1, <4>1, <4>2, <4>3
        <3> QED
            BY <1>a, <3>1, <3>3
    <2>2. CASE Scan
        <3>1. PICK m \in Node : /\ IsNext(m)
                                /\ ScanFail(m) \/ ScanSkip(m) \/ ScanActivate(m) \/ ScanWait(m)
            BY <2>2 DEF Scan
        <3>2. ns[m][tx.iter] = "pending" /\ tx.iter \in Iteration
            BY <1>i, <2>2, <3>1 DEF Scan, IsNext, TodoIsPending, TypeOK, Transaction
        <3>3. CASE ScanFail(m) \/ ScanWait(m)
            BY <1>a, <3>3 DEF ScanFail, ScanWait
        <3>4. CASE ScanSkip(m)
            BY <1>a, <3>2, <3>4 DEF ScanSkip, Moved
        <3>5. CASE ScanActivate(m)
            <4>1. \A n \in Node, i \in Iteration :
                    ns'[n][i] = IF i # tx.iter THEN ns[n][i]
                                ELSE IF n = m THEN "activated"
                                ELSE IF n \in Peers(m, i) THEN "terminated" ELSE ns[n][i]
                BY <3>5 DEF ScanActivate
            <4>2. \A n \in Node, i \in Iteration :
                    approval'[n][i] = approval[n][i] \/ (n = m /\ i = tx.iter)
                BY <1>i, <3>5 DEF ScanActivate, TypeOK
            <4>3. ApprovalHasStarted'
                BY <4>1, <4>2 DEF ApprovalHasStarted
            <4>4. ApprovalsKept
                BY <3>2, <4>2 DEF ApprovalsKept
            <4> QED
                BY <4>3, <4>4
        <3> QED
            BY <3>1, <3>3, <3>4, <3>5
    <2>3. CASE ScanRound \/ DrainNotice \/ DrainDone \/ Settle
        <3>1. approval' = approval /\ (ns' = ns \/ \E S : ns' = Moved(S, "completed"))
            BY <2>3 DEF ScanRound, DrainNotice, DrainDone, Settle
        <3>2. \A n \in Node, i \in Iteration :
                ns'[n][i] \in {"pending", "skipped"} => ns[n][i] \in {"pending", "skipped"}
            BY <3>1 DEF Moved
        <3> QED
            BY <1>a, <3>1, <3>2
    <2> QED
        BY <1>1, <2>1, <2>2, <2>3 DEF Engine
<1>2. ASSUME NEW n \in Node, NEW i \in Iteration,
             \/ Complete(n, i) \/ Takeover(n, i) \/ Suspend(n, i) \/ Resume(n, i)
             \/ ApprovalBlocked(n, i) \/ ApprovalVote(n, i)
      PROVE  ApprovalHasStarted' /\ ApprovalsKept
    <2>1. PICK s \in {"completed", "suspended", "activated", "acknowledged"} :
            approval' = approval /\ ns' = Moved({<<n, i>>}, s)
        <3>1. CASE Resume(n, i)
            <4>1. held[n][i] \in {"activated", "acknowledged"}
                BY <1>i, <3>1 DEF Resume, TypeOK, Operable
            <4> QED
                BY <3>1, <4>1 DEF Resume
        <3>2. CASE ~Resume(n, i)
            BY <1>2, <3>2 DEF Complete, Takeover, Suspend, ApprovalBlocked, ApprovalVote
        <3> QED
            BY <3>1, <3>2
    <2>2. \A m \in Node, j \in Iteration :
            ns'[m][j] \in {"pending", "skipped"} => ns[m][j] \in {"pending", "skipped"}
        BY <2>1 DEF Moved
    <2> QED
        BY <1>a, <2>1, <2>2
<1>3. ASSUME NEW n \in Node, NEW i \in Iteration, ApprovalDecided(n, i)
      PROVE  ApprovalHasStarted' /\ ApprovalsKept
    <2>1. /\ approval[n][i] = "open" /\ approval' = [approval EXCEPT ![n][i] = "closed"]
          /\ ns' = Moved({<<n, i>>}, "completed")
        BY <1>3 DEF ApprovalDecided
    <2>2. \A m \in Node, j \in Iteration :
            /\ approval'[m][j] = approval[m][j] \/ (m = n /\ j = i)
            /\ ns'[m][j] = IF m = n /\ j = i THEN "completed" ELSE ns[m][j]
        BY <1>i, <2>1 DEF Moved, TypeOK
    <2> QED
        BY <2>1, <2>2 DEF ApprovalHasStarted, ApprovalsKept
<1>4. ASSUME NEW n \in Node, NEW i \in Iteration, NEW t \in Node, DeepReject(n, i, t)
      PROVE  ApprovalHasStarted' /\ ApprovalsKept
    <2> DEFINE next == NextIteration(t)
               R == Reachable({t})
    <2>1. /\ \A m \in R, j \in Iteration : j >= next => ns[m][j] = "absent"
          /\ next \in Iteration
          /\ \A m \in Node, j \in Iteration :
                ns'[m][j] = IF m \notin R THEN ns[m][j]
                            ELSE IF j = next THEN ReplayState(m, t)
                            ELSE IF ns[m][j] \in Stale THEN "terminated" ELSE ns[m][j]
        <3>1. Appended(t)
            BY <1>i, <1>4, DeepRejectAppends
        <3> QED
            BY <3>1 DEF Appended
    <2>2. approval' = approval
        BY <1>4 DEF DeepReject
    <2> HIDE DEF next, R
    <2>3. \A m \in R : ns[m][next] = "absent"
        BY <2>1 DEF Iteration
    <2> QED
        BY <1>a, <2>1, <2>2, <2>3 DEF Stale
<1>5. CASE Cancel
    BY <1>a, <1>5 DEF Cancel
<1>6. CASE UNCHANGED vars
    BY <1>a, <1>6 DEF vars
<1>7. ASSUME NEW n \in Node, NEW i \in Iteration, TaskWrote(n, i)
      PROVE  ApprovalHasStarted' /\ ApprovalsKept
    BY <1>a, <1>7 DEF TaskWrote
<1>8. CASE Tasks
    BY <1>i, <1>7, <1>8, TasksWrite
<1> QED
    BY <1>1, <1>2, <1>3, <1>4, <1>5, <1>6, <1>8 DEF Next, Work, Pause, Decide

LEMMA ApprovalsStartInitially ==
    ASSUME Init
    PROVE  ApprovalHasStarted
    BY DEF Init, ApprovalHasStarted

-----------------------------------------------------------------------------
(* One live iteration per key *)

LEMMA CoreRowsAreSound == CoreSpec => []RowInv
<1>1. [CoreNext]_vars => [Next]_vars
    BY DEF CoreNext, Next
<1> QED
    BY <1>1, RowsAreSound, PTL DEF CoreSpec, Spec

LEMMA DeepRejectKeepsNewest ==
    ASSUME RowInv, OnlyNewestIsLive,
           NEW n \in Node, NEW i \in Iteration, NEW t \in Node, DeepReject(n, i, t)
    PROVE  OnlyNewestIsLive'
<1> DEFINE next == NextIteration(t)
           R == Reachable({t})
<1>1. /\ next \in Iteration /\ next > 1
      /\ \A m \in R : m \in Node /\ Exists(m, next - 1)
      /\ \A m \in R, j \in Iteration : j >= next => ns[m][j] = "absent"
      /\ \A m \in Node, j \in Iteration :
            ns'[m][j] = IF m \notin R THEN ns[m][j]
                        ELSE IF j = next THEN ReplayState(m, t)
                        ELSE IF ns[m][j] \in Stale THEN "terminated" ELSE ns[m][j]
    <2>1. Appended(t)
        BY DeepRejectAppends DEF RowInv
    <2> QED
        BY <2>1 DEF Appended
<1> HIDE DEF next, R
<1> SUFFICES ASSUME NEW m \in Node, NEW j \in Iteration, ns'[m][j] \in Live,
                    NEW k \in Iteration, k > j, ns'[m][k] # "absent", <<m, j>> \notin stray'
             PROVE  FALSE
    BY DEF OnlyNewestIsLive, IsStale, Exists
<1>2. CASE m \notin R
    <2>1. ns[m][j] \in Live /\ ns[m][k] # "absent" /\ <<m, j>> \notin stray
        BY <1>1, <1>2 DEF DeepReject, turn
    <2> QED
        BY <2>1 DEF OnlyNewestIsLive, IsStale, Exists
<1>3. CASE m \in R
    <2>1. j = next
        BY <1>1, <1>3 DEF Live, Operable, Stale
    <2>2. k # next /\ k >= next
        BY <1>1, <2>1 DEF Iteration
    <2>3. ns[m][k] = "absent"
        BY <1>1, <1>3, <2>2
    <2>4. ns'[m][k] = "absent"
        BY <1>1, <1>3, <2>2, <2>3 DEF Stale
    <2> QED
        BY <2>4
<1> QED
    BY <1>2, <1>3

\* What keeps the rows and makes none of the old ones live keeps it as well.
LEMMA NewestIsKept ==
    ASSUME OnlyNewestIsLive, RowsKept, stray \subseteq stray',
           \A n \in Node, i \in Iteration :
                ns'[n][i] \in Live =>
                    ns[n][i] \in Live \/ ~IsStale(n, i) \/ <<n, i>> \in stray'
    PROVE  OnlyNewestIsLive'
    BY DEF RowsKept, OnlyNewestIsLive, IsStale, Exists

LEMMA NewestInitially ==
    ASSUME Init
    PROVE  OnlyNewestIsLive
<1>1. \A n \in Node, i \in Iteration : i > 1 => ns[n][i] = "absent"
    BY DEF Init
<1> QED
    BY <1>1, IterationAssumption DEF OnlyNewestIsLive, IsStale, Exists, Iteration

\* Without an administrator's pause (whose resume ignores the iteration), what
\* can be worked on or activated is always the newest iteration of its key, unless a
\* task command wrote it out of turn.
THEOREM NewestIsTheLiveOne == CoreSpec => []OnlyNewestIsLive
<1>1. RowInv /\ OnlyNewestIsLive /\ [CoreNext]_vars => OnlyNewestIsLive'
    <2> SUFFICES ASSUME RowInv, OnlyNewestIsLive, [CoreNext]_vars
                 PROVE  OnlyNewestIsLive'
        OBVIOUS
    <2>i. TypeOK /\ TodoIsPending
        BY DEF RowInv
    <2>k. stray \subseteq stray'
        BY <2>i, StraysAreKept DEF CoreNext, Next
    <2>1. ASSUME NEW n \in Node, NEW i \in Iteration, NEW t \in Node, DeepReject(n, i, t)
          PROVE  OnlyNewestIsLive'
        BY <2>1, DeepRejectKeepsNewest
    <2>2. ASSUME RowsKept, NoNewLive
          PROVE  OnlyNewestIsLive'
        BY <2>k, <2>2, NewestIsKept DEF NoNewLive
    <2>3. CASE UNCHANGED vars
        BY <2>3 DEF vars, turn, OnlyNewestIsLive, IsStale, Exists
    <2>4. CASE Tasks
        BY <2>i, <2>2, <2>4, TasksWrite, TasksKeepRows
    <2> QED
        BY <2>i, <2>1, <2>2, <2>3, <2>4, EngineKeepsRows, CommandKeepsRows DEF CoreNext, Work
<1> QED
    BY <1>1, NewestInitially, CoreRowsAreSound, PTL DEF CoreSpec

\* A paused or refused node of an older iteration is resumed, or voted on.
Returns(n) ==
    \E i \in Iteration : /\ ns[n][i] = "suspended" /\ IsStale(n, i)
                         /\ Resume(n, i) \/ ApprovalVote(n, i)

\* With pauses and managed approvals nothing else breaks it: as long as no
\* paused node of an older iteration is resumed or voted on, only the newest
\* iteration of a key is live, and what a task command wrote out of turn.
THEOREM NewestUnlessReturned ==
    Spec /\ [][\A n \in Node : ~Returns(n)]_vars => []OnlyNewestIsLive
<1> DEFINE NoReturn == \A n \in Node : ~Returns(n)
<1>1. RowInv /\ ApprovalHasStarted /\ OnlyNewestIsLive /\ [Next]_vars /\ [NoReturn]_vars
        => OnlyNewestIsLive'
    <2> SUFFICES ASSUME RowInv, ApprovalHasStarted, OnlyNewestIsLive, [Next]_vars,
                        [NoReturn]_vars
                 PROVE  OnlyNewestIsLive'
        OBVIOUS
    <2>i. TypeOK /\ TodoIsPending /\ ApprovalHasNode
        BY DEF RowInv
    <2>k. stray \subseteq stray'
        BY <2>i, StraysAreKept
    <2>1. ASSUME NEW n \in Node, NEW i \in Iteration, NEW t \in Node, DeepReject(n, i, t)
          PROVE  OnlyNewestIsLive'
        BY <2>1, DeepRejectKeepsNewest
    <2>2. ASSUME RowsKept, NoNewLive
          PROVE  OnlyNewestIsLive'
        BY <2>k, <2>2, NewestIsKept DEF NoNewLive
    <2>3. CASE UNCHANGED vars
        BY <2>3 DEF vars, turn, OnlyNewestIsLive, IsStale, Exists
    <2>4. ASSUME NEW n \in Node, NEW i \in Iteration, NoReturn,
                 \/ Suspend(n, i) \/ Resume(n, i)
                 \/ ApprovalBlocked(n, i) \/ ApprovalVote(n, i) \/ ApprovalDecided(n, i)
          PROVE  OnlyNewestIsLive'
        <3>1. RowsKept
            BY <2>i, <2>4, PauseKeepsRows DEF Pause, Decide
        <3>2. PICK s : ns' = Moved({<<n, i>>}, s)
            BY <2>4 DEF Suspend, Resume, ApprovalBlocked, ApprovalVote, ApprovalDecided
        <3>3. \A m \in Node, j \in Iteration :
                ns'[m][j] = IF m = n /\ j = i THEN s ELSE ns[m][j]
            BY <3>2 DEF Moved
        <3>4. CASE Suspend(n, i) \/ ApprovalBlocked(n, i) \/ ApprovalDecided(n, i)
            <4>1. ns'[n][i] \in {"suspended", "completed"}
                BY <3>4 DEF Suspend, ApprovalBlocked, ApprovalDecided, Moved
            <4> QED
                BY <2>k, <3>1, <3>3, <4>1, NewestIsKept DEF Live, Operable
        <3>5. CASE Resume(n, i)
            <4>1. ~IsStale(n, i)
                BY <2>4, <3>5 DEF Returns, Resume
            <4> QED
                BY <2>k, <3>1, <3>3, <4>1, NewestIsKept
        <3>6. CASE ApprovalVote(n, i)
            <4>1. approval[n][i] = "open" /\ ns[n][i] \notin {"completed", "terminated"}
                BY <3>6 DEF ApprovalVote
            <4>2. ns[n][i] \in {"activated", "acknowledged", "suspended"}
                <5>1. ns[n][i] \notin {"absent", "pending", "skipped"}
                    BY <4>1, BegunIsReached DEF Begun
                <5>2. ns[n][i] \in EngineState
                    BY <2>i DEF TypeOK
                <5> QED
                    BY <4>1, <5>1, <5>2 DEF EngineState
            <4>3. ns[n][i] \in Live \/ ~IsStale(n, i)
                BY <2>4, <3>6, <4>2 DEF Returns, Live, Operable
            <4> QED
                BY <2>k, <3>1, <3>3, <4>3, NewestIsKept
        <3> QED
            BY <2>4, <3>4, <3>5, <3>6
    <2>5. CASE Engine \/ Work
        BY <2>i, <2>1, <2>2, <2>5, EngineKeepsRows, CommandKeepsRows DEF Work
    <2>7. CASE Tasks
        BY <2>i, <2>2, <2>7, TasksWrite, TasksKeepRows
    <2>6. CASE (Pause \/ Decide) /\ NoReturn
        BY <2>4, <2>6 DEF Pause, Decide
    <2> QED
        BY <2>3, <2>5, <2>6, <2>7 DEF Next
<1>2. RowInv /\ ApprovalHasStarted /\ [Next]_vars => ApprovalHasStarted'
    BY ApprovalsAreStarted
<1> QED
    BY <1>1, <1>2, NewestInitially, ApprovalsStartInitially, RowsAreSound, PTL DEF Spec

-----------------------------------------------------------------------------
(* How a run ends *)

\* What can still be worked on, activated or resumed.
Unsettled == Live \cup {"suspended"}

\* A run that was cancelled has no more to do than a completed one.
CancelledIsClosed ==
    run = "cancelled" =>
        \A n \in Node, i \in Iteration : ns[n][i] \in Unsettled => <<n, i>> \in stray
EndInv == OpenRun /\ CompletedRunIsClosed /\ CancelledIsClosed

\* Only a deep reject opens rows, and it needs an active run.
NoNewUnsettled ==
    \A n \in Node, i \in Iteration :
        ns'[n][i] \in Unsettled => ns[n][i] \in Unsettled \/ <<n, i>> \in stray'

\* A decision that is not out of turn is taken or refused while its node is open.
LEMMA DecisionIsInTime ==
    ASSUME RowInv, ApprovalHasStarted, NEW n \in Node, NEW i \in Iteration,
           ApprovalBlocked(n, i) \/ ApprovalVote(n, i) \/ ApprovalDecided(n, i)
    PROVE  ns[n][i] \in Unsettled \/ <<n, i>> \in stray'
<1>1. approval[n][i] = "open"
    BY DEF ApprovalBlocked, ApprovalVote, ApprovalDecided
<1>2. ns[n][i] \notin {"absent", "pending", "skipped"}
    BY <1>1, BegunIsReached DEF Begun
<1>3. ns[n][i] \notin {"completed", "terminated"} \/ <<n, i>> \in stray'
    BY BlockedIsWritten DEF ApprovalVote, ApprovalDecided, Done
<1>4. ns[n][i] \in EngineState
    BY DEF RowInv, TypeOK
<1> QED
    BY <1>2, <1>3, <1>4 DEF Unsettled, Live, Operable, EngineState

LEMMA EngineOpensNothing ==
    ASSUME RowInv, Engine
    PROVE  NoNewUnsettled
<1>1. NoNewLive
    BY EngineKeepsRows DEF RowInv
<1>2. \A n \in Node, i \in Iteration : ns'[n][i] = "suspended" => ns[n][i] = "suspended"
    <2>1. \/ ns' = ns
          \/ \E S, s : s # "suspended" /\ ns' = Moved(S, s)
          \/ \E m \in Node : ScanActivate(m)
        BY DEF Engine, RouteEnd, RouteNone, RouteTaken, Scan, ScanFail, ScanSkip, ScanWait,
               ScanRound, DrainNotice, DrainDone, Settle
    <2>2. CASE ns' = ns
        BY <2>2
    <2>3. ASSUME NEW S, NEW s, s # "suspended", ns' = Moved(S, s)
          PROVE  \A n \in Node, i \in Iteration : ns'[n][i] = "suspended" => ns[n][i] = "suspended"
        BY <2>3 DEF Moved
    <2>4. ASSUME NEW m \in Node, ScanActivate(m)
          PROVE  \A n \in Node, i \in Iteration : ns'[n][i] = "suspended" => ns[n][i] = "suspended"
        BY <2>4 DEF ScanActivate
    <2> QED
        BY <2>1, <2>2, <2>3, <2>4
<1> QED
    BY <1>1, <1>2 DEF NoNewLive, NoNewUnsettled, Unsettled

\* A run that has ended and stays ended keeps what closed it.
LEMMA EndIsKept ==
    ASSUME RowInv, EndInv, NoNewUnsettled, CompletedKept, stray \subseteq stray', run' = run
    PROVE  CompletedRunIsClosed' /\ CancelledIsClosed'
<1>1. run = "completed" =>
        (EndReached \/ \E n \in EndNodes, i \in Iteration : <<n, i>> \in stray)'
    <2>1. EndNodes \subseteq Node
        BY DEF EndNodes
    <2> QED
        BY <2>1 DEF EndInv, CompletedRunIsClosed, EndReached, CompletedKept
<1>2. run \in {"completed", "cancelled"} =>
        \A n \in Node, i \in Iteration : ns'[n][i] \in Unsettled => <<n, i>> \in stray'
    BY DEF EndInv, CompletedRunIsClosed, CancelledIsClosed, NoNewUnsettled, Unsettled
<1> QED
    BY <1>1, <1>2 DEF CompletedRunIsClosed, CancelledIsClosed, Unsettled

LEMMA EndIsInductive ==
    ASSUME RowInv, ApprovalHasStarted, EndInv, [Next]_vars
    PROVE  /\ EndInv'
           /\ stray' = {} =>
                /\ run \in {"completed", "cancelled"} => run' = run
                /\ run = "failed" => run' \in {"failed", "cancelled"}
<1> DEFINE Final == stray' = {} =>
                /\ run \in {"completed", "cancelled"} => run' = run
                /\ run = "failed" => run' \in {"failed", "cancelled"}
<1>s. Idle.stage = "idle"
    BY DEF Idle
<1>i. OpenRun /\ CompletedRunIsClosed /\ CancelledIsClosed /\ TypeOK
    BY DEF EndInv, RowInv
<1>k. stray \subseteq stray' /\ CompletedKept
    BY <1>i, StraysAreKept, CompletedIsKept
<1>c. ASSUME run' \notin {"completed", "cancelled"}
      PROVE  CompletedRunIsClosed' /\ CancelledIsClosed'
    BY <1>c DEF CompletedRunIsClosed, CancelledIsClosed
<1>1. CASE Engine
    <2>1. tx.stage # "idle" /\ NoNewUnsettled
        BY <1>1, EngineOpensNothing
        DEF Engine, RouteEnd, RouteNone, RouteTaken, Scan, ScanRound, DrainNotice, DrainDone,
            Settle
    <2>2. CASE Settle
        <3>1. run' = Outcome /\ tx'.stage = "idle" /\ ns' = ns
            BY <1>s, <2>2 DEF Settle
        <3>2. /\ run' \in {run, "failed", "completed"}
              /\ run # "active" => run' = run
              /\ run' = "completed" /\ run' # run =>
                    EndReached /\ ~InState(Operable) /\ ~InState({"suspended", "pending"})
            BY <3>1 DEF Outcome
        <3>3. CASE run' = run
            BY <1>k, <2>1, <3>1, <3>3, EndIsKept DEF EndInv, OpenRun
        <3>4. CASE run' # run
            <4>1. run = "active" /\ run' \in {"failed", "completed"}
                BY <3>2, <3>4
            <4>2. CompletedRunIsClosed'
                BY <3>1, <3>2, <3>4 DEF CompletedRunIsClosed, EndReached, InState, Live
            <4> QED
                BY <3>1, <4>1, <4>2 DEF EndInv, OpenRun, CancelledIsClosed
        <3> QED
            BY <3>3, <3>4
    <2>3. CASE ~Settle
        <3>1. run' = run \/ run' = "failed"
            BY <1>1, <2>3 DEF Engine, RouteEnd, RouteNone, RouteTaken, Scan, ScanFail, ScanSkip,
                              ScanActivate, ScanWait, ScanRound, DrainNotice, DrainDone
        <3>2. CompletedRunIsClosed' /\ CancelledIsClosed'
            BY <1>c, <1>k, <2>1, <3>1, EndIsKept
        <3>3. stray' = {} => stray = {} /\ run \in {"active", "failed"}
            BY <1>i, <1>k, <2>1 DEF OpenRun
        <3> QED
            BY <3>1, <3>2, <3>3 DEF EndInv, OpenRun
    <2> QED
        BY <2>2, <2>3
<1>2. CASE Work \/ Pause
    <2>1. CASE Cancel
        <3>1. run' = "cancelled" /\ tx' = tx /\ tx.stage = "idle" /\ run \in {"active", "failed"}
            BY <2>1 DEF Cancel, Cancellable
        <3>2. \A n \in Node, i \in Iteration : ns'[n][i] \in {"absent", "completed", "terminated"}
            BY <2>1 DEF Cancel
        <3>3. CancelledIsClosed'
            BY <3>2 DEF CancelledIsClosed, Unsettled, Live, Operable
        <3> QED
            BY <3>1, <3>3 DEF EndInv, OpenRun, CompletedRunIsClosed
    <2>2. CASE ~Cancel
        <3>1. run = "active" /\ run' = "active"
            BY <1>2, <2>2 DEF Work, Pause, Complete, DeepReject, Takeover, Suspend, Resume
        <3> QED
            BY <3>1 DEF EndInv, OpenRun, CompletedRunIsClosed, CancelledIsClosed
    <2> QED
        BY <2>1, <2>2
<1>3. ASSUME NEW n \in Node, NEW i \in Iteration,
             ApprovalBlocked(n, i) \/ ApprovalVote(n, i) \/ ApprovalDecided(n, i)
      PROVE  EndInv' /\ Final
    <2>1. run' = run
        BY <1>3 DEF ApprovalBlocked, ApprovalVote, ApprovalDecided
    <2>2. ns[n][i] \in Unsettled \/ <<n, i>> \in stray'
        BY <1>3, DecisionIsInTime
    <2>m. \E s : ns' = Moved({<<n, i>>}, s)
        BY <1>3 DEF ApprovalBlocked, ApprovalVote, ApprovalDecided
    <2>3. NoNewUnsettled
        BY <2>2, <2>m DEF Moved, NoNewUnsettled
    <2>4. CompletedRunIsClosed' /\ CancelledIsClosed'
        BY <1>k, <2>1, <2>3, EndIsKept
    <2>5. stray' = {} => run \in {"active", "failed"}
        BY <1>i, <1>k, <2>2 DEF CompletedRunIsClosed, CancelledIsClosed, TypeOK, Unsettled
    <2> QED
        BY <2>1, <2>4, <2>5 DEF EndInv, OpenRun
<1>4. CASE UNCHANGED vars
    <2>1. run' = run /\ tx' = tx /\ ns' = ns /\ stray' = stray
        BY <1>4 DEF vars, turn
    <2> QED
        BY <1>i, <2>1 DEF EndInv, OpenRun, CompletedRunIsClosed, CancelledIsClosed, EndReached
<1>5. ASSUME NEW n \in Node, NEW i \in Iteration, TaskWrote(n, i)
      PROVE  EndInv' /\ Final
    <2>1. run' \in {run, "active"}
        BY <1>5 DEF TaskWrote
    <2>2. NoNewUnsettled
        BY <1>5 DEF TaskWrote, NoNewUnsettled, Unsettled, Live
    <2>3. CompletedRunIsClosed' /\ CancelledIsClosed'
        BY <1>c, <1>k, <2>1, <2>2, EndIsKept
    <2>4. stray' = {} => run = "active" /\ run' = "active"
        BY <1>5 DEF TaskWrote
    <2> QED
        BY <2>3, <2>4 DEF EndInv, OpenRun
<1>6. CASE Tasks
    BY <1>i, <1>5, <1>6, TasksWrite
<1>7. CASE Decide
    BY <1>3, <1>7 DEF Decide
<1> QED
    BY <1>1, <1>2, <1>4, <1>6, <1>7 DEF Next

LEMMA EndIsInitial == Init => EndInv
<1> SUFFICES ASSUME Init
             PROVE  EndInv
    OBVIOUS
<1>1. run = "active"
    BY DEF Init
<1> QED
    BY <1>1 DEF EndInv, OpenRun, CompletedRunIsClosed, CancelledIsClosed

\* A run reported as completed has reached an End node, and nothing sent later
\* opens any of its nodes again, apart from those that are written out of turn.
THEOREM CompletedRunsAreClosed == Spec => []CompletedRunIsClosed
<1>1. RowInv /\ ApprovalHasStarted /\ EndInv /\ [Next]_vars => EndInv'
    BY EndIsInductive
<1>2. RowInv /\ ApprovalHasStarted /\ [Next]_vars => ApprovalHasStarted'
    BY ApprovalsAreStarted
<1>3. EndInv => CompletedRunIsClosed
    BY DEF EndInv
<1> QED
    BY <1>1, <1>2, <1>3, EndIsInitial, ApprovalsStartInitially, RowsAreSound, PTL DEF Spec

\* The outcome of a run is final, completed and cancelled runs keep it and a failed
\* one can only be cancelled, as long as no row of it is written out of turn.
THEOREM RunOutcomesAreFinal == Spec => RunOutcomeIsFinal
<1>1. RowInv /\ ApprovalHasStarted /\ EndInv /\ [Next]_vars => EndInv'
    BY EndIsInductive
<1>2. RowInv /\ ApprovalHasStarted /\ [Next]_vars => ApprovalHasStarted'
    BY ApprovalsAreStarted
<1>3. RowInv /\ ApprovalHasStarted /\ EndInv /\ [Next]_vars =>
        [stray' = {} =>
            /\ run \in {"completed", "cancelled"} => run' = run
            /\ run = "failed" => run' \in {"failed", "cancelled"}]_vars
    BY EndIsInductive
<1> QED
    BY <1>1, <1>2, <1>3, EndIsInitial, ApprovalsStartInitially, RowsAreSound, PTL
       DEF Spec, RunOutcomeIsFinal

-----------------------------------------------------------------------------
(* Closed nodes stay closed *)

\* Only a write out of turn opens a closed row.
ClosedKept ==
    \A n \in Node, i \in Iteration :
        \/ /\ ns[n][i] \in {"completed", "terminated"} => ns'[n][i] = ns[n][i]
           /\ ns[n][i] = "skipped" => ns'[n][i] \in {"skipped", "terminated"}
        \/ <<n, i>> \in stray'

\* What is not written out of turn stays closed.
LEMMA DoneIsKept ==
    ASSUME ClosedKept, NEW n \in Node, NEW i \in Iteration, ns[n][i] \in Done
    PROVE  ns'[n][i] \in Done \/ <<n, i>> \in stray'
    BY DEF ClosedKept, Done

LEMMA MovedOpenRow ==
    ASSUME NEW n \in Node, NEW i \in Iteration, NEW s, ns' = Moved({<<n, i>>}, s),
           ns[n][i] \notin {"completed", "terminated", "skipped"}
    PROVE  ClosedKept
<1>1. \A m \in Node, j \in Iteration :
        ns'[m][j] = IF m = n /\ j = i THEN s ELSE ns[m][j]
    BY DEF Moved
<1> QED
    BY <1>1 DEF ClosedKept

LEMMA EngineKeepsClosed ==
    ASSUME RowInv, Engine
    PROVE  ClosedKept
<1>t. tx.iter \in Iteration
    BY DEF RowInv, TypeOK, Transaction
<1>1. CASE RouteEnd \/ ScanRound \/ DrainDone \/ Settle
    BY <1>1 DEF RouteEnd, ScanRound, DrainDone, Settle, ClosedKept
<1>2. CASE RouteNone \/ RouteTaken
    <2>1. ASSUME NEW S, ns' = Moved(S, "skipped"),
                 \A n \in Node, i \in Iteration : <<n, i>> \in S => ns[n][i] = "pending"
          PROVE  ClosedKept
        <3>1. \A n \in Node, i \in Iteration :
                ns'[n][i] = IF <<n, i>> \in S THEN "skipped" ELSE ns[n][i]
            BY <2>1 DEF Moved
        <3> QED
            BY <2>1, <3>1 DEF ClosedKept
    <2>2. CASE RouteNone
        <3> DEFINE S == {<<m, tx.iter>> : m \in {k \in Node \ {tx.node} : ns[k][tx.iter] = "pending"}}
        <3>1. ns' = Moved(S, "skipped")
            BY <2>2 DEF RouteNone
        <3>2. \A n \in Node, i \in Iteration : <<n, i>> \in S => ns[n][i] = "pending"
            OBVIOUS
        <3> HIDE DEF S
        <3> QED
            BY <2>1, <3>1, <3>2
    <2>3. CASE RouteTaken
        <3>1. PICK chosen, others : ns' = Moved(Lost(chosen, others, tx.iter) \X {tx.iter}, "skipped")
            BY <2>3 DEF RouteTaken
        <3> DEFINE S == Lost(chosen, others, tx.iter) \X {tx.iter}
        <3>2. \A n \in Node, i \in Iteration : <<n, i>> \in S => ns[n][i] = "pending"
            BY DEF Lost
        <3>3. ns' = Moved(S, "skipped")
            BY <3>1
        <3> HIDE DEF S
        <3> QED
            BY <2>1, <3>2, <3>3
    <2> QED
        BY <1>2, <2>2, <2>3
<1>3. CASE Scan
    <2>1. PICK m \in Node : /\ IsNext(m)
                            /\ ScanFail(m) \/ ScanSkip(m) \/ ScanActivate(m) \/ ScanWait(m)
        BY <1>3 DEF Scan
    <2>2. ns[m][tx.iter] = "pending"
        BY <1>3, <2>1 DEF Scan, IsNext, RowInv, TodoIsPending
    <2>3. CASE ScanFail(m) \/ ScanWait(m)
        BY <2>3 DEF ScanFail, ScanWait, ClosedKept
    <2>4. CASE ScanSkip(m)
        BY <1>t, <2>2, <2>4, MovedOpenRow DEF ScanSkip
    <2>5. CASE ScanActivate(m)
        <3>1. \A n \in Node, i \in Iteration :
                \/ ns'[n][i] = ns[n][i]
                \/ n = m /\ i = tx.iter
                \/ ns[n][i] \in Operable
            BY <2>5 DEF ScanActivate, Peers
        <3> QED
            BY <2>2, <3>1 DEF ClosedKept, Operable
    <2> QED
        BY <2>1, <2>3, <2>4, <2>5
<1>4. CASE DrainNotice
    <2>1. PICK n \in Node, i \in Iteration :
            ns[n][i] = "activated" /\ ns' = Moved({<<n, i>>}, "completed")
        BY <1>4 DEF DrainNotice
    <2> QED
        BY <2>1, MovedOpenRow
<1> QED
    BY <1>1, <1>2, <1>3, <1>4 DEF Engine

LEMMA ClosedIsKept ==
    ASSUME RowInv, ApprovalHasStarted, [Next]_vars
    PROVE  ClosedKept
<1>i. TypeOK /\ IterationsAreClosed
    BY DEF RowInv
<1>1. ASSUME NEW n \in Node, NEW i \in Iteration,
             Complete(n, i) \/ Takeover(n, i) \/ Suspend(n, i) \/ Resume(n, i)
      PROVE  ClosedKept
    <2>1. ns[n][i] \in Operable \cup {"suspended"} /\ \E s : ns' = Moved({<<n, i>>}, s)
        BY <1>1 DEF Complete, Takeover, Suspend, Resume, Operable
    <2> QED
        BY <2>1, MovedOpenRow DEF Operable
<1>2. ASSUME NEW n \in Node, NEW i \in Iteration, NEW t \in Node, DeepReject(n, i, t)
      PROVE  ClosedKept
    <2> DEFINE next == NextIteration(t)
               R == Reachable({t})
    <2>1. /\ next \in Iteration
          /\ \A m \in R, j \in Iteration : j >= next => ns[m][j] = "absent"
          /\ \A m \in Node, j \in Iteration :
                ns'[m][j] = IF m \notin R THEN ns[m][j]
                            ELSE IF j = next THEN ReplayState(m, t)
                            ELSE IF ns[m][j] \in Stale THEN "terminated" ELSE ns[m][j]
        <3>1. Appended(t)
            BY <1>i, <1>2, DeepRejectAppends
        <3> QED
            BY <3>1 DEF Appended
    <2> HIDE DEF next, R
    <2>2. \A m \in R : ns[m][next] = "absent"
        BY <2>1 DEF Iteration
    <2> QED
        BY <2>1, <2>2 DEF ClosedKept, Stale
<1>3. CASE Cancel
    BY <1>3 DEF Cancel, ClosedKept
<1>4. CASE Work
    BY <1>1, <1>2, <1>3, <1>4 DEF Work
<1>5. CASE Pause
    BY <1>1, <1>5 DEF Pause
<1>6. CASE Decide
    <2>1. PICK n \in Node, i \in Iteration :
            ApprovalBlocked(n, i) \/ ApprovalVote(n, i) \/ ApprovalDecided(n, i)
        BY <1>6 DEF Decide
    <2>2. approval[n][i] = "open" /\ \E s : ns' = Moved({<<n, i>>}, s)
        BY <2>1 DEF ApprovalBlocked, ApprovalVote, ApprovalDecided
    <2>3. ns[n][i] \in Unsettled \/ <<n, i>> \in stray'
        BY <2>1, DecisionIsInTime
    <2> QED
        BY <2>2, <2>3 DEF Moved, ClosedKept, Unsettled, Live, Operable
<1>7. CASE UNCHANGED vars
    BY <1>7 DEF vars, ClosedKept
<1>8. ASSUME NEW n \in Node, NEW i \in Iteration, TaskWrote(n, i)
      PROVE  ClosedKept
    BY <1>8 DEF TaskWrote, ClosedKept, Operable
<1> QED
    BY <1>i, <1>4, <1>5, <1>6, <1>7, <1>8, EngineKeepsClosed, TasksWrite DEF Next

\* Work that was accepted or revoked is never reopened, by no command in no order,
\* but by a task command or a refused decision that comes out of turn.
THEOREM ClosedNodesStayClosed == Spec => ClosedNodeStaysClosed
<1>1. RowInv /\ ApprovalHasStarted /\ [Next]_vars => [ClosedKept]_vars
    BY ClosedIsKept
<1>2. RowInv /\ ApprovalHasStarted /\ [Next]_vars => ApprovalHasStarted'
    BY ApprovalsAreStarted
<1>3. [ClosedKept]_vars =>
        [\A n \in Node, i \in Iteration :
            \/ /\ ns[n][i] \in {"completed", "terminated"} => ns'[n][i] = ns[n][i]
               /\ ns[n][i] = "skipped" => ns'[n][i] \in {"skipped", "terminated"}
            \/ <<n, i>> \in stray']_vars
    BY DEF ClosedKept
<1> QED
    BY <1>1, <1>2, <1>3, ApprovalsStartInitially, RowsAreSound, PTL
       DEF Spec, ClosedNodeStaysClosed

-----------------------------------------------------------------------------
(* Somebody can act *)

\* Between transactions an active run has a node somebody can act on: no
\* order of commands, decisions and engine steps leaves it without an actor,
\* as long as none of them is out of turn.
THEOREM ActiveRunsHaveAnActor == Spec => []ActiveRunHasActor
<1>1. Init => ActiveRunHasActor
    BY DEF Init, Draining, Idle, ActiveRunHasActor, Quiet
<1>2. RowInv /\ ActiveRunHasActor /\ [Next]_vars => ActiveRunHasActor'
    <2> SUFFICES ASSUME RowInv, ActiveRunHasActor, [Next]_vars
                 PROVE  ActiveRunHasActor'
        OBVIOUS
    <2>i. TypeOK /\ IterationsAreClosed
        BY DEF RowInv
    <2>s. /\ Draining.stage = "drain" /\ Settling.stage = "settle"
          /\ \A n, i, b : Routing(n, i, b).stage = "route"
          /\ \A i, S, k : Scanning(i, S, k).stage = "scan"
        BY DEF Draining, Settling, Routing, Scanning, Idle
    <2>a. ASSUME NEW n \in Node, NEW i \in Iteration,
                 ns'[n][i] \in Operable \cup {"suspended"}
          PROVE  ActiveRunHasActor'
        BY <2>a DEF ActiveRunHasActor, InState
    <2>o. ASSUME tx'.stage # "idle" \/ run' # "active"
          PROVE  ActiveRunHasActor'
        BY <2>o DEF ActiveRunHasActor, Quiet
    <2>1. CASE Engine
        <3>1. CASE Settle
            <4>1. run' = "active" => InState(Operable)
                BY <3>1 DEF Settle, Outcome
            <4>2. ns' = ns
                BY <3>1 DEF Settle
            <4> QED
                BY <2>a, <2>o, <4>1, <4>2 DEF InState
        <3>2. CASE Scan
            <4>1. tx.stage = "scan" /\ \E m, b : Resolve(m, b)
                BY <3>2 DEF Scan, ScanFail, ScanSkip, ScanActivate, ScanWait
            <4>2. tx'.stage = "scan"
                BY <2>i, <4>1 DEF Resolve, TypeOK, Transaction
            <4> QED
                BY <2>o, <4>2
        <3>3. CASE RouteEnd \/ RouteNone \/ RouteTaken \/ ScanRound \/ DrainNotice \/ DrainDone
            <4>1. \/ run' = "failed"
                  \/ tx' \in {Draining, Settling}
                  \/ \E n, i, b : tx' = Routing(n, i, b)
                  \/ \E i, S, k : tx' = Scanning(i, S, k)
                BY <3>3 DEF RouteEnd, RouteNone, RouteTaken, ScanRound, DrainNotice, DrainDone
            <4> QED
                BY <2>o, <2>s, <4>1
        <3> QED
            BY <2>1, <3>1, <3>2, <3>3 DEF Engine
    <2>2. ASSUME NEW n \in Node, NEW i \in Iteration,
                 Complete(n, i) \/ ApprovalDecided(n, i)
          PROVE  ActiveRunHasActor'
        <3>1. tx' = Routing(n, i, FALSE)
            BY <2>2 DEF Complete, ApprovalDecided
        <3> QED
            BY <2>o, <2>s, <3>1
    <2>3. ASSUME NEW n \in Node, NEW i \in Iteration,
                 \/ Takeover(n, i) \/ Suspend(n, i) \/ Resume(n, i)
                 \/ ApprovalBlocked(n, i) \/ ApprovalVote(n, i)
          PROVE  ActiveRunHasActor'
        <3>1. \E s \in Operable \cup {"suspended"} : ns' = Moved({<<n, i>>}, s)
            BY <2>i, <2>3 DEF Takeover, Suspend, Resume, ApprovalBlocked, ApprovalVote,
                              TypeOK, Operable
        <3>2. ns'[n][i] \in Operable \cup {"suspended"}
            BY <3>1 DEF Moved
        <3> QED
            BY <2>a, <3>2
    <2>4. ASSUME NEW n \in Node, NEW i \in Iteration, NEW t \in Node, DeepReject(n, i, t)
          PROVE  ActiveRunHasActor'
        <3> DEFINE next == NextIteration(t)
        <3>1. next \in Iteration /\ t \in Reachable({t})
            BY <2>i, <2>4, DeepRejectAppends, ReachableIsLeastClosed DEF Appended
        <3>2. ns'[t][next] = "activated"
            BY <2>i, <2>4, <3>1, DeepRejectAppends DEF ReplayState, Appended
        <3> QED
            BY <2>a, <3>1, <3>2 DEF Operable
    <2>5. CASE Cancel
        BY <2>o, <2>5 DEF Cancel
    <2>6. CASE UNCHANGED vars
        BY <2>6 DEF vars, turn, ActiveRunHasActor, Quiet, InState
    <2>7. ASSUME NEW n \in Node, NEW i \in Iteration, TaskWrote(n, i)
          PROVE  ActiveRunHasActor'
        <3>1. CASE <<n, i>> \in stray'
            BY <3>1 DEF ActiveRunHasActor
        <3>2. CASE tx' = tx /\ ns'[n][i] \in Operable
            BY <2>a, <3>2
        <3>3. CASE tx' = Routing(n, i, FALSE)
            BY <2>o, <2>s, <3>3
        <3> QED
            BY <2>7, <3>1, <3>2, <3>3 DEF TaskWrote
    <2>8. CASE Tasks
        BY <2>i, <2>7, <2>8, TasksWrite
    <2> QED
        BY <2>1, <2>2, <2>3, <2>4, <2>5, <2>6, <2>8 DEF Next, Work, Pause, Decide
<1> QED
    BY <1>1, <1>2, RowsAreSound, PTL DEF Spec

-----------------------------------------------------------------------------
(* All-joins wait for their sources *)

\* Once a join has begun on a valid activation its sources are closed, unless they are
\* written out of turn; a paused node and an open approval keep the promise, so that a
\* resumption and a late decision do.
Gathered(n, i) == \A p \in Sources(n, i) : ns[p][i] \in Done \/ <<p, i>> \in stray
JoinInv(mode) ==
    \A n \in Node, i \in Iteration :
        /\ JoinMode[n] = mode
        /\ Winners(n, i) # {}
        /\ Begun(n, i)
        /\ <<n, i>> \notin stray
        => Gathered(n, i)

\* Steps that start no node and satisfy no dependency of a started one.
LEMMA JoinsKept ==
    ASSUME NEW mode, RowInv, JoinInv(mode), RowsKept, ClosedKept, stray \subseteq stray',
           \A n \in Node, i \in Iteration : Begun(n, i)' =>
                \/ Begun(n, i) /\ Winners(n, i)' \subseteq Winners(n, i)
                \/ <<n, i>> \in stray'
    PROVE  JoinInv(mode)'
<1> SUFFICES ASSUME NEW n \in Node, NEW i \in Iteration, JoinMode[n] = mode,
                    Winners(n, i)' # {}, Begun(n, i)', <<n, i>> \notin stray',
                    NEW p \in Pred(n), Exists(p, i)'
             PROVE  ns'[p][i] \in Done \/ <<p, i>> \in stray'
    BY DEF JoinInv, Gathered, Sources
<1>1. p \in Node
    BY GraphAssumption DEF Pred
<1>2. p \in Sources(n, i)
    BY <1>1 DEF Sources, Exists, RowsKept
<1>3. ns[p][i] \in Done \/ <<p, i>> \in stray
    BY <1>2 DEF JoinInv, Gathered
<1> QED
    BY <1>1, <1>3, DoneIsKept

\* A decision is about an approval that has begun.
LEMMA DecisionBeginsNothing ==
    ASSUME TypeOK, NEW n \in Node, NEW i \in Iteration,
           ApprovalBlocked(n, i) \/ ApprovalVote(n, i) \/ ApprovalDecided(n, i)
    PROVE  \A m \in Node, j \in Iteration : Begun(m, j)' => Begun(m, j)
<1>1. /\ approval[n][i] = "open"
      /\ approval' = approval \/ approval' = [approval EXCEPT ![n][i] = "closed"]
      /\ \E s : ns' = Moved({<<n, i>>}, s)
    BY DEF ApprovalBlocked, ApprovalVote, ApprovalDecided
<1>2. \A m \in Node, j \in Iteration :
        approval'[m][j] = approval[m][j] \/ (m = n /\ j = i)
    BY <1>1 DEF TypeOK
<1> QED
    BY <1>1, <1>2 DEF Begun, Moved

\* The engine keeps the promise of a mode if its scan opens joins by it.
LEMMA EngineKeepsJoins ==
    ASSUME NEW mode, RowInv, ApprovalHasStarted, JoinInv(mode), Engine,
           \A m \in Node : tx.stage = "scan" /\ IsNext(m) /\ ScanActivate(m) /\ JoinMode[m] = mode
                            => Gathered(m, tx.iter)'
    PROVE  JoinInv(mode)'
<1>k. RowsKept /\ ClosedKept /\ stray \subseteq stray'
    BY EngineKeepsRows, EngineKeepsClosed, StraysAreKept DEF RowInv, Next
<1>t. tx.iter \in Iteration
    BY DEF RowInv, TypeOK, Transaction
<1>w. dep' = dep => \A n, i : Winners(n, i)' = Winners(n, i)
    BY DEF Winners
<1>1. CASE RouteEnd \/ ScanRound \/ DrainDone \/ Settle
    <2>1. ns' = ns /\ dep' = dep /\ approval' = approval
        BY <1>1 DEF RouteEnd, ScanRound, DrainDone, Settle
    <2> QED
        BY <1>k, <1>w, <2>1, JoinsKept DEF Begun
<1>2. CASE RouteNone
    <2>1. dep' = dep /\ approval' = approval /\ \E S : ns' = Moved(S, "skipped")
        BY <1>2 DEF RouteNone
    <2>2. \A n \in Node, i \in Iteration : Begun(n, i)' => Begun(n, i)
        BY <2>1 DEF Moved, Begun, Started, Operable
    <2> QED
        BY <1>k, <1>w, <2>1, <2>2, JoinsKept
<1>3. CASE RouteTaken
    <2>1. PICK targets :
            /\ \A m \in targets : ns[m][tx.iter] = "pending"
            /\ dep' = dep \cup {<<tx.node, m, tx.iter>> : m \in targets}
        BY <1>3 DEF RouteTaken
    <2>2. approval' = approval /\ \E S : ns' = Moved(S, "skipped")
        BY <1>3 DEF RouteTaken
    <2>3. \A n \in Node, i \in Iteration : Begun(n, i)' => Begun(n, i)
        BY <2>2 DEF Moved, Begun, Started, Operable
    <2>4. ASSUME NEW n \in Node, NEW i \in Iteration, Begun(n, i)
          PROVE  Winners(n, i)' \subseteq Winners(n, i)
        <3>1. ns[n][i] # "pending"
            BY <2>4, BegunIsReached
        <3>2. \A p : <<p, n, i>> \in dep' => <<p, n, i>> \in dep
            BY <2>1, <3>1
        <3> QED
            BY <3>2 DEF Winners
    <2> QED
        BY <1>k, <2>3, <2>4, JoinsKept
<1>4. CASE Scan
    <2>1. PICK m \in Node : /\ IsNext(m)
                            /\ ScanFail(m) \/ ScanSkip(m) \/ ScanActivate(m) \/ ScanWait(m)
        BY <1>4 DEF Scan
    <2>2. CASE ScanFail(m) \/ ScanWait(m)
        <3>1. ns' = ns /\ dep' = dep /\ approval' = approval
            BY <2>2 DEF ScanFail, ScanWait
        <3> QED
            BY <1>k, <1>w, <3>1, JoinsKept DEF Begun
    <2>3. CASE ScanSkip(m)
        <3>1. dep' = dep /\ approval' = approval /\ \E S : ns' = Moved(S, "skipped")
            BY <2>3 DEF ScanSkip
        <3>2. \A n \in Node, i \in Iteration : Begun(n, i)' => Begun(n, i)
            BY <3>1 DEF Moved, Begun, Started, Operable
        <3> QED
            BY <1>k, <1>w, <3>1, <3>2, JoinsKept
    <2>4. CASE ScanActivate(m)
        <3>1. \A n, i : Winners(n, i)' = Winners(n, i)
            BY <1>w, <2>4 DEF ScanActivate
        <3>2. \A n \in Node, i \in Iteration :
                ns'[n][i] = IF i # tx.iter THEN ns[n][i]
                            ELSE IF n = m THEN "activated"
                            ELSE IF n \in Peers(m, i) THEN "terminated" ELSE ns[n][i]
            BY <2>4 DEF ScanActivate
        <3>3. \A n \in Node, i \in Iteration :
                Begun(n, i)' => Begun(n, i) \/ (n = m /\ i = tx.iter)
            <4>1. \A n \in Node, i \in Iteration :
                    approval'[n][i] = approval[n][i] \/ (n = m /\ i = tx.iter)
                BY <2>4 DEF ScanActivate, RowInv, TypeOK
            <4> QED
                BY <3>2, <4>1 DEF Begun, Started, Operable
        <3> SUFFICES ASSUME NEW n \in Node, NEW i \in Iteration, JoinMode[n] = mode,
                            Winners(n, i) # {}, Begun(n, i)', <<n, i>> \notin stray',
                            NEW p \in Pred(n), Exists(p, i)'
                     PROVE  ns'[p][i] \in Done \/ <<p, i>> \in stray'
            BY <3>1 DEF JoinInv, Gathered, Sources
        <3>4. p \in Node
            BY GraphAssumption DEF Pred
        <3>5. p \in Sources(n, i)
            BY <1>k, <3>4 DEF Sources, Exists, RowsKept
        <3>6. CASE n = m /\ i = tx.iter
            <4>1. Gathered(m, tx.iter)'
                BY <1>4, <2>1, <2>4, <3>6 DEF Scan
            <4>2. tx'.iter = tx.iter
                BY <1>4, <2>4 DEF ScanActivate, Resolve, RowInv, TypeOK, Transaction
            <4>3. p \in Sources(n, i)'
                BY DEF Sources
            <4> QED
                BY <3>6, <4>1, <4>2, <4>3 DEF Gathered
        <3>7. CASE ~(n = m /\ i = tx.iter)
            <4>1. ns[p][i] \in Done \/ <<p, i>> \in stray
                BY <1>k, <3>3, <3>5, <3>7 DEF JoinInv, Gathered
            <4> QED
                BY <1>k, <3>4, <4>1, DoneIsKept
        <3> QED
            BY <3>6, <3>7
    <2> QED
        BY <2>1, <2>2, <2>3, <2>4
<1>5. CASE DrainNotice
    <2>1. PICK n \in Node, i \in Iteration :
            ns[n][i] = "activated" /\ ns' = Moved({<<n, i>>}, "completed")
        BY <1>5 DEF DrainNotice
    <2>2. dep' = dep /\ approval' = approval
        BY <1>5 DEF DrainNotice
    <2>3. \A m \in Node, j \in Iteration : Begun(m, j)' => Begun(m, j)
        BY <2>1, <2>2 DEF Moved, Begun, Started, Operable
    <2> QED
        BY <1>k, <1>w, <2>2, <2>3, JoinsKept
<1> QED
    BY <1>1, <1>2, <1>3, <1>4, <1>5 DEF Engine

\* What a replay appends has no valid activation yet.
LEMMA ReplayedIsUnearned ==
    ASSUME RowInv, EarnedInv,
           NEW n \in Node, NEW i \in Iteration, ns[n][i] = "absent"
    PROVE  Winners(n, i) = {}
<1> SUFFICES ASSUME NEW p \in Pred(n), <<p, n, i>> \in dep
             PROVE  FALSE
    BY DEF Winners
<1>1. ns[p][i] = "completed" \/ <<p, i>> \in stray
    BY DEF EarnedInv, DependencyIsEarned
<1>2. p \in Node /\ <<p, n>> \in Edge
    BY PredIsASource
<1>3. Exists(n, i)
    BY <1>1, <1>2 DEF RowInv, IterationsAreClosed, StrayIsTouched, Touched, Exists
<1> QED
    BY <1>3 DEF Exists

LEMMA DeepRejectKeepsJoins ==
    ASSUME NEW mode, RowInv, EarnedInv, JoinInv(mode), ClosedKept,
           NEW n \in Node, NEW i \in Iteration, NEW t \in Node, DeepReject(n, i, t)
    PROVE  JoinInv(mode)'
<1> DEFINE next == NextIteration(t)
           R == Reachable({t})
<1>1. /\ next \in Iteration /\ next > 1
      /\ \A m \in R, j \in Iteration : j >= next => ns[m][j] = "absent"
      /\ \A m \in Node, j \in Iteration :
            ns'[m][j] = IF m \notin R THEN ns[m][j]
                        ELSE IF j = next THEN ReplayState(m, t)
                        ELSE IF ns[m][j] \in Stale THEN "terminated" ELSE ns[m][j]
    <2>1. Appended(t)
        BY DeepRejectAppends DEF RowInv
    <2> QED
        BY <2>1 DEF Appended
<1>2. Closed(R) /\ R \subseteq Node
    BY ReachableIsLeastClosed
<1>3. dep' \subseteq dep /\ stray' = stray
    BY DEF DeepReject, ValidAfterReplay, turn
<1> HIDE DEF next, R
<1> SUFFICES ASSUME NEW m \in Node, NEW j \in Iteration, JoinMode[m] = mode,
                    Winners(m, j)' # {}, Begun(m, j)', <<m, j>> \notin stray',
                    NEW p \in Pred(m), Exists(p, j)'
             PROVE  ns'[p][j] \in Done \/ <<p, j>> \in stray'
    BY DEF JoinInv, Gathered, Sources
<1>4. p \in Node /\ <<p, m>> \in Edge
    BY PredIsASource
<1>5. Winners(m, j) # {}
    BY <1>3 DEF Winners
<1>6. ns[m][j] # "absent"
    BY <1>5, ReplayedIsUnearned
<1>7. ~(m \in R /\ j = next)
    BY <1>1, <1>6 DEF Iteration
<1>8. Begun(m, j)
    <2>1. approval' = approval
        BY DEF DeepReject
    <2> QED
        BY <1>1, <1>7, <2>1 DEF Begun, Started, Operable, Stale
<1>9. ~(p \in R /\ j = next)
    <2>1. <<p, m>>[1] \in R => <<p, m>>[2] \in R
        BY <1>2, <1>4 DEF Closed
    <2> QED
        BY <1>7, <2>1
<1>10. Exists(p, j)
    BY <1>1, <1>4, <1>9 DEF Exists, Stale
<1>11. ns[p][j] \in Done \/ <<p, j>> \in stray
    BY <1>3, <1>5, <1>8, <1>10 DEF JoinInv, Gathered, Sources
<1> QED
    BY <1>3, <1>4, <1>11, DoneIsKept

\* So do the commands, whatever the mode.
LEMMA CommandsKeepJoins ==
    ASSUME NEW mode, RowInv, EarnedInv, JoinInv(mode), ClosedKept,
           Work \/ Tasks \/ Pause \/ Decide \/ UNCHANGED vars
    PROVE  JoinInv(mode)'
<1>i. TypeOK /\ ApprovalHasNode /\ CompletedIsDecided
    BY DEF RowInv
<1>k. stray \subseteq stray'
    BY <1>i, StraysAreKept DEF Next
<1>1. ASSUME NEW n \in Node, NEW i \in Iteration, NEW t \in Node, DeepReject(n, i, t)
      PROVE  JoinInv(mode)'
    BY <1>1, DeepRejectKeepsJoins
<1>2. ASSUME NEW n \in Node, NEW i \in Iteration,
             Complete(n, i) \/ Takeover(n, i) \/ Suspend(n, i) \/ Resume(n, i)
      PROVE  JoinInv(mode)'
    <2>1. RowsKept
        BY <1>i, <1>2, CommandKeepsRows, PauseKeepsRows DEF Pause
    <2>2. /\ dep' = dep /\ approval' = approval
          /\ ns[n][i] \in Started /\ \E s : ns' = Moved({<<n, i>>}, s)
        BY <1>2 DEF Complete, Takeover, Suspend, Resume, Started, Operable
    <2>3. \A m \in Node, j \in Iteration : Begun(m, j)' => Begun(m, j)
        BY <2>2 DEF Moved, Begun
    <2>4. \A m, j : Winners(m, j)' = Winners(m, j)
        BY <2>2 DEF Winners
    <2> QED
        BY <1>k, <2>1, <2>3, <2>4, JoinsKept
<1>3. CASE Cancel
    <2>1. RowsKept
        BY <1>i, <1>3, CommandKeepsRows
    <2>2. \A m \in Node, j \in Iteration : Begun(m, j)' => Begun(m, j)
        BY <1>3 DEF Cancel, Begun, Started, Operable
    <2>3. \A m, j : Winners(m, j)' = Winners(m, j)
        BY <1>3 DEF Cancel, Winners
    <2> QED
        BY <1>k, <2>1, <2>2, <2>3, JoinsKept
<1>4. CASE Decide
    <2>1. PICK n \in Node, i \in Iteration :
            ApprovalBlocked(n, i) \/ ApprovalVote(n, i) \/ ApprovalDecided(n, i)
        BY <1>4 DEF Decide
    <2>2. RowsKept
        BY <1>i, <1>4, PauseKeepsRows
    <2>3. \A m \in Node, j \in Iteration : Begun(m, j)' => Begun(m, j)
        BY <1>i, <2>1, DecisionBeginsNothing
    <2>4. \A m, j : Winners(m, j)' = Winners(m, j)
        BY <2>1 DEF ApprovalBlocked, ApprovalVote, ApprovalDecided, Winners
    <2> QED
        BY <1>k, <2>2, <2>3, <2>4, JoinsKept
<1>6. ASSUME NEW n \in Node, NEW i \in Iteration, TaskWrote(n, i)
      PROVE  JoinInv(mode)'
    <2>1. RowsKept
        BY <1>i, <1>6, TasksKeepRows
    <2>2. \A m \in Node, j \in Iteration : Begun(m, j)' => Begun(m, j) \/ <<m, j>> \in stray'
        BY <1>6 DEF TaskWrote, Begun, Started
    <2>3. \A m, j : Winners(m, j)' = Winners(m, j)
        BY <1>6 DEF TaskWrote, Winners
    <2> QED
        BY <1>k, <2>1, <2>2, <2>3, JoinsKept
<1>5. CASE UNCHANGED vars
    BY <1>5 DEF vars, turn, JoinInv, Gathered, Winners, Sources, Exists, Begun
<1> QED
    BY <1>i, <1>1, <1>2, <1>3, <1>4, <1>5, <1>6, TasksWrite DEF Work, Pause

LEMMA JoinsAreInitial ==
    ASSUME NEW mode, Init
    PROVE  EarnedInv /\ JoinInv(mode)
<1>1. dep = {}
    BY DEF Init
<1>2. JoinInv(mode)
    BY <1>1 DEF JoinInv, Winners
<1> QED
    BY <1>2, EarnedIsInitial

\* The work behind an all-join never overlaps the work it waits for, whatever is
\* paused, taken over, replayed, decided or cancelled around it; only what is
\* written out of turn breaks it, and only for the rows that are written.
THEOREM AllJoinsMeetTheirSources == Spec => []AllJoinMeetsSources
<1> DEFINE Inv == ApprovalHasStarted /\ EarnedInv /\ JoinInv("all")
<1>1. Init => Inv
    BY ApprovalsStartInitially, JoinsAreInitial
<1>2. RowInv /\ Inv /\ [Next]_vars => Inv'
    <2> SUFFICES ASSUME RowInv, ApprovalHasStarted, EarnedInv, JoinInv("all"), [Next]_vars
                 PROVE  JoinInv("all")'
        BY ApprovalsAreStarted, EarnedIsInductive
    <2>c. ClosedKept
        BY ClosedIsKept
    <2>1. ASSUME Engine, NEW m \in Node, tx.stage = "scan", IsNext(m), ScanActivate(m),
                 JoinMode[m] = "all"
          PROVE  Gathered(m, tx.iter)'
        <3>1. tx'.iter = tx.iter /\ tx.iter \in Iteration
            BY <2>1 DEF ScanActivate, Resolve, RowInv, TypeOK, Transaction
        <3>2. RowsKept
            BY <2>1, EngineKeepsRows DEF RowInv
        <3> SUFFICES ASSUME NEW p \in Pred(m), Exists(p, tx.iter)'
                     PROVE  ns'[p][tx.iter] \in Done \/ <<p, tx.iter>> \in stray'
            BY <3>1 DEF Gathered, Sources, Exists
        <3>3. p \in Node /\ Exists(p, tx.iter)
            BY <3>1, <3>2, PredIsASource DEF RowsKept, Exists
        <3>4. p \in Effective(m, tx.iter) => ns[p][tx.iter] = "completed"
            BY <2>1 DEF ScanActivate, JoinReady
        <3>5. ns[p][tx.iter] \in Done
            BY <3>3, <3>4 DEF Effective, Sources, Done
        <3> QED
            BY <2>c, <2>1, <3>1, <3>3, <3>5, DoneIsKept
    <2> QED
        BY <2>c, <2>1, EngineKeepsJoins, CommandsKeepJoins DEF Next
<1>3. Inv => AllJoinMeetsSources
    BY DEF JoinInv, Gathered, AllJoinMeetsSources, Begun, Started
<1> QED
    BY <1>1, <1>2, <1>3, RowsAreSound, PTL DEF Spec

-----------------------------------------------------------------------------
(* No join is left behind *)

PendingAt(i) == {n \in Node : ns[n][i] = "pending"}

\* A pending node that nothing will ever trigger again.
Stuck(n, i) ==
    ns[n][i] = "pending" /\ \A p \in Sources(n, i) : ns[p][i] \in Done /\ <<p, i>> \notin stray

\* A pending node the scan resolves when it comes to it.
Due(n, i) ==
    /\ ns[n][i] = "pending"
    /\ ~UpstreamBroken(n, i)
    /\ NeverProduced(n, i) \/ JoinReady(n, i)

PendingHasSource ==
    \A n \in Node, i \in Iteration : ns[n][i] = "pending" => Sources(n, i) # {}

\* Only the open transaction knows of stuck nodes: it routes to them or scans their
\* iteration, whatever the status of the run is ...
StuckIsDue ==
    \A n \in Node, i \in Iteration : Stuck(n, i) =>
        \/ tx.stage = "route" /\ i = tx.iter /\ tx.node \in Pred(n)
        \/ tx.stage = "scan" /\ i = tx.iter

\* ... and the scan has yet to come to what it can resolve, or scans the round again:
\* every round that resolved something leaves fewer pending nodes, so the cap on the
\* rounds never ends a scan that still has something to do.
ScanIsBounded ==
    tx.stage = "scan" => \A n \in Node : Due(n, tx.iter) =>
        /\ Cardinality(PendingAt(tx.iter)) + tx.round <= Cardinality(Node)
        /\ n \notin tx.todo =>
                tx.changed /\ Cardinality(PendingAt(tx.iter)) + tx.round < Cardinality(Node)

PendInv == PendingHasSource /\ StuckIsDue /\ ScanIsBounded

LEMMA PendingIsFinite ==
    ASSUME NEW i
    PROVE  /\ IsFiniteSet(PendingAt(i))
           /\ Cardinality(PendingAt(i)) \in Nat
           /\ Cardinality(Node) \in Nat
<1>1. PendingAt(i) \subseteq Node /\ IsFiniteSet(Node)
    BY GraphAssumption DEF PendingAt
<1> QED
    BY <1>1, FS_Subset, FS_CardinalityType

\* Fewer pending nodes, strictly fewer when one of them moved.
LEMMA PendingShrinks ==
    ASSUME NEW S, IsFiniteSet(S), NEW T, T \subseteq S, NEW m \in S, m \notin T
    PROVE  Cardinality(T) + 1 <= Cardinality(S)
<1>1. IsFiniteSet(S \ {m}) /\ Cardinality(S \ {m}) = Cardinality(S) - 1
    BY FS_RemoveElement
<1>2. T \subseteq S \ {m}
    OBVIOUS
<1>3. Cardinality(T) <= Cardinality(S \ {m})
    BY <1>1, <1>2, FS_Subset
<1>4. Cardinality(S) \in Nat /\ Cardinality(T) \in Nat
    BY <1>1, <1>2, FS_Subset, FS_CardinalityType
<1> QED
    BY <1>1, <1>3, <1>4

\* The engine makes nothing pending, and only what the scan of the iteration
\* resolves leaves that state.
LEMMA NothingBecomesPending ==
    ASSUME TypeOK, TodoIsPending, Engine
    PROVE  \A n \in Node, i \in Iteration : ns'[n][i] = "pending" => ns[n][i] = "pending"
<1>1. CASE RouteEnd \/ ScanRound \/ DrainDone \/ Settle
    BY <1>1 DEF RouteEnd, ScanRound, DrainDone, Settle
<1>2. CASE RouteNone \/ RouteTaken \/ DrainNotice
    <2>1. \E S, s : s # "pending" /\ ns' = Moved(S, s)
        <3>1. CASE RouteNone
            BY <3>1 DEF RouteNone
        <3>2. CASE RouteTaken
            BY <3>2 DEF RouteTaken
        <3>3. CASE DrainNotice
            BY <3>3 DEF DrainNotice
        <3> QED
            BY <1>2, <3>1, <3>2, <3>3
    <2> QED
        BY <2>1 DEF Moved
<1>3. CASE Scan
    <2>1. PICK m \in Node : ScanFail(m) \/ ScanSkip(m) \/ ScanActivate(m) \/ ScanWait(m)
        BY <1>3 DEF Scan
    <2>2. CASE ScanFail(m) \/ ScanWait(m)
        BY <2>2 DEF ScanFail, ScanWait
    <2>3. CASE ScanSkip(m)
        BY <2>3 DEF ScanSkip, Moved
    <2>4. CASE ScanActivate(m)
        BY <2>4 DEF ScanActivate
    <2> QED
        BY <2>1, <2>2, <2>3, <2>4
<1> QED
    BY <1>1, <1>2, <1>3 DEF Engine

\* Every pending row keeps a source: rows only come with a whole replay, and a
\* replayed node other than the target is replayed with a predecessor.
LEMMA ReplayedHasSource ==
    ASSUME NEW t \in Node, NEW m \in Reachable({t}), m # t
    PROVE  \E p \in Reachable({t}) : p \in Pred(m)
<1> DEFINE R == Reachable({t})
<1> SUFFICES ASSUME \A p \in R : p \notin Pred(m)
             PROVE  FALSE
    OBVIOUS
<1>1. /\ {t} \subseteq R /\ R \subseteq Node /\ Closed(R)
      /\ \A C \in SUBSET Node : {t} \subseteq C /\ Closed(C) => R \subseteq C
    BY ReachableIsLeastClosed
<1> DEFINE C == R \ {m}
<1>2. C \in SUBSET Node /\ {t} \subseteq C
    BY <1>1
<1>3. Closed(C)
    BY <1>1 DEF Closed, Pred
<1> QED
    BY <1>1, <1>2, <1>3

LEMMA PendingSourceKept ==
    ASSUME RowInv, PendingHasSource, [Next]_vars
    PROVE  PendingHasSource'
<1>i. TypeOK /\ IterationsAreClosed /\ TodoIsPending /\ ApprovalHasNode /\ CompletedIsDecided
    BY DEF RowInv
<1>1. ASSUME RowsKept, \A n \in Node, i \in Iteration :
                ns'[n][i] = "pending" => ns[n][i] = "pending"
      PROVE  PendingHasSource'
    <2> SUFFICES ASSUME NEW n \in Node, NEW i \in Iteration, ns'[n][i] = "pending"
                 PROVE  Sources(n, i)' # {}
        BY DEF PendingHasSource
    <2>1. PICK p \in Pred(n) : Exists(p, i)
        BY <1>1 DEF PendingHasSource, Sources
    <2>2. Exists(p, i)'
        BY <1>1, <2>1, PredIsASource DEF RowsKept, Exists
    <2> QED
        BY <2>2 DEF Sources
<1>2. ASSUME NEW n \in Node, NEW i \in Iteration, NEW t \in Node, DeepReject(n, i, t)
      PROVE  PendingHasSource'
    <2> DEFINE next == NextIteration(t)
               R == Reachable({t})
    <2>1. /\ next \in Iteration
          /\ \A m \in R : m \in Node /\ Exists(m, next - 1)
          /\ \A m \in Node, j \in Iteration :
                ns'[m][j] = IF m \notin R THEN ns[m][j]
                            ELSE IF j = next THEN ReplayState(m, t)
                            ELSE IF ns[m][j] \in Stale THEN "terminated" ELSE ns[m][j]
        <3>1. Appended(t)
            BY <1>i, <1>2, DeepRejectAppends
        <3> QED
            BY <3>1 DEF Appended
    <2>2. \A m \in R : m # t => \E p \in R : p \in Pred(m)
        BY ReplayedHasSource
    <2>3. \A m \in Node, j \in Iteration : Exists(m, j) => Exists(m, j)'
        BY <1>i, <1>2, DeepRejectKeepsCompleted
    <2> HIDE DEF next, R
    <2> SUFFICES ASSUME NEW m \in Node, NEW j \in Iteration, ns'[m][j] = "pending"
                 PROVE  \E p \in Pred(m) : Exists(p, j)'
        BY DEF PendingHasSource, Sources
    <2>4. CASE m \in R /\ j = next
        <3>1. m # t
            BY <2>1, <2>4 DEF ReplayState
        <3>2. PICK p \in R : p \in Pred(m)
            BY <2>2, <2>4, <3>1
        <3>3. Exists(p, j)'
            BY <2>1, <2>4, <3>2 DEF Exists, ReplayState
        <3> QED
            BY <3>2, <3>3
    <2>5. CASE ~(m \in R /\ j = next)
        <3>1. ns[m][j] = "pending"
            BY <2>1, <2>5 DEF Stale
        <3>2. PICK p \in Pred(m) : Exists(p, j)
            BY <3>1 DEF PendingHasSource, Sources
        <3> QED
            BY <2>3, <3>2, PredIsASource
    <2> QED
        BY <2>4, <2>5
<1>3. ASSUME NEW n \in Node, NEW i \in Iteration,
             \/ Complete(n, i) \/ Takeover(n, i) \/ Suspend(n, i) \/ Resume(n, i)
             \/ ApprovalBlocked(n, i) \/ ApprovalVote(n, i) \/ ApprovalDecided(n, i)
      PROVE  PendingHasSource'
    <2>1. RowsKept
        BY <1>i, <1>3, CommandKeepsRows, PauseKeepsRows DEF Pause, Decide
    <2>2. \E s \in Operable \cup {"completed", "suspended"} : ns' = Moved({<<n, i>>}, s)
        <3>1. CASE Resume(n, i)
            BY <1>i, <3>1 DEF Resume, TypeOK, Operable
        <3>2. CASE ~Resume(n, i)
            <4>1. \/ ns' = Moved({<<n, i>>}, "completed")
                  \/ ns' = Moved({<<n, i>>}, "activated")
                  \/ ns' = Moved({<<n, i>>}, "acknowledged")
                  \/ ns' = Moved({<<n, i>>}, "suspended")
                BY <1>3, <3>2 DEF Complete, Takeover, Suspend, ApprovalBlocked, ApprovalVote,
                                  ApprovalDecided
            <4> QED
                BY <4>1 DEF Operable
        <3> QED
            BY <3>1, <3>2
    <2>3. \A m \in Node, j \in Iteration : ns'[m][j] = "pending" => ns[m][j] = "pending"
        BY <2>2 DEF Moved, Operable
    <2> QED
        BY <1>1, <2>1, <2>3
<1>4. CASE Cancel
    <2>1. \A m \in Node, j \in Iteration : ns'[m][j] = "pending" => ns[m][j] = "pending"
        BY <1>4 DEF Cancel
    <2> QED
        BY <1>i, <1>1, <1>4, <2>1, CommandKeepsRows
<1>5. CASE Engine
    <2>1. \A m \in Node, j \in Iteration : ns'[m][j] = "pending" => ns[m][j] = "pending"
        BY <1>i, <1>5, NothingBecomesPending
    <2> QED
        BY <1>i, <1>1, <1>5, <2>1, EngineKeepsRows
<1>6. CASE UNCHANGED vars
    BY <1>6 DEF vars, PendingHasSource, Sources, Exists
<1>7. ASSUME NEW n \in Node, NEW i \in Iteration, TaskWrote(n, i)
      PROVE  PendingHasSource'
    <2>1. \A m \in Node, j \in Iteration : ns'[m][j] = "pending" => ns[m][j] = "pending"
        BY <1>7 DEF TaskWrote
    <2> QED
        BY <1>i, <1>1, <1>7, <2>1, TasksKeepRows
<1> QED
    BY <1>i, <1>2, <1>3, <1>4, <1>5, <1>6, <1>7, TasksWrite DEF Next, Work, Pause, Decide

\* A node gets stuck when the last of its sources closes, in turn.
LEMMA StuckComesFromASource ==
    ASSUME RowsKept, stray \subseteq stray',
           \A n \in Node, i \in Iteration : ns'[n][i] = "pending" => ns[n][i] = "pending",
           NEW n \in Node, NEW i \in Iteration, Stuck(n, i)', ~Stuck(n, i)
    PROVE  \E p \in Pred(n) :
                /\ p \in Node /\ ns[p][i] \notin Done /\ ns'[p][i] \in Done
                /\ <<p, i>> \notin stray'
<1>1. PICK p \in Sources(n, i) : ns[p][i] \notin Done \/ <<p, i>> \in stray
    BY DEF Stuck
<1>2. p \in Pred(n) /\ Exists(p, i)
    BY <1>1 DEF Sources
<1>3. p \in Node
    BY <1>2, PredIsASource
<1>4. p \in Sources(n, i)'
    BY <1>2, <1>3 DEF Sources, Exists, RowsKept
<1>5. ns'[p][i] \in Done /\ <<p, i>> \notin stray'
    BY <1>4 DEF Stuck
<1> QED
    BY <1>1, <1>2, <1>3, <1>5

\* Outside a route and a scan there is no stuck node.
LEMMA OpenedRouteIsDue ==
    ASSUME StuckIsDue, RowsKept, stray \subseteq stray',
           NEW n \in Node, NEW i \in Iteration, NEW nested,
           tx.stage \notin {"route", "scan"},
           ns'[n][i] = "completed",
           \A m \in Node, j \in Iteration : m # n \/ j # i => ns'[m][j] = ns[m][j],
           tx' = Routing(n, i, nested)
    PROVE  StuckIsDue' /\ ScanIsBounded'
<1>1. tx'.stage = "route" /\ tx'.node = n /\ tx'.iter = i
    BY DEF Routing, Idle
<1>2. \A k \in Node, l \in Iteration : ns'[k][l] = "pending" => ns[k][l] = "pending"
    OBVIOUS
<1>3. ASSUME NEW m \in Node, NEW j \in Iteration, Stuck(m, j)'
      PROVE  j = i /\ n \in Pred(m)
    <2>1. ~Stuck(m, j)
        BY DEF StuckIsDue
    <2>2. PICK p \in Pred(m) : p \in Node /\ ns[p][j] \notin Done /\ ns'[p][j] \in Done
        BY <1>2, <1>3, <2>1, StuckComesFromASource
    <2> QED
        BY <2>2
<1>4. StuckIsDue'
    BY <1>1, <1>3 DEF StuckIsDue
<1> QED
    BY <1>1, <1>4 DEF ScanIsBounded

\* Steps after which no source of a pending node has closed in turn.
LEMMA NothingGetsStuck ==
    ASSUME StuckIsDue, RowsKept, stray \subseteq stray',
           tx.stage \notin {"route", "scan"}, tx'.stage \notin {"route", "scan"},
           \A n \in Node, i \in Iteration :
                /\ ns'[n][i] = "pending" => ns[n][i] = "pending"
                /\ ns'[n][i] \in Done => ns[n][i] \in Done \/ <<n, i>> \in stray'
    PROVE  StuckIsDue' /\ ScanIsBounded'
<1>1. ASSUME NEW m \in Node, NEW j \in Iteration, Stuck(m, j)'
      PROVE  FALSE
    <2>1. ~Stuck(m, j)
        BY DEF StuckIsDue
    <2>2. PICK p \in Pred(m) :
                /\ p \in Node /\ ns[p][j] \notin Done /\ ns'[p][j] \in Done
                /\ <<p, j>> \notin stray'
        BY <1>1, <2>1, StuckComesFromASource
    <2> QED
        BY <2>2
<1> QED
    BY <1>1 DEF StuckIsDue, ScanIsBounded

\* A deep reject closes a source only together with its successors.
LEMMA DeepRejectLeavesNoneStuck ==
    ASSUME RowInv, StuckIsDue,
           NEW n \in Node, NEW i \in Iteration, NEW t \in Node, DeepReject(n, i, t)
    PROVE  StuckIsDue' /\ ScanIsBounded'
<1> DEFINE next == NextIteration(t)
           R == Reachable({t})
<1>1. /\ next \in Iteration /\ next > 1
      /\ \A m \in R : m \in Node /\ Exists(m, next - 1)
      /\ \A m \in R, j \in Iteration : j >= next => ns[m][j] = "absent"
      /\ \A m \in Node, j \in Iteration :
            ns'[m][j] = IF m \notin R THEN ns[m][j]
                        ELSE IF j = next THEN ReplayState(m, t)
                        ELSE IF ns[m][j] \in Stale THEN "terminated" ELSE ns[m][j]
    <2>1. Appended(t)
        BY DeepRejectAppends DEF RowInv
    <2> QED
        BY <2>1 DEF Appended
<1>2. Closed(R)
    BY ReachableIsLeastClosed
<1>3. \A m \in R : m # t => \E p \in R : p \in Pred(m)
    BY ReplayedHasSource
<1>4. tx' = tx /\ tx.stage = "idle" /\ stray' = stray
    BY DEF DeepReject, turn
<1> HIDE DEF next, R
<1>5. ASSUME NEW m \in Node, NEW j \in Iteration, Stuck(m, j)'
      PROVE  FALSE
    <2>0. /\ ns'[m][j] = "pending"
          /\ \A p \in Sources(m, j)' : ns'[p][j] \in Done /\ <<p, j>> \notin stray'
        BY <1>5 DEF Stuck
    <2>1. CASE m \in R
        <3>1. j = next /\ m # t
            BY <1>1, <2>0, <2>1 DEF Stale, ReplayState
        <3>2. PICK p \in R : p \in Pred(m)
            BY <1>3, <2>1, <3>1
        <3>3. ns'[p][j] \in {"activated", "pending"}
            BY <1>1, <3>1, <3>2 DEF ReplayState
        <3>4. p \in Sources(m, j)'
            BY <3>2, <3>3 DEF Sources, Exists
        <3> QED
            BY <2>0, <3>3, <3>4 DEF Done
    <2>2. CASE m \notin R
        <3>1. ~Stuck(m, j)
            BY <1>4 DEF StuckIsDue
        <3>2. ns[m][j] = "pending"
            BY <1>1, <2>0, <2>2
        <3>3. PICK p \in Pred(m) : Exists(p, j) /\ (ns[p][j] \notin Done \/ <<p, j>> \in stray)
            BY <3>1, <3>2 DEF Stuck, Sources
        <3>4. p \in Node /\ <<p, m>> \in Edge
            BY PredIsASource
        <3>5. p \notin R
            <4>1. <<p, m>>[1] \in R => <<p, m>>[2] \in R
                BY <1>2, <3>4 DEF Closed
            <4> QED
                BY <2>2, <4>1
        <3>6. ns'[p][j] = ns[p][j]
            BY <1>1, <3>4, <3>5
        <3>7. p \in Sources(m, j)'
            BY <3>3, <3>6 DEF Sources, Exists
        <3> QED
            BY <1>4, <2>0, <3>3, <3>6, <3>7
    <2> QED
        BY <2>1, <2>2
<1> QED
    BY <1>4, <1>5 DEF StuckIsDue, ScanIsBounded

\* What a scan step does besides resolving its node.
LEMMA ScanResolves ==
    ASSUME RowInv, tx.stage = "scan", NEW m \in Node, NEW changed \in BOOLEAN, Resolve(m, changed)
    PROVE  /\ tx'.stage = "scan" /\ tx'.iter = tx.iter /\ tx'.round = tx.round
           /\ tx'.todo = tx.todo \ {m}
           /\ tx'.changed = (tx.changed \/ changed)
           /\ tx.iter \in Iteration /\ tx.round \in Nat /\ tx.changed \in BOOLEAN
    BY DEF Resolve, RowInv, TypeOK, Transaction

\* A pending node whose sources are all closed is never told to wait.
LEMMA StuckIsResolved ==
    ASSUME RowInv, EarnedInv, PendingHasSource,
           NEW m \in Node, NEW i \in Iteration, Stuck(m, i)
    PROVE  Due(m, i)
<1>1. /\ ns[m][i] = "pending"
      /\ Sources(m, i) # {}
      /\ \A p \in Sources(m, i) : ns[p][i] \in Done /\ <<p, i>> \notin stray
    BY DEF Stuck, PendingHasSource
<1>2. ~UpstreamBroken(m, i)
    BY <1>1 DEF UpstreamBroken, Done
<1>3. CASE Winners(m, i) = {}
    BY <1>1, <1>2, <1>3 DEF Due, NeverProduced
<1>4. CASE Winners(m, i) # {}
    <2>1. PICK p \in Pred(m) : <<p, m, i>> \in dep
        BY <1>4 DEF Winners
    <2>2. ns[p][i] = "completed" \/ <<p, i>> \in stray
        BY <2>1 DEF EarnedInv, DependencyIsEarned
    <2>3. p \in Sources(m, i)
        BY <2>2, PredIsASource DEF Sources, Exists, RowInv, StrayIsTouched, Touched
    <2>4. p \in Effective(m, i)
        BY <1>1, <2>2, <2>3 DEF Effective
    <2>5. \A q \in Effective(m, i) : ns[q][i] = "completed"
        BY <1>1 DEF Effective, Done
    <2> QED
        BY <1>1, <1>2, <1>4, <2>4, <2>5 DEF Due, JoinReady
<1> QED
    BY <1>3, <1>4

\* A route moves rows of its own iteration only.
LEMMA OnlyItsIterationMoves ==
    ASSUME RouteTaken \/ RouteNone, NEW i \in Iteration, i # tx.iter
    PROVE  \A k \in Node : ns'[k][i] = ns[k][i]
<1>1. CASE RouteTaken
    <2>1. PICK L : ns' = Moved(L \X {tx.iter}, "skipped")
        BY <1>1 DEF RouteTaken
    <2> QED
        BY <2>1 DEF Moved
<1>2. CASE RouteNone
    BY <1>2 DEF RouteNone, Moved
<1> QED
    BY <1>1, <1>2

\* What is stuck in an iteration whose rows and marks are kept was stuck before.
LEMMA StuckElsewhere ==
    ASSUME NEW n \in Node, NEW i \in Iteration, stray' = stray,
           \A k \in Node : ns'[k][i] = ns[k][i], Stuck(n, i)'
    PROVE  Stuck(n, i)
<1>1. \A p \in Sources(n, i) : p \in Node /\ p \in Sources(n, i)'
    BY PredIsASource DEF Sources, Exists
<1> QED
    BY <1>1 DEF Stuck

LEMMA RouteTakenIsBounded ==
    ASSUME RowInv, EarnedInv, StuckIsDue, RouteTaken
    PROVE  StuckIsDue' /\ ScanIsBounded'
<1> DEFINE T == {m \in Node : ns'[m][tx.iter] = "pending"}
<1>1. tx' = Scanning(tx.iter, T, 1) /\ tx.stage = "route" /\ stray' = stray
    BY DEF RouteTaken, turn
<1>2. tx.iter \in Iteration /\ tx.node \in Node
    BY DEF RowInv, TypeOK, Transaction
<1>3. tx'.stage = "scan" /\ tx'.iter = tx.iter /\ tx'.todo = T /\ tx'.round = 1 /\ ~tx'.changed
    BY <1>1 DEF Scanning, Idle
<1>4. CompletedKept /\ NoNewLive /\ RowsKept
    BY EngineKeepsRows DEF RowInv, Engine
<1>5. StuckIsDue'
    <2> SUFFICES ASSUME NEW n \in Node, NEW i \in Iteration, Stuck(n, i)', i # tx.iter
                 PROVE  FALSE
        BY <1>3 DEF StuckIsDue
    <2>1. Stuck(n, i)
        BY <1>1, OnlyItsIterationMoves, StuckElsewhere
    <2> QED
        BY <1>1, <2>1 DEF StuckIsDue
<1>6. ScanIsBounded'
    <2>1. tx.node \notin T
        <3>1. ns[tx.node][tx.iter] = "completed"
            BY <1>1 DEF EarnedInv, RouteIsFresh
        <3>2. \E S : ns' = Moved(S, "skipped")
            BY DEF RouteTaken
        <3> QED
            BY <1>2, <3>1, <3>2 DEF Moved
    <2>2. Cardinality(T) + 1 <= Cardinality(Node)
        BY <1>2, <2>1, PendingShrinks, GraphAssumption
    <2>3. PendingAt(tx.iter)' = T
        BY <1>3 DEF PendingAt
    <2>4. \A n \in Node : Due(n, tx.iter)' => n \in T
        BY <1>3 DEF Due
    <2> HIDE DEF T
    <2> QED
        BY <1>3, <2>2, <2>3, <2>4 DEF ScanIsBounded
<1> QED
    BY <1>5, <1>6

\* A run that fails because no route matches skips what could get stuck.
LEMMA RouteNoneLeavesNoneStuck ==
    ASSUME RowInv, EarnedInv, StuckIsDue, RouteNone
    PROVE  StuckIsDue' /\ ScanIsBounded'
<1> DEFINE S == {<<m, tx.iter>> : m \in {k \in Node \ {tx.node} : ns[k][tx.iter] = "pending"}}
<1>1. /\ tx' \in {Draining, Idle} /\ tx.stage = "route" /\ stray' = stray
      /\ ns' = Moved(S, "skipped")
    BY DEF RouteNone, turn
<1>2. tx.iter \in Iteration /\ tx.node \in Node /\ ns[tx.node][tx.iter] = "completed"
    BY <1>1 DEF RowInv, TypeOK, Transaction, EarnedInv, RouteIsFresh
<1>3. \A m \in Node : ns'[m][tx.iter] # "pending"
    <2>1. \A m \in Node : ns[m][tx.iter] = "pending" => <<m, tx.iter>> \in S
        BY <1>2
    <2> HIDE DEF S
    <2> QED
        BY <1>1, <1>2, <2>1 DEF Moved
<1>4. ASSUME NEW n \in Node, NEW i \in Iteration, Stuck(n, i)'
      PROVE  FALSE
    <2>1. i # tx.iter
        BY <1>3, <1>4 DEF Stuck
    <2>2. Stuck(n, i)
        BY <1>1, <1>4, <2>1, OnlyItsIterationMoves, StuckElsewhere
    <2> QED
        BY <1>1, <2>1, <2>2 DEF StuckIsDue
<1>5. tx'.stage # "scan"
    BY <1>1 DEF Draining, Idle
<1> QED
    BY <1>4, <1>5 DEF StuckIsDue, ScanIsBounded

LEMMA ScanKeepsBounded ==
    ASSUME RowInv, PendInv, Scan
    PROVE  StuckIsDue' /\ ScanIsBounded'
<1>1. PICK m \in Node : /\ IsNext(m)
                        /\ ScanFail(m) \/ ScanSkip(m) \/ ScanActivate(m) \/ ScanWait(m)
    BY DEF Scan
<1>2. /\ tx.stage = "scan" /\ m \in tx.todo /\ ns[m][tx.iter] = "pending"
      /\ tx.iter \in Iteration /\ tx.round \in Nat
    BY <1>1 DEF Scan, IsNext, RowInv, TodoIsPending, TypeOK, Transaction
<1>3. CASE ScanFail(m) \/ ScanWait(m)
    <2>1. PICK changed \in BOOLEAN : Resolve(m, changed)
        BY <1>3 DEF ScanFail, ScanWait
    <2>2. /\ tx'.stage = "scan" /\ tx'.iter = tx.iter /\ tx'.round = tx.round
          /\ tx'.todo = tx.todo \ {m} /\ tx'.changed = (tx.changed \/ changed)
        BY <1>2, <2>1, ScanResolves
    <2>3. ns' = ns /\ dep' = dep /\ stray' = stray
        BY <1>3 DEF ScanFail, ScanWait, turn
    <2>4. ~Due(m, tx.iter)
        BY <1>3 DEF ScanFail, ScanWait, Due
    <2>5. /\ \A n, i : Stuck(n, i)' <=> Stuck(n, i)
          /\ \A n : Due(n, tx.iter)' <=> Due(n, tx.iter)
          /\ PendingAt(tx.iter)' = PendingAt(tx.iter)
        BY <2>2, <2>3 DEF Stuck, Due, UpstreamBroken, NeverProduced, JoinReady, Winners, Effective,
                          Sources, Exists, PendingAt
    <2>6. StuckIsDue'
        BY <1>2, <2>2, <2>5 DEF PendInv, StuckIsDue
    <2>7. ScanIsBounded'
        <3> SUFFICES ASSUME NEW n \in Node, Due(n, tx.iter)
                       PROVE  /\ Cardinality(PendingAt(tx.iter)) + tx.round <= Cardinality(Node)
                              /\ n \notin tx.todo \ {m} =>
                                    /\ tx.changed
                                    /\ Cardinality(PendingAt(tx.iter)) + tx.round < Cardinality(Node)
            BY <2>2, <2>5 DEF ScanIsBounded
        <3>2. n # m
            BY <2>4
        <3> QED
            BY <1>2, <3>2 DEF PendInv, ScanIsBounded
    <2> QED
        BY <2>6, <2>7
<1>5. CASE ScanSkip(m) \/ ScanActivate(m)
    <2>1. Resolve(m, TRUE) /\ stray' = stray
        BY <1>5 DEF ScanSkip, ScanActivate, turn
    <2>2. /\ tx'.stage = "scan" /\ tx'.iter = tx.iter /\ tx'.round = tx.round /\ tx'.changed
        BY <1>2, <2>1, ScanResolves
    <2>3. \A n \in Node, i \in Iteration : i # tx.iter => ns'[n][i] = ns[n][i]
        <3>1. CASE ScanSkip(m)
            BY <3>1 DEF ScanSkip, Moved
        <3>2. CASE ScanActivate(m)
            BY <3>2 DEF ScanActivate
        <3> QED
            BY <1>5, <3>1, <3>2
    <2>4. ASSUME NEW n \in Node, NEW i \in Iteration, i # tx.iter, Stuck(n, i)'
          PROVE  Stuck(n, i)
        BY <2>1, <2>3, <2>4, StuckElsewhere
    <2>5. StuckIsDue'
        BY <1>2, <2>2, <2>4 DEF PendInv, StuckIsDue
    <2>6. m \in PendingAt(tx.iter)
        BY <1>2 DEF PendingAt
    <2>7. PendingAt(tx.iter)' \subseteq PendingAt(tx.iter)
        BY <1>2, <2>2, NothingBecomesPending DEF PendingAt, RowInv, Engine
    <2>8. m \notin PendingAt(tx.iter)'
        <3>1. ns'[m][tx.iter] # "pending"
            BY <1>2, <1>5 DEF ScanSkip, ScanActivate, Moved
        <3> QED
            BY <2>2, <3>1 DEF PendingAt
    <2>9. Cardinality(PendingAt(tx.iter)') + 1 <= Cardinality(PendingAt(tx.iter))
        BY <2>6, <2>7, <2>8, PendingShrinks, PendingIsFinite
    <2>10. ScanIsBounded'
        <3>1. /\ Cardinality(PendingAt(tx.iter)) \in Nat /\ Cardinality(Node) \in Nat
              /\ IsFiniteSet(PendingAt(tx.iter))
            BY PendingIsFinite
        <3>2. Cardinality(PendingAt(tx.iter)') \in Nat
            BY <2>7, <3>1, FS_Subset, FS_CardinalityType
        <3>3. Due(m, tx.iter)
            BY <1>2, <1>5 DEF ScanSkip, ScanActivate, Due
        <3>4. Cardinality(PendingAt(tx.iter)) + tx.round <= Cardinality(Node)
            BY <1>2, <3>3 DEF PendInv, ScanIsBounded
        <3> QED
            BY <1>2, <2>2, <2>9, <3>1, <3>2, <3>4 DEF ScanIsBounded
    <2> QED
        BY <2>5, <2>10
<1> QED
    BY <1>1, <1>3, <1>5

\* A round that resolved something is followed by another: the cap is never hit.
LEMMA ScanRoundKeepsBounded ==
    ASSUME RowInv, EarnedInv, PendInv, ScanRound
    PROVE  StuckIsDue' /\ ScanIsBounded'
<1> DEFINE T == {m \in Node : ns[m][tx.iter] = "pending"}
           next == Scanning(tx.iter, T, tx.round + 1)
<1>1. tx.stage = "scan" /\ tx.todo = {} /\ ns' = ns /\ dep' = dep /\ stray' = stray
    BY DEF ScanRound, turn
<1>2. /\ tx.round \in Nat /\ Cardinality(T) \in Nat /\ Cardinality(Node) \in Nat
      /\ tx.iter \in Iteration
    BY PendingIsFinite DEF RowInv, TypeOK, Transaction, PendingAt
<1>3. /\ next.stage = "scan" /\ next.iter = tx.iter /\ next.todo = T /\ ~next.changed
      /\ next.round = tx.round + 1
      /\ Draining.stage = "drain"
    BY DEF Scanning, Draining, Idle
<1>4. /\ \A n, i : Stuck(n, i)' <=> Stuck(n, i)
      /\ \A n, i : Due(n, i)' <=> Due(n, i)
    BY <1>1 DEF Stuck, Due, UpstreamBroken, NeverProduced, JoinReady, Winners, Effective, Sources,
                Exists
<1>5. PendingAt(tx.iter) = T
    BY DEF PendingAt
<1>6. \A n \in Node : Due(n, tx.iter) =>
        n \in T /\ tx.changed /\ Cardinality(T) + tx.round < Cardinality(Node)
    BY <1>1, <1>5 DEF PendInv, ScanIsBounded, Due
<1> HIDE DEF T, next
<1>7. CASE tx.changed /\ tx.round < Cardinality(Node)
    <2>1. tx' = next
        BY <1>7 DEF ScanRound, next, T
    <2>2. StuckIsDue'
        BY <1>1, <1>3, <1>4, <2>1 DEF PendInv, StuckIsDue
    <2>3. PendingAt(tx.iter)' = T
        BY <1>1, <1>3, <1>5, <2>1 DEF PendingAt, T
    <2>4. ScanIsBounded'
        BY <1>2, <1>3, <1>4, <1>6, <2>1, <2>3 DEF ScanIsBounded
    <2> QED
        BY <2>2, <2>4
<1>8. CASE ~(tx.changed /\ tx.round < Cardinality(Node))
    <2>1. tx' = Draining
        BY <1>8 DEF ScanRound
    <2>2. \A n \in Node : ~Due(n, tx.iter)
        BY <1>2, <1>6, <1>8
    <2>3. ASSUME NEW n \in Node, NEW i \in Iteration, Stuck(n, i)
          PROVE  FALSE
        <3>1. Due(n, i)
            BY <2>3, StuckIsResolved DEF PendInv
        <3>2. i = tx.iter
            BY <1>1, <2>3 DEF PendInv, StuckIsDue
        <3> QED
            BY <2>2, <3>1, <3>2
    <2>4. StuckIsDue'
        BY <1>4, <2>3 DEF StuckIsDue
    <2> QED
        BY <1>3, <2>1, <2>4 DEF ScanIsBounded
<1> QED
    BY <1>7, <1>8

LEMMA PendIsInductive ==
    ASSUME RowInv, EarnedInv, PendInv, [Next]_vars
    PROVE  PendInv'
<1>i. TypeOK /\ IterationsAreClosed /\ TodoIsPending /\ ApprovalHasNode /\ CompletedIsDecided
    BY DEF RowInv
<1>p. StuckIsDue /\ PendingHasSource /\ PendingHasSource'
    BY PendingSourceKept DEF PendInv
<1>k. stray \subseteq stray'
    BY <1>i, StraysAreKept
<1>s. Draining.stage = "drain" /\ Settling.stage = "settle" /\ Idle.stage = "idle"
    BY DEF Draining, Settling, Idle
<1>1. CASE Engine
    <2>1. CASE RouteEnd
        <3>1. ASSUME NEW n, tx.node \in Pred(n)
              PROVE  FALSE
            <4>1. <<tx.node, n>> \in Out(tx.node)
                BY <3>1, PredIsASource DEF Out
            <4> QED
                BY <2>1, <4>1 DEF RouteEnd
        <3>2. /\ tx.stage = "route" /\ tx' \in {Draining, Settling} /\ ns' = ns /\ stray' = stray
            BY <2>1 DEF RouteEnd, turn
        <3>3. \A n, i : Stuck(n, i)' <=> Stuck(n, i)
            BY <3>2 DEF Stuck, Sources, Exists
        <3>4. tx'.stage \notin {"route", "scan"}
            BY <1>s, <3>2
        <3>5. StuckIsDue'
            BY <1>p, <3>1, <3>2, <3>3 DEF StuckIsDue
        <3> QED
            BY <1>p, <3>4, <3>5 DEF PendInv, ScanIsBounded
    <2>2. CASE RouteNone
        BY <1>p, <2>2, RouteNoneLeavesNoneStuck DEF PendInv
    <2>3. CASE RouteTaken
        BY <1>p, <2>3, RouteTakenIsBounded DEF PendInv
    <2>4. CASE Scan
        BY <1>p, <2>4, ScanKeepsBounded DEF PendInv
    <2>5. CASE ScanRound
        BY <1>p, <2>5, ScanRoundKeepsBounded DEF PendInv
    <2>6. CASE DrainNotice
        <3>1. PICK n \in Node, i \in Iteration :
                ns' = Moved({<<n, i>>}, "completed") /\ tx' = Routing(n, i, TRUE)
            BY <2>6 DEF DrainNotice
        <3>2. tx.stage = "drain" /\ RowsKept
            BY <1>i, <1>1, <2>6, EngineKeepsRows DEF DrainNotice
        <3>3. /\ ns'[n][i] = "completed"
              /\ \A m \in Node, j \in Iteration : m # n \/ j # i => ns'[m][j] = ns[m][j]
            BY <3>1 DEF Moved
        <3> QED
            BY <1>k, <1>p, <3>1, <3>2, <3>3, OpenedRouteIsDue DEF PendInv
    <2>7. CASE DrainDone \/ Settle
        <3>1. ns' = ns /\ tx' \in {Settling, Idle} /\ tx.stage \in {"drain", "settle"}
            BY <2>7 DEF DrainDone, Settle
        <3> QED
            BY <1>k, <1>p, <1>s, <3>1, NothingGetsStuck DEF PendInv, RowsKept
    <2> QED
        BY <1>1, <2>1, <2>2, <2>3, <2>4, <2>5, <2>6, <2>7 DEF Engine
<1>2. ASSUME NEW n \in Node, NEW i \in Iteration, Complete(n, i) \/ ApprovalDecided(n, i)
      PROVE  PendInv'
    <2>1. RowsKept
        BY <1>i, <1>2, CommandKeepsRows, PauseKeepsRows DEF Decide
    <2>2. /\ ns' = Moved({<<n, i>>}, "completed") /\ tx' = Routing(n, i, FALSE)
          /\ tx.stage = "idle"
        BY <1>2 DEF Complete, ApprovalDecided
    <2>3. /\ ns'[n][i] = "completed"
          /\ \A m \in Node, j \in Iteration : m # n \/ j # i => ns'[m][j] = ns[m][j]
        BY <2>2 DEF Moved
    <2> QED
        BY <1>k, <1>p, <2>1, <2>2, <2>3, OpenedRouteIsDue DEF PendInv
<1>3. ASSUME NEW n \in Node, NEW i \in Iteration,
             \/ Takeover(n, i) \/ Suspend(n, i) \/ Resume(n, i)
             \/ ApprovalBlocked(n, i) \/ ApprovalVote(n, i)
      PROVE  PendInv'
    <2>1. RowsKept
        BY <1>i, <1>3, CommandKeepsRows, PauseKeepsRows DEF Pause, Decide
    <2>2. \E s \in {"activated", "acknowledged", "suspended"} : ns' = Moved({<<n, i>>}, s)
        <3>1. CASE Resume(n, i)
            <4>1. held[n][i] \in {"activated", "acknowledged"}
                BY <1>i, <3>1 DEF Resume, TypeOK, Operable
            <4> QED
                BY <3>1, <4>1 DEF Resume
        <3>2. CASE ~Resume(n, i)
            BY <1>3, <3>2 DEF Takeover, Suspend, ApprovalBlocked, ApprovalVote
        <3> QED
            BY <3>1, <3>2
    <2>3. tx' = tx /\ tx.stage = "idle"
        BY <1>3 DEF Takeover, Suspend, Resume, ApprovalBlocked, ApprovalVote
    <2>4. \A m \in Node, j \in Iteration :
            /\ ns'[m][j] = "pending" => ns[m][j] = "pending"
            /\ ns'[m][j] \in Done => ns[m][j] \in Done
        BY <2>2 DEF Moved, Done
    <2> QED
        BY <1>k, <1>p, <2>1, <2>3, <2>4, NothingGetsStuck DEF PendInv
<1>4. ASSUME NEW n \in Node, NEW i \in Iteration, NEW t \in Node, DeepReject(n, i, t)
      PROVE  PendInv'
    BY <1>p, <1>4, DeepRejectLeavesNoneStuck DEF PendInv
<1>5. CASE Cancel
    <2>1. \A n \in Node, i \in Iteration : ns'[n][i] # "pending"
        BY <1>5 DEF Cancel
    <2>2. tx'.stage = "idle"
        BY <1>5 DEF Cancel
    <2> QED
        BY <1>p, <2>1, <2>2 DEF PendInv, StuckIsDue, Stuck, ScanIsBounded
<1>6. CASE UNCHANGED vars
    <2>1. ns' = ns /\ tx' = tx /\ dep' = dep /\ stray' = stray
        BY <1>6 DEF vars, turn
    <2>2. /\ \A n, i : Stuck(n, i)' <=> Stuck(n, i)
          /\ \A n : Due(n, tx.iter)' <=> Due(n, tx.iter)
          /\ PendingAt(tx.iter)' = PendingAt(tx.iter)
        BY <2>1 DEF Stuck, Due, UpstreamBroken, NeverProduced, JoinReady, Winners, Effective,
                    Sources, Exists, PendingAt
    <2> QED
        BY <1>p, <2>1, <2>2 DEF PendInv, StuckIsDue, ScanIsBounded
<1>7. ASSUME NEW n \in Node, NEW i \in Iteration, TaskWrote(n, i)
      PROVE  PendInv'
    <2>1. RowsKept
        BY <1>i, <1>7, TasksKeepRows
    <2>2. tx.stage = "idle"
        BY <1>7 DEF TaskWrote
    <2>3. \/ tx' = tx
          \/ tx' = Routing(n, i, FALSE) /\ ns'[n][i] = "completed"
        BY <1>7 DEF TaskWrote
    <2>4. \A m \in Node, j \in Iteration : m # n \/ j # i => ns'[m][j] = ns[m][j]
        BY <1>7 DEF TaskWrote
    <2>5. CASE tx' = Routing(n, i, FALSE) /\ ns'[n][i] = "completed"
        BY <1>k, <1>p, <2>1, <2>2, <2>4, <2>5, OpenedRouteIsDue DEF PendInv
    <2>6. CASE tx' = tx
        <3>1. ns'[n][i] \in Done => ns[n][i] \in Done \/ <<n, i>> \in stray'
            <4>1. tx'.stage # "route"
                BY <2>2, <2>6
            <4>2. tx' # Routing(n, i, FALSE)
                BY <4>1 DEF Routing, Idle
            <4>3. <<n, i>> \in stray' \/ ns'[n][i] \in Operable
                BY <1>7, <4>2 DEF TaskWrote
            <4> QED
                BY <4>3 DEF Operable, Done
        <3>2. ns'[n][i] = "pending" => ns[n][i] = "pending"
            BY <1>7 DEF TaskWrote
        <3> QED
            BY <1>k, <1>p, <2>1, <2>2, <2>4, <2>6, <3>1, <3>2, NothingGetsStuck DEF PendInv
    <2> QED
        BY <2>3, <2>5, <2>6
<1> QED
    BY <1>i, <1>1, <1>2, <1>3, <1>4, <1>5, <1>6, <1>7, TasksWrite DEF Next, Work, Pause, Decide

LEMMA PendIsInitial ==
    ASSUME Init
    PROVE  PendInv
<1>1. tx.stage = "drain"
    BY DEF Init, Draining, Idle
<1>2. \A n \in Node : ns[n][1] \in {"activated", "pending"}
    BY IterationAssumption DEF Init, Iteration
<1>3. ASSUME NEW n \in Node, NEW i \in Iteration, ns[n][i] = "pending"
      PROVE  \E p \in Sources(n, i) : ns[p][i] \notin Done
    <2>1. i = 1 /\ n \notin StartNodes
        BY <1>3 DEF Init, Iteration
    <2>2. PICK p \in Pred(n) : TRUE
        BY <2>1 DEF StartNodes
    <2>3. ns[p][1] \in {"activated", "pending"}
        BY <1>2, <2>2, PredIsASource
    <2> QED
        BY <2>1, <2>3 DEF Sources, Exists, Done
<1>4. PendingHasSource
    BY <1>3 DEF PendingHasSource
<1>5. StuckIsDue
    BY <1>3 DEF StuckIsDue, Stuck
<1> QED
    BY <1>1, <1>4, <1>5 DEF PendInv, ScanIsBounded

\* Between transactions a pending node of an active run still has a source that
\* may complete, or one that was written out of turn: the scan, with its cap on the
\* rounds, leaves no join behind, nor does a run that failed and is reopened.
THEOREM NoJoinIsLeftBehind == Spec => []PendingStillHasSource
<1>1. Init => EarnedInv /\ PendInv
    BY EarnedIsInitial, PendIsInitial
<1>2. RowInv /\ EarnedInv /\ PendInv /\ [Next]_vars => EarnedInv' /\ PendInv'
    BY EarnedIsInductive, PendIsInductive
<1>3. PendInv => PendingStillHasSource
    <2> SUFFICES ASSUME PendInv, tx.stage = "idle", run = "active",
                        NEW n \in Node, NEW i \in Iteration, ns[n][i] = "pending"
                 PROVE  \E p \in Sources(n, i) : ns[p][i] \notin Done \/ <<p, i>> \in stray
        BY DEF PendingStillHasSource, Quiet
    <2>1. ~Stuck(n, i)
        BY DEF PendInv, StuckIsDue
    <2> QED
        BY <2>1 DEF Stuck
<1> QED
    BY <1>1, <1>2, <1>3, RowsAreSound, PTL DEF Spec

-----------------------------------------------------------------------------
(* Races are revoked *)

\* A branch that was routed to is opened by the scan of the same transaction.
OpenBranchIsDue ==
    \A s, p \in Node, i \in Iteration :
        Pred(p) = {s} /\ ns[p][i] = "pending" /\ <<s, p, i>> \in dep =>
            tx.stage = "scan" /\ i = tx.iter /\ p \in tx.todo /\ ns[s][i] = "completed"

\* The branches of a fork stop waiting together, in one transaction: beside one that is
\* pending no other has completed.  (A replay that began at the other one has taken
\* what follows it along.)
BranchesOpenTogether ==
    \A s, p, q \in Node, i \in Iteration :
        /\ Pred(p) = {s} /\ Pred(q) = {s}
        /\ ns[p][i] = "pending"
        /\ Exists(s, i)
        /\ Touched(q, i) \/ <<s, q, i>> \in dep
        => \/ /\ <<s, p, i>> \in dep
              /\ ns[q][i] # "completed"
              /\ <<q, i>> \notin stray
           \/ \A n \in Node : q \in Pred(n) => ns[n][i] # "pending"

ForkInv == OpenBranchIsDue /\ BranchesOpenTogether

\* An only source is not among what its branches lead to.
LEMMA NoWayBack ==
    ASSUME NEW s, NEW p \in Node, Pred(p) = {s}
    PROVE  /\ <<s, p>> \in Edge /\ s \in Node /\ s # p
           /\ s \notin Reachable({p})
<1>1. <<s, p>> \in Edge /\ s \in Node
    BY PredIsASource
<1>2. <<s, p>>[1] \notin Reachable({<<s, p>>[2]})
    BY <1>1, GraphAssumption
<1>3. s \notin Reachable({p}) /\ p \in Reachable({p})
    BY <1>2, ReachableIsLeastClosed
<1> QED
    BY <1>1, <1>3

\* A branch whose fork has completed is opened on its first scan.
LEMMA BranchIsOpened ==
    ASSUME NEW s, NEW p, NEW i, Pred(p) = {s}, ns[s][i] = "completed", <<s, p, i>> \in dep
    PROVE  /\ ~UpstreamBroken(p, i)
           /\ ~NeverProduced(p, i)
           /\ JoinReady(p, i)
           /\ Winners(p, i) = {s}
<1>1. Winners(p, i) = {s}
    BY DEF Winners
<1>2. Effective(p, i) = {s} /\ Sources(p, i) = {s}
    BY DEF Effective, Sources, Exists
<1> QED
    BY <1>1, <1>2 DEF UpstreamBroken, NeverProduced, JoinReady

\* Outside a scan no branch of a fork is pending beside one that has started; a step
\* that starts nothing leaves it so.
LEMMA QuietForkKept ==
    ASSUME ForkInv, tx.stage # "scan", RowsKept,
           dep' = dep,
           \A n \in Node, i \in Iteration :
                /\ ns'[n][i] = "pending" => ns[n][i] = "pending"
                /\ Touched(n, i)' => Touched(n, i)
    PROVE  ForkInv'
<1>1. OpenBranchIsDue'
    BY DEF ForkInv, OpenBranchIsDue
<1>2. BranchesOpenTogether'
    <2> SUFFICES ASSUME NEW s \in Node, NEW p \in Node, NEW q \in Node, NEW i \in Iteration,
                        Pred(p) = {s}, Pred(q) = {s}, ns'[p][i] = "pending", Exists(s, i)',
                        Touched(q, i)' \/ <<s, q, i>> \in dep'
                 PROVE  \A n \in Node : q \in Pred(n) => ns'[n][i] # "pending"
        BY DEF BranchesOpenTogether
    <2>1. ns[p][i] = "pending" /\ Exists(s, i)
        BY DEF RowsKept, Exists
    <2>2. Touched(q, i) \/ <<s, q, i>> \in dep
        BY <2>1
    <2>3. <<s, p, i>> \notin dep
        BY <2>1 DEF ForkInv, OpenBranchIsDue
    <2>4. BranchesOpenTogether
        BY DEF ForkInv
    <2>5. \/ <<s, p, i>> \in dep
          \/ \A n \in Node : q \in Pred(n) => ns[n][i] # "pending"
        <3>1. /\ Pred(p) = {s} /\ Pred(q) = {s}
              /\ ns[p][i] = "pending"
              /\ Exists(s, i)
              /\ Touched(q, i) \/ <<s, q, i>> \in dep
            BY <2>1, <2>2
        <3>2. \/ /\ <<s, p, i>> \in dep
                 /\ ns[q][i] # "completed"
                 /\ <<q, i>> \notin stray
              \/ \A n \in Node : q \in Pred(n) => ns[n][i] # "pending"
            BY <2>4, <3>1, SMTT(30) DEF BranchesOpenTogether, Touched, Exists
        <3> QED
            BY <3>2
    <2> QED
        BY <2>3, <2>5
<1> QED
    BY <1>1, <1>2 DEF ForkInv

\* What the taken routes of a node reach never leads back to the node.
LEMMA RoutesLeadAway ==
    ASSUME NEW s \in Node, NEW chosen, \A c \in chosen : <<s, c>> \in Edge
    PROVE  s \notin Reachable(chosen)
<1> DEFINE C == {m \in Node : \E c \in chosen : m \in Reachable({c})}
<1>1. chosen \in SUBSET Node
    BY GraphAssumption
<1>2. \A c \in chosen : /\ c \in Reachable({c})
                        /\ Closed(Reachable({c}))
    BY <1>1, ReachableIsLeastClosed
<1>3. chosen \subseteq C
    BY <1>1, <1>2
<1>4. Closed(C)
    <2> SUFFICES ASSUME NEW e \in Edge, e[1] \in C
                 PROVE  e[2] \in C
        BY DEF Closed
    <2>1. PICK c \in chosen : e[1] \in Reachable({c})
        OBVIOUS
    <2>2. e[2] \in Reachable({c})
        BY <1>2, <2>1 DEF Closed
    <2>3. e[2] \in Node
        BY GraphAssumption
    <2> QED
        BY <2>2, <2>3
<1>5. Reachable(chosen) \subseteq C
    BY <1>1, <1>3, <1>4, ReachableIsLeastClosed
<1>6. s \notin C
    <2> SUFFICES ASSUME NEW c \in chosen, s \in Reachable({c})
                 PROVE  FALSE
        OBVIOUS
    <2>1. <<s, c>>[1] \notin Reachable({<<s, c>>[2]})
        BY GraphAssumption
    <2> QED
        BY <2>1
<1> QED
    BY <1>5, <1>6

\* A branch that is not taken is lost with its route.
LEMMA BranchIsTakenOrLost ==
    ASSUME NEW s, NEW p \in Node, Pred(p) = {s}, NEW i, ns[p][i] = "pending",
           NEW selected, selected \subseteq Out(s), <<s, p>> \notin selected
    PROVE  p \in Lost({e[2] : e \in selected}, {e[2] : e \in Out(s)} \ {e[2] : e \in selected}, i)
<1> DEFINE chosen == {e[2] : e \in selected}
           others == {e[2] : e \in Out(s)} \ chosen
<1>1. <<s, p>> \in Edge /\ s \in Node
    BY NoWayBack
<1>2. \A e \in Out(s) : e = <<s, e[2]>> /\ e \in Edge
    BY GraphAssumption DEF Out
<1>3. \A c \in chosen \cup others : <<s, c>> \in Edge /\ c \in Node
    BY <1>2, GraphAssumption
<1>4. p \notin chosen
    BY <1>2
<1>5. p \in others
    <2>1. <<s, p>> \in Out(s) /\ <<s, p>>[2] = p
        BY <1>1 DEF Out
    <2> QED
        BY <1>4, <2>1
<1> HIDE DEF chosen, others
<1>6. p \in Reachable(others)
    BY <1>3, <1>5, ReachableIsLeastClosed
<1>7. p \notin Reachable(chosen)
    <2> DEFINE C == Reachable(chosen) \ {p}
    <2>1. /\ chosen \in SUBSET Node
          /\ chosen \subseteq Reachable(chosen) /\ Reachable(chosen) \subseteq Node
          /\ Closed(Reachable(chosen))
          /\ \A D \in SUBSET Node : chosen \subseteq D /\ Closed(D) => Reachable(chosen) \subseteq D
        BY <1>3, ReachableIsLeastClosed
    <2>2. s \notin Reachable(chosen)
        BY <1>1, <1>3, RoutesLeadAway
    <2>3. \A e \in Edge : e[2] = p => e[1] = s
        BY DEF Pred
    <2>4. Closed(C)
        BY <2>1, <2>2, <2>3 DEF Closed
    <2>5. C \in SUBSET Node /\ chosen \subseteq C
        BY <1>4, <2>1
    <2>6. Reachable(chosen) \subseteq C
        BY <2>1, <2>4, <2>5
    <2> QED
        BY <2>6
<1> QED
    BY <1>6, <1>7 DEF Lost, chosen, others

LEMMA RouteKeepsForks ==
    ASSUME RowInv, EarnedInv, ForkInv, RouteEnd \/ RouteNone \/ RouteTaken
    PROVE  ForkInv'
<1>1. tx.stage = "route" /\ tx.iter \in Iteration /\ tx.node \in Node
    BY DEF RouteEnd, RouteNone, RouteTaken, RowInv, TypeOK, Transaction
<1>2. /\ RowsKept
      /\ \A n \in Node, i \in Iteration : ns'[n][i] = "pending" => ns[n][i] = "pending"
    BY EngineKeepsRows, NothingBecomesPending DEF RowInv, Engine
<1>3. stray' = stray /\ (ns' = ns \/ \E S : ns' = Moved(S, "skipped"))
    BY DEF RouteEnd, RouteNone, RouteTaken, turn
<1>4. \A n \in Node, i \in Iteration : ns'[n][i] = ns[n][i] \/ ns'[n][i] = "skipped"
    BY <1>3 DEF Moved
<1>5. \A n \in Node, i \in Iteration : Touched(n, i)' => Touched(n, i)
    BY <1>4 DEF Touched
<1>6. CASE RouteEnd \/ RouteNone
    <2>1. dep' = dep
        BY <1>6 DEF RouteEnd, RouteNone
    <2> QED
        BY <1>1, <1>2, <1>5, <2>1, QuietForkKept
<1>7. CASE RouteTaken
    <2>1. PICK tests \in SUBSET Conditional(tx.node) :
            /\ ns' = Moved(Lost({e[2] : e \in Selected(tx.node, tests)},
                                {e[2] : e \in Out(tx.node)}
                                    \ {e[2] : e \in Selected(tx.node, tests)},
                                tx.iter) \X {tx.iter}, "skipped")
            /\ dep' = dep \cup
                    {<<tx.node, m, tx.iter>> :
                        m \in {k \in {e[2] : e \in Selected(tx.node, tests)} :
                                    ns[k][tx.iter] = "pending"}}
        BY <1>7 DEF RouteTaken
    <2> DEFINE selected == Selected(tx.node, tests)
    <2>2. selected \subseteq Out(tx.node)
        BY DEF Selected, First, Conditional
    <2>3. tx' = Scanning(tx.iter, {m \in Node : ns'[m][tx.iter] = "pending"}, 1)
        BY <1>7 DEF RouteTaken
    <2>4. /\ tx'.stage = "scan" /\ tx'.iter = tx.iter
          /\ tx'.todo = {m \in Node : ns'[m][tx.iter] = "pending"}
        BY <2>3 DEF Scanning, Idle
    <2>5. \A s, p \in Node, i \in Iteration :
            <<s, p, i>> \in dep' => <<s, p, i>> \in dep \/ (s = tx.node /\ i = tx.iter)
        BY <2>1
    <2>6. ns[tx.node][tx.iter] = "completed" /\ ns'[tx.node][tx.iter] = "completed"
        <3>1. ns[tx.node][tx.iter] = "completed"
            BY <1>1 DEF EarnedInv, RouteIsFresh
        <3>2. tx.node \notin Lost({e[2] : e \in selected}, {e[2] : e \in Out(tx.node)}
                                        \ {e[2] : e \in selected}, tx.iter)
            BY <3>1 DEF Lost
        <3> QED
            BY <1>1, <2>1, <3>1, <3>2 DEF Moved
    <2> HIDE DEF selected
    <2>7. ASSUME NEW p \in Node, Pred(p) = {tx.node}, ns'[p][tx.iter] = "pending"
          PROVE  <<tx.node, p, tx.iter>> \in dep'
        <3>1. ns[p][tx.iter] = "pending"
            BY <1>1, <1>2, <2>7
        <3>2. <<tx.node, p>> \in selected
            <4> SUFFICES ASSUME <<tx.node, p>> \notin selected
                         PROVE  FALSE
                OBVIOUS
            <4>1. p \in Lost({e[2] : e \in selected},
                             {e[2] : e \in Out(tx.node)} \ {e[2] : e \in selected}, tx.iter)
                BY <2>2, <2>7, <3>1, BranchIsTakenOrLost
            <4>2. ns'[p][tx.iter] = "skipped"
                BY <1>1, <2>1, <4>1 DEF Moved, selected
            <4> QED
                BY <2>7, <4>2
        <3>3. p \in {e[2] : e \in selected}
            BY <3>2
        <3> QED
            BY <2>1, <3>1, <3>3 DEF selected
    <2>8. ASSUME NEW s \in Node, NEW p \in Node, NEW i \in Iteration, Pred(p) = {s},
                 ns[p][i] = "pending"
          PROVE  <<s, p, i>> \notin dep
        BY <1>1, <2>8 DEF ForkInv, OpenBranchIsDue
    <2>9. OpenBranchIsDue'
        <3> SUFFICES ASSUME NEW s \in Node, NEW p \in Node, NEW i \in Iteration, Pred(p) = {s},
                            ns'[p][i] = "pending", <<s, p, i>> \in dep'
                     PROVE  i = tx.iter /\ p \in tx'.todo /\ ns'[s][i] = "completed"
            BY <2>4 DEF OpenBranchIsDue
        <3>1. <<s, p, i>> \notin dep
            BY <1>2, <2>8
        <3> QED
            BY <2>4, <2>5, <2>6, <3>1
    <2>10. BranchesOpenTogether'
        <3> SUFFICES ASSUME NEW s \in Node, NEW p \in Node, NEW q \in Node, NEW i \in Iteration,
                            Pred(p) = {s}, Pred(q) = {s}, ns'[p][i] = "pending", Exists(s, i)',
                            Touched(q, i)' \/ <<s, q, i>> \in dep'
                     PROVE  \/ /\ <<s, p, i>> \in dep'
                               /\ ns'[q][i] # "completed"
                               /\ <<q, i>> \notin stray'
                            \/ \A n \in Node : q \in Pred(n) => ns'[n][i] # "pending"
            BY DEF BranchesOpenTogether
        <3>1. ns[p][i] = "pending" /\ <<s, p, i>> \notin dep /\ Exists(s, i)
            BY <1>2, <2>8 DEF RowsKept, Exists
        <3>2. CASE Touched(q, i) \/ <<s, q, i>> \in dep
            <4>1. \A n \in Node : q \in Pred(n) => ns[n][i] # "pending"
                BY <3>1, <3>2 DEF ForkInv, BranchesOpenTogether
            <4> QED
                BY <1>2, <4>1
        <3>3. CASE ~Touched(q, i) /\ <<s, q, i>> \notin dep
            <4>1. s = tx.node /\ i = tx.iter
                BY <1>5, <2>5, <3>3
            <4>2. <<s, p, i>> \in dep'
                BY <2>7, <4>1
            <4>3. ns'[q][i] # "completed" /\ <<q, i>> \notin stray
                BY <1>5, <3>3 DEF Touched, RowInv, StrayIsTouched
            <4> QED
                BY <1>3, <4>2, <4>3
        <3> QED
            BY <3>2, <3>3
    <2> QED
        BY <2>9, <2>10 DEF ForkInv
<1> QED
    BY <1>6, <1>7

LEMMA ScanKeepsForks ==
    ASSUME RowInv, EarnedInv, ForkInv, Scan
    PROVE  ForkInv'
<1>1. PICK m \in Node : /\ IsNext(m)
                        /\ ScanFail(m) \/ ScanSkip(m) \/ ScanActivate(m) \/ ScanWait(m)
    BY DEF Scan
<1>2. tx.stage = "scan" /\ tx.iter \in Iteration /\ ns[m][tx.iter] = "pending"
    BY <1>1 DEF Scan, RowInv, TypeOK, Transaction, TodoIsPending, IsNext
<1>3. /\ tx'.stage = "scan" /\ tx'.iter = tx.iter /\ tx'.todo = tx.todo \ {m}
      /\ dep' = dep
    BY <1>1, <1>2, ScanResolves DEF ScanFail, ScanSkip, ScanActivate, ScanWait
<1>4. /\ RowsKept
      /\ \A n \in Node, i \in Iteration : ns'[n][i] = "pending" => ns[n][i] = "pending"
    BY EngineKeepsRows, NothingBecomesPending DEF RowInv, Engine
<1>t. stray' = stray
    BY <1>1 DEF ScanFail, ScanSkip, ScanActivate, ScanWait, turn
<1>5. \A n \in Node, i \in Iteration :
        /\ ns'[n][i] = "completed" <=> ns[n][i] = "completed"
        /\ Touched(n, i)' => Touched(n, i) \/ (n = m /\ i = tx.iter /\ ScanActivate(m))
    <2>1. CASE ScanFail(m) \/ ScanWait(m)
        BY <2>1 DEF ScanFail, ScanWait, Touched
    <2>2. CASE ScanSkip(m)
        BY <1>2, <2>2 DEF ScanSkip, Moved, Touched
    <2>3. CASE ScanActivate(m)
        <3>1. \A n \in Node, i \in Iteration :
                ns'[n][i] = IF i # tx.iter THEN ns[n][i]
                            ELSE IF n = m THEN "activated"
                            ELSE IF n \in Peers(m, i) THEN "terminated" ELSE ns[n][i]
            BY <2>3 DEF ScanActivate
        <3>2. \A i \in Iteration : \A n \in Peers(m, i) : ns[n][i] \in Operable
            BY DEF Peers
        <3> QED
            BY <1>2, <2>3, <3>1, <3>2 DEF Touched, Operable
    <2> QED
        BY <1>1, <2>1, <2>2, <2>3
<1>6. OpenBranchIsDue'
    <2> SUFFICES ASSUME NEW s \in Node, NEW p \in Node, NEW i \in Iteration, Pred(p) = {s},
                        ns'[p][i] = "pending", <<s, p, i>> \in dep
                 PROVE  i = tx.iter /\ p \in tx.todo \ {m} /\ ns'[s][i] = "completed"
        BY <1>3 DEF OpenBranchIsDue
    <2>1. i = tx.iter /\ p \in tx.todo /\ ns[s][i] = "completed"
        BY <1>4 DEF ForkInv, OpenBranchIsDue
    <2>2. p # m
        <3> SUFFICES ASSUME p = m
                     PROVE  FALSE
            OBVIOUS
        <3>1. ~UpstreamBroken(m, tx.iter) /\ ~NeverProduced(m, tx.iter) /\ JoinReady(m, tx.iter)
            BY <2>1, BranchIsOpened
        <3>2. ScanActivate(m)
            BY <1>1, <3>1 DEF ScanFail, ScanSkip, ScanWait
        <3>3. ns'[m][tx.iter] = "activated"
            BY <1>2, <3>2 DEF ScanActivate
        <3> QED
            BY <2>1, <3>3
    <2> QED
        BY <1>5, <2>1, <2>2
<1>7. BranchesOpenTogether'
    <2> SUFFICES ASSUME NEW s \in Node, NEW p \in Node, NEW q \in Node, NEW i \in Iteration,
                        Pred(p) = {s}, Pred(q) = {s}, ns'[p][i] = "pending", Exists(s, i)',
                        Touched(q, i)' \/ <<s, q, i>> \in dep
                 PROVE  \/ /\ <<s, p, i>> \in dep
                           /\ ns'[q][i] # "completed"
                           /\ <<q, i>> \notin stray
                        \/ \A n \in Node : q \in Pred(n) => ns'[n][i] # "pending"
        BY <1>3, <1>t DEF BranchesOpenTogether
    <2>1. ns[p][i] = "pending" /\ Exists(s, i)
        BY <1>4 DEF RowsKept, Exists
    <2>2. Touched(q, i) \/ <<s, q, i>> \in dep
        <3>1. CASE q = m /\ i = tx.iter /\ ScanActivate(m)
            BY <3>1 DEF ScanActivate, JoinReady, Winners
        <3> QED
            BY <1>5, <3>1
    <2> QED
        BY <1>4, <1>5, <2>1, <2>2 DEF ForkInv, BranchesOpenTogether
<1> QED
    BY <1>6, <1>7 DEF ForkInv

LEMMA DeepRejectKeepsForks ==
    ASSUME RowInv, EarnedInv, ForkInv,
           NEW n \in Node, NEW i \in Iteration, NEW t \in Node, DeepReject(n, i, t)
    PROVE  ForkInv'
<1> DEFINE next == NextIteration(t)
           R == Reachable({t})
<1>1. /\ next \in Iteration /\ next > 1
      /\ \A m \in R : m \in Node /\ Exists(m, next - 1)
      /\ \A m \in R, j \in Iteration : j >= next => ns[m][j] = "absent"
      /\ \A m \in Node, j \in Iteration :
            ns'[m][j] = IF m \notin R THEN ns[m][j]
                        ELSE IF j = next THEN ReplayState(m, t)
                        ELSE IF ns[m][j] \in Stale THEN "terminated" ELSE ns[m][j]
    <2>1. Appended(t)
        BY DeepRejectAppends DEF RowInv
    <2> QED
        BY <2>1 DEF Appended
<1>2. tx.stage = "idle" /\ dep' \subseteq dep /\ stray' = stray
    BY DEF DeepReject, ValidAfterReplay, turn
<1>3. \A a, b \in Node : <<a, b>> \in Edge /\ a \in R => b \in R
    <2> SUFFICES ASSUME NEW a \in Node, NEW b \in Node, <<a, b>> \in Edge, a \in R
                 PROVE  b \in R
        OBVIOUS
    <2>1. Closed(R)
        BY ReachableIsLeastClosed
    <2>2. <<a, b>>[1] \in R => <<a, b>>[2] \in R
        BY <2>1 DEF Closed
    <2> QED
        BY <2>2
<1>4. \A a, b \in Node, j \in Iteration : <<a, b>> \in Edge /\ Exists(a, j) => Exists(b, j)
    <2> SUFFICES ASSUME NEW a \in Node, NEW b \in Node, NEW j \in Iteration,
                        <<a, b>> \in Edge, Exists(a, j)
                 PROVE  Exists(b, j)
        OBVIOUS
    <2>1. Exists(<<a, b>>[1], j) => Exists(<<a, b>>[2], j)
        BY DEF RowInv, IterationsAreClosed
    <2> QED
        BY <2>1
<1>5. \A s, p \in Node : Pred(p) = {s} => <<s, p>> \in Edge /\ (p = t => s \notin R)
    BY NoWayBack
<1>6. \A p \in R : p # t => \E a \in R : a \in Pred(p)
    BY ReplayedHasSource
<1> HIDE DEF next, R
<1>7. \A m \in R : ns[m][next] = "absent"
    BY <1>1 DEF Iteration
<1>8. \A s, p \in Node : p \in R => <<s, p, next>> \notin dep
    <2> SUFFICES ASSUME NEW s \in Node, NEW p \in Node, p \in R, <<s, p, next>> \in dep
                 PROVE  FALSE
        OBVIOUS
    <2>1. <<s, p>> \in Edge
        BY DEF EarnedInv, DependencyIsAnEdge
    <2>2. s \in Winners(p, next)
        BY <2>1 DEF Winners, Pred
    <2> QED
        BY <1>1, <1>7, <2>2, ReplayedIsUnearned
<1>9. ASSUME NEW s \in Node, NEW p \in Node, NEW j \in Iteration, Pred(p) = {s},
             ns'[p][j] = "pending", ~(p \in R /\ j = next)
      PROVE  ns[p][j] = "pending" /\ <<s, p, j>> \notin dep /\ p \notin R /\ s \notin R
    <2>1. p \notin R /\ ns[p][j] = "pending"
        BY <1>1, <1>9 DEF Stale
    <2> QED
        BY <1>2, <1>3, <1>5, <1>9, <2>1 DEF ForkInv, OpenBranchIsDue
<1>10. OpenBranchIsDue'
    <2> SUFFICES ASSUME NEW s \in Node, NEW p \in Node, NEW j \in Iteration, Pred(p) = {s},
                        ns'[p][j] = "pending", <<s, p, j>> \in dep'
                 PROVE  FALSE
        BY DEF OpenBranchIsDue
    <2> QED
        BY <1>2, <1>8, <1>9
<1>11. BranchesOpenTogether'
    <2> SUFFICES ASSUME NEW s \in Node, NEW p \in Node, NEW q \in Node, NEW j \in Iteration,
                        Pred(p) = {s}, Pred(q) = {s}, ns'[p][j] = "pending", Exists(s, j)',
                        Touched(q, j)' \/ <<s, q, j>> \in dep',
                        NEW k \in Node, q \in Pred(k)
                 PROVE  ns'[k][j] # "pending"
        BY DEF BranchesOpenTogether
    <2>1. ~(p \in R /\ j = next)
        <3> SUFFICES ASSUME p \in R, j = next
                     PROVE  FALSE
            OBVIOUS
        <3>1. p # t
            BY <1>1 DEF ReplayState
        <3>2. s \in R /\ q \in R /\ q # t
            BY <1>3, <1>5, <1>6, <3>1
        <3>3. ns'[q][j] = "pending"
            BY <1>1, <3>2 DEF ReplayState
        <3> QED
            BY <1>2, <1>8, <3>2, <3>3 DEF Touched
    <2>2. ns[p][j] = "pending" /\ <<s, p, j>> \notin dep /\ p \notin R /\ s \notin R
        BY <1>9, <2>1
    <2>3. Exists(s, j)
        BY <1>1, <2>2 DEF Exists
    <2>4. Exists(q, j)
        BY <1>4, <1>5, <2>3
    <2>5. ~(q \in R /\ j = next)
        BY <1>7, <2>4 DEF Exists
    <2>6. <<q, k>> \in Edge /\ Exists(k, j)
        BY <1>4, <2>4, PredIsASource
    <2>7. ~(k \in R /\ j = next)
        BY <1>7, <2>6 DEF Exists
    <2>8. CASE q \in R
        BY <1>1, <1>3, <2>6, <2>7, <2>8 DEF Stale
    <2>9. CASE q \notin R
        <3>1. Touched(q, j) \/ <<s, q, j>> \in dep
            BY <1>1, <1>2, <2>9 DEF Touched
        <3>2. ns[k][j] # "pending"
            BY <2>2, <2>3, <3>1 DEF ForkInv, BranchesOpenTogether
        <3> QED
            BY <1>1, <2>7, <3>2
    <2> QED
        BY <2>8, <2>9
<1> QED
    BY <1>10, <1>11 DEF ForkInv

LEMMA ForkIsInductive ==
    ASSUME RowInv, ApprovalHasStarted, EarnedInv, ForkInv, [Next]_vars
    PROVE  ForkInv'
<1>i. TypeOK /\ TodoIsPending /\ ApprovalHasNode /\ CompletedIsDecided
    BY DEF RowInv
<1>o. ASSUME NEW n \in Node, NEW i \in Iteration, NEW s, ns' = Moved({<<n, i>>}, s),
             s # "pending", Touched(n, i), RowsKept, dep' = dep, tx.stage # "scan"
      PROVE  ForkInv'
    <2>1. \A m \in Node, j \in Iteration :
            ns'[m][j] = IF m = n /\ j = i THEN s ELSE ns[m][j]
        BY <1>o DEF Moved
    <2>2. \A m \in Node, j \in Iteration :
            /\ ns'[m][j] = "pending" => ns[m][j] = "pending"
            /\ Touched(m, j)' => Touched(m, j)
        BY <1>o, <2>1 DEF Touched
    <2> QED
        BY <1>o, <2>2, QuietForkKept
<1>1. CASE Engine
    <2>1. CASE RouteEnd \/ RouteNone \/ RouteTaken
        BY <2>1, RouteKeepsForks
    <2>2. CASE Scan
        BY <2>2, ScanKeepsForks
    <2>3. CASE ScanRound
        <3>1. /\ ns' = ns /\ dep' = dep /\ stray' = stray
              /\ tx.todo = {} /\ tx.stage = "scan"
            BY <2>3 DEF ScanRound, turn
        <3> QED
            BY <3>1 DEF ForkInv, OpenBranchIsDue, BranchesOpenTogether, Touched, Exists
    <2>4. CASE DrainNotice
        <3>1. PICK n \in Node, i \in Iteration :
                ns[n][i] = "activated" /\ ns' = Moved({<<n, i>>}, "completed")
            BY <2>4 DEF DrainNotice
        <3>2. tx.stage = "drain" /\ RowsKept /\ dep' = dep
            BY <1>i, <1>1, <2>4, EngineKeepsRows DEF DrainNotice
        <3>3. Touched(n, i)
            BY <3>1 DEF Touched
        <3> QED
            BY <1>o, <3>1, <3>2, <3>3
    <2>5. CASE DrainDone \/ Settle
        <3>1. ns' = ns /\ dep' = dep /\ tx.stage # "scan"
            BY <2>5 DEF DrainDone, Settle
        <3> QED
            BY <3>1, QuietForkKept DEF RowsKept, Touched
    <2> QED
        BY <1>1, <2>1, <2>2, <2>3, <2>4, <2>5 DEF Engine
<1>2. ASSUME NEW n \in Node, NEW i \in Iteration,
             \/ Complete(n, i) \/ Takeover(n, i) \/ Suspend(n, i) \/ Resume(n, i)
             \/ ApprovalBlocked(n, i) \/ ApprovalVote(n, i) \/ ApprovalDecided(n, i)
      PROVE  ForkInv'
    <2>1. RowsKept
        BY <1>i, <1>2, CommandKeepsRows, PauseKeepsRows DEF Pause, Decide
    <2>2. tx.stage = "idle" /\ dep' = dep
        BY <1>2 DEF Complete, Takeover, Suspend, Resume, ApprovalBlocked, ApprovalVote,
                    ApprovalDecided
    <2>3. Touched(n, i)
        <3>1. CASE Complete(n, i) \/ Takeover(n, i) \/ Suspend(n, i) \/ Resume(n, i)
            BY <3>1 DEF Complete, Takeover, Suspend, Resume, Touched, Operable
        <3>2. CASE ApprovalBlocked(n, i) \/ ApprovalVote(n, i) \/ ApprovalDecided(n, i)
            <4>1. Begun(n, i)
                BY <3>2 DEF ApprovalBlocked, ApprovalVote, ApprovalDecided, Begun
            <4> QED
                BY <4>1, BegunIsReached DEF Touched
        <3> QED
            BY <1>2, <3>1, <3>2
    <2>4. \E s : s # "pending" /\ ns' = Moved({<<n, i>>}, s)
        <3>1. CASE Resume(n, i)
            BY <1>i, <3>1 DEF Resume, TypeOK, Operable
        <3>2. CASE ~Resume(n, i)
            BY <1>2, <3>2 DEF Complete, Takeover, Suspend, ApprovalBlocked, ApprovalVote,
                              ApprovalDecided
        <3> QED
            BY <3>1, <3>2
    <2> QED
        BY <1>o, <2>1, <2>2, <2>3, <2>4
<1>3. ASSUME NEW n \in Node, NEW i \in Iteration, NEW t \in Node, DeepReject(n, i, t)
      PROVE  ForkInv'
    BY <1>3, DeepRejectKeepsForks
<1>4. CASE Cancel
    <2>1. \A m \in Node, j \in Iteration : ns'[m][j] # "pending"
        BY <1>4 DEF Cancel
    <2> QED
        BY <2>1 DEF ForkInv, OpenBranchIsDue, BranchesOpenTogether
<1>5. ASSUME NEW n \in Node, NEW i \in Iteration, TaskWrote(n, i)
      PROVE  ForkInv'
    <2>1. RowsKept
        BY <1>i, <1>5, TasksKeepRows
    <2>2. tx.stage = "idle" /\ dep' = dep
        BY <1>5 DEF TaskWrote
    <2>3. \A m \in Node, j \in Iteration :
            /\ ns'[m][j] = "pending" => ns[m][j] = "pending"
            /\ Touched(m, j)' => Touched(m, j)
        BY <1>5 DEF TaskWrote, Touched
    <2> QED
        BY <2>1, <2>2, <2>3, QuietForkKept
<1>6. CASE UNCHANGED vars
    <2>1. ns' = ns /\ tx' = tx /\ dep' = dep /\ stray' = stray
        BY <1>6 DEF vars, turn
    <2> QED
        BY <2>1 DEF ForkInv, OpenBranchIsDue, BranchesOpenTogether, Touched, Exists
<1> QED
    BY <1>i, <1>1, <1>2, <1>3, <1>4, <1>5, <1>6, TasksWrite DEF Next, Work, Pause, Decide

LEMMA ForkIsInitial ==
    ASSUME Init
    PROVE  ForkInv
<1>1. dep = {}
    BY DEF Init
<1>2. \A n \in Node, i \in Iteration : Touched(n, i) => n \in StartNodes
    BY DEF Init, Touched
<1>3. \A s, q \in Node : Pred(q) = {s} => q \notin StartNodes
    BY DEF StartNodes
<1> QED
    BY <1>1, <1>2, <1>3 DEF ForkInv, OpenBranchIsDue, BranchesOpenTogether

\* When the branches of one fork race for an any-join, the join opens after
\* every branch started: its scan closes all the losers.
LEMMA RaceGathers ==
    ASSUME RowInv, EarnedInv, ForkInv, PendingHasSource,
           ClosedKept, RowsKept, stray \subseteq stray',
           NEW n \in Node, JoinMode[n] = "any", tx.stage = "scan", IsNext(n), ScanActivate(n),
           NEW s \in Node, \A p \in Pred(n) : Pred(p) = {s}
    PROVE  Gathered(n, tx.iter)'
<1> DEFINE i == tx.iter
<1>1. /\ tx'.iter = i /\ i \in Iteration
      /\ ns[n][i] = "pending"
    BY DEF ScanActivate, Resolve, RowInv, TypeOK, Transaction, IsNext, TodoIsPending
<1>2. PICK q \in Pred(n) : ns[q][i] = "completed" \/ <<q, i>> \in stray
    <2>1. PICK q \in Pred(n) : <<q, n, i>> \in dep
        BY DEF ScanActivate, JoinReady, Winners
    <2> QED
        BY <2>1 DEF EarnedInv, DependencyIsEarned
<1> SUFFICES ASSUME NEW p \in Pred(n), Exists(p, i)', <<p, i>> \notin stray'
             PROVE  ns'[p][i] \in Done
    BY <1>1 DEF Gathered, Sources, Exists
<1>3. p \in Node /\ q \in Node /\ Exists(p, i)
    <2>1. p \in Node /\ q \in Node
        BY PredIsASource
    <2>2. ns'[p][i] # "absent"
        BY <1>1 DEF Exists
    <2> QED
        BY <1>1, <2>1, <2>2 DEF RowsKept, Exists
<1>4. ns[p][i] # "pending"
    <2> SUFFICES ASSUME ns[p][i] = "pending"
                 PROVE  FALSE
        OBVIOUS
    <2>1. Exists(s, i)
        BY <1>1, <1>3 DEF PendingHasSource, Sources
    <2>2. Touched(q, i)
        BY <1>1, <1>2, <1>3 DEF Touched, RowInv, StrayIsTouched
    <2> QED
        BY <1>1, <1>2, <1>3, <2>1, <2>2 DEF ForkInv, BranchesOpenTogether
<1>5. ns[p][i] # "suspended"
    BY <1>3 DEF ScanActivate, UpstreamBroken, Sources
<1>6. ns[p][i] \in EngineState /\ ns[p][i] # "absent"
    BY <1>1, <1>3 DEF RowInv, TypeOK, Exists
<1>7. CASE ns[p][i] \in Done
    BY <1>1, <1>3, <1>7, DoneIsKept
<1>8. CASE ns[p][i] \in Operable
    <2>1. p \notin Winners(n, i)
        BY <1>8 DEF Winners, EarnedInv, DependencyIsEarned, Operable
    <2>2. p \in Peers(n, i)
        BY <1>8, <2>1 DEF Peers
    <2>3. p # n
        <3>1. <<p, n>> \in Edge
            BY PredIsASource
        <3>2. <<p, n>>[1] \notin Reachable({<<p, n>>[2]}) /\ n \in Reachable({n})
            BY <3>1, GraphAssumption, ReachableIsLeastClosed
        <3> QED
            BY <3>2
    <2>4. ns'[p][i] = "terminated"
        BY <1>1, <1>3, <2>2, <2>3 DEF ScanActivate
    <2> QED
        BY <2>4 DEF Done
<1> QED
    BY <1>4, <1>5, <1>6, <1>7, <1>8 DEF EngineState, Operable, Done

\* When the sources of every any-join are the branches of one fork, a race that is
\* over stays over: no losing source can be worked on, resumed or activated any
\* more, unless it is written out of turn itself.  (A source further away, which has
\* not started when the join opens, is not revoked.)
THEOREM RacesAreRevoked ==
    ASSUME \A n \in Node : JoinMode[n] = "any" =>
                \E s \in Node : \A p \in Pred(n) : Pred(p) = {s}
    PROVE  Spec => []RaceIsRevoked
<1> DEFINE Inv == ApprovalHasStarted /\ EarnedInv /\ PendInv /\ ForkInv /\ JoinInv("any")
<1>1. Init => Inv
    BY ApprovalsStartInitially, JoinsAreInitial, PendIsInitial, ForkIsInitial
<1>2. RowInv /\ Inv /\ [Next]_vars => Inv'
    <2> SUFFICES ASSUME RowInv, ApprovalHasStarted, EarnedInv, PendInv, ForkInv,
                        JoinInv("any"), [Next]_vars
                 PROVE  JoinInv("any")'
        BY ApprovalsAreStarted, EarnedIsInductive, PendIsInductive, ForkIsInductive
    <2>c. ClosedKept /\ stray \subseteq stray'
        BY ClosedIsKept, StraysAreKept DEF RowInv
    <2>1. ASSUME Engine, NEW m \in Node, tx.stage = "scan", IsNext(m), ScanActivate(m),
                 JoinMode[m] = "any"
          PROVE  Gathered(m, tx.iter)'
        <3>1. PICK s \in Node : \A p \in Pred(m) : Pred(p) = {s}
            BY <2>1
        <3>2. RowsKept
            BY <2>1, EngineKeepsRows DEF RowInv
        <3> QED
            BY <2>c, <2>1, <3>1, <3>2, RaceGathers DEF PendInv
    <2> QED
        BY <2>c, <2>1, EngineKeepsJoins, CommandsKeepJoins DEF Next
<1>3. RowInv /\ Inv => RaceIsRevoked
    <2> SUFFICES ASSUME JoinInv("any"), NEW n \in Node, NEW i \in Iteration,
                        JoinMode[n] = "any", ns[n][i] \in Started, Winners(n, i) # {},
                        <<n, i>> \notin stray,
                        NEW p \in Pred(n), ns[p][i] \in Operable
                 PROVE  <<p, i>> \in stray
        BY DEF RaceIsRevoked
    <2>1. p \in Sources(n, i)
        BY DEF Sources, Exists, Operable
    <2> QED
        BY <2>1 DEF JoinInv, Gathered, Begun, Done, Operable
<1> QED
    BY <1>1, <1>2, <1>3, RowsAreSound, PTL DEF Spec

-----------------------------------------------------------------------------
(* Choices are exclusive *)

\* A branch that was closed before anybody had it in hand.
Dropped(n, i) == ns[n][i] \in {"skipped", "terminated"} /\ approval[n][i] = "none"

\* Two branches of an exclusive choice that nothing else leads to.
Rivals(n, e, f) ==
    /\ RoutingMode[n] = "exclusive"
    /\ e \in Out(n) /\ f \in Out(n) /\ e # f
    /\ Pred(e[2]) = {n} /\ Pred(f[2]) = {n}

\* A branch that only one node leads to starts after that node completed.
BranchFollows ==
    \A s, p \in Node, i \in Iteration :
        Pred(p) = {s} /\ Exists(s, i) /\ Begun(p, i) =>
            ns[s][i] = "completed" \/ <<s, i>> \in stray \/ <<p, i>> \in stray

\* Neither the choice nor a rival branch was written out of turn.
Straight(n, e, f, i) ==
    <<n, i>> \notin stray /\ <<e[2], i>> \notin stray /\ <<f[2], i>> \notin stray

\* The choice of an iteration drops a branch before one can start; where the
\* chooser was not replayed, one of the branches was not replayed either.
ChoiceInv ==
    \A n \in Node, i \in Iteration, e, f \in Edge : Rivals(n, e, f) =>
        /\ ~Exists(n, i) => ~(Exists(e[2], i) /\ Exists(f[2], i))
        /\ ns[n][i] = "completed" /\ Straight(n, e, f, i) =>
              \/ /\ tx.stage = "route" /\ tx.node = n /\ tx.iter = i
                 /\ ~Begun(e[2], i) /\ ~Begun(f[2], i)
              \/ Dropped(e[2], i) \/ Dropped(f[2], i)

LEMMA BranchFollowsKept ==
    ASSUME BranchFollows, RowsKept, CompletedKept, stray \subseteq stray',
           \A m \in Node, j \in Iteration : Begun(m, j)' => Begun(m, j) \/ <<m, j>> \in stray'
    PROVE  BranchFollows'
    BY DEF BranchFollows, RowsKept, CompletedKept, Exists

LEMMA BranchFollowsAReplay ==
    ASSUME RowInv, ApprovalHasStarted, BranchFollows, CompletedKept, stray \subseteq stray',
           NEW n \in Node, NEW i \in Iteration, NEW t \in Node, DeepReject(n, i, t)
    PROVE  BranchFollows'
<1> DEFINE next == NextIteration(t)
           R == Reachable({t})
<1>1. /\ next \in Iteration /\ next > 1
      /\ \A m \in R, j \in Iteration : j >= next => ns[m][j] = "absent"
      /\ \A m \in Node, j \in Iteration :
            ns'[m][j] = IF m \notin R THEN ns[m][j]
                        ELSE IF j = next THEN ReplayState(m, t)
                        ELSE IF ns[m][j] \in Stale THEN "terminated" ELSE ns[m][j]
    <2>1. Appended(t)
        BY DeepRejectAppends DEF RowInv
    <2> QED
        BY <2>1 DEF Appended
<1>2. approval' = approval
    BY DEF DeepReject
<1>3. \A s, p \in Node : Pred(p) = {s} => <<s, p>> \in Edge /\ (p = t => s \notin R)
    BY NoWayBack
<1>4. \A s, p \in Node : <<s, p>> \in Edge /\ s \in R => p \in R
    <2> SUFFICES ASSUME NEW s \in Node, NEW p \in Node, <<s, p>> \in Edge, s \in R
                 PROVE  p \in R
        OBVIOUS
    <2>1. Closed(R)
        BY ReachableIsLeastClosed
    <2>2. <<s, p>>[1] \in R => <<s, p>>[2] \in R
        BY <2>1 DEF Closed
    <2> QED
        BY <2>2
<1>5. \A s, p \in Node, j \in Iteration : <<s, p>> \in Edge /\ Exists(s, j) => Exists(p, j)
    <2> SUFFICES ASSUME NEW s \in Node, NEW p \in Node, NEW j \in Iteration,
                        <<s, p>> \in Edge, Exists(s, j)
                 PROVE  Exists(p, j)
        OBVIOUS
    <2>1. Exists(<<s, p>>[1], j) => Exists(<<s, p>>[2], j)
        BY DEF RowInv, IterationsAreClosed
    <2> QED
        BY <2>1
<1> HIDE DEF next, R
<1>6. \A m \in R : ns[m][next] = "absent"
    BY <1>1 DEF Iteration
<1>7. ASSUME NEW p \in Node, NEW j \in Iteration, Begun(p, j)'
      PROVE  (p = t /\ j = next) \/ (Begun(p, j) /\ ~(p \in R /\ j = next))
    <2>1. CASE p \in R /\ j = next
        <3>1. ~Begun(p, j)
            BY <1>6, <2>1, BegunIsReached
        <3>2. ns'[p][j] = ReplayState(p, t) /\ approval'[p][j] = "none"
            BY <1>1, <1>2, <2>1, <3>1 DEF Begun
        <3>3. ns'[p][j] \in Started
            BY <1>7, <3>2 DEF Begun
        <3> QED
            BY <2>1, <3>2, <3>3 DEF ReplayState, Started, Operable
    <2>2. CASE ~(p \in R /\ j = next)
        <3>1. ns'[p][j] = ns[p][j] \/ ns'[p][j] = "terminated"
            BY <1>1, <2>2
        <3> QED
            BY <1>2, <1>7, <2>2, <3>1 DEF Begun, Started, Operable
    <2> QED
        BY <2>1, <2>2
<1> SUFFICES ASSUME NEW s \in Node, NEW p \in Node, NEW j \in Iteration,
                    Pred(p) = {s}, Exists(s, j)', Begun(p, j)'
             PROVE  ns'[s][j] = "completed" \/ <<s, j>> \in stray' \/ <<p, j>> \in stray'
    BY DEF BranchFollows
<1>8. ~(p = t /\ j = next)
    <2> SUFFICES ASSUME p = t, j = next
                 PROVE  FALSE
        OBVIOUS
    <2>1. s \notin R /\ Exists(s, j)
        BY <1>1, <1>3 DEF Exists
    <2>2. Exists(t, next) /\ t \in R
        BY <1>3, <1>5, <2>1, ReachableIsLeastClosed DEF R
    <2> QED
        BY <1>6, <2>2 DEF Exists
<1>9. Begun(p, j) /\ ~(p \in R /\ j = next)
    BY <1>7, <1>8
<1>10. Exists(s, j)
    <2>1. ~(s \in R /\ j = next)
        BY <1>3, <1>4, <1>9
    <2> QED
        BY <1>1, <2>1 DEF Exists, Stale
<1> QED
    BY <1>9, <1>10 DEF BranchFollows, CompletedKept

\* Only a command out of turn starts a node.
LEMMA TaskBeginsNothing ==
    ASSUME NEW n \in Node, NEW i \in Iteration, TaskWrote(n, i)
    PROVE  \A m \in Node, j \in Iteration : Begun(m, j)' => Begun(m, j) \/ <<m, j>> \in stray'
<1>1. /\ approval' = approval
      /\ \A m \in Node, j \in Iteration : m # n \/ j # i => ns'[m][j] = ns[m][j]
      /\ <<n, i>> \in stray' \/ ns[n][i] \in Operable
    BY DEF TaskWrote
<1> QED
    BY <1>1 DEF Begun, Started

LEMMA BranchFollowsIsInductive ==
    ASSUME RowInv, ApprovalHasStarted, EarnedInv, BranchFollows, [Next]_vars
    PROVE  BranchFollows'
<1>i. TypeOK /\ TodoIsPending /\ ApprovalHasNode
    BY DEF RowInv
<1>c. CompletedKept /\ stray \subseteq stray'
    BY <1>i, CompletedIsKept, StraysAreKept
<1>1. CASE Engine
    <2>r. RowsKept
        BY <1>i, <1>1, EngineKeepsRows
    <2>1. CASE Scan
        <3>1. PICK m \in Node : ScanFail(m) \/ ScanSkip(m) \/ ScanActivate(m) \/ ScanWait(m)
            BY <2>1 DEF Scan
        <3>2. CASE ScanFail(m) \/ ScanWait(m) \/ ScanSkip(m)
            <4>1. approval' = approval /\ (ns' = ns \/ ns' = Moved({<<m, tx.iter>>}, "skipped"))
                BY <3>2 DEF ScanFail, ScanWait, ScanSkip
            <4>2. \A k \in Node, l \in Iteration : Begun(k, l)' => Begun(k, l)
                BY <4>1 DEF Moved, Begun, Started, Operable
            <4> QED
                BY <1>c, <2>r, <4>2, BranchFollowsKept
        <3>3. CASE ScanActivate(m)
            <4>1. \A k \in Node, l \in Iteration :
                    Begun(k, l)' => Begun(k, l) \/ (k = m /\ l = tx.iter)
                <5>1. \A k \in Node, l \in Iteration : k # m \/ l # tx.iter =>
                        approval'[k][l] = approval[k][l]
                    BY <1>i, <3>3 DEF ScanActivate, TypeOK
                <5>2. \A k \in Node, l \in Iteration : k # m \/ l # tx.iter =>
                        ns'[k][l] = ns[k][l] \/ ns'[k][l] = "terminated"
                    BY <3>3 DEF ScanActivate
                <5> QED
                    BY <5>1, <5>2 DEF Begun, Started, Operable
            <4> SUFFICES ASSUME NEW s \in Node, NEW p \in Node, NEW i \in Iteration,
                                Pred(p) = {s}, Exists(s, i)', Begun(p, i)'
                         PROVE  \/ ns'[s][i] = "completed"
                                \/ <<s, i>> \in stray' \/ <<p, i>> \in stray'
                BY DEF BranchFollows
            <4>2. Exists(s, i)
                BY <2>r DEF RowsKept, Exists
            <4>3. CASE Begun(p, i)
                BY <1>c, <4>2, <4>3 DEF BranchFollows, CompletedKept
            <4>4. CASE p = m /\ i = tx.iter
                <5>1. <<s, p, i>> \in dep
                    BY <3>3, <4>4 DEF ScanActivate, JoinReady, Winners
                <5>2. ns[s][i] = "completed" \/ <<s, i>> \in stray
                    BY <5>1 DEF EarnedInv, DependencyIsEarned
                <5> QED
                    BY <1>c, <5>2 DEF CompletedKept
            <4> QED
                BY <4>1, <4>3, <4>4
        <3> QED
            BY <3>1, <3>2, <3>3
    <2>2. CASE RouteEnd \/ RouteNone \/ RouteTaken \/ ScanRound \/ DrainDone \/ Settle
        <3>1. approval' = approval /\ (ns' = ns \/ \E S : ns' = Moved(S, "skipped"))
            BY <2>2 DEF RouteEnd, RouteNone, RouteTaken, ScanRound, DrainDone, Settle
        <3>2. \A k \in Node, l \in Iteration : ns'[k][l] = ns[k][l] \/ ns'[k][l] = "skipped"
            BY <3>1 DEF Moved
        <3>3. \A k \in Node, l \in Iteration : Begun(k, l)' => Begun(k, l)
            BY <3>1, <3>2 DEF Begun, Started, Operable
        <3> QED
            BY <1>c, <2>r, <3>3, BranchFollowsKept
    <2>3. CASE DrainNotice
        <3>1. PICK n \in Node, i \in Iteration :
                ns[n][i] = "activated" /\ ns' = Moved({<<n, i>>}, "completed")
            BY <2>3 DEF DrainNotice
        <3>2. approval' = approval
            BY <2>3 DEF DrainNotice
        <3>3. \A k \in Node, l \in Iteration : Begun(k, l)' => Begun(k, l)
            BY <3>1, <3>2 DEF Moved, Begun, Started, Operable
        <3> QED
            BY <1>c, <2>r, <3>3, BranchFollowsKept
    <2> QED
        BY <1>1, <2>1, <2>2, <2>3 DEF Engine
<1>2. ASSUME NEW n \in Node, NEW i \in Iteration,
             Complete(n, i) \/ Takeover(n, i) \/ Suspend(n, i) \/ Resume(n, i)
      PROVE  BranchFollows'
    <2>1. RowsKept
        BY <1>i, <1>2, CommandKeepsRows, PauseKeepsRows DEF Pause, RowInv
    <2>2. /\ Begun(n, i) /\ approval' = approval
          /\ \E s : ns' = Moved({<<n, i>>}, s)
        BY <1>2 DEF Complete, Takeover, Suspend, Resume, Begun, Started, Operable
    <2>3. \A k \in Node, l \in Iteration : Begun(k, l)' => Begun(k, l)
        BY <2>2 DEF Moved, Begun
    <2> QED
        BY <1>c, <2>1, <2>3, BranchFollowsKept
<1>3. ASSUME NEW n \in Node, NEW i \in Iteration, NEW t \in Node, DeepReject(n, i, t)
      PROVE  BranchFollows'
    BY <1>c, <1>3, BranchFollowsAReplay
<1>4. CASE Cancel
    <2>1. RowsKept
        BY <1>i, <1>4, CommandKeepsRows
    <2>2. \A k \in Node, l \in Iteration : Begun(k, l)' => Begun(k, l)
        BY <1>4 DEF Cancel, Begun, Started, Operable
    <2> QED
        BY <1>c, <2>1, <2>2, BranchFollowsKept
<1>5. CASE Decide
    <2>1. PICK n \in Node, i \in Iteration :
            ApprovalBlocked(n, i) \/ ApprovalVote(n, i) \/ ApprovalDecided(n, i)
        BY <1>5 DEF Decide
    <2>2. RowsKept /\ \A m \in Node, j \in Iteration : Begun(m, j)' => Begun(m, j)
        BY <1>i, <1>5, <2>1, PauseKeepsRows, DecisionBeginsNothing DEF RowInv
    <2> QED
        BY <1>c, <2>2, BranchFollowsKept
<1>6. ASSUME NEW n \in Node, NEW i \in Iteration, TaskWrote(n, i)
      PROVE  BranchFollows'
    <2>1. RowsKept
        BY <1>i, <1>6, TasksKeepRows
    <2>2. \A m \in Node, j \in Iteration : Begun(m, j)' => Begun(m, j) \/ <<m, j>> \in stray'
        BY <1>6, TaskBeginsNothing
    <2> QED
        BY <1>c, <2>1, <2>2, BranchFollowsKept
<1>7. CASE UNCHANGED vars
    <2>1. ns' = ns /\ approval' = approval /\ stray' = stray
        BY <1>7 DEF vars, turn
    <2> QED
        BY <2>1 DEF BranchFollows, Begun, Exists
<1> QED
    BY <1>i, <1>1, <1>2, <1>3, <1>4, <1>5, <1>6, <1>7, TasksWrite DEF Next, Work, Pause

LEMMA DroppedIsKept ==
    ASSUME ClosedKept, ApprovalsKept, NEW n \in Node, NEW i \in Iteration, Dropped(n, i),
           <<n, i>> \notin stray'
    PROVE  Dropped(n, i)'
    BY DEF ClosedKept, ApprovalsKept, Dropped

LEMMA RivalsAreBranches ==
    ASSUME NEW n, NEW e, NEW f, Rivals(n, e, f)
    PROVE  /\ e[2] \in Node /\ f[2] \in Node /\ e[2] # f[2]
           /\ e \in Edge /\ f \in Edge /\ e = <<n, e[2]>> /\ f = <<n, f[2]>>
           /\ n \in Node /\ n # e[2] /\ n # f[2]
<1>1. e \in Edge /\ f \in Edge /\ e[1] = n /\ f[1] = n /\ e # f
    BY DEF Rivals, Out
<1>2. \A g \in Edge : g = <<g[1], g[2]>> /\ g[1] \in Node /\ g[2] \in Node
    BY GraphAssumption
<1>3. n # e[2] /\ n # f[2]
    BY <1>1, <1>2, NoWayBack DEF Rivals
<1> QED
    BY <1>1, <1>2, <1>3

\* The order of the routes is strict: at most one comes first.
LEMMA FirstIsUnique ==
    ASSUME NEW n, NEW E, E \subseteq Out(n), NEW e \in First(E), NEW f \in First(E)
    PROVE  e = f
<1> SUFFICES ASSUME e # f
             PROVE  FALSE
    OBVIOUS
<1>1. e \in Edge /\ f \in Edge /\ e[1] = n /\ f[1] = n
    BY DEF First, Out
<1>2. \A g \in Edge : g = <<g[1], g[2]>> /\ g[2] \in Node
    BY GraphAssumption
<1>3. e[2] # f[2]
    BY <1>1, <1>2
<1>4. Before(e, f) /\ Before(f, e)
    BY DEF First
<1>5. KeyOrder[e[2]] # KeyOrder[f[2]]
    BY <1>1, <1>2, <1>3, GraphAssumption
<1>6. /\ Priority[e] \in Nat /\ Priority[f] \in Nat
      /\ KeyOrder[e[2]] \in Nat /\ KeyOrder[f[2]] \in Nat
    BY <1>1, <1>2, GraphAssumption
<1> QED
    BY <1>4, <1>5, <1>6 DEF Before

LEMMA ExclusiveSelectsOne ==
    ASSUME NEW n, RoutingMode[n] = "exclusive", NEW tests \in SUBSET Conditional(n),
           NEW e \in Selected(n, tests), NEW f \in Selected(n, tests)
    PROVE  e = f
<1>1. PICK E \in SUBSET Out(n) : Selected(n, tests) = First(E)
    <2> DEFINE matched == {g \in Out(n) : Condition[g] = "always"} \cup tests
               fallback == First({g \in Out(n) : Condition[g] = "else"})
               candidates == IF matched # {} THEN matched ELSE fallback
    <2>1. candidates \in SUBSET Out(n)
        BY DEF Conditional, First
    <2>2. Selected(n, tests) = First(candidates)
        BY DEF Selected
    <2> QED
        BY <2>1, <2>2
<1> QED
    BY <1>1, FirstIsUnique

\* Steps that keep the rows, complete nothing in turn and are no routing.
LEMMA ChoiceKept ==
    ASSUME ChoiceInv, RowsKept, ClosedKept, ApprovalsKept, tx.stage # "route",
           stray \subseteq stray',
           \A n \in Node, i \in Iteration :
                ns'[n][i] = "completed" => ns[n][i] = "completed" \/ <<n, i>> \in stray'
    PROVE  ChoiceInv'
<1> SUFFICES ASSUME NEW n \in Node, NEW i \in Iteration, NEW e \in Edge, NEW f \in Edge,
                    Rivals(n, e, f)
             PROVE  /\ ~Exists(n, i)' => ~(Exists(e[2], i)' /\ Exists(f[2], i)')
                    /\ ns'[n][i] = "completed" /\ Straight(n, e, f, i)' =>
                            Dropped(e[2], i)' \/ Dropped(f[2], i)'
    BY DEF ChoiceInv, Rivals
<1>1. e[2] \in Node /\ f[2] \in Node
    BY RivalsAreBranches
<1>2. /\ ~Exists(n, i) => ~(Exists(e[2], i) /\ Exists(f[2], i))
      /\ ns[n][i] = "completed" /\ Straight(n, e, f, i) => Dropped(e[2], i) \/ Dropped(f[2], i)
    BY DEF ChoiceInv
<1>3. ~Exists(n, i)' => ~(Exists(e[2], i)' /\ Exists(f[2], i)')
    BY <1>1, <1>2 DEF RowsKept, Exists
<1> SUFFICES ASSUME ns'[n][i] = "completed", Straight(n, e, f, i)'
             PROVE  Dropped(e[2], i)' \/ Dropped(f[2], i)'
    BY <1>3
<1>4. /\ Straight(n, e, f, i) /\ ns[n][i] = "completed"
      /\ <<e[2], i>> \notin stray' /\ <<f[2], i>> \notin stray'
    BY DEF Straight
<1> QED
    BY <1>1, <1>2, <1>4, DroppedIsKept

LEMMA OpenedChoiceIsDue ==
    ASSUME ChoiceInv, BranchFollows, RowsKept, ClosedKept, ApprovalsKept, tx.stage # "route",
           stray \subseteq stray',
           NEW m \in Node, NEW j \in Iteration, NEW nested,
           Exists(m, j), ns[m][j] # "completed",
           \A k \in Node, l \in Iteration :
                ns'[k][l] = IF k = m /\ l = j THEN "completed" ELSE ns[k][l],
           tx' = Routing(m, j, nested),
           \A k \in Node, l \in Iteration : Begun(k, l)' => Begun(k, l) \/ <<k, l>> \in stray'
    PROVE  ChoiceInv'
<1>1. tx'.stage = "route" /\ tx'.node = m /\ tx'.iter = j
    BY DEF Routing, Idle
<1> SUFFICES ASSUME NEW n \in Node, NEW i \in Iteration, NEW e \in Edge, NEW f \in Edge,
                    Rivals(n, e, f)
             PROVE  /\ ~Exists(n, i)' => ~(Exists(e[2], i)' /\ Exists(f[2], i)')
                    /\ ns'[n][i] = "completed" /\ Straight(n, e, f, i)' =>
                          \/ /\ tx'.stage = "route" /\ tx'.node = n /\ tx'.iter = i
                             /\ ~Begun(e[2], i)' /\ ~Begun(f[2], i)'
                          \/ Dropped(e[2], i)' \/ Dropped(f[2], i)'
    BY DEF ChoiceInv, Rivals
<1>3. e[2] \in Node /\ f[2] \in Node /\ n # e[2] /\ n # f[2]
    BY RivalsAreBranches
<1>4. /\ ~Exists(n, i) => ~(Exists(e[2], i) /\ Exists(f[2], i))
      /\ ns[n][i] = "completed" /\ Straight(n, e, f, i) => Dropped(e[2], i) \/ Dropped(f[2], i)
    BY DEF ChoiceInv
<1>5. ~Exists(n, i)' => ~(Exists(e[2], i)' /\ Exists(f[2], i)')
    BY <1>3, <1>4 DEF RowsKept, Exists
<1> SUFFICES ASSUME ns'[n][i] = "completed", Straight(n, e, f, i)'
             PROVE  \/ /\ tx'.stage = "route" /\ tx'.node = n /\ tx'.iter = i
                       /\ ~Begun(e[2], i)' /\ ~Begun(f[2], i)'
                    \/ Dropped(e[2], i)' \/ Dropped(f[2], i)'
    BY <1>5
<1>6. /\ Straight(n, e, f, i)
      /\ <<n, i>> \notin stray'
      /\ <<e[2], i>> \notin stray' /\ <<f[2], i>> \notin stray'
    BY DEF Straight
<1>7. CASE n = m /\ i = j
    <2>1. Exists(n, i) /\ ns[n][i] # "completed"
        BY <1>7
    <2>2. <<n, i>> \notin stray /\ <<e[2], i>> \notin stray /\ <<f[2], i>> \notin stray
        BY <1>6
    <2>3. ~Begun(e[2], i) /\ ~Begun(f[2], i)
        BY <1>3, <2>1, <2>2 DEF BranchFollows, Rivals
    <2>4. ~Begun(e[2], i)' /\ ~Begun(f[2], i)'
        BY <1>3, <1>6, <2>3
    <2> QED
        BY <1>1, <1>7, <2>4
<1>8. CASE ~(n = m /\ i = j)
    <2>1. ns[n][i] = "completed"
        BY <1>8
    <2> QED
        BY <1>3, <1>4, <1>6, <2>1, DroppedIsKept
<1> QED
    BY <1>7, <1>8

\* The routing of the chooser drops all branches but one.
LEMMA RouteKeepsChoices ==
    ASSUME RowInv, ChoiceInv, ApprovalsKept,
           RouteEnd \/ RouteNone \/ RouteTaken
    PROVE  ChoiceInv'
<1>1. tx.stage = "route" /\ tx.iter \in Iteration /\ tx.node \in Node
    BY DEF RouteEnd, RouteNone, RouteTaken, RowInv, TypeOK, Transaction
<1>2. RowsKept /\ ClosedKept /\ stray' = stray
    BY EngineKeepsRows, EngineKeepsClosed
       DEF RowInv, Engine, RouteEnd, RouteNone, RouteTaken, turn
<1>3. \A n \in Node, i \in Iteration :
        ns'[n][i] = "completed" => ns[n][i] = "completed"
    <2>1. ns' = ns \/ \E S : ns' = Moved(S, "skipped")
        BY DEF RouteEnd, RouteNone, RouteTaken
    <2> QED
        BY <2>1 DEF Moved
<1>a. approval' = approval
    BY DEF RouteEnd, RouteNone, RouteTaken
<1> SUFFICES ASSUME NEW n \in Node, NEW i \in Iteration, NEW e \in Edge, NEW f \in Edge,
                    Rivals(n, e, f)
             PROVE  /\ ~Exists(n, i)' => ~(Exists(e[2], i)' /\ Exists(f[2], i)')
                    /\ ns'[n][i] = "completed" /\ Straight(n, e, f, i)' =>
                            Dropped(e[2], i)' \/ Dropped(f[2], i)'
    BY DEF ChoiceInv, Rivals
<1>4. /\ e[2] \in Node /\ f[2] \in Node /\ n # e[2] /\ n # f[2] /\ e # f
      /\ e = <<n, e[2]>> /\ f = <<n, f[2]>> /\ e \in Out(n) /\ f \in Out(n)
    BY RivalsAreBranches DEF Rivals
<1>5. ~Exists(n, i)' => ~(Exists(e[2], i)' /\ Exists(f[2], i)')
    BY <1>2, <1>4 DEF ChoiceInv, RowsKept, Exists
<1>s. Straight(n, e, f, i)' <=> Straight(n, e, f, i)
    BY <1>2 DEF Straight
<1> SUFFICES ASSUME ns[n][i] = "completed", Straight(n, e, f, i)
             PROVE  Dropped(e[2], i)' \/ Dropped(f[2], i)'
    BY <1>3, <1>5, <1>s
<1>6. CASE Dropped(e[2], i) \/ Dropped(f[2], i)
    BY <1>2, <1>4, <1>6, DroppedIsKept DEF Straight
<1>7. CASE ~Dropped(e[2], i) /\ ~Dropped(f[2], i)
    <2>1. /\ tx.node = n /\ tx.iter = i
          /\ ~Begun(e[2], i) /\ ~Begun(f[2], i)
        BY <1>7 DEF ChoiceInv
    <2>2. ns[e[2]][i] \in EngineState /\ ns[f[2]][i] \in EngineState
        BY <1>4 DEF RowInv, TypeOK
    <2>3. ns[e[2]][i] # "absent" /\ ns[f[2]][i] # "absent"
        <3>1. Exists(e[1], i) /\ e[1] = n /\ Exists(f[1], i) /\ f[1] = n
            BY <1>4 DEF Exists
        <3> QED
            BY <3>1 DEF RowInv, IterationsAreClosed, Exists
    <2>4. ns[e[2]][i] = "pending" /\ ns[f[2]][i] = "pending"
        BY <1>7, <2>1, <2>2, <2>3 DEF EngineState, Begun, Started, Operable, Dropped
    <2>a. approval'[e[2]][i] = "none" /\ approval'[f[2]][i] = "none"
        BY <1>a, <2>1 DEF Begun
    <2>5. CASE RouteEnd
        BY <1>4, <2>1, <2>5 DEF RouteEnd
    <2>6. CASE RouteNone
        <3>1. ns'[e[2]][i] = "skipped"
            BY <1>4, <2>1, <2>4, <2>6 DEF RouteNone, Moved
        <3> QED
            BY <2>a, <3>1 DEF Dropped
    <2>7. CASE RouteTaken
        <3>1. PICK tests \in SUBSET Conditional(tx.node) :
                ns' = Moved(Lost({g[2] : g \in Selected(tx.node, tests)},
                                 {g[2] : g \in Out(tx.node)}
                                        \ {g[2] : g \in Selected(tx.node, tests)},
                                 tx.iter) \X {tx.iter}, "skipped")
            BY <2>7 DEF RouteTaken
        <3> DEFINE selected == Selected(n, tests)
        <3>2. selected \subseteq Out(n)
            BY <2>1 DEF Selected, First, Conditional
        <3>3. ~(e \in selected /\ f \in selected)
            BY <1>4, <2>1, <3>1, ExclusiveSelectsOne DEF Rivals
        <3> HIDE DEF selected
        <3>4. ASSUME NEW g \in {e, f}, g \notin selected
              PROVE  ns'[g[2]][i] = "skipped"
            <4>1. /\ g[2] \in Node /\ Pred(g[2]) = {n} /\ ns[g[2]][i] = "pending"
                  /\ <<n, g[2]>> \notin selected
                BY <1>4, <2>4, <3>4 DEF Rivals
            <4>2. g[2] \in Lost({h[2] : h \in selected},
                                {h[2] : h \in Out(n)} \ {h[2] : h \in selected}, i)
                BY <3>2, <4>1, BranchIsTakenOrLost
            <4> QED
                BY <2>1, <3>1, <4>1, <4>2 DEF Moved, selected
        <3> QED
            BY <2>a, <3>3, <3>4 DEF Dropped
    <2> QED
        BY <2>5, <2>6, <2>7
<1> QED
    BY <1>6, <1>7

\* A row brings the rows of everything its node leads to.
LEMMA RowsReachDown ==
    ASSUME IterationsAreClosed, NEW m \in Node, NEW i \in Iteration, Exists(m, i)
    PROVE  \A k \in Reachable({m}) : Exists(k, i)
<1> DEFINE C == {k \in Node : Exists(k, i)}
<1>1. C \in SUBSET Node /\ {m} \subseteq C
    OBVIOUS
<1>2. Closed(C)
    BY GraphAssumption DEF Closed, IterationsAreClosed
<1> QED
    BY <1>1, <1>2, ReachableIsLeastClosed

LEMMA DeepRejectKeepsChoices ==
    ASSUME RowInv, ChoiceInv, ClosedKept, ApprovalsKept,
           \A n \in Node, e, f \in Edge : Rivals(n, e, f) =>
                Reachable({e[2]}) \cap Reachable({f[2]}) # {},
           NEW k \in Node, NEW l \in Iteration, NEW t \in Node, DeepReject(k, l, t)
    PROVE  ChoiceInv'
<1> DEFINE next == NextIteration(t)
           R == Reachable({t})
<1>1. /\ next \in Iteration /\ next > 1
      /\ \A m \in R : m \in Node /\ Exists(m, next - 1)
      /\ \A m \in R, j \in Iteration : j >= next => ns[m][j] = "absent"
      /\ \A m \in Node, j \in Iteration :
            ns'[m][j] = IF m \notin R THEN ns[m][j]
                        ELSE IF j = next THEN ReplayState(m, t)
                        ELSE IF ns[m][j] \in Stale THEN "terminated" ELSE ns[m][j]
    <2>1. Appended(t)
        BY DeepRejectAppends DEF RowInv
    <2> QED
        BY <2>1 DEF Appended
<1>2. /\ {t} \subseteq R /\ Closed(R)
      /\ \A m \in R : m # t => \E p \in R : p \in Pred(m)
    BY ReachableIsLeastClosed, ReplayedHasSource
<1>3. \A m \in Node, j \in Iteration : ns'[m][j] = "completed" <=> ns[m][j] = "completed"
    BY DeepRejectKeepsCompleted DEF RowInv
<1>4. \A m \in R : Reachable({m}) \subseteq R
    <2>1. R \in SUBSET Node
        BY ReachableIsLeastClosed
    <2> QED
        BY <1>2, <2>1, ReachableIsLeastClosed
<1>5. tx.stage = "idle" /\ next \in Iteration
    BY <1>1 DEF DeepReject
<1> HIDE DEF next, R
<1>6. \A m \in Node, j \in Iteration :
        Exists(m, j)' <=> Exists(m, j) \/ (m \in R /\ j = next)
    BY <1>1 DEF Exists, ReplayState, Stale
<1>7. \A m \in R : ~Exists(m, next)
    BY <1>1 DEF Exists, Iteration
\* Neither branch alone is new where the other exists.
<1>8. ASSUME NEW n \in Node, NEW e \in Edge, NEW f \in Edge, Rivals(n, e, f),
             e[2] \in R, NEW j \in Iteration, j = next, Exists(f[2], j)'
      PROVE  n \in R
    <2>1. e[2] \in Node /\ f[2] \in Node /\ e[2] # f[2]
        BY <1>8, RivalsAreBranches
    <2>2. CASE f[2] \in R
        <3>1. e[2] # t \/ f[2] # t
            BY <2>1
        <3> QED
            BY <1>2, <1>8, <2>2, <3>1 DEF Rivals
    <2>3. CASE f[2] \notin R
        <3>1. Exists(f[2], next)
            BY <1>5, <1>6, <1>8, <2>1, <2>3
        <3>2. PICK m : m \in Reachable({e[2]}) /\ m \in Reachable({f[2]})
            BY <1>8
        <3>3. m \in R
            BY <1>4, <1>8, <3>2
        <3>4. Exists(m, next)
            BY <1>1, <2>1, <3>1, <3>2, RowsReachDown DEF RowInv
        <3> QED
            BY <1>7, <3>3, <3>4
    <2> QED
        BY <2>2, <2>3
<1> SUFFICES ASSUME NEW n \in Node, NEW i \in Iteration, NEW e \in Edge, NEW f \in Edge,
                    Rivals(n, e, f)
             PROVE  /\ ~Exists(n, i)' => ~(Exists(e[2], i)' /\ Exists(f[2], i)')
                    /\ ns'[n][i] = "completed" /\ Straight(n, e, f, i)' =>
                            Dropped(e[2], i)' \/ Dropped(f[2], i)'
    BY DEF ChoiceInv, Rivals
<1>9. e[2] \in Node /\ f[2] \in Node
    BY RivalsAreBranches
<1>10. Rivals(n, f, e)
    BY DEF Rivals
<1>11. ASSUME ~Exists(n, i)', Exists(e[2], i)', Exists(f[2], i)'
       PROVE  FALSE
    <2>1. ~Exists(n, i) /\ ~(n \in R /\ i = next)
        BY <1>6, <1>11
    <2>2. ~(Exists(e[2], i) /\ Exists(f[2], i))
        BY <2>1 DEF ChoiceInv
    <2>3. i = next /\ (e[2] \in R \/ f[2] \in R)
        BY <1>6, <1>9, <1>11, <2>2
    <2>4. CASE e[2] \in R
        BY <1>8, <1>11, <2>1, <2>3, <2>4
    <2>5. CASE f[2] \in R
        BY <1>8, <1>10, <1>11, <2>1, <2>3, <2>5
    <2> QED
        BY <2>3, <2>4, <2>5
<1>12. ns'[n][i] = "completed" /\ Straight(n, e, f, i)' =>
            Dropped(e[2], i)' \/ Dropped(f[2], i)'
    <2> SUFFICES ASSUME ns'[n][i] = "completed", Straight(n, e, f, i)'
                 PROVE  Dropped(e[2], i)' \/ Dropped(f[2], i)'
        OBVIOUS
    <2>1. stray' = stray
        BY DEF DeepReject, turn
    <2>2. Straight(n, e, f, i) /\ <<e[2], i>> \notin stray' /\ <<f[2], i>> \notin stray'
        BY <2>1 DEF Straight
    <2>3. Dropped(e[2], i) \/ Dropped(f[2], i)
        BY <1>3, <1>5, <2>2 DEF ChoiceInv
    <2> QED
        BY <1>9, <2>2, <2>3, DroppedIsKept
<1> QED
    BY <1>11, <1>12

\* When the branches of every exclusive choice meet again, two branches that only
\* the choice can start never both start in one iteration, whatever is replayed,
\* paused or decided late, unless the choice or one of them is written out of turn.
\* (Where they never meet, deep rejects to one that was
\* paused through a replay and to the other can open both.)
THEOREM ChoicesAreExclusive ==
    ASSUME \A n \in Node, e, f \in Edge : Rivals(n, e, f) =>
                Reachable({e[2]}) \cap Reachable({f[2]}) # {}
    PROVE  Spec => []ChoiceIsExclusive
<1> DEFINE Inv == ApprovalHasStarted /\ EarnedInv /\ BranchFollows /\ ChoiceInv
<1>1. Init => Inv
    <2> SUFFICES ASSUME Init
                 PROVE  BranchFollows /\ ChoiceInv
        BY ApprovalsStartInitially, EarnedIsInitial
    <2>1. \A n \in Node, i \in Iteration : ns[n][i] # "completed" /\ (Exists(n, i) <=> i = 1)
        BY DEF Init, Exists, Iteration
    <2>2. BranchFollows
        <3>1. \A n \in Node, i \in Iteration : Begun(n, i) => n \in StartNodes
            BY DEF Init, Begun, Started, Operable
        <3>2. \A s, p \in Node : Pred(p) = {s} => p \notin StartNodes
            BY DEF StartNodes
        <3> QED
            BY <3>1, <3>2 DEF BranchFollows
    <2> SUFFICES ASSUME NEW n \in Node, NEW i \in Iteration, NEW e \in Edge, NEW f \in Edge,
                        Rivals(n, e, f)
                 PROVE  ~Exists(n, i) => ~Exists(e[2], i)
        BY <2>1, <2>2 DEF ChoiceInv
    <2> QED
        BY <2>1, RivalsAreBranches
<1>2. RowInv /\ Inv /\ [Next]_vars => Inv'
    <2> SUFFICES ASSUME RowInv, ApprovalHasStarted, EarnedInv, BranchFollows, ChoiceInv,
                        [Next]_vars
                 PROVE  ChoiceInv'
        BY ApprovalsAreStarted, EarnedIsInductive, BranchFollowsIsInductive
    <2>c. ClosedKept /\ ApprovalsKept /\ stray \subseteq stray'
        BY ClosedIsKept, ApprovalsAreStarted, StraysAreKept DEF RowInv
    <2>i. TypeOK /\ TodoIsPending /\ ApprovalHasNode /\ CompletedIsDecided
        BY DEF RowInv
    <2>1. CASE Engine
        <3>r. RowsKept
            BY <2>i, <2>1, EngineKeepsRows
        <3>1. CASE RouteEnd \/ RouteNone \/ RouteTaken
            BY <2>c, <3>1, RouteKeepsChoices
        <3>2. CASE Scan
            <4>1. PICK m \in Node : ScanFail(m) \/ ScanSkip(m) \/ ScanActivate(m) \/ ScanWait(m)
                BY <3>2 DEF Scan
            <4>2. \A n \in Node, i \in Iteration :
                    ns'[n][i] = "completed" => ns[n][i] = "completed"
                <5>1. CASE ScanFail(m) \/ ScanWait(m)
                    BY <5>1 DEF ScanFail, ScanWait
                <5>2. CASE ScanSkip(m)
                    BY <5>2 DEF ScanSkip, Moved
                <5>3. CASE ScanActivate(m)
                    BY <5>3 DEF ScanActivate
                <5> QED
                    BY <4>1, <5>1, <5>2, <5>3
            <4>3. tx.stage # "route"
                BY <3>2 DEF Scan
            <4> QED
                BY <2>c, <3>r, <4>2, <4>3, ChoiceKept
        <3>3. CASE ScanRound \/ DrainDone \/ Settle
            <4>1. ns' = ns /\ tx.stage # "route"
                BY <3>3 DEF ScanRound, DrainDone, Settle
            <4> QED
                BY <2>c, <3>r, <4>1, ChoiceKept
        <3>4. CASE DrainNotice
            <4>1. PICK n \in Node, i \in Iteration, nested \in BOOLEAN :
                    /\ ns[n][i] = "activated"
                    /\ ns' = Moved({<<n, i>>}, "completed")
                    /\ tx' = Routing(n, i, nested)
                BY <3>4 DEF DrainNotice
            <4>2. tx.stage # "route" /\ approval' = approval /\ Exists(n, i)
                BY <3>4, <4>1 DEF DrainNotice, Exists
            <4>3. \A m \in Node, j \in Iteration : Begun(m, j)' => Begun(m, j)
                BY <4>1, <4>2 DEF Moved, Begun, Started, Operable
            <4>4. \A m \in Node, j \in Iteration :
                    ns'[m][j] = IF m = n /\ j = i THEN "completed" ELSE ns[m][j]
                BY <4>1 DEF Moved
            <4> QED
                BY <2>c, <3>r, <4>1, <4>2, <4>3, <4>4, OpenedChoiceIsDue
        <3> QED
            BY <2>1, <3>1, <3>2, <3>3, <3>4 DEF Engine
    <2>2. ASSUME NEW n \in Node, NEW i \in Iteration, Complete(n, i)
          PROVE  ChoiceInv'
        <3>1. RowsKept
            BY <2>i, <2>2, CommandKeepsRows
        <3>2. /\ ns[n][i] = "activated" /\ Exists(n, i) /\ tx.stage # "route"
              /\ ns' = Moved({<<n, i>>}, "completed") /\ tx' = Routing(n, i, FALSE)
              /\ approval' = approval
            BY <2>2 DEF Complete, Exists
        <3>3. \A m \in Node, j \in Iteration : Begun(m, j)' => Begun(m, j)
            BY <3>2 DEF Moved, Begun, Started, Operable
        <3>4. \A m \in Node, j \in Iteration :
                ns'[m][j] = IF m = n /\ j = i THEN "completed" ELSE ns[m][j]
            BY <3>2 DEF Moved
        <3> QED
            BY <2>c, <3>1, <3>2, <3>3, <3>4, OpenedChoiceIsDue
    <2>3. ASSUME NEW n \in Node, NEW i \in Iteration,
                 Takeover(n, i) \/ Suspend(n, i) \/ Resume(n, i)
          PROVE  ChoiceInv'
        <3>1. RowsKept
            BY <2>i, <2>3, CommandKeepsRows, PauseKeepsRows DEF Pause
        <3>2. /\ \E s \in {"activated", "acknowledged", "suspended"} : ns' = Moved({<<n, i>>}, s)
              /\ tx.stage # "route"
            BY <2>i, <2>3 DEF Takeover, Suspend, Resume, TypeOK, Operable
        <3>3. \A m \in Node, j \in Iteration : ns'[m][j] = "completed" => ns[m][j] = "completed"
            BY <3>2 DEF Moved
        <3> QED
            BY <2>c, <3>1, <3>2, <3>3, ChoiceKept
    <2>4. ASSUME NEW n \in Node, NEW i \in Iteration, NEW t \in Node, DeepReject(n, i, t)
          PROVE  ChoiceInv'
        BY <2>c, <2>4, DeepRejectKeepsChoices
    <2>5. CASE Cancel
        <3>1. RowsKept /\ tx.stage # "route"
            BY <2>i, <2>5, CommandKeepsRows DEF Cancel
        <3>2. \A m \in Node, j \in Iteration : ns'[m][j] = "completed" => ns[m][j] = "completed"
            BY <2>5 DEF Cancel
        <3> QED
            BY <2>c, <3>1, <3>2, ChoiceKept
    <2>6. CASE Decide
        <3>1. PICK n \in Node, i \in Iteration :
                ApprovalBlocked(n, i) \/ ApprovalVote(n, i) \/ ApprovalDecided(n, i)
            BY <2>6 DEF Decide
        <3>2. /\ RowsKept
              /\ \A m \in Node, j \in Iteration : Begun(m, j)' => Begun(m, j)
            BY <2>i, <2>6, <3>1, PauseKeepsRows, DecisionBeginsNothing
        <3>3. tx.stage # "route" /\ approval[n][i] = "open"
            BY <3>1 DEF ApprovalBlocked, ApprovalVote, ApprovalDecided
        <3>4. CASE ApprovalDecided(n, i)
            <4>1. Exists(n, i) /\ ns[n][i] # "completed"
                BY <2>i, <3>3, <3>4 DEF ApprovalHasNode, ApprovalDecided
            <4>2. ns' = Moved({<<n, i>>}, "completed") /\ tx' = Routing(n, i, FALSE)
                BY <3>4 DEF ApprovalDecided
            <4>3. \A m \in Node, j \in Iteration :
                    ns'[m][j] = IF m = n /\ j = i THEN "completed" ELSE ns[m][j]
                BY <4>2 DEF Moved
            <4> QED
                BY <2>c, <3>2, <3>3, <4>1, <4>2, <4>3, OpenedChoiceIsDue
        <3>5. CASE ~ApprovalDecided(n, i)
            <4>1. \E s \in {"suspended", "acknowledged"} : ns' = Moved({<<n, i>>}, s)
                BY <3>1, <3>5 DEF ApprovalBlocked, ApprovalVote
            <4>2. \A m \in Node, j \in Iteration :
                    ns'[m][j] = "completed" => ns[m][j] = "completed"
                BY <4>1 DEF Moved
            <4> QED
                BY <2>c, <3>2, <3>3, <4>2, ChoiceKept
        <3> QED
            BY <3>4, <3>5
    <2>7. ASSUME NEW n \in Node, NEW i \in Iteration, TaskWrote(n, i)
          PROVE  ChoiceInv'
        <3>1. RowsKept
            BY <2>i, <2>7, TasksKeepRows
        <3>2. \A m \in Node, j \in Iteration : Begun(m, j)' => Begun(m, j) \/ <<m, j>> \in stray'
            BY <2>7, TaskBeginsNothing
        <3>3. /\ tx.stage # "route"
              /\ \A m \in Node, j \in Iteration : m # n \/ j # i => ns'[m][j] = ns[m][j]
            BY <2>7 DEF TaskWrote
        <3>4. CASE ns'[n][i] # "completed" \/ <<n, i>> \in stray'
            <4>1. \A m \in Node, j \in Iteration :
                    ns'[m][j] = "completed" => ns[m][j] = "completed" \/ <<m, j>> \in stray'
                BY <3>3, <3>4
            <4> QED
                BY <2>c, <3>1, <3>3, <4>1, ChoiceKept
        <3>5. CASE ns'[n][i] = "completed" /\ <<n, i>> \notin stray'
            <4>1. /\ ns[n][i] \in Operable
                  /\ ns'[n][i] \in Operable \/ tx' = Routing(n, i, FALSE)
                BY <2>7, <3>5 DEF TaskWrote
            <4>2. /\ Exists(n, i) /\ ns[n][i] # "completed"
                  /\ tx' = Routing(n, i, FALSE)
                BY <3>5, <4>1 DEF Operable, Exists
            <4>3. \A m \in Node, j \in Iteration :
                    ns'[m][j] = IF m = n /\ j = i THEN "completed" ELSE ns[m][j]
                BY <3>3, <3>5
            <4> QED
                BY <2>c, <3>1, <3>2, <3>3, <4>2, <4>3, OpenedChoiceIsDue
        <3> QED
            BY <3>4, <3>5
    <2>8. CASE UNCHANGED vars
        <3>1. ns' = ns /\ tx' = tx /\ approval' = approval /\ stray' = stray
            BY <2>8 DEF vars, turn
        <3> QED
            BY <3>1 DEF ChoiceInv, Rivals, Begun, Dropped, Exists, Straight
    <2> QED
        BY <2>i, <2>1, <2>2, <2>3, <2>4, <2>5, <2>6, <2>7, <2>8, TasksWrite DEF Next, Work, Pause
<1>3. RowInv /\ Inv => ChoiceIsExclusive
    <2> SUFFICES ASSUME RowInv, BranchFollows, ChoiceInv, NEW n \in Node, NEW i \in Iteration,
                        NEW e \in Out(n), NEW f \in Out(n), Rivals(n, e, f),
                        ns[e[2]][i] \in Started, ns[f[2]][i] \in Started,
                        {<<n, i>>, <<e[2], i>>, <<f[2], i>>} \cap stray = {}
                 PROVE  FALSE
        BY DEF ChoiceIsExclusive, Rivals
    <2>1. e \in Edge /\ f \in Edge /\ e[2] \in Node /\ f[2] \in Node
        BY RivalsAreBranches
    <2>2. Exists(e[2], i) /\ Exists(f[2], i)
        BY DEF Exists, Started, Operable
    <2>3. Exists(n, i) /\ Straight(n, e, f, i)
        BY <2>1, <2>2 DEF ChoiceInv, Straight
    <2>4. ns[n][i] = "completed"
        BY <2>1, <2>3 DEF BranchFollows, Begun, Rivals, Straight
    <2>5. Dropped(e[2], i) \/ Dropped(f[2], i)
        BY <2>1, <2>3, <2>4 DEF ChoiceInv, Begun
    <2> QED
        BY <2>5 DEF Dropped, Started, Operable
<1> QED
    BY <1>1, <1>2, <1>3, RowsAreSound, PTL DEF Spec
=============================================================================
